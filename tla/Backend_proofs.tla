---------------------------- MODULE Backend_proofs ----------------------------
(***************************************************************************)
(* Proofs about two parts that need nothing of the others and share no     *)
(* name.                                                                   *)
(*                                                                         *)
(* YggToken, for any number of users, profiles, requests and tokens and    *)
(* every deployment: its types, that a replaced token is replaced once,    *)
(* that revocations reach the cache, and the bound on active tokens.       *)
(*                                                                         *)
(* BackgroundRuntime, for any number of nodes, mails, kinds and faults and *)
(* every workload: a slot leaves one record, the latest record tells the   *)
(* last run, a mail is sent again only after its processing went stale,    *)
(* the audit log loses no event but those whose write failed or that a     *)
(* crash took, and the drain of a shutdown leaves no mail untried.         *)
(***************************************************************************)
EXTENDS YggToken, BackgroundRuntime, FiniteSetTheorems, SequenceTheorems, WellFoundedInduction, TLAPS

-----------------------------------------------------------------------------
(* Yggdrasil tokens: the inductive invariant *)

\* A handler past its lookup knows the token, and the row it resolved to; a
\* handler about to commit has a token to issue.
Shaped(j) ==
    /\ j.at \in {"find", "fill", "check", "revokefind", "revoke"} => j.tok \in Tok
    /\ j.at \in {"fill", "check"} => j.copy \in Row
    /\ j.at = "commit" => j.new \in Tok

JobShape == \A p \in Proc : Shaped(job[p])

\* The token is not issued yet, or only in a transaction that is still open.
Pending(t) ==
    t >= next \/ \E p \in Proc : job[p].at = "commit" /\ job[p].new = t

\* Nobody outside its transaction knows a pending token.
PendingUnseen ==
    \A t \in Tok : Pending(t) =>
        /\ rows[t] = NULL /\ child[t] = {}
        /\ t \notin known /\ t \notin acked \cup renamed

\* Open transactions issue different tokens, numbered below the next one.
IssuesApart ==
    \A p \in Proc : job[p].at = "commit" =>
        /\ job[p].new < next
        /\ \A q \in Proc : job[q].at = "commit" /\ job[p].new = job[q].new => p = q

\* The token is deleted, revoked or temporarily invalidated; this is final.
HasEnded(t) == rows[t] = NULL \/ rows[t].revoked \/ rows[t].temp

Gone(t) == rows[t] = NULL \/ rows[t].revoked

\* What a handler relies on, by the point it has reached.
JobSound(j) ==
    /\ j.at \in {"find", "fill", "check", "revokefind", "revoke", "list", "commit"}
       /\ j.tok # 0 => ~Pending(j.tok)
    /\ j.at = "commit" => \A t \in j.hashes : t = j.new \/ ~Pending(t)
    /\ j.at = "signout" =>
         /\ \A t \in j.vouch : /\ ~Pending(t) /\ t \in j.hashes
                               /\ rows[t] = NULL \/ rows[t].user = j.user
         /\ \A t \in j.before : ~Pending(t) /\ Gone(t)
    /\ j.at = "relist" =>
         \A t \in j.vouch :
           /\ ~Pending(t)
           /\ \/ rows[t] = NULL
              \/ /\ rows[t].revoked /\ rows[t].user = j.user
                 /\ t \in j.hashes \/ t \notin j.before
    /\ j.at = "rename" =>
         \A t \in j.vouch :
           /\ ~Pending(t) /\ t \in j.hashes
           /\ Gone(t) \/ rows[t].sel = j.sel \/ j.sel \notin profiles
    /\ j.at = "purge" =>
         /\ \A t \in j.vouch : ~Pending(t) /\ HasEnded(t) /\ (t \in j.hashes \/ rows[t] = NULL)
         /\ j.new # 0 => ~Pending(j.new)

JobsSound == \A p \in Proc : JobSound(job[p])

\* A token that a completed operation has ended: its row is ended, and what is
\* cached of it is ended too or was outdated when it was written.
EndedInCache ==
    \A t \in acked \cup renamed :
        /\ HasEnded(t)
        /\ \/ cache[t] = NULL \/ cache[t].late \/ rows[t] = NULL
           \/ cache[t].row.revoked \/ cache[t].row.temp

\* Serial transactions: one at a time, and the token it redeems has no
\* replacement.
SerialInv ==
    mode.serial =>
        /\ \A p, q \in Proc : InTxn(p) /\ InTxn(q) => p = q
        /\ \A p \in Proc : InTxn(p) /\ job[p].tok # 0 => child[job[p].tok] = {}

\* What a user keeps when a serial transaction commits is within the bound.
KeepBound ==
    mode.serial =>
        \A p \in Proc : job[p].at = "commit" =>
            Cardinality(((ActiveOf(job[p].user) \ {job[p].tok}) \cup {job[p].new})
                        \ job[p].hashes) <= mode.active

-----------------------------------------------------------------------------
(* Types *)

\* What follows from the assumption on deployments.
LEMMA ModeType ==
    ASSUME NEW m \in Modes
    PROVE  /\ m.active \in Nat \ {0} /\ m.tokens \in 0..MaxTok
           /\ m.profiles \subseteq Profiles /\ m.serial \in BOOLEAN
           /\ m.ops \subseteq Op \ {"none"}
  BY YggAssumption

\* An idle request is well typed.
LEMMA IdleJobType == IdleJob \in Job /\ Shaped(IdleJob) /\ IdleJob.at = "idle"
  BY DEF IdleJob, Job, Label, Op, Shaped

\* Token numbers are naturals above zero.
LEMMA TokType == MaxTok \in Nat /\ Tok \subseteq Nat /\ 0 \notin Tok
  BY YggAssumption DEF Tok

\* A request that goes on with a well-formed job.
LEMMA Moves ==
    ASSUME TokensTyped, JobShape, NEW p \in Proc, NEW k \in Job, Shaped(k), Goto(p, k)
    PROVE  /\ job' \in [Proc -> Job] /\ JobShape'
           /\ job'[p] = k /\ \A q \in Proc \ {p} : job'[q] = job[q]
<1>1. /\ job' \in [Proc -> Job]
      /\ job'[p] = k /\ \A q \in Proc \ {p} : job'[q] = job[q]
  BY DEF TokensTyped, Goto
<1>2. JobShape'
  <2> SUFFICES ASSUME NEW q \in Proc PROVE Shaped(job'[q])
    BY DEF JobShape, Shaped
  <2> QED BY <1>1 DEF JobShape
<1> QED BY <1>1, <1>2

\* A request that ends.
LEMMA Ends ==
    ASSUME TokensTyped, JobShape, NEW p \in Proc, Finish(p)
    PROVE  /\ job' \in [Proc -> Job] /\ JobShape'
           /\ job'[p] = IdleJob /\ \A q \in Proc \ {p} : job'[q] = job[q]
  BY Moves, IdleJobType DEF Finish, Goto

\* The table after a revocation, and the cache after a deletion, keep their types.
LEMMA TableTypes ==
    ASSUME TokensTyped, NEW ts
    PROVE  /\ Revoking(ts) \in [Tok -> Row \cup {NULL}]
           /\ Purging(ts) \in [Tok -> Entry \cup {NULL}]
           /\ \A u : ActiveOf(u) \subseteq Tok
           /\ \A f : ActiveFor(f) \subseteq Tok
           /\ RevokedRows \subseteq Tok
<1>1. \A r \in Row : [r EXCEPT !.revoked = TRUE] \in Row
  BY DEF Row
<1>2. Revoking(ts) \in [Tok -> Row \cup {NULL}]
  BY <1>1 DEF TokensTyped, Revoking
<1>3. Purging(ts) \in [Tok -> Entry \cup {NULL}]
  BY DEF TokensTyped, Purging
<1> QED BY <1>2, <1>3 DEF ActiveOf, ActiveFor, RevokedRows

\* The jobs that lookups lead to.
LEMMA ResolveType ==
    ASSUME TokensTyped, NEW p \in Proc, NEW t \in Tok,
           NEW op \in {"validate", "refresh", "invalidate"}, NEW row \in Row
    PROVE  LET k == Resolve(p, t, op, row)
           IN  /\ k \in Job /\ Shaped(k)
               /\ k.at \in {"idle", "fill", "revokefind"}
               /\ k.at # "idle" => k.tok = t /\ k.op = op
<1> DEFINE a == [IdleJob EXCEPT !.op = op, !.tok = t]
<1>1. a \in Job /\ a.tok = t /\ a.op = op
  BY IdleJobType DEF IdleJob, Job, Op
<1> HIDE DEF a
<1> DEFINE k1 == [a EXCEPT !.at = "fill", !.copy = row]
           k2 == [a EXCEPT !.at = "revokefind"]
<1>2. k1 \in Job /\ k1.at = "fill" /\ k1.tok = t /\ k1.op = op /\ k1.copy = row
  BY <1>1 DEF Job, Label
<1>3. k2 \in Job /\ k2.at = "revokefind" /\ k2.tok = t /\ k2.op = op
  BY <1>1 DEF Job, Label
<1>4. Resolve(p, t, op, row) \in {k1, k2, IdleJob}
  BY DEF Resolve, a
<1> HIDE DEF k1, k2
<1>5. Shaped(k1) /\ Shaped(k2)
  BY <1>2, <1>3 DEF Shaped
<1> QED BY <1>2, <1>3, <1>4, <1>5, IdleJobType

\* A rejected lookup.
LEMMA RejectType ==
    ASSUME TokensTyped, NEW p \in Proc, job[p].tok \in Tok
    PROVE  /\ AfterReject(p) \in Job /\ Shaped(AfterReject(p))
           /\ AfterReject(p).at \in {"idle", "revokefind"}
           /\ AfterReject(p).at # "idle" => AfterReject(p).tok = job[p].tok
<1> DEFINE k == [job[p] EXCEPT !.at = "revokefind", !.copy = NULL]
<1>0. job[p] \in Job
  BY DEF TokensTyped
<1>1. k \in Job /\ k.at = "revokefind" /\ k.tok = job[p].tok
  BY <1>0 DEF Job, Label
<1>2. AfterReject(p) \in {k, IdleJob}
  BY DEF AfterReject
<1> HIDE DEF k
<1> QED BY <1>1, <1>2, IdleJobType DEF Shaped

\* What is left after the rows are written.
LEMMA PurgeJobType ==
    ASSUME NEW op \in Op, NEW hashes \in SUBSET Tok, NEW vouch \in SUBSET Tok,
           NEW new \in Tok \cup {0}
    PROVE  LET k == PurgeJob(op, hashes, vouch, new)
           IN  /\ k \in Job /\ Shaped(k) /\ k.at = "purge" /\ k.op = op
               /\ k.hashes = hashes /\ k.vouch = vouch /\ k.new = new
  BY DEF PurgeJob, IdleJob, Job, Label, Shaped

-----------------------------------------------------------------------------
(* What a request does next *)

\* Points at which a handler holds nothing the properties depend on.
Plain == {"idle", "textures", "delprofile", "userlist", "userrevoke", "userpurge",
          "userdelete"}

OnToken == {"find", "fill", "check", "revokefind", "revoke"}

\* Where the job k of request p comes from.
EntersToken(p, k) ==
    /\ k.at \in OnToken
    /\ \/ k.tok \in known
       \/ job[p].at \in OnToken /\ k.tok = job[p].tok

EntersList(p, k) ==
    /\ k.at = "list" /\ TxnFree(p)
    /\ \/ k.tok = 0
       \/ job[p].at = "check" /\ k.tok = job[p].tok /\ Unrevoked(k.tok)

EntersCommit(p, k) ==
    /\ k.at = "commit" /\ job[p].at = "list"
    /\ k.tok = job[p].tok /\ k.user = job[p].user /\ k.new = next
    /\ next \in Tok
    /\ k.hashes = Pruned((ActiveOf(job[p].user) \ {job[p].tok}) \cup {next})
    /\ next' = next + 1

EntersSignout(p, k) ==
    /\ k.at = "signout"
    /\ k.hashes = ActiveOf(k.user) /\ k.vouch = ActiveOf(k.user) /\ k.before = RevokedRows
    /\ rows' = rows

EntersRelist(p, k) ==
    /\ k.at = "relist" /\ job[p].at = "signout"
    /\ k.user = job[p].user /\ k.hashes = job[p].hashes /\ k.before = job[p].before
    /\ k.vouch = job[p].vouch \cup ActiveOf(job[p].user)
    /\ rows' = Revoking(ActiveOf(job[p].user))

EntersRename(p, k) ==
    /\ k.at = "rename"
    /\ k.hashes = ActiveFor(k.sel) /\ k.vouch = ActiveFor(k.sel)
    /\ rows' = rows

EntersPurge(p, k) ==
    /\ k.at = "purge"
    /\ \/ /\ IssueCommit(p) /\ k.new = job[p].new
          /\ k.hashes = job[p].hashes \cup ({job[p].tok} \ {0})
          /\ k.vouch = k.hashes
       \/ /\ job[p].at \in {"revokefind", "revoke"} /\ k.new = 0
          /\ k.vouch = {job[p].tok} /\ k.hashes = {job[p].tok}
          /\ \/ ~Unrevoked(job[p].tok) /\ rows' = rows
             \/ rows' = Revoking({job[p].tok})
       \/ /\ job[p].at = "relist" /\ k.new = 0 /\ rows' = rows
          /\ k.vouch = job[p].vouch
          /\ k.hashes = job[p].hashes
                          \cup ({t \in RevokedRows : rows[t].user = job[p].user}
                                \ job[p].before)
       \/ /\ RenameCommit(p) /\ k.new = 0
          /\ k.hashes = job[p].hashes /\ k.vouch = job[p].vouch
       \/ k.vouch = {} /\ k.new = 0

Enters(p, k) ==
    \/ k.at \in Plain
    \/ EntersToken(p, k) \/ EntersList(p, k) \/ EntersCommit(p, k)
    \/ EntersSignout(p, k) \/ EntersRelist(p, k) \/ EntersRename(p, k)
    \/ EntersPurge(p, k)

\* Every step of a request leads to such a job.
LEMMA JobStep ==
    ASSUME TokensTyped, JobShape, NEW p \in Proc, Request(p)
    PROVE  \E k \in Job : Shaped(k) /\ Goto(p, k) /\ Enters(p, k)
<1> DEFINE Goal == \E k \in Job : Shaped(k) /\ Goto(p, k) /\ Enters(p, k)
<1>j. job[p] \in Job /\ Shaped(job[p])
  BY DEF TokensTyped, JobShape
<1>0. ASSUME Finish(p) PROVE Goal
  <2>1. Enters(p, IdleJob) /\ Goto(p, IdleJob)
    BY <1>0, IdleJobType DEF Enters, Plain, Finish, Goto
  <2> QED BY <2>1, IdleJobType
<1>p. ASSUME NEW k \in Job, k.at \in Plain, Goto(p, k) PROVE Goal
  BY <1>p DEF Enters, Plain, Shaped
<1>t. ASSUME NEW k \in Job, Shaped(k), Goto(p, k), k.at = "idle" \/ EntersToken(p, k) PROVE Goal
  BY <1>t DEF Enters, Plain
<1>1. ASSUME NEW t \in Tok, NEW op \in {"validate", "refresh", "invalidate"},
             LookupHit(p, t, op)
      PROVE  Goal
  <2> DEFINE k == Resolve(p, t, op, cache[t].row)
  <2>1. cache[t].row \in Row BY <1>1 DEF LookupHit, TokensTyped, Entry
  <2>2. /\ k \in Job /\ Shaped(k) /\ k.at \in {"idle", "fill", "revokefind"}
        /\ k.at # "idle" => k.tok = t
    BY <2>1, ResolveType
  <2>3. Goto(p, k) /\ t \in known BY <1>1 DEF LookupHit
  <2> HIDE DEF k
  <2> QED BY <1>t, <2>2, <2>3 DEF EntersToken, OnToken
<1>2. ASSUME NEW t \in Tok, NEW op \in {"validate", "refresh", "invalidate"},
             LookupMiss(p, t, op)
      PROVE  Goal
  <2> DEFINE k == [IdleJob EXCEPT !.at = "find", !.op = op, !.tok = t]
  <2>1. k \in Job /\ k.at = "find" /\ k.tok = t BY IdleJobType DEF IdleJob, Job, Label, Op
  <2>2. Goto(p, k) /\ t \in known BY <1>2 DEF LookupMiss
  <2> HIDE DEF k
  <2> QED BY <1>t, <2>1, <2>2 DEF EntersToken, OnToken, Shaped
<1>3. CASE LookupFind(p)
  <2>1. job[p].tok \in Tok /\ job[p].at = "find" BY <1>3, <1>j DEF LookupFind, Shaped
  <2>2. CASE rows[job[p].tok] = NULL
    <3> DEFINE k == AfterReject(p)
    <3>1. /\ k \in Job /\ Shaped(k) /\ k.at \in {"idle", "revokefind"}
          /\ k.at # "idle" => k.tok = job[p].tok
      BY <2>1, RejectType
    <3>2. Goto(p, k) BY <1>3, <2>2 DEF LookupFind
    <3> HIDE DEF k
    <3> QED BY <1>t, <2>1, <3>1, <3>2 DEF EntersToken, OnToken
  <2>3. CASE rows[job[p].tok] # NULL
    <3> DEFINE k == [IdleJob EXCEPT !.op = job[p].op, !.tok = job[p].tok]
               k1 == [k EXCEPT !.at = "fill", !.copy = rows[job[p].tok]]
               k2 == [k EXCEPT !.at = "revokefind"]
    <3>1. rows[job[p].tok] \in Row /\ job[p].op \in Op
      BY <1>j, <2>1, <2>3 DEF TokensTyped, Job
    <3>2. k \in Job /\ k.tok = job[p].tok BY <2>1, <3>1 DEF IdleJob, Job, Label, Op
    <3>3. PICK k3 \in {IdleJob, k1, k2} : Goto(p, k3)
      BY <1>3, <2>3 DEF LookupFind, Resolve
    <3> HIDE DEF k
    <3>4. k1 \in Job /\ k1.at = "fill" /\ k1.tok = job[p].tok /\ k1.copy \in Row
      BY <3>1, <3>2 DEF Job, Label
    <3>5. k2 \in Job /\ k2.at = "revokefind" /\ k2.tok = job[p].tok BY <3>2 DEF Job, Label
    <3> HIDE DEF k1, k2
    <3>6. CASE k3 = IdleJob BY <1>t, <3>3, <3>6, IdleJobType
    <3>7. CASE k3 = k1 BY <1>t, <2>1, <3>3, <3>4, <3>7 DEF EntersToken, OnToken, Shaped
    <3>8. CASE k3 = k2 BY <1>t, <2>1, <3>3, <3>5, <3>8 DEF EntersToken, OnToken, Shaped
    <3> QED BY <3>3, <3>6, <3>7, <3>8
  <2> QED BY <2>2, <2>3
<1>4. CASE LookupFill(p)
  <2>1. job[p].tok \in Tok /\ job[p].at = "fill" /\ job[p].copy \in Row
    BY <1>4, <1>j DEF LookupFill, Shaped
  <2> DEFINE k1 == AfterReject(p)
             k2 == [job[p] EXCEPT !.at = "check"]
  <2>2. /\ k1 \in Job /\ Shaped(k1) /\ k1.at \in {"idle", "revokefind"}
        /\ k1.at # "idle" => k1.tok = job[p].tok
    BY <2>1, RejectType
  <2>3. k2 \in Job /\ k2.at = "check" /\ k2.tok = job[p].tok /\ k2.copy = job[p].copy
    BY <1>j DEF Job, Label
  <2>4. PICK k \in {IdleJob, k1, k2} : Goto(p, k) BY <1>4 DEF LookupFill
  <2> HIDE DEF k1, k2
  <2>5. CASE k = IdleJob BY <1>t, <2>4, <2>5, IdleJobType
  <2>6. CASE k = k1 BY <1>t, <2>1, <2>2, <2>4, <2>6 DEF EntersToken, OnToken
  <2>7. CASE k = k2 BY <1>t, <2>1, <2>3, <2>4, <2>7 DEF EntersToken, OnToken, Shaped
  <2> QED BY <2>4, <2>5, <2>6, <2>7
<1>5. ASSUME NEW u \in Users, NEW sel \in Profiles \cup {NULL}, Authenticate(p, u, sel)
      PROVE  Goal
  <2> DEFINE k == [IdleJob EXCEPT !.at = "list", !.op = "authenticate",
                                  !.user = u, !.sel = sel]
  <2>1. k \in Job /\ k.at = "list" /\ k.tok = 0 BY IdleJobType DEF IdleJob, Job, Label, Op
  <2>2. Goto(p, k) /\ TxnFree(p) BY <1>5 DEF Authenticate
  <2> HIDE DEF k
  <2> QED BY <2>1, <2>2 DEF Enters, EntersList, Shaped
<1>6. ASSUME NEW sel \in Profiles \cup {NULL}, RefreshCheck(p, sel) PROVE Goal
  <2> DEFINE k == [job[p] EXCEPT !.at = "list", !.user = job[p].copy.user,
                                 !.sel = sel, !.copy = NULL]
  <2>1. job[p].copy.user \in Users BY <1>6 DEF RefreshCheck, TokensTyped
  <2>2. k \in Job /\ k.at = "list" /\ k.tok = job[p].tok BY <1>j, <2>1 DEF Job, Label
  <2>3. Goto(p, k) /\ TxnFree(p) /\ job[p].at = "check" /\ Unrevoked(job[p].tok)
    BY <1>6 DEF RefreshCheck
  <2> HIDE DEF k
  <2> QED BY <2>2, <2>3 DEF Enters, EntersList, Shaped
<1>7. CASE IssueList(p)
  <2> DEFINE h == Pruned((ActiveOf(job[p].user) \ {job[p].tok}) \cup {next})
             k == [job[p] EXCEPT !.at = "commit", !.new = next, !.hashes = h]
  <2>1. next \in Tok
    <3>1. next \in Nat /\ next >= 1 /\ mode.tokens \in 0..MaxTok
      BY ModeType, TokType DEF TokensTyped
    <3> QED BY <1>7, <3>1, TokType DEF IssueList, Tok
  <2>2. h \in SUBSET Tok BY <2>1, TableTypes DEF Pruned
  <2>3. Goto(p, k) /\ job[p].at = "list" /\ next' = next + 1 BY <1>7 DEF IssueList
  <2> HIDE DEF h
  <2>4. /\ k \in Job /\ k.at = "commit" /\ k.new = next /\ k.hashes = h
        /\ k.tok = job[p].tok /\ k.user = job[p].user
    BY <1>j, <2>1, <2>2 DEF Job, Label
  <2> HIDE DEF k
  <2> QED BY <2>1, <2>3, <2>4 DEF Enters, EntersCommit, Shaped, h
<1>8. CASE IssueCommit(p)
  <2> DEFINE gone == job[p].hashes \cup ({job[p].tok} \ {0})
             k == PurgeJob(job[p].op, gone, gone, job[p].new)
  <2>1. gone \in SUBSET Tok /\ job[p].op \in Op /\ job[p].new \in Tok \cup {0}
    BY <1>j DEF Job
  <2>2. Goto(p, k) BY <1>8 DEF IssueCommit
  <2> HIDE DEF gone
  <2>3. /\ k \in Job /\ Shaped(k) /\ k.at = "purge"
        /\ k.hashes = gone /\ k.vouch = gone /\ k.new = job[p].new
    BY <2>1, PurgeJobType
  <2> HIDE DEF k
  <2> QED BY <1>8, <2>2, <2>3 DEF Enters, EntersPurge, gone
<1>9. CASE InvalidateProfile(p)
  <2> DEFINE k == [job[p] EXCEPT !.at = "revokefind", !.copy = NULL]
  <2>1. job[p].at = "check" /\ job[p].tok \in Tok
    BY <1>9, <1>j DEF InvalidateProfile, Shaped
  <2>2. k \in Job /\ k.at = "revokefind" /\ k.tok = job[p].tok BY <1>j DEF Job, Label
  <2>3. Goto(p, k) \/ Goto(p, IdleJob) BY <1>9 DEF InvalidateProfile
  <2> HIDE DEF k
  <2> QED BY <1>t, <2>1, <2>2, <2>3, IdleJobType DEF EntersToken, OnToken, Shaped
<1>10. CASE RevokeFind(p) \/ RevokeUpdate(p)
  <2> DEFINE t == job[p].tok
             k1 == [job[p] EXCEPT !.at = "revoke"]
             k2 == PurgeJob("invalidate", {t}, {t}, 0)
  <2>1. t \in Tok /\ job[p].at \in {"revokefind", "revoke"}
    BY <1>10, <1>j DEF RevokeFind, RevokeUpdate, Shaped
  <2>2. k1 \in Job /\ k1.at = "revoke" /\ k1.tok = t BY <1>j DEF Job, Label
  <2>3. \/ Goto(p, k1) \/ Goto(p, IdleJob)
        \/ Goto(p, k2) /\ ((~Unrevoked(t) /\ rows' = rows) \/ rows' = Revoking({t}))
    BY <1>10 DEF RevokeFind, RevokeUpdate
  <2> HIDE DEF t
  <2>4. /\ k2 \in Job /\ Shaped(k2) /\ k2.at = "purge"
        /\ k2.hashes = {t} /\ k2.vouch = {t} /\ k2.new = 0
    BY <2>1, PurgeJobType DEF Op
  <2> HIDE DEF k1, k2
  <2>5. CASE Goto(p, k1) BY <1>t, <2>1, <2>2, <2>5 DEF EntersToken, OnToken, Shaped, t
  <2>6. CASE Goto(p, IdleJob) BY <1>t, <2>6, IdleJobType
  <2>7. CASE Goto(p, k2) /\ ((~Unrevoked(t) /\ rows' = rows) \/ rows' = Revoking({t}))
    <3>1. EntersPurge(p, k2) BY <2>1, <2>4, <2>7 DEF EntersPurge, t
    <3> QED BY <2>4, <2>7, <3>1 DEF Enters
  <2> QED BY <2>3, <2>5, <2>6, <2>7
<1>11. ASSUME NEW u \in Users, SignoutList(p, u) PROVE Goal
  <2> DEFINE k == [IdleJob EXCEPT !.at = "signout", !.op = "signout", !.user = u,
                               !.hashes = ActiveOf(u), !.before = RevokedRows,
                               !.vouch = ActiveOf(u)]
  <2>1. ActiveOf(u) \in SUBSET Tok /\ RevokedRows \in SUBSET Tok BY TableTypes
  <2>2. /\ k \in Job /\ k.at = "signout" /\ k.user = u /\ k.hashes = ActiveOf(u)
        /\ k.before = RevokedRows /\ k.vouch = ActiveOf(u)
    BY <2>1 DEF IdleJob, Job, Label, Op
  <2>3. Goto(p, k) /\ rows' = rows BY <1>11 DEF SignoutList
  <2> HIDE DEF k
  <2> QED BY <2>2, <2>3 DEF Enters, EntersSignout, Shaped
<1>12. CASE SignoutUpdate(p)
  <2> DEFINE v == job[p].vouch \cup ActiveOf(job[p].user)
             k == [job[p] EXCEPT !.at = "relist", !.vouch = v]
  <2>1. v \in SUBSET Tok BY <1>j, TableTypes DEF Job
  <2>2. Goto(p, k) /\ rows' = Revoking(ActiveOf(job[p].user)) /\ job[p].at = "signout"
    BY <1>12 DEF SignoutUpdate
  <2> HIDE DEF v
  <2>3. /\ k \in Job /\ k.at = "relist" /\ k.vouch = v /\ k.user = job[p].user
        /\ k.hashes = job[p].hashes /\ k.before = job[p].before
    BY <1>j, <2>1 DEF Job, Label
  <2> HIDE DEF k
  <2> QED BY <2>2, <2>3 DEF Enters, EntersRelist, Shaped, v
<1>13. CASE SignoutRelist(p)
  <2> DEFINE h == job[p].hashes \cup ({t \in RevokedRows : rows[t].user = job[p].user}
                                       \ job[p].before)
             k == PurgeJob("signout", h, job[p].vouch, 0)
  <2>1. h \in SUBSET Tok /\ job[p].vouch \in SUBSET Tok BY <1>j, TableTypes DEF Job
  <2>2. Goto(p, k) /\ rows' = rows /\ job[p].at = "relist" BY <1>13 DEF SignoutRelist
  <2> HIDE DEF h
  <2>3. /\ k \in Job /\ Shaped(k) /\ k.at = "purge"
        /\ k.hashes = h /\ k.vouch = job[p].vouch /\ k.new = 0
    BY <2>1, PurgeJobType DEF Op
  <2> HIDE DEF k
  <2>4. EntersPurge(p, k) BY <2>2, <2>3 DEF EntersPurge, h
  <2> QED BY <2>2, <2>3, <2>4 DEF Enters
<1>14. ASSUME NEW f \in Profiles, RenameList(p, f) PROVE Goal
  <2> DEFINE k == [IdleJob EXCEPT !.at = "rename", !.op = "rename", !.sel = f,
                               !.hashes = ActiveFor(f), !.vouch = ActiveFor(f)]
  <2>1. ActiveFor(f) \in SUBSET Tok BY TableTypes
  <2>2. /\ k \in Job /\ k.at = "rename" /\ k.sel = f
        /\ k.hashes = ActiveFor(f) /\ k.vouch = ActiveFor(f)
    BY <2>1 DEF IdleJob, Job, Label, Op
  <2>3. Goto(p, k) /\ rows' = rows BY <1>14 DEF RenameList
  <2> HIDE DEF k
  <2> QED BY <2>2, <2>3 DEF Enters, EntersRename, Shaped
<1>15. CASE RenameCommit(p)
  <2> DEFINE k == PurgeJob("rename", job[p].hashes, job[p].vouch, 0)
  <2>1. job[p].hashes \in SUBSET Tok /\ job[p].vouch \in SUBSET Tok BY <1>j DEF Job
  <2>2. Goto(p, k) BY <1>15 DEF RenameCommit
  <2>3. /\ k \in Job /\ Shaped(k) /\ k.at = "purge"
        /\ k.hashes = job[p].hashes /\ k.vouch = job[p].vouch /\ k.new = 0
    BY <2>1, PurgeJobType DEF Op
  <2> HIDE DEF k
  <2> QED BY <1>15, <2>2, <2>3 DEF Enters, EntersPurge
<1>16. ASSUME NEW f \in Profiles, DeleteProfileList(p, f) PROVE Goal
  <2> DEFINE k == [IdleJob EXCEPT !.at = "textures", !.op = "delete", !.sel = f]
  <2>1. k \in Job /\ k.at = "textures" BY DEF IdleJob, Job, Label, Op
  <2> QED BY <1>16, <1>p, <2>1 DEF DeleteProfileList, Plain
<1>17. ASSUME NEW at \in {"delprofile", "userpurge"}, Goto(p, [job[p] EXCEPT !.at = at])
       PROVE  Goal
  <2>1. [job[p] EXCEPT !.at = at] \in Job /\ [job[p] EXCEPT !.at = at].at = at
    BY <1>j DEF Job, Label
  <2> QED BY <1>17, <1>p, <2>1 DEF Plain
<1>18. CASE DeleteProfileRow(p)
  <2> DEFINE k == [job[p] EXCEPT !.at = "userlist", !.sel = NULL]
  <2>1. k \in Job /\ k.at = "userlist" BY <1>j DEF Job, Label
  <2>2. Goto(p, k) \/ Finish(p) BY <1>18 DEF DeleteProfileRow
  <2> QED BY <1>p, <1>0, <2>1, <2>2 DEF Plain
<1>19. ASSUME NEW u \in Users, DeleteUser(p, u) PROVE Goal
  <2> DEFINE td == {f \in profiles : Owner[f] = u}
             k == [IdleJob EXCEPT !.at = "userlist", !.op = "delete", !.user = u,
                                  !.whole = TRUE, !.todo = td]
  <2>1. td \in SUBSET Profiles BY DEF TokensTyped
  <2>2. Goto(p, k) BY <1>19 DEF DeleteUser
  <2> HIDE DEF td
  <2>3. k \in Job /\ k.at = "userlist" BY <2>1 DEF IdleJob, Job, Label, Op
  <2> QED BY <1>p, <2>2, <2>3 DEF Plain
<1>20. ASSUME NEW f \in Profiles, DeleteUserProfile(p, f) PROVE Goal
  <2> DEFINE k1 == [job[p] EXCEPT !.at = "textures", !.sel = f, !.todo = @ \ {f}]
             k2 == [job[p] EXCEPT !.todo = @ \ {f}]
  <2>1. k1 \in Job /\ k1.at = "textures" BY <1>j DEF Job, Label
  <2>2. k2 \in Job /\ k2.at = job[p].at BY <1>j DEF Job
  <2>3. job[p].at = "userlist" /\ (Goto(p, k1) \/ Goto(p, k2))
    BY <1>20 DEF DeleteUserProfile
  <2> HIDE DEF k1, k2
  <2> QED BY <1>p, <2>1, <2>2, <2>3 DEF Plain
<1>21. CASE DeleteUserList(p) \/ DeleteUserPurge(p)
  <2>1. PICK at \in {"userrevoke", "userdelete"}, h \in SUBSET Tok :
          Goto(p, [job[p] EXCEPT !.at = at, !.hashes = h])
    BY <1>21, TableTypes DEF DeleteUserList, DeleteUserPurge
  <2> DEFINE k == [job[p] EXCEPT !.at = at, !.hashes = h]
  <2>2. k \in Job /\ k.at = at BY <1>j DEF Job, Label
  <2> QED BY <1>p, <2>1, <2>2 DEF Plain
<1>22. CASE DeleteUserRow(p) \/ Purge(p) \/ Abort(p)
  BY <1>0, <1>22 DEF DeleteUserRow, Purge, Abort
<1>23. CASE CleanupDelete(p)
  <2> DEFINE k == PurgeJob("cleanup", Tok, {}, 0)
  <2>1. k \in Job /\ Shaped(k) /\ k.at = "purge" /\ k.vouch = {} /\ k.new = 0
    BY PurgeJobType DEF Op
  <2>2. Goto(p, k) BY <1>23 DEF CleanupDelete
  <2> HIDE DEF k
  <2> QED BY <2>1, <2>2 DEF Enters, EntersPurge
<1>24. CASE DeleteProfileRevoke(p) \/ DeleteUserRevoke(p)
  BY <1>17, <1>24 DEF DeleteProfileRevoke, DeleteUserRevoke
<1> QED BY <1>1, <1>2, <1>3, <1>4, <1>5, <1>6, <1>7, <1>8, <1>9, <1>10, <1>11, <1>12, <1>13,
     <1>14, <1>15, <1>16, <1>18, <1>19, <1>20, <1>21, <1>22, <1>23, <1>24
     DEF Request, Lookup

-----------------------------------------------------------------------------
(* What a request does to the tables *)

\* A row disappears, or keeps its user and whatever has ended it; it loses its
\* profile only to the deletion of that profile.
Fades(t) ==
    \/ rows'[t] = NULL
    \/ /\ rows[t] # NULL /\ rows'[t].user = rows[t].user
       /\ rows[t].revoked => rows'[t].revoked
       /\ rows[t].temp => rows'[t].temp
       /\ rows'[t].sel = rows[t].sel \/ rows[t].sel \notin profiles'

\* A revocation fades rows.
LEMMA RevokingFades ==
    ASSUME TokensTyped, NEW ts, NEW t \in Tok
    PROVE  LET r == Revoking(ts)[t]
           IN  IF rows[t] = NULL THEN r = NULL
               ELSE /\ r \in Row /\ r.user = rows[t].user /\ r.temp = rows[t].temp
                    /\ r.sel = rows[t].sel
                    /\ r.revoked = (t \in ts \/ rows[t].revoked)
<1>1. CASE rows[t] = NULL
  BY <1>1 DEF Revoking
<1>2. CASE rows[t] # NULL /\ t \in ts
  <2>1. rows[t] \in Row BY <1>2 DEF TokensTyped
  <2>2. Revoking(ts)[t] = [rows[t] EXCEPT !.revoked = TRUE] BY <1>2 DEF Revoking
  <2> QED BY <1>2, <2>1, <2>2 DEF Row
<1>3. CASE rows[t] # NULL /\ t \notin ts
  BY <1>3 DEF Revoking, TokensTyped, Row
<1> QED BY <1>1, <1>2, <1>3

\* A revocation reaches the rows it names.
LEMMA RevokingRevokes ==
    ASSUME TokensTyped, NEW ts, NEW t \in Tok, t \in ts
    PROVE  Revoking(ts)[t] = NULL \/ Revoking(ts)[t].revoked
<1>1. CASE rows[t] = NULL
  BY <1>1, RevokingFades
<1>2. CASE rows[t] # NULL
  <2>1. rows[t] \in Row /\ Revoking(ts)[t] = [rows[t] EXCEPT !.revoked = TRUE]
    BY <1>2 DEF Revoking, TokensTyped
  <2> QED BY <2>1 DEF Row
<1> QED BY <1>1, <1>2

\* Which actions write rows.
LEMMA RowWriters ==
    ASSUME NEW p \in Proc, Request(p)
    PROVE  \/ rows' = rows \/ \E ts : rows' = Revoking(ts)
           \/ IssueCommit(p) \/ RenameCommit(p) \/ DeleteProfileRow(p)
           \/ DeleteUserRow(p) \/ CleanupDelete(p)
<1>1. CASE Lookup(p) \/ LookupFind(p) \/ LookupFill(p) \/ Purge(p) \/ Abort(p)
  BY <1>1 DEF Lookup, LookupHit, LookupMiss, LookupFind, LookupFill, Purge, Abort
<1>2. CASE (\E u \in Users, sel \in Profiles \cup {NULL} : Authenticate(p, u, sel))
           \/ (\E sel \in Profiles \cup {NULL} : RefreshCheck(p, sel)) \/ IssueList(p)
  BY <1>2 DEF Authenticate, RefreshCheck, IssueList
<1>3. CASE InvalidateProfile(p) \/ RevokeFind(p) \/ RevokeUpdate(p)
  BY <1>3 DEF InvalidateProfile, RevokeFind, RevokeUpdate
<1>4. CASE (\E u \in Users : SignoutList(p, u)) \/ SignoutUpdate(p) \/ SignoutRelist(p)
  BY <1>4 DEF SignoutList, SignoutUpdate, SignoutRelist
<1>5. CASE (\E f \in Profiles : RenameList(p, f) \/ DeleteProfileList(p, f))
           \/ DeleteProfileRevoke(p)
  BY <1>5 DEF RenameList, DeleteProfileList, DeleteProfileRevoke
<1>6. CASE (\E u \in Users : DeleteUser(p, u)) \/ (\E f \in Profiles : DeleteUserProfile(p, f))
           \/ DeleteUserList(p) \/ DeleteUserRevoke(p) \/ DeleteUserPurge(p)
  BY <1>6 DEF DeleteUser, DeleteUserProfile, DeleteUserList, DeleteUserRevoke, DeleteUserPurge
<1> QED BY <1>1, <1>2, <1>3, <1>4, <1>5, <1>6 DEF Request

\* Rows only fade, except for the one that a transaction issues.
LEMMA RowsFade ==
    ASSUME TokensTyped, JobShape, NEW p \in Proc, Request(p)
    PROVE  /\ rows' \in [Tok -> Row \cup {NULL}]
           /\ \A t \in Tok : Fades(t) \/ (IssueCommit(p) /\ t = job[p].new)
<1> USE DEF Fades
<1>j. job[p] \in Job /\ Shaped(job[p])
  BY DEF TokensTyped, JobShape
<1>1. CASE rows' = rows
  BY <1>1 DEF TokensTyped, Row
<1>r. ASSUME NEW ts, NEW t \in Tok, rows'[t] = Revoking(ts)[t] PROVE Fades(t)
  <2>1. CASE rows[t] = NULL BY <1>r, <2>1, RevokingFades
  <2>2. CASE rows[t] # NULL
    <3> DEFINE r == Revoking(ts)[t]
    <3>1. /\ r.user = rows[t].user /\ r.temp = rows[t].temp /\ r.sel = rows[t].sel
          /\ r.revoked = (t \in ts \/ rows[t].revoked)
      BY <2>2, RevokingFades
    <3>2. rows'[t] = r BY <1>r
    <3> HIDE DEF r
    <3> QED BY <2>2, <3>1, <3>2
  <2> QED BY <2>1, <2>2
<1>2. CASE \E ts : rows' = Revoking(ts)
  BY <1>2, <1>r, TableTypes
<1>3. CASE IssueCommit(p)
  <2> DEFINE new == job[p].new
             gone == job[p].hashes \cup ({job[p].tok} \ {0})
             row == [user |-> job[p].user, sel |-> job[p].sel,
                     revoked |-> new \in job[p].hashes, temp |-> FALSE]
  <2>1. new \in Tok BY <1>3, <1>j DEF IssueCommit, Shaped
  <2>2. job[p].user \in Users /\ job[p].sel \in Profiles \cup {NULL}
    BY <1>3, <1>j DEF IssueCommit, CanCommit, TokensTyped, Job
  <2>3. row \in Row BY <2>2 DEF Row
  <2>4. rows' = [Revoking(gone) EXCEPT ![new] = row] BY <1>3 DEF IssueCommit
  <2> HIDE DEF row, gone, new
  <2>5. rows' \in [Tok -> Row \cup {NULL}] BY <2>1, <2>3, <2>4, TableTypes
  <2>6. \A t \in Tok \ {new} : rows'[t] = Revoking(gone)[t] BY <2>1, <2>4, TableTypes
  <2> QED BY <1>3, <1>r, <2>5, <2>6 DEF new
<1>4. CASE RenameCommit(p)
  <2>1. \A t \in Tok : \/ rows'[t] = rows[t]
                       \/ rows[t] \in Row /\ rows'[t] = [rows[t] EXCEPT !.temp = TRUE]
    BY <1>4 DEF RenameCommit, ActiveFor, Unrevoked, TokensTyped
  <2>2. \A r \in Row : LET s == [r EXCEPT !.temp = TRUE]
                       IN  /\ s \in Row /\ s.temp /\ s.user = r.user
                           /\ s.revoked = r.revoked /\ s.sel = r.sel
    BY DEF Row
  <2>3. DOMAIN rows' = Tok /\ rows' = [t \in Tok |-> rows'[t]] BY <1>4 DEF RenameCommit
  <2>4. ASSUME NEW t \in Tok PROVE Fades(t) /\ rows'[t] \in Row \cup {NULL}
    <3>1. CASE rows'[t] = rows[t] BY <3>1 DEF TokensTyped
    <3>2. CASE rows'[t] # rows[t]
      <4>1. rows[t] \in Row /\ rows'[t] = [rows[t] EXCEPT !.temp = TRUE] /\ rows[t] # NULL
        BY <1>4, <2>1, <3>2 DEF RenameCommit, ActiveFor, Unrevoked
      <4> QED BY <2>2, <4>1
    <3> QED BY <3>1, <3>2
  <2> QED BY <2>3, <2>4
<1>5. CASE DeleteProfileRow(p)
  <2>1. /\ profiles' = profiles \ {job[p].sel}
        /\ \A t \in Tok : \/ rows'[t] = rows[t]
                          \/ /\ rows[t] \in Row /\ rows[t].sel = job[p].sel
                             /\ rows'[t] = [rows[t] EXCEPT !.sel = NULL]
    BY <1>5 DEF DeleteProfileRow, TokensTyped
  <2>2. \A r \in Row : LET s == [r EXCEPT !.sel = NULL]
                       IN  /\ s \in Row /\ s.user = r.user
                           /\ s.revoked = r.revoked /\ s.temp = r.temp
    BY DEF Row
  <2>3. DOMAIN rows' = Tok /\ rows' = [t \in Tok |-> rows'[t]]
    BY <1>5 DEF DeleteProfileRow
  <2>4. ASSUME NEW t \in Tok PROVE Fades(t) /\ rows'[t] \in Row \cup {NULL}
    <3>1. CASE rows'[t] = rows[t] BY <3>1 DEF TokensTyped
    <3>2. CASE rows'[t] # rows[t]
      <4>1. /\ rows[t] \in Row /\ rows'[t] = [rows[t] EXCEPT !.sel = NULL] /\ rows[t] # NULL
            /\ rows[t].sel \notin profiles'
        BY <1>5, <2>1, <3>2 DEF DeleteProfileRow
      <4> QED BY <2>2, <4>1
    <3> QED BY <3>1, <3>2
  <2> QED BY <2>3, <2>4
<1>6. CASE DeleteUserRow(p) \/ CleanupDelete(p)
  <2>1. \A t \in Tok : rows'[t] = rows[t] \/ rows'[t] = NULL
    BY <1>6 DEF DeleteUserRow, CleanupDelete
  <2>2. DOMAIN rows' = Tok /\ rows' = [t \in Tok |-> rows'[t]]
    BY <1>6 DEF DeleteUserRow, CleanupDelete
  <2> QED BY <2>1, <2>2 DEF TokensTyped, Row
<1> QED BY <1>1, <1>2, <1>3, <1>4, <1>5, <1>6, RowWriters

\* The cache loses entries, except for the one that a lookup writes.
LEMMA CacheSteps ==
    ASSUME TokensTyped, JobShape, NEW p \in Proc, Request(p)
    PROVE  /\ cache' \in [Tok -> Entry \cup {NULL}]
           /\ \A t \in Tok : \/ cache'[t] = NULL \/ cache'[t] = cache[t]
                             \/ (LookupFill(p) /\ t = job[p].tok)
<1>j. job[p] \in Job /\ Shaped(job[p])
  BY DEF TokensTyped, JobShape
<1> DEFINE Goal == cache' = cache \/ \E ts : cache' = Purging(ts)
<1>1. CASE Goal
  BY <1>1, TableTypes DEF TokensTyped, Purging
<1>2. CASE LookupFill(p)
  <2> DEFINE e == [row |-> job[p].copy, late |-> rows[job[p].tok] # job[p].copy]
  <2>1. job[p].tok \in Tok /\ job[p].copy \in Row BY <1>2, <1>j DEF LookupFill, Shaped
  <2>2. e \in Entry BY <2>1 DEF Entry
  <2>3. cache' = [cache EXCEPT ![job[p].tok] = e] BY <1>2 DEF LookupFill
  <2> HIDE DEF e
  <2> QED BY <1>2, <2>1, <2>2, <2>3 DEF TokensTyped
<1>3. CASE Lookup(p) \/ LookupFind(p) \/ Purge(p) \/ Abort(p)
  BY <1>1, <1>3 DEF Lookup, LookupHit, LookupMiss, LookupFind, Purge, Abort
<1>4. CASE (\E u \in Users, sel \in Profiles \cup {NULL} : Authenticate(p, u, sel))
           \/ (\E sel \in Profiles \cup {NULL} : RefreshCheck(p, sel)) \/ IssueList(p)
           \/ IssueCommit(p) \/ CleanupDelete(p)
  BY <1>1, <1>4 DEF Authenticate, RefreshCheck, IssueList, IssueCommit, CleanupDelete
<1>5. CASE InvalidateProfile(p) \/ RevokeFind(p) \/ RevokeUpdate(p)
  BY <1>1, <1>5 DEF InvalidateProfile, RevokeFind, RevokeUpdate
<1>6. CASE (\E u \in Users : SignoutList(p, u)) \/ SignoutUpdate(p) \/ SignoutRelist(p)
  BY <1>1, <1>6 DEF SignoutList, SignoutUpdate, SignoutRelist
<1>7. CASE (\E f \in Profiles : RenameList(p, f) \/ DeleteProfileList(p, f))
           \/ DeleteProfileRevoke(p) \/ DeleteProfileRow(p) \/ RenameCommit(p)
  BY <1>1, <1>7 DEF RenameList, DeleteProfileList, DeleteProfileRevoke, DeleteProfileRow,
                    RenameCommit
<1>8. CASE (\E u \in Users : DeleteUser(p, u)) \/ (\E f \in Profiles : DeleteUserProfile(p, f))
           \/ DeleteUserList(p) \/ DeleteUserRevoke(p) \/ DeleteUserPurge(p)
           \/ DeleteUserRow(p)
  BY <1>1, <1>8 DEF DeleteUser, DeleteUserProfile, DeleteUserList, DeleteUserRevoke,
                    DeleteUserPurge, DeleteUserRow
<1> QED BY <1>2, <1>3, <1>4, <1>5, <1>6, <1>7, <1>8 DEF Request

\* Who writes the remaining tables.
LEMMA OtherSteps ==
    ASSUME TokensTyped, NEW p \in Proc, Request(p)
    PROVE  /\ expired' = expired
           /\ profiles' \subseteq profiles /\ alive' \subseteq alive
           /\ next' = next \/ (IssueList(p) /\ next' = next + 1)
           /\ child' = child \/ IssueCommit(p)
           /\ (known' = known /\ acked' = acked /\ renamed' = renamed) \/ Purge(p)
<1> USE DEF history
<1>1. CASE Lookup(p) \/ LookupFind(p) \/ LookupFill(p) \/ Abort(p)
  BY <1>1 DEF Lookup, LookupHit, LookupMiss, LookupFind, LookupFill, Abort
<1>2. CASE (\E u \in Users, sel \in Profiles \cup {NULL} : Authenticate(p, u, sel))
           \/ (\E sel \in Profiles \cup {NULL} : RefreshCheck(p, sel)) \/ IssueList(p)
  BY <1>2 DEF Authenticate, RefreshCheck, IssueList
<1>3. CASE InvalidateProfile(p) \/ RevokeFind(p) \/ RevokeUpdate(p) \/ CleanupDelete(p)
  BY <1>3 DEF InvalidateProfile, RevokeFind, RevokeUpdate, CleanupDelete
<1>4. CASE (\E u \in Users : SignoutList(p, u)) \/ SignoutUpdate(p) \/ SignoutRelist(p)
  BY <1>4 DEF SignoutList, SignoutUpdate, SignoutRelist
<1>5. CASE (\E f \in Profiles : RenameList(p, f) \/ DeleteProfileList(p, f))
           \/ DeleteProfileRevoke(p) \/ DeleteProfileRow(p) \/ RenameCommit(p)
  BY <1>5 DEF RenameList, DeleteProfileList, DeleteProfileRevoke, DeleteProfileRow, RenameCommit
<1>6. CASE (\E u \in Users : DeleteUser(p, u)) \/ (\E f \in Profiles : DeleteUserProfile(p, f))
           \/ DeleteUserList(p) \/ DeleteUserRevoke(p) \/ DeleteUserPurge(p)
  BY <1>6 DEF DeleteUser, DeleteUserProfile, DeleteUserList, DeleteUserRevoke, DeleteUserPurge
<1>7. CASE DeleteUserRow(p)
  BY <1>7 DEF DeleteUserRow
<1>8. CASE IssueCommit(p)
  BY <1>8 DEF IssueCommit
<1>9. CASE Purge(p)
  BY <1>9 DEF Purge
<1> QED BY <1>1, <1>2, <1>3, <1>4, <1>5, <1>6, <1>7, <1>8, <1>9 DEF Request

-----------------------------------------------------------------------------
(* Type correctness *)

\* Every step keeps the types.
LEMMA TypeStep ==
    ASSUME TokensTyped, JobShape, [TokenNext]_tokenVars
    PROVE  TokensTyped' /\ JobShape'
<1>1. ASSUME NEW p \in Proc, Request(p), mode' = mode PROVE TokensTyped' /\ JobShape'
  <2>0. job[p] \in Job /\ Shaped(job[p]) BY DEF TokensTyped, JobShape
  <2>1. job' \in [Proc -> Job] /\ JobShape' BY <1>1, JobStep, Moves
  <2>2. rows' \in [Tok -> Row \cup {NULL}] /\ cache' \in [Tok -> Entry \cup {NULL}]
    BY <1>1, RowsFade, CacheSteps
  <2>3. expired' = expired /\ profiles' \subseteq profiles /\ alive' \subseteq alive
    BY <1>1, OtherSteps
  <2>4. next' \in 1..(MaxTok + 1)
    <3>1. CASE IssueList(p)
      <4>1. next \in Nat /\ next >= 1 /\ mode.tokens \in 0..MaxTok /\ MaxTok \in Nat
        BY ModeType, TokType DEF TokensTyped
      <4> QED BY <3>1, <4>1 DEF IssueList
    <3>2. CASE next' = next BY <3>2 DEF TokensTyped
    <3> QED BY <1>1, <3>1, <3>2, OtherSteps
  <2>5. child' \in [Tok -> SUBSET Tok]
    <3>1. CASE IssueCommit(p)
      <4>1. job[p].new \in Tok /\ (job[p].tok = 0 \/ job[p].tok \in Tok)
        BY <2>0, <3>1 DEF IssueCommit, Shaped, Job
      <4> QED BY <3>1, <4>1 DEF IssueCommit, TokensTyped
    <3>2. CASE child' = child BY <3>2 DEF TokensTyped
    <3> QED BY <1>1, <3>1, <3>2, OtherSteps
  <2>6. known' \in SUBSET Tok /\ acked' \in SUBSET Tok /\ renamed' \in SUBSET Tok
    <3>1. CASE Purge(p)
      <4>1. job[p].new \in Tok \cup {0} /\ job[p].vouch \in SUBSET Tok BY <2>0 DEF Job
      <4> QED BY <3>1, <4>1 DEF Purge, TokensTyped
    <3>2. CASE known' = known /\ acked' = acked /\ renamed' = renamed
      BY <3>2 DEF TokensTyped
    <3> QED BY <1>1, <3>1, <3>2, OtherSteps
  <2> QED BY <1>1, <2>1, <2>2, <2>3, <2>4, <2>5, <2>6 DEF TokensTyped
<1>2. ASSUME NEW t \in Tok, Evict(t) \/ Expire(t), mode' = mode PROVE TokensTyped' /\ JobShape'
  BY <1>2 DEF Evict, Expire, TokensTyped, history, JobShape
<1>3. CASE UNCHANGED tokenVars
  BY <1>3 DEF tokenVars, history, TokensTyped, JobShape
<1> QED BY <1>1, <1>2, <1>3 DEF TokenNext, TokenStep

\* The initial state is well typed.
LEMMA TypeInit == TokenInit => TokensTyped /\ JobShape
<1> SUFFICES ASSUME TokenInit PROVE TokensTyped /\ JobShape
  OBVIOUS
<1>1. next \in 1..(MaxTok + 1)
  BY TokType DEF TokenInit
<1>2. mode \in Modes /\ profiles \in SUBSET Profiles
  BY ModeType DEF TokenInit
<1>3. job \in [Proc -> Job] /\ JobShape
  BY IdleJobType DEF TokenInit, JobShape
<1> QED BY <1>1, <1>2, <1>3 DEF TokenInit, TokensTyped

\* Types hold in every reachable state: in particular a handler never answers with
\* the value 0 that stands for no token, for every number of requests and tokens.
THEOREM TokensKeepTypes == TokenSpec => []TokensTyped
<1>1. TokensTyped /\ JobShape /\ [TokenNext]_tokenVars => TokensTyped' /\ JobShape'
  BY TypeStep
<1> QED BY <1>1, TypeInit, PTL DEF TokenSpec

-----------------------------------------------------------------------------
(* Tokens under issue *)

\* What is no longer pending stays so, and its row only fades.
LEMMA Steady ==
    ASSUME TokensTyped, JobShape, NEW p \in Proc, Request(p), NEW t \in Tok, ~Pending(t)
    PROVE  ~Pending(t)' /\ Fades(t)
<1>1. PICK k \in Job : Shaped(k) /\ Goto(p, k) /\ Enters(p, k)
  BY JobStep
<1>2. job'[p] = k /\ \A q \in Proc \ {p} : job'[q] = job[q]
  BY <1>1, Moves
<1>3. k.at = "commit" => k.new = next
  BY <1>1 DEF Enters, Plain, EntersToken, OnToken, EntersList, EntersCommit, EntersSignout,
              EntersRelist, EntersRename, EntersPurge
<1>4. next \in Nat /\ t \in Nat /\ (next' = next \/ next' = next + 1)
  BY OtherSteps, TokType DEF TokensTyped
<1>5. ~(t >= next) /\ ~(\E q \in Proc : job[q].at = "commit" /\ job[q].new = t)
  BY DEF Pending
<1>6. ~(t >= next')
  BY <1>4, <1>5
<1>7. ~(\E q \in Proc : job'[q].at = "commit" /\ job'[q].new = t)
  BY <1>2, <1>3, <1>4, <1>5
<1>8. Fades(t)
  <2>1. ~(IssueCommit(p) /\ t = job[p].new) BY <1>5 DEF IssueCommit
  <2> QED BY <2>1, RowsFade
<1> QED BY <1>6, <1>7, <1>8 DEF Pending

\* A token is no longer pending once its transaction has committed.
LEMMA NewShown ==
    ASSUME TokensTyped, JobShape, IssuesApart, NEW p \in Proc, IssueCommit(p)
    PROVE  /\ job[p].new \in Tok /\ Pending(job[p].new)
           /\ ~(job[p].new >= next')
           /\ ~(\E q \in Proc : job'[q].at = "commit" /\ job'[q].new = job[p].new)
<1>1. job[p].at = "commit" /\ job[p].new \in Tok
  BY DEF IssueCommit, JobShape, Shaped
<1>2. next' = next /\ next \in Nat /\ job[p].new \in Nat /\ job[p].new < next
  BY <1>1, TokType DEF IssueCommit, IssuesApart, TokensTyped
<1> DEFINE gone == job[p].hashes \cup ({job[p].tok} \ {0})
           k == PurgeJob(job[p].op, gone, gone, job[p].new)
<1>3. Goto(p, k) /\ k.at = "purge"
  BY DEF IssueCommit, PurgeJob, IdleJob
<1>4. job'[p] = k /\ \A q \in Proc \ {p} : job'[q] = job[q]
  BY <1>3 DEF Goto, TokensTyped
<1>5. ~(\E q \in Proc : job'[q].at = "commit" /\ job'[q].new = job[p].new)
  <2> SUFFICES ASSUME NEW q \in Proc, job'[q].at = "commit", job'[q].new = job[p].new
               PROVE  FALSE
    OBVIOUS
  <2>1. q # p BY <1>3, <1>4
  <2> QED BY <1>1, <1>4, <2>1 DEF IssuesApart
<1> QED BY <1>1, <1>2, <1>5 DEF Pending

\* Transactions keep issuing different tokens.
LEMMA IssuesApartStep ==
    ASSUME TokensTyped, JobShape, IssuesApart, NEW p \in Proc, Request(p)
    PROVE  IssuesApart'
<1>1. PICK k \in Job : Shaped(k) /\ Goto(p, k) /\ Enters(p, k)
  BY JobStep
<1>2. job'[p] = k /\ \A q \in Proc \ {p} : job'[q] = job[q]
  BY <1>1, Moves
<1>3. k.at = "commit" => k.new = next /\ next' = next + 1
  BY <1>1 DEF Enters, Plain, EntersToken, OnToken, EntersList, EntersCommit, EntersSignout,
              EntersRelist, EntersRename, EntersPurge
<1>4. next \in Nat /\ (next' = next \/ next' = next + 1)
  BY OtherSteps DEF TokensTyped
<1>5. \A q \in Proc : job[q].at = "commit" => job[q].new \in Nat /\ job[q].new < next
  BY TokType DEF IssuesApart, JobShape, Shaped
<1> SUFFICES ASSUME NEW q \in Proc, job'[q].at = "commit"
             PROVE  /\ job'[q].new < next'
                    /\ \A r \in Proc : job'[r].at = "commit" /\ job'[q].new = job'[r].new => q = r
  BY DEF IssuesApart
<1>6. job'[q].new < next'
  <2>1. CASE q = p BY <1>2, <1>3, <1>4, <2>1
  <2>2. CASE q # p BY <1>2, <1>4, <1>5, <2>2
  <2> QED BY <2>1, <2>2
<1>7. ASSUME NEW r \in Proc, job'[r].at = "commit", job'[q].new = job'[r].new PROVE q = r
  <2>1. CASE q # p /\ r # p BY <1>2, <1>7, <2>1 DEF IssuesApart
  <2>2. CASE q = p /\ r # p BY <1>2, <1>3, <1>4, <1>5, <1>7, <2>2
  <2>3. CASE q # p /\ r = p BY <1>2, <1>3, <1>4, <1>5, <1>7, <2>3
  <2> QED BY <2>1, <2>2, <2>3
<1> QED BY <1>6, <1>7

\* Pending tokens stay unseen.
LEMMA PendingStep ==
    ASSUME TokensTyped, JobShape, PendingUnseen, IssuesApart, JobsSound, NEW p \in Proc, Request(p)
    PROVE  PendingUnseen'
<1> SUFFICES ASSUME NEW t \in Tok, Pending(t)'
             PROVE  /\ rows'[t] = NULL /\ child'[t] = {}
                    /\ t \notin known' /\ t \notin acked' \cup renamed'
  BY DEF PendingUnseen
<1>0. job[p] \in Job /\ JobSound(job[p])
  BY DEF TokensTyped, JobsSound
<1>1. Pending(t)
  BY Steady
<1>2. rows[t] = NULL /\ child[t] = {} /\ t \notin known /\ t \notin acked \cup renamed
  BY <1>1 DEF PendingUnseen
<1>3. rows'[t] = NULL
  <2>1. ~(IssueCommit(p) /\ t = job[p].new)
    <3> SUFFICES ASSUME IssueCommit(p), t = job[p].new PROVE FALSE
      OBVIOUS
    <3>1. Pending(t)' <=> (t >= next' \/ \E q \in Proc : job'[q].at = "commit" /\ job'[q].new = t)
      BY DEF Pending
    <3> QED BY <3>1, NewShown
  <2> QED BY <1>2, <2>1, RowsFade DEF Fades
<1>4. child'[t] = {}
  <2>1. CASE IssueCommit(p)
    <3>1. job[p].tok # t BY <1>0, <1>1, <2>1, TokType DEF JobSound, IssueCommit
    <3> QED BY <1>2, <2>1, <3>1 DEF IssueCommit, TokensTyped
  <2> QED BY <1>2, <2>1, OtherSteps
<1>5. t \notin known' /\ t \notin acked' \cup renamed'
  <2>1. CASE Purge(p)
    <3>1. t \notin job[p].vouch /\ t # job[p].new
      BY <1>0, <1>1, <2>1, TokType DEF JobSound, Purge
    <3> QED BY <1>2, <2>1, <3>1 DEF Purge
  <2> QED BY <1>2, <2>1, OtherSteps
<1> QED BY <1>3, <1>4, <1>5

-----------------------------------------------------------------------------
(* What handlers rely on *)

\* No other request disturbs what a handler relies on.
LEMMA SoundStays ==
    ASSUME TokensTyped, NEW j \in Job, JobSound(j), profiles' \subseteq profiles,
           \A t \in Tok : ~Pending(t) => ~Pending(t)' /\ Fades(t)
    PROVE  JobSound(j)'
<1>0. j.tok \in Tok \cup {0} /\ j.hashes \subseteq Tok /\ j.vouch \subseteq Tok
      /\ j.before \subseteq Tok /\ j.new \in Tok \cup {0}
  BY DEF Job
<1>1. \A t \in Tok : ~Pending(t) /\ Gone(t) => Gone(t)'
  BY DEF Fades, Gone
<1>2. \A t \in Tok : ~Pending(t) /\ HasEnded(t) => HasEnded(t)'
  BY DEF Fades, HasEnded
<1>3. \A t \in Tok : ~Pending(t) /\ rows[t] = NULL => rows'[t] = NULL
  BY DEF Fades
<1>4. j.at \in {"find", "fill", "check", "revokefind", "revoke", "list", "commit"}
         /\ j.tok # 0 => ~Pending(j.tok)'
  BY <1>0 DEF JobSound
<1>5. j.at = "commit" => \A t \in j.hashes : t = j.new \/ ~Pending(t)'
  BY <1>0 DEF JobSound
<1>6. ASSUME j.at = "signout"
      PROVE  /\ \A t \in j.vouch : /\ ~Pending(t)' /\ t \in j.hashes
                                   /\ rows'[t] = NULL \/ rows'[t].user = j.user
             /\ \A t \in j.before : ~Pending(t)' /\ Gone(t)'
  <2>1. /\ \A t \in j.vouch : /\ ~Pending(t) /\ t \in j.hashes
                              /\ rows[t] = NULL \/ rows[t].user = j.user
        /\ \A t \in j.before : ~Pending(t) /\ Gone(t)
    BY <1>6 DEF JobSound
  <2> QED BY <1>0, <1>1, <1>3, <2>1 DEF Fades
<1>7. ASSUME j.at = "relist", NEW t \in j.vouch
      PROVE  /\ ~Pending(t)'
             /\ \/ rows'[t] = NULL
                \/ /\ rows'[t].revoked /\ rows'[t].user = j.user
                   /\ t \in j.hashes \/ t \notin j.before
  <2>1. /\ ~Pending(t)
        /\ \/ rows[t] = NULL
           \/ /\ rows[t].revoked /\ rows[t].user = j.user
              /\ t \in j.hashes \/ t \notin j.before
    BY <1>7 DEF JobSound
  <2> QED BY <1>0, <2>1 DEF Fades
<1>8. ASSUME j.at = "rename", NEW t \in j.vouch
      PROVE  /\ ~Pending(t)' /\ t \in j.hashes
             /\ Gone(t)' \/ rows'[t].sel = j.sel \/ j.sel \notin profiles'
  <2>1. /\ ~Pending(t) /\ t \in j.hashes
        /\ Gone(t) \/ rows[t].sel = j.sel \/ j.sel \notin profiles
    BY <1>8 DEF JobSound
  <2>2. t \in Tok /\ ~Pending(t)' /\ Fades(t) BY <1>0, <2>1
  <2>3. CASE Gone(t) BY <1>1, <2>1, <2>2, <2>3
  <2>4. CASE j.sel \notin profiles BY <2>1, <2>2, <2>4
  <2>5. CASE rows[t].sel = j.sel BY <2>1, <2>2, <2>5 DEF Fades, Gone
  <2> QED BY <2>1, <2>3, <2>4, <2>5
<1>9. ASSUME j.at = "purge"
      PROVE  /\ \A t \in j.vouch : ~Pending(t)' /\ HasEnded(t)' /\ (t \in j.hashes \/ rows'[t] = NULL)
             /\ j.new # 0 => ~Pending(j.new)'
  <2>1. /\ \A t \in j.vouch : ~Pending(t) /\ HasEnded(t) /\ (t \in j.hashes \/ rows[t] = NULL)
        /\ j.new # 0 => ~Pending(j.new)
    BY <1>9 DEF JobSound
  <2> QED BY <1>0, <1>2, <1>3, <2>1
<1> QED BY <1>4, <1>5, <1>6, <1>7, <1>8, <1>9 DEF JobSound

\* What a request relies on at the point it reaches.
LEMMA EnterSound ==
    ASSUME TokensTyped, JobShape, PendingUnseen, IssuesApart, JobsSound,
           NEW p \in Proc, Request(p), NEW k \in Job, Enters(p, k)
    PROVE  JobSound(k)'
<1>0. /\ job[p] \in Job /\ Shaped(job[p]) /\ JobSound(job[p])
      /\ job[p].tok \in Tok \cup {0} /\ job[p].hashes \subseteq Tok
      /\ job[p].vouch \subseteq Tok /\ job[p].before \subseteq Tok
  BY DEF TokensTyped, JobShape, JobsSound, Job
<1>s. \A t \in Tok : ~Pending(t) => ~Pending(t)' /\ Fades(t)
  BY Steady
<1>r. \A t \in Tok : rows[t] # NULL => ~Pending(t)'
  BY <1>s DEF PendingUnseen
<1>1. CASE k.at \in Plain
  BY <1>1 DEF Plain, JobSound
<1>2. CASE EntersToken(p, k)
  <2>1. k.tok \in Tok /\ ~Pending(k.tok)
    <3>1. CASE k.tok \in known BY <3>1 DEF PendingUnseen, TokensTyped
    <3>2. CASE job[p].at \in OnToken /\ k.tok = job[p].tok
      BY <1>0, <3>2, TokType DEF OnToken, Shaped, JobSound
    <3> QED BY <1>2, <3>1, <3>2 DEF EntersToken
  <2> QED BY <1>2, <1>s, <2>1 DEF EntersToken, OnToken, JobSound
<1>3. CASE EntersList(p, k)
  <2>1. k.tok = 0 \/ (k.tok \in Tok /\ ~Pending(k.tok))
    BY <1>3, <1>0 DEF EntersList, JobSound
  <2> QED BY <1>3, <1>s, <2>1 DEF EntersList, JobSound
<1>4. CASE EntersCommit(p, k)
  <2>1. k.tok = 0 \/ (k.tok \in Tok /\ ~Pending(k.tok)')
    BY <1>4, <1>0, <1>s DEF EntersCommit, JobSound
  <2>2. \A t \in k.hashes : t = k.new \/ ~Pending(t)'
    BY <1>4, <1>r DEF EntersCommit, Pruned, ActiveOf, Unrevoked
  <2>3. k.at = "commit" BY <1>4 DEF EntersCommit
  <2> QED BY <2>1, <2>2, <2>3 DEF JobSound
<1>5. CASE EntersSignout(p, k)
  <2>1. \A t \in k.vouch : ~Pending(t)' /\ t \in k.hashes /\ rows'[t].user = k.user
    BY <1>5, <1>r DEF EntersSignout, ActiveOf, Unrevoked
  <2>2. \A t \in k.before : ~Pending(t)' /\ Gone(t)'
    BY <1>5, <1>r DEF EntersSignout, RevokedRows, Gone
  <2>3. k.at = "signout" BY <1>5 DEF EntersSignout
  <2> QED BY <2>1, <2>2, <2>3 DEF JobSound
<1>6. CASE EntersRelist(p, k)
  <2> DEFINE act == ActiveOf(job[p].user)
  <2>1. /\ k.at = "relist" /\ job[p].at = "signout" /\ k.user = job[p].user
        /\ k.hashes = job[p].hashes /\ k.before = job[p].before
        /\ k.vouch = job[p].vouch \cup act /\ rows' = Revoking(act)
    BY <1>6 DEF EntersRelist
  <2>2. /\ \A t \in job[p].vouch : /\ ~Pending(t) /\ t \in job[p].hashes
                                   /\ rows[t] = NULL \/ rows[t].user = job[p].user
        /\ \A t \in job[p].before : Gone(t)
    BY <1>0, <2>1 DEF JobSound
  <2>3. \A t \in act : /\ t \in Tok /\ rows[t] # NULL /\ ~rows[t].revoked
                       /\ rows[t].user = job[p].user
    BY DEF ActiveOf, Unrevoked
  <2>4. \A t \in Tok : rows[t] # NULL /\ rows[t].user = job[p].user /\ ~rows[t].revoked
                         => t \in act
    BY DEF ActiveOf, Unrevoked
  <2> HIDE DEF act
  <2>5. ASSUME NEW t \in k.vouch
        PROVE  /\ ~Pending(t)'
               /\ \/ rows'[t] = NULL
                  \/ /\ rows'[t].revoked /\ rows'[t].user = k.user
                     /\ t \in k.hashes \/ t \notin k.before
    <3>1. t \in Tok BY <1>0, <2>1, <2>3
    <3>2. ~Pending(t)' BY <1>r, <1>s, <2>1, <2>2, <2>3, <3>1
    <3>3. CASE rows[t] = NULL BY <2>1, <3>1, <3>2, <3>3, RevokingFades
    <3>4. CASE rows[t] # NULL
      <4>1. rows[t].user = job[p].user /\ (t \in act \/ rows[t].revoked)
        BY <2>1, <2>2, <2>3, <2>4, <3>1, <3>4
      <4>2. /\ Revoking(act)[t].user = rows[t].user
            /\ Revoking(act)[t].revoked = (t \in act \/ rows[t].revoked)
        BY <3>1, <3>4, RevokingFades
      <4>3. rows'[t].revoked /\ rows'[t].user = k.user BY <2>1, <4>1, <4>2
      <4>4. t \in k.hashes \/ t \notin k.before BY <2>1, <2>2, <2>3 DEF Gone
      <4> QED BY <3>2, <4>3, <4>4
    <3> QED BY <3>3, <3>4
  <2> QED BY <2>1, <2>5 DEF JobSound
<1>7. CASE EntersRename(p, k)
  <2>1. \A t \in k.vouch : ~Pending(t)' /\ t \in k.hashes /\ rows'[t].sel = k.sel
    BY <1>7, <1>r DEF EntersRename, ActiveFor, Unrevoked
  <2>2. k.at = "rename" BY <1>7 DEF EntersRename
  <2> QED BY <2>1, <2>2 DEF JobSound
<1>8. CASE EntersPurge(p, k)
  <2> SUFFICES ASSUME TRUE
      PROVE /\ \A t \in k.vouch : ~Pending(t)' /\ HasEnded(t)' /\ (t \in k.hashes \/ rows'[t] = NULL)
            /\ k.new # 0 => ~Pending(k.new)'
    BY <1>8 DEF JobSound, EntersPurge
  <2>1. CASE /\ IssueCommit(p) /\ k.new = job[p].new
             /\ k.hashes = job[p].hashes \cup ({job[p].tok} \ {0})
             /\ k.vouch = k.hashes
    <3> DEFINE new == job[p].new
               gone == job[p].hashes \cup ({job[p].tok} \ {0})
               row == [user |-> job[p].user, sel |-> job[p].sel,
                       revoked |-> new \in job[p].hashes, temp |-> FALSE]
    <3>1. job[p].at = "commit" /\ new \in Tok BY <1>0, <2>1 DEF IssueCommit, Shaped
    <3>2. ~Pending(k.new)' BY <2>1, NewShown DEF Pending
    <3>3. rows' = [Revoking(gone) EXCEPT ![new] = row] BY <2>1 DEF IssueCommit
    <3>4. row.revoked = (new \in job[p].hashes) OBVIOUS
    <3>5. job[p].tok # new BY <1>0, <2>1, <3>1, NewShown, TokType DEF JobSound
    <3> HIDE DEF row
    <3>6. ASSUME NEW t \in k.vouch PROVE ~Pending(t)' /\ HasEnded(t)' /\ t \in k.hashes
      <4>1. t \in Tok /\ t \in gone BY <1>0, <2>1, <3>6
      <4>2. CASE t = new
        <5>1. rows'[t] = row BY <3>1, <3>3, <4>2, TableTypes
        <5>2. rows'[t].revoked BY <3>4, <3>5, <4>1, <4>2, <5>1
        <5> QED BY <2>1, <3>2, <3>6, <4>2, <5>2 DEF HasEnded
      <4>3. CASE t # new
        <5>1. rows'[t] = Revoking(gone)[t] BY <3>1, <3>3, <4>1, <4>3, TableTypes
        <5>2. ~Pending(t) BY <1>0, <3>1, <4>1, <4>3 DEF JobSound
        <5>3. rows'[t] = NULL \/ rows'[t].revoked BY <4>1, <5>1, RevokingRevokes
        <5> QED BY <1>s, <2>1, <3>6, <4>1, <5>2, <5>3 DEF HasEnded
      <4> QED BY <4>2, <4>3
    <3> QED BY <3>2, <3>6
  <2>2. CASE /\ job[p].at \in {"revokefind", "revoke"} /\ k.new = 0
             /\ k.vouch = {job[p].tok} /\ k.hashes = {job[p].tok}
             /\ \/ ~Unrevoked(job[p].tok) /\ rows' = rows
                \/ rows' = Revoking({job[p].tok})
    <3> DEFINE t == job[p].tok
    <3>1. t \in Tok /\ ~Pending(t) BY <1>0, <2>2, TokType DEF Shaped, JobSound
    <3>2. rows'[t] = NULL \/ rows'[t].revoked
      <4>1. CASE ~Unrevoked(t) /\ rows' = rows BY <4>1 DEF Unrevoked
      <4>2. CASE rows' = Revoking({t}) BY <3>1, <4>2, RevokingRevokes
      <4> QED BY <2>2, <4>1, <4>2
    <3> QED BY <1>s, <2>2, <3>1, <3>2 DEF HasEnded
  <2>3. CASE /\ job[p].at = "relist" /\ k.new = 0 /\ rows' = rows
             /\ k.vouch = job[p].vouch
             /\ k.hashes = job[p].hashes
                             \cup ({t \in RevokedRows : rows[t].user = job[p].user}
                                   \ job[p].before)
    <3>1. ASSUME NEW t \in k.vouch
          PROVE  ~Pending(t)' /\ HasEnded(t)' /\ (t \in k.hashes \/ rows'[t] = NULL)
      <4>1. /\ t \in Tok /\ ~Pending(t)
            /\ \/ rows[t] = NULL
               \/ /\ rows[t].revoked /\ rows[t].user = job[p].user
                  /\ t \in job[p].hashes \/ t \notin job[p].before
        BY <1>0, <2>3, <3>1 DEF JobSound
      <4>2. HasEnded(t)' BY <2>3, <4>1 DEF HasEnded
      <4>3. t \in k.hashes \/ rows'[t] = NULL BY <2>3, <4>1 DEF RevokedRows
      <4> QED BY <1>s, <4>1, <4>2, <4>3
    <3> QED BY <2>3, <3>1
  <2>4. CASE /\ RenameCommit(p) /\ k.new = 0
             /\ k.hashes = job[p].hashes /\ k.vouch = job[p].vouch
    <3>1. ASSUME NEW t \in k.vouch PROVE ~Pending(t)' /\ HasEnded(t)' /\ t \in k.hashes
      <4>1. /\ t \in Tok /\ ~Pending(t) /\ t \in k.hashes
            /\ Gone(t) \/ rows[t].sel = job[p].sel
        BY <1>0, <2>4, <3>1 DEF JobSound, RenameCommit
      <4>2. ~Pending(t)' /\ Fades(t) BY <1>s, <4>1
      <4>3. CASE Gone(t) BY <4>1, <4>2, <4>3 DEF Gone, Fades, HasEnded
      <4>4. CASE ~Gone(t)
        <5>1. t \in ActiveFor(job[p].sel) /\ rows[t] \in Row
          BY <4>1, <4>4 DEF Gone, ActiveFor, Unrevoked, TokensTyped
        <5>2. rows'[t] = [rows[t] EXCEPT !.temp = TRUE]
          BY <2>4, <4>1, <5>1 DEF RenameCommit
        <5>3. rows'[t].temp BY <5>1, <5>2 DEF Row
        <5> QED BY <4>1, <4>2, <5>3 DEF HasEnded
      <4> QED BY <4>3, <4>4
    <3> QED BY <2>4, <3>1
  <2>5. CASE k.vouch = {} /\ k.new = 0 BY <2>5
  <2> QED BY <1>8, <2>1, <2>2, <2>3, <2>4, <2>5 DEF EntersPurge
<1> QED BY <1>1, <1>2, <1>3, <1>4, <1>5, <1>6, <1>7, <1>8 DEF Enters

\* Every handler can still rely on what it read.
LEMMA JobsSoundStep ==
    ASSUME TokensTyped, JobShape, PendingUnseen, IssuesApart, JobsSound, NEW p \in Proc, Request(p)
    PROVE  JobsSound'
<1>1. PICK k \in Job : Shaped(k) /\ Goto(p, k) /\ Enters(p, k)
  BY JobStep
<1>2. job'[p] = k /\ \A q \in Proc \ {p} : job'[q] = job[q]
  BY <1>1, Moves
<1>3. JobSound(k)'
  BY <1>1, EnterSound
<1>4. profiles' \subseteq profiles /\ \A t \in Tok : ~Pending(t) => ~Pending(t)' /\ Fades(t)
  BY OtherSteps, Steady
<1>5. \A j \in Job : JobSound(j) => JobSound(j)'
  BY <1>4, SoundStays
<1>6. ASSUME NEW q \in Proc PROVE JobSound(job[q])'
  <2>1. CASE q = p BY <1>2, <1>3, <2>1 DEF JobSound
  <2>2. CASE q # p
    <3>1. PICK j \in Job : j = job[q] /\ JobSound(j) BY DEF TokensTyped, JobsSound
    <3>2. JobSound(j)' /\ j = job'[q] BY <1>2, <1>5, <2>2, <3>1
    <3> QED BY <3>2 DEF JobSound
  <2> QED BY <2>1, <2>2
<1> QED BY <1>6 DEF JobsSound

\* What has been ended stays ended in the cache.
LEMMA EndedStep ==
    ASSUME TokensTyped, JobShape, PendingUnseen, JobsSound, EndedInCache, NEW p \in Proc, Request(p)
    PROVE  EndedInCache'
<1> SUFFICES ASSUME NEW t \in acked' \cup renamed'
             PROVE  /\ HasEnded(t)'
                    /\ \/ cache'[t] = NULL \/ cache'[t].late \/ rows'[t] = NULL
                       \/ cache'[t].row.revoked \/ cache'[t].row.temp
  BY DEF EndedInCache
<1>0. job[p] \in Job /\ Shaped(job[p]) /\ JobSound(job[p])
  BY DEF TokensTyped, JobShape, JobsSound
<1>1. CASE t \in acked \cup renamed
  <2>1. /\ t \in Tok /\ HasEnded(t)
        /\ \/ cache[t] = NULL \/ cache[t].late \/ rows[t] = NULL
           \/ cache[t].row.revoked \/ cache[t].row.temp
    BY <1>1 DEF EndedInCache, TokensTyped
  <2>2. ~Pending(t) BY <1>1, <2>1 DEF PendingUnseen
  <2>3. Fades(t) BY <2>1, <2>2, Steady
  <2>4. HasEnded(t)' /\ (rows[t] = NULL => rows'[t] = NULL)
    BY <2>1, <2>3 DEF Fades, HasEnded
  <2>5. CASE LookupFill(p) /\ t = job[p].tok
    <3> DEFINE e == [row |-> job[p].copy, late |-> rows[t] # job[p].copy]
    <3>1. cache'[t] = e /\ rows' = rows BY <2>1, <2>5 DEF LookupFill, TokensTyped
    <3>2. e.row = job[p].copy /\ e.late = (rows[t] # job[p].copy) OBVIOUS
    <3> HIDE DEF e
    <3>3. rows[t] = job[p].copy \/ cache'[t].late BY <3>1, <3>2
    <3>4. CASE rows[t] = job[p].copy
      <4>1. rows[t] = NULL \/ job[p].copy.revoked \/ job[p].copy.temp
        BY <2>1, <3>4 DEF HasEnded
      <4> QED BY <2>4, <3>1, <3>2, <4>1
    <3> QED BY <2>4, <3>3, <3>4
  <2>6. CASE ~(LookupFill(p) /\ t = job[p].tok)
    <3>1. cache'[t] = NULL \/ cache'[t] = cache[t] BY <2>1, <2>6, CacheSteps
    <3> QED BY <2>1, <2>4, <3>1
  <2> QED BY <2>5, <2>6
<1>2. CASE t \notin acked \cup renamed
  <2>1. Purge(p) BY <1>2, OtherSteps
  <2>2. t \in job[p].vouch BY <1>2, <2>1 DEF Purge
  <2>3. t \in Tok /\ HasEnded(t) /\ (t \in job[p].hashes \/ rows[t] = NULL)
    BY <1>0, <2>1, <2>2 DEF JobSound, Purge, Job
  <2>4. rows' = rows /\ (t \in job[p].hashes => cache'[t] = NULL)
    BY <2>1, <2>3 DEF Purge, Purging
  <2> QED BY <2>3, <2>4 DEF HasEnded
<1> QED BY <1>1, <1>2

-----------------------------------------------------------------------------
(* Revocations reach the cache *)

\* The inductive invariant of this section.
CacheInv == TokensTyped /\ JobShape /\ PendingUnseen /\ IssuesApart /\ JobsSound /\ EndedInCache

\* Time passing and stuttering change nothing a handler relies on.
LEMMA QuietStep ==
    ASSUME CacheInv, rows' = rows, job' = job, next' = next, profiles' = profiles,
           known' = known, child' = child, acked' = acked, renamed' = renamed
    PROVE  PendingUnseen' /\ IssuesApart' /\ JobsSound'
<1>1. \A t \in Tok : Pending(t)' <=> Pending(t)
  BY DEF Pending
<1>2. PendingUnseen'
  BY <1>1 DEF CacheInv, PendingUnseen
<1>3. IssuesApart'
  BY DEF CacheInv, IssuesApart
<1>4. JobsSound'
  <2>1. \A t \in Tok : ~Pending(t) => ~Pending(t)' /\ Fades(t)
    BY <1>1 DEF Fades, CacheInv, TokensTyped, Row
  <2>2. \A j \in Job : JobSound(j) => JobSound(j)' BY <2>1, SoundStays DEF CacheInv
  <2>3. ASSUME NEW q \in Proc PROVE JobSound(job[q])'
    <3>1. PICK j \in Job : j = job[q] /\ JobSound(j)
      BY DEF CacheInv, TokensTyped, JobsSound
    <3>2. JobSound(j)' /\ j = job'[q] BY <2>2, <3>1
    <3> QED BY <3>2 DEF JobSound
  <2> QED BY <2>3 DEF JobsSound
<1> QED BY <1>2, <1>3, <1>4

\* The invariant holds initially.
LEMMA CacheInvInit == TokenInit => CacheInv
<1> SUFFICES ASSUME TokenInit PROVE CacheInv
  OBVIOUS
<1>1. TokensTyped /\ JobShape
  BY TypeInit
<1>2. \A p \in Proc : job[p] = IdleJob /\ job[p].at = "idle"
  BY IdleJobType DEF TokenInit
<1>3. PendingUnseen /\ EndedInCache
  BY DEF TokenInit, PendingUnseen, EndedInCache
<1>4. IssuesApart /\ JobsSound
  BY <1>2 DEF IssuesApart, JobsSound, JobSound
<1> QED BY <1>1, <1>3, <1>4 DEF CacheInv

\* Every step keeps the invariant.
LEMMA CacheInvStep ==
    ASSUME CacheInv, [TokenNext]_tokenVars
    PROVE  CacheInv'
<1>0. TokensTyped' /\ JobShape'
  BY TypeStep DEF CacheInv
<1>1. ASSUME NEW p \in Proc, Request(p) PROVE CacheInv'
  BY <1>0, <1>1, PendingStep, IssuesApartStep, JobsSoundStep, EndedStep DEF CacheInv
<1>2. ASSUME NEW t \in Tok, Evict(t) \/ Expire(t) PROVE CacheInv'
  <2>1. PendingUnseen' /\ IssuesApart' /\ JobsSound'
    BY <1>2, QuietStep DEF Evict, Expire, history
  <2>2. EndedInCache'
    BY <1>2 DEF CacheInv, TokensTyped, EndedInCache, HasEnded, Evict, Expire, history
  <2> QED BY <1>0, <2>1, <2>2 DEF CacheInv
<1>3. CASE UNCHANGED tokenVars
  <2>1. PendingUnseen' /\ IssuesApart' /\ JobsSound'
    BY <1>3, QuietStep DEF tokenVars, history
  <2>2. EndedInCache' BY <1>3 DEF CacheInv, EndedInCache, HasEnded, tokenVars, history
  <2> QED BY <1>0, <2>1, <2>2 DEF CacheInv
<1> QED BY <1>1, <1>2, <1>3 DEF TokenNext, TokenStep

\* When refresh, invalidate, signout, the pruning of an issue or a rename has
\* answered, the cache no longer vouches for the tokens it ended, except through a
\* copy that was outdated when it was written; for every number of overlapping
\* lookups, signouts, renames, deletions and cleanups.
THEOREM EndedTokensLeaveTheCache == TokenSpec => []RevocationReachesCache
<1>1. CacheInv => RevocationReachesCache
  BY DEF CacheInv, EndedInCache, RevocationReachesCache, CacheAccepts, Usable
<1>2. CacheInv /\ [TokenNext]_tokenVars => CacheInv'
  BY CacheInvStep
<1> QED BY <1>1, <1>2, CacheInvInit, PTL DEF TokenSpec

-----------------------------------------------------------------------------
(* Replacement *)

\* A replaced token has left circulation, and is replaced once, whatever a
\* request does.
LEMMA ReplacedStep ==
    ASSUME CacheInv, ReplacedOnce, SerialInv, mode' = mode, NEW p \in Proc, Request(p)
    PROVE  ReplacedOnce'
<1>0. /\ TokensTyped /\ JobShape /\ PendingUnseen /\ IssuesApart
      /\ job[p] \in Job /\ Shaped(job[p]) /\ JobSound(job[p])
  BY DEF CacheInv, TokensTyped, JobShape, JobsSound
<1> SUFFICES ASSUME NEW t \in Tok
             PROVE  /\ child'[t] # {} => (rows'[t] = NULL \/ rows'[t].revoked)
                    /\ mode.serial => Cardinality(child'[t]) <= 1
  BY DEF ReplacedOnce, Unrevoked
<1>1. CASE child'[t] = child[t]
  <2>1. mode.serial => Cardinality(child'[t]) <= 1 BY <1>1 DEF ReplacedOnce
  <2>2. ASSUME child'[t] # {} PROVE rows'[t] = NULL \/ rows'[t].revoked
    <3>1. ~Unrevoked(t) BY <1>1, <2>2 DEF ReplacedOnce
    <3>2. ~Pending(t) BY <1>0, <1>1, <2>2 DEF PendingUnseen
    <3>3. Fades(t) BY <1>0, <3>2, Steady
    <3>4. rows[t] = NULL \/ rows[t].revoked BY <3>1 DEF Unrevoked
    <3> QED BY <3>3, <3>4 DEF Fades
  <2> QED BY <2>1, <2>2
<1>2. CASE child'[t] # child[t]
  <2> DEFINE new == job[p].new
             gone == job[p].hashes \cup ({job[p].tok} \ {0})
  <2>1. IssueCommit(p) BY <1>0, <1>2, OtherSteps
  <2>2. t = job[p].tok /\ child'[t] = child[t] \cup {new}
    BY <1>0, <1>2, <2>1 DEF IssueCommit, TokensTyped
  <2>3. InTxn(p) /\ t # 0 /\ ~Pending(t)
    BY <1>0, <2>1, <2>2, TokType DEF InTxn, IssueCommit, JobSound
  <2>4. new # t /\ new \in Tok BY <1>0, <2>1, <2>3, NewShown
  <2>5. \E row : rows' = [Revoking(gone) EXCEPT ![new] = row] BY <2>1 DEF IssueCommit
  <2>6. rows'[t] = Revoking(gone)[t] BY <1>0, <2>4, <2>5, TableTypes
  <2>7. t \in gone BY <2>2, <2>3
  <2>8. rows'[t] = NULL \/ rows'[t].revoked BY <1>0, <2>6, <2>7, RevokingRevokes
  <2>9. ASSUME mode.serial PROVE Cardinality(child'[t]) <= 1
    <3>1. child'[t] = {new} BY <2>2, <2>3, <2>9 DEF SerialInv
    <3>2. Cardinality({new}) = 1 BY FS_Singleton
    <3> QED BY <3>1, <3>2
  <2> QED BY <2>8, <2>9
<1> QED BY <1>1, <1>2

\* Serial transactions stay serial, and redeem tokens without a replacement.
LEMMA SerialStep ==
    ASSUME CacheInv, ReplacedOnce, SerialInv, mode' = mode, NEW p \in Proc, Request(p)
    PROVE  SerialInv'
<1>0. TokensTyped /\ JobShape /\ job[p] \in Job
  BY DEF CacheInv, TokensTyped
<1>1. PICK k \in Job : Shaped(k) /\ Goto(p, k) /\ Enters(p, k)
  BY <1>0, JobStep
<1>2. job'[p] = k /\ \A q \in Proc \ {p} : job'[q] = job[q]
  BY <1>0, <1>1, Moves
<1> SUFFICES ASSUME mode.serial
             PROVE  /\ \A q, r \in Proc : InTxn(q)' /\ InTxn(r)' => q = r
                    /\ \A q \in Proc : InTxn(q)' /\ job'[q].tok # 0 => child'[job'[q].tok] = {}
  BY DEF SerialInv
<1>3. k.at \in {"list", "commit"} =>
         \/ EntersList(p, k)
         \/ EntersCommit(p, k)
  BY <1>1 DEF Enters, Plain, EntersToken, OnToken, EntersSignout, EntersRelist, EntersRename,
              EntersPurge
<1>4. InTxn(p)' => \A q \in Proc \ {p} : ~InTxn(q)
  BY <1>2, <1>3 DEF InTxn, EntersList, TxnFree, EntersCommit, SerialInv
<1>5. \A q \in Proc \ {p} : InTxn(q)' <=> InTxn(q)
  BY <1>2 DEF InTxn
<1>6. \A q, r \in Proc : InTxn(q)' /\ InTxn(r)' => q = r
  BY <1>4, <1>5 DEF SerialInv
<1>7. ASSUME NEW q \in Proc, InTxn(q)', job'[q].tok # 0 PROVE child'[job'[q].tok] = {}
  <2>1. CASE q # p
    <3>1. InTxn(q) /\ job'[q] = job[q] /\ ~InTxn(p)
      BY <1>2, <1>5, <1>7, <2>1 DEF SerialInv
    <3>2. child' = child BY <1>0, <3>1, OtherSteps DEF InTxn, IssueCommit
    <3> QED BY <1>7, <3>1, <3>2 DEF SerialInv
  <2>2. CASE q = p
    <3>1. k.at \in {"list", "commit"} /\ k.tok # 0 /\ job'[q] = k
      BY <1>2, <1>7, <2>2 DEF InTxn
    <3>2. job[p].at # "commit" BY <1>3, <3>1 DEF EntersList, EntersCommit
    <3>3. child' = child BY <1>0, <3>2, OtherSteps DEF IssueCommit
    <3>4. CASE EntersList(p, k)
      <4>1. Unrevoked(k.tok) /\ k.tok \in Tok BY <3>1, <3>4 DEF EntersList, Job
      <4> QED BY <3>1, <3>3, <4>1 DEF ReplacedOnce
    <3>5. CASE EntersCommit(p, k) BY <3>1, <3>3, <3>5 DEF EntersCommit, SerialInv, InTxn
    <3> QED BY <1>3, <3>1, <3>4, <3>5
  <2> QED BY <2>1, <2>2
<1> QED BY <1>6, <1>7

\* The inductive invariant of replacement.
ReplaceInv == CacheInv /\ ReplacedOnce /\ SerialInv

\* The invariant of replacement holds initially.
LEMMA ReplaceInit == TokenInit => ReplaceInv
<1> SUFFICES ASSUME TokenInit PROVE ReplaceInv
  OBVIOUS
<1>1. \A p \in Proc : job[p].at = "idle"
  BY IdleJobType DEF TokenInit
<1>2. ReplacedOnce
  BY FS_EmptySet DEF TokenInit, ReplacedOnce
<1>3. SerialInv
  BY <1>1 DEF SerialInv, InTxn
<1> QED BY <1>2, <1>3, CacheInvInit DEF ReplaceInv

\* Every step keeps the invariant of replacement.
LEMMA ReplaceStep ==
    ASSUME ReplaceInv, [TokenNext]_tokenVars
    PROVE  ReplaceInv'
<1>0. CacheInv'
  BY CacheInvStep DEF ReplaceInv
<1>1. ASSUME NEW p \in Proc, Request(p), mode' = mode PROVE ReplacedOnce' /\ SerialInv'
  BY <1>1, ReplacedStep, SerialStep DEF ReplaceInv
<1>2. ASSUME UNCHANGED <<rows, job, child, mode>> PROVE ReplacedOnce' /\ SerialInv'
  BY <1>2 DEF ReplaceInv, ReplacedOnce, Unrevoked, SerialInv, InTxn
<1> QED BY <1>0, <1>1, <1>2 DEF TokenNext, TokenStep, Evict, Expire, tokenVars, history, ReplaceInv

\* A token that was refreshed is never valid again, and where token transactions are
\* serial it was replaced by one token only, however many refreshes of it started
\* from cached copies; for every number of requests and tokens.
THEOREM ReplacementIsOnce == TokenSpec => []ReplacedOnce
<1>1. ReplaceInv => ReplacedOnce
  BY DEF ReplaceInv
<1>2. ReplaceInv /\ [TokenNext]_tokenVars => ReplaceInv'
  BY ReplaceStep
<1> QED BY <1>1, <1>2, ReplaceInit, PTL DEF TokenSpec

-----------------------------------------------------------------------------
(* The bound on active tokens *)

\* A nonempty set of naturals has a least element.
LEMMA LeastNat ==
    ASSUME NEW T \in SUBSET Nat, T # {}
    PROVE  \E x \in T : \A y \in T : x <= y
<1>1. IsWellFoundedOn(OpToRel(<,Nat), Nat)
  BY NatLessThanWellFounded
<1>2. PICK x \in T : \A y \in T : ~(<<y, x>> \in OpToRel(<,Nat))
  BY <1>1, WFMin
<1>3. \A y \in T : ~(y < x)
  BY <1>2 DEF OpToRel
<1> QED BY <1>3

\* Sets of tokens are finite, and a part has no more elements than the whole.
LEMMA TokSets ==
    ASSUME NEW S \in SUBSET Tok
    PROVE  /\ IsFiniteSet(S) /\ Cardinality(S) \in Nat
           /\ \A T \in SUBSET S : Cardinality(T) \in Nat /\ Cardinality(T) <= Cardinality(S)
<1>1. IsFiniteSet(Tok)
  BY TokType, FS_Interval DEF Tok
<1>2. IsFiniteSet(S)
  BY <1>1, FS_Subset
<1> QED BY <1>2, FS_Subset, FS_CardinalityType

\* prune_oldest_for_user keeps at most max_active_tokens tokens.
LEMMA PruneBound ==
    ASSUME TokensTyped, NEW X \in SUBSET Tok
    PROVE  Cardinality(X \ Pruned(X)) <= mode.active
<1> DEFINE K == X \ Pruned(X)
<1>0. mode.active \in Nat
  BY ModeType DEF TokensTyped
<1>1. CASE K = {}
  <2>1. Cardinality(K) = 0 BY <1>1, FS_EmptySet
  <2> QED BY <1>0, <2>1
<1>2. CASE K # {}
  <2>1. K \in SUBSET Nat BY TokType
  <2>2. PICK m \in K : \A y \in K : m <= y BY <1>2, <2>1, LeastNat
  <2> DEFINE above == {s \in X : s > m}
  <2>3. K \ {m} \in SUBSET above BY <2>1, <2>2
  <2>4. ~(Cardinality(above) >= mode.active) BY <2>2 DEF Pruned
  <2>5. Cardinality(above) \in Nat BY TokSets
  <2>6. IsFiniteSet(K) /\ Cardinality(K) \in Nat BY TokSets
  <2>7. Cardinality(K \ {m}) = Cardinality(K) - 1 BY <2>2, <2>6, FS_RemoveElement
  <2>8. Cardinality(K \ {m}) <= Cardinality(above) BY <2>3, TokSets
  <2> HIDE DEF K, above
  <2>9. Cardinality(K) <= mode.active BY <1>0, <2>4, <2>5, <2>6, <2>7, <2>8
  <2> QED BY <2>9 DEF K
<1> QED BY <1>1, <1>2

\* Only a commit can add to the tokens a user holds.
LEMMA ActiveShrinks ==
    ASSUME TokensTyped, JobShape, NEW p \in Proc, Request(p), NEW u
    PROVE  \A t \in Tok : /\ rows'[t] # NULL /\ ~rows'[t].revoked /\ rows'[t].user = u
                          /\ ~(IssueCommit(p) /\ t = job[p].new)
                          => t \in ActiveOf(u)
<1> SUFFICES ASSUME NEW t \in Tok, rows'[t] # NULL, ~rows'[t].revoked, rows'[t].user = u,
                    ~(IssueCommit(p) /\ t = job[p].new)
             PROVE  rows[t] # NULL /\ ~rows[t].revoked /\ rows[t].user = u
  BY DEF ActiveOf, Unrevoked
<1>1. Fades(t)
  BY RowsFade
<1> QED BY <1>1 DEF Fades

\* A commit leaves the user what the transaction decided to keep, and the other
\* users no more than they had.
LEMMA CommitKeeps ==
    ASSUME TokensTyped, JobShape, NEW p \in Proc, IssueCommit(p), Request(p),
           NEW u, NEW t \in Tok, rows'[t] # NULL, ~rows'[t].revoked, rows'[t].user = u
    PROVE  IF u = job[p].user
           THEN t \in ((ActiveOf(u) \ {job[p].tok}) \cup {job[p].new}) \ job[p].hashes
           ELSE t \in ActiveOf(u)
<1> DEFINE new == job[p].new
           gone == job[p].hashes \cup ({job[p].tok} \ {0})
           row == [user |-> job[p].user, sel |-> job[p].sel,
                   revoked |-> new \in job[p].hashes, temp |-> FALSE]
<1>1. new \in Tok
  BY DEF IssueCommit, JobShape, Shaped
<1>2. rows' = [Revoking(gone) EXCEPT ![new] = row]
  BY DEF IssueCommit
<1>3. row.user = job[p].user /\ row.revoked = (new \in job[p].hashes) OBVIOUS
<1> HIDE DEF row
<1>4. CASE t = new
  <2>1. rows'[t] = row BY <1>1, <1>2, <1>4, TableTypes
  <2> QED BY <1>3, <1>4, <2>1
<1>5. CASE t # new
  <2>1. rows'[t] = Revoking(gone)[t] BY <1>1, <1>2, <1>5, TableTypes
  <2>2. t \notin gone BY <2>1, RevokingRevokes
  <2>3. t \in ActiveOf(u) BY <1>5, ActiveShrinks
  <2> QED BY <2>2, <2>3, TokType
<1> QED BY <1>4, <1>5

\* The inductive invariant of the bound.
BoundInv == ReplaceInv /\ ActiveBounded /\ KeepBound

\* A request keeps every user within the bound, and prepares the next commit.
LEMMA BoundRequest ==
    ASSUME BoundInv, ReplaceInv', mode' = mode, NEW p \in Proc, Request(p), mode.serial
    PROVE  /\ \A u \in Users : Cardinality(ActiveOf(u)') <= mode.active
           /\ \A q \in Proc : job'[q].at = "commit" =>
                Cardinality(((ActiveOf(job[q].user)' \ {job'[q].tok}) \cup {job'[q].new})
                            \ job'[q].hashes) <= mode.active
<1>0. /\ TokensTyped /\ JobShape /\ SerialInv /\ SerialInv' /\ KeepBound /\ job \in [Proc -> Job]
      /\ TokensTyped' /\ mode.active \in Nat
  BY ModeType DEF BoundInv, ReplaceInv, CacheInv, TokensTyped
<1>1. \A u : ActiveOf(u)' = {t \in Tok : rows'[t] # NULL /\ ~rows'[t].revoked /\ rows'[t].user = u}
  BY DEF ActiveOf, Unrevoked
<1>2. \A u : ActiveOf(u) \in SUBSET Tok
  BY DEF ActiveOf
<1>3. ~IssueCommit(p) => \A u : ActiveOf(u)' \in SUBSET ActiveOf(u)
  BY <1>0, <1>1, ActiveShrinks
<1>4. ASSUME NEW u \in Users PROVE Cardinality(ActiveOf(u)') <= mode.active
  <2>1. Cardinality(ActiveOf(u)) <= mode.active BY DEF BoundInv, ActiveBounded
  <2>2. ASSUME ActiveOf(u)' \in SUBSET ActiveOf(u)
        PROVE  Cardinality(ActiveOf(u)') <= mode.active
    <3>1. /\ Cardinality(ActiveOf(u)) \in Nat /\ Cardinality(ActiveOf(u)') \in Nat
          /\ Cardinality(ActiveOf(u)') <= Cardinality(ActiveOf(u))
      BY <1>2, <2>2, TokSets
    <3> QED BY <1>0, <2>1, <3>1
  <2>3. CASE IssueCommit(p) /\ u = job[p].user
    <3> DEFINE keep == ((ActiveOf(u) \ {job[p].tok}) \cup {job[p].new}) \ job[p].hashes
    <3>1. Cardinality(keep) <= mode.active BY <1>0, <2>3 DEF KeepBound, IssueCommit
    <3>2. ActiveOf(u)' \in SUBSET keep BY <1>0, <1>1, <2>3, CommitKeeps
    <3>3. keep \in SUBSET Tok BY <1>0, <1>2, <2>3 DEF IssueCommit, JobShape, Shaped
    <3> HIDE DEF keep
    <3>4. /\ Cardinality(keep) \in Nat /\ Cardinality(ActiveOf(u)') \in Nat
          /\ Cardinality(ActiveOf(u)') <= Cardinality(keep)
      BY <3>2, <3>3, TokSets
    <3> QED BY <1>0, <3>1, <3>4
  <2>4. CASE IssueCommit(p) /\ u # job[p].user
    <3>1. ActiveOf(u)' \in SUBSET ActiveOf(u) BY <1>0, <1>1, <2>4, CommitKeeps
    <3> QED BY <2>2, <3>1
  <2>5. CASE ~IssueCommit(p) BY <1>3, <2>2, <2>5
  <2> QED BY <2>3, <2>4, <2>5
<1>5. ASSUME NEW q \in Proc, job'[q].at = "commit"
      PROVE  Cardinality(((ActiveOf(job[q].user)' \ {job'[q].tok}) \cup {job'[q].new})
                         \ job'[q].hashes) <= mode.active
  <2>1. PICK k \in Job : Shaped(k) /\ Goto(p, k) /\ Enters(p, k) BY <1>0, JobStep
  <2>2. job'[p] = k /\ \A r \in Proc \ {p} : job'[r] = job[r] BY <1>0, <2>1, Moves
  <2>3. PICK j \in Job : j = job'[q] BY <1>0 DEF TokensTyped
  <2> DEFINE before == ((ActiveOf(j.user) \ {j.tok}) \cup {j.new}) \ j.hashes
             after == ((ActiveOf(j.user)' \ {j.tok}) \cup {j.new}) \ j.hashes
  <2>4. ~IssueCommit(p)
    <3> SUFFICES ASSUME IssueCommit(p) PROVE FALSE
      OBVIOUS
    <3>1. k.at = "purge" BY <2>2, <1>0 DEF IssueCommit, Goto, PurgeJob, IdleJob
    <3>2. q # p /\ job[q].at = "commit" /\ job[p].at = "commit"
      BY <1>5, <2>2, <3>1 DEF IssueCommit
    <3> QED BY <1>0, <3>2 DEF SerialInv, InTxn
  <2>5. j.new \in Tok
    <3>1. JobShape' BY DEF ReplaceInv, CacheInv
    <3> QED BY <1>5, <2>3, <3>1 DEF JobShape, Shaped
  <2>6. before \in SUBSET Tok /\ after \in SUBSET before BY <1>2, <1>3, <2>4, <2>5
  <2>7. Cardinality(before) <= mode.active
    <3>1. CASE q # p BY <1>0, <1>5, <2>2, <2>3, <3>1 DEF KeepBound
    <3>2. CASE q = p
      <4> DEFINE X == (ActiveOf(job[p].user) \ {job[p].tok}) \cup {next}
      <4>1. EntersCommit(p, k) /\ j = k
        BY <1>5, <2>1, <2>2, <2>3, <3>2 DEF Enters, Plain, EntersToken, OnToken, EntersList,
             EntersSignout, EntersRelist, EntersRename, EntersPurge
      <4>2. before = X \ Pruned(X) BY <4>1 DEF EntersCommit
      <4>3. X \in SUBSET Tok BY <1>2, <4>1 DEF EntersCommit
      <4> HIDE DEF X, before
      <4> QED BY <1>0, <4>2, <4>3, PruneBound
    <3> QED BY <3>1, <3>2
  <2> HIDE DEF before, after
  <2>8. /\ Cardinality(before) \in Nat /\ Cardinality(after) \in Nat
        /\ Cardinality(after) <= Cardinality(before)
    BY <2>6, TokSets
  <2>9. Cardinality(after) <= mode.active BY <1>0, <2>7, <2>8
  <2>10. after = ((ActiveOf(job[q].user)' \ {job'[q].tok}) \cup {job'[q].new}) \ job'[q].hashes
    BY <2>3 DEF after, ActiveOf, Unrevoked
  <2> QED BY <2>9, <2>10
<1> QED BY <1>4, <1>5

\* The invariant of the bound holds initially.
LEMMA BoundInit == TokenInit => BoundInv
<1> SUFFICES ASSUME TokenInit PROVE BoundInv
  OBVIOUS
<1>1. \A u : ActiveOf(u) = {}
  BY DEF TokenInit, ActiveOf, Unrevoked
<1>2. mode.active \in Nat
  BY ModeType DEF TokenInit
<1>3. ActiveBounded
  BY <1>1, <1>2, FS_EmptySet DEF ActiveBounded
<1>4. \A p \in Proc : job[p].at = "idle"
  BY IdleJobType DEF TokenInit
<1>5. KeepBound
  BY <1>4 DEF KeepBound
<1> QED BY <1>3, <1>5, ReplaceInit DEF BoundInv

\* Every step keeps the invariant of the bound.
LEMMA BoundStep ==
    ASSUME BoundInv, [TokenNext]_tokenVars
    PROVE  BoundInv'
<1>0. ReplaceInv'
  BY ReplaceStep DEF BoundInv
<1>1. ASSUME NEW p \in Proc, Request(p), mode' = mode PROVE ActiveBounded' /\ KeepBound'
  BY <1>0, <1>1, BoundRequest DEF ActiveBounded, KeepBound
<1>2. ASSUME UNCHANGED <<rows, job, mode>> PROVE ActiveBounded' /\ KeepBound'
  BY <1>2 DEF BoundInv, ActiveBounded, KeepBound, ActiveOf, Unrevoked
<1> QED BY <1>0, <1>1, <1>2 DEF TokenNext, TokenStep, Evict, Expire, tokenVars, history, BoundInv

\* Where token transactions are serial, no user ever holds more than
\* max_active_tokens unrevoked tokens, for every bound, every number of users and
\* requests, and whatever is refreshed, revoked or deleted while tokens are issued.
THEOREM HeldTokensAreBounded == TokenSpec => []ActiveBounded
<1>1. BoundInv => ActiveBounded
  BY DEF BoundInv
<1>2. BoundInv /\ [TokenNext]_tokenVars => BoundInv'
  BY BoundStep
<1> QED BY <1>1, <1>2, BoundInit, PTL DEF TokenSpec

-----------------------------------------------------------------------------
(* The runtime: the inductive invariant, one part for each group of variables           *)

Loaded == load \in Workloads

\* Faults that may still happen are among those of the workload.
LeftInv == left \in [Faults -> Nat] /\ \A f \in Faults : left[f] <= load.left[f]

Outcomes == {"quiet", "succeeded", "failed"}
Run == [at : {"idle", "work", "find", "refresh", "insert", "complete"}, slot : Nat, outcome : Outcomes, ended : Nat, row : Nat]
Record == [kind : Kinds, slot : Nat, status : {"succeeded", "failed"}, updated : Nat]
Claim == [slot : Nat, by : Nodes \cup {NoNode}, fresh : BOOLEAN]
Recording == {"find", "refresh", "insert"}

RunTyped ==
    /\ claim \in [Kinds -> Claim] /\ run \in [Nodes \X Kinds -> Run] /\ clock \in Nat
    /\ record \in [DOMAIN record -> Record] /\ told \in [Kinds -> {"nothing", "succeeded", "failed"}] /\ twice \subseteq Kinds
\* An id is not used again: what was deleted is counted by the clean-ups there have been.
Numbered == IsFiniteSet(DOMAIN record) /\ NextId \in Nat /\ DOMAIN record \subseteq 1 .. NextId - 1
\* A run that will be recorded came to something, and no record is later than the clock.
Ended ==
    /\ \A nk \in Nodes \X Kinds : run[nk].at \in Recording => run[nk].outcome # "quiet" /\ run[nk].ended <= clock
    /\ \A i \in DOMAIN record : record[i].updated <= clock
\* A kind that never ran twice at once has one run under way.
Alone == \A k \in Kinds \ twice : \A n, o \in Nodes : run[<<n, k>>].at # "idle" /\ run[<<o, k>>].at # "idle" => n = o
\* A run that is alone ended after every record of its kind.
Latest ==
    \A k \in Kinds \ twice, n \in Nodes : run[<<n, k>>].at \in Recording =>
        \A i \in DOMAIN record : record[i].kind = k => record[i].updated <= run[<<n, k>>].ended
\* LatestIsTold, with the latest record written out.
ToldInv ==
    \A k \in Kinds \ twice : told[k] # "nothing" =>
        \E i \in DOMAIN record : /\ record[i].kind = k /\ record[i].status = told[k]
                                 /\ \A j \in DOMAIN record : record[j].kind = k => record[j].updated <= record[i].updated
\* The record a run will refresh is one of its kind, or gone for good.
Refreshing ==
    \A nk \in Nodes \X Kinds : run[nk].at = "refresh" =>
        run[nk].row \in 1 .. NextId - 1 /\ (run[nk].row \in DOMAIN record => record[run[nk].row].kind = nk[2])
RunInv == RunTyped /\ Numbered /\ OneRecordPerSlot /\ Ended /\ Refreshing /\ Alone /\ Latest /\ ToldInv

Marks == {"", "sent", "error"}
MailRow == [status : MailStatus, attempts : Nat, due : BOOLEAN, stale : BOOLEAN]
Post == [at : {"idle", "deliver", "mark", "log", "broken"}, todo : SUBSET (Mails \X Marks), claimed : Nat, rounds : Nat]
MailTyped ==
    /\ mail \in [Mails -> MailRow] /\ post \in [Nodes -> Post] /\ box \in [Mails -> Nat] /\ again \in [Mails -> Nat]
\* A mail that is not settled has an attempt left.
Tries == \A m \in Mails : /\ mail[m].attempts <= load.max_attempts
                          /\ mail[m].status \notin Settled => mail[m].attempts < load.max_attempts
\* Who may still send the mail, or give it back to the outbox.
Hands(m) == {h \in Nodes \X {"", "error"} : <<m, h[2]>> \in post[h[1]].todo}
\* The outbox may hand it out once more.
Open(m) == mail[m].status \in {"none", "pending", "retry"} \/ (mail[m].status = "processing" /\ mail[m].stale)
Sends(m) == box[m] + Cardinality(Hands(m)) + (IF Open(m) THEN 1 ELSE 0)
MailBound == \A m \in Mails : Sends(m) <= 1 + again[m]
MailInv == MailTyped /\ Tries /\ MailBound

Events == Nodes \X AuditActions \X Nat
Node == [at : Phases, leading : BOOLEAN, cancelled : BOOLEAN]
Query == [at : {"new", "flush", "read", "done"}, by : Nodes \cup {NoNode}, before : SUBSET Events, seen : SUBSET Events]
Ran(s) == {s[i] : i \in DOMAIN s}
AuditTyped ==
    /\ node \in [Nodes -> Node] /\ buf \in [Nodes -> Seq(Events)] /\ batch \in [Nodes -> Seq(Events)]
    /\ table \subseteq Events /\ lost \subseteq Events /\ IsFiniteSet(lost) /\ query \in Query
    /\ logged \in [Nodes -> SUBSET Events] /\ \A n \in Nodes : IsFiniteSet(logged[n])
Queues == \A n \in Nodes : Len(buf[n]) <= load.capacity /\ Len(batch[n]) <= load.capacity
\* An event is in the table, lost, or still with the node.
Kept == \A n \in Nodes : logged[n] \subseteq table \cup lost \cup Ran(buf[n]) \cup Ran(batch[n])
\* A cancelled writer has an empty queue, a closed node an empty batch too.
Closing == \A n \in Nodes : /\ node[n].cancelled => node[n].at \in {"flush", "off"} /\ buf[n] = <<>>
                            /\ node[n].at = "off" => node[n].cancelled /\ batch[n] = <<>>
\* What the administrator will have seen.
Asked ==
    /\ query.at \in {"flush", "read"} => query.by \in Nodes
    /\ query.at = "flush" => query.before \subseteq table \cup lost \cup Ran(buf[query.by]) \cup Ran(batch[query.by])
    /\ query.at = "read" => query.before \subseteq table \cup lost \cup Ran(batch[query.by])
    /\ query.at = "done" => query.before \subseteq query.seen \cup lost
LostBound == load.batch * (load.left.writes - left.writes) + load.capacity * 2 * (load.left.crashes - left.crashes)
Losses == Cardinality(lost) <= LostBound
AuditInv == AuditTyped /\ Queues /\ Kept /\ Closing /\ Asked /\ Losses

Inv == Loaded /\ LeftInv /\ RunInv /\ MailInv /\ AuditInv

-----------------------------------------------------------------------------
(* Faults                                                                  *)

\* A workload names the kinds that run and the mails there are; neither changes.
LEMMA SameLoad == load' = load => Kinds' = Kinds /\ Mails' = Mails
  BY DEF Kinds, Mails

\* What the assumption says of the workload at hand.
LEMMA LoadType ==
    ASSUME Loaded
    PROVE  /\ Kinds \subseteq SystemRuntimeTaskKind /\ Mails \subseteq 1 .. MaxMails /\ load.recorded \subseteq AuditActions
           /\ load.capacity \in Nat /\ load.batch \in Nat \ {0} /\ load.max_attempts \in Nat \ {0} /\ load.left \in [Faults -> Nat]
  BY RuntimeAssumption DEF Loaded, Kinds, Mails

\* A fault of one sort is spent and the others stay.
LEMMA SpendOne ==
    ASSUME Loaded, LeftInv, load' = load, NEW f \in Faults, Spend(f)
    PROVE  LeftInv' /\ left'[f] = left[f] - 1 /\ left[f] \in Nat \ {0} /\ \A g \in Faults \ {f} : left'[g] = left[g]
<1>1. /\ left \in [Faults -> Nat] /\ left[f] \in Nat \ {0} /\ left' = [left EXCEPT ![f] = left[f] - 1]
      /\ load.left \in [Faults -> Nat] /\ \A g \in Faults : left[g] <= load.left[g]
  BY LoadType DEF LeftInv, Spend
<1>2. left' \in [Faults -> Nat] /\ left'[f] = left[f] - 1 /\ \A g \in Faults \ {f} : left'[g] = left[g]
  BY <1>1
<1>3. \A g \in Faults : left'[g] <= load.left[g]
  BY <1>1, <1>2
<1> QED BY <1>1, <1>2, <1>3 DEF LeftInv

\* A step spends one fault at most, one of these sorts.
Spends(F) == left' = left \/ \E f \in F : Spend(f)
SpendsNot(f) == left'[f] = left[f]

\* A step that spends one fault at most keeps the bounds.
LEMMA LeftStays ==
    ASSUME Loaded, LeftInv, load' = load, NEW F \in SUBSET Faults, Spends(F)
    PROVE  LeftInv'
<1>1. CASE left' = left
  BY <1>1 DEF LeftInv
<1>2. CASE \E f \in F : Spend(f)
  BY <1>2, SpendOne
<1> QED BY <1>1, <1>2 DEF Spends

\* Faults of another sort stay.
LEMMA SpendsOther ==
    ASSUME LeftInv, NEW f \in Faults, NEW F \in SUBSET (Faults \ {f}), Spends(F)
    PROVE  SpendsNot(f)
  BY DEF LeftInv, Spend, Spends, SpendsNot

\* What an event in the audit log may cost.
LEMMA LogSpends ==
    ASSUME NEW n, NEW a, log(n, a) \/ log_with_db_and_config(n, a)
    PROVE  Spends({"writes"})
  BY DEF log, log_with_db_and_config, record_event, audits, Spends

-----------------------------------------------------------------------------
(* Runs and their records                                                  *)

RunFrame == UNCHANGED <<claim, run, record, clock, told, twice>> /\ SpendsNot("cleanups")

\* The number of the next record depends on the records and the clean-ups.
LEMMA NextIdSame ==
    ASSUME load' = load, SpendsNot("cleanups"), record' = record
    PROVE  NextId' = NextId
<1>1. left'.cleanups = left.cleanups
  BY DEF SpendsNot
<1> QED BY <1>1 DEF NextId

\* Nothing of the runs changes.
LEMMA RunUntouched ==
    ASSUME RunInv, load' = load, RunFrame
    PROVE  RunInv'
<1>1. Kinds' = Kinds /\ NextId' = NextId
  BY SameLoad, NextIdSame DEF RunFrame
<1>2. UNCHANGED <<claim, run, record, clock, told, twice>>
  BY DEF RunFrame
<1>3. RunTyped' /\ Numbered' /\ OneRecordPerSlot'
  BY <1>1, <1>2 DEF RunInv, RunTyped, Record, Numbered, OneRecordPerSlot
<1>4. Ended' /\ Refreshing' /\ Alone' /\ Latest' /\ ToldInv'
  BY <1>1, <1>2 DEF RunInv, Ended, Refreshing, Alone, Latest, ToldInv
<1> QED BY <1>3, <1>4 DEF RunInv

\* One run moves on; the records stay.
LEMMA RunMoves ==
    ASSUME RunInv, load' = load, SpendsNot("cleanups"), UNCHANGED <<record, told>>,
           NEW n \in Nodes, NEW k \in Kinds, NEW r \in Run, run' = [run EXCEPT ![<<n, k>>] = r],
           claim' \in [Kinds -> Claim], clock' \in Nat, clock <= clock', twice \subseteq twice', twice' \subseteq Kinds,
           r.at \in Recording => /\ r.outcome # "quiet" /\ r.ended <= clock'
                                 /\ k \notin twice' => \A i \in DOMAIN record : record[i].kind = k => record[i].updated <= r.ended,
           r.at = "refresh" => r.row \in DOMAIN record /\ record[r.row].kind = k,
           r.at # "idle" => \/ run[<<n, k>>].at # "idle" \/ k \in twice'
                            \/ \A o \in Nodes : o # n => run[<<o, k>>].at = "idle"
    PROVE  RunInv'
<1>1. Kinds' = Kinds /\ NextId' = NextId
  BY SameLoad, NextIdSame
<1>2. /\ run' \in [Nodes \X Kinds -> Run] /\ run'[<<n, k>>] = r /\ clock \in Nat
      /\ \A nk \in Nodes \X Kinds : nk # <<n, k>> => run'[nk] = run[nk]
  BY DEF RunInv, RunTyped
<1>3. RunTyped' /\ Numbered' /\ OneRecordPerSlot'
  BY <1>1, <1>2 DEF RunInv, RunTyped, Record, Numbered, OneRecordPerSlot
<1>4. Ended'
  <2>1. ASSUME NEW nk \in Nodes \X Kinds, run'[nk].at \in Recording
        PROVE  run'[nk].outcome # "quiet" /\ run'[nk].ended <= clock'
    <3>1. CASE nk = <<n, k>> BY <1>2, <2>1, <3>1
    <3>2. CASE nk # <<n, k>>
      <4>1. run'[nk] = run[nk] /\ run[nk] \in Run BY <1>2, <3>2 DEF RunInv, RunTyped
      <4>2. run[nk].outcome # "quiet" /\ run[nk].ended <= clock /\ run[nk].ended \in Nat
        BY <2>1, <4>1 DEF RunInv, Ended, Run
      <4> QED BY <1>2, <4>1, <4>2
    <3> QED BY <3>1, <3>2
  <2>2. ASSUME NEW i \in DOMAIN record PROVE record[i].updated <= clock'
    <3>1. record[i].updated <= clock /\ record[i].updated \in Nat
      BY DEF RunInv, Ended, RunTyped, Record
    <3> QED BY <1>2, <3>1
  <2> QED BY <1>1, <2>1, <2>2 DEF Ended
<1>5. Alone'
  <2> SUFFICES ASSUME NEW l \in Kinds \ twice', NEW a \in Nodes, NEW b \in Nodes,
                      run'[<<a, l>>].at # "idle", run'[<<b, l>>].at # "idle"
               PROVE  a = b
    BY <1>1 DEF Alone
  <2>1. \A c \in Nodes : <<c, l>> # <<n, k>> => run'[<<c, l>>] = run[<<c, l>>] BY <1>2
  <2>2. \A c, d \in Nodes : run[<<c, l>>].at # "idle" /\ run[<<d, l>>].at # "idle" => c = d
    BY DEF RunInv, Alone
  <2> QED BY <1>2, <2>1, <2>2
<1>6. Latest'
  <2> SUFFICES ASSUME NEW l \in Kinds \ twice', NEW a \in Nodes, run'[<<a, l>>].at \in Recording,
                      NEW i \in DOMAIN record, record[i].kind = l
               PROVE  record[i].updated <= run'[<<a, l>>].ended
    BY <1>1 DEF Latest
  <2>1. CASE <<a, l>> = <<n, k>> BY <1>2, <2>1
  <2>2. CASE <<a, l>> # <<n, k>> BY <1>2, <2>2 DEF RunInv, Latest
  <2> QED BY <2>1, <2>2
<1>7. ToldInv'
  BY <1>1 DEF RunInv, ToldInv
<1>8. Refreshing'
  <2> SUFFICES ASSUME NEW nk \in Nodes \X Kinds, run'[nk].at = "refresh"
               PROVE  run'[nk].row \in 1 .. NextId - 1 /\ (run'[nk].row \in DOMAIN record => record[run'[nk].row].kind = nk[2])
    BY <1>1 DEF Refreshing
  <2>1. CASE nk = <<n, k>> BY <1>2, <2>1 DEF RunInv, Numbered
  <2>2. CASE nk # <<n, k>> BY <1>2, <2>2 DEF RunInv, Refreshing
  <2> QED BY <2>1, <2>2
<1> QED BY <1>3, <1>4, <1>5, <1>6, <1>7, <1>8 DEF RunInv

\* What the next number is made of.
LEMMA NextIdIs ==
    ASSUME Loaded, LeftInv, IsFiniteSet(DOMAIN record)
    PROVE  \E c, a, b \in Nat : /\ c = Cardinality(DOMAIN record) /\ a = load.left.cleanups /\ b = left.cleanups /\ b <= a
                                /\ NextId = c + a - b + 1
<1>1. Cardinality(DOMAIN record) \in Nat
  BY FS_CardinalityType
<1>2. load.left.cleanups \in Nat /\ left.cleanups \in Nat /\ left.cleanups <= load.left.cleanups
  BY LoadType DEF LeftInv, Faults
<1> QED BY <1>1, <1>2 DEF NextId

\* A new record takes a number that was never used.
LEMMA InsertNumbers ==
    ASSUME Loaded, LeftInv, Numbered, load' = load, SpendsNot("cleanups"), NEW row, Insert(row)
    PROVE  \E x \in Nat \ DOMAIN record :
              /\ x = NextId /\ NextId' = x + 1
              /\ DOMAIN record' = DOMAIN record \cup {x} /\ record'[x] = row
              /\ \A i \in DOMAIN record : record'[i] = record[i]
              /\ Numbered'
<1>1. PICK c, a, b \in Nat : /\ c = Cardinality(DOMAIN record) /\ a = load.left.cleanups /\ b = left.cleanups /\ b <= a
                             /\ NextId = c + a - b + 1
  BY NextIdIs DEF Numbered
<1>2. PICK x : x = NextId OBVIOUS
<1>3. x \in Nat /\ x = c + a - b + 1 /\ DOMAIN record \subseteq 1 .. x - 1 /\ IsFiniteSet(DOMAIN record)
  BY <1>1, <1>2 DEF Numbered
<1>4. x \notin DOMAIN record
  BY <1>3
<1>5. record' = [i \in DOMAIN record \cup {x} |-> IF i = x THEN row ELSE record[i]]
  BY <1>2 DEF Insert
<1>6. DOMAIN record' = DOMAIN record \cup {x} /\ record'[x] = row /\ \A i \in DOMAIN record : record'[i] = record[i]
  BY <1>4, <1>5
<1>7. IsFiniteSet(DOMAIN record') /\ Cardinality(DOMAIN record') = c + 1
  BY <1>1, <1>3, <1>4, <1>6, FS_AddElement
<1>8. left'.cleanups = b /\ load'.left.cleanups = a
  BY <1>1 DEF SpendsNot
<1>9. NextId' = (c + 1) + a - b + 1
  BY <1>7, <1>8 DEF NextId
<1>10. NextId' = x + 1
  BY <1>1, <1>3, <1>9
<1>11. DOMAIN record' \subseteq 1 .. x
  BY <1>1, <1>3, <1>6
<1>12. Numbered'
  BY <1>3, <1>7, <1>10, <1>11 DEF Numbered
<1> QED BY <1>2, <1>3, <1>4, <1>6, <1>10, <1>12

\* A record that is deleted leaves its number behind.
LEMMA CleanupNumbers ==
    ASSUME Loaded, LeftInv, Numbered, load' = load, Spend("cleanups"), NEW i \in DOMAIN record,
           record' = [j \in DOMAIN record \ {i} |-> record[j]]
    PROVE  Numbered'
<1>1. PICK c, a, b \in Nat : /\ c = Cardinality(DOMAIN record) /\ a = load.left.cleanups /\ b = left.cleanups /\ b <= a
                             /\ NextId = c + a - b + 1
  BY NextIdIs DEF Numbered
<1>2. left'.cleanups = b - 1 /\ load'.left.cleanups = a
  BY <1>1, SpendOne DEF Faults
<1>3. DOMAIN record' = DOMAIN record \ {i} /\ IsFiniteSet(DOMAIN record)
  BY DEF Numbered
<1>4. IsFiniteSet(DOMAIN record') /\ Cardinality(DOMAIN record') = c - 1
  BY <1>1, <1>3, FS_RemoveElement
<1>5. NextId' = (c - 1) + a - (b - 1) + 1
  BY <1>2, <1>4 DEF NextId
<1>6. NextId' = NextId
  BY <1>1, <1>5
<1> QED BY <1>3, <1>4, <1>6 DEF Numbered

\* A run is over and its record, x, is written: a new one, or an older one refreshed.
Written(n, k, x) ==
    /\ UNCHANGED <<claim, clock, twice>> /\ Numbered' /\ NextId <= NextId'
    /\ run[<<n, k>>].at \in Recording /\ run' = [run EXCEPT ![<<n, k>>].at = "complete"]
    /\ DOMAIN record' = DOMAIN record \cup {x} /\ (x \in DOMAIN record \/ x = NextId)
    /\ record' = [i \in DOMAIN record' |-> record'[i]] /\ told' = [told EXCEPT ![k] = record'[x].status]
    /\ \A i \in DOMAIN record : i # x => record'[i] = record[i]
    /\ record'[x] \in Record /\ record'[x].kind = k /\ record'[x].updated = run[<<n, k>>].ended
    /\ x \in DOMAIN record => record[x].kind = k /\ record[x].slot = record'[x].slot
    /\ x \notin DOMAIN record =>
          \A i \in DOMAIN record : record[i].kind = k /\ record[i].slot = record'[x].slot => record'[x].slot = 0

\* The record that is written becomes the latest of its kind.
LEMMA RecordWritten ==
    ASSUME RunInv, load' = load, NEW n \in Nodes, NEW k \in Kinds, NEW x \in Nat, Written(n, k, x)
    PROVE  RunInv'
<1> USE DEF Written
<1>1. Kinds' = Kinds
  BY SameLoad
<1>2. PICK r : r = run[<<n, k>>] OBVIOUS
<1>3. r \in Run /\ r.at \in Recording /\ r.ended <= clock /\ r.ended \in Nat /\ r.outcome # "quiet"
  BY <1>2 DEF RunInv, RunTyped, Ended, Run
<1>4. PICK q : q = [r EXCEPT !.at = "complete"] OBVIOUS
<1>5. q \in Run /\ q.at = "complete"
  BY <1>3, <1>4 DEF Run
<1>6. run' = [run EXCEPT ![<<n, k>>] = q]
  BY <1>2, <1>4
<1>7. /\ run' \in [Nodes \X Kinds -> Run] /\ run'[<<n, k>>] = q
      /\ \A nk \in Nodes \X Kinds : nk # <<n, k>> => run'[nk] = run[nk]
  BY <1>5, <1>6 DEF RunInv, RunTyped
<1>8. \A i \in DOMAIN record : record[i] \in Record
  BY DEF RunInv, RunTyped
<1>9. RunTyped'
  <2>1. record' \in [DOMAIN record' -> Record] BY <1>8
  <2>2. told' \in [Kinds -> {"nothing", "succeeded", "failed"}]
    BY DEF RunInv, RunTyped, Record
  <2> QED BY <1>1, <1>7, <2>1, <2>2 DEF RunInv, RunTyped, Record
<1>10. OneRecordPerSlot'
  <2> SUFFICES ASSUME NEW i \in DOMAIN record', NEW j \in DOMAIN record', record'[i].kind = record'[j].kind,
                      record'[i].slot = record'[j].slot, record'[i].slot # 0, i # j
               PROVE  FALSE
    BY DEF OneRecordPerSlot
  <2>1. \A a, b \in DOMAIN record : record[a].kind = record[b].kind /\ record[a].slot = record[b].slot /\ record[a].slot # 0 => a = b
    BY DEF RunInv, OneRecordPerSlot
  <2>2. CASE i # x /\ j # x BY <2>1, <2>2
  <2>3. CASE i = x \/ j = x BY <2>1, <2>3
  <2> QED BY <2>2, <2>3
<1>11. Ended'
  <2>1. \A nk \in Nodes \X Kinds : run'[nk].at \in Recording => run'[nk].outcome # "quiet" /\ run'[nk].ended <= clock
    BY <1>5, <1>7 DEF RunInv, Ended, Recording
  <2>2. \A i \in DOMAIN record' : record'[i].updated <= clock
    BY <1>2, <1>3 DEF RunInv, Ended
  <2> QED BY <1>1, <2>1, <2>2 DEF Ended
<1>12. Alone'
  <2> SUFFICES ASSUME NEW l \in Kinds \ twice, NEW a \in Nodes, NEW b \in Nodes,
                      run'[<<a, l>>].at # "idle", run'[<<b, l>>].at # "idle"
               PROVE  a = b
    BY <1>1 DEF Alone
  <2>1. \A c \in Nodes : run'[<<c, l>>].at # "idle" => run[<<c, l>>].at # "idle"
    BY <1>2, <1>3, <1>7 DEF Recording
  <2> QED BY <2>1 DEF RunInv, Alone
<1>13. Latest'
  <2> SUFFICES ASSUME NEW l \in Kinds \ twice, NEW a \in Nodes, run'[<<a, l>>].at \in Recording,
                      NEW i \in DOMAIN record', record'[i].kind = l
               PROVE  record'[i].updated <= run'[<<a, l>>].ended
    BY <1>1 DEF Latest
  <2>1. <<a, l>> # <<n, k>> BY <1>5, <1>7 DEF Recording
  <2>2. run'[<<a, l>>] = run[<<a, l>>] BY <1>7, <2>1
  <2>3. l # k
    <3> SUFFICES ASSUME l = k PROVE FALSE
      OBVIOUS
    <3>1. run[<<a, k>>].at # "idle" /\ run[<<n, k>>].at # "idle"
      BY <1>2, <1>3, <2>2 DEF Recording
    <3>2. a = n BY <3>1 DEF RunInv, Alone
    <3> QED BY <2>1, <3>2
  <2>4. i # x BY <2>3
  <2>5. i \in DOMAIN record /\ record'[i] = record[i] BY <2>4
  <2> QED BY <2>2, <2>5 DEF RunInv, Latest
<1>14. ToldInv'
  <2> SUFFICES ASSUME NEW l \in Kinds \ twice, told'[l] # "nothing"
               PROVE  \E i \in DOMAIN record' :
                         /\ record'[i].kind = l /\ record'[i].status = told'[l]
                         /\ \A j \in DOMAIN record' : record'[j].kind = l => record'[j].updated <= record'[i].updated
    BY <1>1 DEF ToldInv
  <2>1. CASE l = k
    <3>1. told'[k] = record'[x].status BY DEF RunInv, RunTyped
    <3>2. \A j \in DOMAIN record' : record'[j].kind = k => record'[j].updated <= record'[x].updated
      <4> SUFFICES ASSUME NEW j \in DOMAIN record', record'[j].kind = k PROVE record'[j].updated <= run[<<n, k>>].ended
        OBVIOUS
      <4>1. CASE j = x BY <1>2, <1>3, <4>1
      <4>2. CASE j # x BY <2>1, <4>2 DEF RunInv, Latest
      <4> QED BY <4>1, <4>2
    <3> QED BY <2>1, <3>1, <3>2
  <2>2. CASE l # k
    <3>1. told'[l] = told[l] BY <2>2 DEF RunInv, RunTyped
    <3>2. PICK i \in DOMAIN record : /\ record[i].kind = l /\ record[i].status = told[l]
                                     /\ \A j \in DOMAIN record : record[j].kind = l => record[j].updated <= record[i].updated
      BY <3>1 DEF RunInv, ToldInv
    <3>3. i # x /\ i \in DOMAIN record' BY <2>2, <3>2
    <3>4. \A j \in DOMAIN record' : record'[j].kind = l => j # x /\ j \in DOMAIN record /\ record'[j] = record[j]
      BY <2>2
    <3> QED BY <3>1, <3>2, <3>3, <3>4
  <2> QED BY <2>1, <2>2
<1>15. Refreshing'
  <2> SUFFICES ASSUME NEW nk \in Nodes \X Kinds, run'[nk].at = "refresh"
               PROVE  run'[nk].row \in 1 .. NextId' - 1 /\ (run'[nk].row \in DOMAIN record' => record'[run'[nk].row].kind = nk[2])
    BY <1>1 DEF Refreshing
  <2>1. run'[nk] = run[nk] BY <1>5, <1>7
  <2>2. PICK y : y = run[nk].row OBVIOUS
  <2>3. y \in 1 .. NextId - 1 /\ (y \in DOMAIN record => record[y].kind = nk[2])
    BY <2>1, <2>2 DEF RunInv, Refreshing
  <2>4. NextId \in Nat /\ NextId' \in Nat BY DEF RunInv, Numbered
  <2>5. y \in 1 .. NextId' - 1 /\ y # NextId BY <2>3, <2>4
  <2>6. y \in DOMAIN record' => record'[y].kind = nk[2]
    <3> SUFFICES ASSUME y \in DOMAIN record' PROVE record'[y].kind = nk[2]
      OBVIOUS
    <3>1. y \in DOMAIN record BY <2>5
    <3>2. CASE y = x BY <2>3, <3>1, <3>2
    <3>3. CASE y # x BY <2>3, <3>1, <3>3
    <3> QED BY <3>2, <3>3
  <2> QED BY <2>1, <2>2, <2>5, <2>6
<1> QED BY <1>9, <1>10, <1>11, <1>12, <1>13, <1>14, <1>15 DEF RunInv

\* Runs do not meet unnoticed.
LEMMA WatchSees ==
    ASSUME RunInv, load' = load, NEW n \in Nodes, NEW k \in Kinds, NEW r \in Run, run' = [run EXCEPT ![<<n, k>>] = r],
           r.at # "idle", Watch(k)
    PROVE  /\ twice \subseteq twice' /\ twice' \subseteq Kinds
           /\ k \in twice' \/ \A o \in Nodes : o # n => run[<<o, k>>].at = "idle"
<1>1. run'[<<n, k>>] = r /\ \A o \in Nodes : o # n => run'[<<o, k>>] = run[<<o, k>>]
  BY DEF RunInv, RunTyped
<1>2. CASE \E a, o \in Nodes : a # o /\ run'[<<a, k>>].at # "idle" /\ run'[<<o, k>>].at # "idle"
  <2>1. twice' = twice \cup {k} BY <1>2 DEF Watch
  <2> QED BY <2>1 DEF RunInv, RunTyped
<1>3. CASE ~ \E a, o \in Nodes : a # o /\ run'[<<a, k>>].at # "idle" /\ run'[<<o, k>>].at # "idle"
  <2>1. twice' = twice BY <1>3 DEF Watch
  <2>2. \A o \in Nodes : o # n => run[<<o, k>>].at = "idle" BY <1>1, <1>3
  <2> QED BY <2>1, <2>2 DEF RunInv, RunTyped
<1> QED BY <1>2, <1>3

\* A slot is claimed, or the dispatcher iterates.
LEMMA ClaimSlotRuns ==
    ASSUME RunInv, load' = load, NEW n \in Nodes, NEW k \in Kinds,
           ClaimSlot(n, k) \/ (k = Dispatch /\ run_background_task_dispatch_iteration(n))
    PROVE  RunInv'
<1>1. PICK r : r = IF k = Dispatch /\ run_background_task_dispatch_iteration(n)
                   THEN [Idle EXCEPT !.at = "work"] ELSE [Idle EXCEPT !.at = "work", !.slot = claim[k].slot]
  OBVIOUS
<1>2. claim[k] \in Claim /\ claim \in [Kinds -> Claim] /\ clock \in Nat
  BY DEF RunInv, RunTyped
<1>3. r \in Run /\ r.at = "work"
  BY <1>1, <1>2 DEF Idle, Run, Claim, Outcomes
<1>4. run' = [run EXCEPT ![<<n, k>>] = r] /\ Watch(k) /\ UNCHANGED <<record, told, clock, left>>
  BY <1>1 DEF ClaimSlot, run_background_task_dispatch_iteration
<1>5. claim' \in [Kinds -> Claim]
  <2>1. CASE claim' = claim BY <1>2, <2>1
  <2>2. CASE claim' = [claim EXCEPT ![k] = [@ EXCEPT !.by = n, !.fresh = TRUE]]
    <3>1. [claim[k] EXCEPT !.by = n, !.fresh = TRUE] \in Claim BY <1>2 DEF Claim
    <3> QED BY <1>2, <2>2, <3>1
  <2> QED BY <2>1, <2>2 DEF ClaimSlot, run_background_task_dispatch_iteration
<1>6. SpendsNot("cleanups") /\ clock <= clock'
  BY <1>2, <1>4 DEF SpendsNot
<1>7. r.at \notin Recording
  BY <1>3 DEF Recording
<1> QED BY <1>2, <1>3, <1>4, <1>5, <1>6, <1>7, WatchSees, RunMoves

\* What a run may come to.
LEMMA OutcomesAre ==
    ASSUME NEW k \in SystemRuntimeTaskKind
    PROVE  OutcomesOf(k) \subseteq Outcomes
<1>1. \A r \in Results : run_cleanup(r) \in Outcomes /\ background_task_dispatch_outcome(r) \in Outcomes
  BY DEF Results, run_cleanup, background_task_dispatch_outcome, Outcomes
<1>2. \A r \in Results \cup {"issues"} : run_yggdrasil_storage_consistency_check(r) \in Outcomes
  BY DEF Results, run_yggdrasil_storage_consistency_check, Outcomes
<1>3. \A g, r \in Results : run_yggdrasil_texture_cleanup(g, r) \in Outcomes
  BY DEF Results, run_yggdrasil_texture_cleanup, Outcomes
<1>4. \A r \in run_system_health_checks : system_health_outcome(r) \in Outcomes
  BY DEF system_health_outcome, Outcomes
<1> QED BY <1>1, <1>2, <1>3, <1>4 DEF OutcomesOf, Dispatch, Health

\* A run ends.
LEMMA EndWorkRuns ==
    ASSUME RunInv, load' = load, NEW n \in Nodes, NEW k \in Kinds, NEW o \in Outcomes, EndWork(n, k, o),
           run[<<n, k>>].at = "work", UNCHANGED <<claim, record, told, twice>>, SpendsNot("cleanups")
    PROVE  RunInv'
<1>1. PICK q : q = run[<<n, k>>] OBVIOUS
<1>2. q \in Run /\ q.at = "work" /\ clock \in Nat /\ claim \in [Kinds -> Claim] /\ twice \subseteq Kinds
  BY <1>1 DEF RunInv, RunTyped
<1>a. PICK a, e : a = (IF o = "quiet" THEN "complete" ELSE "find") /\ e = clock + 1 OBVIOUS
<1>b. a \in {"complete", "find"} /\ e \in Nat
  BY <1>2, <1>a
<1>3. PICK r : r = [q EXCEPT !.at = a, !.outcome = o, !.ended = e] OBVIOUS
<1>c. r \in Run /\ r.outcome = o /\ r.ended = e /\ r.at = a
  BY <1>2, <1>3, <1>b DEF Run
<1>4. r \in Run /\ r.outcome = o /\ r.ended = clock + 1 /\ r.at = IF o = "quiet" THEN "complete" ELSE "find"
  BY <1>a, <1>c
<1>5. run' = [run EXCEPT ![<<n, k>>] = r] /\ clock' = IF o = "quiet" THEN clock ELSE clock + 1
  BY <1>1, <1>3, <1>a DEF EndWork
<1>6. clock' \in Nat /\ clock <= clock'
  BY <1>2, <1>5
<1>7. r.at \in Recording => o # "quiet" /\ r.ended <= clock'
  BY <1>2, <1>4, <1>5 DEF Recording
<1>8. \A i \in DOMAIN record : record[i].updated <= r.ended
  <2> SUFFICES ASSUME NEW i \in DOMAIN record PROVE record[i].updated <= clock + 1
    BY <1>4
  <2>1. record[i].updated \in Nat /\ record[i].updated <= clock
    BY DEF RunInv, RunTyped, Record, Ended
  <2> QED BY <1>2, <2>1
<1>9. run[<<n, k>>].at # "idle"
  BY <1>1, <1>2
<1> QED BY <1>2, <1>4, <1>5, <1>6, <1>7, <1>8, <1>9, RunMoves

\* The run of a task, or of the mail dispatch, comes to something.
LEMMA RunTaskRuns ==
    ASSUME Loaded, LeftInv, RunInv, load' = load, NEW n \in Nodes, NEW k \in Kinds, RunTask(n, k)
    PROVE  RunInv'
<1>1. \E o \in Outcomes : EndWork(n, k, o)
  BY LoadType, OutcomesAre DEF RunTask, Outcomes
<1>2. UNCHANGED <<claim, record, told, twice>> /\ SpendsNot("cleanups") /\ run[<<n, k>>].at = "work"
  BY DEF RunTask, SpendsNot
<1> QED BY <1>1, <1>2, EndWorkRuns

\* The mail dispatch ends.
LEMMA MailDispatchRuns ==
    ASSUME Loaded, LeftInv, RunInv, load' = load, NEW n \in Nodes, run_mail_outbox_dispatch(n)
    PROVE  RunInv'
<1>1. MailKind \in Kinds /\ run[<<n, MailKind>>].at = "work" /\ UNCHANGED <<claim, record, told, twice>>
  BY DEF run_mail_outbox_dispatch
<1>2. \E o \in Outcomes : EndWork(n, MailKind, o)
  BY DEF run_mail_outbox_dispatch, Outcomes
<1>3. Spends({"claims"})
  BY DEF run_mail_outbox_dispatch, Spends
<1>4. SpendsNot("cleanups")
  BY <1>3, SpendsOther DEF Faults
<1> QED BY <1>1, <1>2, <1>4, EndWorkRuns

\* The run goes on to its record, or is over; the records stay.
LEMMA RunGoesOn ==
    ASSUME RunInv, load' = load, NEW n \in Nodes, NEW k \in Kinds, run[<<n, k>>].at \in Recording,
           NEW r \in Run, run' = [run EXCEPT ![<<n, k>>] = r],
           r.at \in {"refresh", "insert", "complete"}, r.at = "refresh" => r.row \in DOMAIN record /\ record[r.row].kind = k,
           r.outcome = run[<<n, k>>].outcome, r.ended = run[<<n, k>>].ended,
           UNCHANGED <<claim, record, clock, told, twice, left>>
    PROVE  RunInv'
<1>1. /\ clock \in Nat /\ claim \in [Kinds -> Claim] /\ twice \subseteq Kinds
      /\ run[<<n, k>>].outcome # "quiet" /\ run[<<n, k>>].ended <= clock /\ run[<<n, k>>].at # "idle"
  BY DEF RunInv, RunTyped, Ended, Recording
<1>2. k \notin twice => \A i \in DOMAIN record : record[i].kind = k => record[i].updated <= r.ended
  BY DEF RunInv, Latest
<1>3. SpendsNot("cleanups") /\ clock <= clock'
  BY <1>1 DEF SpendsNot
<1> QED BY <1>1, <1>2, <1>3, RunMoves

\* The latest success is looked up.
LEMMA FindLatestRuns ==
    ASSUME RunInv, load' = load, NEW n \in Nodes, NEW k \in Kinds, FindLatest(n, k)
    PROVE  RunInv'
<1>1. PICK q : q = run[<<n, k>>] OBVIOUS
<1>2. q \in Run /\ q.at = "find"
  BY <1>1 DEF RunInv, RunTyped, FindLatest
<1>3. UNCHANGED <<claim, record, clock, told, twice, left>>
  BY DEF FindLatest
<1>4. \/ run' = [run EXCEPT ![<<n, k>>] = [q EXCEPT !.at = "insert"]]
      \/ \E i \in DOMAIN record : record[i].kind = k /\ run' = [run EXCEPT ![<<n, k>>] = [q EXCEPT !.at = "refresh", !.row = i]]
  BY <1>1 DEF FindLatest, find_latest_system_runtime_by_payload, OfKind
<1>5. DOMAIN record \subseteq Nat
  BY DEF RunInv, Numbered
<1>6. PICK r : /\ run' = [run EXCEPT ![<<n, k>>] = r]
               /\ \/ r = [q EXCEPT !.at = "insert"]
                  \/ \E i \in DOMAIN record : record[i].kind = k /\ r = [q EXCEPT !.at = "refresh", !.row = i]
  BY <1>4
<1>7. /\ r \in Run /\ r.at \in {"refresh", "insert", "complete"} /\ r.outcome = q.outcome /\ r.ended = q.ended
      /\ r.at = "refresh" => r.row \in DOMAIN record /\ record[r.row].kind = k
  BY <1>2, <1>5, <1>6 DEF Run
<1> QED BY <1>1, <1>2, <1>3, <1>6, <1>7, RunGoesOn DEF Recording

\* A record of a healthy system is refreshed, if it is still there.
LEMMA RefreshRuns ==
    ASSUME Loaded, LeftInv, RunInv, load' = load, NEW n \in Nodes, NEW k \in Kinds, refresh_system_runtime_success(n, k)
    PROVE  RunInv'
<1>1. PICK q : q = run[<<n, k>>] OBVIOUS
<1>2. q \in Run /\ q.at = "refresh"
  BY <1>1 DEF RunInv, RunTyped, refresh_system_runtime_success
<1>3. PICK x : x = q.row OBVIOUS
<1>4. x \in Nat /\ q.ended \in Nat /\ (x \in DOMAIN record => record[x].kind = k)
  BY <1>1, <1>2, <1>3 DEF RunInv, Refreshing, Run
<1>5. UNCHANGED <<claim, clock, twice, left>>
  BY DEF refresh_system_runtime_success
<1>6. CASE x \in DOMAIN record /\ record[x].status = "succeeded"
  <2>1. /\ record' = [record EXCEPT ![x].updated = q.ended] /\ told' = [told EXCEPT ![k] = "succeeded"]
        /\ run' = [run EXCEPT ![<<n, k>>].at = "complete"]
    BY <1>1, <1>3, <1>6 DEF refresh_system_runtime_success
  <2>2. PICK y : y = [record[x] EXCEPT !.updated = q.ended] OBVIOUS
  <2>3. record[x] \in Record /\ record[x].kind = k BY <1>4, <1>6 DEF RunInv, RunTyped
  <2>4. y \in Record /\ y.kind = k /\ y.slot = record[x].slot /\ y.status = "succeeded" /\ y.updated = q.ended
    BY <1>4, <1>6, <2>2, <2>3 DEF Record
  <2>5. record' = [record EXCEPT ![x] = y] BY <2>1, <2>2
  <2>6. record = [i \in DOMAIN record |-> record[i]] BY DEF RunInv, RunTyped
  <2>7. /\ DOMAIN record' = DOMAIN record /\ record'[x] = y /\ \A i \in DOMAIN record : i # x => record'[i] = record[i]
        /\ record' = [i \in DOMAIN record' |-> record'[i]]
    BY <1>6, <2>5, <2>6
  <2>8. NextId' = NextId BY <1>5, <2>7 DEF NextId
  <2>9. Numbered' /\ NextId <= NextId' BY <2>7, <2>8 DEF RunInv, Numbered
  <2>10. DOMAIN record' = DOMAIN record \cup {x} BY <1>6, <2>7
  <2>11. /\ told' = [told EXCEPT ![k] = record'[x].status] /\ record'[x] \in Record /\ record'[x].kind = k
         /\ record'[x].updated = run[<<n, k>>].ended /\ record[x].slot = record'[x].slot /\ run[<<n, k>>].at \in Recording
    BY <1>1, <1>2, <2>1, <2>4, <2>7 DEF Recording
  <2>12. /\ \A i \in DOMAIN record : i # x => record'[i] = record[i]
         /\ x \in DOMAIN record => record[x].kind = k /\ record[x].slot = record'[x].slot
         /\ x \in DOMAIN record \/ x = NextId
         /\ x \notin DOMAIN record =>
               \A i \in DOMAIN record : record[i].kind = k /\ record[i].slot = record'[x].slot => record'[x].slot = 0
    BY <1>6, <2>3, <2>7, <2>11
  <2>13. /\ UNCHANGED <<claim, clock, twice>> /\ x \in Nat /\ run' = [run EXCEPT ![<<n, k>>].at = "complete"]
         /\ record' = [i \in DOMAIN record' |-> record'[i]]
    BY <1>4, <1>5, <2>1, <2>7
  <2>14. Written(n, k, x) BY <2>9, <2>10, <2>11, <2>12, <2>13 DEF Written
  <2> QED BY <1>4, <2>14, RecordWritten
<1>7. CASE ~ (x \in DOMAIN record /\ record[x].status = "succeeded")
  <2>1. run' = [run EXCEPT ![<<n, k>>].at = "insert"] /\ UNCHANGED <<record, told>>
    BY <1>1, <1>3, <1>7 DEF refresh_system_runtime_success
  <2>2. PICK r : r = [q EXCEPT !.at = "insert"] OBVIOUS
  <2>3. r \in Run /\ r.at = "insert" /\ r.outcome = q.outcome /\ r.ended = q.ended
    BY <1>2, <2>2 DEF Run
  <2>4. run' = [run EXCEPT ![<<n, k>>] = r] BY <1>1, <2>1, <2>2
  <2> QED BY <1>1, <1>2, <1>5, <2>1, <2>3, <2>4, RunGoesOn DEF Recording
<1> QED BY <1>6, <1>7

\* A record is inserted, unless the slot has one.
LEMMA InsertRuns ==
    ASSUME Loaded, LeftInv, RunInv, load' = load, NEW n \in Nodes, NEW k \in Kinds, insert_typed_task_record(n, k)
    PROVE  RunInv'
<1>1. PICK q : q = run[<<n, k>>] OBVIOUS
<1>2. q \in Run /\ q.at = "insert" /\ UNCHANGED <<claim, clock, twice, left>> /\ run' = [run EXCEPT ![<<n, k>>].at = "complete"]
  BY <1>1 DEF RunInv, RunTyped, insert_typed_task_record
<1>3. q.outcome \in {"succeeded", "failed"} /\ q.slot \in Nat /\ q.ended \in Nat
  BY <1>1, <1>2 DEF RunInv, Ended, Run, Outcomes, Recording
<1>4. CASE find_by_dedupe_key(k, q.slot) = {}
  <2>1. PICK row : row = NewRecord(k, q) OBVIOUS
  <2>2. Insert(row) /\ told' = [told EXCEPT ![k] = q.outcome] /\ SpendsNot("cleanups")
    BY <1>1, <1>2, <1>4, <2>1 DEF insert_typed_task_record, SpendsNot
  <2>3. row \in Record /\ row.kind = k /\ row.slot = q.slot /\ row.status = q.outcome /\ row.updated = q.ended
    BY <1>3, <2>1 DEF NewRecord, Record
  <2>4. PICK x \in Nat \ DOMAIN record :
             /\ x = NextId /\ NextId' = x + 1 /\ DOMAIN record' = DOMAIN record \cup {x} /\ record'[x] = row
             /\ \A i \in DOMAIN record : record'[i] = record[i]
             /\ Numbered'
    BY <2>2, InsertNumbers DEF RunInv
  <2>5. \A i \in DOMAIN record : record[i].kind = k /\ record[i].slot = q.slot => q.slot = 0
    BY <1>4 DEF find_by_dedupe_key, OfKind
  <2>6. record' = [i \in DOMAIN record' |-> record'[i]] BY <2>2 DEF Insert
  <2>7. NextId <= NextId' BY <2>4
  <2>8. /\ told' = [told EXCEPT ![k] = record'[x].status] /\ record'[x] \in Record /\ record'[x].kind = k
        /\ record'[x].updated = run[<<n, k>>].ended /\ record'[x].slot = q.slot /\ run[<<n, k>>].at \in Recording
    BY <1>1, <1>2, <2>2, <2>3, <2>4 DEF Recording
  <2>9. /\ \A i \in DOMAIN record : i # x => record'[i] = record[i]
        /\ x \in DOMAIN record => record[x].kind = k /\ record[x].slot = record'[x].slot
        /\ x \in DOMAIN record \/ x = NextId
        /\ x \notin DOMAIN record =>
              \A i \in DOMAIN record : record[i].kind = k /\ record[i].slot = record'[x].slot => record'[x].slot = 0
    BY <2>4, <2>5, <2>8
  <2>10. UNCHANGED <<claim, clock, twice>> /\ x \in Nat /\ DOMAIN record' = DOMAIN record \cup {x} /\ Numbered'
    BY <1>2, <2>4
  <2>11. Written(n, k, x) BY <1>2, <2>6, <2>7, <2>8, <2>9, <2>10 DEF Written
  <2> QED BY <2>4, <2>11, RecordWritten
<1>5. CASE find_by_dedupe_key(k, q.slot) # {}
  <2>1. UNCHANGED <<record, told>> BY <1>1, <1>5 DEF insert_typed_task_record
  <2>2. PICK r : r = [q EXCEPT !.at = "complete"] OBVIOUS
  <2>3. r \in Run /\ r.at = "complete" /\ r.outcome = q.outcome /\ r.ended = q.ended
    BY <1>2, <2>2 DEF Run
  <2>4. run' = [run EXCEPT ![<<n, k>>] = r] BY <1>1, <1>2, <2>2
  <2> QED BY <1>1, <1>2, <2>1, <2>3, <2>4, RunGoesOn DEF Recording
<1> QED BY <1>4, <1>5

\* The slot is over.
LEMMA CompleteRuns ==
    ASSUME RunInv, load' = load, NEW n \in Nodes, NEW k \in Kinds, CompleteSlot(n, k)
    PROVE  RunInv'
<1>1. run' = [run EXCEPT ![<<n, k>>] = Idle] /\ UNCHANGED <<record, clock, told, twice, left>>
  BY DEF CompleteSlot
<1>2. Idle \in Run /\ Idle.at = "idle"
  BY DEF Idle, Run, Outcomes
<1>3. clock \in Nat /\ claim \in [Kinds -> Claim] /\ claim[k].slot \in Nat /\ twice \subseteq Kinds
  BY DEF RunInv, RunTyped, Claim
<1>4. PICK d, e : d = (IF run[<<n, k>>].outcome = "quiet" THEN 0 ELSE 1) /\ e = claim[k].slot + d
  OBVIOUS
<1>5. e \in Nat
  BY <1>3, <1>4
<1>6. [slot |-> e, by |-> NoNode, fresh |-> FALSE] \in Claim
  BY <1>5 DEF Claim
<1>7. claim' = claim \/ claim' = [claim EXCEPT ![k] = [slot |-> e, by |-> NoNode, fresh |-> FALSE]]
  BY <1>4 DEF CompleteSlot
<1>8. claim' \in [Kinds -> Claim]
  BY <1>3, <1>6, <1>7
<1>9. SpendsNot("cleanups") /\ clock <= clock'
  BY <1>1, <1>3 DEF SpendsNot
<1> QED BY <1>1, <1>2, <1>3, <1>8, <1>9, RunMoves DEF Recording

\* An administrator deletes a record.
LEMMA CleanupRuns ==
    ASSUME Loaded, LeftInv, RunInv, load' = load, NEW x \in DOMAIN record, CleanupRecord(x)
    PROVE  RunInv'
<1>1. /\ Spend("cleanups") /\ record' = [j \in DOMAIN record \ {x} |-> record[j]]
      /\ told' = [told EXCEPT ![record[x].kind] = "nothing"] /\ UNCHANGED <<claim, run, clock, twice>>
  BY DEF CleanupRecord
<1>2. Kinds' = Kinds /\ Numbered'
  BY <1>1, SameLoad, CleanupNumbers DEF RunInv
<1>3. DOMAIN record' = DOMAIN record \ {x} /\ \A i \in DOMAIN record' : record'[i] = record[i]
  BY <1>1
<1>4. \A i \in DOMAIN record : record[i] \in Record
  BY DEF RunInv, RunTyped
<1>5. RunTyped'
  <2>1. record' \in [DOMAIN record' -> Record] BY <1>1, <1>3, <1>4
  <2>2. told' \in [Kinds -> {"nothing", "succeeded", "failed"}]
    BY <1>1 DEF RunInv, RunTyped
  <2> QED BY <1>1, <1>2, <2>1, <2>2 DEF RunInv, RunTyped, Record
<1>6. OneRecordPerSlot' /\ Ended' /\ Alone' /\ Latest'
  BY <1>1, <1>2, <1>3 DEF RunInv, OneRecordPerSlot, Ended, Alone, Latest
<1>7. NextId' = NextId
  <2>1. PICK c, a, b \in Nat : /\ c = Cardinality(DOMAIN record) /\ a = load.left.cleanups /\ b = left.cleanups /\ b <= a
                               /\ NextId = c + a - b + 1
    BY NextIdIs DEF RunInv, Numbered
  <2>2. left'.cleanups = b - 1 BY <1>1, <2>1, SpendOne DEF Faults
  <2>3. Cardinality(DOMAIN record') = c - 1
    BY <1>3, <2>1, FS_RemoveElement DEF RunInv, Numbered
  <2>4. NextId' = (c - 1) + a - (b - 1) + 1 BY <2>1, <2>2, <2>3 DEF NextId
  <2> QED BY <2>1, <2>4
<1>8. Refreshing'
  BY <1>1, <1>2, <1>3, <1>7 DEF RunInv, Refreshing
<1>9. ToldInv'
  <2> SUFFICES ASSUME NEW l \in Kinds \ twice, told'[l] # "nothing"
               PROVE  \E i \in DOMAIN record' :
                         /\ record'[i].kind = l /\ record'[i].status = told'[l]
                         /\ \A j \in DOMAIN record' : record'[j].kind = l => record'[j].updated <= record'[i].updated
    BY <1>1, <1>2 DEF ToldInv
  <2>1. l # record[x].kind /\ told'[l] = told[l]
    BY <1>1, <1>4 DEF RunInv, RunTyped, Record
  <2>2. PICK i \in DOMAIN record : /\ record[i].kind = l /\ record[i].status = told[l]
                                   /\ \A j \in DOMAIN record : record[j].kind = l => record[j].updated <= record[i].updated
    BY <2>1 DEF RunInv, ToldInv
  <2>3. i \in DOMAIN record' BY <1>3, <2>1, <2>2
  <2> QED BY <1>3, <2>1, <2>2, <2>3
<1> QED BY <1>2, <1>5, <1>6, <1>8, <1>9 DEF RunInv

\* A claim runs out.
LEMMA ClaimExpiresRuns ==
    ASSUME Loaded, LeftInv, RunInv, load' = load, NEW k \in Kinds, ClaimExpires(k)
    PROVE  RunInv'
<1>1. claim' = [claim EXCEPT ![k].fresh = FALSE] /\ UNCHANGED <<run, record, clock, told, twice>>
  BY DEF ClaimExpires
<1>2. claim' \in [Kinds -> Claim]
  BY <1>1 DEF RunInv, RunTyped, Claim
<1>3. Spends({"stalls"})
  BY DEF ClaimExpires, Spends
<1>4. SpendsNot("cleanups")
  BY <1>3, SpendsOther DEF Faults
<1>5. Kinds' = Kinds /\ NextId' = NextId
  BY <1>1, <1>4, SameLoad, NextIdSame
<1>6. RunTyped' /\ Numbered' /\ OneRecordPerSlot'
  BY <1>1, <1>2, <1>5 DEF RunInv, RunTyped, Record, Numbered, OneRecordPerSlot
<1>7. Ended' /\ Refreshing' /\ Alone' /\ Latest' /\ ToldInv'
  BY <1>1, <1>5 DEF RunInv, Ended, Refreshing, Alone, Latest, ToldInv
<1> QED BY <1>6, <1>7 DEF RunInv

\* A node crashes with its runs.
LEMMA CrashRuns ==
    ASSUME Loaded, LeftInv, RunInv, load' = load, NEW n \in Nodes, Crash(n)
    PROVE  RunInv'
<1>1. /\ run' = [nk \in Nodes \X Kinds |-> IF nk[1] = n THEN Idle ELSE run[nk]]
      /\ UNCHANGED <<claim, record, clock, told, twice>> /\ Spend("crashes")
  BY DEF Crash
<1>2. SpendsNot("cleanups")
  <2>1. Spends({"crashes"}) BY <1>1 DEF Spends
  <2> QED BY <2>1, SpendsOther DEF Faults
<1>3. Kinds' = Kinds /\ NextId' = NextId
  BY <1>1, <1>2, SameLoad, NextIdSame
<1>4. Idle \in Run /\ Idle.at = "idle"
  BY DEF Idle, Run, Outcomes
<1>5. run' \in [Nodes \X Kinds -> Run] /\ \A nk \in Nodes \X Kinds : run'[nk].at = "idle" \/ run'[nk] = run[nk]
  BY <1>1, <1>4 DEF RunInv, RunTyped
<1>6. RunTyped' /\ Numbered' /\ OneRecordPerSlot'
  BY <1>1, <1>3, <1>5 DEF RunInv, RunTyped, Record, Numbered, OneRecordPerSlot
<1>7. Ended' /\ Refreshing'
  BY <1>1, <1>3, <1>5 DEF RunInv, Ended, Refreshing, Recording
<1>8. Alone'
  <2> SUFFICES ASSUME NEW l \in Kinds \ twice, NEW a \in Nodes, NEW b \in Nodes,
                      run'[<<a, l>>].at # "idle", run'[<<b, l>>].at # "idle"
               PROVE  a = b
    BY <1>1, <1>3 DEF Alone
  <2> QED BY <1>5 DEF RunInv, Alone
<1>9. Latest'
  <2> SUFFICES ASSUME NEW l \in Kinds \ twice, NEW a \in Nodes, run'[<<a, l>>].at \in Recording
               PROVE  run'[<<a, l>>] = run[<<a, l>>]
    BY <1>1, <1>3 DEF RunInv, Latest
  <2> QED BY <1>5 DEF Recording
<1>10. ToldInv'
  BY <1>1, <1>3 DEF RunInv, ToldInv
<1> QED BY <1>6, <1>7, <1>8, <1>9, <1>10 DEF RunInv

\* All other steps leave the runs alone.
LEMMA RunOthers ==
    ASSUME LeftInv, NEW n \in Nodes,
           \/ dispatch_due(n) \/ (\E m \in Mails : deliver_one(n, m) \/ MarkMail(n, m) \/ LogMail(n, m))
           \/ LeaseStep(n) \/ AuditStep(n) \/ StopStep(n)
           \/ record_server_start(n) \/ StopNode(n) \/ query_audit(n) \/ AuditedRequest(n)
    PROVE  RunFrame
<1> DEFINE F == {"writes", "sends", "claims"}
<1> SUFFICES UNCHANGED <<claim, run, record, clock, told, twice>> /\ Spends(F)
  BY SpendsOther DEF RunFrame, Faults
<1>1. CASE dispatch_due(n) \/ (\E m \in Mails : deliver_one(n, m) \/ MarkMail(n, m))
  BY <1>1 DEF dispatch_due, deliver_one, MarkMail, runs, Spends
<1>2. CASE (\E m \in Mails : LogMail(n, m)) \/ AuditedRequest(n) \/ record_server_start(n) \/ record_server_shutdown(n)
  <2>1. UNCHANGED runs /\ \E a : log(n, a) \/ log_with_db_and_config(n, a)
    BY <1>2 DEF LogMail, AuditedRequest, record_server_start, record_server_shutdown
  <2>2. Spends({"writes"}) BY <2>1, LogSpends
  <2> QED BY <2>1, <2>2 DEF runs, Spends
<1>3. CASE LeaseStep(n)
  BY <1>3 DEF LeaseStep, AcquireLease, RenewLease, Spends
<1>4. CASE AuditStep(n) \/ query_audit(n)
  BY <1>4 DEF AuditStep, DelayedFlush, write_audit_batch, flush_global_audit_log_manager, find_with_filters_cursor,
              query_audit, runs, Spends
<1>5. CASE ShutdownTasks(n) \/ drain_with(n) \/ shutdown_global_audit_log_manager(n) \/ CloseDatabase(n) \/ StopNode(n)
  BY <1>5 DEF ShutdownTasks, drain_with, shutdown_global_audit_log_manager, CloseDatabase, StopNode, runs, Spends
<1> QED BY <1>1, <1>2, <1>3, <1>4, <1>5 DEF StopStep

\* Mails are queued and fall due, what is not renewed runs out.
LEMMA RunOutside ==
    ASSUME LeftInv, (\E m \in Mails : enqueue(m) \/ MailFallsDue(m) \/ MailGoesStale(m)) \/ LeaseExpires
    PROVE  RunFrame
<1>1. UNCHANGED <<claim, run, record, clock, told, twice>> /\ Spends({"stalls"})
  BY DEF enqueue, MailFallsDue, MailGoesStale, LeaseExpires, runs, Spends
<1> QED BY <1>1, SpendsOther DEF RunFrame, Faults

\* Every step keeps what is known of the runs.
LEMMA RunKeeps ==
    ASSUME Loaded, LeftInv, RunInv, Next
    PROVE  RunInv'
<1>0. load' = load
  BY DEF Next
<1>1. ASSUME NEW n \in Nodes, NEW k \in Kinds, RunStep(n, k)
      PROVE  RunInv'
  BY <1>0, <1>1, ClaimSlotRuns, RunTaskRuns, FindLatestRuns, RefreshRuns, InsertRuns, CompleteRuns DEF RunStep
<1>2. ASSUME NEW n \in Nodes, run_mail_outbox_dispatch(n) \/ Crash(n)
      PROVE  RunInv'
  BY <1>0, <1>2, MailDispatchRuns, CrashRuns
<1>3. ASSUME NEW k \in Kinds, ClaimExpires(k)
      PROVE  RunInv'
  BY <1>0, <1>3, ClaimExpiresRuns
<1>4. ASSUME NEW i \in DOMAIN record, CleanupRecord(i)
      PROVE  RunInv'
  BY <1>0, <1>4, CleanupRuns
<1>5. CASE RunFrame
  BY <1>0, <1>5, RunUntouched
<1>6. ASSUME NEW n \in Nodes,
             \/ MailStep(n) \/ LeaseStep(n) \/ AuditStep(n) \/ StopStep(n)
             \/ record_server_start(n) \/ StopNode(n) \/ Crash(n) \/ query_audit(n) \/ AuditedRequest(n)
      PROVE  RunInv'
  BY <1>2, <1>5, <1>6, RunOthers DEF MailStep
<1>7. CASE (\E m \in Mails : enqueue(m) \/ MailFallsDue(m) \/ MailGoesStale(m)) \/ LeaseExpires
  BY <1>5, <1>7, RunOutside
<1> QED BY <1>1, <1>3, <1>4, <1>6, <1>7 DEF Next, Step, Expires

-----------------------------------------------------------------------------
(* Mails                                                                   *)

\* Hands are finitely many.
LEMMA HandsFinite ==
    ASSUME NEW m
    PROVE  IsFiniteSet(Hands(m)) /\ Cardinality(Hands(m)) \in Nat
<1>1. IsFiniteSet({"", "error"})
  <2>1. IsFiniteSet({""} \cup {"error"}) BY FS_AddElement, FS_Singleton
  <2>2. {""} \cup {"error"} = {"", "error"} OBVIOUS
  <2> QED BY <2>1, <2>2
<1>2. IsFiniteSet(Nodes \X {"", "error"})
  BY <1>1, RuntimeAssumption, FS_Product
<1>3. Hands(m) \subseteq Nodes \X {"", "error"}
  BY DEF Hands
<1>4. IsFiniteSet(Hands(m))
  BY <1>2, <1>3, FS_Subset
<1> QED BY <1>4, FS_CardinalityType

\* The same after a step.
LEMMA HandsFiniteNext ==
    ASSUME NEW m
    PROVE  IsFiniteSet(Hands(m)') /\ Cardinality(Hands(m)') \in Nat
<1>1. IsFiniteSet({"", "error"})
  <2>1. IsFiniteSet({""} \cup {"error"}) BY FS_AddElement, FS_Singleton
  <2>2. {""} \cup {"error"} = {"", "error"} OBVIOUS
  <2> QED BY <2>1, <2>2
<1>2. IsFiniteSet(Nodes \X {"", "error"})
  BY <1>1, RuntimeAssumption, FS_Product
<1>3. Hands(m)' \subseteq Nodes \X {"", "error"}
  BY DEF Hands
<1>4. IsFiniteSet(Hands(m)')
  BY <1>2, <1>3, FS_Subset
<1> QED BY <1>4, FS_CardinalityType

\* A pair is what its parts are.
LEMMA Pair ==
    ASSUME NEW S, NEW T, NEW h \in S \X T
    PROVE  h = <<h[1], h[2]>> /\ h[1] \in S /\ h[2] \in T
  OBVIOUS

\* A set grows by one element at most.
LEMMA OneMore ==
    ASSUME NEW S, NEW T, NEW x, IsFiniteSet(S), T \subseteq S \cup {x}
    PROVE  Cardinality(T) <= Cardinality(S) + 1
<1>1. PICK U : U = S \cup {x} OBVIOUS
<1>2. IsFiniteSet(U) /\ (Cardinality(U) = Cardinality(S) \/ Cardinality(U) = Cardinality(S) + 1)
  BY <1>1, FS_AddElement
<1>3. IsFiniteSet(T) /\ Cardinality(T) <= Cardinality(U)
  BY <1>1, <1>2, FS_Subset
<1>4. Cardinality(S) \in Nat /\ Cardinality(T) \in Nat /\ Cardinality(U) \in Nat
  BY <1>2, <1>3, FS_CardinalityType
<1> QED BY <1>2, <1>3, <1>4

\* A set loses an element.
LEMMA OneLess ==
    ASSUME NEW S, NEW T, NEW x \in S, IsFiniteSet(S), T \subseteq S \ {x}
    PROVE  Cardinality(T) + 1 <= Cardinality(S)
<1>1. PICK U : U = S \ {x} OBVIOUS
<1>2. IsFiniteSet(U) /\ Cardinality(U) = Cardinality(S) - 1
  BY <1>1, FS_RemoveElement
<1>3. IsFiniteSet(T) /\ Cardinality(T) <= Cardinality(U)
  BY <1>1, <1>2, FS_Subset
<1>4. Cardinality(S) \in Nat /\ Cardinality(T) \in Nat /\ Cardinality(U) \in Nat
  BY <1>2, <1>3, FS_CardinalityType
<1> QED BY <1>2, <1>3, <1>4

\* An element is exchanged for another.
LEMMA OneSwapped ==
    ASSUME NEW S, NEW T, NEW x \in S, NEW y, IsFiniteSet(S), T \subseteq (S \ {x}) \cup {y}
    PROVE  Cardinality(T) <= Cardinality(S)
<1>1. PICK U : U = S \ {x} OBVIOUS
<1>2. IsFiniteSet(U) /\ Cardinality(U) = Cardinality(S) - 1
  BY <1>1, FS_RemoveElement
<1>3. Cardinality(T) <= Cardinality(U) + 1
  BY <1>1, <1>2, OneMore
<1>4. Cardinality(S) \in Nat
  BY FS_CardinalityType
<1> QED BY <1>2, <1>3, <1>4

\* The bound of MailBound, for one mail.
Bound(m) == Sends(m) <= 1 + again[m]

\* Nobody gets hold of the mail: no more is sent, unless it went stale.
LEMMA Fewer ==
    ASSUME MailInv, MailTyped', load' = load, NEW m \in Mails, Hands(m)' \subseteq Hands(m), box'[m] = box[m],
           \/ again'[m] = again[m] /\ (Open(m)' => Open(m))
           \/ again'[m] = again[m] + 1
    PROVE  Bound(m)'
<1>1. PICK b, a, c, d \in Nat : b = box[m] /\ a = again[m] /\ c = Cardinality(Hands(m)) /\ d = Cardinality(Hands(m)')
  BY HandsFinite, HandsFiniteNext DEF MailInv, MailTyped
<1>2. d <= c
  BY <1>1, HandsFinite, FS_Subset
<1>3. PICK o, p \in {0, 1} : o = (IF Open(m) THEN 1 ELSE 0) /\ p = (IF Open(m)' THEN 1 ELSE 0)
  OBVIOUS
<1>4. b + c + o <= 1 + a
  BY <1>1, <1>3 DEF MailInv, MailBound, Sends
<1>5. Sends(m)' = b + d + p
  BY <1>1, <1>3 DEF Sends
<1>6. CASE again'[m] = a /\ p <= o
  <2>1. b + d + p <= 1 + a BY <1>2, <1>3, <1>4, <1>6
  <2> QED BY <1>5, <1>6, <2>1 DEF Bound
<1>7. CASE again'[m] = a + 1
  <2>1. b + d + p <= 1 + (a + 1) BY <1>2, <1>3, <1>4
  <2> QED BY <1>5, <1>7, <2>1 DEF Bound
<1> QED BY <1>1, <1>3, <1>6, <1>7

\* One step of the outbox for a mail: b sent, c hands, o open, before and after.
LEMMA Exchanged ==
    ASSUME MailInv, NEW m \in Mails, again'[m] = again[m], NEW b \in Nat, box'[m] = b,
           b + Cardinality(Hands(m)') + (IF Open(m)' THEN 1 ELSE 0) <= box[m] + Cardinality(Hands(m)) + (IF Open(m) THEN 1 ELSE 0)
    PROVE  Bound(m)'
<1>1. PICK e, a, c, d \in Nat : e = box[m] /\ a = again[m] /\ c = Cardinality(Hands(m)) /\ d = Cardinality(Hands(m)')
  BY HandsFinite, HandsFiniteNext DEF MailInv, MailTyped
<1>3. PICK o, p \in {0, 1} : o = (IF Open(m) THEN 1 ELSE 0) /\ p = (IF Open(m)' THEN 1 ELSE 0)
  OBVIOUS
<1>4. e + c + o <= 1 + a /\ b + d + p <= e + c + o
  BY <1>1, <1>3 DEF MailInv, MailBound, Sends
<1>5. Sends(m)' = b + d + p
  BY <1>1, <1>3 DEF Sends
<1>6. b + d + p <= 1 + a
  BY <1>1, <1>3, <1>4
<1> QED BY <1>1, <1>5, <1>6 DEF Bound

\* The parts of the invariant.
LEMMA MailParts ==
    ASSUME load' = load, MailTyped', Tries', \A m \in Mails : Bound(m)'
    PROVE  MailInv'
  BY SameLoad DEF MailInv, MailBound, Bound

MailFrame == UNCHANGED <<mail, post, box, again>>
\* Nothing of the mails changes.
LEMMA MailUntouched ==
    ASSUME MailInv, load' = load, MailFrame
    PROVE  MailInv'
  BY SameLoad DEF MailInv, MailFrame, MailTyped, Post, Tries, MailBound, Sends, Hands, Open

\* A node's work at the outbox changes.
LEMMA PostChanged ==
    ASSUME MailTyped, load' = load, NEW n \in Nodes, NEW p \in Post, post' = [post EXCEPT ![n] = p]
    PROVE  /\ post' \in [Nodes -> Post]
           /\ \A m : \A h \in Nodes \X {"", "error"} :
                 h \in Hands(m)' <=> IF h[1] = n THEN <<m, h[2]>> \in p.todo ELSE h \in Hands(m)
<1>1. post' \in [Nodes -> Post] /\ post'[n] = p /\ \A o \in Nodes : o # n => post'[o] = post[o]
  BY DEF MailTyped
<1> QED BY <1>1 DEF Hands

\* No mail is taken up by the node.
LEMMA HandsShrink ==
    ASSUME MailTyped, load' = load, NEW n \in Nodes, NEW p \in Post, post' = [post EXCEPT ![n] = p],
           NEW m, \A r \in {"", "error"} : <<m, r>> \in p.todo => <<m, r>> \in post[n].todo
    PROVE  Hands(m)' \subseteq Hands(m)
<1>1. \A h \in Nodes \X {"", "error"} : h \in Hands(m)' <=> IF h[1] = n THEN <<m, h[2]>> \in p.todo ELSE h \in Hands(m)
  BY PostChanged
<1>2. Hands(m)' \subseteq Nodes \X {"", "error"}
  BY DEF Hands
<1>3. \A h \in Nodes \X {"", "error"} : h[1] = n /\ <<m, h[2]>> \in post[n].todo => h \in Hands(m)
  BY DEF Hands
<1> QED BY <1>1, <1>2, <1>3

\* The work at the outbox is put down, or goes on with no other mail; the rows stay.
LEMMA PostMoves ==
    ASSUME MailInv, load' = load, UNCHANGED <<mail, box, again>>, NEW n \in Nodes, NEW p \in Post,
           post' = [post EXCEPT ![n] = p], p.todo \subseteq post[n].todo
    PROVE  MailInv'
<1>1. Mails' = Mails
  BY SameLoad
<1>2. post' \in [Nodes -> Post]
  BY PostChanged DEF MailInv
<1>3. MailTyped' /\ Tries'
  BY <1>1, <1>2 DEF MailInv, MailTyped, Post, Tries
<1>4. ASSUME NEW m \in Mails PROVE Bound(m)'
  <2>1. Hands(m)' \subseteq Hands(m) BY HandsShrink DEF MailInv
  <2>2. Open(m)' => Open(m) BY DEF Open
  <2> QED BY <1>3, <2>1, <2>2, Fewer
<1> QED BY <1>3, <1>4, MailParts

\* The rows of some mails change; nobody takes up or puts down a mail.
LEMMA RowMoves ==
    ASSUME MailInv, load' = load, UNCHANGED <<post, box>>, NEW m \in Mails, NEW r \in MailRow, mail' = [mail EXCEPT ![m] = r],
           r.attempts <= load.max_attempts, r.status \notin Settled => r.attempts < load.max_attempts,
           \/ again' = again /\ (Open(m)' => Open(m))
           \/ again' = [again EXCEPT ![m] = again[m] + 1]
    PROVE  MailInv'
<1>1. Mails' = Mails
  BY SameLoad
<1>2. mail' \in [Mails -> MailRow] /\ mail'[m] = r /\ \A o \in Mails : o # m => mail'[o] = mail[o]
  BY DEF MailInv, MailTyped
<1>3. again' \in [Mails -> Nat] /\ \A o \in Mails : o # m => again'[o] = again[o]
  BY DEF MailInv, MailTyped
<1>4. MailTyped' /\ Tries'
  BY <1>1, <1>2, <1>3 DEF MailInv, MailTyped, Post, Tries
<1>5. ASSUME NEW o \in Mails PROVE Bound(o)'
  <2>1. Hands(o)' \subseteq Hands(o) /\ box'[o] = box[o] BY DEF Hands
  <2>2. \/ again'[o] = again[o] /\ (Open(o)' => Open(o))
        \/ again'[o] = again[o] + 1
    <3>1. CASE o = m BY <3>1 DEF MailInv, MailTyped
    <3>2. CASE o # m BY <1>2, <1>3, <3>2 DEF Open
    <3> QED BY <3>1, <3>2
  <2> QED BY <1>4, <2>1, <2>2, Fewer
<1> QED BY <1>4, <1>5, MailParts

\* A mail is queued, falls due, or its processing goes stale.
LEMMA RowSteps ==
    ASSUME Loaded, MailInv, load' = load, NEW m \in Mails, enqueue(m) \/ MailFallsDue(m) \/ MailGoesStale(m)
    PROVE  MailInv'
<1>1. PICK q : q = mail[m] OBVIOUS
<1>2. q \in MailRow /\ q.attempts <= load.max_attempts /\ UNCHANGED <<post, box>>
  BY <1>1 DEF MailInv, MailTyped, Tries, enqueue, MailFallsDue, MailGoesStale
<1>3. q.status \notin Settled => q.attempts < load.max_attempts
  BY <1>1 DEF MailInv, Tries
<1>4. mail \in [Mails -> MailRow]
  BY DEF MailInv, MailTyped
<1>5. CASE enqueue(m)
  <2>1. PICK r : r = [q EXCEPT !.status = "pending", !.due = TRUE] OBVIOUS
  <2>2. q.status = "none" /\ mail' = [mail EXCEPT ![m] = r] /\ again' = again
    BY <1>1, <1>5, <2>1 DEF enqueue
  <2>3. r \in MailRow /\ r.attempts = q.attempts /\ r.status = "pending"
    BY <1>2, <2>1 DEF MailRow, MailStatus
  <2>4. Open(m) BY <1>1, <2>2 DEF Open
  <2> QED BY <1>2, <1>3, <2>2, <2>3, <2>4, RowMoves DEF Settled
<1>6. CASE MailFallsDue(m)
  <2>1. PICK r : r = [q EXCEPT !.due = TRUE] OBVIOUS
  <2>2. q.status = "retry" /\ mail' = [mail EXCEPT ![m] = r] /\ again' = again
    BY <1>1, <1>6, <2>1 DEF MailFallsDue
  <2>3. r \in MailRow /\ r.attempts = q.attempts /\ r.status = "retry"
    BY <1>2, <2>1, <2>2 DEF MailRow
  <2>4. Open(m) BY <1>1, <2>2 DEF Open
  <2> QED BY <1>2, <1>3, <2>2, <2>3, <2>4, RowMoves DEF Settled
<1>7. CASE MailGoesStale(m)
  <2>1. PICK r : r = [q EXCEPT !.stale = TRUE] OBVIOUS
  <2>2. q.status = "processing" /\ mail' = [mail EXCEPT ![m] = r] /\ again' = [again EXCEPT ![m] = again[m] + 1]
    BY <1>1, <1>7, <2>1 DEF MailGoesStale
  <2>3. r \in MailRow /\ r.attempts = q.attempts /\ r.status = "processing"
    BY <1>2, <2>1, <2>2 DEF MailRow
  <2> QED BY <1>2, <1>3, <2>2, <2>3, RowMoves DEF Settled
<1> QED BY <1>5, <1>6, <1>7

\* The mail dispatch ends, a drain goes on or is over, a node crashes.
LEMMA PostSteps ==
    ASSUME Loaded, MailInv, load' = load, NEW n \in Nodes, run_mail_outbox_dispatch(n) \/ drain_with(n) \/ Crash(n)
    PROVE  MailInv'
<1>1. PICK q : q = post[n] OBVIOUS
<1>2. q \in Post /\ UNCHANGED <<mail, box, again>>
  BY <1>1 DEF MailInv, MailTyped, run_mail_outbox_dispatch, drain_with, Crash
<1>3. PICK p : /\ post' = [post EXCEPT ![n] = p]
               /\ p = Still \/ p = [q EXCEPT !.at = "idle"] \/ p = [Still EXCEPT !.at = "broken"]
  BY <1>1 DEF run_mail_outbox_dispatch, drain_with, Crash
<1>4. p \in Post /\ p.todo \subseteq q.todo
  BY <1>2, <1>3 DEF Post, Still
<1> QED BY <1>1, <1>2, <1>3, <1>4, PostMoves

\* A node claims mails: each goes from the outbox into its hands.
LEMMA DispatchMails ==
    ASSUME Loaded, MailInv, load' = load, NEW n \in Nodes, dispatch_due(n)
    PROVE  MailInv'
<1>1. PICK P \in SUBSET Mails :
         /\ \A m \in P : Claimable(m)
         /\ post' = [post EXCEPT ![n] = [at |-> "deliver", todo |-> {<<m, "">> : m \in P},
                                         claimed |-> Cardinality(P), rounds |-> @.rounds + 1]]
         /\ mail' = [m \in Mails |-> IF m \in P THEN [mail[m] EXCEPT !.status = "processing", !.stale = FALSE] ELSE mail[m]]
  BY DEF dispatch_due
<1>2. UNCHANGED <<box, again>> /\ Mails' = Mails
  BY SameLoad DEF dispatch_due
<1>3. PICK p : p = [at |-> "deliver", todo |-> {<<m, "">> : m \in P}, claimed |-> Cardinality(P), rounds |-> post[n].rounds + 1]
  OBVIOUS
<1>4. post' = [post EXCEPT ![n] = p]
  BY <1>1, <1>3
<1>5. Cardinality(P) \in Nat
  <2>1. MaxMails \in Int /\ 1 \in Int BY RuntimeAssumption
  <2>2. IsFiniteSet(1 .. MaxMails) BY <2>1, FS_Interval
  <2>3. P \subseteq 1 .. MaxMails BY <1>1, LoadType
  <2>4. IsFiniteSet(P) BY <2>2, <2>3, FS_Subset
  <2> QED BY <2>4, FS_CardinalityType
<1>6. p \in Post
  <2>1. post[n].rounds \in Nat BY DEF MailInv, MailTyped, Post
  <2>2. {<<m, "">> : m \in P} \in SUBSET (Mails \X Marks)
    <3>1. \A m \in P : <<m, "">> \in Mails \X Marks BY <1>1 DEF Marks
    <3> QED BY <3>1
  <2>3. post[n].rounds + 1 \in Nat BY <2>1
  <2> QED BY <1>3, <1>5, <2>2, <2>3 DEF Post
<1>7. p.todo = {<<m, "">> : m \in P}
  BY <1>3
<1>8. /\ \A m \in Mails : mail[m] \in MailRow
      /\ \A m \in P : /\ mail'[m] \in MailRow /\ mail'[m].status = "processing" /\ mail'[m].stale = FALSE
                      /\ mail'[m].attempts = mail[m].attempts
      /\ \A m \in Mails \ P : mail'[m] = mail[m]
  BY <1>1 DEF MailInv, MailTyped, MailRow, MailStatus
<1>9. \A m \in P : mail[m].status \notin Settled /\ Open(m)
  BY <1>1 DEF Claimable, Open, Settled
<1>10. MailTyped'
  <2>1. mail' \in [Mails -> MailRow] BY <1>1, <1>8
  <2>2. post' \in [Nodes -> Post] BY <1>4, <1>6, PostChanged DEF MailInv
  <2> QED BY <1>2, <2>1, <2>2 DEF MailInv, MailTyped, Post
<1>11. Tries'
  BY <1>1, <1>2, <1>8, <1>9 DEF MailInv, Tries
<1>12. ASSUME NEW m \in Mails PROVE Bound(m)'
  <2>1. /\ \A h \in Nodes \X {"", "error"} : h \in Hands(m)' <=> IF h[1] = n THEN <<m, h[2]>> \in p.todo ELSE h \in Hands(m)
        /\ Hands(m)' \subseteq Nodes \X {"", "error"}
    BY <1>4, <1>6, PostChanged DEF MailInv, Hands
  <2>2. CASE m \in P
    <3>1. Hands(m)' \subseteq Hands(m) \cup {<<n, "">>}
      <4> SUFFICES ASSUME NEW h \in Nodes \X {"", "error"}, h \in Hands(m)', h \notin Hands(m)
                   PROVE  h = <<n, "">>
        BY <2>1
      <4>1. h[1] = n /\ <<m, h[2]>> \in p.todo BY <2>1
      <4>2. h[2] = "" BY <1>7, <4>1
      <4>3. h = <<h[1], h[2]>> BY Pair
      <4> QED BY <4>1, <4>2, <4>3
    <3>2. PICK c, d, b \in Nat : c = Cardinality(Hands(m)) /\ d = Cardinality(Hands(m)') /\ b = box[m]
      BY HandsFinite, HandsFiniteNext DEF MailInv, MailTyped
    <3>5. d <= c + 1 BY <3>1, <3>2, HandsFinite, OneMore
    <3>6. Open(m) /\ ~ Open(m)' BY <1>8, <1>9, <2>2 DEF Open
    <3>7. b + d + 0 <= b + c + 1 BY <3>2, <3>5
    <3> QED BY <1>2, <3>2, <3>6, <3>7, Exchanged
  <2>3. CASE m \notin P
    <3>1. Hands(m)' \subseteq Hands(m) BY <1>7, <2>1, <2>3
    <3>2. Open(m)' => Open(m) BY <1>8, <2>3 DEF Open
    <3> QED BY <1>2, <1>10, <3>1, <3>2, Fewer
  <2> QED BY <2>2, <2>3
<1> QED BY <1>10, <1>11, <1>12, MailParts

\* A mail is handed to the server, or is not.
LEMMA DeliverMails ==
    ASSUME Loaded, MailInv, load' = load, NEW n \in Nodes, NEW m \in Mails, deliver_one(n, m)
    PROVE  MailInv'
<1>1. PICK q : q = post[n] OBVIOUS
<1>2. q \in Post /\ <<m, "">> \in q.todo /\ UNCHANGED <<mail, again>> /\ Mails' = Mails
  BY <1>1, SameLoad DEF MailInv, MailTyped, deliver_one
<1>3. PICK r \in {"sent", "error"} :
         /\ post' = [post EXCEPT ![n] = [@ EXCEPT !.at = "mark", !.todo = Answered(n, m, r)]]
         /\ box' = IF r = "sent" THEN [box EXCEPT ![m] = box[m] + 1] ELSE box
  <2>1. CASE /\ box' = [box EXCEPT ![m] = @ + 1]
             /\ post' = [post EXCEPT ![n] = [@ EXCEPT !.at = "mark", !.todo = Answered(n, m, "sent")]]
    BY <2>1, Zenon
  <2>2. CASE /\ box' = box
             /\ post' = [post EXCEPT ![n] = [@ EXCEPT !.at = "mark", !.todo = Answered(n, m, "error")]]
    BY <2>2, Zenon
  <2> QED BY <2>1, <2>2 DEF deliver_one
<1>4. PICK p : p = post'[n] OBVIOUS
<1>5. p \in Post /\ (\A o, x : <<o, x>> \in p.todo => (<<o, x>> \in q.todo /\ ~(o = m /\ x = "")) \/ (o = m /\ x = r))
                 /\ post' = [post EXCEPT ![n] = p]
  <2>1. post \in [Nodes -> [at : {"idle", "deliver", "mark", "log", "broken"}, todo : SUBSET (Mails \X Marks), claimed : Nat, rounds : Nat]]
    BY DEF MailInv, MailTyped, Post
  <2>2. PICK t : t = Answered(n, m, r) OBVIOUS
  <2>3. \A e : e \in t <=> (e \in q.todo /\ e # <<m, "">>) \/ e = <<m, r>>
    BY <1>1, <2>2 DEF Answered
  <2>4. p = [at |-> "mark", todo |-> t, claimed |-> q.claimed, rounds |-> q.rounds]
    BY <1>1, <1>3, <1>4, <2>1, <2>2
  <2>5. t \in SUBSET (Mails \X Marks)
    <3>1. <<m, r>> \in Mails \X Marks /\ q.todo \subseteq Mails \X Marks
      BY <1>2 DEF Post, Marks
    <3> QED BY <2>3, <3>1
  <2>6. p \in Post BY <1>2, <2>4, <2>5 DEF Post
  <2>7. post' = [post EXCEPT ![n] = p] BY <1>3, <1>4, <2>1
  <2>8. ASSUME NEW o, NEW x, <<o, x>> \in t
        PROVE  (<<o, x>> \in q.todo /\ ~(o = m /\ x = "")) \/ (o = m /\ x = r)
    BY <2>3, <2>8
  <2> QED BY <2>4, <2>6, <2>7, <2>8
<1>6. box' \in [Mails -> Nat] /\ \A o \in Mails : o # m => box'[o] = box[o]
  <2>1. box \in [Mails -> Nat] /\ (box' = box \/ box' = [box EXCEPT ![m] = box[m] + 1])
    BY <1>3 DEF MailInv, MailTyped
  <2> QED BY <2>1
<1>7. MailTyped' /\ Tries'
  <2>1. post' \in [Nodes -> Post] BY <1>5, PostChanged DEF MailInv
  <2> QED BY <1>2, <1>6, <2>1 DEF MailInv, MailTyped, Post, Tries
<1>8. ASSUME NEW o \in Mails PROVE Bound(o)'
  <2>0. Open(o)' = Open(o) BY <1>2 DEF Open
  <2>1. /\ \A h \in Nodes \X {"", "error"} : h \in Hands(o)' <=> IF h[1] = n THEN <<o, h[2]>> \in p.todo ELSE h \in Hands(o)
        /\ Hands(o)' \subseteq Nodes \X {"", "error"}
        /\ \A h \in Nodes \X {"", "error"} : h \in Hands(o) <=> <<o, h[2]>> \in post[h[1]].todo
        /\ Hands(o) \subseteq Nodes \X {"", "error"}
    <3>1. \A h \in Nodes \X {"", "error"} : h \in Hands(o)' <=> IF h[1] = n THEN <<o, h[2]>> \in p.todo ELSE h \in Hands(o)
      BY <1>5, PostChanged DEF MailInv
    <3>2. Hands(o)' \subseteq Nodes \X {"", "error"} /\ Hands(o) \subseteq Nodes \X {"", "error"}
      BY DEF Hands
    <3>3. \A h \in Nodes \X {"", "error"} : h \in Hands(o) <=> <<o, h[2]>> \in post[h[1]].todo
      BY DEF Hands
    <3> QED BY <3>1, <3>2, <3>3
  <2>2. CASE o # m
    <3>1. \A x : <<o, x>> \in p.todo => <<o, x>> \in q.todo BY <1>5, <2>2
    <3>2. Hands(o)' \subseteq Hands(o) BY <1>1, <1>5, <3>1, HandsShrink DEF MailInv
    <3> QED BY <1>2, <1>6, <1>7, <2>0, <2>2, <3>2, Fewer
  <2>3. CASE o = m
    <3>1. PICK c, d, b \in Nat : c = Cardinality(Hands(m)) /\ d = Cardinality(Hands(m)') /\ b = box[m]
      BY HandsFinite, HandsFiniteNext DEF MailInv, MailTyped
    <3>2. <<n, "">> \in Hands(m) BY <1>1, <1>2, <2>1, <2>3
    <3>3. ASSUME NEW h \in Hands(m)'
          PROVE  h # <<n, "">> /\ (h \in Hands(m) \/ (r = "error" /\ h = <<n, "error">>))
      <4>1. h \in Nodes \X {"", "error"} /\ h = <<h[1], h[2]>> /\ h[2] \in {"", "error"}
        <5>1. h \in Nodes \X {"", "error"} BY <2>1, <2>3
        <5> QED BY <5>1, Pair
      <4>2. CASE h[1] = n
        <5>1. <<m, h[2]>> \in p.todo BY <2>1, <2>3, <4>1, <4>2
        <5>2. h[2] = "error"
          <6>1. <<m, "">> \notin p.todo
            <7>1. r # "" OBVIOUS
            <7> QED BY <1>5, <7>1
          <6> QED BY <4>1, <5>1, <6>1
        <5>3. h = <<n, "error">> BY <4>1, <4>2, <5>2
        <5>4. r = "error" \/ <<m, "error">> \in post[n].todo BY <1>1, <1>5, <5>1, <5>2
        <5>5. <<n, "error">> # <<n, "">> OBVIOUS
        <5>6. <<m, "error">> \in post[n].todo => h \in Hands(m)
          BY <2>1, <2>3, <4>1, <4>2, <5>2
        <5> QED BY <5>3, <5>4, <5>5, <5>6
      <4>3. CASE h[1] # n
        <5>1. h # <<n, "">>
          <6>1. <<n, "">>[1] = n OBVIOUS
          <6> QED BY <4>3, <6>1
        <5> QED BY <2>1, <2>3, <4>1, <4>3, <5>1
      <4> QED BY <4>2, <4>3
    <3>4. CASE r = "sent"
      <4>1. Hands(m)' \subseteq Hands(m) \ {<<n, "">>} BY <3>3, <3>4
      <4>2. d + 1 <= c BY <3>1, <3>2, <4>1, HandsFinite, OneLess
      <4>3. box'[m] = b + 1 /\ b + 1 \in Nat
        <5>1. box \in [Mails -> Nat] /\ box' = [box EXCEPT ![m] = box[m] + 1]
          BY <1>3, <3>4 DEF MailInv, MailTyped
        <5> QED BY <3>1, <5>1
      <4>4. PICK x \in {0, 1} : x = (IF Open(m) THEN 1 ELSE 0) /\ x = (IF Open(m)' THEN 1 ELSE 0)
        BY <2>0, <2>3
      <4>5. (b + 1) + d + x <= b + c + x BY <3>1, <4>2, <4>4
      <4> QED BY <1>2, <2>3, <3>1, <4>3, <4>4, <4>5, Exchanged
    <3>5. CASE r = "error"
      <4>1. Hands(m)' \subseteq (Hands(m) \ {<<n, "">>}) \cup {<<n, "error">>} BY <3>3
      <4>2. d <= c BY <3>1, <3>2, <4>1, HandsFinite, OneSwapped
      <4>3. box'[m] = b BY <1>3, <3>1, <3>5
      <4>4. PICK x \in {0, 1} : x = (IF Open(m) THEN 1 ELSE 0) /\ x = (IF Open(m)' THEN 1 ELSE 0)
        BY <2>0, <2>3
      <4>5. b + d + x <= b + c + x BY <3>1, <4>2, <4>4
      <4> QED BY <1>2, <2>3, <3>1, <4>3, <4>4, <4>5, Exchanged
    <3> QED BY <3>4, <3>5
  <2> QED BY <2>2, <2>3
<1> QED BY <1>7, <1>8, MailParts

\* The row of a mail whose delivery came to r, or has been settled or claimed by another node since.
LEMMA MarkedRow ==
    ASSUME Loaded, MailInv, NEW m \in Mails, NEW r \in {"sent", "error"}, NEW e,
           e = IF mail[m].status # "processing" THEN mail[m]
               ELSE IF r = "sent" THEN AfterSent(mail[m]) ELSE AfterError(mail[m])
    PROVE  /\ e \in MailRow /\ e.attempts <= load.max_attempts
           /\ e.status \notin Settled => e.attempts < load.max_attempts
           /\ \/ e = mail[m] /\ mail[m].status # "processing"
              \/ e.status = "sent" /\ r = "sent"
              \/ e.status \in {"failed", "retry"} /\ r = "error"
<1>1. PICK q : q = mail[m] OBVIOUS
<1>2. q \in MailRow /\ q.attempts <= load.max_attempts /\ q.attempts \in Nat /\ load.max_attempts \in Nat
  BY <1>1, LoadType DEF MailInv, MailTyped, Tries, MailRow
<1>3. q.status \notin Settled => q.attempts < load.max_attempts
  BY <1>1 DEF MailInv, Tries
<1>4. CASE q.status # "processing"
  BY <1>1, <1>2, <1>3, <1>4
<1>5. CASE q.status = "processing" /\ r = "sent"
  <2>1. e = [q EXCEPT !.attempts = q.attempts + 1, !.status = "sent"]
    BY <1>1, <1>5 DEF AfterSent
  <2>2. q.attempts < load.max_attempts BY <1>3, <1>5 DEF Settled
  <2>3. q.attempts + 1 \in Nat /\ q.attempts + 1 <= load.max_attempts BY <1>2, <2>2
  <2>4. e \in MailRow /\ e.status = "sent" /\ e.attempts = q.attempts + 1
    BY <1>2, <2>1, <2>3 DEF MailRow, MailStatus
  <2> QED BY <1>5, <2>3, <2>4 DEF Settled
<1>6. CASE q.status = "processing" /\ r = "error"
  <2>1. PICK s : s = IF q.attempts + 1 >= load.max_attempts THEN "failed" ELSE "retry" OBVIOUS
  <2>2. e = [q EXCEPT !.attempts = q.attempts + 1, !.status = s, !.due = FALSE]
    BY <1>1, <1>6, <2>1 DEF AfterError
  <2>3. q.attempts < load.max_attempts BY <1>3, <1>6 DEF Settled
  <2>4. q.attempts + 1 \in Nat /\ q.attempts + 1 <= load.max_attempts BY <1>2, <2>3
  <2>5. s \in {"failed", "retry"} /\ (s = "retry" => q.attempts + 1 < load.max_attempts)
    BY <1>2, <2>1
  <2>6. e \in MailRow /\ e.status = s /\ e.attempts = q.attempts + 1
    BY <1>2, <2>2, <2>4, <2>5 DEF MailRow, MailStatus
  <2> QED BY <1>6, <2>4, <2>5, <2>6 DEF Settled
<1> QED BY <1>4, <1>5, <1>6

\* A delivery is marked in its row: a mail given back to the outbox leaves the hands of the node.
LEMMA MarkMails ==
    ASSUME Loaded, MailInv, load' = load, NEW n \in Nodes, NEW m \in Mails, MarkMail(n, m)
    PROVE  MailInv'
<1>1. PICK r \in {"sent", "error"} :
         /\ <<m, r>> \in post[n].todo
         /\ mail' = [mail EXCEPT ![m] = IF @.status # "processing" THEN @
                                        ELSE IF r = "sent" THEN AfterSent(@) ELSE AfterError(@)]
         /\ post' = [post EXCEPT ![n].at = IF r = "sent" \/ mail'[m].status = "failed" THEN "log" ELSE "deliver",
                                 ![n].todo = IF r = "sent" \/ mail'[m].status = "failed" THEN @ ELSE @ \ {<<m, r>>}]
  BY DEF MarkMail
<1>2. PICK e : e = mail'[m] OBVIOUS
<1>3. PICK p : p = post'[n] OBVIOUS
<1>4. /\ mail \in [Mails -> MailRow] /\ post \in [Nodes -> Post] /\ UNCHANGED <<box, again>> /\ Mails' = Mails
  BY SameLoad DEF MailInv, MailTyped, MarkMail
<1>5. e = IF mail[m].status # "processing" THEN mail[m]
          ELSE IF r = "sent" THEN AfterSent(mail[m]) ELSE AfterError(mail[m])
  <2>1. CASE mail[m].status # "processing" BY <1>1, <1>2, <1>4, <2>1
  <2>2. CASE mail[m].status = "processing" /\ r = "sent"
    <3>1. PICK f : f = AfterSent(mail[m]) OBVIOUS
    <3>2. mail' = [mail EXCEPT ![m] = f] BY <1>1, <2>2, <3>1
    <3> QED BY <1>2, <1>4, <2>2, <3>1, <3>2
  <2>3. CASE mail[m].status = "processing" /\ r = "error"
    <3>1. PICK f : f = AfterError(mail[m]) OBVIOUS
    <3>2. mail' = [mail EXCEPT ![m] = f] BY <1>1, <2>3, <3>1
    <3> QED BY <1>2, <1>4, <2>3, <3>1, <3>2
  <2> QED BY <2>1, <2>2, <2>3
<1>6. mail' = [mail EXCEPT ![m] = e]
  BY <1>1, <1>2, <1>4
<1>7. /\ e \in MailRow /\ e.attempts <= load.max_attempts
      /\ e.status \notin Settled => e.attempts < load.max_attempts
      /\ \/ e = mail[m] /\ mail[m].status # "processing"
         \/ e.status = "sent" /\ r = "sent"
         \/ e.status \in {"failed", "retry"} /\ r = "error"
  BY <1>5, MarkedRow
<1>8. /\ p \in Post /\ p.todo \subseteq post[n].todo /\ post' = [post EXCEPT ![n] = p]
      /\ r = "error" /\ e.status # "failed" => <<m, "error">> \notin p.todo
  <2>1. PICK P \in BOOLEAN : P = (r = "sent" \/ e.status = "failed") OBVIOUS
  <2>2. post' = [post EXCEPT ![n].at = IF P THEN "log" ELSE "deliver", ![n].todo = IF P THEN @ ELSE @ \ {<<m, r>>}]
    BY <1>1, <1>2, <2>1
  <2>3. post \in [Nodes -> [at : {"idle", "deliver", "mark", "log", "broken"}, todo : SUBSET (Mails \X Marks), claimed : Nat, rounds : Nat]]
    BY <1>4 DEF Post
  <2>4. p.todo \subseteq post[n].todo /\ (~P => <<m, r>> \notin p.todo)
    BY <1>3, <2>2, <2>3
  <2>5. post' = [post EXCEPT ![n] = p] BY <1>3, <2>2, <2>3
  <2>6. p = [at |-> p.at, todo |-> p.todo, claimed |-> post[n].claimed, rounds |-> post[n].rounds] /\ p.at \in {"log", "deliver"}
    BY <1>3, <2>2, <2>3
  <2>7. p.todo \in SUBSET (Mails \X Marks) BY <2>3, <2>4
  <2>8. p \in Post BY <2>3, <2>6, <2>7 DEF Post
  <2> QED BY <2>1, <2>4, <2>5, <2>8
<1>9. mail' \in [Mails -> MailRow] /\ \A o \in Mails : o # m => mail'[o] = mail[o]
  BY <1>4, <1>6, <1>7
<1>10. MailTyped' /\ Tries'
  <2>1. post' \in [Nodes -> Post] BY <1>8, PostChanged DEF MailInv
  <2>2. MailTyped' BY <1>4, <1>9, <2>1 DEF MailInv, MailTyped, Post
  <2>3. Tries' BY <1>2, <1>4, <1>7, <1>9 DEF MailInv, Tries
  <2> QED BY <2>2, <2>3
<1>11. ASSUME NEW o \in Mails PROVE Hands(o)' \subseteq Hands(o)
  BY <1>8, HandsShrink DEF MailInv
<1>12. ASSUME NEW o \in Mails PROVE Bound(o)'
  <2>1. CASE Open(o)' => Open(o) BY <1>4, <1>10, <1>11, <2>1, Fewer
  <2>2. CASE o # m
    <3>1. Open(o)' => Open(o) BY <1>9, <2>2 DEF Open
    <3> QED BY <2>1, <3>1
  <2>3. CASE o = m /\ Open(m)' /\ ~ Open(m)
    <3>1. e.status = "retry" /\ r = "error" BY <1>2, <1>7, <2>3 DEF Open
    <3>2. PICK c, d, b \in Nat : c = Cardinality(Hands(m)) /\ d = Cardinality(Hands(m)') /\ b = box[m]
      BY HandsFinite, HandsFiniteNext DEF MailInv, MailTyped
    <3>3. <<n, "error">> \in Hands(m) BY <1>1, <3>1 DEF Hands
    <3>4. <<n, "error">> \notin Hands(m)'
      <4>1. <<m, "error">> \notin post'[n].todo BY <1>3, <1>8, <3>1
      <4> QED BY <4>1 DEF Hands
    <3>5. Hands(m)' \subseteq Hands(m) \ {<<n, "error">>} BY <1>11, <3>4
    <3>6. d + 1 <= c BY <3>2, <3>3, <3>5, HandsFinite, OneLess
    <3>7. b + d + 1 <= b + c + 0 BY <3>2, <3>6
    <3> QED BY <1>4, <2>3, <3>2, <3>7, Exchanged
  <2> QED BY <2>1, <2>2, <2>3
<1> QED BY <1>10, <1>12, MailParts

\* A delivery that is marked is put in the audit log.
LEMMA LogMails ==
    ASSUME MailInv, load' = load, NEW n \in Nodes, NEW m \in Mails, LogMail(n, m)
    PROVE  MailInv'
<1>1. PICK r : post' = [post EXCEPT ![n].at = "deliver", ![n].todo = @ \ {<<m, r>>}]
  BY DEF LogMail
<1>2. PICK p : p = post'[n] OBVIOUS
<1>3. post \in [Nodes -> [at : {"idle", "deliver", "mark", "log", "broken"}, todo : SUBSET (Mails \X Marks), claimed : Nat, rounds : Nat]]
  BY DEF MailInv, MailTyped, Post
<1>4. p.todo \subseteq post[n].todo /\ post' = [post EXCEPT ![n] = p]
  BY <1>1, <1>2, <1>3
<1>5. p = [at |-> "deliver", todo |-> p.todo, claimed |-> post[n].claimed, rounds |-> post[n].rounds]
  BY <1>1, <1>2, <1>3
<1>6. p.todo \in SUBSET (Mails \X Marks)
  BY <1>3, <1>4
<1>7. p \in Post
  BY <1>3, <1>5, <1>6 DEF Post
<1>8. UNCHANGED <<mail, box, again>>
  BY DEF LogMail
<1> QED BY <1>4, <1>7, <1>8, PostMoves

\* All other steps leave the mails alone.
LEMMA MailOthers ==
    ASSUME NEW n \in Nodes,
           \/ \E k \in Kinds : RunStep(n, k)
           \/ LeaseStep(n) \/ AuditStep(n) \/ (StopStep(n) /\ ~ drain_with(n))
           \/ record_server_start(n) \/ StopNode(n) \/ query_audit(n) \/ AuditedRequest(n)
    PROVE  MailFrame
<1>1. CASE \E k \in Kinds : RunStep(n, k)
  BY <1>1 DEF RunStep, ClaimSlot, RunTask, FindLatest, refresh_system_runtime_success, insert_typed_task_record, CompleteSlot,
              run_background_task_dispatch_iteration, mails, MailFrame
<1>2. CASE LeaseStep(n)
  BY <1>2 DEF LeaseStep, AcquireLease, RenewLease, mails, MailFrame
<1>3. CASE AuditStep(n) \/ query_audit(n) \/ AuditedRequest(n) \/ record_server_start(n) \/ record_server_shutdown(n)
  BY <1>3 DEF AuditStep, DelayedFlush, write_audit_batch, flush_global_audit_log_manager, find_with_filters_cursor,
              query_audit, AuditedRequest, record_server_start, record_server_shutdown, mails, MailFrame
<1>4. CASE ShutdownTasks(n) \/ shutdown_global_audit_log_manager(n) \/ CloseDatabase(n) \/ StopNode(n)
  BY <1>4 DEF ShutdownTasks, shutdown_global_audit_log_manager, CloseDatabase, StopNode, mails, MailFrame
<1> QED BY <1>1, <1>2, <1>3, <1>4 DEF StopStep

\* Every step keeps what is known of the mails.
LEMMA MailKeeps ==
    ASSUME Loaded, MailInv, Next
    PROVE  MailInv'
<1>0. load' = load
  BY DEF Next
<1>1. ASSUME NEW n \in Nodes, MailStep(n) \/ drain_with(n) \/ Crash(n)
      PROVE  MailInv'
  BY <1>0, <1>1, DispatchMails, DeliverMails, MarkMails, LogMails, PostSteps DEF MailStep
<1>2. ASSUME NEW m \in Mails, enqueue(m) \/ MailFallsDue(m) \/ MailGoesStale(m)
      PROVE  MailInv'
  BY <1>0, <1>2, RowSteps
<1>3. CASE MailFrame
  BY <1>0, <1>3, MailUntouched
<1>4. CASE LeaseExpires \/ (\E k \in Kinds : ClaimExpires(k)) \/ (\E i \in DOMAIN record : CleanupRecord(i))
  <2>1. MailFrame BY <1>4 DEF LeaseExpires, ClaimExpires, CleanupRecord, mails, MailFrame
  <2> QED BY <1>3, <2>1
<1>5. ASSUME NEW n \in Nodes,
             \/ \E k \in Kinds : RunStep(n, k)
             \/ LeaseStep(n) \/ AuditStep(n) \/ StopStep(n)
             \/ record_server_start(n) \/ StopNode(n) \/ query_audit(n) \/ AuditedRequest(n)
      PROVE  MailInv'
  BY <1>1, <1>3, <1>5, MailOthers
<1> QED BY <1>1, <1>2, <1>4, <1>5 DEF Next, Step, Expires

-----------------------------------------------------------------------------
(* The audit log                                                           *)

\* The elements at some places of a sequence are no more than the places.
LEMMA Places ==
    ASSUME NEW s, NEW I, IsFiniteSet(I)
    PROVE  IsFiniteSet({s[i] : i \in I}) /\ Cardinality({s[i] : i \in I}) <= Cardinality(I)
<1>1. PICK T : T = {s[i] : i \in I} OBVIOUS
<1>2. PICK f : f = [i \in I |-> s[i]] OBVIOUS
<1>3. f \in Surjection(I, T)
  BY <1>1, <1>2 DEF Surjection
<1> QED BY <1>1, <1>3, FS_Surjection

\* A queue has no more events than its length.
LEMMA RanSize ==
    ASSUME NEW S, NEW s \in Seq(S)
    PROVE  Ran(s) \subseteq S /\ IsFiniteSet(Ran(s)) /\ Cardinality(Ran(s)) \in Nat /\ Cardinality(Ran(s)) <= Len(s)
<1>1. Len(s) \in Nat /\ DOMAIN s = 1 .. Len(s)
  BY LenProperties
<1>2. IsFiniteSet(DOMAIN s) /\ Cardinality(DOMAIN s) = Len(s)
  BY <1>1, FS_Interval
<1>3. IsFiniteSet(Ran(s)) /\ Cardinality(Ran(s)) <= Len(s)
  BY <1>2, Places DEF Ran
<1>4. Ran(s) \subseteq S
  BY <1>1 DEF Ran
<1> QED BY <1>3, <1>4, FS_CardinalityType

\* An event is queued.
LEMMA RanAppend ==
    ASSUME NEW S, NEW s \in Seq(S), NEW e \in S
    PROVE  /\ Append(s, e) \in Seq(S) /\ Len(Append(s, e)) = Len(s) + 1 /\ Len(s) \in Nat
           /\ Ran(s) \subseteq Ran(Append(s, e)) /\ e \in Ran(Append(s, e))
<1>1. PICK t : t = Append(s, e) OBVIOUS
<1>2. t \in Seq(S) /\ Len(t) = Len(s) + 1 /\ Len(s) \in Nat /\ (\A i \in 1 .. Len(s) : t[i] = s[i]) /\ t[Len(s) + 1] = e
  BY <1>1, AppendProperties, LenProperties
<1>3. DOMAIN t = 1 .. Len(s) + 1 /\ DOMAIN s = 1 .. Len(s)
  BY <1>2, LenProperties
<1>4. e \in Ran(t)
  BY <1>2, <1>3 DEF Ran
<1>5. Ran(s) \subseteq Ran(t)
  BY <1>2, <1>3 DEF Ran
<1> QED BY <1>1, <1>2, <1>4, <1>5

\* An empty queue.
LEMMA RanEmpty == Ran(<<>>) = {}
  BY DEF Ran

\* The first k events of a batch, and the others.
Taken(s, k) == {s[i] : i \in {j \in DOMAIN s : j <= k}}
Others(s, k) == SubSeq(s, k + 1, Len(s))

\* A batch is its first chunk and the rest.
LEMMA Chunks ==
    ASSUME NEW S, NEW s \in Seq(S), NEW k \in Nat, NEW c, c = Taken(s, k), NEW t, t = Others(s, k)
    PROVE  /\ t \in Seq(S) /\ Len(t) <= Len(s) /\ Ran(s) \subseteq c \cup Ran(t)
           /\ c \subseteq S /\ IsFiniteSet(c) /\ Cardinality(c) \in Nat /\ Cardinality(c) <= k
<1> USE DEF Taken, Others
<1>1. PICK l \in Nat : l = Len(s)
  BY LenProperties
<1>2. DOMAIN s = 1 .. l /\ \A i \in 1 .. l : s[i] \in S
  BY <1>1, LenProperties
<1>3. \A i \in k + 1 .. l : s[i] \in S
  BY <1>2
<1>4. /\ t \in Seq(S) /\ Len(t) = (IF k + 1 <= l THEN l - (k + 1) + 1 ELSE 0)
      /\ \A i \in 1 .. l - (k + 1) + 1 : t[i] = s[(k + 1) + i - 1]
  <2>1. k + 1 \in Int /\ l \in Int OBVIOUS
  <2> QED BY <1>1, <1>3, <2>1, SubSeqProperties
<1>5. Len(t) <= Len(s)
  BY <1>1, <1>4
<1>6. ASSUME NEW i \in 1 .. l PROVE s[i] \in c \cup Ran(t)
  <2>1. CASE i <= k BY <1>2, <2>1
  <2>2. CASE i > k
    <3>1. i - k \in 1 .. l - (k + 1) + 1 /\ (k + 1) + (i - k) - 1 = i /\ k + 1 <= l
      BY <2>2
    <3>2. t[i - k] = s[i] BY <1>4, <3>1
    <3>3. Len(t) = l - (k + 1) + 1 BY <1>4, <3>1
    <3>4. i - k \in DOMAIN t BY <1>4, <3>1, <3>3, LenProperties
    <3> QED BY <3>2, <3>4 DEF Ran
  <2> QED BY <2>1, <2>2
<1>7. Ran(s) \subseteq c \cup Ran(t)
  BY <1>2, <1>6 DEF Ran
<1>8. PICK I : I = {j \in DOMAIN s : j <= k} OBVIOUS
<1>9. IsFiniteSet(I) /\ Cardinality(I) <= k
  <2>1. I \subseteq 1 .. k BY <1>2, <1>8
  <2>2. IsFiniteSet(1 .. k) /\ Cardinality(1 .. k) = k
    <3>1. 1 \in Int /\ k \in Int OBVIOUS
    <3>2. IsFiniteSet(1 .. k) /\ Cardinality(1 .. k) = (IF 1 > k THEN 0 ELSE k - 1 + 1)
      BY <3>1, FS_Interval
    <3> QED BY <3>2
  <2> QED BY <2>1, <2>2, FS_Subset
<1>10. IsFiniteSet(c) /\ Cardinality(c) <= Cardinality(I)
  BY <1>8, <1>9, Places
<1>11. Cardinality(c) \in Nat /\ Cardinality(I) \in Nat
  BY <1>9, <1>10, FS_CardinalityType
<1>12. c \subseteq S
  BY <1>2
<1> QED BY <1>4, <1>5, <1>7, <1>9, <1>10, <1>11, <1>12

\* A union is no larger than its parts together.
LEMMA UnionSize ==
    ASSUME NEW S, NEW T, IsFiniteSet(S), IsFiniteSet(T)
    PROVE  IsFiniteSet(S \cup T) /\ Cardinality(S \cup T) <= Cardinality(S) + Cardinality(T)
<1>1. /\ IsFiniteSet(S \cup T)
      /\ Cardinality(S \cup T) = Cardinality(S) + Cardinality(T) - Cardinality(S \cap T)
  BY FS_Union
<1>2. IsFiniteSet(S \cap T)
  BY FS_Subset
<1>3. Cardinality(S) \in Nat /\ Cardinality(T) \in Nat /\ Cardinality(S \cap T) \in Nat
  BY <1>2, FS_CardinalityType
<1> QED BY <1>1, <1>3

\* One more fault of a sort allows one more batch, or one more queue, to be lost.
LEMMA BoundGrows ==
    ASSUME NEW B \in Nat, NEW W \in Nat, NEW w \in Nat \ {0}
    PROVE  B * (W - (w - 1)) = B * (W - w) + B
<1>1. PICK x \in Int : x = W - w OBVIOUS
<1>2. W - (w - 1) = x + 1
  BY <1>1
<1>3. B * (x + 1) = B * x + B OBVIOUS
<1> QED BY <1>1, <1>2, <1>3

\* How the bound on losses moves with the faults.
LEMMA BoundMoves ==
    ASSUME Loaded, LeftInv, load' = load
    PROVE  /\ LostBound \in Int /\ load.batch \in Nat /\ load.capacity * 2 \in Nat
           /\ left' = left => LostBound' = LostBound
           /\ Spend("writes") => LostBound' = LostBound + load.batch
           /\ Spend("crashes") => LostBound' = LostBound + load.capacity * 2
           /\ \A f \in Faults \ {"writes", "crashes"} : Spend(f) => LostBound' = LostBound
<1>1. PICK B, D \in Nat : B = load.batch /\ D = load.capacity * 2
  BY LoadType
<1>2. PICK W, R, w, r \in Nat : W = load.left.writes /\ R = load.left.crashes /\ w = left.writes /\ r = left.crashes
  BY LoadType DEF LeftInv, Faults
<1>3. LostBound = B * (W - w) + D * (R - r)
  BY <1>1, <1>2 DEF LostBound
<1>4. LostBound' = B * (W - left'.writes) + D * (R - left'.crashes)
  BY <1>1, <1>2 DEF LostBound
<1>5. PICK x, y \in Int : x = B * (W - w) /\ y = D * (R - r) OBVIOUS
<1>6. ASSUME left' = left PROVE LostBound' = LostBound
  BY <1>2, <1>3, <1>4, <1>6
<1>7. ASSUME Spend("writes") PROVE LostBound' = LostBound + B
  <2>1. left'.writes = w - 1 /\ left'.crashes = r /\ w \in Nat \ {0}
    BY <1>2, <1>7, SpendOne DEF Faults
  <2>2. B * (W - (w - 1)) = x + B BY <1>5, <2>1, BoundGrows
  <2> QED BY <1>3, <1>4, <1>5, <2>1, <2>2
<1>8. ASSUME Spend("crashes") PROVE LostBound' = LostBound + D
  <2>1. left'.writes = w /\ left'.crashes = r - 1 /\ r \in Nat \ {0}
    BY <1>2, <1>8, SpendOne DEF Faults
  <2>2. D * (R - (r - 1)) = y + D BY <1>5, <2>1, BoundGrows
  <2> QED BY <1>3, <1>4, <1>5, <2>1, <2>2
<1>9. ASSUME NEW f \in Faults \ {"writes", "crashes"}, Spend(f) PROVE LostBound' = LostBound
  <2>1. left'.writes = w /\ left'.crashes = r BY <1>2, <1>9, SpendOne DEF Faults
  <2> QED BY <1>3, <1>4, <2>1
<1>10. LostBound \in Int
  BY <1>3, <1>5
<1> QED BY <1>1, <1>3, <1>4, <1>6, <1>7, <1>8, <1>9, <1>10

\* Nothing is lost by the step.
LEMMA LossesStay ==
    ASSUME Loaded, LeftInv, Losses, IsFiniteSet(lost), load' = load, lost' = lost, Spends(Faults)
    PROVE  Losses'
<1>1. PICK c \in Nat : c = Cardinality(lost)
  BY FS_CardinalityType
<1>2. PICK b \in Int : b = LostBound
  BY BoundMoves
<1>3. c <= b
  BY <1>1, <1>2 DEF Losses
<1>4. LostBound' = b \/ LostBound' = b + load.batch \/ LostBound' = b + load.capacity * 2
  BY <1>2, BoundMoves DEF Spends
<1>5. PICK x \in Int : x = LostBound' /\ c <= x
  <2>1. load.batch \in Nat /\ load.capacity * 2 \in Nat BY BoundMoves
  <2> QED BY <1>3, <1>4, <2>1
<1> QED BY <1>1, <1>5 DEF Losses

\* A write fails and takes a chunk, or a node crashes and takes its queue and its batch.
LEMMA LossesGrow ==
    ASSUME Loaded, LeftInv, Losses, IsFiniteSet(lost), load' = load, NEW X, lost' = lost \cup X, IsFiniteSet(X),
           \/ Spend("writes") /\ Cardinality(X) <= load.batch
           \/ Spend("crashes") /\ Cardinality(X) <= load.capacity * 2
    PROVE  Losses' /\ IsFiniteSet(lost')
<1>1. PICK c, x \in Nat : c = Cardinality(lost) /\ x = Cardinality(X)
  BY FS_CardinalityType
<1>2. PICK b \in Int : b = LostBound
  BY BoundMoves
<1>3. c <= b
  BY <1>1, <1>2 DEF Losses
<1>4. PICK d \in Nat : x <= d /\ LostBound' = b + d
  BY <1>1, <1>2, BoundMoves
<1>5. IsFiniteSet(lost') /\ Cardinality(lost') <= c + x
  BY <1>1, UnionSize
<1>6. Cardinality(lost') \in Nat
  BY <1>5, FS_CardinalityType
<1>7. Cardinality(lost') <= b + d
  BY <1>3, <1>4, <1>5, <1>6
<1> QED BY <1>4, <1>5, <1>7 DEF Losses

\* Where an event of a node may be.
Held(n) == table \cup lost \cup Ran(buf[n]) \cup Ran(batch[n])
\* No event disappears: what was held is held, and what was taken out is written or lost before anything else is taken out.
Preserved ==
    /\ table \subseteq table' /\ lost \subseteq lost'
    /\ \A n \in Nodes : /\ Held(n) \subseteq Held(n)' /\ logged'[n] \subseteq logged[n] \cup Held(n)'
                        /\ Ran(batch[n]) \subseteq table' \cup lost' \cup Ran(batch'[n])

\* A step that makes no event disappear keeps what the log and the query are owed.
LEMMA PreservedKeeps ==
    ASSUME Kept, Asked, Preserved, load' = load
    PROVE  Kept' /\ (query' = query => Asked')
<1>1. ASSUME NEW n \in Nodes PROVE logged'[n] \subseteq Held(n)'
  <2>1. logged[n] \subseteq Held(n) BY DEF Kept, Held
  <2> QED BY <2>1 DEF Preserved
<1>2. Kept'
  BY <1>1 DEF Kept, Held
<1>3. ASSUME query' = query PROVE Asked'
  <2>1. query.at \in {"flush", "read"} => query.by \in Nodes BY DEF Asked
  <2>2. ASSUME query.at = "flush" PROVE query.before \subseteq table' \cup lost' \cup Ran(buf'[query.by]) \cup Ran(batch'[query.by])
    <3>1. PICK b \in Nodes : b = query.by BY <2>1, <2>2
    <3>2. query.before \subseteq Held(b) BY <2>2, <3>1 DEF Asked, Held
    <3>3. query.before \subseteq Held(b)' BY <3>2 DEF Preserved
    <3> QED BY <3>1, <3>3 DEF Held
  <2>3. ASSUME query.at = "read" PROVE query.before \subseteq table' \cup lost' \cup Ran(batch'[query.by])
    BY <2>3 DEF Asked, Preserved
  <2>4. ASSUME query.at = "done" PROVE query.before \subseteq query.seen \cup lost'
    BY <2>4 DEF Asked, Preserved
  <2> QED BY <1>3, <2>1, <2>2, <2>3, <2>4 DEF Asked, Held
<1> QED BY <1>2, <1>3

\* A writer is cancelled, and a node closed, by their own steps only.
NodesStay ==
    /\ node' \in [Nodes -> Node]
    /\ \A n \in Nodes : /\ node'[n].cancelled => node[n].cancelled /\ node'[n].at \in {"flush", "off"}
                        /\ node'[n].at = "off" => node[n].at = "off" /\ node'[n].cancelled
\* A cancelled writer takes no event, a closed node no batch.
QueuesStay ==
    \A n \in Nodes : /\ node[n].cancelled => buf'[n] = buf[n] \/ buf'[n] = <<>>
                     /\ node[n].at = "off" => batch'[n] = batch[n] \/ batch'[n] = <<>>

\* What a step must keep, when it asks and answers no query.
LEMMA AuditMoves ==
    ASSUME AuditInv, load' = load, AuditTyped', Queues', Losses', Preserved, query' = query, NodesStay, QueuesStay
    PROVE  AuditInv'
<1>1. Kept' /\ Asked'
  BY PreservedKeeps DEF AuditInv
<1>2. ASSUME NEW n \in Nodes
      PROVE  /\ node'[n].cancelled => node'[n].at \in {"flush", "off"} /\ buf'[n] = <<>>
             /\ node'[n].at = "off" => node'[n].cancelled /\ batch'[n] = <<>>
  <2>1. /\ node[n].cancelled => buf[n] = <<>>
        /\ node[n].at = "off" => batch[n] = <<>>
    BY DEF AuditInv, Closing
  <2> QED BY <2>1 DEF NodesStay, QueuesStay
<1>3. Closing'
  BY <1>2 DEF Closing
<1> QED BY <1>1, <1>3 DEF AuditInv

\* The audit log stays as it is.
LEMMA AuditUntouched ==
    ASSUME Loaded, LeftInv, AuditInv, load' = load, UNCHANGED audits, NodesStay, Spends(Faults)
    PROVE  AuditInv'
<1>1. UNCHANGED <<buf, batch, table, query, logged, lost>>
  BY DEF audits
<1>2. AuditTyped' /\ Queues'
  BY <1>1 DEF AuditInv, AuditTyped, Queues, Query, NodesStay
<1>3. Losses'
  BY <1>1, LossesStay DEF AuditInv, AuditTyped
<1>4. Preserved /\ QueuesStay
  BY <1>1 DEF Preserved, Held, QueuesStay
<1> QED BY <1>1, <1>2, <1>3, <1>4, AuditMoves

\* An event is one of the node's, numbered from 0.
LEMMA EventType ==
    ASSUME AuditTyped, NEW n \in Nodes, NEW a \in AuditActions
    PROVE  Event(n, a) \in Events
<1>1. Cardinality(logged[n]) \in Nat
  BY FS_CardinalityType DEF AuditTyped
<1> QED BY <1>1 DEF Event, Events

\* An event is handed to the audit log, through the buffer or past it.
LEMMA LogAudit ==
    ASSUME Loaded, LeftInv, AuditInv, load' = load, NEW n \in Nodes, NEW a \in AuditActions, NodesStay,
           (log(n, a) /\ ~ node[n].cancelled) \/ log_with_db_and_config(n, a)
    PROVE  AuditInv'
<1>1. CASE UNCHANGED <<audits, left>>
  BY <1>1, AuditUntouched DEF Spends
<1>2. PICK e \in Events : e = Event(n, a)
  BY EventType DEF AuditInv
<1>3. /\ AuditTyped /\ Queues /\ Losses /\ IsFiniteSet(lost) /\ load.capacity \in Nat
  BY LoadType DEF AuditInv, AuditTyped
<1>4. CASE /\ logged' = [logged EXCEPT ![n] = @ \cup {e}] /\ UNCHANGED <<batch, query>>
           /\ \/ /\ buf' = [buf EXCEPT ![n] = Append(@, e)] /\ Len(buf[n]) < load.capacity
                 /\ ~ node[n].cancelled /\ UNCHANGED <<table, lost, left>>
              \/ UNCHANGED buf /\ table' = table \cup {e} /\ UNCHANGED <<lost, left>>
              \/ UNCHANGED buf /\ Spend("writes") /\ lost' = lost \cup {e} /\ UNCHANGED table
  <2>1. /\ logged' \in [Nodes -> SUBSET Events] /\ logged'[n] = logged[n] \cup {e}
        /\ \A o \in Nodes : o # n => logged'[o] = logged[o]
    BY <1>3, <1>4 DEF AuditTyped
  <2>2. \A o \in Nodes : IsFiniteSet(logged'[o])
    <3>1. \A o \in Nodes : IsFiniteSet(logged[o]) BY <1>3 DEF AuditTyped
    <3>2. IsFiniteSet(logged[n] \cup {e}) BY <3>1, FS_AddElement
    <3> QED BY <2>1, <3>1, <3>2
  <2>3. CASE /\ buf' = [buf EXCEPT ![n] = Append(@, e)] /\ Len(buf[n]) < load.capacity
             /\ ~ node[n].cancelled /\ UNCHANGED <<table, lost, left>>
    <3>1. buf[n] \in Seq(Events) /\ buf \in [Nodes -> Seq(Events)] BY <1>3 DEF AuditTyped
    <3>2. PICK s : s = Append(buf[n], e) OBVIOUS
    <3>3. s \in Seq(Events) /\ Len(s) = Len(buf[n]) + 1 /\ Len(buf[n]) \in Nat /\ Ran(buf[n]) \subseteq Ran(s) /\ e \in Ran(s)
      BY <3>1, <3>2, RanAppend
    <3>4. buf' \in [Nodes -> Seq(Events)] /\ buf'[n] = s /\ \A o \in Nodes : o # n => buf'[o] = buf[o]
      BY <2>3, <3>1, <3>2, <3>3
    <3>5. AuditTyped'
      BY <1>3, <1>4, <2>1, <2>2, <2>3, <3>4 DEF AuditTyped, NodesStay, Query
    <3>6. Queues'
      <4>1. Len(s) <= load.capacity BY <1>3, <2>3, <3>3
      <4> QED BY <1>3, <1>4, <3>4, <4>1 DEF Queues
    <3>7. Losses' BY <1>3, <2>3, LossesStay DEF Spends
    <3>8. Preserved
      <4>1. ASSUME NEW o \in Nodes PROVE Ran(buf[o]) \subseteq Ran(buf'[o]) BY <3>3, <3>4
      <4>2. ASSUME NEW o \in Nodes PROVE logged'[o] \subseteq logged[o] \cup Ran(buf'[o])
        BY <2>1, <3>3, <3>4
      <4> QED BY <1>4, <2>3, <4>1, <4>2 DEF Preserved, Held
    <3>9. QueuesStay BY <1>4, <2>3, <3>4 DEF QueuesStay
    <3> QED BY <1>4, <3>5, <3>6, <3>7, <3>8, <3>9, AuditMoves
  <2>4. CASE /\ UNCHANGED buf
             /\ \/ table' = table \cup {e} /\ UNCHANGED <<lost, left>>
                \/ Spend("writes") /\ lost' = lost \cup {e} /\ UNCHANGED table
    <3>1. Losses' /\ IsFiniteSet(lost')
      <4>1. CASE UNCHANGED <<lost, left>> BY <1>3, <4>1, LossesStay DEF Spends
      <4>2. CASE Spend("writes") /\ lost' = lost \cup {e}
        <5>1. PICK X : X = {e} OBVIOUS
        <5>2. IsFiniteSet(X) /\ Cardinality(X) = 1 BY <5>1, FS_Singleton
        <5>3. load.batch \in Nat \ {0} BY LoadType
        <5>4. Cardinality(X) <= load.batch BY <5>2, <5>3
        <5> QED BY <1>3, <4>2, <5>1, <5>2, <5>4, LossesGrow
      <4> QED BY <2>4, <4>1, <4>2
    <3>2. AuditTyped'
      BY <1>3, <1>4, <2>1, <2>2, <2>4, <3>1 DEF AuditTyped, NodesStay, Query
    <3>3. Queues' /\ QueuesStay BY <1>3, <1>4, <2>4 DEF Queues, QueuesStay
    <3>4. Preserved
      <4>1. e \in table' \cup lost' /\ table \subseteq table' /\ lost \subseteq lost'
        BY <2>4
      <4>2. ASSUME NEW o \in Nodes PROVE logged'[o] \subseteq logged[o] \cup table' \cup lost'
        BY <2>1, <4>1
      <4> QED BY <1>4, <2>4, <4>1, <4>2 DEF Preserved, Held
    <3> QED BY <1>4, <3>1, <3>2, <3>3, <3>4, AuditMoves
  <2> QED BY <1>4, <2>3, <2>4
<1>5. CASE log(n, a) /\ ~ node[n].cancelled
  <2>1. CASE ~ should_record(a) BY <1>1, <1>5, <2>1 DEF log
  <2>2. CASE should_record(a) BY <1>2, <1>4, <1>5, <2>2 DEF log, record_event
  <2> QED BY <2>1, <2>2
<1>6. CASE log_with_db_and_config(n, a)
  <2>1. CASE ~ should_record(a) BY <1>1, <1>6, <2>1 DEF log_with_db_and_config
  <2>2. CASE should_record(a) BY <1>2, <1>4, <1>6, <2>2 DEF log_with_db_and_config
  <2> QED BY <2>1, <2>2
<1> QED BY <1>5, <1>6

\* The queue is taken out, nothing being written at the time.
LEMMA TakeFacts ==
    ASSUME AuditTyped, Queues, load' = load, NEW n \in Nodes, TakeQueue(n), batch[n] = <<>>, UNCHANGED <<table, lost, logged>>
    PROVE  /\ buf' \in [Nodes -> Seq(Events)] /\ batch' \in [Nodes -> Seq(Events)] /\ Queues' /\ Preserved
           /\ buf'[n] = <<>> /\ batch'[n] = buf[n]
           /\ \A o \in Nodes : o # n => buf'[o] = buf[o] /\ batch'[o] = batch[o]
<1>1. buf \in [Nodes -> Seq(Events)] /\ batch \in [Nodes -> Seq(Events)] /\ <<>> \in Seq(Events) /\ Len(<<>>) = 0
  BY DEF AuditTyped
<1>2. /\ buf' \in [Nodes -> Seq(Events)] /\ batch' \in [Nodes -> Seq(Events)]
      /\ buf'[n] = <<>> /\ batch'[n] = buf[n]
      /\ \A o \in Nodes : o # n => buf'[o] = buf[o] /\ batch'[o] = batch[o]
  BY <1>1 DEF TakeQueue
<1>3. Queues'
  <2>1. \A o \in Nodes : Len(buf[o]) <= load.capacity /\ Len(batch[o]) <= load.capacity
    BY DEF Queues
  <2>2. Len(buf'[n]) <= load.capacity /\ Len(batch'[n]) <= load.capacity BY <1>2, <2>1
  <2>3. \A o \in Nodes : Len(buf'[o]) <= load.capacity /\ Len(batch'[o]) <= load.capacity
    BY <1>2, <2>1, <2>2
  <2> QED BY <2>3 DEF Queues
<1>4. ASSUME NEW o \in Nodes
      PROVE  Held(o) \subseteq Held(o)' /\ Ran(batch[o]) \subseteq Ran(batch'[o])
  <2>1. CASE o = n BY <1>2, <2>1, RanEmpty DEF Held
  <2>2. CASE o # n BY <1>2, <2>2 DEF Held
  <2> QED BY <2>1, <2>2
<1>5. Preserved
  BY <1>4 DEF Preserved
<1> QED BY <1>2, <1>3, <1>5

\* The writer's own task takes a batch out, or the shutdown does when it has cancelled that task.
LEMMA TakeAudit ==
    ASSUME Loaded, LeftInv, AuditInv, load' = load, NEW n \in Nodes, DelayedFlush(n) \/ shutdown_global_audit_log_manager(n)
    PROVE  AuditInv'
<1>1. /\ TakeQueue(n) /\ batch[n] = <<>> /\ UNCHANGED <<table, query, left, logged, lost>>
      /\ node[n].at # "off" /\ ~ node[n].cancelled
  BY DEF DelayedFlush, shutdown_global_audit_log_manager, Alive
<1>2. /\ buf' \in [Nodes -> Seq(Events)] /\ batch' \in [Nodes -> Seq(Events)] /\ Queues' /\ Preserved
      /\ buf'[n] = <<>> /\ batch'[n] = buf[n]
      /\ \A o \in Nodes : o # n => buf'[o] = buf[o] /\ batch'[o] = batch[o]
  BY <1>1, TakeFacts DEF AuditInv
<1>3. node \in [Nodes -> Node]
  BY DEF AuditInv, AuditTyped
<1>4. /\ node' \in [Nodes -> Node]
      /\ \A o \in Nodes : o # n => node'[o] = node[o]
      /\ node'[n].at = node[n].at /\ (node'[n].cancelled => node[n].at = "flush")
  <2>1. CASE DelayedFlush(n) BY <1>1, <1>3, <2>1 DEF DelayedFlush
  <2>2. CASE shutdown_global_audit_log_manager(n)
    BY <1>3, <2>2 DEF shutdown_global_audit_log_manager, Node
  <2> QED BY <2>1, <2>2
<1>5. AuditTyped'
  BY <1>1, <1>2, <1>4 DEF AuditInv, AuditTyped, Query
<1>6. Losses'
  BY <1>1, LossesStay DEF AuditInv, AuditTyped, Spends
<1>7. Kept' /\ Asked'
  BY <1>1, <1>2, PreservedKeeps DEF AuditInv
<1>8. Closing'
  <2> SUFFICES ASSUME NEW o \in Nodes
               PROVE  /\ node'[o].cancelled => node'[o].at \in {"flush", "off"} /\ buf'[o] = <<>>
                      /\ node'[o].at = "off" => node'[o].cancelled /\ batch'[o] = <<>>
    BY DEF Closing
  <2>1. CASE o = n BY <1>1, <1>2, <1>4, <2>1
  <2>2. CASE o # n BY <1>2, <1>4, <2>2 DEF AuditInv, Closing
  <2> QED BY <2>1, <2>2
<1> QED BY <1>2, <1>5, <1>6, <1>7, <1>8 DEF AuditInv

\* A chunk is written, or its write fails; the chunks after it stay.
LEMMA WriteAudit ==
    ASSUME Loaded, LeftInv, AuditInv, load' = load, NEW n \in Nodes, write_audit_batch(n)
    PROVE  AuditInv'
<1>1. PICK c, t : c = FirstChunk(n) /\ t = Rest(n) OBVIOUS
<1>2. load.batch \in Nat /\ batch[n] \in Seq(Events) /\ batch \in [Nodes -> Seq(Events)]
  BY LoadType DEF AuditInv, AuditTyped
<1>3. /\ t \in Seq(Events) /\ Len(t) <= Len(batch[n]) /\ Ran(batch[n]) \subseteq c \cup Ran(t)
      /\ c \subseteq Events /\ IsFiniteSet(c) /\ Cardinality(c) \in Nat /\ Cardinality(c) <= load.batch
  <2>1. c = Taken(batch[n], load.batch) /\ t = Others(batch[n], load.batch)
    BY <1>1 DEF FirstChunk, Rest, Taken, Others
  <2> QED BY <1>2, <2>1, Chunks
<1>4. /\ batch[n] # <<>> /\ batch' = [batch EXCEPT ![n] = t] /\ UNCHANGED <<node, buf, query, logged>>
      /\ \/ table' = table \cup c /\ UNCHANGED <<lost, left>>
         \/ Spend("writes") /\ lost' = lost \cup c /\ UNCHANGED table
  BY <1>1 DEF write_audit_batch
<1>5. batch' \in [Nodes -> Seq(Events)] /\ batch'[n] = t /\ \A o \in Nodes : o # n => batch'[o] = batch[o]
  BY <1>2, <1>3, <1>4
<1>6. Losses' /\ IsFiniteSet(lost')
  <2>1. Losses /\ IsFiniteSet(lost) BY DEF AuditInv, AuditTyped
  <2>2. CASE UNCHANGED <<lost, left>> BY <2>1, <2>2, LossesStay DEF Spends
  <2>3. CASE Spend("writes") /\ lost' = lost \cup c BY <1>3, <2>1, <2>3, LossesGrow
  <2> QED BY <1>4, <2>2, <2>3
<1>7. AuditTyped'
  BY <1>3, <1>4, <1>5, <1>6 DEF AuditInv, AuditTyped, Query
<1>8. Queues'
  <2>1. \A o \in Nodes : Len(buf[o]) <= load.capacity /\ Len(batch[o]) <= load.capacity
    BY DEF AuditInv, Queues
  <2>2. Len(t) <= load.capacity
    <3>1. Len(t) \in Nat /\ Len(batch[n]) \in Nat /\ load.capacity \in Nat
      BY <1>2, <1>3, LenProperties, LoadType
    <3> QED BY <1>3, <2>1, <3>1
  <2> QED BY <1>4, <1>5, <2>1, <2>2 DEF Queues
<1>9. Preserved
  <2>1. table \subseteq table' /\ lost \subseteq lost' /\ c \subseteq table' \cup lost'
    BY <1>4
  <2>2. ASSUME NEW o \in Nodes PROVE Ran(batch[o]) \subseteq table' \cup lost' \cup Ran(batch'[o])
    BY <1>3, <1>5, <2>1
  <2> QED BY <1>4, <2>1, <2>2 DEF Preserved, Held
<1>10. NodesStay /\ QueuesStay
  <2>1. NodesStay BY <1>4 DEF NodesStay, AuditInv, AuditTyped, Closing
  <2>2. node[n].at # "off" BY <1>4 DEF AuditInv, Closing
  <2> QED BY <1>4, <1>5, <2>1, <2>2 DEF QueuesStay
<1> QED BY <1>4, <1>6, <1>7, <1>8, <1>9, <1>10, AuditMoves

\* A query sees what was logged before it: the queue is written first.
LEMMA QueryAudit ==
    ASSUME Loaded, LeftInv, AuditInv, load' = load, NEW n \in Nodes,
           query_audit(n) \/ flush_global_audit_log_manager(n) \/ find_with_filters_cursor(n)
    PROVE  AuditInv'
<1>1. UNCHANGED <<node, table, left, logged, lost>> /\ query \in Query /\ Kept /\ Asked
  BY DEF query_audit, flush_global_audit_log_manager, find_with_filters_cursor, AuditInv, AuditTyped
<1>2. Losses'
  BY <1>1, LossesStay DEF AuditInv, AuditTyped, Spends
<1>3. CASE query_audit(n)
  <2>1. query' = [query EXCEPT !.at = "flush", !.by = n, !.before = logged[n]] /\ UNCHANGED <<buf, batch>>
    BY <1>3 DEF query_audit
  <2>2. logged[n] \in SUBSET Events BY DEF AuditInv, AuditTyped
  <2>3. query' \in Query /\ query'.at = "flush" /\ query'.by = n /\ query'.before = logged[n]
    BY <1>1, <2>1, <2>2 DEF Query
  <2>4. Asked' BY <1>1, <2>1, <2>3 DEF Asked, Kept
  <2>5. AuditTyped' /\ Queues' /\ Kept' /\ Closing'
    BY <1>1, <2>1, <2>3 DEF AuditInv, AuditTyped, Queues, Kept, Closing, Query
  <2> QED BY <1>2, <2>4, <2>5 DEF AuditInv
<1>4. CASE flush_global_audit_log_manager(n)
  <2>1. query' = [query EXCEPT !.at = "read"] /\ query.at = "flush" /\ query.by = n /\ batch[n] = <<>> /\ TakeQueue(n)
    BY <1>4 DEF flush_global_audit_log_manager
  <2>2. query' \in Query /\ query'.at = "read" /\ query'.by = n /\ query'.before = query.before
    BY <1>1, <2>1 DEF Query
  <2>3. /\ buf' \in [Nodes -> Seq(Events)] /\ batch' \in [Nodes -> Seq(Events)] /\ Queues' /\ Preserved
        /\ buf'[n] = <<>> /\ batch'[n] = buf[n]
        /\ \A o \in Nodes : o # n => buf'[o] = buf[o] /\ batch'[o] = batch[o]
    BY <1>1, <2>1, TakeFacts DEF AuditInv
  <2>4. Asked'
    <3>1. query.before \subseteq table \cup lost \cup Ran(buf[n]) \cup Ran(batch[n])
      BY <1>1, <2>1 DEF Asked
    <3>2. query'.before \subseteq table' \cup lost' \cup Ran(batch'[n])
      BY <1>1, <2>1, <2>2, <2>3, <3>1, RanEmpty
    <3> QED BY <2>2, <3>2 DEF Asked
  <2>5. AuditTyped' BY <1>1, <2>2, <2>3 DEF AuditInv, AuditTyped, Query
  <2>6. Kept' BY <1>1, <2>3, PreservedKeeps
  <2>7. Closing'
    <3> SUFFICES ASSUME NEW o \in Nodes
                 PROVE  /\ node[o].cancelled => node[o].at \in {"flush", "off"} /\ buf'[o] = <<>>
                        /\ node[o].at = "off" => node[o].cancelled /\ batch'[o] = <<>>
      BY <1>1 DEF Closing
    <3>1. /\ node[o].cancelled => node[o].at \in {"flush", "off"} /\ buf[o] = <<>>
          /\ node[o].at = "off" => node[o].cancelled /\ batch[o] = <<>>
      BY DEF AuditInv, Closing
    <3> QED BY <2>3, <3>1
  <2> QED BY <1>2, <2>3, <2>4, <2>5, <2>6, <2>7 DEF AuditInv
<1>5. CASE find_with_filters_cursor(n)
  <2>1. /\ query' = [query EXCEPT !.at = "done", !.seen = table] /\ UNCHANGED <<buf, batch>>
        /\ query.at = "read" /\ query.by = n /\ batch[n] = <<>>
    BY <1>5 DEF find_with_filters_cursor
  <2>2. table \in SUBSET Events BY DEF AuditInv, AuditTyped
  <2>3. query' \in Query /\ query'.at = "done" /\ query'.before = query.before /\ query'.seen = table
    BY <1>1, <2>1, <2>2 DEF Query
  <2>4. Asked'
    <3>1. query.before \subseteq table \cup lost \cup Ran(batch[n])
      BY <1>1, <2>1 DEF Asked
    <3> QED BY <1>1, <2>1, <2>3, <3>1, RanEmpty DEF Asked
  <2>5. AuditTyped' /\ Queues' /\ Kept' /\ Closing'
    BY <1>1, <2>1, <2>3 DEF AuditInv, AuditTyped, Queues, Kept, Closing, Query
  <2> QED BY <1>2, <2>4, <2>5 DEF AuditInv
<1> QED BY <1>3, <1>4, <1>5

\* A crash takes the queue and the batch of its node.
LEMMA CrashAudit ==
    ASSUME Loaded, LeftInv, AuditInv, load' = load, NEW n \in Nodes, Crash(n)
    PROVE  AuditInv'
<1>1. /\ Spend("crashes") /\ node' = [node EXCEPT ![n] = [at |-> "down", leading |-> FALSE, cancelled |-> FALSE]]
      /\ lost' = lost \cup (Ran(buf[n]) \cup Ran(batch[n])) /\ UNCHANGED <<table, logged>>
      /\ buf' = [buf EXCEPT ![n] = <<>>] /\ batch' = [batch EXCEPT ![n] = <<>>]
      /\ query' = IF query.by = n /\ query.at # "done" THEN [query EXCEPT !.at = "done", !.before = {}] ELSE query
  BY DEF Crash, Ran
<1>2. /\ buf \in [Nodes -> Seq(Events)] /\ batch \in [Nodes -> Seq(Events)] /\ <<>> \in Seq(Events) /\ Len(<<>>) = 0
      /\ node \in [Nodes -> Node] /\ IsFiniteSet(lost) /\ query \in Query /\ lost \subseteq Events /\ load.capacity \in Nat
  BY LoadType DEF AuditInv, AuditTyped
<1>3. PICK X : X = Ran(buf[n]) \cup Ran(batch[n]) OBVIOUS
<1>4. X \subseteq Events /\ IsFiniteSet(X) /\ Cardinality(X) <= load.capacity * 2
  <2>1. PICK a, b \in Nat : a = Cardinality(Ran(buf[n])) /\ b = Cardinality(Ran(batch[n]))
    BY <1>2, RanSize
  <2>2. /\ Ran(buf[n]) \subseteq Events /\ Ran(batch[n]) \subseteq Events /\ IsFiniteSet(Ran(buf[n])) /\ IsFiniteSet(Ran(batch[n]))
        /\ a <= Len(buf[n]) /\ b <= Len(batch[n])
    BY <1>2, <2>1, RanSize
  <2>3. Len(buf[n]) <= load.capacity /\ Len(batch[n]) <= load.capacity /\ Len(buf[n]) \in Nat /\ Len(batch[n]) \in Nat
    BY <1>2, LenProperties DEF AuditInv, Queues
  <2>4. IsFiniteSet(X) /\ Cardinality(X) <= a + b BY <1>3, <2>1, <2>2, UnionSize
  <2>5. Cardinality(X) \in Nat BY <2>4, FS_CardinalityType
  <2>6. a + b <= load.capacity * 2 BY <1>2, <2>2, <2>3
  <2>7. Cardinality(X) <= load.capacity * 2 BY <1>2, <2>4, <2>5, <2>6
  <2> QED BY <1>3, <2>2, <2>4, <2>7
<1>5. Losses' /\ IsFiniteSet(lost') /\ lost' \subseteq Events
  <2>1. lost' = lost \cup X BY <1>1, <1>3
  <2>2. Losses BY DEF AuditInv
  <2> QED BY <1>1, <1>2, <1>4, <2>1, <2>2, LossesGrow
<1>6. /\ buf' \in [Nodes -> Seq(Events)] /\ batch' \in [Nodes -> Seq(Events)] /\ buf'[n] = <<>> /\ batch'[n] = <<>>
      /\ \A o \in Nodes : o # n => buf'[o] = buf[o] /\ batch'[o] = batch[o]
  BY <1>1, <1>2
<1>7. /\ node' \in [Nodes -> Node] /\ node'[n].at = "down" /\ ~ node'[n].cancelled
      /\ \A o \in Nodes : o # n => node'[o] = node[o]
  BY <1>1, <1>2 DEF Node, Phases
<1>8. query' \in Query
  BY <1>1, <1>2 DEF Query
<1>9. AuditTyped'
  BY <1>1, <1>5, <1>6, <1>7, <1>8 DEF AuditInv, AuditTyped, Query
<1>10. Queues'
  BY <1>2, <1>6 DEF AuditInv, Queues
<1>11. Preserved
  <2>1. ASSUME NEW o \in Nodes
        PROVE  /\ Ran(buf[o]) \subseteq lost' \cup Ran(buf'[o])
               /\ Ran(batch[o]) \subseteq lost' \cup Ran(batch'[o])
    BY <1>1, <1>6
  <2> QED BY <1>1, <2>1 DEF Preserved, Held
<1>12. Kept' /\ Asked'
  <2>1. Kept' /\ (query' = query => Asked') BY <1>11, PreservedKeeps DEF AuditInv
  <2>2. CASE query.by = n /\ query.at # "done"
    <3>1. query'.at = "done" /\ query'.before = {} BY <1>1, <1>2, <2>2 DEF Query
    <3> QED BY <2>1, <3>1 DEF Asked
  <2> QED BY <1>1, <2>1, <2>2
<1>13. Closing'
  BY <1>6, <1>7 DEF AuditInv, Closing
<1> QED BY <1>5, <1>9, <1>10, <1>12, <1>13 DEF AuditInv

\* The database is closed once the queue is written.
LEMMA CloseAudit ==
    ASSUME Loaded, LeftInv, AuditInv, load' = load, NEW n \in Nodes, CloseDatabase(n)
    PROVE  AuditInv'
<1>1. /\ UNCHANGED <<buf, batch, table, query, logged, lost, left>> /\ node' = [node EXCEPT ![n].at = "off"]
      /\ node[n].cancelled /\ batch[n] = <<>>
  BY DEF CloseDatabase, To, audits
<1>2. node \in [Nodes -> Node]
  BY DEF AuditInv, AuditTyped
<1>3. /\ node' \in [Nodes -> Node] /\ node'[n].at = "off" /\ node'[n].cancelled
      /\ \A o \in Nodes : o # n => node'[o] = node[o]
  BY <1>1, <1>2 DEF Node, Phases
<1>4. AuditTyped' /\ Queues' /\ Kept' /\ Asked'
  BY <1>1, <1>3 DEF AuditInv, AuditTyped, Queues, Kept, Asked, Query
<1>5. Closing'
  BY <1>1, <1>3 DEF AuditInv, Closing
<1>6. Losses'
  BY <1>1, LossesStay DEF AuditInv, AuditTyped, Spends
<1> QED BY <1>4, <1>5, <1>6 DEF AuditInv

\* A node moves on, up to the phase that flushes its audit log, and leads or leads no more.
LEMMA NodeMoves ==
    ASSUME AuditInv, NEW n \in Nodes, NEW x \in Node, node' = [node EXCEPT ![n] = x], ~ x.cancelled, x.at # "off"
    PROVE  NodesStay
<1>1. node \in [Nodes -> Node]
  BY DEF AuditInv, AuditTyped
<1>2. node' \in [Nodes -> Node] /\ node'[n] = x /\ \A o \in Nodes : o # n => node'[o] = node[o]
  BY <1>1
<1> QED BY <1>2 DEF NodesStay, AuditInv, Closing

\* A node that stays as it is.
LEMMA NodeStill ==
    ASSUME AuditInv, node' = node
    PROVE  NodesStay
  BY DEF NodesStay, AuditInv, AuditTyped, Closing

\* Steps of the runs, of the mails and of the lease keep away from the audit log.
LEMMA AuditOthers ==
    ASSUME AuditInv, NEW n \in Nodes,
           \/ \E k \in Kinds : RunStep(n, k)
           \/ dispatch_due(n) \/ (\E m \in Mails : deliver_one(n, m) \/ MarkMail(n, m)) \/ run_mail_outbox_dispatch(n)
           \/ LeaseStep(n) \/ ShutdownTasks(n) \/ drain_with(n) \/ StopNode(n)
    PROVE  UNCHANGED audits /\ NodesStay /\ Spends(Faults)
<1>1. CASE \E k \in Kinds : RunStep(n, k)
  <2>1. UNCHANGED <<node, audits, left>>
    BY <1>1 DEF RunStep, ClaimSlot, RunTask, FindLatest, refresh_system_runtime_success, insert_typed_task_record, CompleteSlot,
                run_background_task_dispatch_iteration
  <2> QED BY <2>1, NodeStill DEF Spends
<1>2. CASE dispatch_due(n) \/ (\E m \in Mails : deliver_one(n, m) \/ MarkMail(n, m)) \/ run_mail_outbox_dispatch(n)
  <2>1. UNCHANGED <<node, audits>> /\ Spends(Faults)
    BY <1>2 DEF dispatch_due, deliver_one, MarkMail, run_mail_outbox_dispatch, Spends, Faults
  <2> QED BY <2>1, NodeStill
<1>3. PICK x : x = node[n] OBVIOUS
<1>4. x \in Node
  BY <1>3 DEF AuditInv, AuditTyped
<1>5. x.cancelled => x.at \in {"flush", "off"}
  BY <1>3 DEF AuditInv, Closing
<1>6. CASE LeaseStep(n)
  <2>1. UNCHANGED <<audits, left>> /\ x.at = "up"
    BY <1>3, <1>6 DEF LeaseStep, AcquireLease, RenewLease, Up
  <2>2. CASE node' = node BY <2>1, <2>2, NodeStill DEF Spends
  <2>3. CASE node' # node
    <3>1. PICK b \in BOOLEAN : node' = [node EXCEPT ![n] = [x EXCEPT !.leading = b]]
      BY <1>3, <1>6, <2>3 DEF LeaseStep, AcquireLease, RenewLease
    <3>2. PICK y : y = [x EXCEPT !.leading = b] OBVIOUS
    <3>3. y \in Node /\ ~ y.cancelled /\ y.at # "off" BY <1>4, <1>5, <2>1, <3>2 DEF Node
    <3> QED BY <2>1, <3>1, <3>2, <3>3, NodeMoves DEF Spends
  <2> QED BY <2>2, <2>3
<1>7. CASE ShutdownTasks(n) \/ drain_with(n)
  <2>1. UNCHANGED audits /\ Spends(Faults) /\ x.at \in {"tasks", "drain"}
    BY <1>3, <1>7 DEF ShutdownTasks, drain_with, Draining, Spends, Faults
  <2>2. CASE node' = node BY <2>1, <2>2, NodeStill
  <2>3. CASE node' # node
    <3>1. PICK s \in {"drain", "audit"} : node' = [node EXCEPT ![n] = [x EXCEPT !.at = s]]
      BY <1>3, <1>7, <2>3 DEF ShutdownTasks, drain_with, To
    <3>2. PICK y : y = [x EXCEPT !.at = s] OBVIOUS
    <3>3. y \in Node /\ ~ y.cancelled /\ y.at # "off"
      BY <1>4, <1>5, <2>1, <3>2 DEF Node, Phases
    <3> QED BY <2>1, <3>1, <3>2, <3>3, NodeMoves
  <2> QED BY <2>2, <2>3
<1>8. CASE StopNode(n)
  <2>1. UNCHANGED <<audits, left>> /\ x.at = "up" /\ node' = [node EXCEPT ![n].at = "tasks", ![n].leading = FALSE]
    BY <1>3, <1>8 DEF StopNode, Up
  <2>2. PICK y : y = node'[n] OBVIOUS
  <2>3. node \in [Nodes -> Node] BY DEF AuditInv, AuditTyped
  <2>4. y \in Node /\ y.at = "tasks" /\ y.cancelled = x.cancelled /\ node' = [node EXCEPT ![n] = y]
    BY <1>3, <2>1, <2>2, <2>3 DEF Node, Phases
  <2>5. ~ y.cancelled BY <1>5, <2>1, <2>4
  <2> QED BY <2>1, <2>4, <2>5, NodeMoves DEF Spends
<1> QED BY <1>1, <1>2, <1>6, <1>7, <1>8

\* A start, a shutdown, a request and a delivery are put in the audit log.
LEMMA LogSteps ==
    ASSUME Loaded, LeftInv, AuditInv, load' = load, NEW n \in Nodes,
           \/ record_server_start(n) \/ record_server_shutdown(n) \/ AuditedRequest(n)
           \/ \E m \in Mails : LogMail(n, m)
    PROVE  AuditInv'
<1>1. PICK x : x = node[n] OBVIOUS
<1>2. x \in Node
  BY <1>1 DEF AuditInv, AuditTyped
<1>3. x.cancelled => x.at \in {"flush", "off"}
  BY <1>1 DEF AuditInv, Closing
<1>4. CASE record_server_start(n) \/ record_server_shutdown(n)
  <2>1. PICK s \in {"up", "flush"}, a \in AuditActions : node' = [node EXCEPT ![n] = [x EXCEPT !.at = s]] /\ log(n, a)
    BY <1>1, <1>4 DEF record_server_start, record_server_shutdown, To, AuditActions
  <2>2. x.at \in {"down", "audit"}
    BY <1>1, <1>4 DEF record_server_start, record_server_shutdown
  <2>3. PICK y : y = [x EXCEPT !.at = s] OBVIOUS
  <2>4. y \in Node /\ ~ y.cancelled /\ y.at # "off" /\ ~ x.cancelled
    BY <1>2, <1>3, <2>2, <2>3 DEF Node, Phases
  <2>5. NodesStay BY <2>1, <2>3, <2>4, NodeMoves
  <2> QED BY <1>1, <2>1, <2>4, <2>5, LogAudit
<1>5. CASE AuditedRequest(n)
  <2>1. log(n, "request") /\ node' = node /\ x.at = "up"
    BY <1>1, <1>5 DEF AuditedRequest, Up
  <2>2. ~ node[n].cancelled /\ "request" \in AuditActions
    BY <1>1, <1>3, <2>1 DEF AuditActions
  <2> QED BY <2>1, <2>2, NodeStill, LogAudit
<1>6. CASE \E m \in Mails : LogMail(n, m)
  <2>1. PICK a \in {"mail_send", "mail_delivery_failed"} : log_with_db_and_config(n, a)
    BY <1>6 DEF LogMail
  <2>2. node' = node /\ a \in AuditActions BY <1>6 DEF LogMail, AuditActions
  <2> QED BY <2>1, <2>2, NodeStill, LogAudit
<1> QED BY <1>4, <1>5, <1>6

\* Every step keeps what is known of the audit log.
LEMMA AuditKeeps ==
    ASSUME Loaded, LeftInv, AuditInv, Next
    PROVE  AuditInv'
<1>0. load' = load
  BY DEF Next
<1>1. ASSUME NEW n \in Nodes, (\E k \in Kinds : RunStep(n, k)) \/ MailStep(n) \/ LeaseStep(n) \/ StopNode(n)
      PROVE  AuditInv'
  BY <1>0, <1>1, AuditOthers, AuditUntouched, LogSteps DEF MailStep
<1>2. ASSUME NEW n \in Nodes, AuditStep(n) \/ query_audit(n)
      PROVE  AuditInv'
  BY <1>0, <1>2, TakeAudit, WriteAudit, QueryAudit DEF AuditStep
<1>3. ASSUME NEW n \in Nodes, StopStep(n)
      PROVE  AuditInv'
  BY <1>0, <1>3, AuditOthers, AuditUntouched, LogSteps, TakeAudit, CloseAudit DEF StopStep
<1>4. ASSUME NEW n \in Nodes, record_server_start(n) \/ Crash(n) \/ AuditedRequest(n)
      PROVE  AuditInv'
  BY <1>0, <1>4, LogSteps, CrashAudit
<1>5. CASE \/ \E m \in Mails : enqueue(m) \/ MailFallsDue(m) \/ MailGoesStale(m)
           \/ LeaseExpires \/ (\E k \in Kinds : ClaimExpires(k)) \/ (\E i \in DOMAIN record : CleanupRecord(i))
  <2>1. UNCHANGED <<node, audits>> /\ Spends(Faults)
    BY <1>5 DEF enqueue, MailFallsDue, MailGoesStale, LeaseExpires, ClaimExpires, CleanupRecord, Spends, Faults
  <2> QED BY <1>0, <2>1, NodeStill, AuditUntouched
<1> QED BY <1>1, <1>2, <1>3, <1>4, <1>5 DEF Next, Step, Expires

-----------------------------------------------------------------------------
(* The theorems                                                            *)

\* Every step spends one fault at most.
LEMMA LeftKeeps ==
    ASSUME Loaded, LeftInv, Next
    PROVE  LeftInv'
<1>0. load' = load
  BY DEF Next
<1> SUFFICES Spends(Faults)
  BY <1>0, LeftStays
<1>1. ASSUME NEW n \in Nodes, NEW k \in Kinds, RunStep(n, k)
      PROVE  left' = left
  BY <1>1 DEF RunStep, ClaimSlot, RunTask, FindLatest, refresh_system_runtime_success, insert_typed_task_record, CompleteSlot,
              run_background_task_dispatch_iteration
<1>2. ASSUME NEW n \in Nodes,
             \/ (\E m \in Mails : LogMail(n, m)) \/ record_server_start(n) \/ record_server_shutdown(n) \/ AuditedRequest(n)
      PROVE  Spends(Faults)
  <2>1. \E a : log(n, a) \/ log_with_db_and_config(n, a)
    BY <1>2 DEF LogMail, record_server_start, record_server_shutdown, AuditedRequest
  <2>2. Spends({"writes"}) BY <2>1, LogSpends
  <2> QED BY <2>2 DEF Spends, Faults
<1>3. ASSUME NEW n \in Nodes,
             dispatch_due(n) \/ (\E m \in Mails : deliver_one(n, m) \/ MarkMail(n, m)) \/ run_mail_outbox_dispatch(n)
      PROVE  Spends(Faults)
  BY <1>3 DEF dispatch_due, deliver_one, MarkMail, run_mail_outbox_dispatch, Spends, Faults
<1>4. ASSUME NEW n \in Nodes, LeaseStep(n) \/ AuditStep(n) \/ query_audit(n)
      PROVE  Spends(Faults)
  BY <1>4 DEF LeaseStep, AcquireLease, RenewLease, AuditStep, DelayedFlush, write_audit_batch, flush_global_audit_log_manager,
              find_with_filters_cursor, query_audit, Spends, Faults
<1>5. ASSUME NEW n \in Nodes,
             \/ ShutdownTasks(n) \/ drain_with(n) \/ shutdown_global_audit_log_manager(n) \/ CloseDatabase(n)
             \/ StopNode(n) \/ Crash(n)
      PROVE  Spends(Faults)
  BY <1>5 DEF ShutdownTasks, drain_with, shutdown_global_audit_log_manager, CloseDatabase, StopNode, Crash, Spends, Faults
<1>6. CASE \/ \E m \in Mails : enqueue(m) \/ MailFallsDue(m) \/ MailGoesStale(m)
           \/ LeaseExpires \/ (\E k \in Kinds : ClaimExpires(k)) \/ (\E i \in DOMAIN record : CleanupRecord(i))
  BY <1>6 DEF enqueue, MailFallsDue, MailGoesStale, LeaseExpires, ClaimExpires, CleanupRecord, Spends, Faults
<1>7. ASSUME left' = left PROVE Spends(Faults)
  BY <1>7 DEF Spends
<1> QED BY <1>1, <1>2, <1>3, <1>4, <1>5, <1>6, <1>7 DEF Next, Step, Expires, MailStep, StopStep

\* The runtime starts with nothing run, sent or logged.
LEMMA InitInv == Init => Inv
<1> SUFFICES ASSUME Init PROVE Inv
  OBVIOUS
<1>1. Loaded /\ left = load.left
  BY DEF Init, Loaded
<1>2. LeftInv
  BY <1>1, LoadType DEF LeftInv
<1>3. RunInv
  <2>1. /\ claim = [k \in Kinds |-> [slot |-> 1, by |-> NoNode, fresh |-> FALSE]] /\ run = [nk \in Nodes \X Kinds |-> Idle]
        /\ record = [i \in {} |-> 0] /\ clock = 0 /\ told = [k \in Kinds |-> "nothing"] /\ twice = {}
    BY DEF Init
  <2>2. Idle \in Run /\ Idle.at = "idle" BY DEF Idle, Run, Outcomes
  <2>3. RunTyped BY <2>1, <2>2 DEF RunTyped, Claim, Record
  <2>4. Numbered
    <3>1. DOMAIN record = {} BY <2>1
    <3>2. IsFiniteSet(DOMAIN record) /\ Cardinality(DOMAIN record) = 0
      BY <3>1, FS_EmptySet
    <3>3. PICK c \in Nat : c = load.left.cleanups /\ c = left.cleanups
      BY <1>1, LoadType DEF Faults
    <3>4. NextId = 0 + c - c + 1 BY <3>2, <3>3 DEF NextId
    <3>5. NextId = 1 BY <3>4
    <3> QED BY <3>1, <3>2, <3>5 DEF Numbered
  <2>5. OneRecordPerSlot /\ Ended /\ Refreshing
    BY <2>1, <2>2 DEF OneRecordPerSlot, Ended, Refreshing, Recording
  <2>6. Alone /\ Latest /\ ToldInv BY <2>1, <2>2 DEF Alone, Latest, ToldInv, Recording
  <2> QED BY <2>3, <2>4, <2>5, <2>6 DEF RunInv
<1>4. MailInv
  <2>1. /\ mail = [m \in Mails |-> [status |-> "none", attempts |-> 0, due |-> FALSE, stale |-> FALSE]]
        /\ post = [n \in Nodes |-> Still] /\ box = [m \in Mails |-> 0] /\ again = [m \in Mails |-> 0]
    BY DEF Init
  <2>2. Still \in Post /\ Still.todo = {} BY DEF Still, Post
  <2>3. MailTyped BY <2>1, <2>2 DEF MailTyped, MailRow, MailStatus
  <2>4. Tries BY <1>1, <2>1, LoadType DEF Tries
  <2>5. MailBound
    <3> SUFFICES ASSUME NEW m \in Mails PROVE Sends(m) <= 1 + again[m]
      BY DEF MailBound
    <3>1. Hands(m) = {} BY <2>1, <2>2 DEF Hands
    <3>2. Cardinality(Hands(m)) = 0 BY <3>1, FS_EmptySet
    <3>3. box[m] = 0 /\ again[m] = 0 BY <2>1
    <3> QED BY <3>2, <3>3 DEF Sends
  <2> QED BY <2>3, <2>4, <2>5 DEF MailInv
<1>5. AuditInv
  <2>1. /\ node = [n \in Nodes |-> [at |-> "down", leading |-> FALSE, cancelled |-> FALSE]]
        /\ buf = [n \in Nodes |-> <<>>] /\ batch = [n \in Nodes |-> <<>>] /\ table = {}
        /\ query = [at |-> "new", by |-> NoNode, before |-> {}, seen |-> {}]
        /\ logged = [n \in Nodes |-> {}] /\ lost = {}
    BY DEF Init
  <2>2. IsFiniteSet({}) /\ Cardinality({}) = 0 BY FS_EmptySet
  <2>3. AuditTyped BY <2>1, <2>2 DEF AuditTyped, Node, Phases, Query
  <2>4. Queues BY <1>1, <2>1, LoadType DEF Queues
  <2>5. Kept /\ Closing /\ Asked BY <2>1 DEF Kept, Closing, Asked
  <2>6. Losses
    <3>1. load.batch \in Nat /\ load.capacity \in Nat /\ load.left.writes \in Nat /\ load.left.crashes \in Nat
      BY <1>1, LoadType DEF Faults
    <3>2. PICK C \in Nat : C = load.capacity BY <3>1
    <3>3. PICK B, D, W, R \in Nat : B = load.batch /\ D = load.capacity * 2 /\ W = load.left.writes /\ R = load.left.crashes
      BY <3>1, <3>2
    <3>4. LostBound = B * (W - W) + D * (R - R) BY <1>1, <3>3 DEF LostBound
    <3>5. W - W = 0 /\ R - R = 0 /\ B * 0 = 0 /\ D * 0 = 0 OBVIOUS
    <3>6. LostBound = 0 BY <3>4, <3>5
    <3> QED BY <2>1, <2>2, <3>6 DEF Losses
  <2> QED BY <2>3, <2>4, <2>5, <2>6 DEF AuditInv
<1> QED BY <1>1, <1>2, <1>3, <1>4, <1>5 DEF Inv

\* Nothing changes.
LEMMA StutterInv == Inv /\ UNCHANGED vars => Inv'
<1> SUFFICES ASSUME Inv, UNCHANGED vars PROVE Inv'
  OBVIOUS
<1>1. /\ load' = load /\ left' = left /\ node' = node
      /\ UNCHANGED <<claim, run, record, clock, told, twice>> /\ UNCHANGED <<mail, post, box, again>> /\ UNCHANGED audits
  BY DEF vars, audits
<1>2. Loaded' /\ LeftInv'
  BY <1>1 DEF Inv, Loaded, LeftInv
<1>3. RunInv'
  <2>1. RunFrame BY <1>1 DEF RunFrame, SpendsNot
  <2> QED BY <1>1, <2>1, RunUntouched DEF Inv
<1>4. MailInv'
  BY <1>1, MailUntouched DEF Inv, MailFrame
<1>5. AuditInv'
  <2>1. Spends(Faults) /\ NodesStay BY <1>1, NodeStill DEF Inv, Spends
  <2> QED BY <1>1, <2>1, AuditUntouched DEF Inv
<1> QED BY <1>2, <1>3, <1>4, <1>5 DEF Inv

\* The invariant holds in every reachable state.
LEMMA Invariant == Spec => []Inv
<1>1. Inv /\ Next => Inv'
  <2> SUFFICES ASSUME Inv, Next PROVE Inv'
    OBVIOUS
  <2>1. Loaded /\ LeftInv /\ RunInv /\ MailInv /\ AuditInv BY DEF Inv
  <2>2. Loaded' BY <2>1 DEF Loaded, Next
  <2>3. LeftInv' /\ RunInv' /\ MailInv' /\ AuditInv'
    BY <2>1, LeftKeeps, RunKeeps, MailKeeps, AuditKeeps
  <2> QED BY <2>2, <2>3 DEF Inv
<1>2. Inv /\ [Next]_vars => Inv'
  BY <1>1, StutterInv
<1> QED BY <1>2, InitInv, PTL DEF Spec

\* The parts of RunsOnce.
LEMMA InvRunsOnce == Inv => RunsOnce
<1> SUFFICES ASSUME Inv PROVE RunsOnce
  OBVIOUS
<1>1. /\ RunTyped /\ OneRecordPerSlot /\ MailTyped /\ Tries /\ MailBound /\ AuditTyped /\ Queues /\ Loaded
  BY DEF Inv, RunInv, MailInv, AuditInv
<1>2. TypeOK
  <2>1. \A n \in Nodes : node[n].at \in Phases /\ Len(buf[n]) <= load.capacity
    BY <1>1 DEF AuditTyped, Node, Queues
  <2>2. Kinds \subseteq SystemRuntimeTaskKind BY <1>1, LoadType
  <2>3. \A m \in Mails : mail[m].status \in MailStatus /\ mail[m].attempts <= load.max_attempts
    BY <1>1 DEF MailTyped, MailRow, Tries
  <2>4. \A i \in DOMAIN record : record[i].kind \in Kinds /\ record[i].status \in {"succeeded", "failed"}
    BY <1>1 DEF RunTyped, Record
  <2> QED BY <2>1, <2>2, <2>3, <2>4 DEF TypeOK
<1>3. MailOnce
  <2> SUFFICES ASSUME NEW m \in Mails PROVE box[m] <= 1 + again[m]
    BY DEF MailOnce
  <2>1. PICK b, a, c \in Nat : b = box[m] /\ a = again[m] /\ c = Cardinality(Hands(m))
    BY <1>1, HandsFinite DEF MailTyped
  <2>2. PICK o \in {0, 1} : o = IF Open(m) THEN 1 ELSE 0 OBVIOUS
  <2>3. b + c + o <= 1 + a BY <1>1, <2>1, <2>2 DEF MailBound, Sends
  <2> QED BY <2>1, <2>2, <2>3
<1> QED BY <1>1, <1>2, <1>3 DEF RunsOnce

\* The parts of RecordsTell.
LEMMA InvRecordsTell == Inv => RecordsTell
<1> SUFFICES ASSUME Inv PROVE RecordsTell
  OBVIOUS
<1>1. LatestIsTold
  <2> SUFFICES ASSUME NEW k \in Kinds \ twice, told[k] # "nothing"
               PROVE  \E i \in find_latest_system_runtime_by_payload(k) : record[i].status = told[k]
    BY DEF LatestIsTold
  <2>1. PICK i \in DOMAIN record : /\ record[i].kind = k /\ record[i].status = told[k]
                                   /\ \A j \in DOMAIN record : record[j].kind = k => record[j].updated <= record[i].updated
    BY DEF Inv, RunInv, ToldInv
  <2>2. i \in find_latest_system_runtime_by_payload(k)
    BY <2>1 DEF find_latest_system_runtime_by_payload, OfKind
  <2> QED BY <2>1, <2>2
<1>2. AuditComplete
  <2>1. ASSUME NEW n \in Nodes, node[n].at = "off" PROVE logged[n] \subseteq table \cup lost
    <3>1. buf[n] = <<>> /\ batch[n] = <<>> BY <2>1 DEF Inv, AuditInv, Closing
    <3>2. logged[n] \subseteq table \cup lost \cup Ran(<<>>) \cup Ran(<<>>)
      BY <3>1 DEF Inv, AuditInv, Kept
    <3> QED BY <3>2, RanEmpty
  <2> QED BY <2>1 DEF AuditComplete, Inv, AuditInv, Losses, LostBound
<1>3. QuerySeesAll
  BY DEF QuerySeesAll, Inv, AuditInv, Asked
<1> QED BY <1>1, <1>2, <1>3 DEF RecordsTell

\* What nodes do at the same time, or again after a crash or a stall, takes effect once: whoever runs a
\* slot again finds its record under the dedupe key, and a mail is delivered again only when its
\* processing went stale, for every number of nodes, kinds, mails and faults.
THEOREM EffectsHappenOnce == Spec => []RunsOnce
  BY Invariant, InvRunsOnce, PTL

\* What is on record is what happened: the latest record of a task tells its last run, refreshed or
\* inserted; a node that was shut down has its events in the table but for the rows of failed writes,
\* which are bounded by the faults; and a query sees all that was logged before it was asked.
THEOREM RecordsTellWhatHappened == Spec => []RecordsTell
  BY Invariant, InvRecordsTell, PTL

-----------------------------------------------------------------------------
(* The drain of the outbox                                                 *)

Busy(n) == post[n].at \in {"deliver", "mark", "log"}
Dispatching(n) == MailKind \in Kinds /\ run[<<n, MailKind>>].at = "work"
Untried == {m \in Mails : mail[m].status = "pending"}
\* A node works at the outbox within a run of the scheduled task or the drain.
BusyInv == \A n \in Nodes : Busy(n) => Draining(n) \/ Dispatching(n)
DueInv == \A m \in Untried : mail[m].due
\* What a batch of the drain that claimed nothing left untried came after it.
LastBatchInv == \A n \in Nodes : Draining(n) /\ Busy(n) /\ post[n].claimed = 0 => Untried \subseteq late[n]
DrainTyped == post \in [Nodes -> Post] /\ mail \in [Mails -> MailRow] /\ late \in [Nodes -> SUBSET Mails]
DrainInv == DrainTyped /\ BusyInv /\ DueInv /\ LastBatchInv

\* One node moves: the others keep what they have, and this one keeps its parts of the invariant.
LEMMA DrainMoves ==
    ASSUME DrainInv, load' = load, DrainTyped', NEW n \in Nodes,
           \A o \in Nodes \ {n} : /\ post'[o] = post[o] /\ node'[o] = node[o]
                                  /\ Dispatching(o) => Dispatching(o)'
                                  /\ late'[o] = late[o],
           Busy(n)' => Draining(n)' \/ Dispatching(n)',
           Untried' \subseteq Untried, \A m \in Untried' : mail'[m].due,
           Draining(n)' /\ Busy(n)' /\ post'[n].claimed = 0 => Untried' \subseteq late'[n]
    PROVE  DrainInv'
<1>1. BusyInv'
  <2> SUFFICES ASSUME NEW o \in Nodes, Busy(o)' PROVE Draining(o)' \/ Dispatching(o)'
    BY DEF BusyInv
  <2>1. CASE o # n
    <3>1. Busy(o) /\ (Draining(o) => Draining(o)') BY <2>1 DEF Busy, Draining
    <3> QED BY <2>1, <3>1 DEF DrainInv, BusyInv
  <2> QED BY <2>1
<1>2. DueInv'
  BY DEF DueInv
<1>3. LastBatchInv'
  <2> SUFFICES ASSUME NEW o \in Nodes, Draining(o)', Busy(o)', post'[o].claimed = 0 PROVE Untried' \subseteq late'[o]
    BY DEF LastBatchInv
  <2>1. CASE o # n
    <3>1. Busy(o) /\ Draining(o) /\ post[o].claimed = 0 BY <2>1 DEF Busy, Draining
    <3> QED BY <2>1, <3>1 DEF DrainInv, LastBatchInv
  <2> QED BY <2>1
<1> QED BY <1>1, <1>2, <1>3 DEF DrainInv

\* The outbox and the work at it stay: no node begins to drain, and a run of the task stays until it ends.
LEMMA DrainStays ==
    ASSUME DrainInv, load' = load, UNCHANGED <<mail, post, late>>,
           \A n \in Nodes : Draining(n) => Draining(n)',
           \A n \in Nodes : Dispatching(n) => Dispatching(n)',
           \A n \in Nodes : Draining(n)' => Draining(n) \/ ~ Busy(n)
    PROVE  DrainInv'
<1>1. Mails' = Mails /\ Untried' = Untried /\ \A n \in Nodes : Busy(n)' = Busy(n)
  BY SameLoad DEF Untried, Busy
<1>2. DrainTyped'
  BY <1>1 DEF DrainInv, DrainTyped, Post
<1>3. BusyInv' /\ DueInv' /\ LastBatchInv'
  BY <1>1 DEF DrainInv, BusyInv, DueInv, LastBatchInv
<1> QED BY <1>2, <1>3 DEF DrainInv
\* A run that is at work goes on, or another one changes.
LEMMA RunsStay ==
    ASSUME RunTyped, load' = load, NEW n \in Nodes, NEW k \in Kinds, RunStep(n, k)
    PROVE  \A o \in Nodes : Dispatching(o) => Dispatching(o)'
<1> SUFFICES ASSUME NEW o \in Nodes, MailKind \in Kinds, run[<<o, MailKind>>].at = "work"
             PROVE  run'[<<o, MailKind>>].at = "work"
  BY SameLoad DEF Dispatching
<1>1. run \in [Nodes \X Kinds -> Run] /\ <<n, k>> \in Nodes \X Kinds /\ <<o, MailKind>> \in Nodes \X Kinds
  BY DEF RunTyped
<1>2. CASE <<o, MailKind>> # <<n, k>>
  <2>1. \E r : run' = [run EXCEPT ![<<n, k>>] = r]
    BY DEF RunStep, ClaimSlot, RunTask, EndWork, FindLatest, refresh_system_runtime_success, insert_typed_task_record, CompleteSlot,
           run_background_task_dispatch_iteration
  <2> QED BY <1>1, <1>2, <2>1
<1>3. CASE <<o, MailKind>> = <<n, k>>
  <2>1. k = MailKind /\ run[<<n, k>>].at = "work" BY <1>3
  <2> QED
    BY <2>1 DEF RunStep, ClaimSlot, RunTask, FindLatest, refresh_system_runtime_success, insert_typed_task_record, CompleteSlot,
                run_background_task_dispatch_iteration, Dispatch, MailKind
<1> QED BY <1>2, <1>3

\* The steps that leave the outbox alone.
LEMMA DrainOthers ==
    ASSUME Inv, load' = load, DrainInv, NEW n \in Nodes,
           \/ \E k \in Kinds : RunStep(n, k)
           \/ LeaseStep(n) \/ AuditStep(n) \/ (StopStep(n) /\ ~ drain_with(n))
           \/ record_server_start(n) \/ StopNode(n) \/ query_audit(n) \/ AuditedRequest(n)
    PROVE  DrainInv'
<1>1. RunTyped /\ node \in [Nodes -> Node]
  BY DEF Inv, RunInv, AuditInv, AuditTyped
<1>2. CASE \E k \in Kinds : RunStep(n, k)
  <2>1. UNCHANGED <<mail, post, late, node>>
    BY <1>2 DEF RunStep, ClaimSlot, RunTask, FindLatest, refresh_system_runtime_success, insert_typed_task_record, CompleteSlot,
                run_background_task_dispatch_iteration, mails
  <2> QED BY <1>1, <1>2, <2>1, RunsStay, DrainStays DEF Draining
<1>3. CASE LeaseStep(n) \/ AuditStep(n) \/ query_audit(n) \/ AuditedRequest(n)
  <2>1. UNCHANGED <<mail, post, late, run>>
    BY <1>3 DEF LeaseStep, AcquireLease, RenewLease, AuditStep, DelayedFlush, write_audit_batch, flush_global_audit_log_manager,
                find_with_filters_cursor, query_audit, AuditedRequest, mails, runs
  <2>2. \A o \in Nodes : node'[o].at = node[o].at
    BY <1>1, <1>3 DEF LeaseStep, AcquireLease, RenewLease, AuditStep, DelayedFlush, write_audit_batch,
                flush_global_audit_log_manager, find_with_filters_cursor, query_audit, AuditedRequest, Node
  <2> QED BY <2>1, <2>2, SameLoad, DrainStays DEF Draining, Dispatching
<1>4. CASE ShutdownTasks(n)
  <2>1. UNCHANGED <<mail, post, late, run>> /\ node[n].at = "tasks" /\ node' = [node EXCEPT ![n].at = "drain"]
    BY <1>4 DEF ShutdownTasks, To, mails, runs
  <2>2. ~ Busy(n) BY <1>4 DEF ShutdownTasks, DrainInv, BusyInv, Dispatching, Draining
  <2>3. \A o \in Nodes : o # n => node'[o] = node[o] BY <2>1, <1>1
  <2> QED BY <2>1, <2>2, <2>3, SameLoad, DrainStays DEF Draining, Dispatching
<1>5. CASE \/ record_server_shutdown(n) \/ shutdown_global_audit_log_manager(n) \/ CloseDatabase(n)
           \/ record_server_start(n) \/ StopNode(n)
  <2>1. UNCHANGED <<mail, post, late, run>>
    BY <1>5 DEF record_server_shutdown, shutdown_global_audit_log_manager, CloseDatabase, record_server_start, StopNode, mails, runs
  <2>2. /\ \A o \in Nodes : o # n => node'[o] = node[o]
        /\ node[n].at # "drain" /\ node'[n].at # "drain"
    BY <1>1, <1>5 DEF record_server_shutdown, shutdown_global_audit_log_manager, CloseDatabase, record_server_start, StopNode, To, Up, Node
  <2> QED BY <2>1, <2>2, SameLoad, DrainStays DEF Draining, Dispatching
<1> QED BY <1>2, <1>3, <1>4, <1>5 DEF StopStep

\* A batch that claims nothing finds no mail untried.
LEMMA DispatchDrains ==
    ASSUME Inv, Inv', load' = load, DrainInv, NEW n \in Nodes, dispatch_due(n)
    PROVE  DrainInv'
<1>1. IsFiniteSet(Mails) /\ load.mail_batch \in Nat \ {0} /\ Mails' = Mails
  <2>1. Mails \subseteq 1 .. MaxMails /\ MaxMails \in Nat /\ load.mail_batch \in Nat \ {0}
    BY LoadType, RuntimeAssumption DEF Inv, Loaded
  <2>2. IsFiniteSet(1 .. MaxMails) BY <2>1, FS_Interval
  <2> QED BY <2>1, <2>2, FS_Subset, SameLoad
<1>2. PICK due : due = {m \in Mails : Claimable(m)} OBVIOUS
<1>3. PICK P \in SUBSET due :
         /\ IF Cardinality(due) <= load.mail_batch THEN P = due ELSE Cardinality(P) = load.mail_batch
         /\ post' = [post EXCEPT ![n] = [at |-> "deliver", todo |-> {<<m, "">> : m \in P},
                                         claimed |-> Cardinality(P), rounds |-> @.rounds + 1]]
         /\ mail' = [m \in Mails |-> IF m \in P THEN [mail[m] EXCEPT !.status = "processing", !.stale = FALSE] ELSE mail[m]]
  BY <1>2 DEF dispatch_due
<1>4. node' = node /\ run' = run /\ late' = [late EXCEPT ![n] = {}]
  BY DEF dispatch_due, runs
<1>5. DrainTyped'
  BY <1>1, <1>4 DEF Inv, MailInv, MailTyped, DrainInv, DrainTyped
<1>6. Draining(n) \/ Dispatching(n)
  BY DEF dispatch_due, Dispatching
<1>7. \A m \in Untried' : m \in Untried /\ m \notin P /\ mail'[m] = mail[m]
  BY <1>1, <1>3 DEF Untried, DrainInv, DrainTyped, MailRow
<1>8. post'[n].claimed = Cardinality(P) /\ late'[n] = {}
  BY <1>3, <1>4 DEF DrainInv, DrainTyped
<1>9. ASSUME post'[n].claimed = 0 PROVE Untried' = {}
  <2>1. P = {}
    <3>1. IsFiniteSet(P)
      <4>1. P \subseteq Mails BY <1>2
      <4> QED BY <1>1, <4>1, FS_Subset
    <3> QED BY <3>1, <1>8, <1>9, FS_EmptySet
  <2>2. due = {} BY <1>1, <1>3, <1>8, <1>9, <2>1
  <2>3. ASSUME NEW m \in Untried' PROVE FALSE
    <3>1. m \in Mails /\ mail[m].status = "pending" /\ mail[m].due
      BY <1>7, <2>3 DEF Untried, DrainInv, DueInv
    <3>2. m \in due BY <3>1, <1>2 DEF Claimable
    <3> QED BY <2>2, <3>2
  <2> QED BY <2>3
<1>10. \A m \in Untried' : mail'[m].due
  BY <1>7 DEF DrainInv, DueInv
<1>11. \A o \in Nodes \ {n} : /\ post'[o] = post[o] /\ node'[o] = node[o]
                              /\ Dispatching(o) => Dispatching(o)'
                              /\ late'[o] = late[o]
  BY <1>3, <1>4, SameLoad DEF DrainInv, DrainTyped, Dispatching
<1>12. Draining(n)' \/ Dispatching(n)'
  BY <1>4, <1>6, SameLoad DEF Draining, Dispatching
<1> QED BY <1>5, <1>7, <1>9, <1>10, <1>11, <1>12, DrainMoves

\* While a batch is delivered, the node remembers what it claimed.
LEMMA DeliverDrains ==
    ASSUME Inv, Inv', load' = load, DrainInv, NEW n \in Nodes, NEW m \in Mails, deliver_one(n, m) \/ MarkMail(n, m) \/ LogMail(n, m)
    PROVE  DrainInv'
<1>1. Mails' = Mails /\ node' = node /\ run' = run /\ late' = late
  BY SameLoad DEF deliver_one, MarkMail, LogMail, runs
<1>2. DrainTyped'
  BY <1>1 DEF Inv, MailInv, MailTyped, DrainInv, DrainTyped
<1>3. PICK q : q = post[n] OBVIOUS
<1>4. q \in Post /\ q.at \in {"deliver", "mark", "log"}
  BY <1>3 DEF DrainInv, DrainTyped, deliver_one, MarkMail, LogMail
<1>5. PICK p : /\ post' = [post EXCEPT ![n] = p] /\ p.claimed = q.claimed
               /\ p.at \in {"deliver", "mark", "log"}
  <2>1. CASE deliver_one(n, m)
    <3>1. PICK r \in {"sent", "error"} : post' = [post EXCEPT ![n] = [@ EXCEPT !.at = "mark", !.todo = Answered(n, m, r)]]
      BY <2>1 DEF deliver_one
    <3>2. PICK p : p = [q EXCEPT !.at = "mark", !.todo = Answered(n, m, r)] OBVIOUS
    <3>3. p.claimed = q.claimed /\ p.at = "mark" BY <1>4, <3>2 DEF Post
    <3> QED BY <1>3, <3>1, <3>2, <3>3
  <2>2. CASE MarkMail(n, m)
    <3>0. PICK a \in {"log", "deliver"} : \E t : post' = [post EXCEPT ![n].at = a, ![n].todo = t]
      BY <2>2 DEF MarkMail
    <3>1. PICK t : post' = [post EXCEPT ![n].at = a, ![n].todo = t] BY <3>0
    <3>2. PICK p : p = [q EXCEPT !.at = a, !.todo = t] OBVIOUS
    <3>3. p.claimed = q.claimed /\ p.at = a BY <1>4, <3>2 DEF Post
    <3>4. post' = [post EXCEPT ![n] = p] BY <1>3, <3>1, <3>2 DEF DrainInv, DrainTyped
    <3> QED BY <3>3, <3>4
  <2>3. CASE LogMail(n, m)
    <3>1. PICK t : post' = [post EXCEPT ![n].at = "deliver", ![n].todo = t]
      BY <2>3 DEF LogMail
    <3>2. PICK p : p = [q EXCEPT !.at = "deliver", !.todo = t] OBVIOUS
    <3>3. p.claimed = q.claimed /\ p.at = "deliver" BY <1>4, <3>2 DEF Post
    <3>4. post' = [post EXCEPT ![n] = p] BY <1>3, <3>1, <3>2 DEF DrainInv, DrainTyped
    <3> QED BY <3>3, <3>4
  <2> QED BY <2>1, <2>2, <2>3
<1>6. /\ post'[n] = p /\ \A o \in Nodes \ {n} : post'[o] = post[o]
  BY <1>5 DEF DrainInv, DrainTyped
<1>7. \A x \in Mails : mail'[x].status = "pending" => mail'[x] = mail[x]
  <2>1. CASE mail' = mail BY <2>1
  <2>2. CASE MarkMail(n, m)
    <3>1. \/ mail' = [mail EXCEPT ![m] = mail[m]]
          \/ mail' = [mail EXCEPT ![m] = AfterSent(mail[m])]
          \/ mail' = [mail EXCEPT ![m] = AfterError(mail[m])]
      BY <2>2 DEF MarkMail
    <3>2. AfterSent(mail[m]).status # "pending" /\ AfterError(mail[m]).status # "pending"
      BY DEF AfterSent, AfterError, DrainInv, DrainTyped, MailRow
    <3> QED BY <3>1, <3>2 DEF DrainInv, DrainTyped
  <2> QED BY <2>1, <2>2 DEF deliver_one, LogMail
<1>8. Untried' \subseteq Untried /\ \A x \in Untried' : mail'[x].due
  BY <1>1, <1>7 DEF Untried, DrainInv, DueInv
<1>9. Busy(n) /\ post'[n].claimed = post[n].claimed
  BY <1>3, <1>4, <1>5, <1>6 DEF Busy
<1>10. /\ \A o \in Nodes : (Draining(o)' <=> Draining(o)) /\ (Dispatching(o)' <=> Dispatching(o))
  BY <1>1, SameLoad DEF Draining, Dispatching
<1>11. Draining(n)' \/ Dispatching(n)'
  BY <1>9, <1>10 DEF DrainInv, BusyInv
<1>12. Draining(n)' /\ post'[n].claimed = 0 => Untried' \subseteq late'[n]
  BY <1>1, <1>8, <1>9, <1>10 DEF DrainInv, LastBatchInv
<1> QED BY <1>1, <1>2, <1>6, <1>8, <1>10, <1>11, <1>12, DrainMoves

\* The work at the outbox ends: with the run of the task, with the drain, or in a crash.
LEMMA EndDrains ==
    ASSUME Inv, Inv', load' = load, DrainInv, NEW n \in Nodes, run_mail_outbox_dispatch(n) \/ drain_with(n) \/ Crash(n)
    PROVE  DrainInv'
<1>1. Mails' = Mails /\ mail' = mail /\ late' = late
  BY SameLoad DEF run_mail_outbox_dispatch, drain_with, Crash
<1>2. DrainTyped'
  BY <1>1 DEF Inv, MailInv, MailTyped, DrainInv, DrainTyped
<1>3. ~ Busy(n)' /\ \A o \in Nodes \ {n} : post'[o] = post[o]
  BY DEF run_mail_outbox_dispatch, drain_with, Crash, Busy, Still, DrainInv, DrainTyped, Post
<1>4. \A o \in Nodes \ {n} : node'[o] = node[o]
  BY DEF run_mail_outbox_dispatch, drain_with, Crash, To, Inv, AuditInv, AuditTyped
<1>5. \A o \in Nodes \ {n} : Dispatching(o) => Dispatching(o)'
  <2> SUFFICES ASSUME NEW o \in Nodes \ {n}, MailKind \in Kinds PROVE run'[<<o, MailKind>>] = run[<<o, MailKind>>]
    BY SameLoad DEF Dispatching
  <2>1. run \in [Nodes \X Kinds -> Run] /\ <<o, MailKind>> \in Nodes \X Kinds /\ <<o, MailKind>> # <<n, MailKind>>
    BY DEF Inv, RunInv, RunTyped
  <2>2. CASE run_mail_outbox_dispatch(n)
    <3>1. \E r : run' = [run EXCEPT ![<<n, MailKind>>] = r]
      BY <2>2 DEF run_mail_outbox_dispatch, EndWork
    <3> QED BY <2>1, <3>1
  <2>3. CASE drain_with(n) BY <2>3 DEF drain_with, runs
  <2>4. CASE Crash(n) BY <2>1, <2>4 DEF Crash
  <2> QED BY <2>2, <2>3, <2>4
<1>6. Untried' = Untried /\ \A m \in Untried' : mail'[m].due
  BY <1>1 DEF Untried, DrainInv, DueInv
<1> QED BY <1>1, <1>2, <1>3, <1>4, <1>5, <1>6, DrainMoves

\* The mails change by themselves: only a queued one is untried, and a node that drains takes note.
LEMMA MailDrains ==
    ASSUME Inv, Inv', load' = load, DrainInv, NEW m \in Mails, enqueue(m) \/ MailFallsDue(m) \/ MailGoesStale(m)
    PROVE  DrainInv'
<1>1. Mails' = Mails /\ node' = node /\ run' = run /\ post' = post
  BY SameLoad DEF enqueue, MailFallsDue, MailGoesStale, runs
<1>2. /\ \A n \in Nodes : late'[n] \in SUBSET Mails /\ late[n] \subseteq late'[n]
      /\ late' \in [Nodes -> SUBSET Mails]
  BY DEF enqueue, MailFallsDue, MailGoesStale, DrainInv, DrainTyped
<1>3. DrainTyped'
  BY <1>1, <1>2 DEF Inv, MailInv, MailTyped, DrainTyped
<1>4. \A n \in Nodes : (Busy(n)' <=> Busy(n)) /\ (Draining(n)' <=> Draining(n)) /\ (Dispatching(n)' <=> Dispatching(n))
  BY <1>1, SameLoad DEF Busy, Draining, Dispatching
<1>5. CASE enqueue(m)
  <2>1. mail' = [mail EXCEPT ![m] = [@ EXCEPT !.status = "pending", !.due = TRUE]]
    BY <1>5 DEF enqueue
  <2>2. mail'[m].due /\ \A x \in Mails \ {m} : mail'[x] = mail[x]
    BY <2>1 DEF DrainInv, DrainTyped, MailRow
  <2>3. Untried' \subseteq Untried \cup {m} /\ DueInv'
    BY <1>1, <2>2 DEF Untried, DrainInv, DueInv
  <2>4. \A n \in Nodes : Draining(n) => m \in late'[n] BY <1>5 DEF enqueue
  <2>5. LastBatchInv'
    <3> SUFFICES ASSUME NEW n \in Nodes, Draining(n)', Busy(n)', post'[n].claimed = 0 PROVE Untried' \subseteq late'[n]
      BY DEF LastBatchInv
    <3>1. Untried \subseteq late[n] BY <1>1, <1>4 DEF DrainInv, LastBatchInv
    <3> QED BY <1>2, <1>4, <2>3, <2>4, <3>1
  <2> QED BY <1>3, <1>4, <2>3, <2>5 DEF DrainInv, BusyInv
<1>6. CASE MailFallsDue(m) \/ MailGoesStale(m)
  <2>1. \A x \in Mails : mail'[x].status = mail[x].status /\ (mail[x].due => mail'[x].due)
    BY <1>6 DEF MailFallsDue, MailGoesStale, DrainInv, DrainTyped, MailRow
  <2>2. Untried' = Untried /\ DueInv' BY <1>1, <2>1 DEF Untried, DrainInv, DueInv
  <2>3. late' = late BY <1>6 DEF MailFallsDue, MailGoesStale
  <2>4. LastBatchInv' BY <1>1, <1>4, <2>2, <2>3 DEF DrainInv, LastBatchInv
  <2> QED BY <1>3, <1>4, <2>2, <2>4 DEF DrainInv, BusyInv
<1> QED BY <1>5, <1>6

\* Every step keeps what is known of the drain.
LEMMA DrainKeeps ==
    ASSUME Inv, Inv', DrainInv, Next
    PROVE  DrainInv'
<1>0. load' = load
  BY DEF Next
<1>1. ASSUME NEW n \in Nodes,
             \/ \E k \in Kinds : RunStep(n, k)
             \/ LeaseStep(n) \/ AuditStep(n) \/ (StopStep(n) /\ ~ drain_with(n))
             \/ record_server_start(n) \/ StopNode(n) \/ query_audit(n) \/ AuditedRequest(n)
      PROVE  DrainInv'
  BY <1>0, <1>1, DrainOthers
<1>2. ASSUME NEW n \in Nodes, MailStep(n) \/ drain_with(n) \/ Crash(n)
      PROVE  DrainInv'
  BY <1>0, <1>2, DispatchDrains, DeliverDrains, EndDrains DEF MailStep
<1>3. ASSUME NEW m \in Mails, enqueue(m) \/ MailFallsDue(m) \/ MailGoesStale(m)
      PROVE  DrainInv'
  BY <1>0, <1>3, MailDrains
<1>4. CASE LeaseExpires \/ (\E k \in Kinds : ClaimExpires(k)) \/ (\E i \in DOMAIN record : CleanupRecord(i))
  <2>1. UNCHANGED <<mail, post, late, node, run>>
    BY <1>4 DEF LeaseExpires, ClaimExpires, CleanupRecord, mails
  <2> QED BY <1>0, <2>1, SameLoad, DrainStays DEF Draining, Dispatching
<1> QED BY <1>1, <1>2, <1>3, <1>4 DEF Next, Step, Expires

LEMMA DrainInit == Init => DrainInv
<1> SUFFICES ASSUME Init PROVE DrainInv
  OBVIOUS
<1>1. DrainTyped
  BY InitInv DEF Inv, MailInv, MailTyped, DrainTyped, Init
<1>2. Untried = {} /\ \A n \in Nodes : ~ Busy(n)
  BY DEF Init, Untried, Busy, Still
<1> QED BY <1>1, <1>2 DEF DrainInv, BusyInv, DueInv, LastBatchInv

LEMMA DrainStutters == DrainInv /\ UNCHANGED vars => DrainInv'
<1> SUFFICES ASSUME DrainInv, UNCHANGED vars PROVE DrainInv'
  OBVIOUS
<1>1. load' = load /\ UNCHANGED <<mail, post, late, node, run>>
  BY DEF vars
<1> QED BY <1>1, SameLoad, DrainStays DEF Draining, Dispatching

\* A drain ends in one of three ways.
DrainEnds(n) ==
    Draining(n) /\ node'[n].at = "audit" =>
        \/ {m \in Mails : mail[m].status = "pending"} \subseteq late[n]
        \/ post'[n].at = "broken"
        \/ post[n].claimed > 0 /\ post[n].rounds >= load.rounds

LEMMA DrainStep == Inv /\ DrainInv /\ [Next]_vars => \A n \in Nodes : DrainEnds(n)
<1> SUFFICES ASSUME Inv, DrainInv, [Next]_vars, NEW n \in Nodes, Draining(n), node'[n].at = "audit"
             PROVE  \/ Untried \subseteq late[n]
                    \/ post'[n].at = "broken"
                    \/ post[n].claimed > 0 /\ post[n].rounds >= load.rounds
  BY DEF DrainEnds, Untried
<1>1. node \in [Nodes -> Node] /\ node[n].at = "drain" /\ node'[n] # node[n]
  BY DEF Inv, AuditInv, AuditTyped, Draining
<1>2. CASE drain_with(n)
  <2>1. CASE post[n].at = "deliver" /\ (post[n].claimed = 0 \/ post[n].rounds >= load.rounds)
    <3>1. post[n].claimed \in Nat /\ Busy(n) BY <2>1 DEF DrainInv, DrainTyped, Post, Busy
    <3>2. post[n].claimed = 0 => Untried \subseteq late[n]
      BY <3>1 DEF DrainInv, LastBatchInv
    <3> QED BY <2>1, <3>1, <3>2
  <2>2. CASE post' = [post EXCEPT ![n] = [Still EXCEPT !.at = "broken"]]
    BY <2>2 DEF DrainInv, DrainTyped, Still
  <2> QED BY <1>1, <1>2, <2>1, <2>2 DEF drain_with, Draining
<1>3. CASE UNCHANGED node
  BY <1>1, <1>3
<1>4. ASSUME NEW o \in Nodes,
             \/ LeaseStep(o) \/ (StopStep(o) /\ ~ drain_with(o)) \/ record_server_start(o) \/ StopNode(o) \/ Crash(o)
      PROVE  FALSE
  <2>1. PICK r : node' = [node EXCEPT ![o] = r] \/ node' = node
    BY <1>4 DEF LeaseStep, AcquireLease, RenewLease, StopStep, ShutdownTasks, record_server_shutdown,
                shutdown_global_audit_log_manager, CloseDatabase, record_server_start, StopNode, Crash, To
  <2>2. o = n BY <1>1, <2>1
  <2>3. CASE LeaseStep(n) BY <1>1, <2>3 DEF LeaseStep, AcquireLease, RenewLease, Up
  <2>4. CASE StopStep(n) /\ ~ drain_with(n)
    BY <1>1, <2>4 DEF StopStep, ShutdownTasks, record_server_shutdown, shutdown_global_audit_log_manager, CloseDatabase
  <2>5. CASE record_server_start(n) \/ StopNode(n)
    BY <1>1, <2>5 DEF record_server_start, StopNode, Up
  <2>6. CASE Crash(n) BY <1>1, <2>6 DEF Crash
  <2> QED BY <1>4, <2>2, <2>3, <2>4, <2>5, <2>6
<1>5. ASSUME NEW o \in Nodes, drain_with(o), o # n PROVE FALSE
  BY <1>1, <1>5 DEF drain_with, To
<1>6. ASSUME NEW o \in Nodes,
             \/ \E k \in Kinds : RunStep(o, k)
             \/ MailStep(o) \/ AuditStep(o) \/ query_audit(o) \/ AuditedRequest(o)
      PROVE  node' = node
  <2>1. CASE \E k \in Kinds : RunStep(o, k)
    BY <2>1 DEF RunStep, ClaimSlot, RunTask, FindLatest, refresh_system_runtime_success, insert_typed_task_record, CompleteSlot,
                run_background_task_dispatch_iteration
  <2>2. CASE MailStep(o)
    BY <2>2 DEF MailStep, dispatch_due, deliver_one, MarkMail, LogMail, run_mail_outbox_dispatch
  <2>3. CASE AuditStep(o) \/ query_audit(o) \/ AuditedRequest(o)
    BY <2>3 DEF AuditStep, DelayedFlush, write_audit_batch, flush_global_audit_log_manager, find_with_filters_cursor,
                query_audit, AuditedRequest
  <2> QED BY <1>6, <2>1, <2>2, <2>3
<1>7. CASE \/ \E m \in Mails : enqueue(m) \/ MailFallsDue(m) \/ MailGoesStale(m)
           \/ LeaseExpires \/ (\E k \in Kinds : ClaimExpires(k)) \/ (\E i \in DOMAIN record : CleanupRecord(i))
  <2>1. node' = node
    BY <1>7 DEF enqueue, MailFallsDue, MailGoesStale, LeaseExpires, ClaimExpires, CleanupRecord
  <2> QED BY <1>3, <2>1
<1>8. CASE UNCHANGED vars
  BY <1>3, <1>8 DEF vars
<1>9. ASSUME NEW o \in Nodes, drain_with(o) PROVE o = n
  BY <1>5, <1>9
<1> QED BY <1>2, <1>3, <1>4, <1>6, <1>7, <1>8, <1>9 DEF Next, Step, Expires

\* The drain of a shutdown leaves no mail untried but what other nodes enqueued after its last batch,
\* unless a batch failed or the rounds were used up on mails, for any number of nodes and mails, whoever
\* crashes or drains at the same time.
THEOREM DrainsLeaveNothing == Spec => DrainLeavesNothing
<1>1. Inv /\ Inv' /\ DrainInv /\ [Next]_vars => DrainInv'
  BY DrainKeeps, DrainStutters
<1>2. Spec => []DrainInv
  BY <1>1, Invariant, DrainInit, PTL DEF Spec
<1>3. Spec => [][\A n \in Nodes : DrainEnds(n)]_vars
  BY <1>2, Invariant, DrainStep, PTL DEF Spec
<1> QED BY <1>3 DEF DrainLeavesNothing, DrainEnds
===============================================================================
