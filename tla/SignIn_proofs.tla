----------------------------- MODULE SignIn_proofs -----------------------------
(***************************************************************************)
(* Proofs about signing in and what comes of it: AuthSession, for any      *)
(* number of users, requests, tokens and sessions, and Challenges, for     *)
(* every workload of requests, users, passkeys and captchas.               *)
(***************************************************************************)
EXTENDS AuthSession, Challenges, FiniteSetTheorems, TLAPS

-----------------------------------------------------------------------------
(* Sessions: types and the lemmas about the operators                      *)

\* What a handler holds after find_by_id: a well-typed job about that user.
LEMMA ReadUserType ==
    ASSUME TypeOK, NEW u \in Users, NEW at \in Label
    PROVE  /\ ReadUser(at, u) \in Job
           /\ ReadUser(at, u).at = at
           /\ ReadUser(at, u).user = u
           /\ ReadUser(at, u).ver = users[u].ver
           /\ ReadUser(at, u).must = users[u].mustChange
           /\ ReadUser(at, u).seen = epoch[u]
           /\ ReadUser(at, u).input = NoInput
  BY DEF TypeOK, ReadUser, IdleJob, Job, UserRow, AdminInput, NoInput

\* An idle request is well typed.
LEMMA IdleJobType == IdleJob \in Job /\ IdleJob.at = "idle"
  BY DEF IdleJob, Job, Label, AdminInput, NoInput

\* The bulk revocation and the cascade of a user keep the sessions table typed.
LEMMA RevokeType ==
    ASSUME TypeOK, NEW u \in Users
    PROVE  /\ RevokeSessionsForUser(u) \in [Sid -> SessionRow \cup {NULL}]
           /\ CascadeDelete(u) \in [Sid -> SessionRow \cup {NULL}]
  BY DEF TypeOK, RevokeSessionsForUser, CascadeDelete, SessionRow

\* Column updates of a row keep its type.
LEMMA RowUpdates ==
    /\ \A r \in UserRow, v \in Nat, m, a \in BOOLEAN :
         /\ [r EXCEPT !.ver = v, !.mustChange = m] \in UserRow
         /\ [r EXCEPT !.active = a, !.mustChange = m, !.ver = v] \in UserRow
    /\ \A r \in SessionRow, j \in Jti, k \in Jti \cup {NULL}, e \in BOOLEAN :
         [r EXCEPT !.cur = j, !.prev = k, !.expired = e] \in SessionRow
    /\ \A r \in Job, s \in Sid \cup {NULL}, j \in Jti \cup {NULL} :
         /\ [r EXCEPT !.sid = s, !.jti = j] \in Job
         /\ [r EXCEPT !.sid = s, !.jti = j].user = r.user
<1>1. ASSUME NEW r \in UserRow, NEW v \in Nat, NEW m \in BOOLEAN, NEW a \in BOOLEAN
      PROVE /\ [r EXCEPT !.ver = v, !.mustChange = m] \in UserRow
            /\ [r EXCEPT !.active = a, !.mustChange = m, !.ver = v] \in UserRow
  BY <1>1 DEF UserRow
<1>2. ASSUME NEW r \in SessionRow, NEW j \in Jti, NEW k \in Jti \cup {NULL},
             NEW e \in BOOLEAN
      PROVE [r EXCEPT !.cur = j, !.prev = k, !.expired = e] \in SessionRow
  BY <1>2 DEF SessionRow
<1>3. ASSUME NEW r \in Job, NEW s \in Sid \cup {NULL}, NEW j \in Jti \cup {NULL}
      PROVE /\ [r EXCEPT !.sid = s, !.jti = j] \in Job
            /\ [r EXCEPT !.sid = s, !.jti = j].user = r.user
  BY <1>3 DEF Job
<1> QED BY <1>1, <1>2, <1>3

\* update_admin's write keeps the user row typed.
LEMMA AdminEditType ==
    ASSUME NEW r \in UserRow, NEW input \in AdminInput, NEW v \in Nat
    PROVE  AdminEdit(r, input, v) \in UserRow
<1> DEFINE a == IF input.status = "keep" THEN r.active ELSE input.status = "active"
           m == IF input.must = "keep" THEN r.mustChange ELSE input.must = "set"
           w == IF BumpsVersion(input) THEN v + 1 ELSE r.ver
<1>1. r.exists \in BOOLEAN /\ r.active \in BOOLEAN /\ r.mustChange \in BOOLEAN
      /\ r.ver \in Nat
  BY DEF UserRow
<1>2. a \in BOOLEAN /\ m \in BOOLEAN
  BY <1>1, Zenon
<1>3. w \in Nat
  BY <1>1
<1>4. AdminEdit(r, input, v) = [exists |-> r.exists, active |-> a, mustChange |-> m, ver |-> w]
  BY DEF AdminEdit
<1> HIDE DEF a, m, w
<1> QED BY <1>1, <1>2, <1>3, <1>4 DEF UserRow

\* The initial tables and jobs are well typed.
LEMMA TypeInit == Init => TypeOK
  BY IdleJobType DEF Init, TypeOK, UserRow

\* Ending a request keeps the jobs well typed.
LEMMA FinishType ==
    ASSUME TypeOK, NEW p \in Proc, Finish(p)
    PROVE  /\ job' \in [Proc -> Job]
           /\ \A q \in Proc : job'[q].at # "idle" => job'[q].user \in Users
  BY IdleJobType DEF TypeOK, Finish

\* Starting or continuing a request with a well-typed job.
LEMMA JobType ==
    ASSUME TypeOK, NEW p \in Proc, NEW k \in Job, k.at # "idle" => k.user \in Users,
           job' = [job EXCEPT ![p] = k]
    PROVE  /\ job' \in [Proc -> Job]
           /\ \A q \in Proc : job'[q].at # "idle" => job'[q].user \in Users
  BY DEF TypeOK

\* Every step of a request keeps the types.
LEMMA TypeRequest ==
    ASSUME TypeOK, NEW p \in Proc, Request(p)
    PROVE  TypeOK'
<1> USE IdleJobType
<1>1. ASSUME NEW u \in Users, LoginRead(p, u) PROVE TypeOK'
  BY <1>1, ReadUserType, JobType DEF LoginRead, TypeOK, Label
<1>2. CASE IssueTokens(p)
  <2>1. PICK j \in FreshJti, s \in FreshSid :
          /\ tokens' = [tokens EXCEPT ![j] =
                        [user |-> job[p].user, ver |-> job[p].ver,
                         pc |-> job[p].must, sid |-> s, parent |-> NULL,
                         seen |-> job[p].seen]]
          /\ sessions' = [sessions EXCEPT ![s] =
                        [user |-> job[p].user, cur |-> j, prev |-> NULL,
                         expired |-> FALSE, revoked |-> FALSE]]
    BY <1>2 DEF IssueTokens
  <2>2. job[p].user \in Users /\ job[p] \in Job BY <1>2 DEF IssueTokens, TypeOK
  <2>3. tokens' \in [Jti -> Token \cup {NULL}]
    BY <2>1, <2>2 DEF TypeOK, Token, Job, FreshJti, FreshSid
  <2>4. sessions' \in [Sid -> SessionRow \cup {NULL}]
    BY <2>1, <2>2 DEF TypeOK, SessionRow, FreshJti, FreshSid
  <2> QED BY <1>2, <2>3, <2>4, FinishType DEF IssueTokens, TypeOK
<1>3. CASE IssueFails(p)
  BY <1>3, FinishType DEF IssueFails, TypeOK
<1>4. CASE ReissueRead(p)
  <2>1. job[p].user \in Users BY <1>4 DEF ReissueRead, TypeOK
  <2> QED BY <1>4, <2>1, ReadUserType, JobType DEF ReissueRead, TypeOK, Label
<1>5. ASSUME NEW j \in Jti, RefreshReadSession(p, j) PROVE TypeOK'
  <2>1. PICK s \in Sid : job' = [job EXCEPT ![p] = [IdleJob EXCEPT !.at = "refresh",
                        !.user = tokens[j].user, !.sid = s, !.jti = j]]
    BY <1>5 DEF RefreshReadSession
  <2>2. tokens[j].user \in Users BY <1>5 DEF RefreshReadSession, TypeOK, Token
  <2>3. /\ [IdleJob EXCEPT !.at = "refresh", !.user = tokens[j].user,
                           !.sid = s, !.jti = j] \in Job
        /\ [IdleJob EXCEPT !.at = "refresh", !.user = tokens[j].user,
                           !.sid = s, !.jti = j].user \in Users
    BY <2>2 DEF IdleJob, Job, Label
  <2> QED BY <1>5, <2>1, <2>3, JobType DEF RefreshReadSession, TypeOK
<1>6. CASE RefreshReadUser(p)
  <2> DEFINE k == [ReadUser("rotate", job[p].user) EXCEPT !.sid = job[p].sid,
                                                          !.jti = job[p].jti]
  <2>1. job[p].user \in Users /\ job[p] \in Job BY <1>6 DEF RefreshReadUser, TypeOK
  <2>2. job[p].sid \in Sid \cup {NULL} /\ job[p].jti \in Jti \cup {NULL} BY <2>1 DEF Job
  <2>3. ReadUser("rotate", job[p].user) \in Job /\ ReadUser("rotate", job[p].user).user \in Users
    BY <2>1, ReadUserType DEF Label
  <2>4. k \in Job /\ k.user \in Users BY <2>2, <2>3, RowUpdates
  <2> QED BY <1>6, <2>1, <2>4, JobType DEF RefreshReadUser, TypeOK
<1>7. CASE RotateTokens(p)
  <2>1. PICK s \in Sid, j \in FreshJti :
        /\ RotateMatches(s, job[p].jti)
        /\ sessions' = [sessions EXCEPT ![s] =
               [@ EXCEPT !.cur = j, !.prev = job[p].jti, !.expired = FALSE]]
        /\ tokens' = [tokens EXCEPT ![j] =
                        [user |-> job[p].user, ver |-> job[p].ver,
                         pc |-> FALSE, sid |-> s, parent |-> job[p].jti,
                         seen |-> job[p].seen]]
    BY <1>7 DEF RotateTokens
  <2>2. job[p].user \in Users /\ job[p] \in Job BY <1>7 DEF RotateTokens, TypeOK
  <2>3. tokens' \in [Jti -> Token \cup {NULL}]
    BY <2>1, <2>2 DEF TypeOK, Token, Job, FreshJti
  <2>4. sessions[s] \in SessionRow /\ j \in Jti
    BY <2>1 DEF TypeOK, RotateMatches, FreshJti
  <2>5. job[p].jti \in Jti \cup {NULL} BY <2>2 DEF Job
  <2>6. [sessions[s] EXCEPT !.cur = j, !.prev = job[p].jti, !.expired = FALSE] \in SessionRow
    BY <2>4, <2>5, RowUpdates
  <2>7. sessions' \in [Sid -> SessionRow \cup {NULL}] BY <2>1, <2>6 DEF TypeOK
  <2> QED BY <1>7, <2>3, <2>7, FinishType DEF RotateTokens, TypeOK
<1>8. CASE RotateLost(p)
  BY <1>8, FinishType DEF RotateLost, TypeOK
<1>9. ASSUME NEW j \in Jti, OthersRead(p, j) PROVE TypeOK'
  <2>1. PICK s \in Sid : job' = [job EXCEPT ![p] = [IdleJob EXCEPT !.at = "others",
                        !.user = tokens[j].user, !.sid = s]]
    BY <1>9 DEF OthersRead
  <2>2. tokens[j].user \in Users BY <1>9 DEF OthersRead, TypeOK, Token
  <2>3. /\ [IdleJob EXCEPT !.at = "others", !.user = tokens[j].user, !.sid = s] \in Job
        /\ [IdleJob EXCEPT !.at = "others", !.user = tokens[j].user, !.sid = s].user \in Users
    BY <2>2 DEF IdleJob, Job, Label
  <2> QED BY <1>9, <2>1, <2>3, JobType DEF OthersRead, TypeOK
<1>10. CASE OthersRevoke(p)
  <2>1. job[p].user \in Users BY <1>10 DEF OthersRevoke, TypeOK
  <2>2. sessions' \in [Sid -> SessionRow \cup {NULL}]
    BY <1>10, <2>1, RevokeType DEF OthersRevoke, TypeOK
  <2> QED BY <1>10, <2>2, FinishType DEF OthersRevoke, TypeOK
<1>11. ASSUME NEW u \in Users, NEW at \in {"password", "reset", "bump"}, BumpRead(p, u, at)
       PROVE TypeOK'
  BY <1>11, ReadUserType, JobType DEF BumpRead, TypeOK, Label
<1>12. CASE PasswordCommit(p)
  <2>1. job[p].user \in Users /\ job[p] \in Job BY <1>12 DEF PasswordCommit, TypeOK
  <2>2. /\ [IdleJob EXCEPT !.at = "reissue", !.user = job[p].user] \in Job
        /\ [IdleJob EXCEPT !.at = "reissue", !.user = job[p].user].user \in Users
    BY <2>1 DEF IdleJob, Job, Label
  <2>5. job[p].ver + 1 \in Nat /\ users[job[p].user] \in UserRow BY <2>1 DEF Job, TypeOK
  <2>6. [users[job[p].user] EXCEPT !.ver = job[p].ver + 1, !.mustChange = FALSE] \in UserRow
    BY <2>5, RowUpdates
  <2>3. users' \in [Users -> UserRow] /\ epoch' \in [Users -> Nat]
    BY <1>12, <2>1, <2>6 DEF PasswordCommit, TypeOK
  <2>4. sessions' \in [Sid -> SessionRow \cup {NULL}]
    BY <1>12, <2>1, RevokeType DEF PasswordCommit, TypeOK
  <2> QED BY <1>12, <2>2, <2>3, <2>4, JobType DEF PasswordCommit, TypeOK
<1>13. CASE BumpCommit(p)
  <2>1. job[p].user \in Users /\ job[p] \in Job BY <1>13 DEF BumpCommit, TypeOK
  <2>2. /\ [IdleJob EXCEPT !.at = "purge", !.user = job[p].user] \in Job
        /\ [IdleJob EXCEPT !.at = "purge", !.user = job[p].user].user \in Users
    BY <2>1 DEF IdleJob, Job, Label
  <2>3. users' \in [Users -> UserRow] /\ epoch' \in [Users -> Nat]
    BY <1>13, <2>1 DEF BumpCommit, TypeOK, UserRow, Job
  <2> QED BY <1>13, <2>2, <2>3, JobType DEF BumpCommit, TypeOK
<1>14. CASE BumpPurge(p)
  <2>1. job[p].user \in Users BY <1>14 DEF BumpPurge, TypeOK
  <2> QED BY <1>14, <2>1, RevokeType, FinishType DEF BumpPurge, TypeOK
<1>15. ASSUME NEW u \in Users, NEW input \in AdminInput, AdminRead(p, u, input)
       PROVE TypeOK'
  <2> DEFINE k == [ReadUser("admin", u) EXCEPT !.input = input]
  <2>1. k \in Job /\ k.user \in Users BY <1>15, ReadUserType DEF Job, Label
  <2> QED BY <1>15, <2>1, JobType DEF AdminRead, TypeOK
<1>16. CASE AdminCommit(p)
  <2>1. job[p].user \in Users /\ job[p] \in Job BY <1>16 DEF AdminCommit, TypeOK
  <2>3. /\ users[job[p].user] \in UserRow
        /\ job[p].ver \in Nat
        /\ job[p].input \in AdminInput
    BY <2>1 DEF TypeOK, Job
  <2>4. AdminEdit(users[job[p].user], job[p].input, job[p].ver) \in UserRow
    BY <2>3, AdminEditType
  <2>2. users' \in [Users -> UserRow] /\ epoch' \in [Users -> Nat]
    BY <1>16, <2>1, <2>4 DEF AdminCommit, TypeOK
  <2> QED BY <1>16, <2>2, FinishType DEF AdminCommit, TypeOK
<1>17. CASE CommitFails(p)
  BY <1>17, FinishType DEF CommitFails, TypeOK
<1>18. ASSUME NEW u \in Users, DeleteRevoke(p, u) PROVE TypeOK'
  <2>1. /\ [IdleJob EXCEPT !.at = "delete", !.user = u] \in Job
        /\ [IdleJob EXCEPT !.at = "delete", !.user = u].user \in Users
    BY <1>18 DEF IdleJob, Job, Label
  <2> QED BY <1>18, <2>1, RevokeType, JobType DEF DeleteRevoke, TypeOK
<1>19. CASE DeleteCommit(p)
  <2>1. job[p].user \in Users BY <1>19 DEF DeleteCommit, TypeOK
  <2>2. users' \in [Users -> UserRow] BY <1>19, <2>1 DEF DeleteCommit, TypeOK, UserRow
  <2> QED BY <1>19, <2>1, <2>2, RevokeType, FinishType DEF DeleteCommit, TypeOK
<1>20. CASE Crash(p)
  BY <1>20, FinishType DEF Crash, TypeOK
<1> QED BY <1>1, <1>2, <1>3, <1>4, <1>5, <1>6, <1>7, <1>8, <1>9, <1>10, <1>11, <1>12,
     <1>13, <1>14, <1>15, <1>16, <1>17, <1>18, <1>19, <1>20 DEF Request

\* Every step keeps the types.
LEMMA TypeNext == TypeOK /\ [Next]_vars => TypeOK'
<1> SUFFICES ASSUME TypeOK, [Next]_vars PROVE TypeOK'
  OBVIOUS
<1>1. ASSUME NEW p \in Proc, Request(p) PROVE TypeOK'
  BY <1>1, TypeRequest
<1>2. ASSUME NEW j \in Jti, Logout(j) PROVE TypeOK'
  BY <1>2 DEF Logout, RotateMatches, TypeOK, SessionRow
<1>3. ASSUME NEW s \in Sid, RevokeSession(s) \/ Expire(s) PROVE TypeOK'
  BY <1>3 DEF RevokeSession, Expire, TypeOK, SessionRow
<1>4. CASE Cleanup
  BY <1>4 DEF Cleanup, TypeOK
<1>5. CASE UNCHANGED vars
  BY <1>5 DEF vars, TypeOK
<1> QED BY <1>1, <1>2, <1>3, <1>4, <1>5 DEF Next

\* The tables, the tokens and the local state of every request keep their
\* types.
THEOREM TypeCorrect == Spec => []TypeOK
  BY TypeInit, TypeNext, PTL DEF Spec

----------------------------------------------------------------------------
(* Rotation: RowHeadsItsChain and RedeemedOnce                             *)

\* A step that only revokes, expires or deletes session rows.
QuietSessions ==
    \A s \in Sid :
        \/ sessions'[s] = NULL
        \/ /\ sessions[s] # NULL /\ sessions'[s] # NULL
           /\ sessions'[s].user = sessions[s].user
           /\ sessions'[s].cur = sessions[s].cur
           /\ sessions'[s].prev = sessions[s].prev
           /\ sessions[s].revoked => sessions'[s].revoked

\* The steps that do not hand out tokens.
Quiet == UNCHANGED tokens /\ QuietSessions

\* Bulk revocation and cascading deletion are quiet.
LEMMA QuietBulk ==
    ASSUME TypeOK, NEW u \in Users,
           \/ sessions' = RevokeSessionsForUser(u)
           \/ sessions' = CascadeDelete(u)
           \/ UNCHANGED sessions
    PROVE  QuietSessions
  BY AuthAssumption DEF TypeOK, QuietSessions, RevokeSessionsForUser, CascadeDelete, SessionRow

\* Only issue_tokens and rotate_tokens hand out tokens.
LEMMA QuietSteps ==
    ASSUME TypeOK, [Next]_vars,
           \A p \in Proc : ~IssueTokens(p) /\ ~RotateTokens(p)
    PROVE  Quiet
<1>0. ASSUME UNCHANGED <<sessions, tokens>> PROVE Quiet
  BY <1>0 DEF Quiet, QuietSessions
<1>1. ASSUME NEW p \in Proc, Request(p) PROVE Quiet
  <2>1. ASSUME job[p].at # "idle" PROVE job[p].user \in Users BY <2>1 DEF TypeOK
  <2>2. CASE OthersRevoke(p)
    BY <2>2, <2>1, AuthAssumption DEF OthersRevoke, RevokeSessionsForUser, TypeOK, SessionRow, Quiet, QuietSessions
  <2>3. CASE PasswordCommit(p) BY <2>3, <2>1, QuietBulk DEF PasswordCommit, Quiet
  <2>4. CASE BumpPurge(p) BY <2>4, <2>1, QuietBulk DEF BumpPurge, Quiet
  <2>5. ASSUME NEW u \in Users, DeleteRevoke(p, u) PROVE Quiet
    BY <2>5, QuietBulk DEF DeleteRevoke, Quiet
  <2>6. CASE DeleteCommit(p) BY <2>6, <2>1, QuietBulk DEF DeleteCommit, Quiet
  <2>7. ASSUME \/ \E u \in Users : LoginRead(p, u)
               \/ IssueFails(p) \/ ReissueRead(p)
               \/ \E j \in Jti : RefreshReadSession(p, j)
               \/ RefreshReadUser(p) \/ RotateLost(p)
               \/ \E j \in Jti : OthersRead(p, j)
               \/ \E u \in Users, at \in {"password", "reset", "bump"} : BumpRead(p, u, at)
               \/ BumpCommit(p)
               \/ \E u \in Users, input \in AdminInput : AdminRead(p, u, input)
               \/ AdminCommit(p) \/ CommitFails(p) \/ Crash(p)
        PROVE Quiet
    BY <2>7, <1>0 DEF LoginRead, IssueFails, ReissueRead, RefreshReadSession, RefreshReadUser,
         RotateLost, OthersRead, BumpRead, BumpCommit, AdminRead, AdminCommit, CommitFails, Crash
  <2> QED BY <1>1, <2>2, <2>3, <2>4, <2>5, <2>6, <2>7 DEF Request
<1>2. ASSUME NEW j \in Jti, Logout(j) PROVE Quiet
  BY <1>2, AuthAssumption DEF Logout, RotateMatches, TypeOK, SessionRow, Quiet, QuietSessions
<1>3. ASSUME NEW s \in Sid, RevokeSession(s) \/ Expire(s) PROVE Quiet
  BY <1>3, AuthAssumption DEF RevokeSession, Expire, TypeOK, SessionRow, Quiet, QuietSessions
<1>4. CASE Cleanup
  BY <1>4 DEF Cleanup, TypeOK, Quiet, QuietSessions
<1>5. CASE UNCHANGED vars
  BY <1>5, <1>0 DEF vars
<1> QED BY <1>1, <1>2, <1>3, <1>4, <1>5 DEF Next

\* A revoked row stays revoked until it is deleted, and no token is handed
\* out for it, even to a refresh that was past its checks at the revocation.
THEOREM RevocationIsFinal == Spec => RevokedIsFinal
<1> DEFINE A == /\ \A s \in Sid :
                     sessions[s] # NULL /\ sessions[s].revoked
                     => \/ sessions'[s] = NULL
                        \/ sessions'[s].revoked /\ sessions'[s].cur = sessions[s].cur
                /\ \A j \in Jti :
                     tokens[j] = NULL /\ tokens'[j] # NULL
                     => LET s == tokens'[j].sid
                        IN  sessions[s] # NULL => ~sessions[s].revoked
<1>1. ASSUME TypeOK, [Next]_vars PROVE A
  <2>1. ASSUME NEW p \in Proc, IssueTokens(p) PROVE A
    BY <1>1, <2>1, AuthAssumption DEF IssueTokens, FreshSid, FreshJti, TypeOK
  <2>2. ASSUME NEW p \in Proc, RotateTokens(p) PROVE A
    BY <1>1, <2>2, AuthAssumption DEF RotateTokens, RotateMatches, FreshJti, TypeOK
  <2>3. ASSUME Quiet PROVE A BY <2>3 DEF Quiet, QuietSessions
  <2> QED BY <1>1, <2>1, <2>2, <2>3, QuietSteps
<1>2. ASSUME TypeOK, [Next]_vars PROVE [A]_vars
  BY <1>1, <1>2
<1> QED BY <1>2, TypeCorrect, PTL DEF Spec, RevokedIsFinal

\* Every parent is an issued token.
ParentsIssued ==
    \A i \in Jti : tokens[i] # NULL /\ tokens[i].parent # NULL
                   => tokens[i].parent \in Jti /\ tokens[tokens[i].parent] # NULL

\* A refresh in flight works on an issued token, for that token's user.
RefreshJobs ==
    \A p \in Proc : job[p].at \in {"refresh", "rotate"} =>
        /\ job[p].jti \in Jti
        /\ tokens[job[p].jti] # NULL
        /\ tokens[job[p].jti].user = job[p].user

\* The inductive invariant behind RedeemedOnce.
RotationInv ==
    /\ RowHeadsItsChain
    /\ RedeemedOnce
    /\ ParentsIssued
    /\ RefreshJobs

\* A step that hands out no token keeps the chains.
LEMMA QuietKeepsChains ==
    ASSUME TypeOK, TypeOK', RotationInv, Quiet
    PROVE  RowHeadsItsChain' /\ RedeemedOnce' /\ ParentsIssued'
<1>1. RowHeadsItsChain'
  BY DEF RotationInv, RowHeadsItsChain, Quiet, QuietSessions, TypeOK
<1>2. RedeemedOnce' /\ ParentsIssued'
  BY DEF RotationInv, RedeemedOnce, ParentsIssued, Quiet
<1> QED BY <1>1, <1>2

\* The refresh jobs stay good: tokens are never withdrawn, and only the two
\* read steps of refresh enter or advance such a job.
LEMMA RefreshJobsNext ==
    ASSUME TypeOK, RotationInv, [Next]_vars,
           \A j \in Jti : tokens[j] # NULL => tokens'[j] = tokens[j]
    PROVE  RefreshJobs'
<1>0. ASSUME NEW p \in Proc, job'[p].at \in {"refresh", "rotate"}, ~UNCHANGED job[p]
      PROVE  /\ job'[p].jti \in Jti
             /\ tokens[job'[p].jti] # NULL
             /\ tokens[job'[p].jti].user = job'[p].user
  <2>1. PICK q \in Proc : Request(q)
    BY <1>0 DEF Next, vars, Logout, RevokeSession, Expire, Cleanup
  <2>2. \/ \E j \in Jti : RefreshReadSession(q, j)
        \/ RefreshReadUser(q)
        \/ \E k \in Job : k.at \notin {"refresh", "rotate"} /\ job' = [job EXCEPT ![q] = k]
    <3>1. ASSUME NEW u \in Users, LoginRead(q, u)
          PROVE \E k \in Job : k.at \notin {"refresh", "rotate"} /\ job' = [job EXCEPT ![q] = k]
      <4>1. ReadUser("issue", u) \in Job /\ ReadUser("issue", u).at = "issue"
        BY ReadUserType DEF Label
      <4> QED BY <3>1, <4>1 DEF LoginRead
    <3>2. CASE ReissueRead(q)
      <4>1. job[q].user \in Users BY <3>2 DEF ReissueRead, TypeOK
      <4>2. /\ ReadUser("issue", job[q].user) \in Job
            /\ ReadUser("issue", job[q].user).at = "issue"
        BY <4>1, ReadUserType DEF Label
      <4> QED BY <3>2, <4>2, IdleJobType DEF ReissueRead
    <3>3. ASSUME NEW j \in Jti, OthersRead(q, j)
          PROVE \E k \in Job : k.at \notin {"refresh", "rotate"} /\ job' = [job EXCEPT ![q] = k]
      <4>1. PICK s \in Sid : job' = [job EXCEPT ![q] = [IdleJob EXCEPT !.at = "others",
                        !.user = tokens[j].user, !.sid = s]]
        BY <3>3 DEF OthersRead
      <4>2. tokens[j].user \in Users BY <3>3 DEF OthersRead, TypeOK, Token
      <4>3. /\ [IdleJob EXCEPT !.at = "others", !.user = tokens[j].user, !.sid = s] \in Job
            /\ [IdleJob EXCEPT !.at = "others", !.user = tokens[j].user, !.sid = s].at = "others"
        BY <4>2, IdleJobType DEF IdleJob, Job, Label
      <4> QED BY <4>1, <4>3
    <3>4. ASSUME NEW u \in Users, NEW at \in {"password", "reset", "bump"}, BumpRead(q, u, at)
          PROVE \E k \in Job : k.at \notin {"refresh", "rotate"} /\ job' = [job EXCEPT ![q] = k]
      BY <3>4, ReadUserType DEF BumpRead, Label
    <3>5. ASSUME NEW at \in {"reissue", "purge", "delete"}, NEW u \in Users
          PROVE  /\ [IdleJob EXCEPT !.at = at, !.user = u] \in Job
                 /\ [IdleJob EXCEPT !.at = at, !.user = u].at = at
      BY <3>5, IdleJobType DEF IdleJob, Job, Label
    <3>6. CASE PasswordCommit(q)
      <4>1. job[q].user \in Users BY <3>6 DEF PasswordCommit, TypeOK
      <4> QED BY <3>6, <4>1, <3>5, IdleJobType DEF PasswordCommit
    <3>7. CASE BumpCommit(q)
      <4>1. job[q].user \in Users BY <3>7 DEF BumpCommit, TypeOK
      <4> QED BY <3>7, <4>1, <3>5 DEF BumpCommit
    <3>8. ASSUME NEW u \in Users, NEW input \in AdminInput, AdminRead(q, u, input)
          PROVE \E k \in Job : k.at \notin {"refresh", "rotate"} /\ job' = [job EXCEPT ![q] = k]
      <4> DEFINE k == [ReadUser("admin", u) EXCEPT !.input = input]
      <4>1. k \in Job /\ k.at = "admin" BY ReadUserType DEF Job, Label
      <4> QED BY <3>8, <4>1 DEF AdminRead
    <3>9. ASSUME NEW u \in Users, DeleteRevoke(q, u)
          PROVE \E k \in Job : k.at \notin {"refresh", "rotate"} /\ job' = [job EXCEPT ![q] = k]
      BY <3>9, <3>5 DEF DeleteRevoke
    <3>10. ASSUME Finish(q)
          PROVE \E k \in Job : k.at \notin {"refresh", "rotate"} /\ job' = [job EXCEPT ![q] = k]
      BY <3>10, IdleJobType DEF Finish
    <3> QED BY <2>1, <3>1, <3>2, <3>3, <3>4, <3>6, <3>7, <3>8, <3>9, <3>10
          DEF Request, IssueTokens, IssueFails, RotateTokens, RotateLost, OthersRevoke,
              BumpPurge, AdminCommit, CommitFails, DeleteCommit, Crash
  <2>3. ASSUME NEW j \in Jti, RefreshReadSession(q, j)
        PROVE /\ job'[p].jti \in Jti
              /\ tokens[job'[p].jti] # NULL
              /\ tokens[job'[p].jti].user = job'[p].user
    <3>1. PICK s \in Sid : job' = [job EXCEPT ![q] = [IdleJob EXCEPT !.at = "refresh",
                        !.user = tokens[j].user, !.sid = s, !.jti = j]]
      BY <2>3 DEF RefreshReadSession
    <3>2. p = q BY <1>0, <3>1 DEF TypeOK
    <3>3. job'[p] = [IdleJob EXCEPT !.at = "refresh", !.user = tokens[j].user,
                                    !.sid = s, !.jti = j]
      BY <3>1, <3>2 DEF TypeOK
    <3>4. job'[p].jti = j /\ job'[p].user = tokens[j].user BY <3>3 DEF IdleJob
    <3> QED BY <2>3, <3>4 DEF RefreshReadSession
  <2>4. ASSUME RefreshReadUser(q)
        PROVE /\ job'[p].jti \in Jti
              /\ tokens[job'[p].jti] # NULL
              /\ tokens[job'[p].jti].user = job'[p].user
    <3> DEFINE r == ReadUser("rotate", job[q].user)
               k == [r EXCEPT !.sid = job[q].sid, !.jti = job[q].jti]
    <3>1. job[q].user \in Users /\ job[q] \in Job BY <2>4 DEF RefreshReadUser, TypeOK
    <3>2. r \in Job /\ r.user = job[q].user BY <3>1, ReadUserType DEF Label
    <3>3. k.jti = job[q].jti /\ k.user = job[q].user
      <4> HIDE DEF r
      <4> QED BY <3>2 DEF Job
    <3>4. p = q /\ job'[p] \in {k, IdleJob} BY <1>0, <2>4 DEF RefreshReadUser, TypeOK
    <3>5. job'[p] = k BY <3>4, <1>0, IdleJobType
    <3> HIDE DEF k, r
    <3> QED BY <2>4, <3>3, <3>4, <3>5 DEF RotationInv, RefreshJobs, RefreshReadUser
  <2> QED BY <1>0, <2>2, <2>3, <2>4 DEF TypeOK
<1>1. ASSUME NEW p \in Proc, job'[p].at \in {"refresh", "rotate"}
      PROVE  /\ job'[p].jti \in Jti
             /\ tokens[job'[p].jti] # NULL
             /\ tokens[job'[p].jti].user = job'[p].user
  BY <1>0, <1>1 DEF RotationInv, RefreshJobs
<1> QED BY <1>1 DEF RefreshJobs

\* issue_tokens starts a chain of its own.
LEMMA IssueKeepsChains ==
    ASSUME TypeOK, TypeOK', RotationInv, NEW p \in Proc, IssueTokens(p)
    PROVE  /\ RowHeadsItsChain' /\ RedeemedOnce' /\ ParentsIssued'
           /\ \A j \in Jti : tokens[j] # NULL => tokens'[j] = tokens[j]
<1>1. PICK j \in FreshJti, s \in FreshSid :
        /\ tokens' = [tokens EXCEPT ![j] =
                        [user |-> job[p].user, ver |-> job[p].ver,
                         pc |-> job[p].must, sid |-> s, parent |-> NULL,
                         seen |-> job[p].seen]]
        /\ sessions' = [sessions EXCEPT ![s] =
                        [user |-> job[p].user, cur |-> j, prev |-> NULL,
                         expired |-> FALSE, revoked |-> FALSE]]
  BY DEF IssueTokens
<1>2. j \in Jti /\ tokens[j] = NULL /\ s \in Sid /\ sessions[s] = NULL
  BY DEF FreshJti, FreshSid
<1>3. /\ \A i \in Jti : i # j => tokens'[i] = tokens[i]
      /\ \A t \in Sid : t # s => sessions'[t] = sessions[t]
      /\ sessions'[s] = [user |-> job[p].user, cur |-> j, prev |-> NULL,
                         expired |-> FALSE, revoked |-> FALSE]
      /\ tokens'[j] = [user |-> job[p].user, ver |-> job[p].ver,
                       pc |-> job[p].must, sid |-> s, parent |-> NULL,
                       seen |-> job[p].seen]
  BY <1>1, <1>2 DEF TypeOK
<1>4. /\ tokens'[j].parent = NULL /\ tokens'[j].sid = s /\ tokens'[j].user = job[p].user
      /\ tokens'[j] # NULL
      /\ sessions'[s].cur = j /\ sessions'[s].prev = NULL /\ sessions'[s].user = job[p].user
  <2>1. job[p].user \in Users /\ job[p] \in Job /\ epoch[job[p].user] \in Nat
    BY DEF IssueTokens, TypeOK
  <2>2. tokens'[j] \in Token BY <1>2, <1>3, <2>1 DEF Token, Job
  <2> QED BY <1>3, <2>2, AuthAssumption
<1>5. \A i \in Jti : tokens[i] # NULL => tokens[i].parent # j
  BY <1>2, AuthAssumption DEF RotationInv, ParentsIssued
<1>6. RowHeadsItsChain'
  <2> SUFFICES ASSUME NEW t \in Sid, sessions'[t] # NULL
               PROVE  /\ tokens'[sessions'[t].cur] # NULL
                      /\ tokens'[sessions'[t].cur].user = sessions'[t].user
                      /\ tokens'[sessions'[t].cur].sid = t
                      /\ tokens'[sessions'[t].cur].parent = sessions'[t].prev
                      /\ \A i \in Jti : tokens'[i] # NULL => tokens'[i].parent # sessions'[t].cur
    BY DEF RowHeadsItsChain
  <2>1. CASE t = s BY <2>1, <1>2, <1>3, <1>4, <1>5, AuthAssumption
  <2>2. CASE t # s
    <3>1. sessions'[t] = sessions[t] /\ sessions[t].cur \in Jti /\ sessions[t] # NULL
      BY <2>2, <1>3 DEF TypeOK, SessionRow
    <3>2. sessions[t].cur # j BY <3>1, <1>2 DEF RotationInv, RowHeadsItsChain
    <3> QED BY <3>1, <3>2, <1>3, <1>4, AuthAssumption DEF RotationInv, RowHeadsItsChain
  <2> QED BY <2>1, <2>2
<1>7. RedeemedOnce'
  BY <1>2, <1>3, <1>4 DEF RotationInv, RedeemedOnce
<1>8. ParentsIssued'
  BY <1>2, <1>3, <1>4 DEF RotationInv, ParentsIssued
<1> QED BY <1>2, <1>3, <1>6, <1>7, <1>8

\* rotate_tokens moves one row to the successor it hands out: the row's
\* current jti had no successor, and no other row has that jti.
LEMMA RotateKeepsChains ==
    ASSUME TypeOK, TypeOK', RotationInv, NEW p \in Proc, RotateTokens(p)
    PROVE  /\ RowHeadsItsChain' /\ RedeemedOnce' /\ ParentsIssued'
           /\ \A j \in Jti : tokens[j] # NULL => tokens'[j] = tokens[j]
<1> DEFINE k == job[p].jti
<1>1. PICK s \in Sid, j \in FreshJti :
        /\ RotateMatches(s, k)
        /\ sessions' = [sessions EXCEPT ![s] =
               [@ EXCEPT !.cur = j, !.prev = k, !.expired = FALSE]]
        /\ tokens' = [tokens EXCEPT ![j] =
                        [user |-> job[p].user, ver |-> job[p].ver,
                         pc |-> FALSE, sid |-> s, parent |-> k,
                         seen |-> job[p].seen]]
  BY DEF RotateTokens
<1>2. j \in Jti /\ tokens[j] = NULL /\ sessions[s] # NULL /\ sessions[s].cur = k
  BY <1>1 DEF FreshJti, RotateMatches
<1>3. k \in Jti /\ tokens[k] # NULL /\ tokens[k].user = job[p].user
  BY DEF RotateTokens, RotationInv, RefreshJobs
<1>4. /\ tokens[k].user = sessions[s].user
      /\ tokens[k].sid = s
      /\ \A i \in Jti : tokens[i] # NULL => tokens[i].parent # k
  BY <1>2 DEF RotationInv, RowHeadsItsChain
<1>5. /\ \A i \in Jti : i # j => tokens'[i] = tokens[i]
      /\ \A t \in Sid : t # s => sessions'[t] = sessions[t]
  BY <1>1, <1>2 DEF TypeOK
<1>6. /\ tokens'[j].parent = k /\ tokens'[j].sid = s /\ tokens'[j].user = job[p].user
      /\ tokens'[j] # NULL
  <2>1. job[p].user \in Users /\ job[p] \in Job /\ epoch[job[p].user] \in Nat
    BY DEF RotateTokens, TypeOK
  <2>2. tokens'[j] = [user |-> job[p].user, ver |-> job[p].ver,
                      pc |-> FALSE, sid |-> s, parent |-> k,
                      seen |-> job[p].seen]
    BY <1>1, <1>2 DEF TypeOK
  <2>3. tokens'[j] \in Token BY <2>2, <2>1, <1>3 DEF Token, Job
  <2>4. tokens'[j] # NULL BY <2>3, AuthAssumption
  <2>5. tokens'[j].parent = k /\ tokens'[j].sid = s /\ tokens'[j].user = job[p].user
    BY <2>2
  <2> QED BY <2>4, <2>5
<1>7. /\ sessions'[s].cur = j /\ sessions'[s].prev = k
      /\ sessions'[s].user = sessions[s].user
  <2>1. sessions[s] \in SessionRow BY <1>2 DEF TypeOK
  <2>2. sessions'[s] = [sessions[s] EXCEPT !.cur = j, !.prev = k, !.expired = FALSE]
    BY <1>1 DEF TypeOK
  <2> HIDE DEF k
  <2> DEFINE r1 == [sessions[s] EXCEPT !.cur = j]
             r2 == [r1 EXCEPT !.prev = k]
             r3 == [r2 EXCEPT !.expired = FALSE]
  <2>3. r1 \in SessionRow /\ r1.cur = j /\ r1.user = sessions[s].user
    BY <2>1, <1>2 DEF SessionRow
  <2>4. r2 \in SessionRow /\ r2.cur = j /\ r2.prev = k /\ r2.user = sessions[s].user
    <3> HIDE DEF r1
    <3> QED BY <2>3, <1>3 DEF SessionRow
  <2>5. r3.cur = j /\ r3.prev = k /\ r3.user = sessions[s].user
    <3> HIDE DEF r2
    <3> QED BY <2>4 DEF SessionRow
  <2> QED BY <2>2, <2>5
<1>8. \A i \in Jti : tokens[i] # NULL => tokens[i].parent # j
  BY <1>2, AuthAssumption DEF RotationInv, ParentsIssued
<1> HIDE DEF k
<1>9. RowHeadsItsChain'
  <2> SUFFICES ASSUME NEW t \in Sid, sessions'[t] # NULL
               PROVE  /\ tokens'[sessions'[t].cur] # NULL
                      /\ tokens'[sessions'[t].cur].user = sessions'[t].user
                      /\ tokens'[sessions'[t].cur].sid = t
                      /\ tokens'[sessions'[t].cur].parent = sessions'[t].prev
                      /\ \A i \in Jti : tokens'[i] # NULL => tokens'[i].parent # sessions'[t].cur
    BY DEF RowHeadsItsChain
  <2>1. CASE t = s
    <3>1. j # k BY <1>2, <1>3
    <3> QED BY <2>1, <3>1, <1>2, <1>3, <1>4, <1>5, <1>6, <1>7, <1>8
  <2>2. CASE t # s
    <3>1. sessions'[t] = sessions[t] /\ sessions[t].cur \in Jti /\ sessions[t] # NULL
      BY <2>2, <1>5 DEF TypeOK, SessionRow
    <3>2. sessions[t].cur # j /\ sessions[t].cur # k
      BY <2>2, <3>1, <1>2, <1>4 DEF RotationInv, RowHeadsItsChain
    <3> QED BY <3>1, <3>2, <1>5, <1>6 DEF RotationInv, RowHeadsItsChain
  <2> QED BY <2>1, <2>2
<1>10. RedeemedOnce'
  BY <1>2, <1>4, <1>5, <1>6 DEF RotationInv, RedeemedOnce
<1>11. ParentsIssued'
  BY <1>2, <1>3, <1>5, <1>6 DEF RotationInv, ParentsIssued
<1> QED BY <1>2, <1>5, <1>9, <1>10, <1>11

\* Every step keeps the rotation invariant.
LEMMA RotationNext == TypeOK /\ TypeOK' /\ RotationInv /\ [Next]_vars => RotationInv'
<1> SUFFICES ASSUME TypeOK, TypeOK', RotationInv, [Next]_vars PROVE RotationInv'
  OBVIOUS
<1>1. ASSUME NEW p \in Proc, IssueTokens(p) PROVE RotationInv'
  BY <1>1, IssueKeepsChains, RefreshJobsNext DEF RotationInv
<1>2. ASSUME NEW p \in Proc, RotateTokens(p) PROVE RotationInv'
  BY <1>2, RotateKeepsChains, RefreshJobsNext DEF RotationInv
<1>3. ASSUME Quiet PROVE RotationInv'
  <2>1. \A j \in Jti : tokens[j] # NULL => tokens'[j] = tokens[j] BY <1>3 DEF Quiet
  <2> QED BY <1>3, <2>1, QuietKeepsChains, RefreshJobsNext DEF RotationInv
<1> QED BY <1>1, <1>2, <1>3, QuietSteps

\* The rotation invariant holds throughout.
LEMMA RotationHolds == Spec => []RotationInv
<1>1. Init => RotationInv
  BY IdleJobType DEF Init, RotationInv, RowHeadsItsChain, RedeemedOnce, ParentsIssued, RefreshJobs
<1> QED BY <1>1, TypeCorrect, RotationNext, PTL DEF Spec

\* However requests interleave, a refresh token is redeemed at most once.
THEOREM RotationIsSafe == Spec => []RedeemedOnce
<1>1. RotationInv => RedeemedOnce
  BY DEF RotationInv
<1> QED BY <1>1, RotationHolds, PTL

\* rotate_refresh's compare-and-set keeps each session row at the head of its
\* chain of tokens.
THEOREM RowsHeadTheirChains == Spec => []RowHeadsItsChain
<1>1. RotationInv => RowHeadsItsChain
  BY DEF RotationInv
<1> QED BY <1>1, RotationHolds, PTL

----------------------------------------------------------------------------
(* session_version: StaleTokenRejected and ScopeMatchesVersion             *)

\* What was read with version "ver" of user u is not newer than the row; if
\* it is as new, no invalidation was committed and no scope changed since.
Current(u, ver, seen, pc) ==
    /\ ver <= users[u].ver
    /\ ver = users[u].ver => seen = epoch[u] /\ pc = users[u].mustChange

TokensCurrent ==
    \A j \in Jti : tokens[j] # NULL =>
        Current(tokens[j].user, tokens[j].ver, tokens[j].seen, tokens[j].pc)

\* Handlers that will sign tokens hold a user row that is current in this sense.
SignersCurrent ==
    \A p \in Proc : job[p].at \in {"issue", "rotate"} =>
        /\ Current(job[p].user, job[p].ver, job[p].seen, job[p].must)
        /\ job[p].at = "rotate" => job[p].must = FALSE

\* A writer of session_version holds the version that is in the row, and no
\* other writer of the same user is at work.
WritersSerial ==
    \A p \in Proc : Bumping(p) =>
        /\ job[p].ver = users[job[p].user].ver
        /\ \A q \in Proc : Bumping(q) /\ job[q].user = job[p].user => q = p

\* The inductive invariant behind StaleTokenRejected.
VersionInv == TokensCurrent /\ SignersCurrent /\ WritersSerial

\* What a request may hold after a step that changes no version: what it held
\* before, something that neither signs nor writes a version, or the user row
\* as it is.
NextJob(q) ==
    \/ job'[q] = job[q]
    \/ job'[q].at \notin {"issue", "rotate", "password", "reset", "bump", "admin"}
    \/ /\ job'[q].at \notin {"issue", "rotate", "password", "reset", "bump"}
       /\ ~BumpsVersion(job'[q].input)
    \/ /\ job'[q].user \in Users
       /\ job'[q].ver = users[job'[q].user].ver
       /\ job'[q].seen = epoch[job'[q].user]
       /\ job'[q].must = users[job'[q].user].mustChange
       /\ job'[q].at = "rotate" => job'[q].must = FALSE
       /\ \/ job'[q].at \in {"issue", "rotate"}
          \/ /\ job'[q].at \in {"password", "reset", "bump", "admin"}
             /\ \A r \in Proc : ~(Bumping(r) /\ job[r].user = job'[q].user)

\* No version, scope or epoch changes.
SameVersions ==
    /\ \A u \in Users : /\ users'[u].ver = users[u].ver
                        /\ users'[u].mustChange = users[u].mustChange
    /\ epoch' = epoch

\* One request moves and the versions stay.
CalmStep ==
    /\ SameVersions
    /\ \E p \in Proc : NextJob(p) /\ \A q \in Proc \ {p} : job'[q] = job[q]

\* Under such a step handlers and writers stay in order.
LEMMA CalmJobs ==
    ASSUME TypeOK, TypeOK', VersionInv, CalmStep
    PROVE  SignersCurrent' /\ WritersSerial'
<1>1. PICK p \in Proc : NextJob(p) /\ \A q \in Proc \ {p} : job'[q] = job[q]
  BY DEF CalmStep
<1>2. /\ \A u \in Users : users'[u].ver = users[u].ver /\ users'[u].mustChange = users[u].mustChange
      /\ epoch' = epoch
  BY DEF CalmStep, SameVersions
<1>3. \A q \in Proc : job[q].at # "idle" => job[q].user \in Users
  BY DEF TypeOK
<1>4. \A q \in Proc : job'[q].at # "idle" => job'[q].user \in Users
  BY DEF TypeOK
<1>5. \A u \in Users : users[u].ver \in Nat
  BY DEF TypeOK, UserRow
<1>6. SignersCurrent'
  <2> SUFFICES ASSUME NEW q \in Proc, job'[q].at \in {"issue", "rotate"}
               PROVE  /\ Current(job[q].user, job[q].ver, job[q].seen, job[q].must)'
                      /\ job'[q].at = "rotate" => job'[q].must = FALSE
    BY DEF SignersCurrent
  <2>1. job'[q].user \in Users BY <1>4
  <2>2. CASE job'[q] = job[q] BY <2>1, <2>2, <1>2 DEF VersionInv, SignersCurrent, Current
  <2>3. CASE job'[q] # job[q]
    <3>1. q = p /\ NextJob(q) BY <2>3, <1>1
    <3>2. /\ job'[q].ver = users[job'[q].user].ver
          /\ job'[q].seen = epoch[job'[q].user]
          /\ job'[q].must = users[job'[q].user].mustChange
          /\ job'[q].at = "rotate" => job'[q].must = FALSE
      BY <3>1, <2>3 DEF NextJob
    <3> QED BY <3>2, <2>1, <1>2, <1>5 DEF Current
  <2> QED BY <2>2, <2>3
<1>7. ASSUME NEW q \in Proc, Bumping(q)'
      PROVE  job'[q].user \in Users /\ job'[q].ver = users[job'[q].user].ver
             /\ \/ job'[q] = job[q] /\ Bumping(q)
                \/ q = p /\ \A r \in Proc : ~(Bumping(r) /\ job[r].user = job'[q].user)
  <2>1. job'[q].at \in {"password", "reset", "bump", "admin"} BY <1>7 DEF Bumping
  <2>2. job'[q].user \in Users BY <2>1, <1>4
  <2>3. CASE job'[q] = job[q] BY <2>2, <2>3, <1>7 DEF Bumping, VersionInv, WritersSerial
  <2>4. CASE job'[q] # job[q]
    <3>1. q = p /\ NextJob(q) BY <2>4, <1>1
    <3> QED BY <3>1, <2>1, <2>2, <2>4, <1>7 DEF NextJob, Bumping
  <2> QED BY <2>3, <2>4
<1>8. WritersSerial'
  <2> SUFFICES ASSUME NEW q \in Proc, Bumping(q)'
               PROVE  /\ job'[q].ver = users'[job'[q].user].ver
                      /\ \A r \in Proc : Bumping(r)' /\ job'[r].user = job'[q].user => r = q
    BY DEF WritersSerial
  <2>1. job'[q].ver = users'[job'[q].user].ver BY <1>7, <1>2
  <2>2. ASSUME NEW r \in Proc, Bumping(r)', job'[r].user = job'[q].user PROVE r = q
    BY <1>7, <2>2 DEF VersionInv, WritersSerial
  <2> QED BY <2>1, <2>2
<1> QED BY <1>6, <1>8

\* The read of a user row, as a request holds it.
LEMMA ReadIsNextJob ==
    ASSUME TypeOK, NEW p \in Proc, NEW u \in Users, NEW k \in Job,
           k.at = "rotate" => users[u].mustChange = FALSE,
           \/ k.at \in {"issue", "rotate"}
           \/ /\ k.at \in {"password", "reset", "bump", "admin"}
              /\ \A r \in Proc : ~(Bumping(r) /\ job[r].user = u),
           k.user = u, k.ver = users[u].ver, k.seen = epoch[u], k.must = users[u].mustChange,
           job' = [job EXCEPT ![p] = k]
    PROVE  NextJob(p) /\ \A q \in Proc \ {p} : job'[q] = job[q]
<1>1. job'[p] = k /\ \A q \in Proc \ {p} : job'[q] = job[q]
  BY DEF TypeOK
<1>2. NextJob(p)
  BY <1>1 DEF NextJob
<1> QED BY <1>1, <1>2

\* A request that ends or goes on to something harmless.
LEMMA RestIsNextJob ==
    ASSUME TypeOK, NEW p \in Proc, NEW k,
           k.at \notin {"issue", "rotate", "password", "reset", "bump", "admin"},
           job' = [job EXCEPT ![p] = k]
    PROVE  NextJob(p) /\ \A q \in Proc \ {p} : job'[q] = job[q]
<1>1. job'[p] = k /\ \A q \in Proc \ {p} : job'[q] = job[q]
  BY DEF TypeOK
<1>2. NextJob(p)
  BY <1>1 DEF NextJob
<1> QED BY <1>1, <1>2

\* With serial writers, every step but a writer's commit leaves the versions
\* alone and the requests in order.
LEMMA CalmSteps ==
    ASSUME SerialBumps, TypeOK, VersionInv, NEW p \in Proc, Request(p)
    PROVE  \/ CalmStep
           \/ PasswordCommit(p) \/ BumpCommit(p)
           \/ AdminCommit(p) /\ BumpsVersion(job[p].input)
<1> USE IdleJobType
<1> DEFINE Moves == NextJob(p) /\ \A q \in Proc \ {p} : job'[q] = job[q]
<1>0. ASSUME Moves, UNCHANGED <<users, epoch>> PROVE CalmStep
  BY <1>0 DEF CalmStep, SameVersions
<1>1. ASSUME Finish(p) PROVE Moves
  BY <1>1, RestIsNextJob DEF Finish
<1>r. ASSUME NEW u \in Users, NEW at \in {"issue", "password", "reset", "bump"},
             job' = [job EXCEPT ![p] = ReadUser(at, u)],
             at # "issue" => \A r \in Proc : ~(Bumping(r) /\ job[r].user = u)
      PROVE  Moves
  <2> DEFINE k == ReadUser(at, u)
  <2>1. /\ k \in Job /\ k.at = at /\ k.user = u /\ k.ver = users[u].ver
        /\ k.must = users[u].mustChange /\ k.seen = epoch[u]
    BY ReadUserType DEF Label
  <2>2. job' = [job EXCEPT ![p] = k] BY <1>r
  <2>3. \/ k.at \in {"issue", "rotate"}
        \/ /\ k.at \in {"password", "reset", "bump", "admin"}
           /\ \A r \in Proc : ~(Bumping(r) /\ job[r].user = u)
    BY <1>r, <2>1
  <2>4. k.at # "rotate" BY <2>1
  <2> HIDE DEF k
  <2> QED BY <2>1, <2>2, <2>3, <2>4, ReadIsNextJob
<1>2. ASSUME NEW u \in Users, LoginRead(p, u) PROVE CalmStep
  <2>1. job' = [job EXCEPT ![p] = ReadUser("issue", u)] BY <1>2 DEF LoginRead
  <2>2. Moves BY <1>r, <2>1
  <2> QED BY <1>0, <2>2, <1>2 DEF LoginRead
<1>3. CASE ReissueRead(p)
  <2> DEFINE u == job[p].user
  <2>1. u \in Users BY <1>3 DEF ReissueRead, TypeOK
  <2>2. CASE users[u].exists
    <3>1. job' = [job EXCEPT ![p] = ReadUser("issue", u)] BY <1>3, <2>2 DEF ReissueRead
    <3> HIDE DEF u
    <3>2. Moves BY <3>1, <2>1, <1>r
    <3> QED BY <1>0, <3>2, <1>3 DEF ReissueRead
  <2>3. CASE ~users[u].exists
    <3>1. Finish(p) BY <1>3, <2>3 DEF ReissueRead, Finish
    <3> QED BY <1>0, <1>1, <3>1, <1>3 DEF ReissueRead
  <2> QED BY <2>2, <2>3
<1>4. ASSUME NEW j \in Jti, RefreshReadSession(p, j) PROVE CalmStep
  <2>1. PICK s \in Sid : job' = [job EXCEPT ![p] = [IdleJob EXCEPT !.at = "refresh",
                        !.user = tokens[j].user, !.sid = s, !.jti = j]]
    BY <1>4 DEF RefreshReadSession
  <2>2. [IdleJob EXCEPT !.at = "refresh", !.user = tokens[j].user, !.sid = s, !.jti = j].at = "refresh"
    BY DEF IdleJob
  <2>3. Moves BY <2>1, <2>2, RestIsNextJob
  <2> QED BY <1>0, <2>3, <1>4 DEF RefreshReadSession
<1>5. CASE RefreshReadUser(p)
  <2> DEFINE u == job[p].user
             r == ReadUser("rotate", u)
             k == [r EXCEPT !.sid = job[p].sid, !.jti = job[p].jti]
  <2>1. u \in Users /\ job[p] \in Job BY <1>5 DEF RefreshReadUser, TypeOK
  <2>2. /\ r \in Job /\ r.at = "rotate" /\ r.user = u /\ r.ver = users[u].ver
        /\ r.must = users[u].mustChange /\ r.seen = epoch[u]
    BY <2>1, ReadUserType DEF Label
  <2>3. job[p].sid \in Sid \cup {NULL} /\ job[p].jti \in Jti \cup {NULL} BY <2>1 DEF Job
  <2>4. k \in Job /\ k.at = "rotate" /\ k.user = u /\ k.ver = users[u].ver
        /\ k.must = users[u].mustChange /\ k.seen = epoch[u]
    <3> HIDE DEF r, u
    <3> QED BY <2>2, <2>3 DEF Job
  <2>5. CASE RefreshAllowed(u, tokens[job[p].jti])
    <3>1. job' = [job EXCEPT ![p] = k] BY <1>5, <2>5 DEF RefreshReadUser
    <3>2. users[u].mustChange = FALSE
      <4>1. users[u].mustChange \in BOOLEAN BY <2>1 DEF TypeOK, UserRow
      <4> QED BY <4>1, <2>5 DEF RefreshAllowed
    <3> HIDE DEF k, u
    <3>3. Moves BY <3>1, <3>2, <2>1, <2>4, ReadIsNextJob
    <3> QED BY <1>0, <3>3, <1>5 DEF RefreshReadUser
  <2>6. CASE ~RefreshAllowed(u, tokens[job[p].jti])
    <3>1. Finish(p) BY <1>5, <2>6 DEF RefreshReadUser, Finish
    <3> QED BY <1>0, <1>1, <3>1, <1>5 DEF RefreshReadUser
  <2> QED BY <2>5, <2>6
<1>6. ASSUME NEW j \in Jti, OthersRead(p, j) PROVE CalmStep
  <2>1. PICK s \in Sid : job' = [job EXCEPT ![p] = [IdleJob EXCEPT !.at = "others",
                        !.user = tokens[j].user, !.sid = s]]
    BY <1>6 DEF OthersRead
  <2>2. [IdleJob EXCEPT !.at = "others", !.user = tokens[j].user, !.sid = s].at = "others"
    BY DEF IdleJob
  <2>3. Moves BY <2>1, <2>2, RestIsNextJob
  <2> QED BY <1>0, <2>3, <1>6 DEF OthersRead
<1>7. ASSUME NEW u \in Users, NEW at \in {"password", "reset", "bump"}, BumpRead(p, u, at)
      PROVE CalmStep
  <2>1. \A r \in Proc : ~(Bumping(r) /\ job[r].user = u)
    BY <1>7 DEF BumpRead, CanStartBump
  <2>2. job' = [job EXCEPT ![p] = ReadUser(at, u)] BY <1>7 DEF BumpRead
  <2>3. Moves BY <2>1, <2>2, <1>r
  <2> QED BY <1>0, <2>3, <1>7 DEF BumpRead
<1>8. ASSUME NEW u \in Users, NEW input \in AdminInput, AdminRead(p, u, input)
      PROVE CalmStep
  <2> DEFINE r == ReadUser("admin", u)
             k == [r EXCEPT !.input = input]
  <2>1. /\ r \in Job /\ r.at = "admin" /\ r.user = u /\ r.ver = users[u].ver
        /\ r.must = users[u].mustChange /\ r.seen = epoch[u]
    BY ReadUserType DEF Label
  <2>2. /\ k \in Job /\ k.at = "admin" /\ k.user = u /\ k.ver = users[u].ver
        /\ k.must = users[u].mustChange /\ k.seen = epoch[u] /\ k.input = input
    <3> HIDE DEF r
    <3> QED BY <2>1 DEF Job
  <2>3. job' = [job EXCEPT ![p] = k] BY <1>8 DEF AdminRead
  <2> HIDE DEF k
  <2>4. CASE BumpsVersion(input)
    <3>1. \A q \in Proc : ~(Bumping(q) /\ job[q].user = u)
      BY <1>8, <2>4 DEF AdminRead, CanStartBump
    <3>2. Moves BY <2>2, <2>3, <3>1, ReadIsNextJob
    <3> QED BY <1>0, <3>2, <1>8 DEF AdminRead
  <2>5. CASE ~BumpsVersion(input)
    <3>1. job'[p] = k /\ \A q \in Proc \ {p} : job'[q] = job[q] BY <2>3 DEF TypeOK
    <3>2. Moves BY <2>2, <2>5, <3>1 DEF NextJob
    <3> QED BY <1>0, <3>2, <1>8 DEF AdminRead
  <2> QED BY <2>4, <2>5
<1>9. CASE AdminCommit(p) /\ ~BumpsVersion(job[p].input)
  <2> DEFINE u == job[p].user
  <2>1. u \in Users /\ users[u] \in UserRow BY <1>9 DEF AdminCommit, TypeOK
  <2>2. /\ users' = [users EXCEPT ![u] = AdminEdit(users[u], job[p].input, job[p].ver)]
        /\ epoch' = epoch
    BY <1>9 DEF AdminCommit
  <2>3. /\ AdminEdit(users[u], job[p].input, job[p].ver).ver = users[u].ver
        /\ AdminEdit(users[u], job[p].input, job[p].ver).mustChange = users[u].mustChange
    BY <1>9 DEF AdminEdit, BumpsVersion
  <2>4. SameVersions BY <2>1, <2>2, <2>3 DEF SameVersions, TypeOK
  <2>5. Moves BY <1>9, <1>1 DEF AdminCommit
  <2> QED BY <2>4, <2>5 DEF CalmStep
<1>10. ASSUME NEW u \in Users, DeleteRevoke(p, u) PROVE CalmStep
  <2>1. [IdleJob EXCEPT !.at = "delete", !.user = u].at = "delete" BY DEF IdleJob
  <2>2. Moves BY <1>10, <2>1, RestIsNextJob DEF DeleteRevoke
  <2> QED BY <1>0, <2>2, <1>10 DEF DeleteRevoke
<1>11. CASE DeleteCommit(p)
  <2>1. SameVersions BY <1>11 DEF DeleteCommit, SameVersions, TypeOK, UserRow
  <2>2. Moves BY <1>11, <1>1 DEF DeleteCommit
  <2> QED BY <2>1, <2>2 DEF CalmStep
<1>12. CASE \/ IssueTokens(p) \/ IssueFails(p) \/ RotateTokens(p) \/ RotateLost(p)
            \/ OthersRevoke(p) \/ BumpPurge(p) \/ CommitFails(p) \/ Crash(p)
  <2>1. Finish(p) /\ UNCHANGED <<users, epoch>>
    BY <1>12 DEF IssueTokens, IssueFails, RotateTokens, RotateLost, OthersRevoke,
                 BumpPurge, CommitFails, Crash
  <2> QED BY <2>1, <1>0, <1>1
<1> QED BY <1>2, <1>3, <1>4, <1>5, <1>6, <1>7, <1>8, <1>9, <1>10, <1>11, <1>12 DEF Request

\* A commit that raises the version of u by one from the one in the row: the
\* request that makes it was a writer of u and goes on to sign nothing.
Invalidation(p, u) ==
    /\ Bumping(p) /\ job[p].user = u
    /\ users'[u].ver = users[u].ver + 1
    /\ \A w \in Users \ {u} : users'[w] = users[w] /\ epoch'[w] = epoch[w]
    /\ job'[p].at \notin {"issue", "rotate", "password", "reset", "bump", "admin"}
    /\ \A q \in Proc \ {p} : job'[q] = job[q]
    /\ tokens' = tokens

\* With serial writers, the three commits are invalidations.
LEMMA CommitsInvalidate ==
    ASSUME TypeOK, VersionInv, NEW p \in Proc,
           \/ PasswordCommit(p) \/ BumpCommit(p)
           \/ AdminCommit(p) /\ BumpsVersion(job[p].input)
    PROVE  job[p].user \in Users /\ Invalidation(p, job[p].user)
<1> DEFINE u == job[p].user
<1>1. Bumping(p) /\ u \in Users /\ users[u] \in UserRow
  BY DEF PasswordCommit, BumpCommit, AdminCommit, Bumping, TypeOK
<1>2. job[p].ver = users[u].ver
  BY <1>1 DEF VersionInv, WritersSerial
<1>3. users'[u].ver = users[u].ver + 1
  <2>1. CASE PasswordCommit(p)
    <3>1. users'[u] = [users[u] EXCEPT !.ver = job[p].ver + 1, !.mustChange = FALSE]
      BY <2>1, <1>1 DEF PasswordCommit, TypeOK
    <3> DEFINE r == [users[u] EXCEPT !.ver = job[p].ver + 1]
    <3>2. r.ver = job[p].ver + 1 /\ r \in UserRow
      <4>1. job[p].ver + 1 \in Nat BY <1>1, <1>2 DEF UserRow
      <4> QED BY <1>1, <4>1 DEF UserRow
    <3> HIDE DEF r
    <3>3. [r EXCEPT !.mustChange = FALSE].ver = r.ver BY <3>2 DEF UserRow
    <3> QED BY <3>1, <3>2, <3>3, <1>2 DEF r
  <2>2. CASE BumpCommit(p) BY <2>2, <1>1, <1>2 DEF BumpCommit, TypeOK, UserRow
  <2>3. CASE AdminCommit(p) /\ BumpsVersion(job[p].input)
    <3>1. users'[u] = AdminEdit(users[u], job[p].input, job[p].ver)
      BY <2>3, <1>1 DEF AdminCommit, TypeOK
    <3> QED BY <2>3, <3>1, <1>2 DEF AdminEdit
  <2> QED BY <2>1, <2>2, <2>3
<1>4. \A w \in Users \ {u} : users'[w] = users[w] /\ epoch'[w] = epoch[w]
  BY <1>1 DEF PasswordCommit, BumpCommit, AdminCommit, TypeOK
<1>5. /\ job'[p].at \notin {"issue", "rotate", "password", "reset", "bump", "admin"}
      /\ \A q \in Proc \ {p} : job'[q] = job[q]
  <2>1. /\ [IdleJob EXCEPT !.at = "reissue", !.user = u].at = "reissue"
        /\ [IdleJob EXCEPT !.at = "purge", !.user = u].at = "purge"
    BY DEF IdleJob
  <2>2. PICK k \in {IdleJob, [IdleJob EXCEPT !.at = "reissue", !.user = u],
                    [IdleJob EXCEPT !.at = "purge", !.user = u]} : job' = [job EXCEPT ![p] = k]
    BY DEF PasswordCommit, BumpCommit, AdminCommit, Finish
  <2>3. k.at \in {"idle", "reissue", "purge"} BY <2>1, <2>2, IdleJobType
  <2>4. job'[p] = k /\ \A q \in Proc \ {p} : job'[q] = job[q] BY <2>2 DEF TypeOK
  <2> QED BY <2>3, <2>4
<1>6. tokens' = tokens
  BY DEF PasswordCommit, BumpCommit, AdminCommit
<1> QED BY <1>1, <1>3, <1>4, <1>5, <1>6 DEF Invalidation

\* An invalidation makes everything read of u before it strictly older than
\* the row, and there is no other writer of u that could undo it.
LEMMA InvalidationKeeps ==
    ASSUME TypeOK, TypeOK', VersionInv, NEW p \in Proc, NEW u \in Users, Invalidation(p, u)
    PROVE  VersionInv'
<1>1. \A w \in Users : users[w].ver \in Nat
  BY DEF TypeOK, UserRow
<1>2. ASSUME NEW w \in Users, NEW ver \in Nat, NEW seen, NEW pc, Current(w, ver, seen, pc)
      PROVE  /\ ver <= users'[w].ver
             /\ ver = users'[w].ver => seen = epoch'[w] /\ pc = users'[w].mustChange
  BY <1>1, <1>2 DEF Invalidation, Current
<1>3. TokensCurrent'
  <2> SUFFICES ASSUME NEW j \in Jti, tokens'[j] # NULL
               PROVE  /\ tokens'[j].ver <= users'[tokens'[j].user].ver
                      /\ tokens'[j].ver = users'[tokens'[j].user].ver
                         => /\ tokens'[j].seen = epoch'[tokens'[j].user]
                            /\ tokens'[j].pc = users'[tokens'[j].user].mustChange
    BY DEF TokensCurrent, Current
  <2>1. tokens'[j] = tokens[j] /\ tokens[j] \in Token BY DEF Invalidation, TypeOK
  <2>2. tokens[j].user \in Users /\ tokens[j].ver \in Nat BY <2>1 DEF Token
  <2>3. Current(tokens[j].user, tokens[j].ver, tokens[j].seen, tokens[j].pc)
    BY <2>1 DEF VersionInv, TokensCurrent
  <2> QED BY <2>1, <2>2, <2>3, <1>2
<1>4. SignersCurrent'
  <2> SUFFICES ASSUME NEW q \in Proc, job'[q].at \in {"issue", "rotate"}
               PROVE  /\ job'[q].ver <= users'[job'[q].user].ver
                      /\ job'[q].ver = users'[job'[q].user].ver
                         => /\ job'[q].seen = epoch'[job'[q].user]
                            /\ job'[q].must = users'[job'[q].user].mustChange
                      /\ job'[q].at = "rotate" => job'[q].must = FALSE
    BY DEF SignersCurrent, Current
  <2>1. q # p /\ job'[q] = job[q] /\ job[q] \in Job /\ job[q].user \in Users
    BY DEF Invalidation, TypeOK
  <2>2. job[q].ver \in Nat BY <2>1 DEF Job
  <2>3. /\ Current(job[q].user, job[q].ver, job[q].seen, job[q].must)
        /\ job[q].at = "rotate" => job[q].must = FALSE
    BY <2>1 DEF VersionInv, SignersCurrent
  <2> QED BY <2>1, <2>2, <2>3, <1>2
<1>5. ASSUME NEW q \in Proc, Bumping(q)'
      PROVE  q # p /\ job'[q] = job[q] /\ Bumping(q) /\ job[q].user \in Users \ {u}
  <2>1. q # p BY <1>5 DEF Bumping, Invalidation
  <2>2. job'[q] = job[q] BY <2>1 DEF Invalidation
  <2>3. Bumping(q) BY <1>5, <2>2 DEF Bumping
  <2>4. job[q].user # u BY <2>1, <2>3 DEF VersionInv, WritersSerial, Invalidation
  <2>5. job[q].user \in Users BY <2>3 DEF Bumping, TypeOK
  <2> QED BY <2>1, <2>2, <2>3, <2>4, <2>5
<1>6. WritersSerial'
  <2> SUFFICES ASSUME NEW q \in Proc, Bumping(q)'
               PROVE  /\ job'[q].ver = users'[job'[q].user].ver
                      /\ \A r \in Proc : Bumping(r)' /\ job'[r].user = job'[q].user => r = q
    BY DEF WritersSerial
  <2>1. job'[q].ver = users'[job'[q].user].ver
    BY <1>5 DEF VersionInv, WritersSerial, Invalidation
  <2>2. ASSUME NEW r \in Proc, Bumping(r)', job'[r].user = job'[q].user PROVE r = q
    BY <1>5, <2>2 DEF VersionInv, WritersSerial
  <2> QED BY <2>1, <2>2
<1> QED BY <1>3, <1>4, <1>6 DEF VersionInv

\* Tokens stay current under a step that changes no version: a new token takes
\* what its handler holds.
LEMMA CalmTokens ==
    ASSUME TypeOK, TypeOK', VersionInv, SameVersions,
           \/ tokens' = tokens
           \/ \E p \in Proc : IssueTokens(p) \/ RotateTokens(p)
    PROVE  TokensCurrent'
<1> SUFFICES ASSUME NEW j \in Jti, tokens'[j] # NULL
             PROVE  Current(tokens[j].user, tokens[j].ver, tokens[j].seen, tokens[j].pc)'
  BY DEF TokensCurrent
<1>1. tokens'[j].user \in Users
  BY DEF TypeOK, Token
<1>2. Current(tokens'[j].user, tokens'[j].ver, tokens'[j].seen, tokens'[j].pc)
  <2>1. CASE tokens'[j] = tokens[j] BY <2>1 DEF VersionInv, TokensCurrent
  <2>2. CASE tokens'[j] # tokens[j]
    <3>1. PICK p \in Proc : IssueTokens(p) \/ RotateTokens(p) BY <2>2
    <3>2. /\ tokens'[j].user = job[p].user /\ tokens'[j].ver = job[p].ver
          /\ tokens'[j].seen = job[p].seen
          /\ \/ job[p].at = "issue" /\ tokens'[j].pc = job[p].must
             \/ job[p].at = "rotate" /\ tokens'[j].pc = FALSE
      <4>1. CASE IssueTokens(p) BY <2>2, <4>1 DEF IssueTokens, FreshJti, TypeOK
      <4>2. CASE RotateTokens(p)
        <5>1. PICK i \in FreshJti, s \in Sid :
                tokens' = [tokens EXCEPT ![i] =
                            [user |-> job[p].user, ver |-> job[p].ver,
                             pc |-> FALSE, sid |-> s, parent |-> job[p].jti,
                             seen |-> job[p].seen]]
          BY <4>2 DEF RotateTokens
        <5>2. i = j /\ job[p].at = "rotate" BY <2>2, <4>2, <5>1 DEF RotateTokens, TypeOK
        <5> QED BY <5>1, <5>2 DEF TypeOK
      <4> QED BY <3>1, <4>1, <4>2
    <3>3. /\ Current(job[p].user, job[p].ver, job[p].seen, job[p].must)
          /\ job[p].at = "rotate" => job[p].must = FALSE
      BY <3>2 DEF VersionInv, SignersCurrent
    <3> QED BY <3>2, <3>3
  <2> QED BY <2>1, <2>2
<1> QED BY <1>1, <1>2 DEF Current, SameVersions

\* With serial writers every step keeps the version invariant.
LEMMA VersionNext ==
    ASSUME SerialBumps, TypeOK, TypeOK', VersionInv, [Next]_vars
    PROVE  VersionInv'
<1>1. ASSUME UNCHANGED <<users, tokens, job, epoch>> PROVE VersionInv'
  BY <1>1 DEF VersionInv, TokensCurrent, SignersCurrent, WritersSerial, Current, Bumping
<1>2. ASSUME NEW p \in Proc, Request(p), CalmStep PROVE VersionInv'
  <2>1. \/ tokens' = tokens
        \/ \E q \in Proc : IssueTokens(q) \/ RotateTokens(q)
    BY QuietSteps DEF Quiet
  <2>2. TokensCurrent' BY <2>1, <1>2, CalmTokens DEF CalmStep
  <2> QED BY <2>2, <1>2, CalmJobs DEF VersionInv
<1>3. ASSUME NEW p \in Proc, Request(p) PROVE VersionInv'
  BY <1>3, <1>2, CalmSteps, CommitsInvalidate, InvalidationKeeps
<1>4. CASE \/ \E j \in Jti : Logout(j)
           \/ \E s \in Sid : RevokeSession(s) \/ Expire(s)
           \/ Cleanup
           \/ UNCHANGED vars
  BY <1>1, <1>4 DEF Logout, RevokeSession, Expire, Cleanup, vars
<1> QED BY <1>3, <1>4 DEF Next

\* The version invariant holds throughout when session_version writers of a
\* user do not overlap.
LEMMA VersionsHold == ASSUME SerialBumps PROVE Spec => []VersionInv
<1>1. Init => VersionInv
  BY IdleJobType DEF Init, VersionInv, TokensCurrent, SignersCurrent, WritersSerial, Bumping
<1>2. TypeOK /\ TypeOK' /\ VersionInv /\ [Next]_vars => VersionInv'
  BY VersionNext
<1> QED BY <1>1, <1>2, TypeCorrect, PTL DEF Spec

\* When the writers of a user's session_version do not overlap, a committed
\* password change, reset, disabling or revocation ends every token whose
\* handler had read the user row before, handed out or still in flight.
THEOREM InvalidationIsComplete ==
    ASSUME SerialBumps PROVE Spec => []StaleTokenRejected
<1>1. TypeOK /\ VersionInv => StaleTokenRejected
  BY DEF VersionInv, TokensCurrent, Current, StaleTokenRejected, Accepted
<1> QED BY <1>1, VersionsHold, TypeCorrect, PTL

\* Under the same hypothesis, a token of the current session_version has the
\* password-change scope of the row.
THEOREM ScopeFollowsVersion ==
    ASSUME SerialBumps PROVE Spec => []ScopeMatchesVersion
<1>1. TypeOK /\ VersionInv => ScopeMatchesVersion
  BY DEF VersionInv, TokensCurrent, Current, ScopeMatchesVersion
<1> QED BY <1>1, VersionsHold, TypeCorrect, PTL

-----------------------------------------------------------------------------
(* Challenges: the inductive invariant                                     *)

Chal == [user: Persons \cup {NoOne}, handle: Nat, ident: Persons \cup {NoOne}]
Visual == [attempts: Nat, max_attempts: Nat]
JobRec == [at: Steps, key: Nat, handle: Nat, row: SUBSET (Row \cup Visual), chal: SUBSET Chal]
Answering == {"drop", "drop passed", "drop failed", "again"}

\* The types of the tables, the cache and what requests hold.
Typed ==
    /\ load \in Workloads
    /\ request \in [Jobs -> JobRec]
    /\ keys \in [DOMAIN keys -> Row] /\ DOMAIN keys \subseteq Nat /\ next \in [id: Nat, handle: Nat]
    /\ chal \in [DOMAIN chal -> Chal] /\ DOMAIN chal \subseteq Jobs
    /\ cap \in [DOMAIN cap -> Visual] /\ DOMAIN cap \subseteq Jobs /\ aged \subseteq Jobs
    /\ device \in [DOMAIN device -> Nat] /\ DOMAIN device \subseteq Creds
    /\ owner \in [DOMAIN owner -> Persons \cup {NoOne}]

\* A request holds at most one challenge and one row, a row of the kind it asked for; only answers
\* work on captchas, and on ones that were issued.
HoldsOf(j) ==
    /\ \A a, b \in request[j].chal : a = b
    /\ \A a, b \in request[j].row : a = b
    /\ Ask(j).op = "finish login" => request[j].row \subseteq Row
    /\ Ask(j).op = "answer" => request[j].row \subseteq Visual
    /\ request[j].at \in Answering => Ask(j).op = "answer" /\ Ask(j).of \in Jobs /\ is_required(Ask(j).need)
Holds == \A j \in Jobs : HoldsOf(j)

\* No two passkeys have one credential.
CredsApart == \A i, k \in DOMAIN keys : keys[i].cred = keys[k].cred => i = k

\* The request has taken the challenge of its flow out of the cache.
Took(j) == Ask(j).op \in {"finish registration", "finish login"} /\ request[j].at \notin {"new", "refused"}

\* A challenge is in the cache only after its request is done, and gone for good once it is taken.
Spent ==
    /\ \A f \in DOMAIN chal : request[f].at = "done"
    /\ \A j \in Jobs : Took(j) => Ask(j).of \in Jobs /\ Ask(j).of \notin DOMAIN chal /\ request[Ask(j).of].at = "done"
    /\ \A i, j \in Jobs : Took(i) /\ Took(j) /\ Ask(i).of = Ask(j).of => i = j
    /\ \A j \in Jobs : Ask(j).op \in {"start registration", "start login"} \/ j \notin DOMAIN chal
    /\ \A j \in Jobs : Took(j) => Ask(Ask(j).of).op \in {"start registration", "start login"}

\* A challenge for a user carries a handle made for that user.
ChalOwned(c) == c.user \in Persons => c.handle \in DOMAIN owner /\ owner[c.handle] = c.user
RowOwned(r) == r.handle \in DOMAIN owner /\ owner[r.handle] = r.user

\* Handles are made once, and wherever one is kept it stands with its user.
Handles ==
    /\ \A h \in DOMAIN owner : h \in Nat /\ h < next.handle
    /\ \A i \in DOMAIN keys : RowOwned(keys[i])
    /\ \A f \in DOMAIN chal : ChalOwned(chal[f])
    /\ \A j \in Jobs : \A c \in request[j].chal :
         /\ ChalOwned(c)
         /\ Ask(j).op = "finish registration" /\ request[j].at \notin {"new", "refused"} => c.user = Ask(j).user

LoggingIn(j) == Ask(j).op = "finish login" /\ request[j].at \in {"user", "update", "issue", "done"}

\* A login works on the row of the handle it was given, and from "update" on the named user is that
\* of the row.
Logins ==
    \A j \in Jobs : LoggingIn(j) => \A r \in request[j].row :
        /\ r.handle = request[j].handle /\ RowOwned(r)
        /\ request[j].at # "user" => \A c \in request[j].chal : c.ident # NoOne => r.user = c.ident

KeyWork(j) == Ask(j).op = "finish login" /\ request[j].at \in {"user", "update"}
Free(k) == <<"key", k>> \notin tangled

\* Passkey ids are not used twice.
Ids == (\A i \in DOMAIN keys : i < next.id) /\ \A j \in Jobs : request[j].key < next.id
\* One login at a time works on a passkey that is free, and it knows its counter.
KeyAlone ==
    \A i, j \in Jobs : KeyWork(i) /\ KeyWork(j) /\ request[i].key = request[j].key /\ Free(request[i].key) => i = j
Known ==
    \A j \in Jobs : KeyWork(j) /\ Free(request[j].key) /\ request[j].key \in DOMAIN keys =>
        \A r \in request[j].row : r.count = keys[request[j].key].count
\* What is stored has grown, and is at least what every login that was let in came with.
Grown ==
    \A j \in Jobs : Ask(j).op = "finish login" /\ request[j].at = "update" =>
        \A r \in request[j].row : Ask(j).count > r.count \/ (Ask(j).count = 0 /\ r.count = 0)
Stored ==
    \A j \in Jobs : Entered(j) /\ Free(request[j].key) /\ request[j].key \in DOMAIN keys =>
        keys[request[j].key].count >= Ask(j).count
Counters == Ids /\ KeyAlone /\ Known /\ Grown /\ Stored

PasskeyInv == Typed /\ Holds /\ CredsApart /\ Spent /\ Handles /\ Logins /\ Counters /\ CloneRefused

Said(c, s) == {j \in Jobs : Ask(j).op = "answer" /\ Ask(j).of = c /\ is_required(Ask(j).need) /\ request[j].at = s}
Works(j, c) == Ask(j).of = c /\ request[j].at \in Answering

\* What is known of a captcha that requests work on one at a time.
Counted(c) ==
    /\ \A i, j \in Jobs : Works(i, c) /\ Works(j, c) => i = j
    /\ c \in DOMAIN cap => /\ Said(c, "passed") = {} /\ Cardinality(Said(c, "failed")) = cap[c].attempts
                           /\ cap[c].attempts < load.max_attempts
    /\ \A j \in Jobs : Works(j, c) =>
         /\ Said(c, "passed") = {} /\ Cardinality(Said(c, "failed")) < load.max_attempts
         /\ request[j].at = "again" => \A held \in request[j].row :
              held.attempts = Cardinality(Said(c, "failed")) + 1 /\ held.attempts < load.max_attempts
    /\ Cardinality(Said(c, "passed")) <= 1
    /\ Cardinality(Said(c, "failed")) + Cardinality(Said(c, "passed")) <= load.max_attempts

\* Captchas and what is written back allow as many attempts as is configured.
Maxes ==
    /\ \A c \in DOMAIN cap : cap[c].max_attempts = load.max_attempts
    /\ \A j \in Jobs : request[j].at = "again" => \A held \in request[j].row : held.max_attempts = load.max_attempts

\* Before it is issued nobody has answered a captcha.
Unseen(c) ==
    c \notin DOMAIN cap /\ Said(c, "passed") = {} /\ Said(c, "failed") = {} /\ \A j \in Jobs : ~Works(j, c)
CapOf(c) ==
    Ask(c).op = "issue captcha" =>
        /\ request[c].at = "new" => Unseen(c)
        /\ <<"captcha", c>> \notin tangled => Counted(c)
Captchas == Maxes /\ \A c \in Jobs : CapOf(c)

-----------------------------------------------------------------------------
(* What the steps of a request do                                          *)

\* The workload stays.
LEMMA Frame ==
    ASSUME load' = load
    PROVE  Jobs' = Jobs /\ (\A j : Ask(j)' = Ask(j)) /\ (\A d : is_required(d)' <=> is_required(d))
  BY DEF Jobs, Ask, is_required

\* What a visitor sends is well typed.
LEMMA AskType ==
    ASSUME load \in Workloads, NEW j \in Jobs
    PROVE  /\ Ask(j) \in Sent /\ NoOne \notin Persons
           /\ Ask(j).op = "finish registration" => Ask(j).user \in Persons
           /\ IsFiniteSet(Jobs) /\ Jobs \subseteq Nat
           /\ load.max_attempts \in Nat \ {0}
  BY ChallengesAssumption DEF Jobs, Ask

\* A request goes to another step and holds what it held.
LEMMA ToStep ==
    ASSUME Typed, NEW j \in Jobs, NEW s \in Steps, To(j, s)
    PROVE  /\ request' \in [Jobs -> JobRec] /\ \A i \in Jobs \ {j} : request'[i] = request[i]
           /\ request'[j].at = s /\ request'[j].key = request[j].key /\ request'[j].handle = request[j].handle
           /\ request'[j].row = request[j].row /\ request'[j].chal = request[j].chal
<1>1. request[j] \in JobRec /\ request' = [request EXCEPT ![j] = [request[j] EXCEPT !.at = s]]
  BY DEF Typed, To
<1> DEFINE k == [request[j] EXCEPT !.at = s]
<1>2. /\ k \in JobRec /\ k.at = s /\ k.key = request[j].key /\ k.handle = request[j].handle
      /\ k.row = request[j].row /\ k.chal = request[j].chal
  BY <1>1 DEF JobRec
<1> HIDE DEF k
<1>3. request' = [request EXCEPT ![j] = k]
  BY <1>1 DEF k
<1> QED BY <1>2, <1>3 DEF Typed

\* The checks of finish_login.
Checked(j) ==
    \E r \in request[j].row, c \in request[j].chal :
        /\ ensure_login_identifier_matches(r.user, c.ident)
        /\ finish_discoverable_authentication(j, r)

\* Steps that move a request on and touch neither passkeys nor captchas.
Turns(j) ==
    /\ request[j].at \notin Answering \cup {"done"} /\ Ask(j).op \notin {"issue captcha", "answer"}
    /\ UNCHANGED <<captchas, passkeys>>
    /\ \E s \in {"refused", "list", "find", "insert", "update", "delete", "done"} :
         /\ To(j, s)
         /\ \/ s = "refused"
            \/ Ask(j).op \in {"start registration", "rename", "delete"}
            \/ Ask(j).op = "finish registration" /\ request[j].at \notin {"new", "refused"}
            \/ Ask(j).op = "finish login" /\ request[j].at = "user" /\ s = "update" /\ Checked(j)
            \/ Ask(j).op = "finish login" /\ request[j].at = "issue" /\ s = "done"

Stores(j) == store_registration_challenge(j) /\ normalize_passkey_name(Ask(j).name)
TakesRegistration(j) == take_registration_challenge(j) /\ Ask(j).of \in DOMAIN chal /\ Signed(j)
Inserts(j) == InsertPasskey(j) /\ normalize_passkey_name(Ask(j).name) /\ find_by_credential_id(Ask(j).cred) = {}
Renames(j) == update_name_for_user(j) /\ normalize_passkey_name(Ask(j).name) /\ find_by_id_for_user(Ask(j).of, Ask(j).user)
Deletes(j) == delete_for_user(j) /\ find_by_id_for_user(Ask(j).of, Ask(j).user)
Begins(j) == start_login(j) /\ ensure_passkey_login_enabled /\ load.https
TakesLogin(j) == take_login_challenge(j) /\ ensure_passkey_login_enabled /\ Ask(j).of \in DOMAIN chal
Finds(j) ==
    /\ At(j, "finish login", "find") /\ UNCHANGED <<captchas, passkeys>>
    /\ \E i \in DOMAIN keys :
         /\ keys[i].handle = device[Ask(j).cred] /\ Ask(j).cred \in DOMAIN device
         /\ request' = [request EXCEPT ![j] = [@ EXCEPT !.at = "user", !.key = i, !.row = {keys[i]},
                                                !.handle = device[Ask(j).cred]]]
Updates(j) == update_credential_after_auth(j) /\ request[j].key \in DOMAIN keys

Requests(j) == Registration(j) \/ Management(j) \/ Login(j) \/ Captcha(j)

\* Every step of a request is one of these.
LEMMA StepCases ==
    ASSUME Typed, NEW j \in Jobs, Requests(j)
    PROVE  \/ Turns(j) \/ user_handle_for_registration(j) \/ Stores(j) \/ TakesRegistration(j)
           \/ Inserts(j) \/ Renames(j) \/ Deletes(j) \/ Begins(j) \/ TakesLogin(j) \/ Finds(j)
           \/ Updates(j) \/ Captcha(j)
<1> USE DEF At
<1>1. ASSUME To(j, "refused"), request[j].at \notin Answering \cup {"done"}, UNCHANGED <<captchas, passkeys>>,
             Ask(j).op \notin {"issue captcha", "answer"}
      PROVE  Turns(j)
  BY <1>1 DEF Turns
<1>2. CASE Registration(j)
  <2>1. CASE start_registration(j)
    BY <2>1 DEF start_registration, start_passkey_registration, Turns, Answering
  <2>2. CASE finish_registration(j) BY <2>2 DEF finish_registration, Turns, Answering
  <2>3. CASE FindCredential(j) BY <2>3 DEF FindCredential, Turns, Answering
  <2>4. CASE store_registration_challenge(j)
    BY <1>1, <2>4 DEF store_registration_challenge, Stores, Answering, passkeys
  <2>5. CASE take_registration_challenge(j)
    BY <1>1, <2>5 DEF take_registration_challenge, finish_passkey_registration, TakesRegistration, Answering,
                      passkeys
  <2>6. CASE InsertPasskey(j)
    BY <1>1, <2>6 DEF InsertPasskey, Inserts, Answering, passkeys
  <2> QED BY <1>2, <2>1, <2>2, <2>3, <2>4, <2>5, <2>6 DEF Registration
<1>3. CASE Management(j)
  <2>1. CASE RenameFind(j) BY <2>1 DEF RenameFind, rename_passkey, Turns, Answering
  <2>2. CASE RenameReread(j) BY <2>2 DEF RenameReread, Turns, Answering
  <2>3. CASE DeleteFind(j) BY <2>3 DEF DeleteFind, delete_passkey, Turns, Answering
  <2>4. CASE update_name_for_user(j)
    BY <1>1, <2>4 DEF update_name_for_user, Renames, Answering, passkeys
  <2>5. CASE delete_for_user(j)
    BY <1>1, <2>5 DEF delete_for_user, Deletes, Answering, passkeys
  <2> QED BY <1>3, <2>1, <2>2, <2>3, <2>4, <2>5 DEF Management
<1>4. CASE Login(j)
  <2>1. CASE start_login(j)
    BY <1>1, <2>1 DEF start_login, start_passkey_login, Begins, Answering, passkeys
  <2>2. CASE take_login_challenge(j)
    BY <1>1, <2>2 DEF take_login_challenge, finish_passkey_login, TakesLogin, Answering, passkeys
  <2>3. CASE FindPasskey(j)
    <3>1. CASE To(j, "refused") BY <1>1, <2>3, <3>1 DEF FindPasskey, Answering, passkeys
    <3>2. CASE ~To(j, "refused")
      BY <2>3, <3>2 DEF FindPasskey, Finds, find_by_user_handle_and_credential_id, find_by_credential_id
    <3> QED BY <3>1, <3>2
  <2>4. CASE finish_login(j) BY <1>1, <2>4 DEF finish_login, Turns, Answering, Checked
  <2>5. CASE update_credential_after_auth(j)
    BY <1>1, <2>5 DEF update_credential_after_auth, Updates, Answering, passkeys
  <2>6. CASE IssueLoginTokens(j) BY <2>6 DEF IssueLoginTokens, Turns, Answering
  <2> QED BY <1>4, <2>1, <2>2, <2>3, <2>4, <2>5, <2>6 DEF Login
<1> QED BY <1>2, <1>3, <1>4 DEF Requests

\* What a request does as it goes to a step.
TakeChal(j, s, ch) == request' = [request EXCEPT ![j].at = s, ![j].chal = ch]
TakeKey(j, s, n) == request' = [request EXCEPT ![j].at = s, ![j].key = n]
TakeRow(j, s, rs) == request' = [request EXCEPT ![j].at = s, ![j].row = rs]
TakeFound(j, s, n, rs, h) == request' = [request EXCEPT ![j] = [@ EXCEPT !.at = s, !.key = n, !.row = rs, !.handle = h]]

\* A request takes a step and a challenge.
LEMMA GoesChal ==
    ASSUME Typed, NEW j \in Jobs, NEW s \in Steps, NEW ch \in SUBSET Chal,
           TakeChal(j, s, ch)
    PROVE  /\ request' \in [Jobs -> JobRec] /\ \A i \in Jobs \ {j} : request'[i] = request[i]
           /\ request'[j].at = s /\ request'[j].key = request[j].key /\ request'[j].handle = request[j].handle /\ request'[j].row = request[j].row /\ request'[j].chal = ch
<1> DEFINE k == [request[j] EXCEPT !.at = s, !.chal = ch]
<1>1. request[j] \in JobRec
  BY DEF Typed
<1>2. k \in JobRec /\ k.at = s /\ k.key = request[j].key /\ k.handle = request[j].handle /\ k.row = request[j].row /\ k.chal = ch
  BY <1>1 DEF JobRec
<1>3. request' = [request EXCEPT ![j] = k]
  BY <1>1 DEF Typed, JobRec, TakeChal
<1> HIDE DEF k
<1> QED BY <1>2, <1>3 DEF Typed

\* A request takes a step and the id of a passkey.
LEMMA GoesKey ==
    ASSUME Typed, NEW j \in Jobs, NEW s \in Steps, NEW n \in Nat,
           TakeKey(j, s, n)
    PROVE  /\ request' \in [Jobs -> JobRec] /\ \A i \in Jobs \ {j} : request'[i] = request[i]
           /\ request'[j].at = s /\ request'[j].key = n /\ request'[j].handle = request[j].handle /\ request'[j].row = request[j].row /\ request'[j].chal = request[j].chal
<1> DEFINE k == [request[j] EXCEPT !.at = s, !.key = n]
<1>1. request[j] \in JobRec
  BY DEF Typed
<1>2. k \in JobRec /\ k.at = s /\ k.key = n /\ k.handle = request[j].handle /\ k.row = request[j].row /\ k.chal = request[j].chal
  BY <1>1 DEF JobRec
<1>3. request' = [request EXCEPT ![j] = k]
  BY <1>1 DEF Typed, JobRec, TakeKey
<1> HIDE DEF k
<1> QED BY <1>2, <1>3 DEF Typed

\* A request takes a step and what it read.
LEMMA GoesRow ==
    ASSUME Typed, NEW j \in Jobs, NEW s \in Steps, NEW rs \in SUBSET (Row \cup Visual),
           TakeRow(j, s, rs)
    PROVE  /\ request' \in [Jobs -> JobRec] /\ \A i \in Jobs \ {j} : request'[i] = request[i]
           /\ request'[j].at = s /\ request'[j].key = request[j].key /\ request'[j].handle = request[j].handle /\ request'[j].row = rs /\ request'[j].chal = request[j].chal
<1> DEFINE k == [request[j] EXCEPT !.at = s, !.row = rs]
<1>1. request[j] \in JobRec
  BY DEF Typed
<1>2. k \in JobRec /\ k.at = s /\ k.key = request[j].key /\ k.handle = request[j].handle /\ k.row = rs /\ k.chal = request[j].chal
  BY <1>1 DEF JobRec
<1>3. request' = [request EXCEPT ![j] = k]
  BY <1>1 DEF Typed, JobRec, TakeRow
<1> HIDE DEF k
<1> QED BY <1>2, <1>3 DEF Typed

\* A request takes a step and the passkey it found.
LEMMA GoesFind ==
    ASSUME Typed, NEW j \in Jobs, NEW s \in Steps, NEW n \in Nat, NEW rs \in SUBSET (Row \cup Visual), NEW h \in Nat,
           TakeFound(j, s, n, rs, h)
    PROVE  /\ request' \in [Jobs -> JobRec] /\ \A i \in Jobs \ {j} : request'[i] = request[i]
           /\ request'[j].at = s /\ request'[j].key = n /\ request'[j].handle = h /\ request'[j].row = rs /\ request'[j].chal = request[j].chal
<1> DEFINE k == [request[j] EXCEPT !.at = s, !.key = n, !.row = rs, !.handle = h]
<1>1. request[j] \in JobRec
  BY DEF Typed
<1>2. k \in JobRec /\ k.at = s /\ k.key = n /\ k.handle = h /\ k.row = rs /\ k.chal = request[j].chal
  BY <1>1 DEF JobRec
<1>3. request' = [request EXCEPT ![j] = k]
  BY DEF TakeFound
<1> HIDE DEF k
<1> QED BY <1>2, <1>3 DEF Typed

\* A table with one entry less.
Without(f, k) == [x \in DOMAIN f \ {k} |-> f[x]]

\* The other requests do not move, and this one is none of those at rest.
Alone(j) == request' \in [Jobs -> JobRec] /\ (\A i \in Jobs \ {j} : request'[i] = request[i]) /\ request[j].at # "done"

\* user_handle_for_registration: the challenge carries a handle of the user, perhaps a new one.
LEMMA HandleEffect ==
    ASSUME Typed, NEW j \in Jobs, user_handle_for_registration(j)
    PROVE  /\ Alone(j) /\ Ask(j).op = "start registration" /\ request[j].at = "list"
           /\ cap' = cap /\ aged' = aged /\ keys' = keys /\ chal' = chal /\ device' = device
           /\ request'[j].at = "store" /\ request'[j].key = request[j].key /\ request'[j].row = request[j].row
           /\ next' \in [id: Nat, handle: Nat] /\ next'.id = next.id
           /\ \E h \in Nat :
                /\ request'[j].chal = {[user |-> Ask(j).user, handle |-> h, ident |-> NoOne]}
                /\ \/ /\ \E i \in DOMAIN keys : keys[i].user = Ask(j).user /\ keys[i].handle = h
                      /\ next'.handle = next.handle /\ owner' = owner
                   \/ /\ h = next.handle /\ next'.handle = next.handle + 1
                      /\ owner' = With(owner, h, Ask(j).user)
<1> DEFINE mine == {keys[i].handle : i \in list_for_user(Ask(j).user)}
           C(h) == [user |-> Ask(j).user, handle |-> h, ident |-> NoOne]
<1>1. PICK h \in IF mine = {} THEN {next.handle} ELSE mine :
           /\ request' = [request EXCEPT ![j].at = "store", ![j].chal = {C(h)}]
           /\ next' = [next EXCEPT !.handle = IF mine = {} THEN @ + 1 ELSE @]
           /\ owner' = IF mine = {} THEN With(owner, h, Ask(j).user) ELSE owner
  BY DEF user_handle_for_registration
<1>2. next \in [id: Nat, handle: Nat] /\ \A i \in DOMAIN keys : keys[i] \in Row
  BY DEF Typed
<1>3. h \in Nat
  <2>1. CASE mine = {} BY <1>1, <1>2, <2>1
  <2>2. CASE mine # {}
    <3>1. PICK i \in list_for_user(Ask(j).user) : h = keys[i].handle BY <1>1, <2>2
    <3>2. keys[i] \in Row BY <1>2, <3>1 DEF list_for_user
    <3> QED BY <3>1, <3>2 DEF Row
  <2> QED BY <2>1, <2>2
<1>4. {C(h)} \in SUBSET Chal
  <2>1. Ask(j) \in Sent BY AskType DEF Typed
  <2> QED BY <1>3, <2>1 DEF Chal, Sent
<1>5. At(j, "start registration", "list") /\ UNCHANGED <<captchas, keys, chal, device>>
  BY DEF user_handle_for_registration
<1>6. "store" \in Steps
  BY DEF Steps
<1>7. /\ request' \in [Jobs -> JobRec] /\ \A i \in Jobs \ {j} : request'[i] = request[i]
      /\ request'[j].at = "store" /\ request'[j].key = request[j].key /\ request'[j].row = request[j].row
      /\ request'[j].chal = {C(h)}
  <2>1. PICK ch \in SUBSET Chal : ch = {C(h)} BY <1>4
  <2>3. TakeChal(j, "store", ch) BY <1>1, <2>1 DEF TakeChal
  <2>2. /\ request' \in [Jobs -> JobRec] /\ \A i \in Jobs \ {j} : request'[i] = request[i]
        /\ request'[j].at = "store" /\ request'[j].key = request[j].key /\ request'[j].row = request[j].row
        /\ request'[j].chal = ch
    BY <2>3, <1>6, GoesChal
  <2> QED BY <2>1, <2>2
<1>8. /\ next' \in [id: Nat, handle: Nat] /\ next'.id = next.id
      /\ next'.handle = IF mine = {} THEN next.handle + 1 ELSE next.handle
  <2> DEFINE n == IF mine = {} THEN next.handle + 1 ELSE next.handle
  <2>1. n \in Nat BY <1>2
  <2>2. next' = [next EXCEPT !.handle = n] BY <1>1
  <2> HIDE DEF n
  <2>3. next' \in [id: Nat, handle: Nat] /\ next'.id = next.id /\ next'.handle = n
    BY <1>2, <2>1, <2>2
  <2> QED BY <2>3 DEF n
<1>9. \/ /\ \E i \in DOMAIN keys : keys[i].user = Ask(j).user /\ keys[i].handle = h
         /\ next'.handle = next.handle /\ owner' = owner
      \/ /\ h = next.handle /\ next'.handle = next.handle + 1
         /\ owner' = With(owner, h, Ask(j).user)
  <2>1. CASE mine = {} BY <1>1, <1>8, <2>1
  <2>2. CASE mine # {}
    <3>1. h \in mine BY <1>1, <2>2
    <3> QED BY <1>1, <1>8, <2>2, <3>1 DEF list_for_user
  <2> QED BY <2>1, <2>2
<1> QED BY <1>3, <1>5, <1>7, <1>8, <1>9 DEF Alone, At, captchas

\* store_registration_challenge and start_login put a challenge into the cache.
LEMMA StoreEffect ==
    ASSUME Typed, NEW j \in Jobs, Stores(j) \/ Begins(j)
    PROVE  /\ Alone(j) /\ Ask(j).op \in {"start registration", "start login"}
           /\ cap' = cap /\ aged' = aged /\ keys' = keys /\ next' = next /\ device' = device /\ owner' = owner
           /\ request'[j].at = "done" /\ request'[j].key = request[j].key /\ request'[j].row = request[j].row
           /\ request'[j].chal = request[j].chal /\ request[j].at \in {"new", "store"}
           /\ \E c \in Chal : chal' = With(chal, j, c) /\ (c \in request[j].chal \/ c.user = NoOne)
<1>1. "done" \in Steps /\ request[j] \in JobRec
  BY DEF Steps, Typed
<1>2. CASE Stores(j)
  <2>1. /\ To(j, "done") /\ At(j, "start registration", "store")
        /\ UNCHANGED <<captchas, keys, next, device, owner>>
        /\ \E c \in request[j].chal : chal' = With(chal, j, c)
    BY <1>2 DEF Stores, store_registration_challenge
  <2> QED BY <1>1, <2>1, ToStep DEF Alone, At, captchas, JobRec
<1>3. CASE Begins(j)
  <2> DEFINE c == [user |-> NoOne, handle |-> 0, ident |-> Ask(j).user]
  <2>1. /\ To(j, "done") /\ At(j, "start login", "new")
        /\ UNCHANGED <<captchas, keys, next, device, owner>>
        /\ chal' = With(chal, j, c)
    BY <1>3 DEF Begins, start_login, start_passkey_login
  <2>2. c \in Chal /\ c.user = NoOne BY AskType DEF Chal, Typed, Sent
  <2> HIDE DEF c
  <2> QED BY <1>1, <2>1, <2>2, ToStep DEF Alone, At, captchas
<1> QED BY <1>2, <1>3

\* take_registration_challenge and take_login_challenge take one out.
LEMMA TakeEffect ==
    ASSUME Typed, NEW j \in Jobs, TakesRegistration(j) \/ TakesLogin(j)
    PROVE  /\ Alone(j) /\ Ask(j).op \in {"finish registration", "finish login"} /\ request[j].at = "new"
           /\ cap' = cap /\ aged' = aged /\ keys' = keys /\ next' = next /\ device' = device /\ owner' = owner
           /\ Ask(j).of \in DOMAIN chal /\ chal' = Without(chal, Ask(j).of)
           /\ request'[j].chal = {chal[Ask(j).of]} /\ request'[j].key = request[j].key /\ request'[j].row = request[j].row
           /\ \/ request'[j].at = "refused"
              \/ /\ request'[j].at = "user" /\ Ask(j).op = "finish registration"
                 /\ chal[Ask(j).of].user = Ask(j).user
              \/ request'[j].at = "find" /\ Ask(j).op = "finish login"
<1> DEFINE c == chal[Ask(j).of]
<1>1. {"refused", "user", "find"} \subseteq Steps
  BY DEF Steps
<1>2. Ask(j).of \in DOMAIN chal
  BY DEF TakesRegistration, TakesLogin
<1>3. {c} \in SUBSET Chal
  BY <1>2 DEF Typed
<1>4. CASE TakesRegistration(j)
  <2> DEFINE s == IF c.user = Ask(j).user THEN "user" ELSE "refused"
  <2>1. /\ request' = [request EXCEPT ![j].at = s, ![j].chal = {c}]
        /\ At(j, "finish registration", "new") /\ UNCHANGED <<captchas, keys, next, device, owner>>
        /\ chal' = Without(chal, Ask(j).of)
    BY <1>4 DEF TakesRegistration, take_registration_challenge, finish_passkey_registration, Without
  <2>2. s \in Steps BY <1>1
  <2>7. s = "refused" \/ (s = "user" /\ c.user = Ask(j).user) OBVIOUS
  <2> HIDE DEF s, c
  <2>8. PICK t \in Steps : t = s BY <2>2
  <2>3. PICK ch \in SUBSET Chal : ch = {c} BY <1>3
  <2>5. TakeChal(j, t, ch) BY <2>1, <2>3, <2>8 DEF TakeChal
  <2>6. /\ request' \in [Jobs -> JobRec] /\ (\A i \in Jobs \ {j} : request'[i] = request[i])
        /\ request'[j].at = t /\ request'[j].key = request[j].key /\ request'[j].row = request[j].row /\ request'[j].chal = ch
    BY <2>5, GoesChal
  <2>4. /\ request' \in [Jobs -> JobRec] /\ (\A i \in Jobs \ {j} : request'[i] = request[i])
        /\ request'[j].at = s /\ request'[j].key = request[j].key /\ request'[j].row = request[j].row /\ request'[j].chal = {c}
    BY <2>3, <2>6, <2>8
  <2> QED BY <1>2, <2>1, <2>7, <2>4 DEF Alone, At, captchas, c
<1>5. CASE TakesLogin(j)
  <2>1. /\ request' = [request EXCEPT ![j].at = "find", ![j].chal = {c}]
        /\ At(j, "finish login", "new") /\ UNCHANGED <<captchas, keys, next, device, owner>>
        /\ chal' = Without(chal, Ask(j).of)
    BY <1>5 DEF TakesLogin, take_login_challenge, finish_passkey_login, Without
  <2> HIDE DEF c
  <2>3. PICK ch \in SUBSET Chal : ch = {c} BY <1>3
  <2>5. TakeChal(j, "find", ch) BY <2>1, <2>3 DEF TakeChal
  <2>6. /\ request' \in [Jobs -> JobRec] /\ (\A i \in Jobs \ {j} : request'[i] = request[i])
        /\ request'[j].at = "find" /\ request'[j].key = request[j].key /\ request'[j].row = request[j].row /\ request'[j].chal = ch
    BY <1>1, <2>5, GoesChal
  <2>4. /\ request' \in [Jobs -> JobRec] /\ (\A i \in Jobs \ {j} : request'[i] = request[i])
        /\ request'[j].at = "find" /\ request'[j].key = request[j].key /\ request'[j].row = request[j].row /\ request'[j].chal = {c}
    BY <2>3, <2>6
  <2> QED BY <1>2, <2>1, <2>4 DEF Alone, At, captchas, c
<1> QED BY <1>4, <1>5

\* Steps that leave the passkeys and their challenges alone.
SamePasskeys == keys' = keys /\ next' = next /\ chal' = chal /\ device' = device /\ owner' = owner

\* A step that only moves the request.
LEMMA TurnEffect ==
    ASSUME Typed, NEW j \in Jobs, Turns(j)
    PROVE  /\ Alone(j) /\ SamePasskeys /\ cap' = cap /\ aged' = aged
           /\ request[j].at \notin Answering /\ request'[j].at \notin Answering \cup {"passed", "failed", "issue"}
           /\ Ask(j).op \notin {"issue captcha", "answer"}
           /\ request'[j].key = request[j].key /\ request'[j].handle = request[j].handle
           /\ request'[j].row = request[j].row /\ request'[j].chal = request[j].chal
           /\ \/ request'[j].at = "refused"
              \/ Ask(j).op \in {"start registration", "rename", "delete"}
              \/ Ask(j).op = "finish registration" /\ request[j].at \notin {"new", "refused"}
              \/ Ask(j).op = "finish login" /\ request[j].at = "user" /\ request'[j].at = "update" /\ Checked(j)
              \/ Ask(j).op = "finish login" /\ request[j].at = "issue" /\ request'[j].at = "done"
<1>1. PICK s \in {"refused", "list", "find", "insert", "update", "delete", "done"} :
         /\ To(j, s)
         /\ \/ s = "refused"
            \/ Ask(j).op \in {"start registration", "rename", "delete"}
            \/ Ask(j).op = "finish registration" /\ request[j].at \notin {"new", "refused"}
            \/ Ask(j).op = "finish login" /\ request[j].at = "user" /\ s = "update" /\ Checked(j)
            \/ Ask(j).op = "finish login" /\ request[j].at = "issue" /\ s = "done"
  BY DEF Turns
<1>2. s \in Steps /\ s \notin Answering \cup {"passed", "failed", "issue"}
  BY <1>1 DEF Steps, Answering
<1>3. /\ request' \in [Jobs -> JobRec] /\ (\A i \in Jobs \ {j} : request'[i] = request[i])
      /\ request'[j].at = s /\ request'[j].key = request[j].key /\ request'[j].handle = request[j].handle
      /\ request'[j].row = request[j].row /\ request'[j].chal = request[j].chal
  BY <1>1, <1>2, ToStep
<1>4. /\ request[j].at \notin Answering \cup {"done"} /\ UNCHANGED <<captchas, passkeys>>
      /\ Ask(j).op \notin {"issue captcha", "answer"}
  BY DEF Turns
<1> QED BY <1>1, <1>2, <1>3, <1>4 DEF Alone, SamePasskeys, captchas, passkeys

\* The row a registration writes.
Written(j, r) ==
    /\ r \in Row /\ r.user = Ask(j).user /\ r.cred = Ask(j).cred /\ r.count = 0
    /\ \E c \in request[j].chal : r.handle = c.handle

\* InsertPasskey writes the row under a new id and the credential into the authenticator.
LEMMA InsertEffect ==
    ASSUME Typed, NEW j \in Jobs, Inserts(j)
    PROVE  /\ Alone(j) /\ cap' = cap /\ aged' = aged /\ chal' = chal /\ owner' = owner
           /\ Ask(j).op = "finish registration" /\ request[j].at = "insert"
           /\ request'[j].at = "done" /\ request'[j].key = next.id
           /\ request'[j].row = request[j].row /\ request'[j].chal = request[j].chal
           /\ \A i \in DOMAIN keys : keys[i].cred # Ask(j).cred
           /\ next' \in [id: Nat, handle: Nat] /\ next'.id = next.id + 1 /\ next'.handle = next.handle
           /\ device' \in [DOMAIN device' -> Nat] /\ DOMAIN device' \subseteq Creds
           /\ \E r \in Row : Written(j, r) /\ keys' = With(keys, next.id, r)
<1>1. PICK c \in request[j].chal :
        /\ keys' = With(keys, next.id, Passkey(Ask(j).user, Ask(j).cred, c.handle, 0, Ask(j).name))
        /\ next' = [next EXCEPT !.id = @ + 1]
        /\ device' = With(device, Ask(j).cred, c.handle)
        /\ request' = [request EXCEPT ![j].at = "done", ![j].key = next.id]
  BY DEF Inserts, InsertPasskey
<1>2. /\ At(j, "finish registration", "insert") /\ UNCHANGED <<captchas, chal, owner>>
      /\ find_by_credential_id(Ask(j).cred) = {}
  BY DEF Inserts, InsertPasskey
<1>3. c \in Chal /\ next \in [id: Nat, handle: Nat]
  BY DEF Typed, JobRec
<1>4. Ask(j) \in Sent /\ Ask(j).user \in Persons
  BY <1>2, AskType DEF Typed, At
<1> DEFINE r == Passkey(Ask(j).user, Ask(j).cred, c.handle, 0, Ask(j).name)
<1>5. r \in Row /\ Written(j, r)
  BY <1>1, <1>3, <1>4 DEF Passkey, Row, Written, Sent, Chal
<1>6. PICK n \in Nat : n = next.id
  BY <1>3
<1>7. TakeKey(j, "done", n) /\ "done" \in Steps
  BY <1>1, <1>6 DEF TakeKey, Steps
<1>8. /\ request' \in [Jobs -> JobRec] /\ (\A i \in Jobs \ {j} : request'[i] = request[i])
      /\ request'[j].at = "done" /\ request'[j].key = n /\ request'[j].row = request[j].row /\ request'[j].chal = request[j].chal
  BY <1>7, GoesKey
<1>9. next' \in [id: Nat, handle: Nat] /\ next'.id = next.id + 1 /\ next'.handle = next.handle
  BY <1>1, <1>3
<1>10. device' \in [DOMAIN device' -> Nat] /\ DOMAIN device' \subseteq Creds
  <2>1. Ask(j).cred \in Creds /\ c.handle \in Nat BY <1>3, <1>4 DEF Sent, Chal
  <2> QED BY <1>1, <2>1 DEF Typed, With
<1>11. \A i \in DOMAIN keys : keys[i].cred # Ask(j).cred
  BY <1>2 DEF find_by_credential_id
<1> HIDE DEF r
<1>12. keys' = With(keys, next.id, r)
  BY <1>1 DEF r
<1> QED BY <1>2, <1>5, <1>6, <1>8, <1>9, <1>10, <1>11, <1>12 DEF Alone, At, captchas

\* Passkeys may go, and those that stay keep their user, credential and handle.
KeysStay ==
    /\ DOMAIN keys' \subseteq DOMAIN keys /\ keys' \in [DOMAIN keys' -> Row]
    /\ \A i \in DOMAIN keys' :
         keys'[i].user = keys[i].user /\ keys'[i].cred = keys[i].cred /\ keys'[i].handle = keys[i].handle

\* update_name_for_user and delete_for_user leave the counters alone.
LEMMA ManageEffect ==
    ASSUME Typed, NEW j \in Jobs, Renames(j) \/ Deletes(j)
    PROVE  /\ Alone(j) /\ cap' = cap /\ aged' = aged /\ chal' = chal /\ owner' = owner /\ next' = next
           /\ device' = device
           /\ Ask(j).op \in {"rename", "delete"} /\ request[j].at \notin Answering
           /\ request'[j].at \in {"reread", "done"} /\ request'[j].key = request[j].key
           /\ request'[j].row = request[j].row /\ request'[j].chal = request[j].chal
           /\ KeysStay /\ \A i \in DOMAIN keys' : keys'[i].count = keys[i].count
<1>1. {"reread", "done"} \subseteq Steps
  BY DEF Steps
<1>2. keys \in [DOMAIN keys -> Row] /\ Ask(j) \in Sent
  BY AskType DEF Typed
<1>3. CASE Renames(j)
  <2> DEFINE i == Ask(j).of
             r == [keys[i] EXCEPT !.name = Ask(j).name]
  <2>1. /\ At(j, "rename", "update") /\ To(j, "reread") /\ keys' = [keys EXCEPT ![i] = r]
        /\ UNCHANGED <<captchas, next, chal, device, owner>> /\ i \in DOMAIN keys
    BY <1>3 DEF Renames, update_name_for_user, find_by_id_for_user, list_for_user
  <2>2. /\ r \in Row /\ r.user = keys[i].user /\ r.cred = keys[i].cred /\ r.handle = keys[i].handle
        /\ r.count = keys[i].count
    <3>1. keys[i] \in Row /\ Ask(j).name \in STRING BY <1>2, <2>1 DEF Sent
    <3> QED BY <3>1 DEF Row
  <2> HIDE DEF r, i
  <2>3. KeysStay /\ \A x \in DOMAIN keys' : keys'[x].count = keys[x].count
    BY <1>2, <2>1, <2>2 DEF KeysStay
  <2> QED BY <1>1, <2>1, <2>3, ToStep DEF At, Alone, captchas, Answering
<1>4. CASE Deletes(j)
  <2>1. /\ At(j, "delete", "delete") /\ To(j, "done") /\ keys' = Without(keys, Ask(j).of)
        /\ UNCHANGED <<captchas, next, chal, device, owner>>
    BY <1>4 DEF Deletes, delete_for_user, Without
  <2>2. KeysStay /\ \A i \in DOMAIN keys' : keys'[i].count = keys[i].count
    BY <1>2, <2>1 DEF KeysStay, Without
  <2> QED BY <1>1, <2>1, <2>2, ToStep DEF At, Alone, captchas, Answering
<1> QED BY <1>3, <1>4

\* FindPasskey reads the row of the handle and the credential of the answer.
LEMMA FindEffect ==
    ASSUME Typed, NEW j \in Jobs, Finds(j)
    PROVE  /\ Alone(j) /\ SamePasskeys /\ cap' = cap /\ aged' = aged
           /\ Ask(j).op = "finish login" /\ request[j].at = "find"
           /\ request'[j].at = "user" /\ request'[j].chal = request[j].chal
           /\ request'[j].key \in DOMAIN keys /\ request'[j].row = {keys[request'[j].key]}
           /\ request'[j].handle = keys[request'[j].key].handle
           /\ keys[request'[j].key] \in Row
<1>1. PICK i \in DOMAIN keys :
        /\ keys[i].handle = device[Ask(j).cred] /\ Ask(j).cred \in DOMAIN device
        /\ request' = [request EXCEPT ![j] = [@ EXCEPT !.at = "user", !.key = i, !.row = {keys[i]},
                                               !.handle = device[Ask(j).cred]]]
  BY DEF Finds
<1>2. keys[i] \in Row /\ keys[i].handle \in Nat
  BY DEF Typed, Row
<1>3. PICK h \in Nat : h = device[Ask(j).cred]
  BY <1>1, <1>2
<1>4. PICK rs \in SUBSET (Row \cup Visual) : rs = {keys[i]}
  BY <1>2
<1>5. i \in Nat
  BY DEF Typed
<1>6. TakeFound(j, "user", i, rs, h) /\ "user" \in Steps
  BY <1>1, <1>3, <1>4 DEF TakeFound, Steps
<1>7. /\ request' \in [Jobs -> JobRec] /\ (\A x \in Jobs \ {j} : request'[x] = request[x])
      /\ request'[j].at = "user" /\ request'[j].key = i /\ request'[j].handle = h /\ request'[j].row = rs
      /\ request'[j].chal = request[j].chal
  BY <1>5, <1>6, GoesFind
<1>8. At(j, "finish login", "find") /\ UNCHANGED <<captchas, passkeys>>
  BY DEF Finds
<1> QED BY <1>1, <1>2, <1>3, <1>4, <1>7, <1>8 DEF Alone, At, captchas, passkeys, SamePasskeys

\* update_credential_after_auth stores a counter that has grown.
LEMMA UpdateEffect ==
    ASSUME Typed, NEW j \in Jobs, Updates(j)
    PROVE  /\ Alone(j) /\ cap' = cap /\ aged' = aged /\ chal' = chal /\ owner' = owner /\ next' = next
           /\ device' = device
           /\ Ask(j).op = "finish login" /\ request[j].at = "update"
           /\ request'[j].at = "issue" /\ request'[j].key = request[j].key /\ request'[j].handle = request[j].handle
           /\ request'[j].row = request[j].row /\ request'[j].chal = request[j].chal
           /\ KeysStay /\ DOMAIN keys' = DOMAIN keys /\ request[j].key \in DOMAIN keys
           /\ \A i \in DOMAIN keys \ {request[j].key} : keys'[i].count = keys[i].count
           /\ \E r \in request[j].row :
                keys'[request[j].key].count = IF Ask(j).count > r.count THEN Ask(j).count ELSE keys[request[j].key].count
<1> DEFINE k == request[j].key
<1>1. k \in DOMAIN keys /\ At(j, "finish login", "update") /\ To(j, "issue")
      /\ UNCHANGED <<captchas, next, chal, device, owner>>
  BY DEF Updates, update_credential_after_auth
<1>2. PICK r \in request[j].row :
        keys' = [keys EXCEPT ![k].used = TRUE, ![k].count = IF Ask(j).count > r.count THEN Ask(j).count ELSE @]
  BY <1>1 DEF Updates, update_credential_after_auth
<1>3. keys \in [DOMAIN keys -> Row] /\ Ask(j).count \in Nat
  BY AskType DEF Typed, Sent
<1>4. keys[k] \in Row
  BY <1>1, <1>3
<1> DEFINE n == IF Ask(j).count > r.count THEN Ask(j).count ELSE keys[k].count
           q == [keys[k] EXCEPT !.used = TRUE, !.count = n]
<1>5. n \in Nat
  BY <1>3, <1>4 DEF Row
<1>6. keys' = [keys EXCEPT ![k] = q]
  <2> HIDE DEF k
  <2> QED BY <1>1, <1>2, <1>3, <1>4 DEF Row
<1> HIDE DEF n
<1>7. q \in Row /\ q.user = keys[k].user /\ q.cred = keys[k].cred /\ q.handle = keys[k].handle /\ q.count = n
  BY <1>4, <1>5 DEF Row
<1> HIDE DEF q, k
<1>8. /\ KeysStay /\ DOMAIN keys' = DOMAIN keys /\ keys'[k].count = n
      /\ \A i \in DOMAIN keys \ {k} : keys'[i].count = keys[i].count
  BY <1>1, <1>3, <1>6, <1>7 DEF KeysStay
<1>9. "issue" \in Steps
  BY DEF Steps
<1>10. /\ request' \in [Jobs -> JobRec] /\ (\A i \in Jobs \ {j} : request'[i] = request[i])
       /\ request'[j].at = "issue" /\ request'[j].key = request[j].key /\ request'[j].handle = request[j].handle
       /\ request'[j].row = request[j].row /\ request'[j].chal = request[j].chal
  BY <1>1, <1>9, ToStep
<1>11. keys'[k].count = IF Ask(j).count > r.count THEN Ask(j).count ELSE keys[k].count
  BY <1>8 DEF n
<1> QED BY <1>1, <1>2, <1>8, <1>10, <1>11 DEF Alone, At, captchas, k

\* issue_challenge puts a captcha into the cache, which nobody has answered.
LEMMA IssueEffect ==
    ASSUME Typed, NEW j \in Jobs, issue_challenge(j)
    PROVE  /\ Alone(j) /\ SamePasskeys /\ aged' = aged
           /\ Ask(j).op = "issue captcha" /\ request[j].at = "new" /\ request'[j].at = "done"
           /\ request'[j].key = request[j].key /\ request'[j].row = request[j].row /\ request'[j].chal = request[j].chal
           /\ \E v \in Visual : v.attempts = 0 /\ v.max_attempts = load.max_attempts /\ cap' = With(cap, j, v)
<1> DEFINE v == [attempts |-> 0, max_attempts |-> load.max_attempts]
<1>1. /\ At(j, "issue captcha", "new") /\ To(j, "done") /\ cap' = With(cap, j, v)
      /\ UNCHANGED <<aged, passkeys>>
  BY DEF issue_challenge, issue_captcha
<1>2. v \in Visual /\ v.attempts = 0 /\ v.max_attempts = load.max_attempts
  BY AskType DEF Typed, Visual
<1> HIDE DEF v
<1>3. "done" \in Steps
  BY DEF Steps
<1> QED BY <1>1, <1>2, <1>3, ToStep DEF At, Alone, passkeys, SamePasskeys

\* The captcha with one wrong answer more.
Wronged(v) == [v EXCEPT !.attempts = @ + 1]

\* verify_answer reads the captcha and decides.
LEMMA AnswerEffect ==
    ASSUME Typed, NEW j \in Jobs, verify_answer(j)
    PROVE  /\ Alone(j) /\ SamePasskeys /\ cap' = cap /\ aged' = aged
           /\ Ask(j).op = "answer" /\ request[j].at = "new"
           /\ request'[j].key = request[j].key /\ request'[j].chal = request[j].chal
           /\ \/ request'[j].at \in {"passed", "refused"} /\ request'[j].row = {}
                 /\ (request'[j].at = "passed" => ~is_required(Ask(j).need))
              \/ /\ is_required(Ask(j).need) /\ Ask(j).of \in DOMAIN cap
                 /\ request'[j].at \in {"drop", "drop passed"} /\ request'[j].row = {}
              \/ /\ is_required(Ask(j).need) /\ Ask(j).of \in DOMAIN cap
                 /\ request'[j].row = {Wronged(cap[Ask(j).of])} /\ Wronged(cap[Ask(j).of]) \in Visual
                 /\ request'[j].at \in {"drop failed", "again"}
                 /\ request'[j].at = "again" => cap[Ask(j).of].attempts + 1 < cap[Ask(j).of].max_attempts
<1> DEFINE c == Ask(j).of
           Out(s, rs) == \/ /\ s \in {"passed", "refused"} /\ rs = {}
                            /\ (s = "passed" => ~is_required(Ask(j).need))
                         \/ /\ is_required(Ask(j).need) /\ c \in DOMAIN cap
                            /\ s \in {"drop", "drop passed"} /\ rs = {}
                         \/ /\ is_required(Ask(j).need) /\ c \in DOMAIN cap
                            /\ rs = {Wronged(cap[c])}
                            /\ s \in {"drop failed", "again"}
                            /\ s = "again" => ~(cap[c].attempts + 1 >= cap[c].max_attempts)
<1>1. At(j, "answer", "new") /\ UNCHANGED <<captchas, passkeys>>
  BY DEF verify_answer
<1>2. \E s \in Steps : \E rs : Out(s, rs) /\ request' = [request EXCEPT ![j].at = s, ![j].row = rs]
  <2>1. CASE ~is_required(Ask(j).need)
    <3>1. "passed" \in Steps /\ Out("passed", {}) BY <2>1 DEF Steps
    <3> QED BY <2>1, <3>1 DEF verify_answer
  <2>2. CASE is_required(Ask(j).need) /\ c \notin DOMAIN cap
    <3>1. "refused" \in Steps /\ Out("refused", {}) BY <2>2 DEF Steps
    <3> QED BY <2>2, <3>1 DEF verify_answer
  <2>3. CASE is_required(Ask(j).need) /\ c \in DOMAIN cap
    <3>1. CASE c \in aged
      <4>1. "drop" \in Steps /\ Out("drop", {}) BY <2>3 DEF Steps
      <4> QED BY <2>3, <3>1, <4>1 DEF verify_answer
    <3>2. CASE c \notin aged /\ Ask(j).right
      <4>1. "drop passed" \in Steps /\ Out("drop passed", {}) BY <2>3 DEF Steps
      <4> QED BY <2>3, <3>2, <4>1 DEF verify_answer
    <3>3. CASE c \notin aged /\ ~Ask(j).right
      <4> DEFINE s == IF cap[c].attempts + 1 >= cap[c].max_attempts THEN "drop failed" ELSE "again"
      <4>1. s \in Steps /\ Out(s, {Wronged(cap[c])}) BY <2>3 DEF Steps
      <4>2. request' = [request EXCEPT ![j].at = s, ![j].row = {Wronged(cap[c])}]
        BY <2>3, <3>3 DEF verify_answer, Wronged
      <4> QED BY <4>1, <4>2
    <3> QED BY <3>1, <3>2, <3>3
  <2> QED BY <2>1, <2>2, <2>3
<1>9. PICK s \in Steps : \E rs : Out(s, rs) /\ request' = [request EXCEPT ![j].at = s, ![j].row = rs]
  BY <1>2
<1>3. PICK rs : Out(s, rs) /\ request' = [request EXCEPT ![j].at = s, ![j].row = rs]
  BY <1>9
<1>4. c \in DOMAIN cap => /\ Wronged(cap[c]) \in Visual
                          /\ ~(cap[c].attempts + 1 >= cap[c].max_attempts) => cap[c].attempts + 1 < cap[c].max_attempts
  <2> SUFFICES ASSUME c \in DOMAIN cap
               PROVE  /\ Wronged(cap[c]) \in Visual
                      /\ ~(cap[c].attempts + 1 >= cap[c].max_attempts) => cap[c].attempts + 1 < cap[c].max_attempts
    OBVIOUS
  <2>1. cap[c] \in Visual BY DEF Typed
  <2> QED BY <2>1 DEF Visual, Wronged
<1>5. rs \in SUBSET (Row \cup Visual)
  BY <1>3, <1>4
<1>6. TakeRow(j, s, rs)
  BY <1>3 DEF TakeRow
<1>7. /\ request' \in [Jobs -> JobRec] /\ (\A i \in Jobs \ {j} : request'[i] = request[i])
      /\ request'[j].at = s /\ request'[j].key = request[j].key /\ request'[j].row = rs /\ request'[j].chal = request[j].chal
  BY <1>5, <1>6, GoesRow
<1>8. Alone(j) /\ SamePasskeys /\ cap' = cap /\ aged' = aged /\ Ask(j).op = "answer" /\ request[j].at = "new"
  BY <1>1, <1>7 DEF Alone, SamePasskeys, captchas, passkeys, At
<1> QED BY <1>3, <1>4, <1>7, <1>8

\* delete_challenge takes the captcha out of the cache.
LEMMA DropEffect ==
    ASSUME Typed, NEW j \in Jobs, delete_challenge(j)
    PROVE  /\ Alone(j) /\ SamePasskeys /\ aged' = aged /\ cap' = Without(cap, Ask(j).of)
           /\ Ask(j).op = "answer" /\ request[j].at \in {"drop", "drop passed", "drop failed"}
           /\ request'[j].key = request[j].key /\ request'[j].row = request[j].row /\ request'[j].chal = request[j].chal
           /\ \/ request'[j].at = "refused" \/ request'[j].at = "failed" 
              \/ request'[j].at = "passed" /\ request[j].at = "drop passed"
<1> DEFINE s == CASE request[j].at = "drop passed" -> "passed" [] request[j].at = "drop failed" -> "failed"
                  [] OTHER -> "refused"
<1>1. /\ Ask(j).op = "answer" /\ request[j].at \in {"drop", "drop passed", "drop failed"}
      /\ cap' = Without(cap, Ask(j).of) /\ UNCHANGED <<aged, passkeys>> /\ request' = [request EXCEPT ![j].at = s]
  BY DEF delete_challenge, Without, To
<1>2. s = "refused" \/ s = "failed" \/ (s = "passed" /\ request[j].at = "drop passed") OBVIOUS
<1>3. s \in Steps
  BY <1>2 DEF Steps
<1> HIDE DEF s
<1>4. PICK t \in Steps : t = s
  BY <1>3
<1>5. To(j, t)
  BY <1>1, <1>4 DEF To
<1>6. /\ request' \in [Jobs -> JobRec] /\ (\A i \in Jobs \ {j} : request'[i] = request[i])
      /\ request'[j].at = t /\ request'[j].key = request[j].key /\ request'[j].row = request[j].row /\ request'[j].chal = request[j].chal
  BY <1>5, ToStep
<1> QED BY <1>1, <1>2, <1>4, <1>6 DEF Alone, SamePasskeys, passkeys

\* store_challenge writes the captcha back.
LEMMA BackEffect ==
    ASSUME Typed, Holds, NEW j \in Jobs, store_challenge(j)
    PROVE  /\ Alone(j) /\ SamePasskeys /\ aged' = aged
           /\ Ask(j).op = "answer" /\ request[j].at = "again" /\ request'[j].at = "failed"
           /\ request'[j].key = request[j].key /\ request'[j].row = request[j].row /\ request'[j].chal = request[j].chal
           /\ \E held \in request[j].row : held \in Visual /\ cap' = With(cap, Ask(j).of, held)
<1>1. /\ At(j, "answer", "again") /\ To(j, "failed") /\ UNCHANGED <<aged, passkeys>>
      /\ \E held \in request[j].row : cap' = With(cap, Ask(j).of, held)
  BY DEF store_challenge
<1>2. request[j].row \subseteq Visual
 BY <1>1 DEF Holds, HoldsOf, At
<1>3. "failed" \in Steps
  BY DEF Steps
<1> QED BY <1>1, <1>2, <1>3, ToStep DEF Alone, At, SamePasskeys, passkeys

\* Time and administrators.
Passes ==
    /\ request' = request /\ keys' = keys /\ next' = next /\ device' = device /\ owner' = owner
    /\ chal' = chal \/ \E f \in Jobs : chal' = Without(chal, f)
    /\ cap' = cap \/ \E c \in Jobs : cap' = Without(cap, c)
    /\ aged' \subseteq Jobs

\* Time and administrators move no request and add nothing to the caches.
LEMMA PassEffect ==
    ASSUME Typed,
           \/ \E f \in Jobs : ExpireChallenge(f) \/ ExpireCaptcha(f) \/ EvictCaptcha(f)
           \/ \E u \in Persons : DisableUser(u)
           \/ DisableLogin
    PROVE  Passes
<1>0. aged \subseteq Jobs
  BY DEF Typed
<1>1. CASE \E f \in Jobs : ExpireChallenge(f)
  BY <1>0, <1>1 DEF ExpireChallenge, Passes, captchas, Without
<1>2. CASE \E f \in Jobs : ExpireCaptcha(f)
  BY <1>0, <1>2 DEF ExpireCaptcha, Passes, passkeys
<1>3. CASE \E f \in Jobs : EvictCaptcha(f)
  BY <1>0, <1>3 DEF EvictCaptcha, Passes, passkeys, Without
<1>4. CASE \E u \in Persons : DisableUser(u)
  BY <1>0, <1>4 DEF DisableUser, Passes, captchas, passkeys
<1>5. CASE DisableLogin
  BY <1>0, <1>5 DEF DisableLogin, Passes, captchas, passkeys
<1> QED BY <1>1, <1>2, <1>3, <1>4, <1>5

\* Every step is one of these.
LEMMA NextCases ==
    ASSUME Typed, ChallengeNext
    PROVE  Passes \/ \E j \in Jobs :
             \/ Turns(j) \/ user_handle_for_registration(j) \/ Stores(j) \/ TakesRegistration(j)
             \/ Inserts(j) \/ Renames(j) \/ Deletes(j) \/ Begins(j) \/ TakesLogin(j) \/ Finds(j)
             \/ Updates(j) \/ issue_challenge(j) \/ verify_answer(j) \/ delete_challenge(j) \/ store_challenge(j)
<1>1. CASE \E j \in Jobs : Requests(j)
  BY <1>1, StepCases DEF Captcha
<1>2. CASE ~\E j \in Jobs : Requests(j)
  BY <1>2, PassEffect DEF ChallengeNext, Step, Requests
<1> QED BY <1>1, <1>2

-----------------------------------------------------------------------------
(* Types                                                                   *)

\* A step of one request leaves what the others hold.
LEMMA HoldsFrame ==
    ASSUME Typed, Holds, load' = load, NEW j \in Jobs, Alone(j), HoldsOf(j)'
    PROVE  Holds'
<1>1. ASSUME NEW i \in Jobs, i # j
      PROVE  HoldsOf(i)'
  <2>1. request'[i] = request[i] /\ HoldsOf(i) BY <1>1 DEF Alone, Holds
  <2> QED BY <2>1, Frame DEF HoldsOf
<1> QED BY <1>1, Frame DEF Holds

\* A step that leaves what the request holds and takes it nowhere near a captcha.
LEMMA HoldsSame ==
    ASSUME Typed, Holds, load' = load, NEW j \in Jobs, Alone(j), request'[j].at \notin Answering,
           request'[j].row = request[j].row, request'[j].chal = request[j].chal
    PROVE  Holds'
<1>1. HoldsOf(j)
  BY DEF Holds
<1>2. HoldsOf(j)'
  BY <1>1, Frame DEF HoldsOf
<1> QED BY <1>2, HoldsFrame

\* What every request holds, step by step.
LEMMA HoldsStep ==
    ASSUME Typed, Holds, ChallengeNext
    PROVE  Holds'
<1>0. load' = load
  BY DEF ChallengeNext, Watch
<1>1. CASE Passes
  BY <1>0, <1>1, Frame DEF Passes, Holds, HoldsOf
<1>2. ASSUME NEW j \in Jobs, Turns(j) \/ Stores(j) \/ Inserts(j) \/ Renames(j) \/ Deletes(j) \/ Begins(j) \/ Updates(j)
      PROVE  Holds'
  <2>1. /\ Alone(j) /\ request'[j].at \notin Answering /\ request'[j].row = request[j].row /\ request'[j].chal = request[j].chal
    BY <1>2, TurnEffect, StoreEffect, InsertEffect, ManageEffect, UpdateEffect DEF Answering
  <2> QED BY <1>0, <2>1, HoldsSame
<1>3. ASSUME NEW j \in Jobs, issue_challenge(j) \/ delete_challenge(j) \/ store_challenge(j)
      PROVE  Holds'
  <2>1. /\ Alone(j) /\ request'[j].at \notin Answering /\ request'[j].row = request[j].row /\ request'[j].chal = request[j].chal
    BY <1>3, IssueEffect, DropEffect, BackEffect DEF Answering
  <2> QED BY <1>0, <2>1, HoldsSame
<1>4. ASSUME NEW j \in Jobs, user_handle_for_registration(j)
      PROVE  Holds'
  <2>1. /\ Alone(j) /\ request'[j].at = "store" /\ request'[j].row = request[j].row
        /\ (\E c : request'[j].chal = {c}) /\ Ask(j).op = "start registration" /\ HoldsOf(j)
    BY <1>4, HandleEffect DEF Holds
  <2>2. HoldsOf(j)' BY <1>0, <2>1, Frame DEF HoldsOf, Answering
  <2> QED BY <1>0, <2>1, <2>2, HoldsFrame
<1>5. ASSUME NEW j \in Jobs, TakesRegistration(j) \/ TakesLogin(j)
      PROVE  Holds'
  <2>1. /\ Alone(j) /\ request'[j].at \notin Answering /\ request'[j].row = request[j].row
        /\ (\E c : request'[j].chal = {c}) /\ HoldsOf(j)
    BY <1>5, TakeEffect DEF Holds, Answering
  <2>2. HoldsOf(j)' BY <1>0, <2>1, Frame DEF HoldsOf, Answering
  <2> QED BY <1>0, <2>1, <2>2, HoldsFrame
<1>6. ASSUME NEW j \in Jobs, Finds(j)
      PROVE  Holds'
  <2>1. /\ Alone(j) /\ request'[j].at \notin Answering /\ request'[j].chal = request[j].chal
        /\ (\E r \in Row : request'[j].row = {r}) /\ HoldsOf(j) /\ Ask(j).op = "finish login"
    BY <1>6, FindEffect DEF Holds, Answering
  <2>2. HoldsOf(j)' BY <1>0, <2>1, Frame DEF HoldsOf, Answering
  <2> QED BY <1>0, <2>1, <2>2, HoldsFrame
<1>7. ASSUME NEW j \in Jobs, verify_answer(j)
      PROVE  Holds'
  <2>1. /\ Alone(j) /\ request'[j].chal = request[j].chal /\ Ask(j).op = "answer" /\ HoldsOf(j)
        /\ DOMAIN cap \subseteq Jobs
    BY <1>7, AnswerEffect DEF Holds, Typed
  <2>2. /\ request'[j].row = {} \/ \E v \in Visual : request'[j].row = {v}
        /\ request'[j].at \in Answering => is_required(Ask(j).need) /\ Ask(j).of \in DOMAIN cap
    BY <1>7, AnswerEffect DEF Answering
  <2>3. HoldsOf(j)' BY <1>0, <2>1, <2>2, Frame DEF HoldsOf
  <2> QED BY <1>0, <2>1, <2>3, HoldsFrame
<1> QED BY <1>1, <1>2, <1>3, <1>4, <1>5, <1>6, <1>7, NextCases

TypedRest ==
    /\ keys \in [DOMAIN keys -> Row] /\ DOMAIN keys \subseteq Nat /\ next \in [id: Nat, handle: Nat]
    /\ device \in [DOMAIN device -> Nat] /\ DOMAIN device \subseteq Creds
    /\ owner \in [DOMAIN owner -> Persons \cup {NoOne}]
TypedChal == chal \in [DOMAIN chal -> Chal] /\ DOMAIN chal \subseteq Jobs
TypedCap == cap \in [DOMAIN cap -> Visual] /\ DOMAIN cap \subseteq Jobs /\ aged \subseteq Jobs

\* The types, step by step.
LEMMA TypedStep ==
    ASSUME Typed, Holds, ChallengeNext
    PROVE  Typed'
<1>0. load' = load /\ Jobs' = Jobs
  BY Frame DEF ChallengeNext, Watch
<1>1. TypedRest /\ TypedChal /\ TypedCap /\ load \in Workloads /\ request \in [Jobs -> JobRec]
  BY DEF Typed, TypedRest, TypedChal, TypedCap
<1>2. SUFFICES TypedRest' /\ TypedChal' /\ TypedCap' /\ request' \in [Jobs -> JobRec]
  BY <1>0, <1>1 DEF Typed, TypedRest, TypedChal, TypedCap
<1>3. ASSUME keys' = keys, next' = next, device' = device, owner' = owner
      PROVE  TypedRest'
  BY <1>1, <1>3 DEF TypedRest
<1>4. ASSUME chal' = chal
      PROVE  TypedChal'
  BY <1>0, <1>1, <1>4 DEF TypedChal
<1>5. ASSUME NEW f, chal' = Without(chal, f)
      PROVE  TypedChal'
  BY <1>0, <1>1, <1>5 DEF TypedChal, Without
<1>6. ASSUME NEW f \in Jobs, NEW c \in Chal, chal' = With(chal, f, c)
      PROVE  TypedChal'
  BY <1>0, <1>1, <1>6 DEF TypedChal, With
<1>7. ASSUME cap' = cap, aged' \subseteq Jobs
      PROVE  TypedCap'
  BY <1>0, <1>1, <1>7 DEF TypedCap
<1>8. ASSUME NEW f, cap' = Without(cap, f), aged' \subseteq Jobs
      PROVE  TypedCap'
  BY <1>0, <1>1, <1>8 DEF TypedCap, Without
<1>9. ASSUME NEW f \in Jobs, NEW v \in Visual, cap' = With(cap, f, v), aged' \subseteq Jobs
      PROVE  TypedCap'
  BY <1>0, <1>1, <1>9 DEF TypedCap, With
<1>10. aged \subseteq Jobs
  BY <1>1 DEF TypedCap
<1>11. CASE Passes
  BY <1>1, <1>3, <1>4, <1>5, <1>7, <1>8, <1>11 DEF Passes
<1>12. ASSUME NEW j \in Jobs, Turns(j) \/ Finds(j) \/ verify_answer(j)
       PROVE  TypedRest' /\ TypedChal' /\ TypedCap' /\ request' \in [Jobs -> JobRec]
  BY <1>3, <1>4, <1>7, <1>10, <1>12, TurnEffect, FindEffect, AnswerEffect DEF SamePasskeys, Alone
<1>13. ASSUME NEW j \in Jobs, user_handle_for_registration(j)
       PROVE  TypedRest' /\ TypedChal' /\ TypedCap' /\ request' \in [Jobs -> JobRec]
  <2>1. /\ cap' = cap /\ aged' = aged /\ keys' = keys /\ chal' = chal /\ device' = device /\ Alone(j)
        /\ next' \in [id: Nat, handle: Nat] /\ (owner' = owner \/ \E h : owner' = With(owner, h, Ask(j).user))
    BY <1>13, HandleEffect
  <2>2. Ask(j).user \in Persons \cup {NoOne} BY <1>1, AskType DEF Sent
  <2>3. owner' \in [DOMAIN owner' -> Persons \cup {NoOne}]
    BY <1>1, <2>1, <2>2 DEF TypedRest, With
  <2>4. TypedRest' BY <1>1, <2>1, <2>3 DEF TypedRest
  <2> QED BY <1>4, <1>7, <1>10, <2>1, <2>4 DEF Alone
<1>14. ASSUME NEW j \in Jobs, Stores(j) \/ Begins(j)
       PROVE  TypedRest' /\ TypedChal' /\ TypedCap' /\ request' \in [Jobs -> JobRec]
  BY <1>3, <1>6, <1>7, <1>10, <1>14, StoreEffect DEF Alone
<1>15. ASSUME NEW j \in Jobs, TakesRegistration(j) \/ TakesLogin(j)
       PROVE  TypedRest' /\ TypedChal' /\ TypedCap' /\ request' \in [Jobs -> JobRec]
  BY <1>3, <1>5, <1>7, <1>10, <1>15, TakeEffect DEF Alone
<1>16. ASSUME NEW j \in Jobs, Inserts(j)
       PROVE  TypedRest' /\ TypedChal' /\ TypedCap' /\ request' \in [Jobs -> JobRec]
  <2>1. /\ Alone(j) /\ cap' = cap /\ aged' = aged /\ chal' = chal /\ owner' = owner
        /\ next' \in [id: Nat, handle: Nat] /\ device' \in [DOMAIN device' -> Nat] /\ DOMAIN device' \subseteq Creds
    BY <1>16, InsertEffect
  <2>2. PICK r \in Row : keys' = With(keys, next.id, r) BY <1>16, InsertEffect
  <2>3. keys' \in [DOMAIN keys' -> Row] /\ DOMAIN keys' \subseteq Nat
    BY <1>1, <2>2 DEF With, TypedRest
  <2>4. TypedRest' BY <1>1, <2>1, <2>3 DEF TypedRest
  <2> QED BY <1>4, <1>7, <1>10, <2>1, <2>4 DEF Alone
<1>17. ASSUME NEW j \in Jobs, Renames(j) \/ Deletes(j) \/ Updates(j)
       PROVE  TypedRest' /\ TypedChal' /\ TypedCap' /\ request' \in [Jobs -> JobRec]
  <2>1. /\ Alone(j) /\ cap' = cap /\ aged' = aged /\ chal' = chal /\ owner' = owner
        /\ next' = next /\ device' = device /\ KeysStay
    BY <1>17, ManageEffect, UpdateEffect
  <2>2. TypedRest' BY <1>1, <2>1 DEF TypedRest, KeysStay
  <2> QED BY <1>4, <1>7, <1>10, <2>1, <2>2 DEF Alone
<1>18. ASSUME NEW j \in Jobs, issue_challenge(j) \/ delete_challenge(j)
       PROVE  TypedRest' /\ TypedChal' /\ TypedCap' /\ request' \in [Jobs -> JobRec]
  BY <1>3, <1>4, <1>8, <1>9, <1>10, <1>18, IssueEffect, DropEffect DEF SamePasskeys, Alone
<1>19. ASSUME NEW j \in Jobs, store_challenge(j)
       PROVE  TypedRest' /\ TypedChal' /\ TypedCap' /\ request' \in [Jobs -> JobRec]
  <2>1. Ask(j).of \in Jobs BY <1>19, BackEffect DEF Holds, HoldsOf, Answering
  <2> QED BY <1>3, <1>4, <1>9, <1>10, <1>19, <2>1, BackEffect DEF SamePasskeys, Alone
<1> QED BY <1>11, <1>12, <1>13, <1>14, <1>15, <1>16, <1>17, <1>18, <1>19, NextCases

-----------------------------------------------------------------------------
(* Credentials and challenges                                              *)

\* What a step does to the passkeys.
LEMMA KeyCases ==
    ASSUME Typed, Holds, ChallengeNext
    PROVE  \/ KeysStay
           \/ \E j \in Jobs : Inserts(j)
<1>1. CASE keys' = keys
  BY <1>1 DEF KeysStay, Typed
<1> QED
  BY <1>1, NextCases, TurnEffect, HandleEffect, StoreEffect, TakeEffect, ManageEffect, FindEffect,
     UpdateEffect, IssueEffect, AnswerEffect, DropEffect, BackEffect DEF Passes, SamePasskeys

\* The credentials of the passkeys are pairwise different.
LEMMA CredsStep ==
    ASSUME Typed, Holds, CredsApart, ChallengeNext
    PROVE  CredsApart'
<1>1. CASE KeysStay
  BY <1>1 DEF KeysStay, CredsApart
<1>2. ASSUME NEW j \in Jobs, Inserts(j)
      PROVE  CredsApart'
  <2>1. PICK r \in Row : Written(j, r) /\ keys' = With(keys, next.id, r)
    BY <1>2, InsertEffect
  <2>2. r.cred = Ask(j).cred /\ \A i \in DOMAIN keys : keys[i].cred # Ask(j).cred
    BY <1>2, <2>1, InsertEffect DEF Written
  <2> QED BY <2>1, <2>2 DEF CredsApart, With
<1> QED BY <1>1, <1>2, KeyCases

\* Only taking a challenge counts as taking it.
LEMMA TookCases ==
    ASSUME Typed, Holds, ChallengeNext, load' = load
    PROVE  \/ Passes
           \/ \E j \in Jobs : Alone(j) /\ chal' = chal /\ (Took(j)' => Took(j))
           \/ \E j \in Jobs : Stores(j) \/ Begins(j) \/ TakesRegistration(j) \/ TakesLogin(j)
<1>1. ASSUME NEW j \in Jobs, Turns(j)
      PROVE  Alone(j) /\ chal' = chal /\ (Took(j)' => Took(j))
  BY <1>1, TurnEffect, Frame DEF Took, SamePasskeys
<1>2. ASSUME NEW j \in Jobs, user_handle_for_registration(j) \/ Inserts(j)
      PROVE  Alone(j) /\ chal' = chal /\ (Took(j)' => Took(j))
  BY <1>2, HandleEffect, InsertEffect, Frame DEF Took
<1>3. ASSUME NEW j \in Jobs, Renames(j) \/ Deletes(j)
      PROVE  Alone(j) /\ chal' = chal /\ (Took(j)' => Took(j))
  BY <1>3, ManageEffect, Frame DEF Took
<1>4. ASSUME NEW j \in Jobs, Finds(j) \/ Updates(j)
      PROVE  Alone(j) /\ chal' = chal /\ (Took(j)' => Took(j))
  BY <1>4, FindEffect, UpdateEffect, Frame DEF Took, SamePasskeys
<1>5. ASSUME NEW j \in Jobs, issue_challenge(j) \/ verify_answer(j) \/ delete_challenge(j) \/ store_challenge(j)
      PROVE  Alone(j) /\ chal' = chal /\ (Took(j)' => Took(j))
  BY <1>5, IssueEffect, AnswerEffect, DropEffect, BackEffect, Frame DEF Took, SamePasskeys
<1> QED BY <1>1, <1>2, <1>3, <1>4, <1>5, NextCases

\* A challenge is spent once.
LEMMA SpentStep ==
    ASSUME Typed, Holds, Spent, ChallengeNext
    PROVE  Spent'
<1>0. load' = load /\ Jobs' = Jobs /\ \A i : Ask(i)' = Ask(i)
  BY Frame DEF ChallengeNext, Watch
<1>1. ASSUME NEW j \in Jobs, Alone(j), NEW i \in Jobs, i # j
      PROVE  request'[i] = request[i] /\ (Took(i)' <=> Took(i))
  BY <1>0, <1>1 DEF Alone, Took
<1>2. DOMAIN chal \subseteq Jobs
  BY DEF Typed
<1>3. CASE Passes
  <2>1. request' = request /\ DOMAIN chal' \subseteq DOMAIN chal /\ \A i \in Jobs : Took(i)' <=> Took(i)
    BY <1>0, <1>3 DEF Passes, Without, Took
  <2> QED BY <1>0, <2>1 DEF Spent
<1>4. ASSUME NEW j \in Jobs, Alone(j), chal' = chal, Took(j)' => Took(j)
      PROVE  Spent'
  <2>1. request[j].at # "done" BY <1>4 DEF Alone
  <2>2. \A i \in Jobs : Took(i)' => Took(i) BY <1>1, <1>4
  <2>3. \A i \in Jobs : request[i].at = "done" => request'[i].at = "done"
    BY <1>1, <1>4, <2>1
  <2> QED BY <1>0, <1>2, <1>4, <2>2, <2>3 DEF Spent
<1>5. ASSUME NEW j \in Jobs, Stores(j) \/ Begins(j)
      PROVE  Spent'
  <2>1. /\ Alone(j) /\ Ask(j).op \in {"start registration", "start login"} /\ request[j].at # "done"
        /\ request'[j].at = "done"
    BY <1>5, StoreEffect DEF Alone
  <2>2. DOMAIN chal' = DOMAIN chal \cup {j} BY <1>5, StoreEffect DEF With
  <2>3. \A i \in Jobs : Took(i)' => Took(i) BY <1>0, <1>1, <2>1 DEF Took
  <2>4. \A i \in Jobs : request[i].at = "done" => request'[i].at = "done" BY <1>1, <2>1
  <2> QED BY <1>0, <1>2, <2>1, <2>2, <2>3, <2>4 DEF Spent
<1>6. ASSUME NEW j \in Jobs, TakesRegistration(j) \/ TakesLogin(j)
      PROVE  Spent'
  <2>1. Alone(j) /\ request[j].at = "new" /\ Ask(j).of \in DOMAIN chal /\ DOMAIN chal' = DOMAIN chal \ {Ask(j).of}
    BY <1>6, TakeEffect DEF Without
  <2>2. \A i \in Jobs : i # j => (Took(i)' <=> Took(i)) BY <1>1, <2>1
  <2>3. \A i \in Jobs : request[i].at = "done" => request'[i].at = "done" BY <1>1, <2>1
  <2>4. \A i \in Jobs : Took(i) => Ask(i).of # Ask(j).of BY <2>1 DEF Spent
  <2> QED BY <1>0, <1>2, <2>1, <2>2, <2>3, <2>4 DEF Spent
<1> QED BY <1>0, <1>3, <1>4, <1>5, <1>6, TookCases

-----------------------------------------------------------------------------
(* Handles and users                                                       *)

\* Handles are only added, each with its user.
OwnersStay == DOMAIN owner \subseteq DOMAIN owner' /\ \A h \in DOMAIN owner : owner'[h] = owner[h]

\* A handle, once made, stays with the user it was made for.
LEMMA OwnerStep ==
    ASSUME Typed, Holds, Handles, ChallengeNext
    PROVE  /\ OwnersStay
           /\ \A h \in DOMAIN owner' : h \in Nat /\ h < next'.handle
<1>0. next \in [id: Nat, handle: Nat] /\ \A h \in DOMAIN owner : h \in Nat /\ h < next.handle
  BY DEF Typed, Handles
<1>1. CASE owner' = owner /\ next'.handle = next.handle
  BY <1>0, <1>1 DEF OwnersStay
<1>2. ASSUME NEW j \in Jobs, user_handle_for_registration(j)
      PROVE  \/ owner' = owner /\ next'.handle = next.handle
             \/ next'.handle = next.handle + 1 /\ \E v : owner' = With(owner, next.handle, v)
  BY <1>2, HandleEffect
<1>3. CASE next'.handle = next.handle + 1 /\ \E v : owner' = With(owner, next.handle, v)
  BY <1>0, <1>3 DEF With, OwnersStay
<1> QED
  BY <1>1, <1>2, <1>3, NextCases, TurnEffect, StoreEffect, TakeEffect, InsertEffect, ManageEffect, FindEffect,
     UpdateEffect, IssueEffect, AnswerEffect, DropEffect, BackEffect DEF Passes, SamePasskeys

\* The passkeys stand with their users.
LEMMA RowsOwnedStep ==
    ASSUME Typed, Holds, Handles, ChallengeNext
    PROVE  \A i \in DOMAIN keys' : RowOwned(keys[i])'
<1>0. OwnersStay
  BY OwnerStep
<1>1. CASE KeysStay
  <2> SUFFICES ASSUME NEW i \in DOMAIN keys'
               PROVE  RowOwned(keys[i])'
    OBVIOUS
  <2>1. i \in DOMAIN keys /\ keys'[i].handle = keys[i].handle /\ keys'[i].user = keys[i].user
    BY <1>1 DEF KeysStay
  <2>2. RowOwned(keys[i]) BY <2>1 DEF Handles
  <2> QED BY <1>0, <2>1, <2>2 DEF RowOwned, OwnersStay
<1>2. ASSUME NEW j \in Jobs, Inserts(j)
      PROVE  \A i \in DOMAIN keys' : RowOwned(keys[i])'
  <2>1. PICK r \in Row : Written(j, r) /\ keys' = With(keys, next.id, r)
    BY <1>2, InsertEffect
  <2>2. PICK c \in request[j].chal : r.handle = c.handle BY <2>1 DEF Written
  <2>3. /\ Ask(j).op = "finish registration" /\ request[j].at = "insert" /\ owner' = owner
        /\ Ask(j).user \in Persons /\ r.user = Ask(j).user
    BY <1>2, <2>1, InsertEffect, AskType DEF Typed, Written
  <2>4. ChalOwned(c) /\ c.user = Ask(j).user BY <2>2, <2>3 DEF Handles
  <2>5. RowOwned(r) BY <2>2, <2>3, <2>4 DEF ChalOwned, RowOwned
  <2>6. \A i \in DOMAIN keys : RowOwned(keys[i]) BY DEF Handles
  <2> QED BY <2>1, <2>3, <2>5, <2>6 DEF RowOwned, With
<1> QED BY <1>1, <1>2, KeyCases

\* So do the challenges in the cache.
LEMMA ChalsOwnedStep ==
    ASSUME Typed, Holds, Handles, ChallengeNext
    PROVE  \A f \in DOMAIN chal' : ChalOwned(chal[f])'
<1>0. OwnersStay /\ \A f \in DOMAIN chal : ChalOwned(chal[f])
  BY OwnerStep DEF Handles
<1>1. CASE chal' = chal
  BY <1>0, <1>1 DEF ChalOwned, OwnersStay
<1>2. ASSUME NEW f, chal' = Without(chal, f)
      PROVE  \A g \in DOMAIN chal' : ChalOwned(chal[g])'
  BY <1>0, <1>2 DEF ChalOwned, OwnersStay, Without
<1>3. ASSUME NEW j \in Jobs, Stores(j) \/ Begins(j)
      PROVE  \A f \in DOMAIN chal' : ChalOwned(chal[f])'
  <2>1. PICK c \in Chal : chal' = With(chal, j, c) /\ (c \in request[j].chal \/ c.user = NoOne)
    BY <1>3, StoreEffect
  <2>2. ChalOwned(c) /\ owner' = owner
    BY <1>3, <2>1, StoreEffect, ChallengesAssumption DEF Handles, ChalOwned
  <2> QED BY <1>0, <2>1, <2>2 DEF ChalOwned, With
<1> QED
  BY <1>1, <1>2, <1>3, NextCases, TurnEffect, HandleEffect, TakeEffect, InsertEffect, ManageEffect, FindEffect,
     UpdateEffect, IssueEffect, AnswerEffect, DropEffect, BackEffect DEF Passes, SamePasskeys

\* The challenges a request holds stand with their users.
HeldOwned(j) ==
    \A c \in request[j].chal :
        /\ ChalOwned(c)
        /\ Ask(j).op = "finish registration" /\ request[j].at \notin {"new", "refused"} => c.user = Ask(j).user

\* A request never holds a challenge whose handle belongs to someone else.
LEMMA HeldOwnedStep ==
    ASSUME Typed, Holds, Handles, ChallengeNext
    PROVE  \A i \in Jobs : HeldOwned(i)'
<1>0. OwnersStay /\ load' = load /\ \A i : Ask(i)' = Ask(i)
  BY OwnerStep, Frame DEF ChallengeNext, Watch
<1>1. \A i \in Jobs : HeldOwned(i)
  BY DEF Handles, HeldOwned
<1>2. ASSUME NEW i \in Jobs, request'[i] = request[i]
      PROVE  HeldOwned(i)'
  <2>1. HeldOwned(i) BY <1>1
  <2> QED BY <1>0, <1>2, <2>1 DEF HeldOwned, ChalOwned, OwnersStay
<1>3. CASE Passes
  BY <1>2, <1>3 DEF Passes
<1>4. ASSUME NEW j \in Jobs, Alone(j), HeldOwned(j)'
      PROVE  \A i \in Jobs : HeldOwned(i)'
  BY <1>2, <1>4 DEF Alone
<1>5. ASSUME NEW j \in Jobs, Alone(j), request'[j].chal = request[j].chal,
             Ask(j).op = "finish registration" /\ request'[j].at # "refused" => request[j].at \notin {"new", "refused"}
      PROVE  \A i \in Jobs : HeldOwned(i)'
  <2>1. HeldOwned(j) BY <1>1
  <2>2. HeldOwned(j)' BY <1>0, <1>5, <2>1 DEF HeldOwned, ChalOwned, OwnersStay
  <2> QED BY <1>4, <1>5, <2>2
<1>6. ASSUME NEW j \in Jobs, Turns(j) \/ Stores(j) \/ Begins(j) \/ Inserts(j) \/ Renames(j) \/ Deletes(j)
      PROVE  \A i \in Jobs : HeldOwned(i)'
  BY <1>5, <1>6, TurnEffect, StoreEffect, InsertEffect, ManageEffect
<1>7. ASSUME NEW j \in Jobs, Finds(j) \/ Updates(j)
      PROVE  \A i \in Jobs : HeldOwned(i)'
  BY <1>5, <1>7, FindEffect, UpdateEffect
<1>8. ASSUME NEW j \in Jobs, issue_challenge(j) \/ verify_answer(j) \/ delete_challenge(j) \/ store_challenge(j)
      PROVE  \A i \in Jobs : HeldOwned(i)'
  BY <1>5, <1>8, IssueEffect, AnswerEffect, DropEffect, BackEffect
<1>9. ASSUME NEW j \in Jobs, TakesRegistration(j) \/ TakesLogin(j)
      PROVE  \A i \in Jobs : HeldOwned(i)'
  <2>1. /\ Alone(j) /\ owner' = owner /\ Ask(j).of \in DOMAIN chal /\ request'[j].chal = {chal[Ask(j).of]}
        /\ Ask(j).op = "finish registration" /\ request'[j].at # "refused" => chal[Ask(j).of].user = Ask(j).user
    BY <1>9, TakeEffect
  <2>2. ChalOwned(chal[Ask(j).of]) BY <2>1 DEF Handles
  <2>3. HeldOwned(j)' BY <1>0, <2>1, <2>2 DEF HeldOwned, ChalOwned
  <2> QED BY <1>4, <2>1, <2>3
<1>10. ASSUME NEW j \in Jobs, user_handle_for_registration(j)
       PROVE  \A i \in Jobs : HeldOwned(i)'
  <2>1. Alone(j) /\ Ask(j).op = "start registration" BY <1>10, HandleEffect
  <2>2. PICK h \in Nat :
           /\ request'[j].chal = {[user |-> Ask(j).user, handle |-> h, ident |-> NoOne]}
           /\ \/ /\ \E i \in DOMAIN keys : keys[i].user = Ask(j).user /\ keys[i].handle = h
                 /\ next'.handle = next.handle /\ owner' = owner
              \/ /\ h = next.handle /\ next'.handle = next.handle + 1
                 /\ owner' = With(owner, h, Ask(j).user)
    BY <1>10, HandleEffect
  <2>3. h \in DOMAIN owner' /\ owner'[h] = Ask(j).user
    <3>1. \A i \in DOMAIN keys : keys[i].handle \in DOMAIN owner /\ owner[keys[i].handle] = keys[i].user
      BY DEF Handles, RowOwned
    <3> QED BY <2>2, <3>1 DEF With
  <2>4. PICK c : c = [user |-> Ask(j).user, handle |-> h, ident |-> NoOne] OBVIOUS
  <2>5. c.user = Ask(j).user /\ c.handle = h /\ request'[j].chal = {c} BY <2>2, <2>4
  <2>6. ChalOwned(c)' /\ Ask(j)'.op = "start registration"
    BY <1>0, <2>1, <2>3, <2>5 DEF ChalOwned
  <2>7. HeldOwned(j)' BY <2>5, <2>6 DEF HeldOwned
  <2> QED BY <1>4, <2>1, <2>7
<1> QED BY <1>3, <1>6, <1>7, <1>8, <1>9, <1>10, NextCases

\* Handles are made once and stand with their users.
LEMMA HandlesStep ==
    ASSUME Typed, Holds, Handles, ChallengeNext
    PROVE  Handles'
<1>1. Jobs' = Jobs
  BY Frame DEF ChallengeNext, Watch
<1>2. /\ \A h \in DOMAIN owner' : h \in Nat /\ h < next'.handle
      /\ \A i \in DOMAIN keys' : RowOwned(keys[i])'
      /\ \A f \in DOMAIN chal' : ChalOwned(chal[f])'
      /\ \A i \in Jobs : HeldOwned(i)'
  BY OwnerStep, RowsOwnedStep, ChalsOwnedStep, HeldOwnedStep
<1> QED BY <1>1, <1>2 DEF Handles, HeldOwned

\* Logins, one by one.
LoginOf(j) ==
    LoggingIn(j) => \A r \in request[j].row :
        /\ r.handle = request[j].handle /\ RowOwned(r)
        /\ request[j].at # "user" => \A c \in request[j].chal : c.ident # NoOne => r.user = c.ident

\* Logins work on the row of the handle they were given.
LEMMA LoginsStep ==
    ASSUME Typed, Holds, Handles, Logins, ChallengeNext
    PROVE  Logins'
<1>0. OwnersStay /\ load' = load /\ Jobs' = Jobs /\ \A i : Ask(i)' = Ask(i)
  BY OwnerStep, Frame DEF ChallengeNext, Watch
<1>1. \A i \in Jobs : LoginOf(i)
  BY DEF Logins, LoginOf
<1>2. SUFFICES \A i \in Jobs : LoginOf(i)'
  BY <1>0 DEF Logins, LoginOf
<1>3. ASSUME NEW i \in Jobs, request'[i] = request[i]
      PROVE  LoginOf(i)'
  <2>1. LoginOf(i) BY <1>1
  <2> QED BY <1>0, <1>3, <2>1 DEF LoginOf, LoggingIn, RowOwned, OwnersStay
<1>4. CASE Passes
  BY <1>3, <1>4 DEF Passes
<1>5. ASSUME NEW j \in Jobs, Alone(j), LoginOf(j)'
      PROVE  \A i \in Jobs : LoginOf(i)'
  BY <1>3, <1>5 DEF Alone
<1>6. ASSUME NEW j \in Jobs, Alone(j), Ask(j).op # "finish login" \/ request'[j].at \in {"refused", "find"}
      PROVE  \A i \in Jobs : LoginOf(i)'
  <2>1. LoginOf(j)' BY <1>0, <1>6 DEF LoginOf, LoggingIn
  <2> QED BY <1>5, <1>6, <2>1
<1>7. ASSUME NEW j \in Jobs, Stores(j) \/ Begins(j) \/ Inserts(j) \/ Renames(j) \/ Deletes(j)
      PROVE  \A i \in Jobs : LoginOf(i)'
  BY <1>6, <1>7, StoreEffect, InsertEffect, ManageEffect
<1>8. ASSUME NEW j \in Jobs, TakesRegistration(j) \/ TakesLogin(j) \/ user_handle_for_registration(j)
      PROVE  \A i \in Jobs : LoginOf(i)'
  BY <1>6, <1>8, TakeEffect, HandleEffect
<1>9. ASSUME NEW j \in Jobs, issue_challenge(j) \/ verify_answer(j) \/ delete_challenge(j) \/ store_challenge(j)
      PROVE  \A i \in Jobs : LoginOf(i)'
  BY <1>6, <1>9, IssueEffect, AnswerEffect, DropEffect, BackEffect
<1>10. ASSUME NEW j \in Jobs, Finds(j)
       PROVE  \A i \in Jobs : LoginOf(i)'
  <2>1. /\ Alone(j) /\ request'[j].at = "user" /\ request'[j].key \in DOMAIN keys /\ owner' = owner
        /\ request'[j].row = {keys[request'[j].key]} /\ request'[j].handle = keys[request'[j].key].handle
    BY <1>10, FindEffect DEF SamePasskeys
  <2>2. RowOwned(keys[request'[j].key]) BY <2>1 DEF Handles
  <2>3. LoginOf(j)' BY <2>1, <2>2 DEF LoginOf, RowOwned
  <2> QED BY <1>5, <2>1, <2>3
<1>11. ASSUME NEW j \in Jobs, Updates(j)
       PROVE  \A i \in Jobs : LoginOf(i)'
  <2>1. /\ Alone(j) /\ Ask(j).op = "finish login" /\ request[j].at = "update" /\ owner' = owner
        /\ request'[j].row = request[j].row /\ request'[j].handle = request[j].handle /\ request'[j].chal = request[j].chal
    BY <1>11, UpdateEffect
  <2>2. LoginOf(j) BY <1>1
  <2>3. LoginOf(j)' BY <2>1, <2>2 DEF LoginOf, RowOwned, LoggingIn
  <2> QED BY <1>5, <2>1, <2>3
<1>12. ASSUME NEW j \in Jobs, Turns(j)
       PROVE  \A i \in Jobs : LoginOf(i)'
  <2>1. /\ Alone(j) /\ owner' = owner
        /\ request'[j].row = request[j].row /\ request'[j].handle = request[j].handle /\ request'[j].chal = request[j].chal
    BY <1>12, TurnEffect DEF SamePasskeys
  <2>2. LoginOf(j) /\ HoldsOf(j) BY <1>1 DEF Holds
  <2>3. CASE Ask(j).op # "finish login" \/ request'[j].at = "refused" BY <1>6, <2>1, <2>3
  <2>4. CASE Ask(j).op = "finish login" /\ request[j].at = "issue" /\ request'[j].at = "done"
    <3>1. LoginOf(j)' BY <2>1, <2>2, <2>4 DEF LoginOf, RowOwned, LoggingIn
    <3> QED BY <1>5, <2>1, <3>1
  <2>5. CASE Ask(j).op = "finish login" /\ request[j].at = "user" /\ Checked(j)
    <3>1. \A r \in request[j].row : \A c \in request[j].chal : c.ident # NoOne => r.user = c.ident
      BY <2>2, <2>5 DEF Checked, HoldsOf, ensure_login_identifier_matches
    <3>2. LoginOf(j)' BY <2>1, <2>2, <2>5, <3>1 DEF LoginOf, RowOwned, LoggingIn
    <3> QED BY <1>5, <2>1, <3>2
  <2> QED BY <1>12, <2>3, <2>4, <2>5, TurnEffect
<1> QED BY <1>4, <1>7, <1>8, <1>9, <1>10, <1>11, <1>12, NextCases

-----------------------------------------------------------------------------
(* Counters                                                                *)

\* Two requests that work on one thing at once entangle it, and it stays so.
LEMMA WatchEffect ==
    ASSUME Watch
    PROVE  /\ tangled \subseteq tangled'
           /\ \A i, j \in Jobs : i # j /\ KeyWork(i)' /\ KeyWork(j)' /\ request'[i].key = request'[j].key =>
                <<"key", request'[i].key>> \in tangled'
           /\ \A i, j \in Jobs : i # j /\ request'[i].at \in Answering /\ request'[j].at \in Answering /\ Ask(i).of = Ask(j).of =>
                <<"captcha", Ask(i).of>> \in tangled'
<1>0. load' = load /\ Jobs' = Jobs /\ \A i : Ask(i)' = Ask(i)
  BY Frame DEF Watch
<1>1. tangled' = tangled \cup {On(w)' : w \in {v \in Working' : \E x \in Working' : x # v /\ On(x)' = On(v)'}}
  BY DEF Watch
<1>2. ASSUME NEW v \in Working', NEW x \in Working', x # v, On(x)' = On(v)'
      PROVE  On(v)' \in tangled'
  BY <1>1, <1>2
<1>3. ASSUME NEW i \in Jobs, NEW j \in Jobs, i # j, KeyWork(i)', KeyWork(j)', request'[i].key = request'[j].key
      PROVE  <<"key", request'[i].key>> \in tangled'
  <2>1. <<"key", i>> \in Working' /\ <<"key", j>> \in Working' /\ <<"key", i>> # <<"key", j>>
    BY <1>0, <1>3 DEF Working, KeyWork
  <2>2. On(<<"key", i>>)' = <<"key", request'[i].key>> /\ On(<<"key", j>>)' = <<"key", request'[i].key>>
    BY <1>3 DEF On
  <2> QED BY <1>2, <2>1, <2>2
<1>4. ASSUME NEW i \in Jobs, NEW j \in Jobs, i # j, request'[i].at \in Answering, request'[j].at \in Answering,
             Ask(i).of = Ask(j).of
      PROVE  <<"captcha", Ask(i).of>> \in tangled'
  <2>1. /\ <<"captcha", i>> \in Working' /\ <<"captcha", j>> \in Working'
        /\ <<"captcha", i>> # <<"captcha", j>>
    BY <1>0, <1>4 DEF Working, Answering
  <2>2. On(<<"captcha", i>>)' = <<"captcha", Ask(i).of>> /\ On(<<"captcha", j>>)' = <<"captcha", Ask(i).of>>
    BY <1>0, <1>4 DEF On
  <2> QED BY <1>2, <2>1, <2>2
<1> QED BY <1>1, <1>3, <1>4

\* The ids and the counters stay.
CountsStay == KeysStay /\ next'.id = next.id /\ \A i \in DOMAIN keys' : keys'[i].count = keys[i].count
\* A step that leaves the login as it is, or has its answer checked.
Untouched(j) ==
    /\ Alone(j) /\ CountsStay /\ request'[j].key = request[j].key
    /\ Ask(j).op = "finish login" => request'[j].row = request[j].row
    /\ (KeyWork(j)' => KeyWork(j)) /\ (Entered(j)' => Entered(j))
    /\ Ask(j).op = "finish login" /\ request'[j].at = "update" => Checked(j)

\* Every step leaves ids and counters alone, or is one of three.
LEMMA CounterCases ==
    ASSUME Typed, Holds, ChallengeNext
    PROVE  \/ request' = request /\ CountsStay
           \/ \E j \in Jobs : Untouched(j) \/ Inserts(j) \/ Finds(j) \/ Updates(j)
<1>0. load' = load /\ \A i : Ask(i)' = Ask(i)
  BY Frame DEF ChallengeNext, Watch
<1>1. keys' = keys /\ next'.id = next.id => CountsStay
  BY DEF CountsStay, KeysStay, Typed
<1>2. CASE Passes
  BY <1>1, <1>2 DEF Passes
<1>3. ASSUME NEW j \in Jobs, Turns(j)
      PROVE  Untouched(j)
  <2>1. CountsStay /\ Alone(j) /\ request'[j].key = request[j].key /\ request'[j].row = request[j].row
    BY <1>1, <1>3, TurnEffect DEF SamePasskeys
  <2>2. /\ (KeyWork(j)' => KeyWork(j)) /\ (Entered(j)' => Entered(j))
        /\ Ask(j).op = "finish login" /\ request'[j].at = "update" => Checked(j)
    BY <1>0, <1>3, TurnEffect DEF KeyWork, Entered
  <2> QED BY <2>1, <2>2 DEF Untouched
<1>4. ASSUME NEW j \in Jobs, user_handle_for_registration(j) \/ Stores(j) \/ Begins(j)
      PROVE  Untouched(j)
  <2>1. CountsStay /\ Alone(j) /\ request'[j].key = request[j].key /\ Ask(j).op # "finish login"
    BY <1>1, <1>4, HandleEffect, StoreEffect
  <2> QED BY <1>0, <2>1 DEF Untouched, KeyWork, Entered
<1>5. ASSUME NEW j \in Jobs, TakesRegistration(j) \/ TakesLogin(j)
      PROVE  Untouched(j)
  <2>1. /\ CountsStay /\ Alone(j) /\ request'[j].key = request[j].key /\ request'[j].row = request[j].row
        /\ Ask(j).op # "finish login" \/ request'[j].at \in {"refused", "find"}
    BY <1>1, <1>5, TakeEffect
  <2> QED BY <1>0, <2>1 DEF Untouched, KeyWork, Entered
<1>6. ASSUME NEW j \in Jobs, Renames(j) \/ Deletes(j)
      PROVE  Untouched(j)
  <2>1. CountsStay /\ Alone(j) /\ request'[j].key = request[j].key /\ Ask(j).op # "finish login"
    BY <1>6, ManageEffect DEF CountsStay
  <2> QED BY <1>0, <2>1 DEF Untouched, KeyWork, Entered
<1>7. ASSUME NEW j \in Jobs, issue_challenge(j) \/ verify_answer(j) \/ delete_challenge(j) \/ store_challenge(j)
      PROVE  Untouched(j)
  <2>1. CountsStay /\ Alone(j) /\ request'[j].key = request[j].key /\ Ask(j).op # "finish login"
    BY <1>1, <1>7, IssueEffect, AnswerEffect, DropEffect, BackEffect DEF SamePasskeys
  <2> QED BY <1>0, <2>1 DEF Untouched, KeyWork, Entered
<1> QED BY <1>2, <1>3, <1>4, <1>5, <1>6, <1>7, NextCases

\* Counters are numbers.
LEMMA CountTypes ==
    ASSUME Typed, Holds
    PROVE  /\ \A j \in Jobs : Ask(j).count \in Nat /\ request[j].key \in Nat
           /\ \A i \in DOMAIN keys : i \in Nat /\ keys[i].count \in Nat
           /\ \A j \in Jobs : Ask(j).op = "finish login" => \A r \in request[j].row : r.count \in Nat
           /\ next.id \in Nat
<1>1. \A j \in Jobs : Ask(j).count \in Nat
  BY AskType DEF Typed, Sent
<1>2. \A j \in Jobs : request[j].key \in Nat
  BY DEF Typed, JobRec
<1>3. \A i \in DOMAIN keys : i \in Nat /\ keys[i].count \in Nat
  BY DEF Typed, Row
<1>4. \A j \in Jobs : Ask(j).op = "finish login" => \A r \in request[j].row : r.count \in Nat
  BY DEF Holds, HoldsOf, Row
<1> QED BY <1>1, <1>2, <1>3, <1>4 DEF Typed

\* A new passkey: every login that works on a passkey works on an older one.
LEMMA NewKey ==
    ASSUME Typed, Holds, Counters, NEW j \in Jobs, Inserts(j)
    PROVE  /\ Alone(j) /\ Ask(j).op = "finish registration" /\ next'.id = next.id + 1
           /\ request'[j].key = next.id
           /\ DOMAIN keys' = DOMAIN keys \cup {next.id}
           /\ \A i \in DOMAIN keys : keys'[i] = keys[i]
           /\ \A i \in Jobs : request[i].key # next.id
<1>1. PICK r \in Row : keys' = With(keys, next.id, r)
  BY InsertEffect
<1>2. (\A i \in DOMAIN keys : i # next.id) /\ \A i \in Jobs : request[i].key # next.id
  <2>1. next.id \in Nat /\ (\A i \in DOMAIN keys : i \in Nat) /\ \A i \in Jobs : request[i].key \in Nat
    BY CountTypes
  <2>2. Ids BY DEF Counters
  <2>3. ASSUME NEW i \in DOMAIN keys PROVE i # next.id BY <2>1, <2>2 DEF Ids
  <2>4. ASSUME NEW i \in Jobs PROVE request[i].key # next.id BY <2>1, <2>2 DEF Ids
  <2> QED BY <2>3, <2>4
<1> QED BY <1>1, <1>2, InsertEffect DEF With

\* Passkey ids are handed out in order.
LEMMA IdsStep ==
    ASSUME Typed, Holds, Counters, ChallengeNext
    PROVE  Ids'
<1>0. Jobs' = Jobs
  BY Frame DEF ChallengeNext, Watch
<1>1. Ids /\ next.id \in Nat /\ (\A i \in DOMAIN keys : i \in Nat) /\ (\A j \in Jobs : request[j].key \in Nat)
  BY CountTypes DEF Counters
<1>2. CASE request' = request /\ CountsStay
  BY <1>0, <1>1, <1>2 DEF Ids, CountsStay, KeysStay
<1>3. ASSUME NEW j \in Jobs, Untouched(j)
      PROVE  Ids'
  <2>1. \A i \in Jobs : request'[i].key = request[i].key BY <1>3 DEF Untouched, Alone
  <2> QED BY <1>0, <1>1, <1>3, <2>1 DEF Ids, CountsStay, KeysStay, Untouched
<1>4. ASSUME NEW j \in Jobs, Inserts(j)
      PROVE  Ids'
  <2>1. \A i \in Jobs : request'[i].key = request[i].key \/ request'[i].key = next.id
    BY <1>4, NewKey DEF Alone
  <2>2. next'.id = next.id + 1 /\ DOMAIN keys' = DOMAIN keys \cup {next.id}
    BY <1>4, NewKey
  <2> QED BY <1>0, <1>1, <2>1, <2>2 DEF Ids
<1>5. ASSUME NEW j \in Jobs, Finds(j)
      PROVE  Ids'
  <2>1. keys' = keys /\ next' = next /\ \A i \in Jobs : request'[i].key = request[i].key \/ request'[i].key \in DOMAIN keys
    BY <1>5, FindEffect DEF Alone, SamePasskeys
  <2> QED BY <1>0, <1>1, <2>1 DEF Ids
<1>6. ASSUME NEW j \in Jobs, Updates(j)
      PROVE  Ids'
  <2>1. DOMAIN keys' = DOMAIN keys /\ next' = next /\ \A i \in Jobs : request'[i].key = request[i].key
    BY <1>6, UpdateEffect DEF Alone
  <2> QED BY <1>0, <1>1, <2>1 DEF Ids
<1> QED BY <1>2, <1>3, <1>4, <1>5, <1>6, CounterCases

\* Two logins on one passkey entangle it.
LEMMA AloneStep ==
    ASSUME ChallengeNext
    PROVE  KeyAlone'
<1>1. Watch /\ Jobs' = Jobs
  BY Frame DEF ChallengeNext, Watch
<1> QED BY <1>1, WatchEffect DEF KeyAlone, Free

\* The check of finish_login: the counter of the answer has grown.
LEMMA GrownStep ==
    ASSUME Typed, Holds, Counters, ChallengeNext
    PROVE  Grown'
<1>0. Jobs' = Jobs /\ \A i : Ask(i)' = Ask(i)
  BY Frame DEF ChallengeNext, Watch
<1>1. Grown
  BY DEF Counters
<1>2. ASSUME NEW j \in Jobs, Alone(j), Ask(j).op = "finish login" /\ request'[j].at = "update" =>
               /\ request'[j].row = request[j].row
               /\ \A r \in request[j].row : Ask(j).count > r.count \/ (Ask(j).count = 0 /\ r.count = 0)
      PROVE  Grown'
  BY <1>0, <1>1, <1>2 DEF Grown, Alone
<1>3. CASE request' = request
  BY <1>0, <1>1, <1>3 DEF Grown
<1>4. ASSUME NEW j \in Jobs, Untouched(j)
      PROVE  Grown'
  <2>1. ASSUME Checked(j)
        PROVE  \A r \in request[j].row : Ask(j).count > r.count \/ (Ask(j).count = 0 /\ r.count = 0)
    <3>1. HoldsOf(j) BY DEF Holds
    <3> QED BY <2>1, <3>1 DEF Checked, HoldsOf, finish_discoverable_authentication
  <2> QED BY <1>2, <1>4, <2>1 DEF Untouched
<1>5. ASSUME NEW j \in Jobs, Inserts(j) \/ Finds(j) \/ Updates(j)
      PROVE  Grown'
  BY <1>2, <1>5, InsertEffect, FindEffect, UpdateEffect
<1> QED BY <1>3, <1>4, <1>5, CounterCases

\* What a step leaves of a login that it does not move.
LEMMA KnownStep ==
    ASSUME Typed, Holds, Counters, ChallengeNext
    PROVE  Known'
<1>0. Jobs' = Jobs /\ \A i : Ask(i)' = Ask(i)
  BY Frame DEF ChallengeNext, Watch
<1>1. Known /\ KeyAlone /\ \A k : Free(k)' => Free(k)
  BY WatchEffect DEF Counters, ChallengeNext, Free
<1>2. SUFFICES ASSUME NEW i \in Jobs, KeyWork(i)', Free(request[i].key)', request'[i].key \in DOMAIN keys',
                      NEW r \in request'[i].row
               PROVE  r.count = keys'[request'[i].key].count
  BY <1>0 DEF Known
<1>3. ASSUME KeyWork(i), request'[i].key = request[i].key, request'[i].row = request[i].row, request[i].key \in DOMAIN keys,
             keys'[request[i].key].count = keys[request[i].key].count
      PROVE  r.count = keys'[request'[i].key].count
  <2>1. Free(request[i].key) BY <1>1, <1>2, <1>3 DEF Free
  <2> QED BY <1>1, <1>2, <1>3, <2>1 DEF Known
<1>4. ASSUME request'[i] = request[i]
      PROVE  KeyWork(i) /\ request'[i].key = request[i].key /\ request'[i].row = request[i].row
  BY <1>0, <1>2, <1>4 DEF KeyWork
<1>5. CASE request' = request /\ CountsStay
  BY <1>2, <1>3, <1>4, <1>5 DEF CountsStay, KeysStay
<1>6. ASSUME NEW j \in Jobs, Untouched(j)
      PROVE  r.count = keys'[request'[i].key].count
  <2>1. KeyWork(i) /\ request'[i].key = request[i].key /\ request'[i].row = request[i].row
    BY <1>0, <1>2, <1>4, <1>6 DEF Untouched, Alone, KeyWork
  <2> QED BY <1>2, <1>3, <1>6, <2>1 DEF Untouched, CountsStay, KeysStay
<1>7. ASSUME NEW j \in Jobs, Inserts(j)
      PROVE  r.count = keys'[request'[i].key].count
  <2>1. i # j BY <1>0, <1>2, <1>7, NewKey DEF KeyWork
  <2>2. request'[i] = request[i] BY <1>7, <2>1, NewKey DEF Alone
  <2>3. request[i].key \in DOMAIN keys /\ keys'[request[i].key] = keys[request[i].key]
    BY <1>2, <1>7, <2>2, NewKey
  <2> QED BY <1>3, <1>4, <2>2, <2>3
<1>8. ASSUME NEW j \in Jobs, Finds(j)
      PROVE  r.count = keys'[request'[i].key].count
  <2>1. CASE i = j
    <3>1. keys' = keys /\ request'[j].row = {keys[request'[j].key]}
      BY <1>8, FindEffect DEF SamePasskeys
    <3>2. r \in request'[j].row BY <1>2, <2>1
    <3> QED BY <2>1, <3>1, <3>2
  <2>2. CASE i # j
    <3>1. request'[i] = request[i] /\ keys' = keys
      BY <1>8, <2>2, FindEffect DEF Alone, SamePasskeys
    <3> QED BY <1>2, <1>3, <1>4, <3>1
  <2> QED BY <2>1, <2>2
<1>9. ASSUME NEW j \in Jobs, Updates(j)
      PROVE  r.count = keys'[request'[i].key].count
  <2>1. i # j BY <1>0, <1>2, <1>9, UpdateEffect DEF KeyWork
  <2>2. request'[i] = request[i] BY <1>9, <2>1, UpdateEffect DEF Alone
  <2>3. KeyWork(j) /\ KeyWork(i) BY <1>4, <1>9, <2>2, UpdateEffect DEF KeyWork
  <2>4. Free(request[i].key) BY <1>1, <1>2, <2>2 DEF Free
  <2>5. request[i].key # request[j].key BY <1>1, <2>1, <2>3, <2>4 DEF KeyAlone
  <2>6. request[i].key \in DOMAIN keys /\ keys'[request[i].key].count = keys[request[i].key].count
    BY <1>2, <1>9, <2>2, <2>5, UpdateEffect
  <2> QED BY <1>3, <1>4, <2>2, <2>6
<1> QED BY <1>5, <1>6, <1>7, <1>8, <1>9, CounterCases

\* A login that is let in: the counter stored grows, and is its own or none.
LEMMA LetIn ==
    ASSUME Typed, Holds, Counters, NEW j \in Jobs, Updates(j), Free(request[j].key)
    PROVE  /\ request[j].key \in DOMAIN keys
           /\ keys'[request[j].key].count >= Ask(j).count /\ keys'[request[j].key].count >= keys[request[j].key].count
           /\ Ask(j).count > keys[request[j].key].count \/ Ask(j).count = 0
           /\ Ask(j).count \in Nat /\ keys[request[j].key].count \in Nat /\ keys'[request[j].key].count \in Nat
<1>1. PICK r \in request[j].row :
        keys'[request[j].key].count = IF Ask(j).count > r.count THEN Ask(j).count ELSE keys[request[j].key].count
  BY UpdateEffect
<1>2. KeyWork(j) /\ Ask(j).op = "finish login" /\ request[j].at = "update" /\ request[j].key \in DOMAIN keys
  BY UpdateEffect DEF KeyWork
<1>3. r.count = keys[request[j].key].count
  BY <1>1, <1>2 DEF Counters, Known
<1>4. Ask(j).count > r.count \/ (Ask(j).count = 0 /\ r.count = 0)
  BY <1>1, <1>2 DEF Counters, Grown
<1>5. Ask(j).count \in Nat /\ keys[request[j].key].count \in Nat
  BY <1>2, CountTypes
<1> DEFINE a == Ask(j).count
           b == keys[request[j].key].count
           n == keys'[request[j].key].count
<1>6. n = (IF a > b THEN a ELSE b) /\ (a > b \/ (a = 0 /\ b = 0)) /\ a \in Nat /\ b \in Nat
  BY <1>1, <1>3, <1>4, <1>5
<1> HIDE DEF a, b, n
<1>7. n >= a /\ n >= b /\ n \in Nat /\ (a > b \/ a = 0)
  BY <1>6
<1> QED BY <1>2, <1>5, <1>7 DEF a, b, n

\* The stored counter covers every login that was let in.
LEMMA StoredStep ==
    ASSUME Typed, Holds, Counters, ChallengeNext
    PROVE  Stored'
<1>0. Jobs' = Jobs /\ \A i : Ask(i)' = Ask(i)
  BY Frame DEF ChallengeNext, Watch
<1>1. Stored /\ \A k : Free(k)' => Free(k)
  BY WatchEffect DEF Counters, ChallengeNext, Free
<1>2. SUFFICES ASSUME NEW i \in Jobs, Entered(i)', Free(request[i].key)', request'[i].key \in DOMAIN keys'
               PROVE  keys'[request'[i].key].count >= Ask(i).count
  BY <1>0 DEF Stored
<1>3. ASSUME Entered(i), request'[i].key = request[i].key, request[i].key \in DOMAIN keys
      PROVE  keys[request[i].key].count >= Ask(i).count
  <2>1. Free(request[i].key) BY <1>1, <1>2, <1>3 DEF Free
  <2> QED BY <1>1, <1>3, <2>1 DEF Stored
<1>4. ASSUME request'[i] = request[i]
      PROVE  Entered(i) /\ request'[i].key = request[i].key
  BY <1>0, <1>2, <1>4 DEF Entered
<1>5. CASE request' = request /\ CountsStay
  BY <1>2, <1>3, <1>4, <1>5 DEF CountsStay, KeysStay
<1>6. ASSUME NEW j \in Jobs, Untouched(j)
      PROVE  keys'[request'[i].key].count >= Ask(i).count
  <2>1. Entered(i) /\ request'[i].key = request[i].key
    BY <1>0, <1>2, <1>4, <1>6 DEF Untouched, Alone
  <2> QED BY <1>2, <1>3, <1>6, <2>1 DEF Untouched, CountsStay, KeysStay
<1>7. ASSUME NEW j \in Jobs, Inserts(j)
      PROVE  keys'[request'[i].key].count >= Ask(i).count
  <2>1. i # j BY <1>0, <1>2, <1>7, NewKey DEF Entered
  <2>2. request'[i] = request[i] BY <1>7, <2>1, NewKey DEF Alone
  <2>3. request[i].key \in DOMAIN keys /\ keys'[request[i].key] = keys[request[i].key]
    BY <1>2, <1>7, <2>2, NewKey
  <2> QED BY <1>3, <1>4, <2>2, <2>3
<1>8. ASSUME NEW j \in Jobs, Finds(j)
      PROVE  keys'[request'[i].key].count >= Ask(i).count
  <2>1. i # j BY <1>0, <1>2, <1>8, FindEffect DEF Entered
  <2>2. request'[i] = request[i] /\ keys' = keys
    BY <1>8, <2>1, FindEffect DEF Alone, SamePasskeys
  <2> QED BY <1>2, <1>3, <1>4, <2>2
<1>9. ASSUME NEW j \in Jobs, Updates(j)
      PROVE  keys'[request'[i].key].count >= Ask(i).count
  <2>1. request'[i].key = request[i].key /\ DOMAIN keys' = DOMAIN keys
    BY <1>9, UpdateEffect DEF Alone
  <2>2. Free(request[i].key) BY <1>1, <1>2, <2>1 DEF Free
  <2>3. CASE request[i].key # request[j].key
    <3>1. i # j /\ request'[i] = request[i] BY <1>9, <2>3, UpdateEffect DEF Alone
    <3>2. keys'[request[i].key].count = keys[request[i].key].count
      BY <1>2, <1>9, <2>1, <2>3, UpdateEffect
    <3> QED BY <1>2, <1>3, <1>4, <2>1, <3>1, <3>2
  <2>4. CASE i = j BY <1>9, <2>1, <2>2, <2>4, LetIn
  <2>5. CASE i # j /\ request[i].key = request[j].key
    <3>1. request'[i] = request[i] BY <1>9, <2>5, UpdateEffect DEF Alone
    <3>2. keys[request[i].key].count >= Ask(i).count BY <1>2, <1>3, <1>4, <2>1, <3>1
    <3>3. /\ keys'[request[i].key].count >= keys[request[i].key].count
          /\ keys[request[i].key].count \in Nat /\ keys'[request[i].key].count \in Nat
      BY <1>9, <2>2, <2>5, LetIn
    <3>4. Ask(i).count \in Nat BY CountTypes
    <3> QED BY <2>1, <3>2, <3>3, <3>4
  <2> QED BY <2>3, <2>4, <2>5
<1> QED BY <1>5, <1>6, <1>7, <1>8, <1>9, CounterCases

\* A second answer with a counter that was let in is refused.
LEMMA CloneStep ==
    ASSUME Typed, Holds, Counters, CloneRefused, ChallengeNext
    PROVE  CloneRefused'
<1>0. Jobs' = Jobs /\ \A i : Ask(i)' = Ask(i)
  BY Frame DEF ChallengeNext, Watch
<1>1. \A k : Free(k)' => Free(k)
  BY WatchEffect DEF ChallengeNext, Free
<1> DEFINE Apart(i, j) == Ask(i).count # Ask(j).count \/ Ask(i).count = 0
<1>2. SUFFICES ASSUME NEW a \in Jobs, NEW b \in Jobs, a # b, Entered(a)', Entered(b)', request'[a].key = request'[b].key,
                      Free(request[a].key)'
               PROVE  Apart(a, b)
  BY <1>0 DEF CloneRefused, Free
<1>3. ASSUME Entered(a), Entered(b), request'[a].key = request[a].key, request'[b].key = request[b].key
      PROVE  Apart(a, b)
  <2>1. Free(request[a].key) BY <1>1, <1>2, <1>3 DEF Free
  <2> QED BY <1>2, <1>3, <2>1 DEF CloneRefused, Free
<1>4. ASSUME NEW i \in Jobs, Entered(i)', request'[i] = request[i]
      PROVE  Entered(i) /\ request'[i].key = request[i].key
  BY <1>0, <1>4 DEF Entered
<1>5. CASE request' = request
  BY <1>2, <1>3, <1>4, <1>5
<1>6. ASSUME NEW j \in Jobs, Untouched(j) \/ Inserts(j) \/ Finds(j)
      PROVE  Apart(a, b)
  <2>1. ASSUME NEW i \in Jobs, Entered(i)'
        PROVE  Entered(i) /\ request'[i].key = request[i].key
    <3>1. CASE i # j
      <4>1. Alone(j) BY <1>6, InsertEffect, FindEffect DEF Untouched
      <4> QED BY <1>4, <2>1, <3>1, <4>1 DEF Alone
    <3>2. CASE i = j
      <4>1. ~Inserts(j) /\ ~Finds(j)
        BY <1>0, <2>1, <3>2, InsertEffect, FindEffect DEF Entered
      <4> QED BY <1>6, <2>1, <3>2, <4>1 DEF Untouched
    <3> QED BY <3>1, <3>2
  <2> QED BY <1>2, <1>3, <2>1
<1>7. ASSUME NEW j \in Jobs, Updates(j)
      PROVE  Apart(a, b)
  <2>1. \A i \in Jobs : request'[i].key = request[i].key BY <1>7, UpdateEffect DEF Alone
  <2>2. \A i \in Jobs : i # j /\ Entered(i)' => Entered(i)
    BY <1>4, <1>7, UpdateEffect DEF Alone
  <2>3. Free(request[a].key) /\ request[a].key = request[b].key
    BY <1>1, <1>2, <2>1 DEF Free
  <2>4. ASSUME NEW i \in Jobs, i # j, Entered(i), request[i].key = request[j].key, Free(request[j].key)
        PROVE  Ask(i).count # Ask(j).count \/ (Ask(j).count = 0 /\ Ask(i).count = 0)
    <3>1. /\ request[j].key \in DOMAIN keys /\ (Ask(j).count > keys[request[j].key].count \/ Ask(j).count = 0)
          /\ Ask(j).count \in Nat /\ keys[request[j].key].count \in Nat
      BY <1>7, <2>4, LetIn
    <3>2. keys[request[j].key].count >= Ask(i).count BY <2>4, <3>1 DEF Counters, Stored
    <3>3. Ask(i).count \in Nat BY CountTypes
    <3> QED BY <3>1, <3>2, <3>3
  <2>5. CASE a # j /\ b # j BY <1>2, <1>3, <2>1, <2>2, <2>5
  <2>6. CASE a = j BY <1>2, <2>2, <2>3, <2>4, <2>6
  <2>7. CASE b = j BY <1>2, <2>2, <2>3, <2>4, <2>7
  <2> QED BY <2>5, <2>6, <2>7
<1> QED BY <1>5, <1>6, <1>7, CounterCases

-----------------------------------------------------------------------------
(* The theorems about passkeys                                             *)

\* The invariant holds of every workload at the start.
LEMMA PasskeyInit ==
    ASSUME ChallengeInit
    PROVE  PasskeyInv
<1> DEFINE K == load.keys
           n == Cardinality(DOMAIN load.keys)
<1>1. /\ load \in Workloads /\ keys = K /\ next = [id |-> n + 1, handle |-> n + 1]
      /\ chal = None /\ cap = None /\ aged = {} /\ tangled = {}
      /\ request = [j \in Jobs |-> [at |-> "new", key |-> 0, handle |-> 0, row |-> {}, chal |-> {}]]
      /\ owner = [h \in DOMAIN K |-> K[h].user]
      /\ device = [c \in {K[i].cred : i \in DOMAIN K} |-> (CHOOSE i \in DOMAIN K : K[i].cred = c)]
  BY DEF ChallengeInit
<1>2. /\ NoOne \notin Persons /\ IsFiniteSet(DOMAIN K) /\ DOMAIN K = 1 .. n /\ K = [i \in DOMAIN K |-> K[i]]
      /\ \A i \in DOMAIN K : K[i] \in Row /\ K[i].handle = i
      /\ \A i, k \in DOMAIN K : K[i].cred = K[k].cred => i = k
  BY <1>1, ChallengesAssumption
<1>3. n \in Nat
  BY <1>2, FS_CardinalityType
<1> HIDE DEF K, n
<1>4. DOMAIN None = {}
  BY DEF None
<1>5. \A j \in Jobs : /\ request[j].at = "new" /\ request[j].key = 0 /\ request[j].handle = 0
                      /\ request[j].row = {} /\ request[j].chal = {}
  BY <1>1
<1>6. next \in [id: Nat, handle: Nat] /\ next.id = n + 1 /\ next.handle = n + 1
  BY <1>1, <1>3
<1>7. DOMAIN K \subseteq Nat
  BY <1>2, <1>3
<1>8. device \in [DOMAIN device -> Nat] /\ DOMAIN device \subseteq Creds
  <2>1. ASSUME NEW c \in {K[i].cred : i \in DOMAIN K}
        PROVE  c \in Creds /\ (CHOOSE i \in DOMAIN K : K[i].cred = c) \in Nat
    <3>1. PICK i \in DOMAIN K : K[i].cred = c BY <2>1
    <3>2. (CHOOSE k \in DOMAIN K : K[k].cred = c) \in DOMAIN K BY <3>1
    <3>3. K[i] \in Row BY <1>2
    <3> QED BY <1>7, <3>1, <3>2, <3>3 DEF Row
  <2> QED BY <1>1, <2>1
<1>9. owner \in [DOMAIN owner -> Persons \cup {NoOne}] /\ DOMAIN owner = DOMAIN K
  BY <1>1, <1>2 DEF Row
<1>10. request \in [Jobs -> JobRec]
  BY <1>1 DEF JobRec, Steps
<1>11. keys \in [DOMAIN keys -> Row]
  BY <1>1, <1>2
<1>12. chal \in [DOMAIN chal -> Chal] /\ cap \in [DOMAIN cap -> Visual]
  BY <1>1 DEF None
<1>13. Typed
  BY <1>1, <1>4, <1>6, <1>7, <1>8, <1>9, <1>10, <1>11, <1>12 DEF Typed
<1>14. Holds
  BY <1>5 DEF Holds, HoldsOf, Answering
<1>15. CredsApart
  BY <1>1, <1>2 DEF CredsApart
<1>16. Spent
  BY <1>1, <1>4, <1>5 DEF Spent, Took
<1>17. Handles
  <2>1. \A i \in DOMAIN keys : RowOwned(keys[i]) BY <1>1, <1>2 DEF RowOwned
  <2>2. \A h \in DOMAIN owner : h \in Nat /\ h < next.handle BY <1>2, <1>3, <1>6, <1>9
  <2> QED BY <1>1, <1>4, <1>5, <2>1, <2>2 DEF Handles
<1>18. Logins
  BY <1>5 DEF Logins, LoggingIn
<1>19. Counters
  <2>1. Ids
    <3>1. \A i \in DOMAIN keys : i < next.id BY <1>1, <1>2, <1>3, <1>6
    <3>2. \A j \in Jobs : request[j].key < next.id BY <1>3, <1>5, <1>6
    <3> QED BY <3>1, <3>2 DEF Ids
  <2> QED BY <1>5, <2>1 DEF Counters, KeyAlone, Known, Grown, Stored, KeyWork, Entered
<1>20. CloneRefused
  BY <1>5 DEF CloneRefused, Entered
<1> QED BY <1>13, <1>14, <1>15, <1>16, <1>17, <1>18, <1>19, <1>20 DEF PasskeyInv

\* A step that changes nothing.
LEMMA PasskeyStutter ==
    ASSUME PasskeyInv, UNCHANGED challengeVars
    PROVE  PasskeyInv'
<1>1. /\ load' = load /\ keys' = keys /\ next' = next /\ chal' = chal /\ cap' = cap /\ aged' = aged
      /\ device' = device /\ request' = request /\ owner' = owner /\ tangled' = tangled
  BY DEF challengeVars
<1>2. Jobs' = Jobs /\ (\A j : Ask(j)' = Ask(j)) /\ (\A d : is_required(d)' <=> is_required(d))
  BY <1>1, Frame
<1>3. Typed'
  BY <1>1, <1>2 DEF PasskeyInv, Typed
<1>4. Holds'
  BY <1>1, <1>2 DEF PasskeyInv, Holds, HoldsOf
<1>5. CredsApart' /\ Spent'
  BY <1>1, <1>2 DEF PasskeyInv, CredsApart, Spent, Took
<1>6. Handles'
  BY <1>1, <1>2 DEF PasskeyInv, Handles, RowOwned, ChalOwned
<1>7. Logins'
  BY <1>1, <1>2 DEF PasskeyInv, Logins, LoggingIn, RowOwned
<1>8. (\A k : Free(k)' <=> Free(k)) /\ (\A j : KeyWork(j)' <=> KeyWork(j)) /\ (\A j : Entered(j)' <=> Entered(j))
  BY <1>1, <1>2 DEF Free, KeyWork, Entered
<1>9. \A j : (Free(request[j].key))' <=> Free(request[j].key)
  BY <1>1 DEF Free
<1>10. Ids' /\ KeyAlone' /\ Grown'
  BY <1>1, <1>2, <1>8, <1>9 DEF PasskeyInv, Counters, Ids, KeyAlone, Grown
<1>11. Known'
  BY <1>1, <1>2, <1>8, <1>9 DEF PasskeyInv, Counters, Known
<1>12. Stored'
  BY <1>1, <1>2, <1>8, <1>9 DEF PasskeyInv, Counters, Stored
<1>13. CloneRefused'
  BY <1>1, <1>2, <1>8 DEF PasskeyInv, CloneRefused
<1> QED BY <1>3, <1>4, <1>5, <1>6, <1>7, <1>10, <1>11, <1>12, <1>13 DEF PasskeyInv, Counters

\* The inductive invariant.
LEMMA PasskeyInvariant == ChallengeSpec => []PasskeyInv
<1>1. ChallengeInit => PasskeyInv
  BY PasskeyInit
<1>2. PasskeyInv /\ [ChallengeNext]_challengeVars => PasskeyInv'
  <2> SUFFICES ASSUME PasskeyInv, ChallengeNext
               PROVE  PasskeyInv'
    BY PasskeyStutter
  <2> QED
    BY TypedStep, HoldsStep, CredsStep, SpentStep, HandlesStep, LoginsStep, IdsStep, AloneStep, KnownStep,
       GrownStep, StoredStep, CloneStep DEF PasskeyInv, Counters
<1> QED BY <1>1, <1>2, PTL DEF ChallengeSpec

\* However registrations, logins, renames, deletions, expiries and the disabling of users interleave:
\* a passkey challenge lets one request through (take_registration_challenge, take_login_challenge),
\* the credentials of passkeys differ, a user handle stands for one user, who signs in is the owner of
\* the handle and the user that was named (finish_login), and a second answer with the counter of an
\* earlier one is refused unless both were checked at once (update_credential_after_auth).
THEOREM PasskeysAreSafe == ChallengeSpec => []PasskeysHold
<1>1. PasskeyInv => PasskeysHold
  <2> SUFFICES ASSUME PasskeyInv
               PROVE  PasskeysHold
    OBVIOUS
  <2>1. ChallengeTypeOK BY DEF PasskeyInv, Typed, JobRec, CredsApart, ChallengeTypeOK
  <2>2. ChallengeOnce
    <3>1. \A j \in Jobs : Entered(j) \/ Registered(j) => Took(j)
      BY DEF Entered, Registered, Took
    <3> QED BY <3>1 DEF PasskeyInv, Spent, ChallengeOnce
  <2>3. HandleNamesUser BY DEF PasskeyInv, Handles, RowOwned, HandleNamesUser
  <2>4. LoginIsOwner BY DEF PasskeyInv, Logins, LoggingIn, RowOwned, LoginIsOwner, Entered
  <2> QED BY <2>1, <2>2, <2>3, <2>4 DEF PasskeysHold, PasskeyInv
<1> QED BY <1>1, PasskeyInvariant, PTL

\* Nobody signs in with a passkey that was deleted after its row was read: the row is there in the
\* step that records its use (update_credential_after_auth).
THEOREM DeletedKeysStayOut == ChallengeSpec => DeletedKeyStaysOut
<1> DEFINE A == \A j \in Jobs : request[j].at = "update" /\ request'[j].at = "issue" =>
                  request[j].key \in DOMAIN keys /\ request[j].key \in DOMAIN keys'
<1>1. PasskeyInv /\ [ChallengeNext]_challengeVars => [A]_challengeVars
  <2> SUFFICES ASSUME PasskeyInv, ChallengeNext
               PROVE  A
    OBVIOUS
  <2>1. Typed /\ Holds BY DEF PasskeyInv
  <2> SUFFICES ASSUME NEW i \in Jobs, request[i].at = "update", request'[i].at = "issue"
               PROVE  request[i].key \in DOMAIN keys /\ request[i].key \in DOMAIN keys'
    OBVIOUS
  <2>2. ~Passes BY DEF Passes
  <2>3. ASSUME NEW j \in Jobs, Alone(j), request'[j].at # "issue" \/ request[j].at # "update"
        PROVE  FALSE
    BY <2>3 DEF Alone
  <2>4. ASSUME NEW j \in Jobs
        PROVE  ~Turns(j) /\ ~user_handle_for_registration(j) /\ ~Stores(j) /\ ~Begins(j)
    BY <2>1, <2>3, TurnEffect, HandleEffect, StoreEffect
  <2>5. ASSUME NEW j \in Jobs
        PROVE  ~TakesRegistration(j) /\ ~TakesLogin(j) /\ ~Inserts(j) /\ ~Renames(j) /\ ~Deletes(j) /\ ~Finds(j)
    BY <2>1, <2>3, TakeEffect, InsertEffect, ManageEffect, FindEffect
  <2>6. ASSUME NEW j \in Jobs
        PROVE  ~issue_challenge(j) /\ ~verify_answer(j) /\ ~delete_challenge(j) /\ ~store_challenge(j)
    BY <2>1, <2>3, IssueEffect, AnswerEffect, DropEffect, BackEffect
  <2>7. PICK j \in Jobs : Updates(j) BY <2>1, <2>2, <2>4, <2>5, <2>6, NextCases
  <2>8. i = j BY <2>1, <2>7, UpdateEffect DEF Alone
  <2> QED BY <2>1, <2>7, <2>8, UpdateEffect
<1> QED BY <1>1, PasskeyInvariant, PTL DEF ChallengeSpec, DeletedKeyStaysOut

-----------------------------------------------------------------------------
(* Captchas                                                                *)

\* What was said about captchas are finite sets.
LEMMA SaidFinite ==
    ASSUME Typed, NEW c, NEW s
    PROVE  Said(c, s) \subseteq Jobs /\ IsFiniteSet(Said(c, s)) /\ Cardinality(Said(c, s)) \in Nat
<1>1. IsFiniteSet(Jobs)
  BY ChallengesAssumption DEF Typed, Jobs
<1>2. Said(c, s) \subseteq Jobs
  BY DEF Said
<1> QED BY <1>1, <1>2, FS_Subset, FS_CardinalityType

\* A step that says nothing about the captcha.
LEMMA SaidSame ==
    ASSUME load' = load, NEW j \in Jobs, Alone(j), NEW c, NEW s,
           \/ Ask(j).op # "answer" \/ Ask(j).of # c \/ ~is_required(Ask(j).need)
           \/ request[j].at # s /\ request'[j].at # s
    PROVE  Said(c, s)' = Said(c, s)
  BY Frame DEF Said, Alone

\* A step that says something about it.
LEMMA SaidMore ==
    ASSUME load' = load, Typed, NEW j \in Jobs, Alone(j), NEW c, NEW s,
           Ask(j).op = "answer" /\ Ask(j).of = c /\ is_required(Ask(j).need),
           request[j].at # s /\ request'[j].at = s
    PROVE  Said(c, s)' = Said(c, s) \cup {j} /\ Cardinality(Said(c, s)') = Cardinality(Said(c, s)) + 1
<1>1. Said(c, s)' = Said(c, s) \cup {j} /\ j \notin Said(c, s)
  BY Frame DEF Said, Alone
<1> QED BY <1>1, SaidFinite, FS_AddElement

\* A step that leaves a captcha alone, or drops it from the cache while nobody works on it.
LEMMA CapSame ==
    ASSUME NEW c \in Jobs, CapOf(c), load' = load, tangled \subseteq tangled',
           Said(c, "passed")' = Said(c, "passed"), Said(c, "failed")' = Said(c, "failed"),
           \A i \in Jobs : Works(i, c)' => Works(i, c) /\ request'[i] = request[i],
           c \in DOMAIN cap' => c \in DOMAIN cap /\ cap'[c] = cap[c],
           request'[c].at = "new" => request[c].at = "new"
    PROVE  CapOf(c)'
<1>1. Jobs' = Jobs /\ load'.max_attempts = load.max_attempts /\ Ask(c)' = Ask(c)
  BY Frame
<1>2. Unseen(c) => Unseen(c)'
  BY <1>1 DEF Unseen
<1>3. ASSUME Counted(c)
      PROVE  Counted(c)'
  BY <1>1, <1>3 DEF Counted
<1> QED BY <1>1, <1>2, <1>3 DEF CapOf

\* Steps that are none of a captcha.
LEMMA CapQuiet ==
    ASSUME Typed, Holds, Holds', Captchas, load' = load, tangled \subseteq tangled',
           DOMAIN cap' \subseteq DOMAIN cap, \A c \in DOMAIN cap' : cap'[c] = cap[c],
           \/ request' = request
           \/ \E j \in Jobs : Alone(j) /\ Ask(j).op \notin {"issue captcha", "answer"}
    PROVE  Captchas'
<1>0. Jobs' = Jobs /\ load'.max_attempts = load.max_attempts /\ \A i : Ask(i)' = Ask(i)
  BY Frame
<1>1. \A i \in Jobs : Ask(i).op \in {"issue captcha", "answer"} => request'[i] = request[i]
  BY DEF Alone
<1>2. \A i \in Jobs : request'[i].at \in Answering => Ask(i).op = "answer"
  BY <1>0 DEF Holds, HoldsOf
<1>3. Maxes'
  BY <1>0, <1>1, <1>2 DEF Captchas, Maxes, Answering
<1>4. ASSUME NEW c \in Jobs
      PROVE  CapOf(c)'
  <2>1. CapOf(c) BY DEF Captchas
  <2>2. Said(c, "passed")' = Said(c, "passed") /\ Said(c, "failed")' = Said(c, "failed")
    BY <1>0, <1>1, Frame DEF Said
  <2>3. \A i \in Jobs : Works(i, c)' => Works(i, c) /\ request'[i] = request[i]
    BY <1>0, <1>1, <1>2 DEF Works
  <2>4. CASE Ask(c).op = "issue captcha" BY <1>1, <2>1, <2>2, <2>3, <2>4, CapSame
  <2>5. CASE Ask(c).op # "issue captcha" BY <1>0, <2>5 DEF CapOf
  <2> QED BY <2>4, <2>5
<1> QED BY <1>0, <1>3, <1>4 DEF Captchas

\* A captcha is issued: nobody has answered it, and it allows an answer.
LEMMA IssueKeeps ==
    ASSUME Typed, Holds, Captchas, ChallengeNext, NEW j \in Jobs, issue_challenge(j)
    PROVE  Captchas'
<1>0. /\ load' = load /\ Jobs' = Jobs /\ load'.max_attempts = load.max_attempts /\ (\A i : Ask(i)' = Ask(i))
      /\ tangled \subseteq tangled' /\ load.max_attempts \in Nat \ {0}
  BY Frame, WatchEffect, AskType DEF ChallengeNext, Watch, Typed
<1>1. /\ Alone(j) /\ Ask(j).op = "issue captcha" /\ request[j].at = "new" /\ request'[j].at = "done"
  BY IssueEffect
<1>2. PICK v \in Visual : v.attempts = 0 /\ v.max_attempts = load.max_attempts /\ cap' = With(cap, j, v)
  BY IssueEffect
<1>3. DOMAIN cap' = DOMAIN cap \cup {j} /\ cap'[j] = v /\ \A c \in DOMAIN cap \ {j} : cap'[c] = cap[c]
  BY <1>2 DEF With
<1>4. \A c : Said(c, "passed")' = Said(c, "passed") /\ Said(c, "failed")' = Said(c, "failed")
  BY <1>0, <1>1, SaidSame
<1>5. \A c : \A i \in Jobs : Works(i, c)' => Works(i, c) /\ request'[i] = request[i]
  BY <1>0, <1>1 DEF Works, Alone, Answering
<1>6. Maxes'
  <2>1. \A i \in Jobs : request'[i].at = "again" => request'[i] = request[i]
    BY <1>1 DEF Alone
  <2> QED BY <1>0, <1>2, <1>3, <2>1 DEF Captchas, Maxes
<1>7. ASSUME NEW c \in Jobs, c # j
      PROVE  CapOf(c)'
  <2>1. CapOf(c) /\ request'[c] = request[c] BY <1>1, <1>7 DEF Captchas, Alone
  <2>2. c \in DOMAIN cap' => c \in DOMAIN cap /\ cap'[c] = cap[c] BY <1>3, <1>7
  <2> QED BY <1>0, <1>4, <1>5, <2>1, <2>2, CapSame
<1>8. CapOf(j)'
  <2>1. Unseen(j) BY <1>1 DEF Captchas, CapOf
  <2>2. Said(j, "passed")' = {} /\ Said(j, "failed")' = {} /\ \A i \in Jobs : ~Works(i, j)'
    BY <1>4, <1>5, <2>1 DEF Unseen
  <2>3. Cardinality({}) = 0 BY FS_EmptySet
  <2>4. cap'[j].attempts = 0 /\ 0 < load'.max_attempts /\ 0 + 0 <= load'.max_attempts
    BY <1>0, <1>2, <1>3
  <2>5. Cardinality(Said(j, "passed")') = 0 /\ Cardinality(Said(j, "failed")') = 0
    BY <2>2, <2>3
  <2>6. Counted(j)' BY <1>0, <2>2, <2>4, <2>5 DEF Counted
  <2> QED BY <1>1, <2>6 DEF CapOf
<1> QED BY <1>0, <1>6, <1>7, <1>8 DEF Captchas

\* An answer is compared: the request works on the captcha, alone if nothing is entangled.
LEMMA AnswerKeeps ==
    ASSUME Typed, Holds, Captchas, ChallengeNext, NEW j \in Jobs, verify_answer(j)
    PROVE  Captchas'
<1> DEFINE d == Ask(j).of
<1>0. /\ load' = load /\ Jobs' = Jobs /\ load'.max_attempts = load.max_attempts /\ (\A i : Ask(i)' = Ask(i))
      /\ tangled \subseteq tangled' /\ load.max_attempts \in Nat \ {0}
  BY Frame, WatchEffect, AskType DEF ChallengeNext, Watch, Typed
<1>1. Alone(j) /\ cap' = cap /\ Ask(j).op = "answer" /\ request[j].at = "new"
  BY AnswerEffect
<1>2. request'[j].at \in {"passed", "failed"} => request'[j].at = "passed" /\ ~is_required(Ask(j).need)
  BY AnswerEffect
<1>3. \A c : Said(c, "passed")' = Said(c, "passed") /\ Said(c, "failed")' = Said(c, "failed")
  <2>1. ASSUME NEW c, NEW s \in {"passed", "failed"}
        PROVE  Said(c, s)' = Said(c, s)
    BY <1>0, <1>1, <1>2, <2>1, SaidSame
  <2> QED BY <2>1
<1>4. \A i \in Jobs \ {j} : request'[i] = request[i]
  BY <1>1 DEF Alone
<1>5. ASSUME request'[j].at \in Answering
      PROVE  /\ d \in DOMAIN cap /\ cap[d] \in Visual /\ cap[d].max_attempts = load.max_attempts
             /\ request'[j].at = "again" => /\ request'[j].row = {Wronged(cap[d])}
                                        /\ cap[d].attempts + 1 < cap[d].max_attempts
  <2>1. d \in DOMAIN cap /\ cap[d] \in Visual BY <1>5, AnswerEffect DEF Answering, Typed
  <2>2. cap[d].max_attempts = load.max_attempts BY <2>1 DEF Captchas, Maxes
  <2> QED BY <2>1, <2>2, AnswerEffect
<1>6. ASSUME NEW v \in Visual
      PROVE  Wronged(v).attempts = v.attempts + 1 /\ Wronged(v).max_attempts = v.max_attempts
  BY DEF Wronged, Visual
<1>7. Maxes'
  <2>1. \A c \in DOMAIN cap' : cap'[c].max_attempts = load'.max_attempts
    BY <1>0, <1>1 DEF Captchas, Maxes
  <2>2. ASSUME NEW i \in Jobs, request'[i].at = "again", NEW held \in request'[i].row
        PROVE  held.max_attempts = load.max_attempts
    <3>1. CASE i = j BY <1>5, <1>6, <2>2, <3>1 DEF Answering
    <3>2. CASE i # j BY <1>4, <2>2, <3>2 DEF Captchas, Maxes
    <3> QED BY <3>1, <3>2
  <2> QED BY <1>0, <2>1, <2>2 DEF Maxes
<1>8. ASSUME NEW c \in Jobs, c # d \/ request'[j].at \notin Answering
      PROVE  CapOf(c)'
  <2>1. CapOf(c) BY DEF Captchas
  <2>2. \A i \in Jobs : Works(i, c)' => Works(i, c) /\ request'[i] = request[i]
    BY <1>0, <1>4, <1>8 DEF Works
  <2>3. request'[c].at = "new" => request[c].at = "new" BY <1>1, <1>4
  <2> QED BY <1>0, <1>1, <1>3, <2>1, <2>2, <2>3, CapSame
<1>9. ASSUME d \in Jobs, request'[j].at \in Answering, Ask(d).op = "issue captcha"
      PROVE  CapOf(d)'
  <2>1. d \in DOMAIN cap /\ cap[d] \in Visual BY <1>5, <1>9
  <2>2. request[d].at # "new" /\ (<<"captcha", d>> \notin tangled => Counted(d))
    BY <1>9, <2>1 DEF Captchas, CapOf, Unseen
  <2>3. request'[d].at # "new" BY <1>1, <1>4, <1>9, <2>2
  <2>4. ASSUME <<"captcha", d>> \notin tangled'
        PROVE  Counted(d)'
    <3>1. Counted(d) BY <1>0, <2>2, <2>4
    <3>2. /\ Said(d, "passed") = {} /\ Cardinality(Said(d, "failed")) = cap[d].attempts
          /\ cap[d].attempts < load.max_attempts
      BY <2>1, <3>1 DEF Counted
    <3>3. \A i, k \in Jobs : Works(i, d)' /\ Works(k, d)' => i = k
      BY <1>0, <2>4, WatchEffect DEF Works, ChallengeNext
    <3>4. Works(j, d)' BY <1>0, <1>9 DEF Works
    <3>5. request'[j].at = "again" => \A held \in request'[j].row :
              held.attempts = cap[d].attempts + 1 /\ held.attempts < load.max_attempts
      BY <1>5, <1>6, <1>9, <2>1
    <3>6. /\ Cardinality(Said(d, "passed")) <= 1
          /\ Cardinality(Said(d, "failed")) + Cardinality(Said(d, "passed")) <= load.max_attempts
      BY <3>1 DEF Counted
    <3> QED BY <1>0, <1>1, <1>3, <3>2, <3>3, <3>4, <3>5, <3>6 DEF Counted
  <2> QED BY <1>0, <2>3, <2>4 DEF CapOf
<1>10. ASSUME d \in Jobs, Ask(d).op # "issue captcha"
       PROVE  CapOf(d)'
  BY <1>0, <1>10 DEF CapOf
<1> QED BY <1>0, <1>7, <1>8, <1>9, <1>10 DEF Captchas

\* What is known of a captcha that a request works on.
LEMMA WorkKnown ==
    ASSUME Typed, Holds, Captchas, NEW j \in Jobs, request[j].at \in Answering, NEW d \in Jobs, d = Ask(j).of,
           Ask(d).op = "issue captcha"
    PROVE  /\ request[d].at # "new" /\ Works(j, d)
           /\ <<"captcha", d>> \notin tangled => Counted(d)
<1>1. Works(j, d)
  BY DEF Works
<1> QED BY <1>1 DEF Captchas, CapOf, Unseen

\* The captcha is dropped, and the answer accepted, refused or counted.
LEMMA DropKeeps ==
    ASSUME Typed, Holds, Captchas, ChallengeNext, NEW j \in Jobs, delete_challenge(j)
    PROVE  Captchas'
<1>0. /\ load' = load /\ Jobs' = Jobs /\ load'.max_attempts = load.max_attempts /\ (\A i : Ask(i)' = Ask(i))
      /\ tangled \subseteq tangled' /\ load.max_attempts \in Nat \ {0}
  BY Frame, WatchEffect, AskType DEF ChallengeNext, Watch, Typed
<1>1. /\ Alone(j) /\ Ask(j).op = "answer" /\ request[j].at \in Answering \ {"passed", "failed"}
      /\ request'[j].at \in {"refused", "failed", "passed"} /\ cap' = Without(cap, Ask(j).of)
  BY DropEffect DEF Answering
<1>2. PICK d \in Jobs : d = Ask(j).of /\ is_required(Ask(j).need)
  BY <1>1 DEF Holds, HoldsOf
<1>3. \A i \in Jobs \ {j} : request'[i] = request[i]
  BY <1>1 DEF Alone
<1>4. DOMAIN cap' = DOMAIN cap \ {d} /\ \A c \in DOMAIN cap' : cap'[c] = cap[c]
  BY <1>1, <1>2 DEF Without
<1>5. Maxes'
  BY <1>0, <1>1, <1>3, <1>4 DEF Captchas, Maxes
<1>6. \A c : \A i \in Jobs : Works(i, c)' => Works(i, c) /\ request'[i] = request[i] /\ i # j
  BY <1>0, <1>1, <1>3 DEF Works, Answering
<1>7. ASSUME NEW c \in Jobs, c # d
      PROVE  CapOf(c)'
  <2>1. Said(c, "passed")' = Said(c, "passed") /\ Said(c, "failed")' = Said(c, "failed")
    BY <1>0, <1>1, <1>2, <1>7, SaidSame
  <2>2. CapOf(c) /\ (request'[c].at = "new" => request[c].at = "new")
    BY <1>1, <1>3 DEF Captchas
  <2>3. c \in DOMAIN cap' => c \in DOMAIN cap /\ cap'[c] = cap[c] BY <1>4
  <2> QED BY <1>0, <1>6, <2>1, <2>2, <2>3, CapSame
<1>8. ASSUME Ask(d).op = "issue captcha"
      PROVE  CapOf(d)'
  <2>1. request'[d].at # "new" BY <1>1, <1>2, <1>3, <1>8, WorkKnown
  <2>2. ASSUME <<"captcha", d>> \notin tangled'
        PROVE  Counted(d)'
    <3>1. Counted(d) /\ Works(j, d) BY <1>0, <1>1, <1>2, <1>8, <2>2, WorkKnown
    <3>2. Said(d, "passed") = {} /\ Cardinality(Said(d, "failed")) < load.max_attempts
      BY <3>1 DEF Counted
    <3>3. \A i \in Jobs : ~Works(i, d)' BY <1>6, <3>1 DEF Counted
    <3>4. Cardinality({}) = 0 /\ Cardinality({j}) = 1 BY FS_EmptySet, FS_Singleton
    <3>5. Cardinality(Said(d, "failed")) \in Nat BY SaidFinite
    <3>6. /\ Cardinality(Said(d, "passed")') <= 1
          /\ Cardinality(Said(d, "failed")') + Cardinality(Said(d, "passed")') <= load.max_attempts
      <4>1. CASE request'[j].at = "refused"
        <5>1. Said(d, "passed")' = Said(d, "passed") /\ Said(d, "failed")' = Said(d, "failed")
          BY <1>0, <1>1, <4>1, SaidSame
        <5>2. Cardinality(Said(d, "passed")') = 0 /\ Cardinality(Said(d, "failed")') = Cardinality(Said(d, "failed"))
          BY <3>2, <3>4, <5>1
        <5> QED BY <1>0, <3>2, <3>5, <5>2
      <4>2. CASE request'[j].at = "passed"
        <5>1. Said(d, "failed")' = Said(d, "failed") BY <1>0, <1>1, <4>2, SaidSame
        <5>2. Said(d, "passed")' = {j}
          <6>1. request[j].at # "passed" BY <1>1
          <6>2. Said(d, "passed")' = Said(d, "passed") \cup {j}
            BY <1>0, <1>1, <1>2, <4>2, <6>1, SaidMore
          <6> QED BY <3>2, <6>2
        <5>3. Cardinality(Said(d, "passed")') = 1 /\ Cardinality(Said(d, "failed")') = Cardinality(Said(d, "failed"))
          BY <3>4, <5>1, <5>2
        <5> QED BY <1>0, <3>2, <3>5, <5>3
      <4>3. CASE request'[j].at = "failed"
        <5>1. Said(d, "passed")' = Said(d, "passed") BY <1>0, <1>1, <4>3, SaidSame
        <5>2. Cardinality(Said(d, "failed")') = Cardinality(Said(d, "failed")) + 1
          BY <1>0, <1>1, <1>2, <4>3, SaidMore
        <5>3. Cardinality(Said(d, "passed")') = 0 BY <3>2, <3>4, <5>1
        <5> QED BY <1>0, <3>2, <3>5, <5>2, <5>3
      <4> QED BY <1>1, <4>1, <4>2, <4>3
    <3> QED BY <1>0, <1>4, <3>3, <3>6 DEF Counted
  <2> QED BY <2>1, <2>2 DEF CapOf
<1>9. ASSUME Ask(d).op # "issue captcha"
      PROVE  CapOf(d)'
  BY <1>0, <1>9 DEF CapOf
<1> QED BY <1>0, <1>5, <1>7, <1>8, <1>9 DEF Captchas

\* The captcha is written back with one wrong answer more.
LEMMA BackKeeps ==
    ASSUME Typed, Holds, Captchas, ChallengeNext, NEW j \in Jobs, store_challenge(j)
    PROVE  Captchas'
<1>0. /\ load' = load /\ Jobs' = Jobs /\ load'.max_attempts = load.max_attempts /\ (\A i : Ask(i)' = Ask(i))
      /\ tangled \subseteq tangled' /\ load.max_attempts \in Nat \ {0}
  BY Frame, WatchEffect, AskType DEF ChallengeNext, Watch, Typed
<1>1. /\ Alone(j) /\ Ask(j).op = "answer" /\ request[j].at = "again" /\ request'[j].at = "failed"
      /\ request[j].at \in Answering
  BY BackEffect DEF Answering
<1>2. PICK d \in Jobs : d = Ask(j).of /\ is_required(Ask(j).need)
  BY <1>1 DEF Holds, HoldsOf
<1>3. \A i \in Jobs \ {j} : request'[i] = request[i]
  BY <1>1 DEF Alone
<1>4. PICK held \in request[j].row : held \in Visual /\ cap' = With(cap, d, held)
  BY <1>2, BackEffect
<1>5. DOMAIN cap' = DOMAIN cap \cup {d} /\ cap'[d] = held /\ \A c \in DOMAIN cap \ {d} : cap'[c] = cap[c]
  BY <1>4 DEF With
<1>6. Maxes'
  <2>1. held.max_attempts = load.max_attempts BY <1>1 DEF Captchas, Maxes
  <2> QED BY <1>0, <1>1, <1>3, <1>5, <2>1 DEF Captchas, Maxes
<1>7. \A c : \A i \in Jobs : Works(i, c)' => Works(i, c) /\ request'[i] = request[i] /\ i # j
  BY <1>0, <1>1, <1>3 DEF Works, Answering
<1>8. ASSUME NEW c \in Jobs, c # d
      PROVE  CapOf(c)'
  <2>1. Said(c, "passed")' = Said(c, "passed") /\ Said(c, "failed")' = Said(c, "failed")
    BY <1>0, <1>1, <1>2, <1>8, SaidSame
  <2>2. CapOf(c) /\ (request'[c].at = "new" => request[c].at = "new")
    BY <1>1, <1>3 DEF Captchas
  <2>3. c \in DOMAIN cap' => c \in DOMAIN cap /\ cap'[c] = cap[c] BY <1>5, <1>8
  <2> QED BY <1>0, <1>7, <2>1, <2>2, <2>3, CapSame
<1>9. ASSUME Ask(d).op = "issue captcha"
      PROVE  CapOf(d)'
  <2>1. request'[d].at # "new" BY <1>1, <1>2, <1>3, <1>9, WorkKnown
  <2>2. ASSUME <<"captcha", d>> \notin tangled'
        PROVE  Counted(d)'
    <3>1. Counted(d) /\ Works(j, d) BY <1>0, <1>1, <1>2, <1>9, <2>2, WorkKnown
    <3>2. /\ Said(d, "passed") = {}
          /\ held.attempts = Cardinality(Said(d, "failed")) + 1 /\ held.attempts < load.max_attempts
      BY <1>1, <1>4, <3>1 DEF Counted
    <3>3. \A i \in Jobs : ~Works(i, d)' BY <1>7, <3>1 DEF Counted
    <3>4. Said(d, "passed")' = {} BY <1>0, <1>1, <3>2, SaidSame
    <3>5. Cardinality(Said(d, "failed")') = Cardinality(Said(d, "failed")) + 1
      BY <1>0, <1>1, <1>2, SaidMore
    <3>6. Cardinality(Said(d, "failed")) \in Nat BY SaidFinite
    <3>7. Cardinality(Said(d, "passed")') = 0 BY <3>4, FS_EmptySet
    <3>8. /\ Cardinality(Said(d, "failed")') = cap'[d].attempts /\ cap'[d].attempts < load.max_attempts
          /\ Cardinality(Said(d, "passed")') <= 1
          /\ Cardinality(Said(d, "failed")') + Cardinality(Said(d, "passed")') <= load.max_attempts
      BY <1>0, <1>5, <3>2, <3>5, <3>6, <3>7
    <3> QED BY <1>0, <3>3, <3>4, <3>8 DEF Counted
  <2> QED BY <2>1, <2>2 DEF CapOf
<1>10. ASSUME Ask(d).op # "issue captcha"
       PROVE  CapOf(d)'
  BY <1>0, <1>10 DEF CapOf
<1> QED BY <1>0, <1>6, <1>8, <1>9, <1>10 DEF Captchas

\* What is known of captchas is kept by every step.
LEMMA CaptchaStep ==
    ASSUME PasskeyInv, Captchas, ChallengeNext
    PROVE  Captchas'
<1>0. Typed /\ Holds /\ Holds' /\ load' = load /\ tangled \subseteq tangled'
  BY HoldsStep, WatchEffect DEF PasskeyInv, ChallengeNext, Watch
<1>1. CASE Passes
  <2>1. DOMAIN cap' \subseteq DOMAIN cap /\ \A c \in DOMAIN cap' : cap'[c] = cap[c]
    BY <1>1 DEF Passes, Without
  <2> QED BY <1>0, <1>1, <2>1, CapQuiet DEF Passes
<1>2. ASSUME NEW j \in Jobs, Alone(j), Ask(j).op \notin {"issue captcha", "answer"}, cap' = cap
      PROVE  Captchas'
  BY <1>0, <1>2, CapQuiet
<1>3. ASSUME NEW j \in Jobs, Turns(j) \/ user_handle_for_registration(j) \/ Stores(j) \/ Begins(j)
      PROVE  Captchas'
  BY <1>0, <1>2, <1>3, TurnEffect, HandleEffect, StoreEffect
<1>4. ASSUME NEW j \in Jobs, TakesRegistration(j) \/ TakesLogin(j) \/ Inserts(j) \/ Renames(j) \/ Deletes(j)
      PROVE  Captchas'
  BY <1>0, <1>2, <1>4, TakeEffect, InsertEffect, ManageEffect
<1>5. ASSUME NEW j \in Jobs, Finds(j) \/ Updates(j)
      PROVE  Captchas'
  BY <1>0, <1>2, <1>5, FindEffect, UpdateEffect
<1> QED BY <1>0, <1>1, <1>3, <1>4, <1>5, IssueKeeps, AnswerKeeps, DropKeeps, BackKeeps, NextCases

\* However answers interleave with issues, expiries and evictions: a captcha that one request at a time
\* works on lets one request through, and never takes more than max_attempts answers (verify_answer).
THEOREM CaptchasAreCounted == ChallengeSpec => []CaptchaHolds
<1> DEFINE I == PasskeyInv /\ Captchas
<1>1. ChallengeInit => I
  <2> SUFFICES ASSUME ChallengeInit PROVE I
    OBVIOUS
  <2>1. PasskeyInv BY PasskeyInit
  <2>2. DOMAIN cap = {} /\ \A j \in Jobs : request[j].at = "new"
    BY DEF ChallengeInit, None
  <2>3. \A c : Said(c, "passed") = {} /\ Said(c, "failed") = {} /\ \A j \in Jobs : ~Works(j, c)
    BY <2>2 DEF Said, Works, Answering
  <2>4. Cardinality({}) = 0 /\ load.max_attempts \in Nat \ {0}
    BY <2>1, FS_EmptySet, ChallengesAssumption DEF PasskeyInv, Typed
  <2>5. \A c : Counted(c)
    <3> SUFFICES ASSUME NEW c PROVE Counted(c)
      OBVIOUS
    <3>1. Cardinality(Said(c, "passed")) = 0 /\ Cardinality(Said(c, "failed")) = 0
      BY <2>3, <2>4
    <3> QED BY <2>2, <2>3, <2>4, <3>1 DEF Counted
  <2>6. Maxes BY <2>2 DEF Maxes
  <2> QED BY <2>1, <2>2, <2>3, <2>5, <2>6 DEF Captchas, CapOf, Unseen
<1>2. I /\ [ChallengeNext]_challengeVars => I'
  <2>1. ASSUME I, ChallengeNext
        PROVE  I'
    <3>1. PasskeyInv'
      BY <2>1, TypedStep, HoldsStep, CredsStep, SpentStep, HandlesStep, LoginsStep, IdsStep, AloneStep, KnownStep,
         GrownStep, StoredStep, CloneStep DEF PasskeyInv, Counters
    <3> QED BY <2>1, <3>1, CaptchaStep
  <2>2. ASSUME I, UNCHANGED challengeVars
        PROVE  I'
    <3>1. load' = load /\ request' = request /\ cap' = cap /\ tangled' = tangled
      BY <2>2 DEF challengeVars
    <3>2. PasskeyInv' BY <2>2, PasskeyStutter
    <3>3. Captchas' BY <2>2, <3>1, <3>2, CapQuiet DEF PasskeyInv
    <3> QED BY <3>2, <3>3
  <2> QED BY <2>1, <2>2
<1>3. I => CaptchaHolds
  <2> SUFFICES ASSUME I PROVE CaptchaHolds
    OBVIOUS
  <2>1. ASSUME NEW c \in Jobs, Ask(c).op = "issue captcha", <<"captcha", c>> \notin tangled
        PROVE  /\ Cardinality(Said(c, "passed")) <= 1
               /\ Cardinality(Said(c, "failed")) + Cardinality(Said(c, "passed")) <= load.max_attempts
    BY <2>1 DEF Captchas, CapOf, Counted
  <2> QED BY <2>1 DEF CaptchaHolds, Said
<1> QED BY <1>1, <1>2, <1>3, PTL DEF ChallengeSpec
=============================================================================
