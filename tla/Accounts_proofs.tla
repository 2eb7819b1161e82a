--------------------------- MODULE Accounts_proofs ---------------------------
(***************************************************************************)
(* Proofs about Accounts, for any number of addresses, accounts, links,    *)
(* invitations and requests and every workload: links and invitations are  *)
(* spent once, a verified address was proven, and roles, scopes and the    *)
(* super administrator agree whatever edits overlap.                       *)
(***************************************************************************)
EXTENDS Accounts, SequenceTheorems, FiniteSetTheorems, TLAPS

-----------------------------------------------------------------------------
(* Statements: what a request carries, by the point it has reached         *)

EmailStmt == [j : {"scount", "rcount", "pread", "rcommit"}, e : Emails]
UserStmt == [j : {"aread", "sread"}, u : UserIds]
DeleteStmt == [j : {"udel"}, u : UserIds \ {SUPER_ADMIN_USER_ID}]
ChangeStmt == [j : {"cread", "ccommit"}, u : UserIds, e : Emails]
AvailStmt == [j : {"avail"}, e : Emails, u : UserIds \cup {None}]
IssueStmt == [j : {"issue"}, u : UserIds, p : Purposes, e : Emails]
FirstStmt == [j : {"insert"}, e : Emails, role : {"admin"}, from : {First}]
MemberStmt == [j : {"insert"}, e : Emails, role : {"user"}, from : {None}]
RecordStmt == [j : {"record"}, k : TokIds, reset : BOOLEAN]
TokenStmt == [j : {"rreset", "rlink"}, k : TokIds, t : Token]
LinkStmt == [j : {"link"}, k : TokIds, t : Token, same : BOOLEAN]
PasswordStmt == [j : {"password"}, k : TokIds, u : UserIds]
InviteStmt == [j : {"iread"}, e : Emails, by : UserIds]
InvitedStmt == [j : {"icommit"}, e : Emails, by : UserIds, old : SUBSET InvIds]
InvStmt == [j : {"refresh", "revoke", "tread"}, i : InvIds]
AcceptStmt == [j : {"accept"}, i : InvIds, e : Emails]
CreateStmt == [j : {"ucreate"}, e : Emails, role : Roles, asked : BOOLEAN, active : BOOLEAN]
UpdateStmt == [j : {"uread"}, u : UserIds, e : Emails \cup {None}, role : Roles \cup {None},
               asked : {None, TRUE}, active : BOOLEAN \cup {None}]
CommitStmt == [j : {"ucommit"}, u : UserIds, e : Emails \cup {None}, active : BOOLEAN \cup {None},
               to : [role : Roles, scopes : BOOLEAN]]

Stmt ==
    EmailStmt \cup UserStmt \cup DeleteStmt \cup ChangeStmt \cup AvailStmt \cup IssueStmt \cup FirstStmt
    \cup MemberStmt \cup RecordStmt \cup TokenStmt \cup LinkStmt \cup PasswordStmt \cup InviteStmt
    \cup InvitedStmt \cup InvStmt \cup AcceptStmt \cup CreateStmt \cup UpdateStmt \cup CommitStmt

\* A request has one statement to make, or a check and what it is for.
List(s) ==
    /\ s \in Seq(Stmt) /\ Len(s) <= 2
    /\ Len(s) = 2 => s[1].j \in {"refresh", "avail"} /\ s[2].j \in {"revoke", "rcommit", "ccommit", "issue", "link"}

-----------------------------------------------------------------------------
(* The inductive invariant                                                 *)

\* The types.
JobsTyped == todo \in [Clients -> Seq(Stmt)] /\ \A c \in Clients : List(todo[c])
TablesTyped == TypeOK /\ uses \in [TokIds -> Nat] /\ origin \in [UserIds -> InvIds \cup {First, None}]

\* With one request at a time, one client has statements to make.
Serial == load.serial => \A c, d \in Clients : todo[c] # <<>> /\ todo[d] # <<>> => c = d

\* Rows have ids that were handed out, and the first account stays.
Ids ==
    /\ \A u \in UserIds : users[u] # None \/ origin[u] # None => u <= last.user
    /\ \A i \in InvIds : invites[i] # None => i <= last.inv /\ last.user >= 1
    /\ last.user >= 1 => users[SUPER_ADMIN_USER_ID] # None

\* An id of a link that was not handed out has no row; an unused link was never redeemed.
LinkInv == \A k \in TokIds :
    /\ uses[k] <= 1
    /\ k > last.tok => tokens[k] = None /\ uses[k] = 0
    /\ tokens[k] # None /\ ~ tokens[k].used => uses[k] = 0

\* An invitation makes one account, and none as long as it is pending or once it was withdrawn.
InvitationInv ==
    /\ \A u, w \in UserIds : origin[u] = origin[w] /\ origin[u] \in InvIds => u = w
    /\ \A u \in UserIds : origin[u] \in InvIds =>
          origin[u] <= last.inv /\ ~ Pending(origin[u]) /\ origin[u] \notin withdrawn
    /\ \A i \in withdrawn : i <= last.inv /\ ~ Pending(i)

\* One account came first.
FirstInv == load.serial => \A u, w \in UserIds : origin[u] = First /\ origin[w] = First => u = w

\* A statement is right for what was read before it.
Sound(c, x) ==
    /\ x.j \in {"rcommit", "ucreate", "accept"} \/ (x.j = "insert" /\ x.from = None) => last.user >= 1
    /\ x.j = "insert" /\ x.from = First /\ load.serial => last.user = 0
    /\ x.j \in {"uread", "ucommit"} => "update" \in load.ops[c]
    /\ x.j = "sread" \/ (x.j = "issue" /\ x.p = "change") => "resend" \in load.ops[c]
    /\ x.j = "ucommit" => /\ x.to.scopes => x.to.role = "operator"
                          /\ x.u = SUPER_ADMIN_USER_ID => x.to.role = "admin" /\ ~ x.to.scopes /\ x.active \in {None, TRUE}
    /\ x.j = "link" /\ x.t.purpose = "activation" /\ (load.serial \/ Without("update")) =>
          /\ x.t.user <= last.user
          /\ users[x.t.user] = None \/ users[x.t.user].email = x.t.target \/ users[x.t.user].verified
    /\ x.j = "issue" /\ x.p = "change" /\ load.serial => users[x.u] = None \/ users[x.u].pending = x.e
    /\ x.j = "icommit" /\ load.serial => \A i \in InvIds : Pending(i) /\ invites[i].email = x.e => i \in x.old
SoundJobs == \A c \in Clients : \A n \in 1..Len(todo[c]) : Sound(c, todo[c][n])

\* The tables and the history, then the requests.
Tables ==
    /\ TablesTyped /\ Ids /\ LinkInv /\ InvitationInv /\ FirstInv
    /\ OneOpenInvitation /\ SuperAdminStays /\ ScopesNeedOperator /\ VerifiedWasProven /\ PendingHasLink
Inv == Tables /\ JobsTyped /\ Serial /\ SoundJobs

-----------------------------------------------------------------------------
(* Lists of statements                                                     *)

\* The request goes on with these statements.
Sets(c, s) == todo' = [todo EXCEPT ![c] = s]

\* What a workload is.
LEMMA LoadIs ==
    ASSUME load \in Workloads
    PROVE  /\ load.ops \in [Clients -> SUBSET Ops] /\ load.serial \in BOOLEAN /\ load.faults \in Nat
           /\ load.users \in Seq(User) /\ load.emails \subseteq Emails
           /\ load.max.user \in UserIds /\ load.max.tok \in 0..MaxTok /\ load.max.inv \in 0..MaxInv
           /\ Len(load.users) <= load.max.user
           /\ \A u \in 1..Len(load.users) :
                 /\ load.users[u].scopes => load.users[u].role = "operator"
                 /\ u = SUPER_ADMIN_USER_ID => load.users[u].role = "admin" /\ load.users[u].active
<1>1. load \in [ops : [Clients -> SUBSET Ops], serial : BOOLEAN, faults : Nat,
                activation : BOOLEAN, time : BOOLEAN, users : Seq(User),
                emails : SUBSET Emails, max : [user : UserIds, tok : 0..MaxTok, inv : 0..MaxInv]]
  BY AccountsAssumption
<1>2. load.max \in [user : UserIds, tok : 0..MaxTok, inv : 0..MaxInv]
  BY <1>1
<1>3. load.max.user \in UserIds /\ load.max.tok \in 0..MaxTok /\ load.max.inv \in 0..MaxInv
  BY <1>2
<1> QED BY <1>1, <1>3, AccountsAssumption

\* A statement's kind tells what it carries.
LEMMA StmtIs ==
    ASSUME NEW x \in Stmt
    PROVE  /\ x.j \in {"scount", "rcount", "pread", "rcommit"} => x \in EmailStmt
           /\ x.j \in {"aread", "sread"} => x \in UserStmt
           /\ x.j = "udel" => x \in DeleteStmt
           /\ x.j \in {"cread", "ccommit"} => x \in ChangeStmt
           /\ x.j = "avail" => x \in AvailStmt
           /\ x.j = "issue" => x \in IssueStmt
           /\ x.j = "insert" => x \in FirstStmt \cup MemberStmt
           /\ x.j = "record" => x \in RecordStmt
           /\ x.j \in {"rreset", "rlink"} => x \in TokenStmt
           /\ x.j = "link" => x \in LinkStmt
           /\ x.j = "password" => x \in PasswordStmt
           /\ x.j = "iread" => x \in InviteStmt
           /\ x.j = "icommit" => x \in InvitedStmt
           /\ x.j \in {"refresh", "revoke", "tread"} => x \in InvStmt
           /\ x.j = "accept" => x \in AcceptStmt
           /\ x.j = "ucreate" => x \in CreateStmt
           /\ x.j = "uread" => x \in UpdateStmt
           /\ x.j = "ucommit" => x \in CommitStmt
  BY DEF Stmt, EmailStmt, UserStmt, DeleteStmt, ChangeStmt, AvailStmt, IssueStmt, FirstStmt, MemberStmt,
         RecordStmt, TokenStmt, LinkStmt, PasswordStmt, InviteStmt, InvitedStmt, InvStmt, AcceptStmt,
         CreateStmt, UpdateStmt, CommitStmt

\* No statement to make is a list.
LEMMA NoneIsList == List(<<>>) /\ Len(<<>>) = 0
  BY DEF List

\* One statement is a list.
LEMMA OneIsList == ASSUME NEW x \in Stmt PROVE List(<<x>>) /\ Len(<<x>>) = 1 /\ <<x>>[1] = x /\ <<x>> # <<>>
  BY DEF List

\* A check with what it is for is a list.
LEMMA TwoIsList ==
    ASSUME NEW x \in Stmt, NEW y \in Stmt, x.j \in {"refresh", "avail"},
           y.j \in {"revoke", "rcommit", "ccommit", "issue", "link"}
    PROVE  List(<<x, y>>) /\ Len(<<x, y>>) = 2 /\ <<x, y>>[1] = x /\ <<x, y>>[2] = y
  BY DEF List

\* The first statement of a list, and what is left after it.
LEMMA ListTail ==
    ASSUME NEW s, List(s), s # <<>>
    PROVE  /\ s[1] \in Stmt /\ Head(s) = s[1] /\ 1 \in 1..Len(s) /\ List(Tail(s))
           /\ s[1].j \notin {"refresh", "avail"} => Tail(s) = <<>>
           /\ Tail(s) # <<>> => Len(Tail(s)) = 1 /\ 2 \in 1..Len(s) /\ Tail(s)[1] = s[2]
<1>1. s \in Seq(Stmt) /\ Len(s) \in Nat /\ Len(s) >= 1 /\ Len(s) <= 2
  BY EmptySeq, LenProperties DEF List
<1>2. /\ Head(s) = s[1] /\ Tail(s) \in Seq(Stmt) /\ Len(Tail(s)) = Len(s) - 1
      /\ \A n \in 1..Len(Tail(s)) : Tail(s)[n] = s[n + 1]
  BY <1>1, HeadTailProperties
<1>3. s[1] \in Stmt /\ 1 \in 1..Len(s)
  BY <1>1, ElementOfSeq
<1>4. Tail(s) # <<>> => Len(Tail(s)) = 1 /\ Len(s) = 2
  BY <1>1, <1>2, EmptySeq
<1>5. List(Tail(s))
  BY <1>1, <1>2 DEF List
<1> QED BY <1>1, <1>2, <1>3, <1>4, <1>5 DEF List

\* A request that is not at a check is at its last statement, and Then replaces it.
LEMMA ThenAlone ==
    ASSUME NEW c \in Clients, List(todo[c]), todo[c] # <<>>, Head(todo[c]).j \notin {"refresh", "avail"},
           NEW s, List(s), Then(c, s)
    PROVE  Sets(c, s)
<1>1. Tail(todo[c]) = <<>>
  BY ListTail
<1>2. s \o <<>> = s
  BY ConcatEmptySeq DEF List
<1> QED BY <1>1, <1>2 DEF Then, Sets

\* A check that succeeds leaves the rest.
LEMMA ThenRest ==
    ASSUME NEW c \in Clients, List(todo[c]), todo[c] # <<>>, Then(c, <<>>)
    PROVE  Sets(c, Tail(todo[c]))
<1>1. List(Tail(todo[c]))
  BY ListTail
<1>2. <<>> \o Tail(todo[c]) = Tail(todo[c])
  BY <1>1, ConcatEmptySeq DEF List
<1> QED BY <1>2 DEF Then, Sets

\* Go: with statements, or not at all.
LEMMA GoAlone ==
    ASSUME NEW c \in Clients, List(todo[c]), todo[c] # <<>>, Head(todo[c]).j \notin {"refresh", "avail"},
           NEW s, NEW ok, ok => List(s), Go(c, ok, s)
    PROVE  (ok /\ Sets(c, s)) \/ Sets(c, <<>>)
<1>1. ok /\ Then(c, s) => Sets(c, s)
  BY ThenAlone
<1>2. Stop(c) => Sets(c, <<>>)
  BY DEF Stop, Sets
<1> QED BY <1>1, <1>2 DEF Go

\* What stays when a request changes its list.
LEMMA SetsTodo ==
    ASSUME JobsTyped, NEW c \in Clients, NEW s, List(s), Sets(c, s)
    PROVE  /\ JobsTyped' /\ todo'[c] = s /\ \A d \in Clients : d # c => todo'[d] = todo[d]
<1>1. todo'[c] = s /\ \A d \in Clients : d # c => todo'[d] = todo[d]
  BY DEF JobsTyped, Sets
<1>2. todo' \in [Clients -> Seq(Stmt)]
  BY DEF JobsTyped, Sets, List
<1>3. \A d \in Clients : List(todo'[d])
  BY <1>1 DEF JobsTyped
<1>4. \A d \in Clients : List(todo'[d]) <=> List(todo[d])'
  BY DEF List
<1> QED BY <1>1, <1>2, <1>3, <1>4 DEF JobsTyped

\* A client that is at work, or starts, is the only one when requests come one by one.
LEMMA SetsSerial ==
    ASSUME JobsTyped, Serial, NEW c \in Clients, NEW s, List(s), Sets(c, s), load' = load,
           todo[c] # <<>> \/ Idle(c)
    PROVE  Serial'
<1>1. todo'[c] = s /\ \A d \in Clients : d # c => todo'[d] = todo[d]
  BY SetsTodo
<1> QED BY <1>1 DEF Serial, Idle

\* The statement at hand.
LEMMA JobIs ==
    ASSUME JobsTyped, SoundJobs, NEW c \in Clients, NEW j, At(c, j)
    PROVE  /\ todo[c] # <<>> /\ List(todo[c]) /\ Job(c) \in Stmt /\ Job(c).j = j /\ Sound(c, Job(c))
           /\ Head(todo[c]) = Job(c)
<1>1. todo[c] # <<>> /\ List(todo[c])
  BY DEF At, JobsTyped
<1>2. todo[c][1] \in Stmt /\ Head(todo[c]) = todo[c][1] /\ 1 \in 1..Len(todo[c])
  BY <1>1, ListTail
<1> QED BY <1>1, <1>2 DEF At, Job, SoundJobs

\* The statements of s are right.
SoundList(c, s) == \A n \in 1..Len(s) : Sound(c, s[n])

\* What another request's statements rely on: ids are not used again, and an address is changed with its
\* verification.
Evolves ==
    /\ load' = load /\ last.user \in Nat /\ last'.user \in Nat /\ last.user <= last'.user
    /\ Without("update") => \A u \in UserIds : u <= last.user =>
          \/ users'[u] = None
          \/ users[u] # None /\ (users'[u].verified \/ (users'[u].email = users[u].email /\ ~ users[u].verified))

\* The statements of others stay right.
LEMMA SoundStays ==
    ASSUME Evolves, ~ load.serial, NEW c, NEW x \in Stmt, Sound(c, x)
    PROVE  Sound(c, x)'
<1>1. load' = load /\ last.user \in Nat /\ last'.user \in Nat /\ last.user <= last'.user
  BY DEF Evolves
<1>2. Without("update")' <=> Without("update")
  BY <1>1 DEF Without
<1>3. ASSUME x.j = "link", x.t.purpose = "activation", Without("update")
      PROVE  /\ x.t.user <= last'.user
             /\ users'[x.t.user] = None \/ users'[x.t.user].email = x.t.target \/ users'[x.t.user].verified
  <2>1. x.t.user \in UserIds BY <1>3, StmtIs DEF LinkStmt, Token
  <2>2. PICK u \in UserIds : u = x.t.user BY <2>1
  <2>3. /\ u <= last.user
        /\ users[u] = None \/ users[u].email = x.t.target \/ users[u].verified
    BY <1>3, <2>2 DEF Sound
  <2>4. u \in Nat BY AccountsAssumption DEF UserIds
  <2>5. u <= last'.user BY <1>1, <2>3, <2>4
  <2>6. users'[u] = None \/ users'[u].email = x.t.target \/ users'[u].verified
    BY <1>3, <2>3 DEF Evolves
  <2> QED BY <2>2, <2>5, <2>6
<1>4. last.user >= 1 => last'.user >= 1
  BY <1>1
<1> QED BY <1>1, <1>2, <1>3, <1>4 DEF Sound

\* The statements of all requests stay right when one of them goes on with right ones.
LEMMA JobsStay ==
    ASSUME JobsTyped, Serial, SoundJobs, Evolves, NEW c \in Clients, todo[c] # <<>>, NEW s, List(s), Sets(c, s),
           SoundList(c, s)'
    PROVE  JobsTyped' /\ Serial' /\ SoundJobs'
<1>1. JobsTyped' /\ todo'[c] = s /\ \A d \in Clients : d # c => todo'[d] = todo[d]
  BY SetsTodo
<1>2. load' = load
  BY DEF Evolves
<1>3. Serial'
  BY <1>2, SetsSerial
<1>4. SoundJobs'
  <2> SUFFICES ASSUME NEW d \in Clients, NEW n \in 1..Len(todo'[d]) PROVE Sound(d, todo[d][n])'
    BY DEF SoundJobs
  <2>1. CASE d = c BY <1>1, <2>1 DEF SoundList
  <2>2. CASE d # c
    <3>1. todo'[d] = todo[d] /\ n \in 1..Len(todo[d]) /\ todo[d] \in Seq(Stmt)
      BY <1>1, <2>2 DEF JobsTyped
    <3>2. PICK x : x = todo[d][n] OBVIOUS
    <3>3. x \in Stmt /\ Sound(d, x) BY <3>1, <3>2, ElementOfSeq DEF SoundJobs
    <3>4. todo[d] # <<>> BY <3>1, EmptySeq
    <3>5. ~ load.serial BY <2>2, <3>4 DEF Serial
    <3>6. Sound(d, x)' BY <3>3, <3>5, SoundStays
    <3> QED BY <3>1, <3>2, <3>6
  <2> QED BY <2>1, <2>2
<1> QED BY <1>1, <1>3, <1>4

\* A request that ends leaves nothing that could be wrong.
LEMMA JobsEnd ==
    ASSUME JobsTyped, Serial, SoundJobs, Evolves, NEW c \in Clients, todo[c] # <<>>, Sets(c, <<>>)
    PROVE  JobsTyped' /\ Serial' /\ SoundJobs'
<1>1. SoundList(c, <<>>)'
  BY NoneIsList DEF SoundList
<1> QED BY <1>1, NoneIsList, JobsStay

\* A step that leaves the tables alone.
LEMMA TablesStay ==
    ASSUME Tables, UNCHANGED <<db, load, hist>>, faults' \in Nat
    PROVE  Tables'
<1> USE DEF db, hist
<1>1. TablesTyped'
  BY DEF Tables, TablesTyped, TypeOK
<1>2. Ids' /\ LinkInv' /\ FirstInv'
  BY DEF Tables, Ids, LinkInv, FirstInv
<1>3. InvitationInv' /\ OneOpenInvitation'
  BY DEF Tables, InvitationInv, OneOpenInvitation, LiveInvites, Pending
<1>4. SuperAdminStays' /\ ScopesNeedOperator'
  BY DEF Tables, SuperAdminStays, ScopesNeedOperator, Live
<1>5. VerifiedWasProven'
  BY DEF Tables, VerifiedWasProven, Live, Without
<1>6. PendingHasLink'
  BY DEF Tables, PendingHasLink, Live, Without, ActiveTokens, LiveTokens
<1> QED BY <1>1, <1>2, <1>3, <1>4, <1>5, <1>6 DEF Tables

\* A statement stays right when the tables stay.
LEMMA SoundSame ==
    ASSUME UNCHANGED <<db, env, hist>>, NEW c, NEW x, Sound(c, x)
    PROVE  Sound(c, x)'
  BY DEF Sound, db, env, hist, Pending, Without

\* A request is received, or reads: what it goes on with must be right.
LEMMA ReadStep ==
    ASSUME Inv, NEW c \in Clients, todo[c] # <<>> \/ Idle(c), NEW s, List(s), Sets(c, s), SoundList(c, s),
           UNCHANGED <<db, env, hist>>
    PROVE  Inv'
<1>1. Tables /\ JobsTyped /\ Serial /\ SoundJobs
  BY DEF Inv
<1>2. Tables'
  <2>1. load' = load /\ faults' = faults /\ faults \in Nat
    BY <1>1 DEF env, Tables, TablesTyped, TypeOK
  <2> QED BY <1>1, <2>1, TablesStay
<1>3. JobsTyped' /\ todo'[c] = s /\ \A d \in Clients : d # c => todo'[d] = todo[d]
  BY <1>1, SetsTodo
<1>4. Serial'
  BY <1>1, SetsSerial DEF env
<1>5. SoundJobs'
  <2> SUFFICES ASSUME NEW d \in Clients, NEW n \in 1..Len(todo'[d]) PROVE Sound(d, todo[d][n])'
    BY DEF SoundJobs
  <2>1. PICK x : x = todo'[d][n] OBVIOUS
  <2>2. Sound(d, x) BY <1>1, <1>3, <2>1 DEF SoundJobs, SoundList
  <2>3. Sound(d, x)' BY <2>2, SoundSame
  <2> QED BY <2>1, <2>3
<1> QED BY <1>2, <1>3, <1>4, <1>5 DEF Inv

\* The same, with nothing to go on with.
LEMMA StopStep ==
    ASSUME Inv, NEW c \in Clients, todo[c] # <<>>, Sets(c, <<>>), UNCHANGED <<db, env, hist>>
    PROVE  Inv'
<1>1. SoundList(c, <<>>)
  BY NoneIsList DEF SoundList
<1> QED BY <1>1, NoneIsList, ReadStep

-----------------------------------------------------------------------------
(* Requests                                                                *)

\* Statements that rely on nothing.
Plain == {"scount", "rcount", "pread", "aread", "udel", "cread", "ccommit", "avail", "record", "rreset", "rlink",
          "password", "iread", "refresh", "revoke", "tread"}

\* They are right whatever the tables hold.
LEMMA PlainSound == ASSUME NEW c, NEW x, x.j \in Plain PROVE Sound(c, x)
  BY DEF Plain, Sound

\* The first account is there as soon as an id was handed out.
LEMMA LiveIds ==
    ASSUME Tables
    PROVE  /\ last.user \in Nat /\ last.user <= MaxUser /\ last.tok \in Nat /\ last.inv \in Nat
           /\ Live = {} => last.user = 0
           /\ \A u \in UserIds : users[u] # None => last.user >= 1 /\ u <= last.user
<1>1. last.user \in 0..MaxUser /\ last.tok \in 0..MaxTok /\ last.inv \in 0..MaxInv /\ MaxUser \in Nat /\ UserIds = 1..MaxUser
  BY AccountsAssumption DEF Tables, TablesTyped, TypeOK, UserIds
<1>2. last.user \in Nat /\ last.user <= MaxUser /\ last.tok \in Nat /\ last.inv \in Nat
  BY <1>1, AccountsAssumption
<1>3. ASSUME Live = {} PROVE last.user = 0
  <2>1. SUPER_ADMIN_USER_ID \in UserIds => users[SUPER_ADMIN_USER_ID] = None
    BY <1>3 DEF Live
  <2>2. last.user >= 1 => SUPER_ADMIN_USER_ID \in UserIds
    BY <1>1, <1>2 DEF SUPER_ADMIN_USER_ID
  <2>3. ~ (last.user >= 1) BY <2>1, <2>2 DEF Tables, Ids
  <2> QED BY <1>2, <2>3
<1>4. ASSUME NEW u \in UserIds, users[u] # None PROVE last.user >= 1 /\ u <= last.user
  <2>1. u <= last.user /\ u \in Nat /\ u >= 1 BY <1>1, <1>4 DEF Tables, Ids
  <2> QED BY <1>2, <2>1
<1> QED BY <1>2, <1>3, <1>4

\* A request is received.
LEMMA StartOne ==
    ASSUME Inv, NEW c \in Clients, NEW x \in Stmt, Sound(c, x), NEW op, Start(c, op, <<x>>)
    PROVE  Inv'
<1>1. List(<<x>>) /\ SoundList(c, <<x>>)
  BY OneIsList DEF SoundList
<1>2. Idle(c) /\ Sets(c, <<x>>) /\ UNCHANGED <<db, env, hist>>
  BY DEF Start, Sets
<1> QED BY <1>1, <1>2, ReadStep

\* The same for one that relies on nothing.
LEMMA StartPlain ==
    ASSUME Inv, NEW c \in Clients, NEW x \in Stmt, x.j \in Plain, NEW op, Start(c, op, <<x>>)
    PROVE  Inv'
  BY PlainSound, StartOne

\* A request is received.
LEMMA RequestInv ==
    ASSUME Inv, NEW c \in Clients, Request(c)
    PROVE  Inv'
<1>0. load.emails \subseteq Emails /\ Live \subseteq UserIds /\ LiveInvites \subseteq InvIds /\ 1..last.tok \subseteq TokIds
  <2>1. load \in Workloads /\ last.tok \in 0..MaxTok
    BY DEF Inv, Tables, TablesTyped, TypeOK
  <2> QED BY <2>1, LoadIs, AccountsAssumption DEF Live, LiveInvites, TokIds
<1>1. CASE SetupFirstAdmin(c)
  <2>1. PICK e \in load.emails : Start(c, "setup", <<[j |-> "scount", e |-> e]>>)
    BY <1>1 DEF SetupFirstAdmin
  <2>2. [j |-> "scount", e |-> e] \in Stmt BY <1>0 DEF Stmt, EmailStmt
  <2> QED BY <2>1, <2>2, StartPlain DEF Plain
<1>2. CASE Register(c)
  <2>1. PICK e \in load.emails : Start(c, "register", <<[j |-> "rcount", e |-> e]>>)
    BY <1>2 DEF Register
  <2>2. [j |-> "rcount", e |-> e] \in Stmt BY <1>0 DEF Stmt, EmailStmt
  <2> QED BY <2>1, <2>2, StartPlain DEF Plain
<1>3. CASE ResendActivation(c)
  <2>1. PICK u \in Live : Start(c, "activation", <<[j |-> "aread", u |-> u]>>)
    BY <1>3 DEF ResendActivation
  <2>2. [j |-> "aread", u |-> u] \in Stmt BY <1>0 DEF Stmt, UserStmt
  <2> QED BY <2>1, <2>2, StartPlain DEF Plain
<1>4. CASE RequestEmailChange(c)
  <2>1. PICK u \in Live, e \in load.emails : Start(c, "change", <<[j |-> "cread", u |-> u, e |-> e]>>)
    BY <1>4 DEF RequestEmailChange
  <2>2. [j |-> "cread", u |-> u, e |-> e] \in Stmt BY <1>0 DEF Stmt, ChangeStmt
  <2> QED BY <2>1, <2>2, StartPlain DEF Plain
<1>5. CASE ResendEmailChange(c)
  <2>1. PICK u \in Live : Start(c, "resend", <<[j |-> "sread", u |-> u]>>)
    BY <1>5 DEF ResendEmailChange
  <2>2. [j |-> "sread", u |-> u] \in Stmt BY <1>0 DEF Stmt, UserStmt
  <2>3. Sound(c, [j |-> "sread", u |-> u]) BY <2>1 DEF Sound, Start
  <2> QED BY <2>1, <2>2, <2>3, StartOne
<1>6. CASE RequestPasswordReset(c)
  <2>1. PICK e \in load.emails : Start(c, "reset", <<[j |-> "pread", e |-> e]>>)
    BY <1>6 DEF RequestPasswordReset
  <2>2. [j |-> "pread", e |-> e] \in Stmt BY <1>0 DEF Stmt, EmailStmt
  <2> QED BY <2>1, <2>2, StartPlain DEF Plain
<1>7. CASE ConfirmContactVerification(c)
  <2>1. PICK k \in 1..last.tok : Start(c, "contact", <<[j |-> "record", k |-> k, reset |-> FALSE]>>)
    BY <1>7 DEF ConfirmContactVerification
  <2>2. [j |-> "record", k |-> k, reset |-> FALSE] \in Stmt BY <1>0 DEF Stmt, RecordStmt
  <2> QED BY <2>1, <2>2, StartPlain DEF Plain
<1>8. CASE ConfirmPasswordReset(c)
  <2>1. PICK k \in 1..last.tok : Start(c, "newpassword", <<[j |-> "record", k |-> k, reset |-> TRUE]>>)
    BY <1>8 DEF ConfirmPasswordReset
  <2>2. [j |-> "record", k |-> k, reset |-> TRUE] \in Stmt BY <1>0 DEF Stmt, RecordStmt
  <2> QED BY <2>1, <2>2, StartPlain DEF Plain
<1>9. CASE CreateUserInvitation(c)
  <2>1. PICK e \in load.emails, u \in Live : Start(c, "invite", <<[j |-> "iread", e |-> e, by |-> u]>>)
    BY <1>9 DEF CreateUserInvitation
  <2>2. [j |-> "iread", e |-> e, by |-> u] \in Stmt BY <1>0 DEF Stmt, InviteStmt
  <2> QED BY <2>1, <2>2, StartPlain DEF Plain
<1>10. CASE RevokeUserInvitation(c)
  <2>1. PICK i \in LiveInvites : Start(c, "revoke", <<[j |-> "refresh", i |-> i], [j |-> "revoke", i |-> i]>>)
    BY <1>10 DEF RevokeUserInvitation
  <2> DEFINE x == [j |-> "refresh", i |-> i]
             y == [j |-> "revoke", i |-> i]
  <2>2. x \in Stmt /\ y \in Stmt /\ x.j = "refresh" /\ y.j = "revoke"
    BY <1>0 DEF Stmt, InvStmt
  <2>3. Start(c, "revoke", <<x, y>>) BY <2>1
  <2> HIDE DEF x, y
  <2>4. List(<<x, y>>) /\ Len(<<x, y>>) = 2 /\ <<x, y>>[1] = x /\ <<x, y>>[2] = y
    BY <2>2, TwoIsList
  <2>5. Sound(c, x) /\ Sound(c, y) BY <2>2, PlainSound DEF Plain
  <2>6. SoundList(c, <<x, y>>) BY <2>4, <2>5 DEF SoundList
  <2>7. Idle(c) /\ Sets(c, <<x, y>>) /\ UNCHANGED <<db, env, hist>>
    BY <2>3 DEF Start, Sets
  <2> QED BY <2>4, <2>6, <2>7, ReadStep
<1>11. CASE VerifyUserInvitation(c)
  <2>1. PICK i \in LiveInvites : Start(c, "verify", <<[j |-> "refresh", i |-> i]>>)
    BY <1>11 DEF VerifyUserInvitation
  <2>2. [j |-> "refresh", i |-> i] \in Stmt BY <1>0 DEF Stmt, InvStmt
  <2> QED BY <2>1, <2>2, StartPlain DEF Plain
<1>12. CASE AcceptUserInvitation(c)
  <2>1. PICK i \in LiveInvites : Start(c, "accept", <<[j |-> "tread", i |-> i]>>)
    BY <1>12 DEF AcceptUserInvitation
  <2>2. [j |-> "tread", i |-> i] \in Stmt BY <1>0 DEF Stmt, InvStmt
  <2> QED BY <2>1, <2>2, StartPlain DEF Plain
<1>13. CASE CreateUser(c)
  <2>1. PICK e \in load.emails, r \in Roles, s \in BOOLEAN, a \in BOOLEAN : Live # {} /\
          Start(c, "create", <<[j |-> "ucreate", e |-> e, role |-> r, asked |-> s, active |-> a]>>)
    BY <1>13 DEF CreateUser
  <2> DEFINE x == [j |-> "ucreate", e |-> e, role |-> r, asked |-> s, active |-> a]
  <2>2. x \in Stmt /\ x.j = "ucreate" BY <1>0 DEF Stmt, CreateStmt
  <2>3. last.user >= 1 BY <2>1, LiveIds DEF Inv, Live
  <2>4. Start(c, "create", <<x>>) BY <2>1
  <2> HIDE DEF x
  <2>5. Sound(c, x) BY <2>2, <2>3 DEF Sound
  <2> QED BY <2>2, <2>4, <2>5, StartOne
<1>14. CASE UpdateUser(c)
  <2>1. PICK u \in Live, e \in load.emails \cup {None}, r \in Roles \cup {None}, s \in {None, TRUE}, a \in BOOLEAN \cup {None} :
          Start(c, "update", <<[j |-> "uread", u |-> u, e |-> e, role |-> r, asked |-> s, active |-> a]>>)
    BY <1>14 DEF UpdateUser
  <2> DEFINE x == [j |-> "uread", u |-> u, e |-> e, role |-> r, asked |-> s, active |-> a]
  <2>2. x \in UpdateStmt BY <1>0 DEF UpdateStmt
  <2>3. Start(c, "update", <<x>>) BY <2>1
  <2>4. x \in Stmt /\ x.j = "uread" BY <2>2 DEF Stmt
  <2> HIDE DEF x
  <2>5. Sound(c, x) BY <2>3, <2>4 DEF Sound, Start
  <2> QED BY <2>3, <2>4, <2>5, StartOne
<1>15. CASE DeleteUser(c)
  <2>1. PICK u \in Live \ {SUPER_ADMIN_USER_ID} : Start(c, "delete", <<[j |-> "udel", u |-> u]>>)
    BY <1>15 DEF DeleteUser
  <2>2. [j |-> "udel", u |-> u] \in Stmt BY <1>0 DEF Stmt, DeleteStmt
  <2> QED BY <2>1, <2>2, StartPlain DEF Plain
<1> QED BY <1>1, <1>2, <1>3, <1>4, <1>5, <1>6, <1>7, <1>8, <1>9, <1>10, <1>11, <1>12, <1>13, <1>14, <1>15 DEF Request

-----------------------------------------------------------------------------
(* Reads                                                                   *)

\* A request goes on with one statement, or ends.
LEMMA GoOne ==
    ASSUME Inv, NEW c \in Clients, NEW j, At(c, j), j \notin {"refresh", "avail"}, NEW ok, NEW x,
           ok => x \in Stmt /\ Sound(c, x), Go(c, ok, <<x>>), UNCHANGED <<db, env, hist>>
    PROVE  Inv'
<1>1. todo[c] # <<>> /\ List(todo[c]) /\ Head(todo[c]).j = j
  BY JobIs DEF Inv, At
<1>2. ok => List(<<x>>) /\ SoundList(c, <<x>>)
  BY OneIsList DEF SoundList
<1>3. (ok /\ Sets(c, <<x>>)) \/ Sets(c, <<>>)
  BY <1>1, <1>2, GoAlone
<1>4. CASE ok /\ Sets(c, <<x>>)
  BY <1>1, <1>2, <1>4, ReadStep
<1>5. CASE Sets(c, <<>>)
  BY <1>1, <1>5, StopStep
<1> QED BY <1>3, <1>4, <1>5

\* A request goes on with a check for an address and what it is for, or ends.
LEMMA GoTwo ==
    ASSUME Inv, NEW c \in Clients, NEW j, At(c, j), j \notin {"refresh", "avail"}, NEW ok, NEW x, NEW y,
           ok => /\ x \in Stmt /\ x.j = "avail" /\ y \in Stmt /\ Sound(c, y)
                 /\ y.j \in {"revoke", "rcommit", "ccommit", "issue", "link"},
           Go(c, ok, <<x, y>>), UNCHANGED <<db, env, hist>>
    PROVE  Inv'
<1>1. todo[c] # <<>> /\ List(todo[c]) /\ Head(todo[c]).j = j
  BY JobIs DEF Inv, At
<1>2. ASSUME ok PROVE List(<<x, y>>) /\ SoundList(c, <<x, y>>)
  <2>1. List(<<x, y>>) /\ Len(<<x, y>>) = 2 /\ <<x, y>>[1] = x /\ <<x, y>>[2] = y
    BY <1>2, TwoIsList
  <2>2. Sound(c, x) /\ Sound(c, y) BY <1>2, PlainSound DEF Plain
  <2> QED BY <2>1, <2>2 DEF SoundList
<1>3. (ok /\ Sets(c, <<x, y>>)) \/ Sets(c, <<>>)
  BY <1>1, <1>2, GoAlone
<1>4. CASE ok /\ Sets(c, <<x, y>>)
  BY <1>1, <1>2, <1>4, ReadStep
<1>5. CASE Sets(c, <<>>)
  BY <1>1, <1>5, StopStep
<1> QED BY <1>3, <1>4, <1>5

\* The first account: nobody else is there when requests come one by one.
LEMMA FirstSound ==
    ASSUME Inv, NEW c, NEW e \in Emails, Live = {}
    PROVE  FirstAdmin(e) \in Stmt /\ Sound(c, FirstAdmin(e))
<1>1. last.user = 0
  BY LiveIds DEF Inv
<1>2. FirstAdmin(e) \in Stmt
  BY DEF FirstAdmin, Stmt, FirstStmt
<1>3. FirstAdmin(e).j = "insert" /\ FirstAdmin(e).from = First /\ First # None
  BY AccountsAssumption DEF FirstAdmin, First
<1> QED BY <1>1, <1>2, <1>3 DEF Sound

\* setup_first_admin counts the accounts.
LEMMA CountForSetupInv ==
    ASSUME Inv, NEW c \in Clients, CountForSetup(c)
    PROVE  Inv'
<1>1. At(c, "scount") /\ Job(c).e \in Emails
  BY JobIs, StmtIs DEF CountForSetup, Inv, EmailStmt
<1>2. Go(c, Live = {}, <<FirstAdmin(Job(c).e)>>) /\ UNCHANGED <<db, env, hist>>
  BY DEF CountForSetup
<1>3. PICK x : x = FirstAdmin(Job(c).e) OBVIOUS
<1>4. Live = {} => x \in Stmt /\ Sound(c, x)
  BY <1>1, <1>3, FirstSound
<1>5. Go(c, Live = {}, <<x>>)
  BY <1>2, <1>3
<1>6. PICK ok \in BOOLEAN : ok <=> Live = {} OBVIOUS
<1>7. Go(c, ok, <<x>>)
  BY <1>5, <1>6 DEF Go
<1> QED BY <1>1, <1>2, <1>4, <1>6, <1>7, GoOne

\* register counts the accounts.
LEMMA CountForRegisterInv ==
    ASSUME Inv, NEW c \in Clients, CountForRegister(c)
    PROVE  Inv'
<1>1. At(c, "rcount") /\ Job(c).e \in Emails
  BY JobIs, StmtIs DEF CountForRegister, Inv, EmailStmt
<1>2. PICK e \in Emails : e = Job(c).e
  BY <1>1
<1>3. UNCHANGED <<db, env, hist>>
  BY DEF CountForRegister
<1>4. CASE Live = {}
  <2>1. Then(c, <<FirstAdmin(e)>>) BY <1>2, <1>4 DEF CountForRegister
  <2>2. PICK x : x = FirstAdmin(e) OBVIOUS
  <2>3. x \in Stmt /\ Sound(c, x) BY <1>4, <2>2, FirstSound
  <2>4. Go(c, TRUE, <<x>>) BY <2>1, <2>2 DEF Go
  <2> QED BY <1>1, <1>3, <2>3, <2>4, GoOne
<1>5. CASE Live # {} /\ load.activation
  <2> DEFINE x == [j |-> "avail", e |-> e, u |-> None]
             y == [j |-> "rcommit", e |-> e]
  <2>1. Then(c, <<x, y>>) BY <1>2, <1>5 DEF CountForRegister
  <2>2. x \in Stmt /\ x.j = "avail" /\ y \in Stmt /\ y.j = "rcommit"
    BY DEF Stmt, AvailStmt, EmailStmt
  <2> HIDE DEF x, y
  <2>3. last.user >= 1 BY <1>5, LiveIds DEF Inv, Live
  <2>4. Sound(c, y) BY <2>2, <2>3 DEF Sound
  <2>5. Go(c, TRUE, <<x, y>>) BY <2>1 DEF Go
  <2> QED BY <1>1, <1>3, <2>2, <2>4, <2>5, GoTwo
<1>6. CASE Live # {} /\ ~ load.activation
  <2> DEFINE x == [j |-> "insert", e |-> e, role |-> "user", from |-> None]
  <2>1. Then(c, <<x>>) BY <1>2, <1>6 DEF CountForRegister
  <2>2. x \in Stmt /\ x.j = "insert" /\ x.from = None BY DEF Stmt, MemberStmt
  <2> HIDE DEF x
  <2>3. last.user >= 1 BY <1>6, LiveIds DEF Inv, Live
  <2>4. None # First BY AccountsAssumption DEF First
  <2>5. Sound(c, x) BY <2>2, <2>3, <2>4 DEF Sound
  <2>6. Go(c, TRUE, <<x>>) BY <2>1 DEF Go
  <2> QED BY <1>1, <1>3, <2>2, <2>5, <2>6, GoOne
<1> QED BY <1>4, <1>5, <1>6

\* A check succeeds and the rest remains.
LEMMA RestStep ==
    ASSUME Inv, NEW c \in Clients, todo[c] # <<>>, Then(c, <<>>), UNCHANGED <<db, env, hist>>
    PROVE  Inv'
<1>1. List(todo[c])
  BY DEF Inv, JobsTyped
<1>2. PICK s : s = Tail(todo[c]) OBVIOUS
<1>3. Sets(c, s)
  BY <1>1, <1>2, ThenRest
<1>4. List(s) /\ (s # <<>> => Len(s) = 1 /\ s[1] = todo[c][2] /\ 2 \in 1..Len(todo[c]))
  BY <1>1, <1>2, ListTail
<1>5. SoundList(c, s)
  BY <1>4, NoneIsList DEF SoundList, Inv, SoundJobs
<1> QED BY <1>3, <1>4, <1>5, ReadStep

\* ensure_email_available: the rest, or nothing.
LEMMA CheckAvailableInv ==
    ASSUME Inv, NEW c \in Clients, CheckAvailable(c)
    PROVE  Inv'
<1>1. todo[c] # <<>> /\ UNCHANGED <<db, env, hist>> /\ (Then(c, <<>>) \/ Stop(c))
  BY DEF CheckAvailable, Go, At
<1>2. CASE Then(c, <<>>)
  BY <1>1, <1>2, RestStep
<1>3. CASE Stop(c)
  BY <1>1, <1>3, StopStep DEF Stop, Sets
<1> QED BY <1>1, <1>2, <1>3

\* What rows hold.
LEMMA RowsAre ==
    ASSUME Tables
    PROVE  /\ \A u \in UserIds : users[u] # None =>
                 /\ users[u] \in User /\ users[u].email \in Emails \cup {None} /\ users[u].pending \in Emails \cup {None}
                 /\ users[u].verified \in BOOLEAN /\ users[u].role \in Roles /\ users[u].scopes \in BOOLEAN
                 /\ users[u].active \in BOOLEAN
           /\ \A k \in TokIds : tokens[k] # None =>
                 /\ tokens[k] \in Token /\ tokens[k].user \in UserIds /\ tokens[k].purpose \in Purposes
                 /\ tokens[k].target \in Emails /\ tokens[k].used \in BOOLEAN /\ tokens[k].age \in Ages
           /\ \A i \in InvIds : invites[i] # None =>
                 /\ invites[i] \in Invitation /\ invites[i].email \in Emails /\ invites[i].status \in InvStatuses
                 /\ invites[i].over \in BOOLEAN /\ invites[i].by \in UserIds
<1>1. \A u \in UserIds : users[u] # None => users[u] \in User
  BY DEF Tables, TablesTyped, TypeOK
<1>2. \A k \in TokIds : tokens[k] # None => tokens[k] \in Token
  BY DEF Tables, TablesTyped, TypeOK
<1>3. \A i \in InvIds : invites[i] # None => invites[i] \in Invitation
  BY DEF Tables, TablesTyped, TypeOK
<1>4. \A x \in User : /\ x.email \in Emails \cup {None} /\ x.pending \in Emails \cup {None} /\ x.verified \in BOOLEAN
                      /\ x.role \in Roles /\ x.scopes \in BOOLEAN /\ x.active \in BOOLEAN
  BY DEF User
<1>5. \A x \in Token : x.user \in UserIds /\ x.purpose \in Purposes /\ x.target \in Emails /\ x.used \in BOOLEAN /\ x.age \in Ages
  BY DEF Token
<1>6. \A x \in Invitation : x.email \in Emails /\ x.status \in InvStatuses /\ x.over \in BOOLEAN /\ x.by \in UserIds
  BY DEF Invitation
<1> QED BY <1>1, <1>2, <1>3, <1>4, <1>5, <1>6

\* Go does the same for equivalent conditions.
LEMMA GoWhen == ASSUME NEW c, NEW s, NEW ok, NEW when, ok <=> when, Go(c, when, s) PROVE Go(c, ok, s)
  BY DEF Go

\* resend_register_activation reads the account.
LEMMA ReadForActivationInv ==
    ASSUME Inv, NEW c \in Clients, ReadForActivation(c)
    PROVE  Inv'
<1>1. At(c, "aread") /\ Job(c).u \in UserIds /\ UNCHANGED <<db, env, hist>>
  BY JobIs, StmtIs DEF ReadForActivation, Inv, UserStmt
<1>2. PICK u \in UserIds : u = Job(c).u
  BY <1>1
<1>3. PICK x : x = [j |-> "issue", u |-> u, p |-> "activation", e |-> users[u].email] OBVIOUS
<1>4. PICK ok \in BOOLEAN : ok <=> (u \in Live /\ users[u].active /\ ~ users[u].verified /\ users[u].email # None /\ ~ ActivationCooling(u))
  OBVIOUS
<1>5. Go(c, ok, <<x>>)
  BY <1>2, <1>3, <1>4, GoWhen DEF ReadForActivation
<1>6. ASSUME ok PROVE x \in Stmt /\ x.j = "issue" /\ x.p = "activation"
  <2>1. users[u].email \in Emails BY <1>4, <1>6, RowsAre DEF Live, Inv
  <2> QED BY <1>3, <2>1 DEF Stmt, IssueStmt, Purposes
<1>7. ok => Sound(c, x)
  BY <1>6 DEF Sound
<1> QED BY <1>1, <1>5, <1>6, <1>7, GoOne

\* request_password_reset reads the account.
LEMMA ReadForResetInv ==
    ASSUME Inv, NEW c \in Clients, ReadForReset(c)
    PROVE  Inv'
<1>1. At(c, "pread") /\ Job(c).e \in Emails /\ UNCHANGED <<db, env, hist>> /\ todo[c] # <<>>
  BY JobIs, StmtIs DEF ReadForReset, Inv, EmailStmt
<1>2. CASE Stop(c)
  BY <1>1, <1>2, StopStep DEF Stop, Sets
<1>3. CASE \E u \in HasEmail(Job(c).e) : Then(c, <<[j |-> "issue", u |-> u, p |-> "reset", e |-> Job(c).e]>>)
  <2>1. PICK u \in HasEmail(Job(c).e) : Then(c, <<[j |-> "issue", u |-> u, p |-> "reset", e |-> Job(c).e]>>)
    BY <1>3
  <2>2. PICK x : x = [j |-> "issue", u |-> u, p |-> "reset", e |-> Job(c).e] OBVIOUS
  <2>3. x \in Stmt /\ x.j = "issue" /\ x.p = "reset"
    BY <1>1, <2>2 DEF Stmt, IssueStmt, Purposes, HasEmail, Live
  <2>4. Sound(c, x) BY <2>3 DEF Sound
  <2>5. Go(c, TRUE, <<x>>) BY <2>1, <2>2 DEF Go
  <2> QED BY <1>1, <2>3, <2>4, <2>5, GoOne
<1> QED BY <1>2, <1>3 DEF ReadForReset

\* request_email_change reads the account.
LEMMA ReadForChangeInv ==
    ASSUME Inv, NEW c \in Clients, ReadForChange(c)
    PROVE  Inv'
<1>1. At(c, "cread") /\ Job(c).u \in UserIds /\ Job(c).e \in Emails /\ UNCHANGED <<db, env, hist>>
  BY JobIs, StmtIs DEF ReadForChange, Inv, ChangeStmt
<1>2. PICK u \in UserIds, e \in Emails : u = Job(c).u /\ e = Job(c).e
  BY <1>1
<1>3. PICK ok \in BOOLEAN : ok <=> (/\ u \in Live /\ users[u].active /\ Activated(u) /\ users[u].email # e
                                    /\ users[u].pending = e => ~ ActivationCooling(u))
  OBVIOUS
<1> DEFINE x == [j |-> "avail", e |-> e, u |-> u]
           y == [j |-> "ccommit", u |-> u, e |-> e]
<1>4. Go(c, ok, <<x, y>>)
  BY <1>2, <1>3, GoWhen DEF ReadForChange
<1>5. x \in Stmt /\ x.j = "avail" /\ y \in Stmt /\ y.j = "ccommit"
  BY DEF Stmt, AvailStmt, ChangeStmt
<1> HIDE DEF x, y
<1>6. Sound(c, y)
  BY <1>5, PlainSound DEF Plain
<1> QED BY <1>1, <1>4, <1>5, <1>6, GoTwo

\* resend_email_change reads the account.
LEMMA ReadForResendInv ==
    ASSUME Inv, NEW c \in Clients, ReadForResend(c)
    PROVE  Inv'
<1>1. At(c, "sread") /\ Job(c).u \in UserIds /\ UNCHANGED <<db, env, hist>> /\ Sound(c, Job(c)) /\ Job(c).j = "sread"
  BY JobIs, StmtIs DEF ReadForResend, Inv, UserStmt
<1>2. "resend" \in load.ops[c]
  BY <1>1 DEF Sound
<1>3. PICK u \in UserIds : u = Job(c).u
  BY <1>1
<1>4. PICK ok \in BOOLEAN : ok <=> (/\ u \in Live /\ users[u].pending # None /\ users[u].active /\ Activated(u)
                                    /\ ~ ActivationCooling(u))
  OBVIOUS
<1>5. PICK x : x = [j |-> "avail", e |-> users[u].pending, u |-> u] OBVIOUS
<1>6. PICK y : y = [j |-> "issue", u |-> u, p |-> "change", e |-> users[u].pending] OBVIOUS
<1>7. Go(c, ok, <<x, y>>)
  BY <1>3, <1>4, <1>5, <1>6, GoWhen DEF ReadForResend
<1>8. ASSUME ok PROVE x \in Stmt /\ x.j = "avail" /\ y \in Stmt /\ y.j = "issue" /\ Sound(c, y)
  <2>1. users[u].pending \in Emails BY <1>4, <1>8, RowsAre DEF Live, Inv
  <2>2. x \in Stmt /\ x.j = "avail" /\ y \in Stmt /\ y.j = "issue" /\ y.p = "change" /\ y.u = u /\ y.e = users[u].pending
    BY <1>5, <1>6, <2>1 DEF Stmt, AvailStmt, IssueStmt, Purposes
  <2>3. Sound(c, y) BY <1>2, <2>2 DEF Sound
  <2> QED BY <2>2, <2>3
<1> QED BY <1>1, <1>7, <1>8, GoTwo

\* A confirmation reads its record.
LEMMA ReadRecordInv ==
    ASSUME Inv, NEW c \in Clients, ReadRecord(c)
    PROVE  Inv'
<1>1. At(c, "record") /\ Job(c).k \in TokIds /\ UNCHANGED <<db, env, hist>>
  BY JobIs, StmtIs DEF ReadRecord, Inv, RecordStmt
<1>2. PICK k \in TokIds : k = Job(c).k
  BY <1>1
<1>3. PICK x : x = [j |-> IF tokens[k].purpose = "reset" THEN "rreset" ELSE "rlink", k |-> k, t |-> tokens[k]]
  OBVIOUS
<1>4. PICK ok \in BOOLEAN : ok <=> (tokens[k] # None /\ ~ tokens[k].used /\ tokens[k].age # "expired" /\ (tokens[k].purpose = "reset") = Job(c).reset)
  OBVIOUS
<1>5. Go(c, ok, <<x>>)
  BY <1>2, <1>3, <1>4, GoWhen DEF ReadRecord
<1>6. ASSUME ok PROVE x \in Stmt /\ x.j \in {"rreset", "rlink"}
  <2>1. tokens[k] \in Token BY <1>4, <1>6, RowsAre DEF Inv
  <2> QED BY <1>3, <2>1 DEF Stmt, TokenStmt
<1>7. ok => Sound(c, x)
  BY <1>6, PlainSound DEF Plain
<1> QED BY <1>1, <1>5, <1>6, <1>7, GoOne

\* confirm_contact_verification reads the account.
LEMMA ReadForLinkInv ==
    ASSUME Inv, NEW c \in Clients, ReadForLink(c)
    PROVE  Inv'
<1>1. At(c, "rlink") /\ Job(c) \in TokenStmt /\ UNCHANGED <<db, env, hist>>
  BY JobIs, StmtIs DEF ReadForLink, Inv
<1>2. Job(c).k \in TokIds /\ Job(c).t \in Token
  BY <1>1 DEF TokenStmt
<1>3. PICK k \in TokIds, t \in Token : k = Job(c).k /\ t = Job(c).t
  BY <1>2
<1>4. PICK u \in UserIds : u = t.user
  BY DEF Token
<1>5. PICK same \in BOOLEAN : same <=> (users[u] # None /\ users[u].email = t.target) OBVIOUS
<1>6. PICK ok \in BOOLEAN : ok <=> (/\ users[u] # None /\ users[u].active
                                    /\ \/ same
                                       \/ t.purpose = "change" /\ users[u].pending = t.target /\ users[u].email # None)
  OBVIOUS
<1> DEFINE x == [j |-> "avail", e |-> t.target, u |-> u]
           y == [j |-> "link", k |-> k, t |-> t, same |-> same]
<1>7. t.target \in Emails
  BY DEF Token
<1>8. x \in Stmt /\ x.j = "avail"
  BY <1>7 DEF Stmt, AvailStmt
<1>9. y \in Stmt /\ y.j = "link" /\ y.t = t
  BY DEF Stmt, LinkStmt
<1>10. same = (users[u] # None /\ users[u].email = t.target)
  BY <1>5
<1>11. Go(c, ok, (IF t.purpose = "change" THEN <<x>> ELSE <<>>) \o <<y>>)
  <2>1. PICK s : s = (IF t.purpose = "change" THEN <<x>> ELSE <<>>) \o <<y>> OBVIOUS
  <2>2. Go(c, /\ users[u] # None /\ users[u].active
              /\ \/ same
                 \/ t.purpose = "change" /\ users[u].pending = t.target /\ users[u].email # None, s)
    BY <1>3, <1>4, <1>10, <2>1 DEF ReadForLink
  <2> QED BY <1>6, <2>1, <2>2, GoWhen
<1> HIDE DEF x, y
<1>12. ASSUME ok PROVE Sound(c, y)
  <2>1. users[u] # None /\ u <= last.user BY <1>6, <1>12, LiveIds DEF Inv
  <2>2. t.purpose = "activation" => users[u].email = t.target BY <1>5, <1>6, <1>12
  <2> QED BY <1>4, <1>9, <2>1, <2>2 DEF Sound
<1>13. CASE t.purpose = "change"
  <2>1. <<x>> \o <<y>> = <<x, y>>
    <3>1. <<x>> \in Seq(Stmt) /\ <<y>> \in Seq(Stmt) /\ Len(<<x>>) = 1 /\ Len(<<y>>) = 1 /\ <<x>>[1] = x /\ <<y>>[1] = y
      BY <1>8, <1>9
    <3>2. <<x>> \o <<y>> \in Seq(Stmt) /\ Len(<<x>> \o <<y>>) = 2 /\ (<<x>> \o <<y>>)[1] = x /\ (<<x>> \o <<y>>)[2] = y
      BY <3>1, ConcatProperties
    <3>3. <<x, y>> \in Seq(Stmt) /\ Len(<<x, y>>) = 2 /\ <<x, y>>[1] = x /\ <<x, y>>[2] = y
      BY <1>8, <1>9
    <3>4. PICK p, q \in Seq(Stmt) : p = <<x>> \o <<y>> /\ q = <<x, y>> BY <3>2, <3>3
    <3>5. Len(p) = 2 /\ Len(q) = 2 /\ p[1] = q[1] /\ p[2] = q[2] BY <3>2, <3>3, <3>4
    <3>6. \A n \in 1..Len(p) : p[n] = q[n] BY <3>5
    <3> QED BY <3>4, <3>5, <3>6, SeqEqual
  <2>2. Go(c, ok, <<x, y>>) BY <1>11, <1>13, <2>1
  <2> QED BY <1>1, <1>8, <1>9, <1>12, <2>2, GoTwo
<1>14. CASE t.purpose # "change"
  <2>1. <<>> \o <<y>> = <<y>> OBVIOUS
  <2>2. Go(c, ok, <<y>>) BY <1>11, <1>14, <2>1
  <2> QED BY <1>1, <1>9, <1>12, <2>2, GoOne
<1> QED BY <1>13, <1>14

\* confirm_password_reset reads the account.
LEMMA ReadForNewPasswordInv ==
    ASSUME Inv, NEW c \in Clients, ReadForNewPassword(c)
    PROVE  Inv'
<1>1. At(c, "rreset") /\ Job(c) \in TokenStmt /\ UNCHANGED <<db, env, hist>>
  BY JobIs, StmtIs DEF ReadForNewPassword, Inv
<1>2. Job(c).k \in TokIds /\ Job(c).t.user \in UserIds
  BY <1>1 DEF TokenStmt, Token
<1>3. PICK x : x = [j |-> "password", k |-> Job(c).k, u |-> Job(c).t.user] OBVIOUS
<1>4. PICK u : u = Job(c).t.user OBVIOUS
<1>5. PICK ok \in BOOLEAN : ok <=> (users[u] # None /\ users[u].active /\ users[u].verified /\ users[u].email = Job(c).t.target)
  OBVIOUS
<1>6. Go(c, ok, <<x>>)
  BY <1>3, <1>4, <1>5, GoWhen DEF ReadForNewPassword
<1>7. x \in Stmt /\ x.j = "password"
  BY <1>2, <1>3 DEF Stmt, PasswordStmt
<1>8. Sound(c, x)
  BY <1>7, PlainSound DEF Plain
<1> QED BY <1>1, <1>6, <1>7, <1>8, GoOne

\* create_invitation reads the accounts and the earlier invitations.
LEMMA ReadForInvitationInv ==
    ASSUME Inv, NEW c \in Clients, ReadForInvitation(c)
    PROVE  Inv'
<1>1. At(c, "iread") /\ Job(c).e \in Emails /\ Job(c).by \in UserIds /\ UNCHANGED <<db, env, hist>>
  BY JobIs, StmtIs DEF ReadForInvitation, Inv, InviteStmt
<1>2. PICK e \in Emails, by \in UserIds : e = Job(c).e /\ by = Job(c).by
  BY <1>1
<1>3. PICK old : old = {i \in LiveInvites : invites[i].email = e /\ invites[i].status = "pending"}
  OBVIOUS
<1>4. PICK ok \in BOOLEAN : ok <=> HasEmail(e) = {} OBVIOUS
<1> DEFINE x == [j |-> "icommit", e |-> e, by |-> by, old |-> old]
<1>5. Go(c, HasEmail(e) = {}, <<x>>)
  BY <1>2, <1>3 DEF ReadForInvitation
<1>6. Go(c, ok, <<x>>)
  BY <1>4, <1>5, GoWhen
<1>7. old \in SUBSET InvIds
  BY <1>3 DEF LiveInvites
<1>8. x \in Stmt /\ x.j = "icommit" /\ x.e = e /\ x.old = old
  BY <1>7 DEF Stmt, InvitedStmt
<1> HIDE DEF x
<1>9. \A i \in InvIds : Pending(i) /\ invites[i].email = e => i \in old
  BY <1>3 DEF Pending, LiveInvites
<1>10. Sound(c, x)
  BY <1>8, <1>9 DEF Sound
<1> QED BY <1>1, <1>6, <1>8, <1>10, GoOne

\* accept_invitation reads the invitation.
LEMMA ReadForAcceptInv ==
    ASSUME Inv, NEW c \in Clients, ReadForAccept(c)
    PROVE  Inv'
<1>1. At(c, "tread") /\ Job(c).i \in InvIds /\ UNCHANGED <<db, env, hist>>
  BY JobIs, StmtIs DEF ReadForAccept, Inv, InvStmt
<1>2. PICK i \in InvIds : i = Job(c).i
  BY <1>1
<1>3. PICK x : x = [j |-> "accept", i |-> i, e |-> invites[i].email] OBVIOUS
<1>4. PICK ok \in BOOLEAN : ok <=> (Pending(i) /\ ~ invites[i].over /\ Available(invites[i].email, None))
  OBVIOUS
<1>5. Go(c, ok, <<x>>)
  BY <1>2, <1>3, <1>4, GoWhen DEF ReadForAccept
<1>6. ASSUME ok PROVE x \in Stmt /\ Sound(c, x)
  <2>1. invites[i].email \in Emails /\ last.user >= 1
    BY <1>4, <1>6, RowsAre DEF Pending, Inv, Tables, Ids
  <2>2. x \in Stmt /\ x.j = "accept" BY <1>3, <2>1 DEF Stmt, AcceptStmt
  <2> QED BY <2>1, <2>2 DEF Sound
<1> QED BY <1>1, <1>5, <1>6, GoOne

\* normalize_update_role_and_scopes: only an operator gets scopes, and who is an administrator and asked
\* for nothing stays one.
LEMMA UpdatedRoleIs ==
    ASSUME NEW old \in User, NEW x \in UpdateStmt, NEW to, to = UpdatedRole(old, x)
    PROVE  /\ to \in [role : Roles, scopes : BOOLEAN]
           /\ to.scopes => to.role = "operator"
           /\ old.role = "admin" /\ x.role \in {None, "admin"} /\ x.asked # TRUE => to.role = "admin" /\ ~ to.scopes
<1>1. PICK base : base = IF x.role = None THEN old.role ELSE x.role OBVIOUS
<1>2. base \in Roles
  BY <1>1 DEF User, UpdateStmt
<1>3. to = [role |-> IF x.asked = TRUE /\ base = "admin" THEN "operator" ELSE base,
            scopes |-> base # "user" /\ (x.asked = TRUE \/ (base = "operator" /\ old.role = "operator" /\ old.scopes))]
  BY <1>1 DEF UpdatedRole
<1>4. /\ to.role = IF x.asked = TRUE /\ base = "admin" THEN "operator" ELSE base
      /\ to.scopes = (base # "user" /\ (x.asked = TRUE \/ (base = "operator" /\ old.role = "operator" /\ old.scopes)))
  BY <1>3
<1>5. to \in [role : Roles, scopes : BOOLEAN]
  BY <1>2, <1>3 DEF Roles
<1>6. to.scopes => to.role = "operator"
  BY <1>2, <1>4 DEF Roles
<1>7. old.role = "admin" /\ x.role \in {None, "admin"} => base = "admin"
  BY <1>1
<1> QED BY <1>4, <1>5, <1>6, <1>7

\* update_user reads the account.
LEMMA ReadForUpdateInv ==
    ASSUME Inv, NEW c \in Clients, ReadForUpdate(c)
    PROVE  Inv'
<1>1. At(c, "uread") /\ Job(c) \in UpdateStmt /\ UNCHANGED <<db, env, hist>> /\ Sound(c, Job(c)) /\ Job(c).j = "uread"
  BY JobIs, StmtIs DEF ReadForUpdate, Inv
<1>2. "update" \in load.ops[c]
  BY <1>1 DEF Sound
<1>3. PICK x \in UpdateStmt : x = Job(c)
  BY <1>1
<1>4. x.u \in UserIds /\ x.e \in Emails \cup {None} /\ x.active \in BOOLEAN \cup {None}
  BY DEF UpdateStmt
<1>5. PICK ok \in BOOLEAN : ok <=> (users[x.u] # None /\ ~ SuperAdminGuard(x)) OBVIOUS
<1>6. PICK to : to = IF users[x.u] = None THEN None ELSE UpdatedRole(users[x.u], x) OBVIOUS
<1>7. PICK y : y = [j |-> "ucommit", u |-> x.u, e |-> x.e, active |-> x.active, to |-> to] OBVIOUS
<1>8. Go(c, ok, <<y>>)
  BY <1>3, <1>5, <1>6, <1>7, GoWhen DEF ReadForUpdate
<1>9. y.j = "ucommit" /\ y.u = x.u /\ y.active = x.active /\ y.to = to
  BY <1>7
<1>10. ASSUME ok PROVE y \in Stmt /\ Sound(c, y)
  <2>1. users[x.u] \in User /\ to = UpdatedRole(users[x.u], x)
    BY <1>4, <1>5, <1>6, <1>10, RowsAre DEF Inv
  <2>2. PICK old \in User : old = users[x.u] BY <2>1
  <2>3. to = UpdatedRole(old, x) BY <2>1, <2>2
  <2>4. /\ to \in [role : Roles, scopes : BOOLEAN]
        /\ to.scopes => to.role = "operator"
        /\ old.role = "admin" /\ x.role \in {None, "admin"} /\ x.asked # TRUE => to.role = "admin" /\ ~ to.scopes
    BY <2>3, UpdatedRoleIs
  <2>5. y \in CommitStmt BY <1>4, <1>7, <2>4 DEF CommitStmt
  <2>6. y \in Stmt BY <2>5 DEF Stmt
  <2>7. ASSUME x.u = SUPER_ADMIN_USER_ID PROVE to.role = "admin" /\ ~ to.scopes /\ x.active \in {None, TRUE}
    <3>1. Live # {} BY <1>4, <1>5, <1>10 DEF Live
    <3>2. old.role = "admin" /\ old.active
      BY <2>2, <2>7, <3>1 DEF Inv, Tables, SuperAdminStays
    <3>3. x.role \in {None, old.role} /\ x.active \in {None, old.active} /\ x.asked # TRUE
      BY <1>5, <1>10, <2>2, <2>7 DEF SuperAdminGuard
    <3>4. old.active = TRUE BY <3>2 DEF User
    <3>5. x.active \in {None, TRUE} BY <3>3, <3>4
    <3> QED BY <2>4, <3>2, <3>3, <3>5
  <2>8. Sound(c, y) BY <1>2, <1>9, <2>4, <2>7 DEF Sound
  <2> QED BY <2>6, <2>8
<1> QED BY <1>1, <1>8, <1>10, GoOne

-----------------------------------------------------------------------------
(* What a commit does to a table                                           *)

\* None is no row and no address.
LEMMA NoneIsNone == None \notin Nat /\ None \notin Emails /\ None \notin User /\ None \notin Token /\ None \notin Invitation
  BY AccountsAssumption

\* Invitations go or are closed.
InvitesLose ==
    /\ invites' \in [InvIds -> Invitation \cup {None}]
    /\ \A i \in InvIds : invites'[i] = None \/
          (/\ invites[i] # None /\ invites'[i].email = invites[i].email
           /\ invites'[i].status = "pending" => invites[i].status = "pending")
\* Links go, are used or grow old.
TokensLose ==
    /\ tokens' \in [TokIds -> Token \cup {None}]
    /\ \A k \in TokIds : tokens'[k] = None \/
          (/\ tokens[k] # None /\ tokens'[k].user = tokens[k].user /\ tokens'[k].purpose = tokens[k].purpose
           /\ tokens'[k].target = tokens[k].target /\ (tokens[k].used => tokens'[k].used))
\* Pending addresses stay or go.
PendingLose == \A u \in UserIds : users'[u] # None /\ users'[u].pending # None =>
    users[u] # None /\ users'[u].pending = users[u].pending

\* No invitation becomes pending.
LEMMA InvitesLosePending ==
    ASSUME InvitesLose
    PROVE  \A i \in InvIds : Pending(i)' => Pending(i) /\ invites'[i].email = invites[i].email
  BY DEF InvitesLose, Pending

\* An address does not get a second open invitation.
LEMMA OpenStays ==
    ASSUME OneOpenInvitation, InvitesLose, load' = load
    PROVE  OneOpenInvitation'
<1> SUFFICES ASSUME load.serial, NEW i \in InvIds, NEW n \in InvIds, invites'[i] # None, invites'[n] # None,
                    invites'[i].email = invites'[n].email, Pending(i)', Pending(n)'
             PROVE  i = n
  BY DEF OneOpenInvitation, LiveInvites
<1>1. Pending(i) /\ Pending(n) /\ invites[i].email = invites[n].email
  BY InvitesLosePending
<1> QED BY <1>1 DEF OneOpenInvitation, LiveInvites, Pending

\* An invitation that was used or withdrawn stays so.
LEMMA InvitationsStay ==
    ASSUME InvitationInv, InvitesLose, last'.inv = last.inv, UNCHANGED <<origin, withdrawn>>, withdrawn \subseteq InvIds
    PROVE  InvitationInv'
<1>1. \A u \in UserIds : origin[u] \in InvIds => ~ Pending(origin[u])'
  BY InvitesLosePending DEF InvitationInv
<1>2. \A u \in UserIds : origin[u] \in InvIds => ~ (invites'[origin[u]] # None /\ invites'[origin[u]].status = "pending")
  BY <1>1 DEF Pending
<1>3. \A i \in withdrawn : ~ (invites'[i] # None /\ invites'[i].status = "pending")
  BY InvitesLosePending DEF InvitationInv, Pending
<1> QED BY <1>2, <1>3 DEF InvitationInv, Pending

\* A link that was used stays so.
LEMMA LinksStay ==
    ASSUME LinkInv, TokensLose, uses' = uses, last'.tok = last.tok
    PROVE  LinkInv'
<1> SUFFICES ASSUME NEW k \in TokIds
             PROVE  /\ uses[k] <= 1
                    /\ k > last.tok => tokens'[k] = None /\ uses[k] = 0
                    /\ tokens'[k] # None /\ ~ tokens'[k].used => uses[k] = 0
  BY DEF LinkInv
<1> QED BY DEF LinkInv, TokensLose

\* The links of an account that waits for an address stay those of that address.
LEMMA PendingStays ==
    ASSUME PendingHasLink, TokensLose, PendingLose, load' = load
    PROVE  PendingHasLink'
<1>1. Without("resend")' <=> Without("resend")
  BY DEF Without
<1> SUFFICES ASSUME load.serial \/ Without("resend"), NEW u \in UserIds, users'[u] # None, users'[u].pending # None,
                    NEW k \in TokIds, k \in ActiveTokens(u, "change")'
             PROVE  tokens'[k].target = users'[u].pending
  BY <1>1 DEF PendingHasLink, Live, ActiveTokens, LiveTokens
<1>2. users[u] # None /\ users'[u].pending = users[u].pending
  BY DEF PendingLose
<1>3. k \in ActiveTokens(u, "change") /\ tokens'[k].target = tokens[k].target
  BY DEF ActiveTokens, LiveTokens, TokensLose
<1> QED BY <1>2, <1>3 DEF PendingHasLink, Live

\* An account is inserted or changed: the super administrator and the scope rule hold if the row keeps them.
LEMMA PutRow ==
    ASSUME Tables, NEW u \in UserIds, NEW row \in User, users' = [users EXCEPT ![u] = row],
           row.scopes => row.role = "operator",
           u = SUPER_ADMIN_USER_ID => row.role = "admin" /\ row.active /\ ~ row.scopes,
           u # SUPER_ADMIN_USER_ID => last.user >= 1
    PROVE  /\ users' \in [UserIds -> User \cup {None}] /\ users'[u] = row /\ row # None
           /\ \A w \in UserIds : w # u => users'[w] = users[w]
           /\ SuperAdminStays' /\ ScopesNeedOperator'
<1>1. users \in [UserIds -> User \cup {None}]
  BY DEF Tables, TablesTyped, TypeOK
<1>2. /\ users' \in [UserIds -> User \cup {None}] /\ users'[u] = row /\ row # None
      /\ \A w \in UserIds : w # u => users'[w] = users[w]
  BY <1>1, NoneIsNone
<1>3. ScopesNeedOperator'
  <2> SUFFICES ASSUME NEW w \in UserIds, users'[w] # None, users'[w].scopes PROVE users'[w].role = "operator"
    BY DEF ScopesNeedOperator, Live
  <2> QED BY <1>2 DEF Tables, ScopesNeedOperator, Live
<1>4. SuperAdminStays'
  <2>1. CASE u = SUPER_ADMIN_USER_ID BY <1>2, <2>1 DEF SuperAdminStays
  <2>2. CASE u # SUPER_ADMIN_USER_ID
    <3>1. users[SUPER_ADMIN_USER_ID] # None /\ SUPER_ADMIN_USER_ID \in UserIds
      <4>1. last.user >= 1 /\ last.user \in Nat /\ last.user <= MaxUser /\ MaxUser \in Nat
        BY <2>2, LiveIds, AccountsAssumption
      <4> QED BY <4>1 DEF Tables, Ids, SUPER_ADMIN_USER_ID, UserIds
    <3>2. Live # {} BY <3>1 DEF Live
    <3>3. users'[SUPER_ADMIN_USER_ID] = users[SUPER_ADMIN_USER_ID] BY <1>2, <2>2, <3>1
    <3> QED BY <3>1, <3>2, <3>3 DEF Tables, SuperAdminStays
  <2> QED BY <2>1, <2>2
<1> QED BY <1>2, <1>3, <1>4

\* An address that was verified, or is proven now, is proven.
VerifiedLose == load.serial \/ Without("update") =>
    /\ proven \subseteq proven'
    /\ \A u \in UserIds : users'[u] # None /\ users'[u].verified =>
          \/ <<u, users'[u].email>> \in proven'
          \/ users[u] # None /\ users[u].verified /\ users'[u].email = users[u].email

\* A verified address stays proven.
LEMMA VerifiedStays ==
    ASSUME VerifiedWasProven, VerifiedLose, load' = load
    PROVE  VerifiedWasProven'
<1>1. Without("update")' <=> Without("update")
  BY DEF Without
<1> SUFFICES ASSUME load.serial \/ Without("update"), NEW u \in UserIds, users'[u] # None, users'[u].verified
             PROVE  <<u, users'[u].email>> \in proven'
  BY <1>1 DEF VerifiedWasProven, Live
<1> QED BY DEF VerifiedWasProven, VerifiedLose, Live

\* What an account needs to be inserted.
Insertable(row, from) ==
    /\ row \in User /\ row.pending = None /\ row.verified = TRUE /\ (row.scopes => row.role = "operator")
    /\ last.user = 0 => row.role = "admin" /\ row.active /\ ~ row.scopes
    /\ from \in InvIds \cup {First, None} /\ (from = First /\ load.serial => last.user = 0)
    /\ from \in InvIds => /\ from <= last.inv /\ from \notin withdrawn /\ ~ Pending(from)'
                          /\ \A u \in UserIds : origin[u] # from

\* An account is inserted: with the id after the last.
LEMMA InsertStep ==
    ASSUME Tables, NEW row, NEW from, Insert(row, from), Insertable(row, from), InvitesLose,
           UNCHANGED <<tokens, uses, withdrawn, env>>
    PROVE  Tables' /\ Evolves
<1>0. /\ last.user \in Nat /\ last.user <= MaxUser /\ load.max.user \in UserIds /\ MaxUser \in Nat
      /\ last \in [user : 0..MaxUser, tok : 0..MaxTok, inv : 0..MaxInv] /\ load \in Workloads
      /\ load' = load /\ faults' = faults /\ origin \in [UserIds -> InvIds \cup {First, None}]
  BY LiveIds, LoadIs, AccountsAssumption DEF Tables, TablesTyped, TypeOK, env
<1>1. PICK u : u = last.user + 1 OBVIOUS
<1>2. u \in UserIds /\ u \in Nat /\ u # 0 /\ u > last.user /\ (u = SUPER_ADMIN_USER_ID <=> last.user = 0)
  BY <1>0, <1>1 DEF UserIds, Insert, SUPER_ADMIN_USER_ID
<1>3. /\ users' = [users EXCEPT ![u] = row] /\ last' = [last EXCEPT !.user = u]
      /\ proven' = proven \cup {<<u, row.email>>} /\ origin' = [origin EXCEPT ![u] = from]
  BY <1>1 DEF Insert, Insertable
<1>4. /\ users' \in [UserIds -> User \cup {None}] /\ users'[u] = row /\ row # None
      /\ \A w \in UserIds : w # u => users'[w] = users[w]
      /\ SuperAdminStays' /\ ScopesNeedOperator'
  <2>1. u # SUPER_ADMIN_USER_ID => last.user >= 1 BY <1>0, <1>2
  <2>2. row \in User /\ (row.scopes => row.role = "operator") /\ (u = SUPER_ADMIN_USER_ID => row.role = "admin" /\ row.active /\ ~ row.scopes)
    BY <1>2 DEF Insertable
  <2> QED BY <1>2, <1>3, <2>1, <2>2, PutRow
<1>5. /\ last'.user = u /\ last'.tok = last.tok /\ last'.inv = last.inv
      /\ last' \in [user : 0..MaxUser, tok : 0..MaxTok, inv : 0..MaxInv]
  <2>1. u \in 0..MaxUser BY <1>0, <1>2 DEF UserIds
  <2> QED BY <1>0, <1>3, <2>1
<1>6. /\ origin' \in [UserIds -> InvIds \cup {First, None}] /\ origin'[u] = from
      /\ \A w \in UserIds : w # u => origin'[w] = origin[w]
  BY <1>0, <1>2, <1>3 DEF Insertable
<1>7. users[u] = None /\ origin[u] = None /\ (\A w \in UserIds : users[w] # None \/ origin[w] # None => w <= last.user /\ w <= u /\ w # u)
  <2>1. \A w \in UserIds : (users[w] # None \/ origin[w] # None => w <= last.user) /\ w \in Nat
    BY <1>0 DEF Tables, Ids, UserIds
  <2> QED BY <1>0, <1>2, <2>1
<1>8. TablesTyped'
  BY <1>0, <1>4, <1>5, <1>6 DEF Tables, TablesTyped, TypeOK, InvitesLose
<1>9. Ids'
  <2>1. ASSUME NEW w \in UserIds, users'[w] # None \/ origin'[w] # None PROVE w <= u
    <3>1. CASE w = u BY <1>2, <3>1
    <3>2. CASE w # u BY <1>4, <1>6, <1>7, <2>1, <3>2
    <3> QED BY <3>1, <3>2
  <2>2. \A i \in InvIds : invites'[i] # None => i <= last.inv /\ u >= 1
    BY <1>2 DEF InvitesLose, Tables, Ids
  <2>3. users'[SUPER_ADMIN_USER_ID] # None
    <3>1. CASE last.user = 0 BY <1>2, <1>4, <3>1
    <3>2. CASE last.user # 0
      <4>1. last.user >= 1 /\ SUPER_ADMIN_USER_ID \in UserIds /\ SUPER_ADMIN_USER_ID # u
        BY <1>0, <1>2, <3>2 DEF UserIds, SUPER_ADMIN_USER_ID
      <4> QED BY <1>4, <4>1 DEF Tables, Ids
    <3> QED BY <3>1, <3>2
  <2> QED BY <1>5, <2>1, <2>2, <2>3 DEF Ids
<1>10. LinkInv'
  BY <1>5 DEF Tables, LinkInv
<1>11. InvitationInv'
  <2>1. withdrawn \subseteq InvIds /\ withdrawn' = withdrawn
    BY DEF Tables, TablesTyped, TypeOK
  <2>2. ASSUME NEW w \in UserIds, origin'[w] \in InvIds
        PROVE  /\ origin'[w] <= last.inv /\ origin'[w] \notin withdrawn
               /\ ~ (invites'[origin'[w]] # None /\ invites'[origin'[w]].status = "pending")
    <3>1. CASE w = u BY <1>6, <2>2, <3>1 DEF Insertable, Pending
    <3>2. CASE w # u
      <4>1. origin'[w] = origin[w] /\ origin[w] <= last.inv /\ ~ Pending(origin[w]) /\ origin[w] \notin withdrawn
        BY <1>6, <2>2, <3>2 DEF Tables, InvitationInv
      <4>2. PICK i \in InvIds : i = origin[w] BY <2>2, <4>1
      <4>3. ~ Pending(i)' BY <4>1, <4>2, InvitesLosePending
      <4> QED BY <4>1, <4>2, <4>3 DEF Pending
    <3> QED BY <3>1, <3>2
  <2>3. ASSUME NEW v \in UserIds, NEW w \in UserIds, origin'[v] = origin'[w], origin'[v] \in InvIds PROVE v = w
    <3>1. CASE v = u /\ w # u BY <1>6, <2>3, <3>1 DEF Insertable
    <3>2. CASE v # u /\ w = u BY <1>6, <2>3, <3>2 DEF Insertable
    <3>3. CASE v # u /\ w # u BY <1>6, <2>3, <3>3 DEF Tables, InvitationInv
    <3> QED BY <3>1, <3>2, <3>3
  <2>4. ASSUME NEW i \in withdrawn PROVE i <= last.inv /\ ~ Pending(i)'
    BY <2>1, <2>4, InvitesLosePending DEF Tables, InvitationInv
  <2> QED BY <1>5, <2>1, <2>2, <2>3, <2>4 DEF InvitationInv, Pending
<1>12. FirstInv'
  <2> SUFFICES ASSUME load.serial, NEW v \in UserIds, NEW w \in UserIds, origin'[v] = First, origin'[w] = First PROVE v = w
    BY <1>0 DEF FirstInv
  <2>1. CASE from # First BY <1>6, <2>1 DEF Tables, FirstInv
  <2>2. CASE from = First
    <3>1. \A x \in UserIds : ~ (x <= 0) BY <1>0 DEF UserIds
    <3>2. \A x \in UserIds : origin[x] = None BY <1>7, <2>2, <3>1 DEF Insertable
    <3>3. None # First BY NoneIsNone DEF First
    <3> QED BY <1>6, <3>2, <3>3
  <2> QED BY <2>1, <2>2
<1>13. OneOpenInvitation'
  BY <1>0, OpenStays DEF Tables
<1>14. VerifiedWasProven'
  <2>1. VerifiedLose BY <1>3, <1>4 DEF VerifiedLose
  <2> QED BY <1>0, <2>1, VerifiedStays DEF Tables
<1>15. PendingHasLink'
  <2>1. PendingLose BY <1>4 DEF PendingLose, Insertable
  <2>2. TokensLose BY DEF Tables, TablesTyped, TypeOK, TokensLose
  <2> QED BY <1>0, <2>1, <2>2, PendingStays DEF Tables
<1>16. Evolves
  <2>1. ASSUME NEW w \in UserIds, w <= last.user PROVE users'[w] = users[w]
    <3>1. w \in Nat BY <1>0 DEF UserIds
    <3>2. w # u BY <1>0, <1>2, <2>1, <3>1
    <3> QED BY <1>4, <3>2
  <2>2. \A w \in UserIds : users[w] # None => users[w].verified \in BOOLEAN BY RowsAre
  <2> QED BY <1>0, <1>2, <1>5, <2>1, <2>2 DEF Evolves
<1> QED BY <1>4, <1>8, <1>9, <1>10, <1>11, <1>12, <1>13, <1>14, <1>15, <1>16 DEF Tables

-----------------------------------------------------------------------------
(* Commits                                                                 *)

\* A request makes its last statement.
LEMMA EndStep ==
    ASSUME Inv, NEW c \in Clients, NEW j, At(c, j), j \notin {"refresh", "avail"}, Then(c, <<>>) \/ Stop(c),
           Tables', Evolves
    PROVE  Inv'
<1>1. todo[c] # <<>> /\ List(todo[c]) /\ Head(todo[c]).j = j
  BY JobIs DEF Inv, At
<1>2. Sets(c, <<>>)
  BY <1>1, NoneIsList, ThenAlone DEF Stop, Sets
<1> QED BY <1>1, <1>2, JobsEnd DEF Inv

\* A request gives up and changes nothing.
LEMMA GiveUp ==
    ASSUME Inv, NEW c \in Clients, NEW j, At(c, j), Stop(c), UNCHANGED <<db, env, hist>>
    PROVE  Inv'
<1>1. todo[c] # <<>> /\ Sets(c, <<>>)
  BY DEF At, Stop, Sets
<1> QED BY <1>1, StopStep

\* Invitations that stay.
LEMMA InvitesSame == ASSUME Tables, invites' = invites PROVE InvitesLose
  BY DEF Tables, TablesTyped, TypeOK, InvitesLose

\* Links that stay.
LEMMA TokensSame == ASSUME Tables, tokens' = tokens PROVE TokensLose
  BY DEF Tables, TablesTyped, TypeOK, TokensLose

\* create_with_options.
LEMMA InsertUserInv ==
    ASSUME Inv, NEW c \in Clients, InsertUser(c)
    PROVE  Inv'
<1>1. At(c, "insert") /\ Job(c) \in FirstStmt \cup MemberStmt /\ Sound(c, Job(c)) /\ Job(c).j = "insert"
  BY JobIs, StmtIs DEF InsertUser, Inv
<1>2. PICK x \in FirstStmt \cup MemberStmt : x = Job(c)
  BY <1>1
<1>3. CASE Free(x.e, None)
  <2>1. PICK row : row = NewUser(x.e, x.role, FALSE, TRUE) OBVIOUS
  <2>2. Insert(row, x.from) /\ Then(c, <<>>) /\ UNCHANGED <<tokens, invites, uses, withdrawn, env>>
    BY <1>2, <1>3, <2>1 DEF InsertUser
  <2>3. /\ x.e \in Emails /\ x.role \in Roles /\ x.from \in {First, None} /\ (x.from # None => x.role = "admin")
    BY DEF FirstStmt, MemberStmt, Roles
  <2>4. /\ row \in User /\ row.pending = None /\ row.verified = TRUE
        /\ row.role = x.role /\ row.scopes = FALSE /\ row.active = TRUE
    BY <2>1, <2>3 DEF NewUser, User
  <2>5. (x.from = None => last.user >= 1) /\ (x.from = First /\ load.serial => last.user = 0)
    BY <1>1, <1>2 DEF Sound
  <2>6. last.user = 0 => x.role = "admin" BY <2>3, <2>5
  <2>7. x.from \notin InvIds BY <2>3, NoneIsNone DEF First, InvIds
  <2>8. Insertable(row, x.from) BY <2>3, <2>4, <2>5, <2>6, <2>7 DEF Insertable
  <2>9. Tables' /\ Evolves BY <2>2, <2>8, InsertStep, InvitesSame DEF Inv
  <2> QED BY <1>1, <2>2, <2>9, EndStep
<1>4. CASE ~ Free(x.e, None)
  <2>1. Stop(c) /\ UNCHANGED <<users, last, proven, origin, tokens, invites, uses, withdrawn, env>>
    BY <1>2, <1>4 DEF InsertUser
  <2>2. UNCHANGED <<db, env, hist>> BY <2>1 DEF db, hist
  <2> QED BY <1>1, <2>1, <2>2, GiveUp
<1> QED BY <1>3, <1>4

\* The administrator's create_user.
LEMMA CreateCommitInv ==
    ASSUME Inv, NEW c \in Clients, CreateCommit(c)
    PROVE  Inv'
<1>1. At(c, "ucreate") /\ Job(c) \in CreateStmt /\ Sound(c, Job(c)) /\ Job(c).j = "ucreate"
  BY JobIs, StmtIs DEF CreateCommit, Inv
<1>2. PICK x \in CreateStmt : x = Job(c)
  BY <1>1
<1>3. CASE Free(x.e, None)
  <2>1. PICK row : row = NewUser(x.e, RoleWith(x.role, x.asked), ScopesWith(x.role, x.asked), x.active)
    OBVIOUS
  <2>2. Insert(row, None) /\ Then(c, <<>>) /\ UNCHANGED <<tokens, invites, uses, withdrawn, env>>
    BY <1>2, <1>3, <2>1 DEF CreateCommit
  <2>3. x.e \in Emails /\ x.role \in Roles /\ x.asked \in BOOLEAN /\ x.active \in BOOLEAN
    BY DEF CreateStmt
  <2>4. /\ RoleWith(x.role, x.asked) \in Roles /\ ScopesWith(x.role, x.asked) \in BOOLEAN
        /\ ScopesWith(x.role, x.asked) => RoleWith(x.role, x.asked) = "operator"
    BY <2>3 DEF RoleWith, ScopesWith, Roles
  <2>5. /\ row \in User /\ row.pending = None /\ row.verified = TRUE
        /\ row.scopes => row.role = "operator"
    <3>1. PICK role \in Roles, scopes \in BOOLEAN : role = RoleWith(x.role, x.asked) /\ scopes = ScopesWith(x.role, x.asked)
      BY <2>4
    <3>2. row = [email |-> x.e, pending |-> None, verified |-> TRUE, role |-> role, scopes |-> scopes, active |-> x.active]
      BY <2>1, <3>1 DEF NewUser
    <3>3. scopes => role = "operator" BY <2>4, <3>1
    <3> QED BY <2>3, <3>2, <3>3 DEF User
  <2>6. last.user >= 1 BY <1>1 DEF Sound
  <2>7. None \notin InvIds /\ None # First BY NoneIsNone DEF First, InvIds
  <2>8. last.user # 0 BY <2>6, LiveIds DEF Inv
  <2>9. Insertable(row, None) BY <2>5, <2>7, <2>8 DEF Insertable
  <2>10. Tables' /\ Evolves BY <2>2, <2>9, InsertStep, InvitesSame DEF Inv
  <2> QED BY <1>1, <2>2, <2>10, EndStep
<1>4. CASE ~ Free(x.e, None)
  <2>1. Stop(c) /\ UNCHANGED <<users, last, proven, origin, tokens, invites, uses, withdrawn, env>>
    BY <1>2, <1>4 DEF CreateCommit
  <2>2. UNCHANGED <<db, env, hist>> BY <2>1 DEF db, hist
  <2> QED BY <1>1, <2>1, <2>2, GiveUp
<1> QED BY <1>3, <1>4

\* An invitation gets another status.
LEMMA StatusStep ==
    ASSUME Tables, NEW i \in InvIds, invites[i] # None, NEW s \in InvStatuses \ {"pending"},
           invites' = [invites EXCEPT ![i].status = s]
    PROVE  InvitesLose /\ ~ Pending(i)'
<1>1. PICK row \in Invitation : row = invites[i]
  BY RowsAre
<1>2. PICK new : new = [row EXCEPT !.status = s] OBVIOUS
<1>3. new \in Invitation /\ new.email = row.email /\ new.status = s
  BY <1>2 DEF Invitation
<1>4. invites \in [InvIds -> Invitation \cup {None}]
  BY DEF Tables, TablesTyped, TypeOK
<1>5. invites' = [invites EXCEPT ![i] = new]
  BY <1>1, <1>2
<1>6. invites' \in [InvIds -> Invitation \cup {None}] /\ invites'[i] = new /\ \A n \in InvIds : n # i => invites'[n] = invites[n]
  BY <1>3, <1>4, <1>5
<1>7. InvitesLose
  BY <1>1, <1>3, <1>6 DEF InvitesLose
<1> QED BY <1>3, <1>6, <1>7 DEF Pending

\* accept_invitation: the account and the mark on the invitation.
LEMMA AcceptCommitInv ==
    ASSUME Inv, NEW c \in Clients, AcceptCommit(c)
    PROVE  Inv'
<1>1. At(c, "accept") /\ Job(c) \in AcceptStmt /\ Sound(c, Job(c)) /\ Job(c).j = "accept"
  BY JobIs, StmtIs DEF AcceptCommit, Inv
<1>2. PICK x \in AcceptStmt : x = Job(c)
  BY <1>1
<1>3. CASE Acceptable(x.i) /\ Free(x.e, None)
  <2>1. PICK row : row = NewUser(x.e, "user", FALSE, TRUE) OBVIOUS
  <2>2. /\ Insert(row, x.i) /\ invites' = [invites EXCEPT ![x.i].status = "accepted"] /\ Then(c, <<>>)
        /\ UNCHANGED <<tokens, uses, withdrawn, env>>
    BY <1>2, <1>3, <2>1 DEF AcceptCommit
  <2>3. PICK i \in InvIds : i = x.i BY DEF AcceptStmt
  <2>4. x.e \in Emails BY DEF AcceptStmt
  <2>5. /\ row \in User /\ row.pending = None /\ row.verified = TRUE /\ row.scopes = FALSE
    BY <2>1, <2>4 DEF NewUser, User, Roles
  <2>6. last.user # 0 BY <1>1, LiveIds DEF Sound, Inv
  <2>7. Pending(i) /\ invites[i] # None BY <1>3, <2>3 DEF Acceptable, Pending
  <2>8. InvitesLose /\ ~ Pending(i)' BY <2>2, <2>3, <2>7, StatusStep DEF Inv, InvStatuses
  <2>9. i <= last.inv /\ i \notin withdrawn /\ (\A u \in UserIds : origin[u] # i) /\ i # First
    <3>1. i # First BY AccountsAssumption DEF First, InvIds
    <3> QED BY <2>7, <3>1 DEF Inv, Tables, Ids, InvitationInv
  <2>10. Insertable(row, i) BY <2>5, <2>6, <2>8, <2>9 DEF Insertable
  <2>11. Tables' /\ Evolves BY <2>2, <2>3, <2>8, <2>10, InsertStep DEF Inv
  <2> QED BY <1>1, <2>2, <2>11, EndStep
<1>4. CASE ~ (Acceptable(x.i) /\ Free(x.e, None))
  <2>1. Stop(c) /\ UNCHANGED <<users, last, invites, proven, origin, tokens, uses, withdrawn, env>>
    BY <1>2, <1>4 DEF AcceptCommit
  <2>2. UNCHANGED <<db, env, hist>> BY <2>1 DEF db, hist
  <2> QED BY <1>1, <2>1, <2>2, GiveUp
<1> QED BY <1>3, <1>4

-----------------------------------------------------------------------------
(* Links                                                                   *)

\* A link is issued: its id is new, and the earlier unused ones of its purpose go.
LEMMA IssuedStep ==
    ASSUME Tables, NEW u \in UserIds, NEW p \in Purposes, NEW target \in Emails, NEW k, k = last.tok + 1,
           last.tok < load.max.tok, tokens' = Issued(u, p, k, target), last'.tok = k, uses' = uses
    PROVE  /\ k \in TokIds /\ tokens' \in [TokIds -> Token \cup {None}] /\ LinkInv'
           /\ \A n \in TokIds, w \in UserIds : n \in ActiveTokens(w, "change")' =>
                 \/ p = "change" /\ w = u /\ tokens'[n].target = target
                 \/ n \in ActiveTokens(w, "change") /\ tokens'[n].target = tokens[n].target /\ ~ (p = "change" /\ w = u)
<1>1. last.tok \in Nat /\ load.max.tok \in 0..MaxTok /\ MaxTok \in Nat
  BY LiveIds, LoadIs, AccountsAssumption DEF Tables, TablesTyped, TypeOK
<1>2. k \in TokIds /\ k > last.tok /\ k \in Nat
  BY <1>1 DEF TokIds
<1>3. PICK new \in Token : new = [user |-> u, purpose |-> p, target |-> target, used |-> FALSE, age |-> "fresh"]
  BY DEF Token, Ages
<1>4. /\ tokens' = [n \in TokIds |-> IF n = k THEN new ELSE IF n \in ActiveTokens(u, p) THEN None ELSE tokens[n]]
      /\ tokens \in [TokIds -> Token \cup {None}]
  BY <1>3 DEF Issued, Tables, TablesTyped, TypeOK
<1>5. tokens' \in [TokIds -> Token \cup {None}]
  BY <1>4
<1>6. tokens'[k] = new /\ \A n \in TokIds : n # k => tokens'[n] = IF n \in ActiveTokens(u, p) THEN None ELSE tokens[n]
  BY <1>2, <1>4
<1>7. LinkInv'
  <2> SUFFICES ASSUME NEW n \in TokIds
               PROVE  /\ uses[n] <= 1
                      /\ n > k => tokens'[n] = None /\ uses[n] = 0
                      /\ tokens'[n] # None /\ ~ tokens'[n].used => uses[n] = 0
    BY DEF LinkInv
  <2>1. n \in Nat /\ (n > k => n > last.tok /\ n # k) BY <1>1, <1>2 DEF TokIds
  <2>2. /\ uses[n] <= 1
        /\ n > last.tok => tokens[n] = None /\ uses[n] = 0
        /\ tokens[n] # None /\ ~ tokens[n].used => uses[n] = 0
    BY DEF Tables, LinkInv
  <2>3. CASE n = k BY <1>2, <2>1, <2>2, <2>3
  <2>4. CASE n # k BY <1>6, <2>1, <2>2, <2>4
  <2> QED BY <2>3, <2>4
<1>8. ASSUME NEW n \in TokIds, NEW w \in UserIds, n \in ActiveTokens(w, "change")'
      PROVE  \/ p = "change" /\ w = u /\ tokens'[n].target = target
             \/ n \in ActiveTokens(w, "change") /\ tokens'[n].target = tokens[n].target /\ ~ (p = "change" /\ w = u)
  <2>1. tokens'[n] # None /\ tokens'[n].user = w /\ tokens'[n].purpose = "change" /\ ~ tokens'[n].used
    BY <1>8 DEF ActiveTokens, LiveTokens
  <2>2. CASE n = k BY <1>3, <1>6, <2>1, <2>2
  <2>3. CASE n # k
    <3>1. tokens'[n] = tokens[n] /\ n \notin ActiveTokens(u, p) BY <1>6, <2>1, <2>3
    <3>2. n \in ActiveTokens(w, "change") BY <2>1, <3>1 DEF ActiveTokens, LiveTokens
    <3> QED BY <3>1, <3>2
  <2> QED BY <2>2, <2>3
<1> QED BY <1>2, <1>5, <1>7, <1>8

\* The links of accounts that wait for an address, when one is issued.
LEMMA IssuedPending ==
    ASSUME Tables, load' = load, NEW u \in UserIds, NEW p \in Purposes, NEW target \in Emails,
           \A n \in TokIds, w \in UserIds : n \in ActiveTokens(w, "change")' =>
                 \/ p = "change" /\ w = u /\ tokens'[n].target = target
                 \/ n \in ActiveTokens(w, "change") /\ tokens'[n].target = tokens[n].target /\ ~ (p = "change" /\ w = u),
           p = "change" /\ (load.serial \/ Without("resend")) => users'[u] = None \/ users'[u].pending = target,
           \A w \in UserIds : users'[w] # None /\ users'[w].pending # None =>
                 (w = u /\ p = "change") \/ (users[w] # None /\ users'[w].pending = users[w].pending)
    PROVE  PendingHasLink'
<1>1. Without("resend")' <=> Without("resend")
  BY DEF Without
<1> SUFFICES ASSUME load.serial \/ Without("resend"), NEW w \in UserIds, users'[w] # None, users'[w].pending # None,
                    NEW n \in TokIds, n \in ActiveTokens(w, "change")'
             PROVE  tokens'[n].target = users'[w].pending
  BY <1>1 DEF PendingHasLink, Live, ActiveTokens, LiveTokens
<1>2. CASE p = "change" /\ w = u
  BY <1>2
<1>3. CASE ~ (p = "change" /\ w = u)
  <2>1. n \in ActiveTokens(w, "change") /\ tokens'[n].target = tokens[n].target BY <1>3
  <2>2. users[w] # None /\ users'[w].pending = users[w].pending BY <1>3
  <2> QED BY <2>1, <2>2 DEF Tables, PendingHasLink, Live
<1> QED BY <1>2, <1>3

\* Steps that leave invitations and their history alone.
LEMMA InvitesAlone ==
    ASSUME Tables, UNCHANGED <<invites, origin, withdrawn, load>>, last'.inv = last.inv
    PROVE  InvitationInv' /\ FirstInv' /\ OneOpenInvitation'
<1>1. InvitesLose /\ withdrawn \subseteq InvIds
  BY InvitesSame DEF Tables, TablesTyped, TypeOK
<1> QED BY <1>1, InvitationsStay, OpenStays DEF Tables, FirstInv

\* Steps that leave the accounts alone.
LEMMA UsersAlone ==
    ASSUME Tables, UNCHANGED <<users, load, proven>>, last'.user = last.user
    PROVE  SuperAdminStays' /\ ScopesNeedOperator' /\ VerifiedWasProven' /\ PendingLose /\ Evolves
<1>1. SuperAdminStays' /\ ScopesNeedOperator'
  BY DEF Tables, SuperAdminStays, ScopesNeedOperator, Live
<1>2. VerifiedWasProven'
  BY DEF Tables, VerifiedWasProven, Live, Without
<1>3. last.user \in Nat
  BY LiveIds
<1>4. \A u \in UserIds : users[u] # None => users[u].verified \in BOOLEAN
  BY RowsAre
<1>5. Evolves
  BY <1>3, <1>4 DEF Evolves
<1> QED BY <1>1, <1>2, <1>5 DEF PendingLose

\* issue_contact_verification_token.
LEMMA IssueTokenInv ==
    ASSUME Inv, NEW c \in Clients, IssueToken(c)
    PROVE  Inv'
<1>1. At(c, "issue") /\ Job(c) \in IssueStmt /\ Sound(c, Job(c)) /\ Job(c).j = "issue"
  BY JobIs, StmtIs DEF IssueToken, Inv
<1>2. PICK x \in IssueStmt : x = Job(c)
  BY <1>1
<1>3. PICK u \in UserIds, p \in Purposes, e \in Emails : u = x.u /\ p = x.p /\ e = x.e
  BY DEF IssueStmt
<1>4. UNCHANGED <<users, invites, env, hist>>
  BY DEF IssueToken
<1>5. CASE users[u] = None
  <2>1. Stop(c) /\ UNCHANGED <<tokens, last>> BY <1>2, <1>3, <1>5 DEF IssueToken
  <2>2. UNCHANGED <<db, env, hist>> BY <1>4, <2>1 DEF db
  <2> QED BY <1>1, <2>1, <2>2, GiveUp
<1>6. CASE users[u] # None
  <2>1. PICK k : k = last.tok + 1 OBVIOUS
  <2>2. last.tok < load.max.tok /\ tokens' = Issued(u, p, k, e) /\ last' = [last EXCEPT !.tok = k] /\ Then(c, <<>>)
    BY <1>2, <1>3, <1>6, <2>1 DEF IssueToken, NewToken
  <2>3. Tables /\ last \in [user : 0..MaxUser, tok : 0..MaxTok, inv : 0..MaxInv]
    BY DEF Inv, Tables, TablesTyped, TypeOK
  <2>4. last'.user = last.user /\ last'.inv = last.inv /\ last'.tok = k BY <2>2, <2>3
  <2>5. /\ load' = load /\ faults' = faults /\ users' = users /\ invites' = invites
        /\ UNCHANGED <<proven, uses, origin, withdrawn>>
    BY <1>4 DEF env, hist
  <2>6. /\ k \in TokIds /\ tokens' \in [TokIds -> Token \cup {None}] /\ LinkInv'
        /\ \A n \in TokIds, w \in UserIds : n \in ActiveTokens(w, "change")' =>
                 \/ p = "change" /\ w = u /\ tokens'[n].target = e
                 \/ n \in ActiveTokens(w, "change") /\ tokens'[n].target = tokens[n].target /\ ~ (p = "change" /\ w = u)
    BY <2>1, <2>2, <2>3, <2>4, <2>5, IssuedStep
  <2>7. p = "change" /\ (load.serial \/ Without("resend")) => users'[u] = None \/ users'[u].pending = e
    BY <1>1, <1>2, <1>3, <2>5 DEF Sound, Without
  <2>8. PendingHasLink' BY <2>3, <2>5, <2>6, <2>7, IssuedPending
  <2>9. InvitationInv' /\ FirstInv' /\ OneOpenInvitation'
    BY <2>3, <2>4, <2>5, InvitesAlone
  <2>10. SuperAdminStays' /\ ScopesNeedOperator' /\ VerifiedWasProven' /\ Evolves
    BY <2>3, <2>4, <2>5, UsersAlone
  <2>11. last' \in [user : 0..MaxUser, tok : 0..MaxTok, inv : 0..MaxInv]
    <3>1. k \in 0..MaxTok BY <2>6, AccountsAssumption DEF TokIds
    <3> QED BY <2>2, <2>3, <3>1
  <2>12. TablesTyped' /\ Ids'
    BY <2>3, <2>4, <2>5, <2>6, <2>11 DEF Tables, TablesTyped, TypeOK, Ids
  <2>13. Tables' BY <2>6, <2>8, <2>9, <2>10, <2>12 DEF Tables
  <2> QED BY <1>1, <2>2, <2>10, <2>13, EndStep
<1> QED BY <1>5, <1>6

\* An account keeps its role, scopes and status.
LEMMA EditRow ==
    ASSUME Tables, NEW u \in UserIds, users[u] # None, NEW row \in User, users' = [users EXCEPT ![u] = row],
           row.role = users[u].role, row.scopes = users[u].scopes, row.active = users[u].active
    PROVE  /\ users' \in [UserIds -> User \cup {None}] /\ users'[u] = row /\ row # None
           /\ \A w \in UserIds : w # u => users'[w] = users[w]
           /\ SuperAdminStays' /\ ScopesNeedOperator' /\ u <= last.user
<1>1. last.user >= 1 /\ u <= last.user
  BY LiveIds
<1>2. u \in Live
  BY DEF Live
<1>3. row.scopes => row.role = "operator"
  BY <1>2 DEF Tables, ScopesNeedOperator
<1>4. u = SUPER_ADMIN_USER_ID => row.role = "admin" /\ row.active /\ ~ row.scopes
  BY <1>2 DEF Tables, SuperAdminStays
<1> QED BY <1>1, <1>3, <1>4, PutRow

\* Rows keep the ids they have.
LEMMA IdsStay ==
    ASSUME Tables, NEW u \in UserIds, u <= last.user, users' \in [UserIds -> User \cup {None}], users'[u] # None,
           \A w \in UserIds : w # u => users'[w] = users[w], last'.user = last.user, last'.inv = last.inv,
           UNCHANGED <<origin, invites>>
    PROVE  Ids'
<1>1. \A w \in UserIds : users'[w] # None \/ origin'[w] # None => w <= last'.user
  BY DEF Tables, Ids
<1>2. last.user >= 1 => SUPER_ADMIN_USER_ID \in UserIds
  BY LiveIds, AccountsAssumption DEF UserIds, SUPER_ADMIN_USER_ID
<1>3. last.user >= 1 => users'[SUPER_ADMIN_USER_ID] # None
  BY <1>2 DEF Tables, Ids
<1> QED BY <1>1, <1>3 DEF Tables, Ids

\* request_email_change: the pending address and its link.
LEMMA ChangeCommitInv ==
    ASSUME Inv, NEW c \in Clients, ChangeCommit(c)
    PROVE  Inv'
<1>1. At(c, "ccommit") /\ Job(c) \in ChangeStmt
  BY JobIs, StmtIs DEF ChangeCommit, Inv
<1>2. PICK x \in ChangeStmt : x = Job(c)
  BY <1>1
<1>3. PICK u \in UserIds, e \in Emails : u = x.u /\ e = x.e
  BY DEF ChangeStmt
<1>4. UNCHANGED <<invites, env, hist>>
  BY DEF ChangeCommit
<1>5. CASE users[u] = None \/ HasPending(e) \ {u} # {}
  <2>1. Stop(c) /\ UNCHANGED <<users, tokens, last>> BY <1>2, <1>3, <1>5 DEF ChangeCommit
  <2>2. UNCHANGED <<db, env, hist>> BY <1>4, <2>1 DEF db
  <2> QED BY <1>1, <2>1, <2>2, GiveUp
<1>6. CASE ~ (users[u] = None \/ HasPending(e) \ {u} # {})
  <2>1. PICK k : k = last.tok + 1 OBVIOUS
  <2>2. /\ last.tok < load.max.tok /\ tokens' = Issued(u, "change", k, e) /\ last' = [last EXCEPT !.tok = k] /\ Then(c, <<>>)
        /\ users' = [users EXCEPT ![u].pending = e]
    BY <1>2, <1>3, <1>6, <2>1 DEF ChangeCommit, NewToken
  <2>3. Tables /\ last \in [user : 0..MaxUser, tok : 0..MaxTok, inv : 0..MaxInv]
    BY DEF Inv, Tables, TablesTyped, TypeOK
  <2>4. last'.user = last.user /\ last'.inv = last.inv /\ last'.tok = k BY <2>2, <2>3
  <2>5. load' = load /\ faults' = faults /\ invites' = invites /\ UNCHANGED <<proven, uses, origin, withdrawn>>
    BY <1>4 DEF env, hist
  <2>6. PICK old \in User : old = users[u] BY <1>6, <2>3, RowsAre
  <2>7. PICK row : row = [old EXCEPT !.pending = e] OBVIOUS
  <2>8. /\ row \in User /\ row.pending = e /\ row.email = old.email /\ row.verified = old.verified
        /\ row.role = old.role /\ row.scopes = old.scopes /\ row.active = old.active
    BY <2>7 DEF User
  <2>9. users' = [users EXCEPT ![u] = row] BY <2>2, <2>6, <2>7
  <2>10. /\ users' \in [UserIds -> User \cup {None}] /\ users'[u] = row /\ row # None
         /\ \A w \in UserIds : w # u => users'[w] = users[w]
         /\ SuperAdminStays' /\ ScopesNeedOperator' /\ u <= last.user
    BY <1>6, <2>3, <2>6, <2>8, <2>9, EditRow
  <2>11. "change" \in Purposes BY DEF Purposes
  <2>12. /\ k \in TokIds /\ tokens' \in [TokIds -> Token \cup {None}] /\ LinkInv'
         /\ \A n \in TokIds, w \in UserIds : n \in ActiveTokens(w, "change")' =>
                 \/ "change" = "change" /\ w = u /\ tokens'[n].target = e
                 \/ n \in ActiveTokens(w, "change") /\ tokens'[n].target = tokens[n].target /\ ~ ("change" = "change" /\ w = u)
    BY <2>1, <2>2, <2>3, <2>4, <2>5, <2>11, IssuedStep
  <2>13. PendingHasLink' BY <2>3, <2>5, <2>8, <2>10, <2>11, <2>12, IssuedPending
  <2>14. InvitationInv' /\ FirstInv' /\ OneOpenInvitation'
    BY <2>3, <2>4, <2>5, InvitesAlone
  <2>15. VerifiedWasProven'
    <3>1. VerifiedLose BY <1>6, <2>5, <2>6, <2>8, <2>10 DEF VerifiedLose
    <3> QED BY <2>3, <2>5, <3>1, VerifiedStays DEF Tables
  <2>16. Evolves
    BY <1>6, <2>3, <2>4, <2>5, <2>6, <2>8, <2>10, LiveIds, RowsAre DEF Evolves
  <2>17. last' \in [user : 0..MaxUser, tok : 0..MaxTok, inv : 0..MaxInv]
    <3>1. k \in 0..MaxTok BY <2>12, AccountsAssumption DEF TokIds
    <3> QED BY <2>2, <2>3, <3>1
  <2>18. TablesTyped' BY <2>3, <2>5, <2>10, <2>12, <2>17 DEF Tables, TablesTyped, TypeOK
  <2>19. Ids' BY <2>3, <2>4, <2>5, <2>10, IdsStay
  <2>20. Tables' BY <2>10, <2>12, <2>13, <2>14, <2>15, <2>18, <2>19 DEF Tables
  <2> QED BY <1>1, <2>2, <2>16, <2>20, EndStep
<1> QED BY <1>5, <1>6

\* register: the account that is not yet verified and its link.
LEMMA RegisterCommitInv ==
    ASSUME Inv, NEW c \in Clients, RegisterCommit(c)
    PROVE  Inv'
<1>1. At(c, "rcommit") /\ Job(c).e \in Emails /\ Sound(c, Job(c)) /\ Job(c).j = "rcommit"
  BY JobIs, StmtIs DEF RegisterCommit, Inv, EmailStmt
<1>2. PICK e \in Emails : e = Job(c).e
  BY <1>1
<1>3. UNCHANGED <<invites, uses, withdrawn, env>>
  BY DEF RegisterCommit
<1>4. CASE ~ Free(e, None)
  <2>1. Stop(c) /\ UNCHANGED <<users, tokens, last, proven, origin>>
    BY <1>2, <1>4 DEF RegisterCommit
  <2>2. UNCHANGED <<db, env, hist>> BY <1>3, <2>1 DEF db, hist
  <2> QED BY <1>1, <2>1, <2>2, GiveUp
<1>5. CASE Free(e, None)
  <2>1. PICK k, u : k = last.tok + 1 /\ u = last.user + 1 OBVIOUS
  <2>2. PICK row : row = [NewUser(e, "user", FALSE, TRUE) EXCEPT !.verified = FALSE] OBVIOUS
  <2>3. /\ last.user < load.max.user /\ last.tok < load.max.tok
        /\ users' = [users EXCEPT ![u] = row] /\ tokens' = Issued(u, "activation", k, e)
        /\ last' = [last EXCEPT !.user = u, !.tok = k] /\ Then(c, <<>>) /\ UNCHANGED <<proven, origin>>
    BY <1>2, <1>5, <2>1, <2>2 DEF RegisterCommit
  <2>4. Tables /\ last \in [user : 0..MaxUser, tok : 0..MaxTok, inv : 0..MaxInv] /\ load \in Workloads
    BY DEF Inv, Tables, TablesTyped, TypeOK
  <2>5. last'.user = u /\ last'.inv = last.inv /\ last'.tok = k BY <2>3, <2>4
  <2>6. load' = load /\ faults' = faults /\ invites' = invites /\ UNCHANGED <<proven, uses, origin, withdrawn>>
    BY <1>3, <2>3 DEF env
  <2>7. last.user >= 1 /\ last.user \in Nat /\ load.max.user \in UserIds /\ MaxUser \in Nat
    BY <1>1, <2>4, LiveIds, LoadIs, AccountsAssumption DEF Sound
  <2>8. u \in UserIds /\ u \in Nat /\ u > last.user /\ u # SUPER_ADMIN_USER_ID
    BY <2>1, <2>3, <2>7 DEF UserIds, SUPER_ADMIN_USER_ID
  <2>9. row \in User /\ row.verified = FALSE /\ row.pending = None /\ row.scopes = FALSE
    BY <2>2 DEF NewUser, User, Roles
  <2>10. /\ users' \in [UserIds -> User \cup {None}] /\ users'[u] = row /\ row # None
         /\ \A w \in UserIds : w # u => users'[w] = users[w]
         /\ SuperAdminStays' /\ ScopesNeedOperator'
    BY <2>3, <2>4, <2>7, <2>8, <2>9, PutRow
  <2>11. "activation" \in Purposes /\ "activation" # "change" BY DEF Purposes
  <2>12. /\ k \in TokIds /\ tokens' \in [TokIds -> Token \cup {None}] /\ LinkInv'
         /\ \A n \in TokIds, w \in UserIds : n \in ActiveTokens(w, "change")' =>
                 \/ "activation" = "change" /\ w = u /\ tokens'[n].target = e
                 \/ n \in ActiveTokens(w, "change") /\ tokens'[n].target = tokens[n].target /\ ~ ("activation" = "change" /\ w = u)
    BY <2>1, <2>3, <2>4, <2>5, <2>6, <2>8, <2>11, IssuedStep
  <2>13. PendingHasLink' BY <2>4, <2>6, <2>8, <2>9, <2>10, <2>11, <2>12, IssuedPending
  <2>14. InvitationInv' /\ FirstInv' /\ OneOpenInvitation'
    BY <2>4, <2>5, <2>6, InvitesAlone
  <2>15. VerifiedWasProven'
    <3>1. VerifiedLose BY <2>6, <2>9, <2>10 DEF VerifiedLose
    <3> QED BY <2>4, <2>6, <3>1, VerifiedStays DEF Tables
  <2>16. \A w \in UserIds : (users[w] # None \/ origin[w] # None => w <= last.user) /\ w \in Nat
    BY <2>4, <2>7 DEF Tables, Ids, UserIds
  <2>17. Evolves
    <3>1. ASSUME NEW w \in UserIds, w <= last.user PROVE users'[w] = users[w]
      <4>1. w \in Nat BY <2>16
      <4>2. w # u BY <2>7, <2>8, <3>1, <4>1
      <4> QED BY <2>10, <4>2
    <3>2. last.user <= last'.user BY <2>5, <2>7, <2>8
    <3>3. \A w \in UserIds : users[w] # None => users[w].verified \in BOOLEAN
      BY <2>4, RowsAre
    <3>4. \A w \in UserIds : w <= last.user =>
            \/ users'[w] = None
            \/ users[w] # None /\ (users'[w].verified \/ (users'[w].email = users[w].email /\ ~ users[w].verified))
      BY <3>1, <3>3
    <3> QED BY <2>5, <2>6, <2>7, <2>8, <3>2, <3>4 DEF Evolves
  <2>18. last' \in [user : 0..MaxUser, tok : 0..MaxTok, inv : 0..MaxInv]
    <3>1. k \in 0..MaxTok /\ u \in 0..MaxUser
      BY <2>8, <2>12, AccountsAssumption DEF TokIds, UserIds
    <3> QED BY <2>3, <2>4, <3>1
  <2>19. TablesTyped' BY <2>4, <2>6, <2>10, <2>12, <2>18 DEF Tables, TablesTyped, TypeOK
  <2>20. Ids'
    <3>1. ASSUME NEW w \in UserIds, users'[w] # None \/ origin'[w] # None PROVE w <= u
      <4>1. CASE w = u BY <2>8, <4>1
      <4>2. CASE w # u BY <2>6, <2>7, <2>8, <2>10, <2>16, <3>1, <4>2
      <4> QED BY <4>1, <4>2
    <3>2. \A i \in InvIds : invites'[i] # None => i <= last.inv /\ u >= 1
      BY <2>4, <2>6, <2>7, <2>8 DEF Tables, Ids
    <3>3. users'[SUPER_ADMIN_USER_ID] # None
      <4>1. SUPER_ADMIN_USER_ID \in UserIds BY <2>7, <2>8 DEF UserIds, SUPER_ADMIN_USER_ID
      <4> QED BY <2>4, <2>7, <2>8, <2>10, <4>1 DEF Tables, Ids
    <3> QED BY <2>5, <3>1, <3>2, <3>3 DEF Ids
  <2>21. Tables' BY <2>10, <2>12, <2>13, <2>14, <2>15, <2>19, <2>20 DEF Tables
  <2> QED BY <1>1, <2>3, <2>17, <2>21, EndStep
<1> QED BY <1>4, <1>5

\* mark_consumed_if_unused: an unused link was never redeemed.
LEMMA RedeemStep ==
    ASSUME Tables, NEW k \in TokIds, Redeemable(k), Redeem(k), last' = last
    PROVE  tokens' \in [TokIds -> Token \cup {None}] /\ uses' \in [TokIds -> Nat] /\ TokensLose /\ LinkInv'
<1>1. tokens[k] # None /\ ~ tokens[k].used
  BY DEF Redeemable
<1>2. PICK old \in Token : old = tokens[k]
  BY <1>1, RowsAre
<1>3. PICK new : new = [old EXCEPT !.used = TRUE] OBVIOUS
<1>4. new \in Token /\ new.user = old.user /\ new.purpose = old.purpose /\ new.target = old.target /\ new.used = TRUE
  BY <1>3 DEF Token
<1>5. tokens \in [TokIds -> Token \cup {None}] /\ uses \in [TokIds -> Nat]
  BY DEF Tables, TablesTyped, TypeOK
<1>6. tokens' = [tokens EXCEPT ![k] = new] /\ uses' = [uses EXCEPT ![k] = @ + 1]
  BY <1>2, <1>3 DEF Redeem
<1>7. tokens' \in [TokIds -> Token \cup {None}] /\ tokens'[k] = new /\ \A n \in TokIds : n # k => tokens'[n] = tokens[n]
  BY <1>4, <1>5, <1>6
<1>8. uses' \in [TokIds -> Nat] /\ uses'[k] = uses[k] + 1 /\ \A n \in TokIds : n # k => uses'[n] = uses[n]
  BY <1>5, <1>6
<1>9. TokensLose
  BY <1>1, <1>2, <1>4, <1>7 DEF TokensLose
<1>10. uses'[k] = 1 /\ ~ (k > last.tok)
  BY <1>1, <1>8 DEF Tables, LinkInv
<1>11. LinkInv'
  <2> SUFFICES ASSUME NEW n \in TokIds
               PROVE  /\ uses'[n] <= 1
                      /\ n > last.tok => tokens'[n] = None /\ uses'[n] = 0
                      /\ tokens'[n] # None /\ ~ tokens'[n].used => uses'[n] = 0
    BY DEF LinkInv
  <2>1. CASE n = k BY <1>4, <1>7, <1>10, <2>1
  <2>2. CASE n # k BY <1>7, <1>8, <2>2 DEF Tables, LinkInv
  <2> QED BY <2>1, <2>2
<1> QED BY <1>7, <1>8, <1>9, <1>11

\* The row a confirmation leaves.
Confirmed(old, row) ==
    /\ row \in User /\ row.role = old.role /\ row.scopes = old.scopes /\ row.active = old.active
    /\ row.pending \in {None, old.pending}
    /\ row.verified = TRUE \/ row = old

\* The address of the link is the account's, or was verified before.
LinkProves(u, old, row, target) == (load.serial \/ Without("update")) /\ row.verified =>
    row.email = target \/ (old.verified /\ row.email = old.email)

\* What confirm_contact_verification writes.
Linked(x, u) ==
    IF x.t.purpose = "activation" THEN [users EXCEPT ![u].verified = TRUE]
    ELSE IF x.same THEN users
    ELSE [users EXCEPT ![u].email = x.t.target, ![u].pending = None, ![u].verified = TRUE]

\* confirm_contact_verification writes the account.
LEMMA LinkRow ==
    ASSUME Tables, NEW c, NEW x \in LinkStmt, Sound(c, x), NEW u \in UserIds, u = x.t.user, users[u] # None,
           users' = Linked(x, u)
    PROVE  \E row : users' = [users EXCEPT ![u] = row] /\ Confirmed(users[u], row) /\ LinkProves(u, users[u], row, x.t.target)
<1>1. users \in [UserIds -> User \cup {None}]
  BY DEF Tables, TablesTyped, TypeOK
<1>2. PICK old \in User : old = users[u]
  BY RowsAre
<1>3. x.j = "link" /\ x.t.target \in Emails
  BY DEF LinkStmt, Token
<1>4. CASE x.t.purpose = "activation"
  <2>1. PICK row : row = [old EXCEPT !.verified = TRUE] OBVIOUS
  <2>2. /\ row \in User /\ row.role = old.role /\ row.scopes = old.scopes /\ row.active = old.active
        /\ row.pending = old.pending /\ row.verified = TRUE /\ row.email = old.email
    BY <2>1 DEF User
  <2>3. users' = [users EXCEPT ![u] = row] BY <1>2, <1>4, <2>1 DEF Linked
  <2>4. load.serial \/ Without("update") => old.email = x.t.target \/ old.verified
    BY <1>2, <1>3, <1>4 DEF Sound
  <2>5. LinkProves(u, old, row, x.t.target) /\ Confirmed(old, row)
    BY <2>2, <2>4 DEF LinkProves, Confirmed
  <2> QED BY <1>2, <2>3, <2>5
<1>5. CASE x.t.purpose # "activation" /\ x.same
  <2>1. users' = [users EXCEPT ![u] = old] BY <1>1, <1>2, <1>5 DEF Linked
  <2>2. LinkProves(u, old, old, x.t.target) /\ Confirmed(old, old)
    BY DEF LinkProves, Confirmed
  <2> QED BY <1>2, <2>1, <2>2
<1>6. CASE x.t.purpose # "activation" /\ ~ x.same
  <2>1. PICK row : row = [old EXCEPT !.email = x.t.target, !.pending = None, !.verified = TRUE]
    OBVIOUS
  <2>2. /\ row \in User /\ row.role = old.role /\ row.scopes = old.scopes /\ row.active = old.active
        /\ row.pending = None /\ row.verified = TRUE /\ row.email = x.t.target
    BY <1>3, <2>1 DEF User
  <2>3. users' = [users EXCEPT ![u] = row] BY <1>1, <1>2, <1>6, <2>1 DEF Linked
  <2>4. LinkProves(u, old, row, x.t.target) /\ Confirmed(old, row)
    BY <2>2 DEF LinkProves, Confirmed
  <2> QED BY <1>2, <2>3, <2>4
<1> QED BY <1>4, <1>5, <1>6

\* confirm_contact_verification: the mark on the link and the account.
LEMMA LinkCommitInv ==
    ASSUME Inv, NEW c \in Clients, LinkCommit(c)
    PROVE  Inv'
<1>1. At(c, "link") /\ Job(c) \in LinkStmt /\ Sound(c, Job(c))
  BY JobIs, StmtIs DEF LinkCommit, Inv
<1>2. PICK x \in LinkStmt : x = Job(c)
  BY <1>1
<1>3. PICK u \in UserIds, k \in TokIds : u = x.t.user /\ k = x.k
  BY DEF LinkStmt, Token
<1>4. UNCHANGED <<invites, last, origin, withdrawn, env>>
  BY DEF LinkCommit
<1>5. CASE ~ Redeemable(k) \/ users[u] = None \/ (~ x.same /\ ~ Free(x.t.target, u))
  <2>1. Stop(c) /\ UNCHANGED <<users, tokens, uses, proven>>
    BY <1>2, <1>3, <1>5 DEF LinkCommit
  <2>2. UNCHANGED <<db, env, hist>> BY <1>4, <2>1 DEF db, hist
  <2> QED BY <1>1, <2>1, <2>2, GiveUp
<1>6. CASE ~ (~ Redeemable(k) \/ users[u] = None \/ (~ x.same /\ ~ Free(x.t.target, u)))
  <2>1. /\ Redeem(k) /\ proven' = proven \cup {<<u, x.t.target>>} /\ Then(c, <<>>)
        /\ users' = Linked(x, u)
    BY <1>2, <1>3, <1>6 DEF LinkCommit, Linked
  <2>2. Tables /\ users[u] # None /\ Redeemable(k) BY <1>6 DEF Inv
  <2>3. PICK row : users' = [users EXCEPT ![u] = row] /\ Confirmed(users[u], row) /\ LinkProves(u, users[u], row, x.t.target)
    <3>1. Sound(c, x) BY <1>1, <1>2
    <3> QED BY <1>3, <2>1, <2>2, <3>1, LinkRow
  <2>4. load' = load /\ faults' = faults /\ last' = last /\ UNCHANGED <<invites, origin, withdrawn>>
    BY <1>4 DEF env
  <2>5. tokens' \in [TokIds -> Token \cup {None}] /\ uses' \in [TokIds -> Nat] /\ TokensLose /\ LinkInv'
    BY <2>1, <2>2, <2>4, RedeemStep
  <2>6. /\ users' \in [UserIds -> User \cup {None}] /\ users'[u] = row /\ row # None
        /\ \A w \in UserIds : w # u => users'[w] = users[w]
        /\ SuperAdminStays' /\ ScopesNeedOperator' /\ u <= last.user
    BY <2>2, <2>3, EditRow DEF Confirmed
  <2>7. PendingHasLink'
    <3>1. PendingLose BY <2>2, <2>3, <2>6 DEF PendingLose, Confirmed
    <3> QED BY <2>2, <2>4, <2>5, <3>1, PendingStays DEF Tables
  <2>8. InvitationInv' /\ FirstInv' /\ OneOpenInvitation' BY <2>2, <2>4, InvitesAlone
  <2>9. VerifiedWasProven'
    <3>1. VerifiedLose BY <2>1, <2>2, <2>3, <2>6 DEF VerifiedLose, LinkProves
    <3> QED BY <2>2, <2>4, <3>1, VerifiedStays DEF Tables
  <2>10. Evolves
    <3>1. \A w \in UserIds : users[w] # None => users[w].verified \in BOOLEAN
      BY <2>2, RowsAre
    <3>2. \A w \in UserIds :
            \/ users'[w] = None
            \/ users[w] # None /\ (users'[w].verified \/ (users'[w].email = users[w].email /\ ~ users[w].verified))
      BY <2>2, <2>3, <2>6, <3>1 DEF Confirmed
    <3>3. last.user \in Nat BY <2>2, LiveIds
    <3> QED BY <2>4, <3>2, <3>3 DEF Evolves
  <2>11. TablesTyped' BY <2>2, <2>4, <2>5, <2>6 DEF Tables, TablesTyped, TypeOK
  <2>12. Ids' BY <2>2, <2>4, <2>6, IdsStay
  <2>13. Tables' BY <2>5, <2>6, <2>7, <2>8, <2>9, <2>11, <2>12 DEF Tables
  <2> QED BY <1>1, <2>1, <2>10, <2>13, EndStep
<1> QED BY <1>5, <1>6

\* confirm_password_reset: the mark on the link.
LEMMA PasswordCommitInv ==
    ASSUME Inv, NEW c \in Clients, PasswordCommit(c)
    PROVE  Inv'
<1>1. At(c, "password") /\ Job(c).k \in TokIds
  BY JobIs, StmtIs DEF PasswordCommit, Inv, PasswordStmt
<1>2. PICK k \in TokIds : k = Job(c).k
  BY <1>1
<1>3. UNCHANGED <<users, invites, last, proven, origin, withdrawn, env>>
  BY DEF PasswordCommit
<1>4. CASE ~ (Redeemable(k) /\ users[Job(c).u] # None)
  <2>1. Stop(c) /\ UNCHANGED <<tokens, uses>> BY <1>2, <1>4 DEF PasswordCommit
  <2>2. UNCHANGED <<db, env, hist>> BY <1>3, <2>1 DEF db, hist
  <2> QED BY <1>1, <2>1, <2>2, GiveUp
<1>5. CASE Redeemable(k) /\ users[Job(c).u] # None
  <2>1. Redeem(k) /\ Then(c, <<>>) BY <1>2, <1>5 DEF PasswordCommit
  <2>2. Tables BY DEF Inv
  <2>3. load' = load /\ faults' = faults /\ last' = last /\ UNCHANGED <<users, invites, proven, origin, withdrawn>>
    BY <1>3 DEF env
  <2>4. tokens' \in [TokIds -> Token \cup {None}] /\ uses' \in [TokIds -> Nat] /\ TokensLose /\ LinkInv'
    BY <1>5, <2>1, <2>2, <2>3, RedeemStep
  <2>5. SuperAdminStays' /\ ScopesNeedOperator' /\ VerifiedWasProven' /\ PendingLose /\ Evolves
    BY <2>2, <2>3, UsersAlone
  <2>6. InvitationInv' /\ FirstInv' /\ OneOpenInvitation' BY <2>2, <2>3, InvitesAlone
  <2>7. PendingHasLink' BY <2>2, <2>3, <2>4, <2>5, PendingStays DEF Tables
  <2>8. TablesTyped' /\ Ids' BY <2>2, <2>3, <2>4 DEF Tables, TablesTyped, TypeOK, Ids
  <2>9. Tables' BY <2>4, <2>5, <2>6, <2>7, <2>8 DEF Tables
  <2> QED BY <1>1, <2>1, <2>5, <2>9, EndStep
<1> QED BY <1>4, <1>5

-----------------------------------------------------------------------------
(* Invitations                                                             *)

\* Steps that leave accounts, links and the history alone and close invitations.
LEMMA InvitesClose ==
    ASSUME Tables, InvitesLose, UNCHANGED <<users, tokens, last, load, faults, proven, uses, origin, withdrawn>>
    PROVE  Tables' /\ Evolves
<1>1. SuperAdminStays' /\ ScopesNeedOperator' /\ VerifiedWasProven' /\ PendingLose /\ Evolves
  BY UsersAlone
<1>2. TokensLose
  BY TokensSame
<1>3. PendingHasLink' /\ LinkInv'
  BY <1>1, <1>2, PendingStays, LinksStay DEF Tables
<1>4. withdrawn \subseteq InvIds
  BY DEF Tables, TablesTyped, TypeOK
<1>5. InvitationInv' /\ OneOpenInvitation' /\ FirstInv'
  BY <1>4, InvitationsStay, OpenStays DEF Tables, FirstInv
<1>6. TablesTyped'
  BY DEF Tables, TablesTyped, TypeOK, InvitesLose
<1>7. Ids'
  BY DEF Tables, Ids, InvitesLose
<1> QED BY <1>1, <1>3, <1>5, <1>6, <1>7 DEF Tables

\* refresh_expired_status: the rest for a pending invitation, or the mark on one that is over.
LEMMA RefreshExpiredInv ==
    ASSUME Inv, NEW c \in Clients, RefreshExpired(c)
    PROVE  Inv'
<1>1. At(c, "refresh") /\ Job(c).i \in InvIds /\ todo[c] # <<>> /\ UNCHANGED <<users, tokens, last, env, hist>>
  BY JobIs, StmtIs DEF RefreshExpired, Inv, InvStmt
<1>2. PICK i \in InvIds : i = Job(c).i
  BY <1>1
<1>3. CASE Pending(i) /\ invites[i].over
  <2>1. Stop(c) /\ invites' = [invites EXCEPT ![i].status = "expired"]
    BY <1>2, <1>3 DEF RefreshExpired, Go
  <2>2. Tables /\ invites[i] # None /\ "expired" \in InvStatuses \ {"pending"}
    BY <1>3 DEF Inv, Pending, InvStatuses
  <2>3. InvitesLose BY <2>1, <2>2, StatusStep
  <2>4. Tables' /\ Evolves BY <1>1, <2>2, <2>3, InvitesClose DEF env, hist
  <2>5. Sets(c, <<>>) BY <2>1 DEF Stop, Sets
  <2> QED BY <1>1, <2>4, <2>5, JobsEnd DEF Inv
<1>4. CASE ~ (Pending(i) /\ invites[i].over)
  <2>1. (Then(c, <<>>) \/ Stop(c)) /\ invites' = invites
    BY <1>2, <1>4 DEF RefreshExpired, Go
  <2>2. UNCHANGED <<db, env, hist>> BY <1>1, <2>1 DEF db
  <2>3. CASE Then(c, <<>>) BY <1>1, <2>2, <2>3, RestStep
  <2>4. CASE Stop(c) BY <1>1, <2>2, <2>4, StopStep DEF Stop, Sets
  <2> QED BY <2>1, <2>3, <2>4
<1> QED BY <1>3, <1>4

\* mark_revoked_if_pending: a pending invitation made no account.
LEMMA MarkRevokedInv ==
    ASSUME Inv, NEW c \in Clients, MarkRevoked(c)
    PROVE  Inv'
<1>1. At(c, "revoke") /\ Job(c).i \in InvIds /\ UNCHANGED <<users, tokens, last, env, proven, uses, origin>>
  BY JobIs, StmtIs DEF MarkRevoked, Inv, InvStmt
<1>2. PICK i \in InvIds : i = Job(c).i
  BY <1>1
<1>3. CASE Pending(i)
  <2>1. invites' = [invites EXCEPT ![i].status = "revoked"] /\ withdrawn' = withdrawn \cup {i} /\ Then(c, <<>>)
    BY <1>2, <1>3 DEF MarkRevoked
  <2>2. Tables /\ invites[i] # None /\ "revoked" \in InvStatuses \ {"pending"} /\ withdrawn \subseteq InvIds
    BY <1>3 DEF Inv, Pending, InvStatuses, Tables, TablesTyped, TypeOK
  <2>3. InvitesLose /\ ~ Pending(i)' BY <2>1, <2>2, StatusStep
  <2>4. UNCHANGED <<users, tokens, last, load, faults, proven, uses, origin>>
    BY <1>1 DEF env
  <2>5. SuperAdminStays' /\ ScopesNeedOperator' /\ VerifiedWasProven' /\ PendingLose /\ Evolves
    BY <2>2, <2>4, UsersAlone
  <2>6. TokensLose BY <2>2, <2>4, TokensSame
  <2>7. PendingHasLink' /\ LinkInv'
    BY <2>2, <2>4, <2>5, <2>6, PendingStays, LinksStay DEF Tables
  <2>8. OneOpenInvitation' /\ FirstInv'
    BY <2>2, <2>3, <2>4, OpenStays DEF Tables, FirstInv
  <2>9. InvitationInv'
    <3>1. i <= last.inv /\ \A u \in UserIds : origin[u] # i
      BY <1>3, <2>2 DEF Tables, Ids, InvitationInv
    <3>2. \A u \in UserIds : origin[u] \in InvIds => ~ (invites'[origin[u]] # None /\ invites'[origin[u]].status = "pending")
      BY <2>2, <2>3, InvitesLosePending DEF Tables, InvitationInv, Pending
    <3>3. \A n \in withdrawn' : n <= last.inv /\ ~ (invites'[n] # None /\ invites'[n].status = "pending")
      <4>1. \A n \in withdrawn : n <= last.inv /\ ~ Pending(n)'
        BY <2>2, <2>3, InvitesLosePending DEF Tables, InvitationInv
      <4> QED BY <2>1, <2>3, <3>1, <4>1 DEF Pending
    <3>4. \A u \in UserIds : origin[u] \in InvIds => origin[u] <= last.inv /\ origin[u] \notin withdrawn'
      BY <2>1, <2>2, <3>1 DEF Tables, InvitationInv
    <3> QED BY <2>2, <2>4, <3>2, <3>3, <3>4 DEF Tables, InvitationInv, Pending
  <2>10. TablesTyped'
    BY <2>1, <2>2, <2>3, <2>4 DEF Tables, TablesTyped, TypeOK, InvitesLose
  <2>11. Ids' BY <2>2, <2>3, <2>4 DEF Tables, Ids, InvitesLose
  <2>12. Tables' BY <2>5, <2>7, <2>8, <2>9, <2>10, <2>11 DEF Tables
  <2> QED BY <1>1, <2>1, <2>5, <2>12, EndStep
<1>4. CASE ~ Pending(i)
  <2>1. Stop(c) /\ UNCHANGED <<invites, withdrawn>> BY <1>2, <1>4 DEF MarkRevoked
  <2>2. UNCHANGED <<db, env, hist>> BY <1>1, <2>1 DEF db, hist
  <2> QED BY <1>1, <2>1, <2>2, GiveUp
<1> QED BY <1>3, <1>4

\* create_invitation: the new invitation, and the end of the earlier ones that were read.
LEMMA InvitationCommitInv ==
    ASSUME Inv, NEW c \in Clients, InvitationCommit(c)
    PROVE  Inv'
<1>1. At(c, "icommit") /\ Job(c) \in InvitedStmt /\ Sound(c, Job(c)) /\ Job(c).j = "icommit" /\ UNCHANGED <<users, tokens, env, hist>>
  BY JobIs, StmtIs DEF InvitationCommit, Inv
<1>2. PICK x \in InvitedStmt : x = Job(c)
  BY <1>1
<1>3. PICK e \in Emails, by \in UserIds, old \in SUBSET InvIds : e = x.e /\ by = x.by /\ old = x.old
  BY DEF InvitedStmt
<1>4. CASE users[by] = None
  <2>1. Stop(c) /\ UNCHANGED <<invites, last>> BY <1>2, <1>3, <1>4 DEF InvitationCommit
  <2>2. UNCHANGED <<db, env, hist>> BY <1>1, <2>1 DEF db
  <2> QED BY <1>1, <2>1, <2>2, GiveUp
<1>5. CASE users[by] # None
  <2>1. PICK n : n = last.inv + 1 OBVIOUS
  <2>2. PICK new \in Invitation : new = [email |-> e, status |-> "pending", over |-> FALSE, by |-> by]
    BY DEF Invitation, InvStatuses
  <2>3. /\ last.inv < load.max.inv /\ last' = [last EXCEPT !.inv = n] /\ Then(c, <<>>)
        /\ invites' = [i \in InvIds |->
              IF i = n THEN new
              ELSE IF i \in old /\ invites[i] # None /\ invites[i].status = "pending"
                   THEN [invites[i] EXCEPT !.status = "revoked"] ELSE invites[i]]
    BY <1>2, <1>3, <1>5, <2>1, <2>2 DEF InvitationCommit
  <2>4. /\ Tables /\ last \in [user : 0..MaxUser, tok : 0..MaxTok, inv : 0..MaxInv] /\ load \in Workloads
        /\ withdrawn \subseteq InvIds /\ invites \in [InvIds -> Invitation \cup {None}]
    BY DEF Inv, Tables, TablesTyped, TypeOK
  <2>5. last.inv \in Nat /\ load.max.inv \in 0..MaxInv /\ MaxInv \in Nat /\ last.user >= 1
    BY <1>5, <2>4, LiveIds, LoadIs, AccountsAssumption
  <2>6. n \in InvIds /\ n \in Nat /\ n > last.inv /\ n \in 0..MaxInv
    BY <2>1, <2>3, <2>5 DEF InvIds
  <2>7. last'.user = last.user /\ last'.tok = last.tok /\ last'.inv = n /\ last' \in [user : 0..MaxUser, tok : 0..MaxTok, inv : 0..MaxInv]
    BY <2>3, <2>4, <2>6
  <2>8. UNCHANGED <<users, tokens, load, faults, proven, uses, origin, withdrawn>>
    BY <1>1 DEF env, hist
  <2>9. ASSUME NEW i \in InvIds, i # n
        PROVE  \/ invites'[i] = invites[i] /\ ~ (i \in old /\ Pending(i))
               \/ /\ invites'[i] \in Invitation /\ invites'[i].status = "revoked" /\ invites'[i] # None
                  /\ invites[i] # None
    <3>1. CASE i \in old /\ Pending(i)
      <4>1. PICK row \in Invitation : row = invites[i] BY <2>4, <3>1, RowsAre DEF Pending
      <4>2. invites'[i] = [row EXCEPT !.status = "revoked"]
        BY <2>3, <2>9, <3>1, <4>1 DEF Pending
      <4>3. [row EXCEPT !.status = "revoked"] \in Invitation /\ [row EXCEPT !.status = "revoked"].status = "revoked"
        BY DEF Invitation, InvStatuses
      <4> QED BY <3>1, <4>2, <4>3, NoneIsNone DEF Pending
    <3>2. CASE ~ (i \in old /\ Pending(i)) BY <2>3, <2>9, <3>2 DEF Pending
    <3> QED BY <3>1, <3>2
  <2>10. invites'[n] = new /\ new.status = "pending" /\ new.email = e BY <2>2, <2>3, <2>6
  <2>11. invites' \in [InvIds -> Invitation \cup {None}]
    <3>1. \A i \in InvIds : invites'[i] \in Invitation \cup {None} BY <2>4, <2>9, <2>10
    <3>2. DOMAIN invites' = InvIds /\ invites' = [i \in InvIds |-> invites'[i]] BY <2>3
    <3> QED BY <3>1, <3>2
  <2>12. \A i \in InvIds : i # n /\ Pending(i)' => Pending(i) /\ i \notin old /\ invites'[i] = invites[i]
    BY <2>9 DEF Pending
  <2>13. SuperAdminStays' /\ ScopesNeedOperator' /\ VerifiedWasProven' /\ PendingLose /\ Evolves
    BY <2>4, <2>7, <2>8, UsersAlone
  <2>14. TokensLose BY <2>4, <2>8, TokensSame
  <2>15. PendingHasLink' /\ LinkInv'
    BY <2>4, <2>7, <2>8, <2>13, <2>14, PendingStays, LinksStay DEF Tables
  <2>16. FirstInv' /\ TablesTyped'
    BY <2>4, <2>7, <2>8, <2>11 DEF Tables, FirstInv, TablesTyped, TypeOK
  <2>17. \A i \in InvIds : i \in Nat /\ (i <= last.inv => i # n /\ i <= n)
    BY <2>5, <2>6 DEF InvIds
  <2>18. Ids'
    <3>1. ASSUME NEW i \in InvIds, invites'[i] # None PROVE i <= n
      <4>1. CASE i = n BY <2>6, <4>1
      <4>2. CASE i # n
        <5>1. invites[i] # None BY <2>9, <3>1, <4>2
        <5> QED BY <2>4, <2>17, <5>1 DEF Tables, Ids
      <4> QED BY <4>1, <4>2
    <3> QED BY <2>4, <2>5, <2>7, <2>8, <3>1 DEF Tables, Ids
  <2>19. InvitationInv'
    <3>1. ASSUME NEW i \in InvIds, i <= last.inv, ~ Pending(i) PROVE i <= n /\ ~ (invites'[i] # None /\ invites'[i].status = "pending")
      BY <2>12, <2>17, <3>1 DEF Pending
    <3>2. ASSUME NEW u \in UserIds, origin[u] \in InvIds
          PROVE  origin[u] <= n /\ origin[u] \notin withdrawn /\ ~ (invites'[origin[u]] # None /\ invites'[origin[u]].status = "pending")
      BY <2>4, <3>1, <3>2 DEF Tables, InvitationInv
    <3>3. ASSUME NEW i \in withdrawn PROVE i <= n /\ ~ (invites'[i] # None /\ invites'[i].status = "pending")
      BY <2>4, <3>1, <3>3 DEF Tables, InvitationInv
    <3> QED BY <2>4, <2>7, <2>8, <3>2, <3>3 DEF Tables, InvitationInv, Pending
  <2>20. OneOpenInvitation'
    <3> SUFFICES ASSUME load.serial, NEW i \in InvIds, NEW m \in InvIds, Pending(i)', Pending(m)',
                        invites'[i].email = invites'[m].email
                 PROVE  i = m
      BY <2>8 DEF OneOpenInvitation, LiveInvites
    <3>1. \A q \in InvIds : Pending(q) /\ invites[q].email = e => q \in old
      BY <1>1, <1>2, <1>3 DEF Sound
    <3>2. CASE i = n /\ m # n BY <2>10, <2>12, <3>1, <3>2
    <3>3. CASE i # n /\ m = n BY <2>10, <2>12, <3>1, <3>3
    <3>4. CASE i # n /\ m # n
      <4>1. Pending(i) /\ Pending(m) /\ invites[i].email = invites[m].email BY <2>12, <3>4
      <4> QED BY <2>4, <4>1 DEF Tables, OneOpenInvitation, LiveInvites, Pending
    <3> QED BY <3>2, <3>3, <3>4
  <2>21. Tables' BY <2>13, <2>15, <2>16, <2>18, <2>19, <2>20 DEF Tables
  <2> QED BY <1>1, <2>3, <2>13, <2>21, EndStep
<1> QED BY <1>4, <1>5

-----------------------------------------------------------------------------
(* Administration                                                          *)

\* update_admin writes the row.
LEMMA EditedIs ==
    ASSUME NEW old \in User, NEW x \in CommitStmt, NEW row, row = Edited(old, x)
    PROVE  /\ row \in User /\ row.email = IF x.e = None THEN old.email ELSE x.e
           /\ row.active = IF x.active = None THEN old.active ELSE x.active
           /\ row.role = x.to.role /\ row.scopes = x.to.scopes
           /\ row.pending = old.pending /\ row.verified = old.verified
<1>1. PICK e, a, r, s : /\ e = IF x.e = None THEN old.email ELSE x.e
                        /\ a = IF x.active = None THEN old.active ELSE x.active
                        /\ r = x.to.role /\ s = x.to.scopes
  OBVIOUS
<1>2. x.to \in [role : Roles, scopes : BOOLEAN] /\ x.e \in Emails \cup {None} /\ x.active \in BOOLEAN \cup {None}
  BY DEF CommitStmt
<1>3. r \in Roles /\ s \in BOOLEAN
  BY <1>1, <1>2
<1>4. e \in Emails \cup {None} /\ a \in BOOLEAN
  <2>1. old.email \in Emails \cup {None} /\ old.active \in BOOLEAN BY DEF User
  <2> QED BY <1>1, <1>2, <2>1
<1>5. row = [old EXCEPT !.email = e, !.active = a, !.role = r, !.scopes = s]
  BY <1>1 DEF Edited, User
<1>6. /\ row \in User /\ row.email = e /\ row.active = a /\ row.role = r /\ row.scopes = s
      /\ row.pending = old.pending /\ row.verified = old.verified
  BY <1>3, <1>4, <1>5 DEF User
<1> QED BY <1>1, <1>6

\* update_user: role and scopes from the row read before, the address without its verification.
LEMMA UpdateCommitInv ==
    ASSUME Inv, NEW c \in Clients, UpdateCommit(c)
    PROVE  Inv'
<1>1. At(c, "ucommit") /\ Job(c) \in CommitStmt /\ Sound(c, Job(c)) /\ Job(c).j = "ucommit" /\ UNCHANGED <<tokens, invites, last, uses, origin, withdrawn, env>>
  BY JobIs, StmtIs DEF UpdateCommit, Inv
<1>2. PICK x \in CommitStmt : x = Job(c)
  BY <1>1
<1>3. PICK u \in UserIds : u = x.u
  BY DEF CommitStmt
<1>4. CASE users[u] = None \/ (x.e # None /\ ~ Free(x.e, u))
  <2>1. Stop(c) /\ UNCHANGED <<users, proven>> BY <1>2, <1>3, <1>4 DEF UpdateCommit
  <2>2. UNCHANGED <<db, env, hist>> BY <1>1, <2>1 DEF db, hist
  <2> QED BY <1>1, <2>1, <2>2, GiveUp
<1>5. CASE ~ (users[u] = None \/ (x.e # None /\ ~ Free(x.e, u)))
  <2>1. Tables /\ users[u] # None /\ users \in [UserIds -> User \cup {None}]
    BY <1>5 DEF Inv, Tables, TablesTyped, TypeOK
  <2>2. PICK old \in User : old = users[u] BY <2>1, RowsAre
  <2>3. PICK row : row = Edited(old, x) OBVIOUS
  <2>4. /\ users' = [users EXCEPT ![u] = row] /\ Then(c, <<>>)
        /\ proven' = IF x.e # None /\ old.verified THEN proven \cup {<<u, x.e>>} ELSE proven
    BY <1>2, <1>3, <1>5, <2>1, <2>2, <2>3 DEF UpdateCommit
  <2>5. /\ row \in User /\ row.email = (IF x.e = None THEN old.email ELSE x.e)
        /\ row.active = (IF x.active = None THEN old.active ELSE x.active)
        /\ row.role = x.to.role /\ row.scopes = x.to.scopes
        /\ row.pending = old.pending /\ row.verified = old.verified
    BY <2>3, EditedIs
  <2>6. /\ x.to.scopes => x.to.role = "operator"
        /\ u = SUPER_ADMIN_USER_ID => x.to.role = "admin" /\ ~ x.to.scopes /\ x.active \in {None, TRUE}
        /\ "update" \in load.ops[c]
    BY <1>1, <1>2, <1>3 DEF Sound
  <2>7. u \in Live /\ last.user >= 1 /\ u <= last.user BY <2>1, LiveIds DEF Live
  <2>8. u = SUPER_ADMIN_USER_ID => row.role = "admin" /\ row.active /\ ~ row.scopes
    BY <2>1, <2>2, <2>5, <2>6, <2>7 DEF Tables, SuperAdminStays
  <2>9. /\ users' \in [UserIds -> User \cup {None}] /\ users'[u] = row /\ row # None
        /\ \A w \in UserIds : w # u => users'[w] = users[w]
        /\ SuperAdminStays' /\ ScopesNeedOperator'
    BY <2>1, <2>4, <2>5, <2>6, <2>7, <2>8, PutRow
  <2>10. UNCHANGED <<tokens, invites, last, uses, origin, withdrawn, load, faults>>
    BY <1>1 DEF env
  <2>11. Evolves
    <3>1. ~ Without("update") BY <2>6 DEF Without
    <3> QED BY <2>1, <2>10, <3>1, LiveIds DEF Evolves
  <2>12. VerifiedWasProven'
    <3>1. VerifiedLose BY <2>1, <2>2, <2>4, <2>5, <2>9 DEF VerifiedLose
    <3> QED BY <2>1, <2>10, <3>1, VerifiedStays DEF Tables
  <2>13. PendingHasLink' /\ LinkInv'
    <3>1. PendingLose BY <2>1, <2>2, <2>5, <2>9 DEF PendingLose
    <3>2. TokensLose BY <2>1, <2>10, TokensSame
    <3> QED BY <2>1, <2>10, <3>1, <3>2, PendingStays, LinksStay DEF Tables
  <2>14. InvitationInv' /\ FirstInv' /\ OneOpenInvitation' BY <2>1, <2>10, InvitesAlone
  <2>15. Ids' BY <2>1, <2>7, <2>9, <2>10, IdsStay
  <2>16. TablesTyped' BY <2>1, <2>9, <2>10 DEF Tables, TablesTyped, TypeOK
  <2>17. Tables' BY <2>9, <2>12, <2>13, <2>14, <2>15, <2>16 DEF Tables
  <2> QED BY <1>1, <2>4, <2>11, <2>17, EndStep
<1> QED BY <1>4, <1>5

\* delete_by_id: links and invitations of the account go with it; the first account stays.
LEMMA DeleteCommitInv ==
    ASSUME Inv, NEW c \in Clients, DeleteCommit(c)
    PROVE  Inv'
<1>1. At(c, "udel") /\ Job(c).u \in UserIds \ {SUPER_ADMIN_USER_ID} /\ UNCHANGED <<last, env, hist>> /\ Then(c, <<>>)
  BY JobIs, StmtIs DEF DeleteCommit, Inv, DeleteStmt
<1>2. PICK u \in UserIds \ {SUPER_ADMIN_USER_ID} : u = Job(c).u
  BY <1>1
<1>3. /\ users' = [users EXCEPT ![u] = None]
      /\ tokens' = [k \in TokIds |-> IF tokens[k] # None /\ tokens[k].user = u THEN None ELSE tokens[k]]
      /\ invites' = [i \in InvIds |-> IF invites[i] # None /\ invites[i].by = u THEN None ELSE invites[i]]
  BY <1>2 DEF DeleteCommit
<1>4. /\ Tables /\ users \in [UserIds -> User \cup {None}] /\ tokens \in [TokIds -> Token \cup {None}]
      /\ invites \in [InvIds -> Invitation \cup {None}] /\ withdrawn \subseteq InvIds
  BY DEF Inv, Tables, TablesTyped, TypeOK
<1>5. UNCHANGED <<last, load, faults, proven, uses, origin, withdrawn>>
  BY <1>1 DEF env, hist
<1>6. users' \in [UserIds -> User \cup {None}] /\ users'[u] = None /\ \A w \in UserIds : w # u => users'[w] = users[w]
  BY <1>3, <1>4
<1>7. TokensLose
  BY <1>3, <1>4 DEF TokensLose
<1>8. InvitesLose
  BY <1>3, <1>4 DEF InvitesLose
<1>9. SuperAdminStays' /\ ScopesNeedOperator'
  <2>1. ScopesNeedOperator' BY <1>4, <1>6 DEF Tables, ScopesNeedOperator, Live
  <2>2. ASSUME Live' # {} PROVE Live # {} /\ SUPER_ADMIN_USER_ID \in UserIds
    <3>1. PICK w \in UserIds : users'[w] # None BY <2>2 DEF Live
    <3>2. users[w] # None BY <1>6, <3>1
    <3>3. MaxUser \in Nat /\ 1 <= MaxUser BY AccountsAssumption DEF UserIds
    <3> QED BY <3>2, <3>3 DEF Live, UserIds, SUPER_ADMIN_USER_ID
  <2>3. ASSUME Live' # {} PROVE users'[SUPER_ADMIN_USER_ID] = users[SUPER_ADMIN_USER_ID]
    BY <1>6, <2>2, <2>3
  <2>4. SuperAdminStays' BY <1>4, <2>2, <2>3 DEF Tables, SuperAdminStays
  <2> QED BY <2>1, <2>4
<1>10. VerifiedWasProven'
  <2>1. VerifiedLose BY <1>5, <1>6 DEF VerifiedLose
  <2> QED BY <1>4, <1>5, <2>1, VerifiedStays DEF Tables
<1>11. PendingHasLink' /\ LinkInv'
  <2>1. PendingLose BY <1>6 DEF PendingLose
  <2> QED BY <1>4, <1>5, <1>7, <2>1, PendingStays, LinksStay DEF Tables
<1>12. InvitationInv' /\ FirstInv' /\ OneOpenInvitation'
  BY <1>4, <1>5, <1>8, InvitationsStay, OpenStays DEF Tables, FirstInv
<1>13. TablesTyped'
  BY <1>4, <1>5, <1>6, <1>7, <1>8 DEF Tables, TablesTyped, TypeOK, TokensLose, InvitesLose
<1>14. Ids'
  <2>1. \A w \in UserIds : users'[w] # None \/ origin[w] # None => w <= last.user
    BY <1>4, <1>6 DEF Tables, Ids
  <2>2. \A i \in InvIds : invites'[i] # None => i <= last.inv /\ last.user >= 1
    BY <1>4, <1>8 DEF Tables, Ids, InvitesLose
  <2>3. ASSUME last.user >= 1 PROVE users'[SUPER_ADMIN_USER_ID] # None
    <3>1. SUPER_ADMIN_USER_ID \in UserIds
      BY <1>4, <2>3, LiveIds, AccountsAssumption DEF UserIds, SUPER_ADMIN_USER_ID
    <3> QED BY <1>4, <1>6, <2>3, <3>1 DEF Tables, Ids
  <2> QED BY <1>5, <2>1, <2>2, <2>3 DEF Ids
<1>15. Evolves
  <2>1. \A w \in UserIds : users[w] # None => users[w].verified \in BOOLEAN
    BY <1>4, RowsAre
  <2>2. last.user \in Nat BY <1>4, LiveIds
  <2> QED BY <1>5, <1>6, <2>1, <2>2 DEF Evolves
<1>16. Tables'
  BY <1>9, <1>10, <1>11, <1>12, <1>13, <1>14 DEF Tables
<1> QED BY <1>1, <1>15, <1>16, EndStep

-----------------------------------------------------------------------------
(* Time, cleanup and failures                                              *)

\* The requests go on as they were when no invitation becomes pending and the accounts stay.
LEMMA OutsideStep ==
    ASSUME Inv, Tables', InvitesLose, UNCHANGED <<users, last, load, todo>>
    PROVE  Inv'
<1>1. JobsTyped' /\ Serial'
  BY DEF Inv, JobsTyped, Serial, List
<1>2. ASSUME NEW c \in Clients, NEW x, Sound(c, x) PROVE Sound(c, x)'
  <2>1. \A i \in InvIds : Pending(i)' => Pending(i) /\ invites'[i].email = invites[i].email
    BY InvitesLosePending
  <2>2. Without("update")' <=> Without("update") BY DEF Without
  <2>3. x.j = "icommit" /\ load.serial => \A i \in InvIds : Pending(i)' /\ invites'[i].email = x.e => i \in x.old
    BY <1>2, <2>1 DEF Sound
  <2> QED BY <1>2, <2>2, <2>3 DEF Sound
<1>3. SoundJobs'
  <2> SUFFICES ASSUME NEW d \in Clients, NEW n \in 1..Len(todo'[d]) PROVE Sound(d, todo[d][n])'
    BY DEF SoundJobs
  <2>1. PICK x : x = todo[d][n] OBVIOUS
  <2>2. Sound(d, x) BY <2>1 DEF Inv, SoundJobs
  <2>3. Sound(d, x)' BY <1>2, <2>2
  <2> QED BY <2>1, <2>3
<1> QED BY <1>1, <1>3 DEF Inv

\* Links grow old or are cleaned up.
LEMMA LinksGo ==
    ASSUME Inv, TokensLose, UNCHANGED <<users, invites, last, todo, env, hist>>
    PROVE  Inv'
<1>1. Tables
  BY DEF Inv
<1>2. UNCHANGED <<users, invites, last, todo, load, faults, proven, uses, origin, withdrawn>>
  BY DEF env, hist
<1>3. SuperAdminStays' /\ ScopesNeedOperator' /\ VerifiedWasProven' /\ PendingLose
  BY <1>1, <1>2, UsersAlone
<1>4. InvitationInv' /\ FirstInv' /\ OneOpenInvitation'
  BY <1>1, <1>2, InvitesAlone
<1>5. PendingHasLink' /\ LinkInv'
  BY <1>1, <1>2, <1>3, PendingStays, LinksStay DEF Tables
<1>6. TablesTyped' /\ Ids'
  BY <1>1, <1>2 DEF Tables, TablesTyped, TypeOK, TokensLose, Ids
<1>7. Tables' /\ InvitesLose
  BY <1>1, <1>2, <1>3, <1>4, <1>5, <1>6, InvitesSame DEF Tables
<1> QED BY <1>2, <1>7, OutsideStep

\* The cooldown of a link, then its lifetime, passes.
LEMMA AgeTokenInv ==
    ASSUME Inv, AgeToken
    PROVE  Inv'
<1>1. PICK k \in LiveTokens :
        /\ tokens' = [tokens EXCEPT ![k].age = IF @ = "fresh" THEN "old" ELSE "expired"]
        /\ UNCHANGED <<users, invites, last, todo, env, hist>>
  BY DEF AgeToken
<1>2. k \in TokIds /\ tokens[k] # None /\ Tables /\ tokens \in [TokIds -> Token \cup {None}]
  BY DEF LiveTokens, Inv, Tables, TablesTyped, TypeOK
<1>3. PICK old \in Token : old = tokens[k]
  BY <1>2, RowsAre
<1>4. PICK age \in Ages : age = IF old.age = "fresh" THEN "old" ELSE "expired"
  BY DEF Ages
<1>5. PICK new : new = [old EXCEPT !.age = age] OBVIOUS
<1>6. new \in Token /\ new.user = old.user /\ new.purpose = old.purpose /\ new.target = old.target /\ new.used = old.used
  BY <1>5 DEF Token
<1>7. tokens' = [tokens EXCEPT ![k] = new]
  BY <1>1, <1>2, <1>3, <1>4, <1>5
<1>8. tokens' \in [TokIds -> Token \cup {None}] /\ tokens'[k] = new /\ \A n \in TokIds : n # k => tokens'[n] = tokens[n]
  BY <1>2, <1>6, <1>7
<1>9. TokensLose
  BY <1>2, <1>3, <1>6, <1>8 DEF TokensLose
<1> QED BY <1>1, <1>9, LinksGo

\* cleanup_expired_contact_verification_tokens.
LEMMA CleanupTokensInv ==
    ASSUME Inv, CleanupTokens
    PROVE  Inv'
<1>1. tokens \in [TokIds -> Token \cup {None}]
  BY DEF Inv, Tables, TablesTyped, TypeOK
<1>2. TokensLose
  BY <1>1 DEF CleanupTokens, TokensLose
<1> QED BY <1>2, LinksGo DEF CleanupTokens

\* The lifetime of an invitation passes.
LEMMA ExpireInvitationInv ==
    ASSUME Inv, ExpireInvitation
    PROVE  Inv'
<1>1. PICK i \in LiveInvites :
        invites' = [invites EXCEPT ![i].over = TRUE] /\ UNCHANGED <<users, tokens, last, todo, env, hist>>
  BY DEF ExpireInvitation
<1>2. i \in InvIds /\ invites[i] # None /\ Tables /\ invites \in [InvIds -> Invitation \cup {None}]
  BY DEF LiveInvites, Inv, Tables, TablesTyped, TypeOK
<1>3. PICK old \in Invitation : old = invites[i]
  BY <1>2, RowsAre
<1>4. PICK new : new = [old EXCEPT !.over = TRUE] OBVIOUS
<1>5. new \in Invitation /\ new.email = old.email /\ new.status = old.status
  BY <1>4 DEF Invitation
<1>6. invites' = [invites EXCEPT ![i] = new]
  BY <1>1, <1>2, <1>3, <1>4
<1>7. invites' \in [InvIds -> Invitation \cup {None}] /\ invites'[i] = new /\ \A n \in InvIds : n # i => invites'[n] = invites[n]
  BY <1>2, <1>5, <1>6
<1>8. InvitesLose
  BY <1>2, <1>3, <1>5, <1>7 DEF InvitesLose
<1>9. UNCHANGED <<users, tokens, last, todo, load, faults, proven, uses, origin, withdrawn>>
  BY <1>1 DEF env, hist
<1>10. Tables'
  BY <1>2, <1>8, <1>9, InvitesClose
<1> QED BY <1>8, <1>9, <1>10, OutsideStep

\* A failing statement or a crash.
LEMMA LoseInv ==
    ASSUME Inv, NEW c \in Clients, Lose(c)
    PROVE  Inv'
<1>1. /\ todo[c] # <<>> /\ faults > 0 /\ faults' = faults - 1 /\ Sets(c, <<>>) /\ UNCHANGED <<db, load, hist>>
  BY DEF Lose, Stop, Sets
<1>2. Tables /\ faults \in Nat
  BY DEF Inv, Tables, TablesTyped, TypeOK
<1>3. faults' \in Nat
  BY <1>1, <1>2
<1>4. Tables'
  BY <1>1, <1>2, <1>3, TablesStay
<1>5. UNCHANGED <<users, load, proven, last>>
  BY <1>1 DEF db, hist
<1>6. Evolves
  BY <1>2, <1>5, UsersAlone
<1> QED BY <1>1, <1>4, <1>6, JobsEnd DEF Inv

-----------------------------------------------------------------------------
(* The theorems                                                            *)

\* The program starts with right tables and no requests.
LEMMA InitInv ==
    ASSUME Init
    PROVE  Inv
<1>1. /\ load \in Workloads /\ tokens = [k \in TokIds |-> None] /\ invites = [i \in InvIds |-> None]
      /\ users = [u \in UserIds |-> IF u \in DOMAIN load.users THEN load.users[u] ELSE None]
      /\ last = [user |-> Len(load.users), tok |-> 0, inv |-> 0]
      /\ todo = [c \in Clients |-> <<>>] /\ faults = load.faults
      /\ proven = {<<u, load.users[u].email>> : u \in DOMAIN load.users}
      /\ uses = [k \in TokIds |-> 0] /\ origin = [u \in UserIds |-> None] /\ withdrawn = {}
  BY DEF Init
<1>2. /\ load.faults \in Nat /\ load.users \in Seq(User) /\ load.max.user \in UserIds /\ Len(load.users) <= load.max.user
      /\ \A u \in 1..Len(load.users) :
            /\ load.users[u].scopes => load.users[u].role = "operator"
            /\ u = SUPER_ADMIN_USER_ID => load.users[u].role = "admin" /\ load.users[u].active
  BY <1>1, LoadIs
<1>3. PICK n : n = Len(load.users) OBVIOUS
<1>4. n \in Nat /\ n <= MaxUser /\ MaxUser \in Nat /\ DOMAIN load.users = 1..n
  BY <1>2, <1>3, LenProperties, AccountsAssumption DEF UserIds
<1>5. \A u \in 1..n : u \in UserIds /\ load.users[u] \in User /\ users[u] = load.users[u] /\ users[u] # None
  BY <1>1, <1>2, <1>3, <1>4, ElementOfSeq, NoneIsNone DEF UserIds
<1>6. \A u \in UserIds : u \notin 1..n => users[u] = None
  BY <1>1, <1>4
<1>7. users \in [UserIds -> User \cup {None}]
  BY <1>1, <1>4, <1>5
<1>8. last.user = n /\ last.tok = 0 /\ last.inv = 0 /\ last \in [user : 0..MaxUser, tok : 0..MaxTok, inv : 0..MaxInv]
  <2>1. n \in 0..MaxUser /\ 0 \in 0..MaxTok /\ 0 \in 0..MaxInv BY <1>4, AccountsAssumption
  <2> QED BY <1>1, <1>3, <2>1
<1>9. TablesTyped
  BY <1>1, <1>2, <1>7, <1>8 DEF TablesTyped, TypeOK
<1>10. JobsTyped /\ Serial /\ SoundJobs
  <2>1. \A c \in Clients : todo[c] = <<>> BY <1>1
  <2> QED BY <1>1, <2>1, NoneIsList DEF JobsTyped, Serial, SoundJobs, List
<1>11. Ids
  <2>1. \A u \in UserIds : users[u] # None \/ origin[u] # None => u <= n
    BY <1>1, <1>4, <1>6
  <2>2. n >= 1 => users[SUPER_ADMIN_USER_ID] # None BY <1>4, <1>5 DEF SUPER_ADMIN_USER_ID
  <2> QED BY <1>1, <1>8, <2>1, <2>2 DEF Ids
<1>12. LinkInv /\ InvitationInv /\ FirstInv /\ OneOpenInvitation
  <2>1. LinkInv BY <1>1 DEF LinkInv
  <2>2. None \notin InvIds /\ None # First BY NoneIsNone DEF InvIds, First
  <2>3. InvitationInv /\ FirstInv BY <1>1, <2>2 DEF InvitationInv, FirstInv
  <2> QED BY <1>1, <2>1, <2>3 DEF OneOpenInvitation, LiveInvites
<1>13. SuperAdminStays
  <2> SUFFICES ASSUME Live # {} PROVE /\ users[1] # None /\ users[1].role = "admin" /\ users[1].active /\ ~ users[1].scopes
    BY DEF SuperAdminStays, SUPER_ADMIN_USER_ID
  <2>1. 1 \in 1..n BY <1>4, <1>6 DEF Live
  <2> QED BY <1>2, <1>3, <1>5, <2>1 DEF SUPER_ADMIN_USER_ID
<1>14. ScopesNeedOperator
  BY <1>2, <1>3, <1>5, <1>6 DEF ScopesNeedOperator, Live
<1>15. VerifiedWasProven
  <2>1. \A u \in 1..n : <<u, load.users[u].email>> \in proven BY <1>1, <1>4
  <2> QED BY <1>5, <1>6, <2>1 DEF VerifiedWasProven, Live
<1>16. PendingHasLink
  BY <1>1 DEF PendingHasLink, ActiveTokens, LiveTokens
<1> QED BY <1>9, <1>10, <1>11, <1>12, <1>13, <1>14, <1>15, <1>16 DEF Inv, Tables

\* Every step keeps the invariant.
LEMMA NextInv ==
    ASSUME Inv, [Next]_vars
    PROVE  Inv'
<1>1. ASSUME NEW c \in Clients, Request(c) PROVE Inv'
  BY <1>1, RequestInv
<1>2. ASSUME NEW c \in Clients, Work(c) PROVE Inv'
  BY <1>2, CountForSetupInv, CountForRegisterInv, InsertUserInv, CreateCommitInv, CheckAvailableInv,
     RegisterCommitInv, ReadForActivationInv, ReadForResetInv, ReadForChangeInv, ReadForResendInv,
     ChangeCommitInv, IssueTokenInv, ReadRecordInv, ReadForLinkInv, LinkCommitInv, ReadForNewPasswordInv,
     PasswordCommitInv, ReadForInvitationInv, InvitationCommitInv, RefreshExpiredInv, MarkRevokedInv,
     ReadForAcceptInv, AcceptCommitInv, ReadForUpdateInv, UpdateCommitInv, DeleteCommitInv
  DEF Work
<1>3. ASSUME NEW c \in Clients, Lose(c) PROVE Inv'
  BY <1>3, LoseInv
<1>4. CASE AgeToken \/ ExpireInvitation \/ CleanupTokens
  BY <1>4, AgeTokenInv, ExpireInvitationInv, CleanupTokensInv
<1>5. CASE UNCHANGED vars
  <2>1. UNCHANGED <<users, last, load, todo>> /\ UNCHANGED <<db, load, hist>> /\ faults' = faults /\ invites' = invites
    BY <1>5 DEF vars, db, hist
  <2>2. Tables /\ faults \in Nat BY DEF Inv, Tables, TablesTyped, TypeOK
  <2>3. Tables' /\ InvitesLose BY <2>1, <2>2, TablesStay, InvitesSame
  <2> QED BY <2>1, <2>3, OutsideStep
<1> QED BY <1>1, <1>2, <1>3, <1>4, <1>5 DEF Next

\* The invariant holds in every state the program reaches.
THEOREM InvHolds == Spec => []Inv
<1>1. Init => Inv
  BY InitInv
<1>2. Inv /\ [Next]_vars => Inv'
  BY NextInv
<1> QED BY <1>1, <1>2, PTL DEF Spec

\* A finite set without two different members has at most one.
LEMMA AtMostOne ==
    ASSUME NEW S, IsFiniteSet(S), \A x, y \in S : x = y
    PROVE  Cardinality(S) <= 1
<1>1. CASE S = {}
  BY <1>1, FS_EmptySet
<1>2. CASE S # {}
  <2>1. PICK x : x \in S BY <1>2
  <2>2. S = {x} BY <2>1
  <2>3. Cardinality({x}) = 1 BY FS_Singleton
  <2> QED BY <2>2, <2>3
<1> QED BY <1>1, <1>2

\* The accounts of one origin.
MadeBy(from) == {u \in UserIds : origin[u] = from}

\* They are finitely many.
LEMMA MadeByFinite == ASSUME NEW from PROVE IsFiniteSet(MadeBy(from))
<1>1. IsFiniteSet(UserIds)
  BY FS_Interval, AccountsAssumption DEF UserIds
<1>2. MadeBy(from) \subseteq UserIds
  BY DEF MadeBy
<1> QED BY <1>1, <1>2, FS_Subset

\* A mailed link is redeemed at most once and an invitation makes at most one account, none once its
\* revocation was answered, whatever requests overlap; with one request at a time an address has at most
\* one open invitation (mark_consumed_if_unused, mark_accepted_if_pending, mark_revoked_if_pending,
\* create_invitation).
THEOREM LinksAndInvitationsAreSpentOnce == Spec => []SpentOnce
<1>1. Inv => SpentOnce
  <2> SUFFICES ASSUME Inv PROVE SpentOnce
    OBVIOUS
  <2>1. LinkUsedOnce /\ OneOpenInvitation BY DEF Inv, Tables, LinkInv, LinkUsedOnce
  <2>2. ASSUME NEW i \in InvIds PROVE Cardinality(MadeBy(i)) <= 1 /\ (i \in withdrawn => MadeBy(i) = {})
    <3>1. \A u, w \in MadeBy(i) : u = w BY <2>2 DEF MadeBy, Inv, Tables, InvitationInv
    <3>2. Cardinality(MadeBy(i)) <= 1 BY <3>1, MadeByFinite, AtMostOne
    <3> QED BY <2>2, <3>2 DEF MadeBy, Inv, Tables, InvitationInv
  <2>3. InvitationOnce BY <2>2 DEF InvitationOnce, MadeBy
  <2> QED BY <2>1, <2>3 DEF SpentOnce
<1> QED BY <1>1, InvHolds, PTL

\* A verified address was proven for its account, however many changes were requested, confirmed late or
\* abandoned, as long as no administrator edits the account between the statements of another request; the
\* unused links of an account that waits for an address are for that address
\* (confirm_contact_verification, request_email_change).
THEOREM VerifiedAddressesAreProven == Spec => []AddressProven
<1>1. Inv => AddressProven
  BY DEF Inv, Tables, AddressProven
<1> QED BY <1>1, InvHolds, PTL

\* The super administrator stays one, only operators hold scopes, and one account is made administrator by
\* being the first, whichever edits overlap (update_user, create_user, setup_first_admin, register).
THEOREM RolesAndScopesAgree == Spec => []AccountsConsistent
<1>1. Inv => AccountsConsistent
  <2> SUFFICES ASSUME Inv PROVE AccountsConsistent
    OBVIOUS
  <2>1. ASSUME load.serial PROVE Cardinality(MadeBy(First)) <= 1
    <3>1. \A u, w \in MadeBy(First) : u = w BY <2>1 DEF MadeBy, Inv, Tables, FirstInv
    <3> QED BY <3>1, MadeByFinite, AtMostOne
  <2>2. OneFirstAdmin BY <2>1 DEF OneFirstAdmin, MadeBy
  <2> QED BY <2>2 DEF AccountsConsistent, Inv, Tables, TablesTyped
<1> QED BY <1>1, InvHolds, PTL
==============================================================================
