---------------------------- MODULE YggJoin_proofs ----------------------------
(***************************************************************************)
(* Proofs about YggJoin, for any number of users, profiles, bans, servers, *)
(* upstreams and requests and every workload: the local check of hasJoined *)
(* lets in nobody who is gone or banned, Mojang's word nobody who is not   *)
(* bound, and a question of which no statement fails finds whoever has     *)
(* joined; the events of a ban tell the ban; profile and login names are   *)
(* own but for the names two requests took at once, and limits and caches  *)
(* agree with the tables.                                                  *)
(***************************************************************************)
EXTENDS YggJoin, SequenceTheorems, FiniteSetTheorems, TLAPS

-----------------------------------------------------------------------------
(* Statements: what a request carries, by the point it has reached         *)

Query == [name : Names, s : Servers, ip : Ips \cup {None}]
Upstream == [id : FwdIds, kind : {"local", "authlib", "mojang"}, prio : 0..2]
Wish == [user : Users, scopes : SUBSET Scopes, later : 0..1, end : 0..Forever]
Edit == [field : {"on", "prio", "url", "kind"}, val : 0..2]
Who == [via : {"none", "local", "authlib", "mojang"}, id : ProfileIds \cup Official \cup {None}]

IssueStmt == [j : {"issue"}, p : ProfileIds]
JoinStmt == [j : {"token", "jban", "jprofile"}, p : ProfileIds, r : ProfileIds, s : Servers, ip : Ips]
SetStmt == [j : {"jset"}, s : Servers, e : Entry]
AskStmt == [j : {"list", "lread"}, q : Query]
ListStmt == [j : {"lfill"}, q : Query, l : SUBSET Upstream]
NextStmt == [j : {"next", "lget"}, q : Query, all : SUBSET Upstream, rest : SUBSET Upstream, f : FwdIds \cup {None}]
CallStmt == [j : {"call"}, q : Query, all : SUBSET Upstream, rest : SUBSET Upstream, f : FwdIds]
PlayerStmt == [j : {"lprofile"}, q : Query, all : SUBSET Upstream, rest : SUBSET Upstream, f : FwdIds \cup {None}, p : ProfileIds]
OwnerStmt == [j : {"lban"}, q : Query, all : SUBSET Upstream, rest : SUBSET Upstream, f : FwdIds \cup {None}, p : ProfileIds, u : Users]
BoundStmt == [j : {"bound"}, q : Query, all : SUBSET Upstream, rest : SUBSET Upstream, f : FwdIds, m : Official]
AnswerStmt == [j : {"answer"}, q : Query, all : SUBSET Upstream, who : Who]
WishStmt == [j : {"bcheck"}, r : Wish]
BanStmt == [j : {"bcreate"}, r : Ban]
RebanStmt == [j : {"bread"}, b : BanIds, r : Wish]
UpdateStmt == [j : {"bupdate"}, b : BanIds, old : Ban, scopes : SUBSET Scopes, start : 0..Forever, end : 0..Forever]
UnbanStmt == [j : {"rread"}, b : BanIds]
RevokeStmt == [j : {"revoke"}, b : BanIds, old : Ban]
FwdStmt == [j : {"fcheck", "finsert"}, r : Fwd]
EditStmt == [j : {"fread", "fupdate"}, f : FwdIds, e : Edit]
FwdIdStmt == [j : {"ffind", "fdelete"}, f : FwdIds]
FlushStmt == [j : {"flush"}]
AutoStmt == [j : {"auto"}, u : Users, names : Seq(Names) \ {<<>>}]
CreateStmt == [j : {"cban", "ccount", "ctaken", "cinsert"}, u : Users, n : Names, m : Official \cup {None}]
RenameStmt == [j : {"nban", "nread"}, p : ProfileIds, n : Names]
RenamedStmt == [j : {"ntaken", "ncommit"}, p : ProfileIds, n : Names, old : Profile]
NameStmt == [j : {"drop", "look"}, n : Names]
DeleteStmt == [j : {"dread", "drevoke", "drow"}, p : ProfileIds]
FillStmt == [j : {"fill"}, p : ProfileIds, n : Names]
CheckStmt == [j : {"ucheck"}, u : Users \cup {None}, n : Names]
InsertStmt == [j : {"uinsert"}, u : {None}, n : Names]
LoginStmt == [j : {"uupdate"}, u : Users, n : Names]

Stmt ==
    IssueStmt \cup JoinStmt \cup SetStmt \cup AskStmt \cup ListStmt \cup NextStmt \cup CallStmt \cup PlayerStmt
    \cup OwnerStmt \cup BoundStmt \cup AnswerStmt \cup WishStmt \cup BanStmt \cup RebanStmt \cup UpdateStmt
    \cup UnbanStmt \cup RevokeStmt \cup FwdStmt \cup EditStmt \cup FwdIdStmt \cup FlushStmt \cup AutoStmt
    \cup CreateStmt \cup RenameStmt \cup RenamedStmt \cup NameStmt \cup DeleteStmt \cup FillStmt
    \cup CheckStmt \cup InsertStmt \cup LoginStmt

\* A request has one statement to make, or the two that end a rename or a deletion.
List(s) ==
    /\ s \in Seq(Stmt) /\ Len(s) <= 2
    /\ Len(s) = 2 => (s[1].j = "drop" /\ s[2].j = "drop") \/ (s[1].j = "drevoke" /\ s[2].j = "drow")

-----------------------------------------------------------------------------
(* The inductive invariant                                                 *)

\* The types.
JobsTyped == todo \in [Clients -> Seq(Stmt)] /\ \A c \in Clients : List(todo[c])
Typed ==
    /\ TypeOK /\ log \in [BanIds -> Seq(Event)] /\ list \in (SUBSET Upstream) \cup {None}
    /\ last \in [profile : 0..MaxProfile, ban : 0..MaxBan, fwd : 0..MaxFwd]
    /\ load \in Workloads /\ faults <= load.faults

\* With one request at a time, one client has statements to make.
Serial == load.serial => \A c, d \in Clients : todo[c] # <<>> /\ todo[d] # <<>> => c = d

\* Rows have ids that were handed out.
Ids ==
    /\ \A p \in ProfileIds : profile[p] # None => p <= last.profile
    /\ \A b \in BanIds : ban[b] # None => b <= last.ban
    /\ \A n \in Names : summary[n] # None => summary[n] <= last.profile

\* No login name of another user than u is n, and no profile of another user bears it, or two
\* requests had both found it free.
OwnName(n, u) == Norm[n] \in raced \/ LoginsNamed(n) \subseteq {u}
OwnProfiles(n, u) == Norm[n] \in raced \/ \A p \in Named(n) : profile[p].owner = u
\* The name that a statement takes is free, or such a name.
Owns(x) ==
    /\ x.j = "cinsert" => OwnName(x.n, x.u)
    /\ x.j = "ncommit" => OwnName(x.n, x.old.owner)
    /\ x.j \in {"uinsert", "uupdate"} => OwnName(x.n, x.u) /\ OwnProfiles(x.n, x.u)

\* A statement is right for what was read before it.
Sound(x) ==
    /\ Owns(x)
    /\ x.j = "lban" => x.p <= last.profile /\ (profile[x.p] # None => profile[x.p].owner = x.u)
    /\ x.j = "answer" /\ x.who.via = "local" => x.who.id \in ProfileIds /\ x.who.id <= last.profile
    /\ x.j \in {"bupdate", "revoke"} => ban[x.b] # None /\ (load.serial => ban[x.b] = x.old)
    /\ x.j = "lfill" /\ load.serial => x.l = Enabled
    /\ x.j \in {"ctaken", "cinsert"} /\ load.serial => Count(x.u) < MaxProfiles
    /\ x.j \in {"ntaken", "ncommit"} =>
          /\ x.p <= last.profile /\ (profile[x.p] # None => profile[x.p].owner = x.old.owner)
          /\ load.serial => profile[x.p] = x.old /\ x.old.renames < MaxRenames
    /\ x.j = "fill" => /\ x.p <= last.profile
                       /\ load.serial /\ profile[x.p] # None => Norm[profile[x.p].name] = Norm[x.n]
SoundJobs == \A c \in Clients : \A n \in 1..Len(todo[c]) : Sound(todo[c][n])

\* What is cached is right unless the request that made it wrong has yet to say so.
Clean == list # None => list = Enabled
Right(n) == summary[n] # None /\ summary[n] \in Live => Norm[profile[summary[n]].name] = n
Drops(c, n) == \E k \in 1..Len(todo[c]) : todo[c][k].j = "drop" /\ Norm[todo[c][k].n] = n
CacheInv == load.serial /\ faults = load.faults =>
    /\ Clean \/ \E c \in Clients : At(c, "flush")
    /\ \A n \in Names : Right(n) \/ \E c \in Clients : Drops(c, n)

\* What the history says of a question, by the point it has reached.
HasLocal(s) == \E r \in s : r.kind = "local"
Answering(c, x) ==
    /\ x.j = "lban" => <<"gone", x.p>> \notin shut[c]
    /\ x.j = "answer" /\ x.who.via = "local" =>
          /\ <<"gone", x.who.id>> \notin shut[c]
          /\ profile[x.who.id] # None => <<"banned", profile[x.who.id].owner>> \notin shut[c]
    /\ x.j = "answer" /\ x.who.via = "mojang" => <<"unbound", x.who.id>> \notin shut[c]
Finding(c, x) == sure[c] # None =>
    /\ x.j \in {"next", "call", "bound"} => x.all # {} /\ (HasLocal(x.all) => HasLocal(x.rest))
    /\ x.j \in {"lprofile", "lban"} => x.p = sure[c]
    /\ x.j = "answer" /\ x.who = Nobody => x.all # {} /\ ~ HasLocal(x.all)
HistoryInv ==
    /\ shut \in [Clients -> SUBSET StayOut] /\ DOMAIN sure = Clients
    /\ \A c \in Clients : sure[c] # None => todo[c] # <<>> /\ Player(Job(c).q) = sure[c]
    /\ \A c \in Clients : todo[c] # <<>> => Answering(c, Job(c)) /\ Finding(c, Job(c))

\* The tables, then the requests, the caches and the history.
Tables == Typed /\ Ids /\ LogTellsBan /\ NamesAreOwn /\ WithinQuota
Jobs == JobsTyped /\ Serial /\ SoundJobs /\ Contested \subseteq raced
Inv == Tables /\ Jobs /\ CacheInv /\ HistoryInv

-----------------------------------------------------------------------------
(* Lists of statements                                                     *)

\* The request goes on with these statements.
Sets(c, s) == todo' = [todo EXCEPT ![c] = s]

\* A statement's kind tells what it carries.
LEMMA StmtIs ==
    ASSUME NEW x \in Stmt
    PROVE  /\ x.j = "issue" => x \in IssueStmt
           /\ x.j \in {"token", "jban", "jprofile"} => x \in JoinStmt
           /\ x.j = "jset" => x \in SetStmt
           /\ x.j \in {"list", "lread"} => x \in AskStmt
           /\ x.j = "lfill" => x \in ListStmt
           /\ x.j \in {"next", "lget"} => x \in NextStmt
           /\ x.j = "call" => x \in CallStmt
           /\ x.j = "lprofile" => x \in PlayerStmt
           /\ x.j = "lban" => x \in OwnerStmt
           /\ x.j = "bound" => x \in BoundStmt
           /\ x.j = "answer" => x \in AnswerStmt
           /\ x.j = "bcheck" => x \in WishStmt
           /\ x.j = "bcreate" => x \in BanStmt
           /\ x.j = "bread" => x \in RebanStmt
           /\ x.j = "bupdate" => x \in UpdateStmt
           /\ x.j = "rread" => x \in UnbanStmt
           /\ x.j = "revoke" => x \in RevokeStmt
           /\ x.j \in {"fcheck", "finsert"} => x \in FwdStmt
           /\ x.j \in {"fread", "fupdate"} => x \in EditStmt
           /\ x.j \in {"ffind", "fdelete"} => x \in FwdIdStmt
           /\ x.j = "auto" => x \in AutoStmt
           /\ x.j \in {"cban", "ccount", "ctaken", "cinsert"} => x \in CreateStmt
           /\ x.j \in {"nban", "nread"} => x \in RenameStmt
           /\ x.j \in {"ntaken", "ncommit"} => x \in RenamedStmt
           /\ x.j \in {"drop", "look"} => x \in NameStmt
           /\ x.j \in {"dread", "drevoke", "drow"} => x \in DeleteStmt
           /\ x.j = "fill" => x \in FillStmt
           /\ x.j = "ucheck" => x \in CheckStmt
           /\ x.j = "uinsert" => x \in InsertStmt
           /\ x.j = "uupdate" => x \in LoginStmt
  BY DEF Stmt, IssueStmt, JoinStmt, SetStmt, AskStmt, ListStmt, NextStmt, CallStmt, PlayerStmt, OwnerStmt,
         BoundStmt, AnswerStmt, WishStmt, BanStmt, RebanStmt, UpdateStmt, UnbanStmt, RevokeStmt, FwdStmt,
         EditStmt, FwdIdStmt, FlushStmt, AutoStmt, CreateStmt, RenameStmt, RenamedStmt,
         NameStmt, DeleteStmt, FillStmt, CheckStmt, InsertStmt, LoginStmt

\* No statement to make is a list.
LEMMA NoneIsList == List(<<>>) /\ Len(<<>>) = 0
  BY DEF List

\* One statement is a list.
LEMMA OneIsList == ASSUME NEW x \in Stmt PROVE List(<<x>>) /\ Len(<<x>>) = 1 /\ <<x>>[1] = x /\ <<x>> # <<>> /\ Head(<<x>>) = x
  BY DEF List

\* The two statements that end a rename or a deletion are a list.
LEMMA TwoIsList ==
    ASSUME NEW x \in Stmt, NEW y \in Stmt, (x.j = "drop" /\ y.j = "drop") \/ (x.j = "drevoke" /\ y.j = "drow")
    PROVE  /\ List(<<x, y>>) /\ Len(<<x, y>>) = 2 /\ <<x, y>>[1] = x /\ <<x, y>>[2] = y
           /\ <<x, y>> # <<>> /\ Head(<<x, y>>) = x
  BY DEF List

\* The first statement of a list, and what is left after it.
LEMMA ListTail ==
    ASSUME NEW s, List(s), s # <<>>
    PROVE  /\ s[1] \in Stmt /\ Head(s) = s[1] /\ 1 \in 1..Len(s) /\ List(Tail(s)) /\ Len(s) \in {1, 2}
           /\ s[1].j \notin {"drop", "drevoke"} => Tail(s) = <<>> /\ Len(s) = 1
           /\ Tail(s) # <<>> => /\ Len(Tail(s)) = 1 /\ 2 \in 1..Len(s) /\ Len(s) = 2 /\ Tail(s)[1] = s[2]
                                /\ s[2].j = (IF s[1].j = "drop" THEN "drop" ELSE "drow") /\ Head(Tail(s)) = s[2] /\ s[2] \in Stmt
           /\ Tail(s) = <<>> => Len(s) = 1
<1>1. s \in Seq(Stmt) /\ Len(s) \in Nat /\ Len(s) >= 1 /\ Len(s) <= 2
  BY EmptySeq, LenProperties DEF List
<1>2. /\ Head(s) = s[1] /\ Tail(s) \in Seq(Stmt) /\ Len(Tail(s)) = Len(s) - 1
      /\ \A n \in 1..Len(Tail(s)) : Tail(s)[n] = s[n + 1]
  BY <1>1, HeadTailProperties
<1>3. s[1] \in Stmt /\ 1 \in 1..Len(s)
  BY <1>1, ElementOfSeq
<1>4. Tail(s) # <<>> => Len(Tail(s)) = 1 /\ Len(s) = 2
  BY <1>1, <1>2, EmptySeq
<1>5. List(Tail(s))
  BY <1>1, <1>2 DEF List
<1>6. Tail(s) # <<>> => Head(Tail(s)) = Tail(s)[1] /\ Tail(s)[1] = s[2] /\ s[2] \in Stmt
  <2>1. SUFFICES ASSUME Tail(s) # <<>> PROVE Head(Tail(s)) = Tail(s)[1] /\ Tail(s)[1] = s[2] /\ s[2] \in Stmt
    OBVIOUS
  <2>2. Head(Tail(s)) = Tail(s)[1] BY <1>2, <2>1, HeadTailProperties
  <2>3. 1 \in 1..Len(Tail(s)) /\ 2 \in 1..Len(s) BY <1>4, <2>1
  <2> QED BY <1>1, <1>2, <2>2, <2>3, ElementOfSeq
<1>7. Tail(s) = <<>> => Len(s) = 1
  BY <1>1, <1>2
<1> QED BY <1>1, <1>2, <1>3, <1>4, <1>5, <1>6, <1>7 DEF List

\* A request with one statement replaces it with what Then gives.
LEMMA ThenAlone ==
    ASSUME NEW c \in Clients, List(todo[c]), todo[c] # <<>>, Head(todo[c]).j \notin {"drop", "drevoke"},
           NEW s, List(s), Then(c, s)
    PROVE  Sets(c, s)
<1>1. Tail(todo[c]) = <<>>
  BY ListTail
<1>2. s \o <<>> = s
  BY ConcatEmptySeq DEF List
<1> QED BY <1>1, <1>2 DEF Then, Sets

\* The first of two statements leaves the second.
LEMMA ThenRest ==
    ASSUME NEW c \in Clients, List(todo[c]), todo[c] # <<>>, Then(c, <<>>)
    PROVE  Sets(c, Tail(todo[c]))
<1>1. List(Tail(todo[c]))
  BY ListTail
<1>2. <<>> \o Tail(todo[c]) = Tail(todo[c])
  BY <1>1, ConcatEmptySeq DEF List
<1> QED BY <1>2 DEF Then, Sets

\* Go: with statements, or not at all.
LEMMA GoAlone ==
    ASSUME NEW c \in Clients, List(todo[c]), todo[c] # <<>>, Head(todo[c]).j \notin {"drop", "drevoke"},
           NEW s, NEW ok, ok => List(s), Go(c, ok, s)
    PROVE  (ok /\ Sets(c, s)) \/ (~ ok /\ Sets(c, <<>>))
<1>1. ok /\ Then(c, s) => Sets(c, s)
  BY ThenAlone
<1>2. Stop(c) => Sets(c, <<>>)
  BY DEF Stop, Sets
<1> QED BY <1>1, <1>2 DEF Go

\* What stays when a request changes its list.
LEMMA SetsTodo ==
    ASSUME JobsTyped, NEW c \in Clients, NEW s, List(s), Sets(c, s)
    PROVE  /\ JobsTyped' /\ todo'[c] = s /\ \A d \in Clients : d # c => todo'[d] = todo[d]
<1>1. todo'[c] = s /\ \A d \in Clients : d # c => todo'[d] = todo[d]
  BY DEF JobsTyped, Sets
<1>2. todo' \in [Clients -> Seq(Stmt)]
  BY DEF JobsTyped, Sets, List
<1>3. \A d \in Clients : List(todo'[d])
  BY <1>1 DEF JobsTyped
<1>4. \A d \in Clients : List(todo'[d]) <=> List(todo[d])'
  BY DEF List
<1> QED BY <1>1, <1>2, <1>3, <1>4 DEF JobsTyped

\* A client that is at work, or starts, is the only one when requests come one by one.
LEMMA SetsSerial ==
    ASSUME JobsTyped, Serial, NEW c \in Clients, NEW s, List(s), Sets(c, s), load' = load,
           todo[c] # <<>> \/ Idle(c)
    PROVE  Serial'
<1>1. todo'[c] = s /\ \A d \in Clients : d # c => todo'[d] = todo[d]
  BY SetsTodo
<1> QED BY <1>1 DEF Serial, Idle

\* The statement at hand.
LEMMA JobIs ==
    ASSUME JobsTyped, SoundJobs, NEW c \in Clients, NEW j, At(c, j)
    PROVE  /\ todo[c] # <<>> /\ List(todo[c]) /\ Job(c) \in Stmt /\ Job(c).j = j /\ Sound(Job(c))
           /\ Head(todo[c]) = Job(c) /\ Job(c) = todo[c][1]
<1>1. todo[c] # <<>> /\ List(todo[c])
  BY DEF At, JobsTyped
<1>2. todo[c][1] \in Stmt /\ Head(todo[c]) = todo[c][1] /\ 1 \in 1..Len(todo[c])
  BY <1>1, ListTail
<1> QED BY <1>1, <1>2 DEF At, Job, SoundJobs
-----------------------------------------------------------------------------
(* What the steps of others leave right                                    *)

\* The statements of s are right.
SoundList(s) == \A n \in 1..Len(s) : Sound(s[n])

\* Ids are not used again, a profile keeps its owner, and a ban stays.
Keeps ==
    /\ last.profile \in Nat /\ last'.profile \in Nat /\ last.profile <= last'.profile
    /\ \A p \in ProfileIds : p <= last.profile /\ profile'[p] # None =>
          profile[p] # None /\ profile'[p].owner = profile[p].owner
\* Client c disturbs no name but the one it has found free.
OnlyClaimed(c) ==
    \A n \in Names : \/ Norm[n] \in Claims(c)
                     \/ /\ LoginsNamed(n)' \subseteq LoginsNamed(n)
                        /\ \A p \in Named(n)' : p \in Named(n) /\ profile'[p].owner = profile[p].owner
Evolves == load' = load /\ Keeps /\ \A b \in BanIds : ban[b] # None => ban'[b] # None

\* The names that two requests had both found free are told of.
LEMMA RacedGrows == Observe => raced \subseteq raced' /\ Contested' \subseteq raced'
  BY DEF Observe

\* The statements that rely on a free name are the last of their requests.
Taking == {"cinsert", "ncommit", "uinsert", "uupdate"}
LEMMA TakingIs ==
    ASSUME NEW d \in Clients, List(todo[d]), NEW n \in 1..Len(todo[d]), todo[d][n].j \in Taking
    PROVE  /\ todo[d] # <<>> /\ Job(d) = todo[d][n] /\ Claims(d) = {Norm[todo[d][n].n]}
           /\ todo[d][n].n \in Names /\ Norm[todo[d][n].n] \in Names
<1>1. todo[d] \in Seq(Stmt) /\ Len(todo[d]) \in Nat /\ Len(todo[d]) <= 2
  BY LenProperties DEF List
<1>2. todo[d] # <<>>
  BY <1>1, EmptySeq
<1>3. n = 1
  <2>1. PICK k : k = Len(todo[d]) OBVIOUS
  <2>2. k # 2
    <3>1. ASSUME k = 2 PROVE FALSE
      <4>1. n = 1 \/ n = 2 BY <2>1, <3>1
      <4> QED BY <2>1, <3>1, <4>1 DEF List, Taking
    <3> QED BY <3>1
  <2>3. k \in Nat /\ k <= 2 /\ n \in 1..k BY <1>1, <2>1
  <2> QED BY <2>2, <2>3
<1>4. Head(todo[d]) = todo[d][n] /\ todo[d][n] \in Stmt
  BY <1>2, <1>3, ListTail
<1>5. todo[d][n].n \in Names
  BY <1>4, StmtIs DEF Taking, CreateStmt, RenamedStmt, InsertStmt, LoginStmt
<1>6. \E j \in {"cinsert", "ncommit", "uinsert", "uupdate"} : At(d, j)
  BY <1>2, <1>4 DEF At, Taking
<1>7. Job(d) = todo[d][n]
  BY <1>4 DEF Job
<1> QED BY <1>2, <1>5, <1>6, <1>7, YggJoinAssumption DEF Claims

\* A name that one request has found free is disturbed by another only if it is told of.
LEMMA OwnsStays ==
    ASSUME Jobs, Observe, NEW c \in Clients, OnlyClaimed(c), NEW d \in Clients, d # c,
           NEW n \in 1..Len(todo[d]), NEW x, x = todo[d][n], Owns(x)
    PROVE  Owns(x)'
<1>0. List(todo[d]) /\ Contested \subseteq raced /\ raced \subseteq raced'
  BY RacedGrows DEF Jobs, JobsTyped
<1>1. SUFFICES ASSUME x.j \in Taking PROVE Owns(x)'
  BY DEF Owns, Taking
<1>2. Claims(d) = {Norm[x.n]} /\ x.n \in Names /\ Norm[x.n] \in Names
  BY <1>0, <1>1, TakingIs
<1>3. CASE Norm[x.n] \in Claims(c)
  <2>1. Norm[x.n] \in Contested BY <1>2, <1>3 DEF Contested
  <2>2. Norm[x.n] \in raced' BY <1>0, <2>1
  <2> QED BY <2>2 DEF Owns, OwnName, OwnProfiles
<1>4. CASE Norm[x.n] \notin Claims(c)
  <2>1. /\ LoginsNamed(x.n)' \subseteq LoginsNamed(x.n)
        /\ \A p \in Named(x.n)' : p \in Named(x.n) /\ profile'[p].owner = profile[p].owner
    BY <1>2, <1>4 DEF OnlyClaimed
  <2>2. \A u : OwnName(x.n, u) => OwnName(x.n, u)' BY <1>0, <2>1 DEF OwnName
  <2>3. \A u : OwnProfiles(x.n, u) => OwnProfiles(x.n, u)' BY <1>0, <2>1 DEF OwnProfiles
  <2> QED BY <2>2, <2>3 DEF Owns
<1> QED BY <1>3, <1>4

\* The statements of others stay right.
LEMMA SoundStays ==
    ASSUME Evolves, ~ load.serial, NEW x \in Stmt, Sound(x), Owns(x)'
    PROVE  Sound(x)'
<1>1. load' = load /\ last.profile \in Nat /\ last'.profile \in Nat /\ last.profile <= last'.profile
  BY DEF Evolves, Keeps
<1>2. ASSUME NEW p \in ProfileIds, p <= last.profile
      PROVE  /\ p <= last'.profile
             /\ profile'[p] # None => profile[p] # None /\ profile'[p].owner = profile[p].owner
  <2>1. p \in Nat BY YggJoinAssumption DEF ProfileIds
  <2> QED BY <1>1, <1>2, <2>1 DEF Evolves, Keeps
<1>3. x.j = "lban" => x.p <= last'.profile /\ (profile'[x.p] # None => profile'[x.p].owner = x.u)
  <2>1. x.j = "lban" => x.p \in ProfileIds BY StmtIs DEF OwnerStmt
  <2> QED BY <1>2, <2>1 DEF Sound
<1>4. x.j = "answer" /\ x.who.via = "local" => x.who.id \in ProfileIds /\ x.who.id <= last'.profile
  BY <1>2 DEF Sound
<1>5. x.j \in {"bupdate", "revoke"} => ban'[x.b] # None
  <2>1. x.j \in {"bupdate", "revoke"} => x.b \in BanIds
    BY StmtIs DEF UpdateStmt, RevokeStmt
  <2> QED BY <2>1 DEF Sound, Evolves
<1>6. x.j \in {"ntaken", "ncommit"} => x.p <= last'.profile /\ (profile'[x.p] # None => profile'[x.p].owner = x.old.owner)
  <2>1. x.j \in {"ntaken", "ncommit"} => x.p \in ProfileIds BY StmtIs DEF RenamedStmt
  <2> QED BY <1>2, <2>1 DEF Sound
<1>7. x.j = "fill" => x.p <= last'.profile
  <2>1. x.j = "fill" => x.p \in ProfileIds BY StmtIs DEF FillStmt
  <2> QED BY <1>2, <2>1 DEF Sound
<1> QED BY <1>1, <1>3, <1>4, <1>5, <1>6, <1>7 DEF Sound

\* A statement stays right when the tables it relies on stay.
LEMMA SoundSame ==
    ASSUME UNCHANGED <<profile, login, ban, fwd, last, load>>, raced \subseteq raced', NEW x, Sound(x)
    PROVE  Sound(x)'
<1>1. Owns(x)'
  BY DEF Sound, Owns, OwnName, OwnProfiles, LoginsNamed, Members, Named, Live
<1> QED BY <1>1 DEF Sound, Enabled, Count, Live

\* A request that writes no name disturbs none.
LEMMA NoneTaken == ASSUME UNCHANGED <<profile, login>>, NEW c PROVE OnlyClaimed(c)
  BY DEF OnlyClaimed, LoginsNamed, Members, Named, Live

\* The statements of all requests stay right when one of them goes on with right ones.
LEMMA JobsStay ==
    ASSUME Jobs, Observe, Evolves, NEW c \in Clients, OnlyClaimed(c), todo[c] # <<>>, NEW s, List(s), Sets(c, s),
           SoundList(s)'
    PROVE  Jobs'
<1>0. JobsTyped /\ Serial /\ SoundJobs
  BY DEF Jobs
<1>1. JobsTyped' /\ todo'[c] = s /\ \A d \in Clients : d # c => todo'[d] = todo[d]
  BY <1>0, SetsTodo
<1>2. load' = load
  BY DEF Evolves
<1>3. Serial'
  BY <1>0, <1>2, SetsSerial
<1>4. SoundJobs'
  <2> SUFFICES ASSUME NEW d \in Clients, NEW n \in 1..Len(todo'[d]) PROVE Sound(todo[d][n])'
    BY DEF SoundJobs
  <2>1. CASE d = c BY <1>1, <2>1 DEF SoundList
  <2>2. CASE d # c
    <3>1. todo'[d] = todo[d] /\ n \in 1..Len(todo[d]) /\ todo[d] \in Seq(Stmt)
      BY <1>0, <1>1, <2>2 DEF JobsTyped
    <3>2. PICK x : x = todo[d][n] OBVIOUS
    <3>3. x \in Stmt /\ Sound(x) BY <1>0, <3>1, <3>2, ElementOfSeq DEF SoundJobs
    <3>4. todo[d] # <<>> BY <3>1, EmptySeq
    <3>5. ~ load.serial BY <1>0, <2>2, <3>4 DEF Serial
    <3>6. Owns(x)' BY <2>2, <3>1, <3>2, <3>3, OwnsStays DEF Sound
    <3>7. Sound(x)' BY <3>3, <3>5, <3>6, SoundStays
    <3> QED BY <3>1, <3>2, <3>7
  <2> QED BY <2>1, <2>2
<1> QED BY <1>1, <1>3, <1>4, RacedGrows DEF Jobs

\* The history of a question only shrinks until the next one.
LEMMA Observed ==
    ASSUME HistoryInv, Observe, NEW c \in Clients
    PROVE  /\ shut'[c] \subseteq StayOut'
           /\ sure'[c] # None => todo'[c] # <<>> /\ Player(Job(c).q)' = sure'[c]
           /\ todo'[c] # <<>> /\ Head(todo'[c]).j # "list" =>
                 /\ shut'[c] \subseteq shut[c] /\ (sure'[c] # None => sure'[c] = sure[c])
                 /\ faults' # faults /\ todo'[c] # todo[c] => sure'[c] = None
<1>1. At(c, "list")' <=> todo'[c] # <<>> /\ Head(todo'[c]).j = "list"
  BY DEF At
<1>2. shut'[c] = IF At(c, "list")' THEN StayOut' ELSE IF todo'[c] = <<>> THEN {} ELSE shut[c] \cap StayOut'
  BY DEF Observe
<1>3. sure'[c] = IF At(c, "list")' THEN Player(Job(c).q)'
                 ELSE IF /\ todo'[c] # <<>> /\ sure[c] # None /\ Player(Job(c).q)' = sure[c]
                         /\ faults' = faults \/ todo'[c] = todo[c]
                      THEN sure[c] ELSE None
  BY DEF Observe
<1> QED BY <1>1, <1>2, <1>3

\* The questions of others, whose point the step leaves alone.
LEMMA OthersAnswer ==
    ASSUME HistoryInv, Observe, JobsTyped, SoundJobs, Keeps, NEW d \in Clients, todo'[d] = todo[d], todo[d] # <<>>
    PROVE  Answering(d, Job(d))' /\ Finding(d, Job(d))'
<1>1. PICK x : x = Head(todo[d]) OBVIOUS
<1>2. Job(d) = x /\ Job(d)' = x /\ todo[d][1] = x /\ 1 \in 1..Len(todo[d])
  BY <1>1, ListTail DEF Job, JobsTyped
<1>3. Sound(x) /\ Answering(d, x) /\ Finding(d, x)
  BY <1>2 DEF SoundJobs, HistoryInv
<1>4. CASE x.j = "list"
  BY <1>2, <1>4 DEF Answering, Finding
<1>5. CASE x.j # "list"
  <2>1. shut'[d] \subseteq shut[d] /\ (sure'[d] # None => sure'[d] = sure[d])
    BY <1>1, <1>5, Observed
  <2>2. Finding(d, x)' BY <1>3, <2>1 DEF Finding, HasLocal
  <2>3. ASSUME x.j = "answer", x.who.via = "local", profile'[x.who.id] # None
        PROVE  <<"banned", profile'[x.who.id].owner>> \notin shut'[d]
    <3>1. PICK p : p = x.who.id OBVIOUS
    <3>2. p \in ProfileIds /\ p <= last.profile BY <1>3, <2>3, <3>1 DEF Sound
    <3>3. profile[p] # None /\ profile'[p].owner = profile[p].owner
      BY <2>3, <3>1, <3>2 DEF Keeps
    <3> QED BY <1>3, <2>1, <2>3, <3>1, <3>3 DEF Answering
  <2>4. Answering(d, x)' BY <1>3, <2>1, <2>3 DEF Answering
  <2> QED BY <1>2, <2>2, <2>4
<1> QED BY <1>4, <1>5

\* The history stays right when it is right for the request that moves.
LEMMA HistoryStep ==
    ASSUME HistoryInv, Observe, JobsTyped, SoundJobs, Keeps, NEW c,
           \A d \in Clients : d # c => todo'[d] = todo[d],
           c \in Clients /\ todo'[c] # <<>> => Answering(c, Job(c))' /\ Finding(c, Job(c))'
    PROVE  HistoryInv'
<1>1. \A d \in Clients : /\ shut'[d] \subseteq StayOut'
                         /\ sure'[d] # None => todo'[d] # <<>> /\ Player(Job(d).q)' = sure'[d]
  BY Observed
<1>2. shut' \in [Clients -> SUBSET StayOut'] /\ DOMAIN sure' = Clients
  BY <1>1 DEF Observe
<1>3. \A d \in Clients : todo'[d] # <<>> => Answering(d, Job(d))' /\ Finding(d, Job(d))'
  BY OthersAnswer
<1> QED BY <1>1, <1>2, <1>3 DEF HistoryInv

\* Points that rely on nothing in the history.
Critical == {"next", "call", "bound", "lprofile", "lban", "answer"}
Calm(s) == s = <<>> \/ Head(s).j \notin Critical

\* A request that goes on calmly.
LEMMA CalmStep ==
    ASSUME HistoryInv, Observe, JobsTyped, SoundJobs, Keeps, NEW c \in Clients,
           NEW s, List(s), Sets(c, s), Calm(s)
    PROVE  HistoryInv'
<1>1. todo'[c] = s /\ \A d \in Clients : d # c => todo'[d] = todo[d]
  BY SetsTodo
<1>2. todo'[c] # <<>> => Answering(c, Job(c))' /\ Finding(c, Job(c))'
  BY <1>1 DEF Job, Calm, Critical, Answering, Finding
<1> QED BY <1>1, <1>2, HistoryStep
-----------------------------------------------------------------------------
(* Reads                                                                   *)

\* The tables and caches that requests share.
shared == <<playState, banState, fwdState, joined, last, env>>

\* A client that is at work, or may start, and has not to tell the caches anything.
Free(c) == (todo[c] # <<>> /\ Head(todo[c]).j \notin {"flush", "drop"}) \/ Idle(c)

\* With one request at a time and no failures, the caches are right where nobody has to tell them.
LEMMA CacheRight ==
    ASSUME Jobs, CacheInv, NEW c \in Clients, Free(c), load.serial, faults = load.faults
    PROVE  Clean /\ \A n \in Names : Right(n)
<1>1. ASSUME NEW d \in Clients, todo[d] # <<>> PROVE d = c /\ Head(todo[c]).j \notin {"flush", "drop"}
  BY <1>1 DEF Jobs, Serial, Free, Idle
<1>2. ~ \E d \in Clients : At(d, "flush")
  BY <1>1 DEF At
<1>3. ASSUME NEW d \in Clients, NEW n, Drops(d, n) PROVE FALSE
  <2>1. PICK k \in 1..Len(todo[d]) : todo[d][k].j = "drop" BY <1>3 DEF Drops
  <2>2. List(todo[d]) /\ todo[d] # <<>> BY <2>1, EmptySeq DEF Jobs, JobsTyped
  <2>3. d = c /\ todo[d][1].j # "drop" BY <1>1, <2>2, ListTail
  <2>4. Len(todo[d]) = 2 /\ k = 2 /\ todo[d][2].j = "drop" BY <2>1, <2>2, <2>3, ListTail
  <2> QED BY <2>2, <2>3, <2>4 DEF List
<1> QED BY <1>2, <1>3 DEF CacheInv

\* Names are own: the same, name by name.
LEMMA NamesAre ==
    NamesAreOwn <=> /\ \A q, k \in Live : Norm[profile[k].name] = Norm[profile[q].name] => k = q
                    /\ \A q \in Live : OwnName(profile[q].name, profile[q].owner)
                    /\ \A u, v \in Members : Norm[login[v]] = Norm[login[u]] => v = u \/ Norm[login[u]] \in raced
<1>1. (\A p \in Live : Named(profile[p].name) = {p})
        <=> \A q, k \in Live : Norm[profile[k].name] = Norm[profile[q].name] => k = q
  BY DEF Named
<1>2. (\A p \in Live : LoginsNamed(profile[p].name) \ {profile[p].owner} # {} => Norm[profile[p].name] \in raced)
        <=> \A q \in Live : OwnName(profile[q].name, profile[q].owner)
  BY DEF OwnName
<1>3. (\A u \in Members : LoginsNamed(login[u]) # {u} => Norm[login[u]] \in raced)
        <=> \A u, v \in Members : Norm[login[v]] = Norm[login[u]] => v = u \/ Norm[login[u]] \in raced
  BY DEF LoginsNamed
<1> QED BY <1>1, <1>2, <1>3 DEF NamesAreOwn

\* The same of the next state.
LEMMA NamesAreThen ==
    ASSUME \A q, k \in Live' : Norm[profile'[k].name] = Norm[profile'[q].name] => k = q,
           \A q \in Live' : OwnName(profile[q].name, profile[q].owner)',
           (\A u, v \in Members : Norm[login[v]] = Norm[login[u]] => v = u \/ Norm[login[u]] \in raced)'
    PROVE  NamesAreOwn'
<1>1. ASSUME NEW p \in Live' PROVE Named(profile[p].name)' = {p}
  BY DEF Named
<1>2. ASSUME NEW p \in Live', (LoginsNamed(profile[p].name) \ {profile[p].owner})' # {} PROVE Norm[profile'[p].name] \in raced'
  BY <1>2 DEF OwnName
<1>3. ASSUME NEW u \in Members', LoginsNamed(login[u])' # {u} PROVE Norm[login'[u]] \in raced'
  BY <1>3 DEF LoginsNamed
<1> QED BY <1>1, <1>2, <1>3 DEF NamesAreOwn

\* Names stay own where nobody writes one.
LEMMA NamesSame ==
    ASSUME NamesAreOwn, UNCHANGED <<profile, login>>, raced \subseteq raced'
    PROVE  NamesAreOwn'
  BY DEF NamesAreOwn, Named, Live, LoginsNamed, Members

\* A step that leaves the tables alone.
LEMMA TablesSame ==
    ASSUME Tables, UNCHANGED <<playState, banState, fwdState, joined, last, load>>, now' \in 0..MaxTime,
           faults' \in Nat, faults' <= faults, raced \subseteq raced'
    PROVE  Tables'
<1> USE DEF playState, banState, fwdState
<1>1. load \in Workloads /\ faults \in Nat /\ load.faults \in Nat /\ faults <= load.faults
  BY YggJoinAssumption DEF Tables, Typed, TypeOK
<1>2. faults' <= load.faults
  BY <1>1
<1>3. Typed'
  BY <1>2 DEF Tables, Typed, TypeOK
<1>4. Ids' /\ LogTellsBan'
  BY DEF Tables, Ids, LogTellsBan, Said
<1>5. NamesAreOwn'
  BY NamesSame DEF Tables
<1>6. WithinQuota'
  BY DEF Tables, WithinQuota, Count, Live
<1> QED BY <1>3, <1>4, <1>5, <1>6 DEF Tables

\* What stays when the tables stay.
LEMMA SharedStays ==
    ASSUME Inv, Observe, UNCHANGED shared
    PROVE  /\ Tables' /\ load' = load /\ Keeps /\ Evolves
           /\ (Clean' <=> Clean) /\ \A n \in Names : Right(n)' <=> Right(n)
<1>1. Tables /\ load' = load /\ faults' = faults /\ now' = now
  BY DEF Inv, shared, env
<1>2. now \in 0..MaxTime /\ faults \in Nat
  BY <1>1 DEF Tables, Typed, TypeOK
<1>3. Tables'
  <2>1. UNCHANGED <<playState, banState, fwdState, joined, last, load>> /\ now' \in 0..MaxTime /\ faults' \in Nat /\ faults' <= faults
    BY <1>1, <1>2 DEF shared
  <2> QED BY <1>1, <2>1, TablesSame, RacedGrows
<1>4. Keeps /\ Evolves
  <2>1. last.profile \in Nat BY <1>1, YggJoinAssumption DEF Tables, Typed
  <2> QED BY <1>1, <2>1 DEF Keeps, Evolves, shared, playState, banState
<1>5. (Clean' <=> Clean) /\ \A n \in Names : Right(n)' <=> Right(n)
  BY DEF shared, playState, fwdState, Clean, Right, Enabled, Live
<1> QED BY <1>1, <1>3, <1>4, <1>5

\* The caches stay right where the tables stay.
LEMMA CacheStays ==
    ASSUME Inv, Observe, NEW c \in Clients, Free(c), UNCHANGED shared
    PROVE  CacheInv'
<1>1. (Clean' /\ \A n \in Names : Right(n)') \/ ~ load'.serial \/ faults' # load'.faults
  BY CacheRight, SharedStays DEF Inv, shared, env
<1> QED BY <1>1 DEF CacheInv

\* A request is received, or reads; the history is left to the caller.
LEMMA ReadJobs ==
    ASSUME Inv, Observe, NEW c \in Clients, Free(c), NEW s, List(s), Sets(c, s), SoundList(s), UNCHANGED shared
    PROVE  Jobs'
<1>1. JobsTyped /\ Serial /\ SoundJobs /\ load' = load
  BY SharedStays DEF Inv, Jobs
<1>3. JobsTyped' /\ todo'[c] = s /\ \A d \in Clients : d # c => todo'[d] = todo[d]
  BY <1>1, SetsTodo
<1>4. Serial'
  BY <1>1, SetsSerial DEF Free
<1>5. SoundJobs'
  <2> SUFFICES ASSUME NEW d \in Clients, NEW n \in 1..Len(todo'[d]) PROVE Sound(todo[d][n])'
    BY DEF SoundJobs
  <2>1. PICK x : x = todo'[d][n] OBVIOUS
  <2>2. Sound(x) BY <1>1, <1>3, <2>1 DEF SoundJobs, SoundList
  <2>3. UNCHANGED <<profile, login, ban, fwd, last, load>> /\ raced \subseteq raced'
    BY RacedGrows DEF shared, playState, banState, fwdState, env
  <2>4. Sound(x)' BY <2>2, <2>3, SoundSame
  <2> QED BY <2>1, <2>4
<1> QED BY <1>3, <1>4, <1>5, RacedGrows DEF Jobs

\* A request is received, or reads, and relies on nothing in the history.
LEMMA ReadStep ==
    ASSUME Inv, Observe, NEW c \in Clients, Free(c), NEW s, List(s), Sets(c, s), SoundList(s), Calm(s),
           UNCHANGED shared
    PROVE  Inv'
<1>1. Jobs' /\ CacheInv' /\ Tables' /\ Keeps
  BY ReadJobs, CacheStays, SharedStays
<1>2. HistoryInv'
  BY <1>1, CalmStep DEF Inv, Jobs
<1> QED BY <1>1, <1>2 DEF Inv

\* The same with what a question needs.
LEMMA AskStep ==
    ASSUME Inv, Observe, NEW c \in Clients, Free(c), NEW x \in Stmt, Sets(c, <<x>>), Sound(x),
           Answering(c, x)', Finding(c, x)', UNCHANGED shared
    PROVE  Inv'
<1>0. List(<<x>>) /\ SoundList(<<x>>) /\ Head(<<x>>) = x
  BY OneIsList DEF SoundList
<1>1. Jobs' /\ CacheInv' /\ Tables' /\ Keeps
  BY <1>0, ReadJobs, CacheStays, SharedStays
<1>2. JobsTyped /\ SoundJobs /\ HistoryInv
  BY DEF Inv, Jobs
<1>3. todo'[c] = <<x>> /\ \A d \in Clients : d # c => todo'[d] = todo[d]
  BY <1>0, <1>2, SetsTodo
<1>4. Job(c)' = x
  BY <1>0, <1>3 DEF Job
<1>5. HistoryInv'
  BY <1>1, <1>2, <1>3, <1>4, HistoryStep
<1> QED BY <1>1, <1>5 DEF Inv

\* A request ends.
LEMMA StopStep ==
    ASSUME Inv, Observe, NEW c \in Clients, Free(c), Sets(c, <<>>), UNCHANGED shared
    PROVE  Inv'
<1>1. SoundList(<<>>) /\ Calm(<<>>)
  BY NoneIsList DEF SoundList, Calm
<1> QED BY <1>1, NoneIsList, ReadStep

\* A request goes on with one statement.
LEMMA OneStep ==
    ASSUME Inv, Observe, NEW c \in Clients, Free(c), NEW x \in Stmt, x.j \notin Critical, Sound(x), Sets(c, <<x>>),
           UNCHANGED shared
    PROVE  Inv'
<1>1. List(<<x>>) /\ SoundList(<<x>>) /\ Calm(<<x>>)
  BY OneIsList DEF SoundList, Calm
<1> QED BY <1>1, ReadStep

\* A request goes on with one statement if it may, and ends if not.
LEMMA GoOne ==
    ASSUME Inv, Observe, NEW c \in Clients, todo[c] # <<>>, Head(todo[c]).j \notin {"flush", "drop", "drevoke"},
           NEW ok, NEW x, ok => x \in Stmt /\ x.j \notin Critical /\ Sound(x), Go(c, ok, <<x>>), UNCHANGED shared
    PROVE  Inv'
<1>1. Free(c) /\ List(todo[c])
  BY DEF Free, Inv, Jobs, JobsTyped
<1>2. ok => List(<<x>>)
  BY OneIsList
<1>3. (ok /\ Sets(c, <<x>>)) \/ Sets(c, <<>>)
  BY <1>1, <1>2, GoAlone
<1> QED BY <1>1, <1>3, OneStep, StopStep

\* Statements that rely on nothing.
Plain == {"issue", "token", "jban", "jprofile", "jset", "list", "lread", "lget", "bcheck", "bcreate", "bread", "rread",
          "fcheck", "finsert", "fread", "fupdate", "ffind", "fdelete", "flush", "auto", "cban", "ccount",
          "nban", "nread", "drop", "dread", "drevoke", "drow", "look", "ucheck"}

\* They are right whatever the tables hold.
LEMMA PlainSound == ASSUME NEW x, x.j \in Plain PROVE Sound(x) /\ x.j \notin Critical
  BY DEF Plain, Sound, Owns, Critical
\* What a workload is.
LEMMA LoadIs ==
    ASSUME Tables
    PROVE  /\ load.names \subseteq Names /\ load.ips \subseteq Ips /\ load.bans \subseteq Wish
           /\ load.new \subseteq Fwd /\ load.edits \subseteq Edit /\ load.faults \in Nat
           /\ 1..last.profile \subseteq ProfileIds /\ 1..last.ban \subseteq BanIds /\ 1..last.fwd \subseteq FwdIds
           /\ Live \subseteq ProfileIds
<1>1. load \in Workloads /\ last.profile \in 0..MaxProfile /\ last.ban \in 0..MaxBan /\ last.fwd \in 0..MaxFwd
  BY DEF Tables, Typed
<1>2. 1..last.profile \subseteq ProfileIds /\ 1..last.ban \subseteq BanIds /\ 1..last.fwd \subseteq FwdIds
  BY <1>1, YggJoinAssumption DEF ProfileIds, BanIds, FwdIds
<1> QED BY <1>1, <1>2, YggJoinAssumption DEF Wish, Edit, Live

\* A request is received that relies on nothing.
LEMMA StartPlain ==
    ASSUME Inv, Observe, NEW c \in Clients, NEW x \in Stmt, x.j \in Plain, NEW op, Start(c, op, <<x>>)
    PROVE  Inv'
<1>1. Free(c) /\ Sets(c, <<x>>) /\ UNCHANGED shared
  BY DEF Start, Free, Sets, shared
<1> QED BY <1>1, PlainSound, OneStep

\* A request is received.
LEMMA RequestInv ==
    ASSUME Inv, Observe, NEW c \in Clients, Request(c)
    PROVE  Inv'
<1>0. /\ load.names \subseteq Names /\ load.ips \subseteq Ips /\ load.bans \subseteq Wish
      /\ load.new \subseteq Fwd /\ load.edits \subseteq Edit
      /\ 1..last.profile \subseteq ProfileIds /\ 1..last.ban \subseteq BanIds /\ 1..last.fwd \subseteq FwdIds
      /\ Live \subseteq ProfileIds /\ Members \subseteq Users
  BY LoadIs DEF Inv, Members
<1>1. CASE SignIn(c)
  <2>1. PICK p \in Live : Start(c, "signin", <<[j |-> "issue", p |-> p]>>)
    BY <1>1 DEF SignIn
  <2>2. [j |-> "issue", p |-> p] \in Stmt /\ [j |-> "issue", p |-> p].j \in Plain
    BY <1>0 DEF Stmt, Plain, IssueStmt
  <2> QED BY <2>1, <2>2, StartPlain
<1>2. CASE Join(c)
  <2>1. PICK p \in 1..last.profile, r \in 1..last.profile, s \in Servers, i \in load.ips : Start(c, "join", <<[j |-> "token", p |-> p, r |-> r, s |-> s, ip |-> i]>>)
    BY <1>2 DEF Join
  <2>2. [j |-> "token", p |-> p, r |-> r, s |-> s, ip |-> i] \in Stmt /\ [j |-> "token", p |-> p, r |-> r, s |-> s, ip |-> i].j \in Plain
    BY <1>0 DEF Stmt, Plain, JoinStmt
  <2> QED BY <2>1, <2>2, StartPlain
<1>3. CASE Ask(c)
  <2>1. PICK n \in load.names, s \in Servers, i \in load.ips \cup {None} : Start(c, "ask", <<[j |-> "list", q |-> [name |-> n, s |-> s, ip |-> i]]>>)
    BY <1>3 DEF Ask
  <2>2. [j |-> "list", q |-> [name |-> n, s |-> s, ip |-> i]] \in Stmt /\ [j |-> "list", q |-> [name |-> n, s |-> s, ip |-> i]].j \in Plain
    BY <1>0 DEF Stmt, Plain, AskStmt, Query
  <2> QED BY <2>1, <2>2, StartPlain
<1>4. CASE CreateUserBan(c)
  <2>1. PICK r \in load.bans : Start(c, "ban", <<[j |-> "bcheck", r |-> r]>>)
    BY <1>4 DEF CreateUserBan
  <2>2. [j |-> "bcheck", r |-> r] \in Stmt /\ [j |-> "bcheck", r |-> r].j \in Plain
    BY <1>0 DEF Stmt, Plain, WishStmt, Wish
  <2> QED BY <2>1, <2>2, StartPlain
<1>5. CASE UpdateUserBan(c)
  <2>1. PICK b \in 1..last.ban, r \in load.bans : Start(c, "reban", <<[j |-> "bread", b |-> b, r |-> r]>>)
    BY <1>5 DEF UpdateUserBan
  <2>2. [j |-> "bread", b |-> b, r |-> r] \in Stmt /\ [j |-> "bread", b |-> b, r |-> r].j \in Plain
    BY <1>0 DEF Stmt, Plain, RebanStmt, Wish
  <2> QED BY <2>1, <2>2, StartPlain
<1>6. CASE RevokeUserBan(c)
  <2>1. PICK b \in 1..last.ban : Start(c, "unban", <<[j |-> "rread", b |-> b]>>)
    BY <1>6 DEF RevokeUserBan
  <2>2. [j |-> "rread", b |-> b] \in Stmt /\ [j |-> "rread", b |-> b].j \in Plain
    BY <1>0 DEF Stmt, Plain, UnbanStmt
  <2> QED BY <2>1, <2>2, StartPlain
<1>7. CASE CreateServer(c)
  <2>1. PICK r \in load.new : Start(c, "fadd", <<[j |-> "fcheck", r |-> r]>>)
    BY <1>7 DEF CreateServer
  <2>2. [j |-> "fcheck", r |-> r] \in Stmt /\ [j |-> "fcheck", r |-> r].j \in Plain
    BY <1>0 DEF Stmt, Plain, FwdStmt
  <2> QED BY <2>1, <2>2, StartPlain
<1>8. CASE UpdateServer(c)
  <2>1. PICK f \in 1..last.fwd, e \in load.edits : Start(c, "fedit", <<[j |-> "fread", f |-> f, e |-> e]>>)
    BY <1>8 DEF UpdateServer
  <2>2. [j |-> "fread", f |-> f, e |-> e] \in Stmt /\ [j |-> "fread", f |-> f, e |-> e].j \in Plain
    BY <1>0 DEF Stmt, Plain, EditStmt, Edit
  <2> QED BY <2>1, <2>2, StartPlain
<1>9. CASE DeleteServer(c)
  <2>1. PICK f \in 1..last.fwd : Start(c, "fdrop", <<[j |-> "ffind", f |-> f]>>)
    BY <1>9 DEF DeleteServer
  <2>2. [j |-> "ffind", f |-> f] \in Stmt /\ [j |-> "ffind", f |-> f].j \in Plain
    BY <1>0 DEF Stmt, Plain, FwdIdStmt
  <2> QED BY <2>1, <2>2, StartPlain
<1>10. CASE CreateMinecraftProfile(c)
  <2>1. PICK u \in Members, n \in load.names : Start(c, "create", <<[j |-> "cban", u |-> u, n |-> n, m |-> None]>>)
    BY <1>10 DEF CreateMinecraftProfile
  <2>2. [j |-> "cban", u |-> u, n |-> n, m |-> None] \in Stmt /\ [j |-> "cban", u |-> u, n |-> n, m |-> None].j \in Plain
    BY <1>0 DEF Stmt, Plain, CreateStmt
  <2> QED BY <2>1, <2>2, StartPlain
<1>11. CASE AutoCreateProfile(c)
  <2>1. PICK u \in Members, n \in load.names, m \in load.names : Start(c, "auto", <<[j |-> "auto", u |-> u, names |-> <<n, m>>]>>)
    BY <1>11 DEF AutoCreateProfile
  <2>2. [j |-> "auto", u |-> u, names |-> <<n, m>>] \in Stmt /\ [j |-> "auto", u |-> u, names |-> <<n, m>>].j \in Plain
    BY <1>0 DEF Stmt, Plain, AutoStmt
  <2> QED BY <2>1, <2>2, StartPlain
<1>12. CASE BindOfficialProfile(c)
  <2>1. PICK u \in Members, n \in load.names, m \in Official : Start(c, "official", <<[j |-> "cban", u |-> u, n |-> n, m |-> m]>>)
    BY <1>12 DEF BindOfficialProfile
  <2>2. [j |-> "cban", u |-> u, n |-> n, m |-> m] \in Stmt /\ [j |-> "cban", u |-> u, n |-> n, m |-> m].j \in Plain
    BY <1>0 DEF Stmt, Plain, CreateStmt
  <2> QED BY <2>1, <2>2, StartPlain
<1>13. CASE RenameMinecraftProfile(c)
  <2>1. PICK p \in 1..last.profile, n \in load.names : Start(c, "rename", <<[j |-> "nban", p |-> p, n |-> n]>>)
    BY <1>13 DEF RenameMinecraftProfile
  <2>2. [j |-> "nban", p |-> p, n |-> n] \in Stmt /\ [j |-> "nban", p |-> p, n |-> n].j \in Plain
    BY <1>0 DEF Stmt, Plain, RenameStmt
  <2> QED BY <2>1, <2>2, StartPlain
<1>14. CASE AdminRenameProfile(c)
  <2>1. PICK p \in 1..last.profile, n \in load.names : Start(c, "arename", <<[j |-> "nread", p |-> p, n |-> n]>>)
    BY <1>14 DEF AdminRenameProfile
  <2>2. [j |-> "nread", p |-> p, n |-> n] \in Stmt /\ [j |-> "nread", p |-> p, n |-> n].j \in Plain
    BY <1>0 DEF Stmt, Plain, RenameStmt
  <2> QED BY <2>1, <2>2, StartPlain
<1>15. CASE DeleteMinecraftProfile(c)
  <2>1. PICK p \in 1..last.profile : Start(c, "delete", <<[j |-> "dread", p |-> p]>>)
    BY <1>15 DEF DeleteMinecraftProfile
  <2>2. [j |-> "dread", p |-> p] \in Stmt /\ [j |-> "dread", p |-> p].j \in Plain
    BY <1>0 DEF Stmt, Plain, DeleteStmt
  <2> QED BY <2>1, <2>2, StartPlain
<1>16. CASE ProfilesByNames(c)
  <2>1. PICK n \in load.names : Start(c, "names", <<[j |-> "look", n |-> n]>>)
    BY <1>16 DEF ProfilesByNames
  <2>2. [j |-> "look", n |-> n] \in Stmt /\ [j |-> "look", n |-> n].j \in Plain
    BY <1>0 DEF Stmt, Plain, NameStmt
  <2> QED BY <2>1, <2>2, StartPlain
<1>17. CASE RegisterUser(c)
  <2>1. PICK n \in load.names : Start(c, "register", <<[j |-> "ucheck", u |-> None, n |-> n]>>)
    BY <1>17 DEF RegisterUser
  <2>2. [j |-> "ucheck", u |-> None, n |-> n] \in Stmt /\ [j |-> "ucheck", u |-> None, n |-> n].j \in Plain
    BY <1>0 DEF Stmt, Plain, CheckStmt
  <2> QED BY <2>1, <2>2, StartPlain
<1>18. CASE UpdateUsername(c)
  <2>1. PICK u \in Members, n \in load.names : Start(c, "login", <<[j |-> "ucheck", u |-> u, n |-> n]>>)
    BY <1>18 DEF UpdateUsername
  <2>2. [j |-> "ucheck", u |-> u, n |-> n] \in Stmt /\ [j |-> "ucheck", u |-> u, n |-> n].j \in Plain
    BY <1>0 DEF Stmt, Plain, CheckStmt
  <2> QED BY <2>1, <2>2, StartPlain
<1> QED
  BY <1>1, <1>2, <1>3, <1>4, <1>5, <1>6, <1>7, <1>8, <1>9, <1>10, <1>11, <1>12, <1>13, <1>14, <1>15, <1>16, <1>17, <1>18
     DEF Request
\* join looks at the token.
LEMMA JoinTokenInv ==
    ASSUME Inv, Observe, NEW c \in Clients, JoinToken(c)
    PROVE  Inv'
<1>1. /\ todo[c] # <<>> /\ Head(todo[c]).j = "token" /\ Job(c) \in Stmt /\ Job(c).j = "token" /\ Sound(Job(c))
      /\ UNCHANGED shared
  BY JobIs DEF JoinToken, Inv, Jobs, At, shared
<1>2. PICK x \in JoinStmt : x = Job(c) /\ x.j = "token" /\ Sound(x)
  BY <1>1, StmtIs
<1>3. PICK y : y = [x EXCEPT !.j = "jban"] OBVIOUS
<1>4. PICK ok : ok <=> (token[x.p] = "ok" /\ x.p \in Live /\ ~ Banned(profile[x.p].owner, "access"))
  OBVIOUS
<1>5. Go(c, ok, <<y>>)
  BY <1>2, <1>3, <1>4 DEF JoinToken, Go
<1>6. ok => y \in Stmt /\ y.j \in Plain
  BY <1>2, <1>3, <1>4 DEF Stmt, Plain, JoinStmt
<1> QED BY <1>1, <1>5, <1>6, PlainSound, GoOne

\* join looks at the ban of its player.
LEMMA JoinBanInv ==
    ASSUME Inv, Observe, NEW c \in Clients, JoinBan(c)
    PROVE  Inv'
<1>1. /\ todo[c] # <<>> /\ Head(todo[c]).j = "jban" /\ Job(c) \in Stmt /\ Job(c).j = "jban" /\ Sound(Job(c))
      /\ UNCHANGED shared
  BY JobIs DEF JoinBan, Inv, Jobs, At, shared
<1>2. PICK x \in JoinStmt : x = Job(c) /\ x.j = "jban" /\ Sound(x)
  BY <1>1, StmtIs
<1>3. PICK y : y = [x EXCEPT !.j = "jprofile"] OBVIOUS
<1>4. PICK ok : ok <=> (x.p \in Live /\ ~ Banned(profile[x.p].owner, "join")) OBVIOUS
<1>5. Go(c, ok, <<y>>)
  BY <1>2, <1>3, <1>4 DEF JoinBan, Go
<1>6. ok => y \in Stmt /\ y.j \in Plain
  BY <1>2, <1>3, <1>4 DEF Stmt, Plain, JoinStmt
<1> QED BY <1>1, <1>5, <1>6, PlainSound, GoOne

\* join reads the profile.
LEMMA JoinProfileInv ==
    ASSUME Inv, Observe, NEW c \in Clients, JoinProfile(c)
    PROVE  Inv'
<1>1. /\ todo[c] # <<>> /\ Head(todo[c]).j = "jprofile" /\ Job(c) \in Stmt /\ Job(c).j = "jprofile" /\ Sound(Job(c))
      /\ UNCHANGED shared
  BY JobIs DEF JoinProfile, Inv, Jobs, At, shared
<1>2. PICK x \in JoinStmt : x = Job(c) /\ x.j = "jprofile" /\ Sound(x)
  BY <1>1, StmtIs
<1>3. PICK y : y = [j |-> "jset", s |-> x.s, e |-> [p |-> x.p, name |-> profile[x.p].name, ip |-> x.ip]]
  OBVIOUS
<1>4. PICK ok : ok <=> (x.p \in Live /\ x.r = x.p) OBVIOUS
<1>5. Go(c, ok, <<y>>)
  BY <1>2, <1>3, <1>4 DEF JoinProfile, Go
<1>6. ok => y \in Stmt /\ y.j \notin Critical /\ Sound(y)
  <2>1. ok => profile[x.p] \in Profile BY <1>4 DEF Live, Inv, Tables, Typed, TypeOK
  <2>2. ok => profile[x.p].name \in Names BY <2>1 DEF Profile
  <2>3. ok => y \in Stmt /\ y.j \in Plain
    BY <1>2, <1>3, <2>2 DEF Stmt, Plain, JoinStmt, SetStmt, Entry
  <2> QED BY <2>3, PlainSound
<1> QED BY <1>1, <1>5, <1>6, GoOne

\* An upstream is added: its address is free.
LEMMA FwdCheckInv ==
    ASSUME Inv, Observe, NEW c \in Clients, FwdCheck(c)
    PROVE  Inv'
<1>1. /\ todo[c] # <<>> /\ Head(todo[c]).j = "fcheck" /\ Job(c) \in Stmt /\ Job(c).j = "fcheck" /\ Sound(Job(c))
      /\ UNCHANGED shared
  BY JobIs DEF FwdCheck, Inv, Jobs, At, shared
<1>2. PICK x \in FwdStmt : x = Job(c) /\ x.j = "fcheck" /\ Sound(x)
  BY <1>1, StmtIs
<1>3. PICK y : y = [j |-> "finsert", r |-> x.r] OBVIOUS
<1>4. PICK ok : ok <=> (~ UrlTaken(x.r.url, {})) OBVIOUS
<1>5. Go(c, ok, <<y>>)
  BY <1>2, <1>3, <1>4 DEF FwdCheck, Go
<1>6. ok => y \in Stmt /\ y.j \in Plain
  BY <1>2, <1>3, <1>4 DEF Stmt, Plain, FwdStmt
<1> QED BY <1>1, <1>5, <1>6, PlainSound, GoOne

\* What FwdRead asks of the row.
MayEdit(x) ==
    /\ fwd[x.f] # None
    /\ fwd[x.f].builtin => x.e.field \notin {"url", "kind"}
    /\ x.e.field = "url" => ~ UrlTaken("u2", {x.f})

\* An upstream is edited: it is read.
LEMMA FwdReadInv ==
    ASSUME Inv, Observe, NEW c \in Clients, FwdRead(c)
    PROVE  Inv'
<1>1. /\ todo[c] # <<>> /\ Head(todo[c]).j = "fread" /\ Job(c) \in Stmt /\ Job(c).j = "fread" /\ Sound(Job(c))
      /\ UNCHANGED shared
  BY JobIs DEF FwdRead, Inv, Jobs, At, shared
<1>2. PICK x \in EditStmt : x = Job(c) /\ x.j = "fread" /\ Sound(x)
  BY <1>1, StmtIs
<1>3. PICK y : y = [x EXCEPT !.j = "fupdate"] OBVIOUS
<1>4. PICK ok : ok <=> MayEdit(x) OBVIOUS
<1>5. Go(c, ok, <<y>>)
  <2>1. Go(c, MayEdit(x), <<y>>) BY <1>2, <1>3 DEF FwdRead, MayEdit
  <2> QED BY <1>4, <2>1 DEF Go
<1>6. ok => y \in Stmt /\ y.j \in Plain
  BY <1>2, <1>3, <1>4 DEF Stmt, Plain, EditStmt
<1> QED BY <1>1, <1>5, <1>6, PlainSound, GoOne

\* An upstream is deleted: it is read.
LEMMA FwdFindInv ==
    ASSUME Inv, Observe, NEW c \in Clients, FwdFind(c)
    PROVE  Inv'
<1>1. /\ todo[c] # <<>> /\ Head(todo[c]).j = "ffind" /\ Job(c) \in Stmt /\ Job(c).j = "ffind" /\ Sound(Job(c))
      /\ UNCHANGED shared
  BY JobIs DEF FwdFind, Inv, Jobs, At, shared
<1>2. PICK x \in FwdIdStmt : x = Job(c) /\ x.j = "ffind" /\ Sound(x)
  BY <1>1, StmtIs
<1>3. PICK y : y = [j |-> "fdelete", f |-> x.f] OBVIOUS
<1>4. PICK ok : ok <=> (fwd[x.f] # None /\ ~ fwd[x.f].builtin) OBVIOUS
<1>5. Go(c, ok, <<y>>)
  BY <1>2, <1>3, <1>4 DEF FwdFind, Go
<1>6. ok => y \in Stmt /\ y.j \in Plain
  BY <1>2, <1>3, <1>4 DEF Stmt, Plain, FwdIdStmt
<1> QED BY <1>1, <1>5, <1>6, PlainSound, GoOne

\* A profile is created: the ban of its owner.
LEMMA CreateBanInv ==
    ASSUME Inv, Observe, NEW c \in Clients, CreateBan(c)
    PROVE  Inv'
<1>1. /\ todo[c] # <<>> /\ Head(todo[c]).j = "cban" /\ Job(c) \in Stmt /\ Job(c).j = "cban" /\ Sound(Job(c))
      /\ UNCHANGED shared
  BY JobIs DEF CreateBan, Inv, Jobs, At, shared
<1>2. PICK x \in CreateStmt : x = Job(c) /\ x.j = "cban" /\ Sound(x)
  BY <1>1, StmtIs
<1>3. PICK y : y = [x EXCEPT !.j = "ccount"] OBVIOUS
<1>4. PICK ok : ok <=> (~ Banned(x.u, "manage")) OBVIOUS
<1>5. Go(c, ok, <<y>>)
  BY <1>2, <1>3, <1>4 DEF CreateBan, Go
<1>6. ok => y \in Stmt /\ y.j \in Plain
  BY <1>2, <1>3, <1>4 DEF Stmt, Plain, CreateStmt
<1> QED BY <1>1, <1>5, <1>6, PlainSound, GoOne

\* A profile is created: the owner's profiles are counted.
LEMMA CreateCountInv ==
    ASSUME Inv, Observe, NEW c \in Clients, CreateCount(c)
    PROVE  Inv'
<1>1. /\ todo[c] # <<>> /\ Head(todo[c]).j = "ccount" /\ Job(c) \in Stmt /\ Job(c).j = "ccount" /\ Sound(Job(c))
      /\ UNCHANGED shared
  BY JobIs DEF CreateCount, Inv, Jobs, At, shared
<1>2. PICK x \in CreateStmt : x = Job(c) /\ x.j = "ccount" /\ Sound(x)
  BY <1>1, StmtIs
<1>3. PICK y : y = [x EXCEPT !.j = "ctaken"] OBVIOUS
<1>4. PICK ok : ok <=> (Count(x.u) < MaxProfiles) OBVIOUS
<1>5. Go(c, ok, <<y>>)
  BY <1>2, <1>3, <1>4 DEF CreateCount, Go
<1>6. ok => y \in Stmt /\ y.j \notin Critical /\ Sound(y)
  <2>1. y \in CreateStmt /\ y.j = "ctaken" /\ y.u = x.u BY <1>2, <1>3 DEF CreateStmt
  <2>2. y \in Stmt /\ y.j \notin Critical BY <2>1 DEF Stmt, Critical
  <2> QED BY <1>4, <2>1, <2>2 DEF Sound, Owns
<1> QED BY <1>1, <1>5, <1>6, GoOne

\* A user who is nobody else, or nobody, logs in with this name: it is free.
LEMMA FoundOwn ==
    ASSUME Tables, NEW n \in Names, NEW u, NEW v \in LoginFound(n), v \in {None, u}
    PROVE  OwnName(n, u)
<1>1. CASE LoginsNamed(n) = {}
  BY <1>1 DEF OwnName
<1>2. CASE LoginsNamed(n) # {}
  <2>1. v \in Members /\ Norm[login[v]] = Norm[n] /\ v = u
    BY <1>2, YggJoinAssumption DEF LoginFound, LoginsNamed, Members
  <2>2. \A w \in Members : Norm[login[w]] = Norm[login[v]] => w = v \/ Norm[login[v]] \in raced
    BY <2>1, NamesAre DEF Tables
  <2> QED BY <2>1, <2>2 DEF OwnName, LoginsNamed
<1> QED BY <1>1, <1>2

\* A profile is created: its name, and the account it is bound to.
LEMMA CreateTakenInv ==
    ASSUME Inv, Observe, NEW c \in Clients, CreateTaken(c)
    PROVE  Inv'
<1>1. /\ todo[c] # <<>> /\ Head(todo[c]).j = "ctaken" /\ Job(c) \in Stmt /\ Job(c).j = "ctaken" /\ Sound(Job(c))
      /\ UNCHANGED shared
  BY JobIs DEF CreateTaken, Inv, Jobs, At, shared
<1>2. PICK x \in CreateStmt : x = Job(c) /\ x.j = "ctaken" /\ Sound(x)
  BY <1>1, StmtIs
<1>3. PICK y : y = [x EXCEPT !.j = "cinsert"] OBVIOUS
<1>0. PICK v \in LoginFound(x.n) :
             Go(c, (x.m # None => WithUuid(x.m) = {}) /\ ~ NameTaken(x.n, x.u, {}, v), <<[x EXCEPT !.j = "cinsert"]>>)
  BY <1>2 DEF CreateTaken
<1>4. PICK ok : ok <=> (x.m # None => WithUuid(x.m) = {}) /\ ~ NameTaken(x.n, x.u, {}, v) OBVIOUS
<1>5. Go(c, ok, <<y>>)
  BY <1>0, <1>3, <1>4 DEF Go
<1>6. ok => y \in Stmt /\ y.j \notin Critical /\ Sound(y)
  <2>1. y \in CreateStmt /\ y.j = "cinsert" /\ y.u = x.u /\ y.n = x.n
    BY <1>2, <1>3 DEF CreateStmt
  <2>2. y \in Stmt /\ y.j \notin Critical BY <2>1 DEF Stmt, Critical
  <2>3. load.serial => Count(y.u) < MaxProfiles BY <1>2, <2>1 DEF Sound
  <2>4. ok => OwnName(y.n, y.u)
    BY <1>2, <1>4, <2>1, FoundOwn DEF NameTaken, CreateStmt, Inv
  <2> QED BY <2>1, <2>2, <2>3, <2>4 DEF Sound, Owns
<1> QED BY <1>1, <1>5, <1>6, GoOne

\* A profile is renamed: the ban of its owner.
LEMMA RenameBanInv ==
    ASSUME Inv, Observe, NEW c \in Clients, RenameBan(c)
    PROVE  Inv'
<1>1. /\ todo[c] # <<>> /\ Head(todo[c]).j = "nban" /\ Job(c) \in Stmt /\ Job(c).j = "nban" /\ Sound(Job(c))
      /\ UNCHANGED shared
  BY JobIs DEF RenameBan, Inv, Jobs, At, shared
<1>2. PICK x \in RenameStmt : x = Job(c) /\ x.j = "nban" /\ Sound(x)
  BY <1>1, StmtIs
<1>3. PICK y : y = [x EXCEPT !.j = "nread"] OBVIOUS
<1>4. PICK ok : ok <=> (x.p \in Live /\ ~ Banned(profile[x.p].owner, "manage")) OBVIOUS
<1>5. Go(c, ok, <<y>>)
  BY <1>2, <1>3, <1>4 DEF RenameBan, Go
<1>6. ok => y \in Stmt /\ y.j \in Plain
  BY <1>2, <1>3, <1>4 DEF Stmt, Plain, RenameStmt
<1> QED BY <1>1, <1>5, <1>6, PlainSound, GoOne

\* A profile is renamed: it is read.
LEMMA RenameReadInv ==
    ASSUME Inv, Observe, NEW c \in Clients, RenameRead(c)
    PROVE  Inv'
<1>1. /\ todo[c] # <<>> /\ Head(todo[c]).j = "nread" /\ Job(c) \in Stmt /\ Job(c).j = "nread" /\ Sound(Job(c))
      /\ UNCHANGED shared
  BY JobIs DEF RenameRead, Inv, Jobs, At, shared
<1>2. PICK x \in RenameStmt : x = Job(c) /\ x.j = "nread" /\ Sound(x)
  BY <1>1, StmtIs
<1>3. PICK y : y = [j |-> "ntaken", p |-> x.p, n |-> x.n, old |-> profile[x.p]] OBVIOUS
<1>4. PICK ok : ok <=> /\ x.p \in Live
                        /\ profile[x.p].name # x.n
                        /\ profile[x.p].source = "local"
                        /\ profile[x.p].renames < MaxRenames
  OBVIOUS
<1>5. Go(c, ok, <<y>>)
  BY <1>2, <1>3, <1>4 DEF RenameRead, Go
<1>6. ok => y \in Stmt /\ y.j \notin Critical /\ Sound(y)
  <2>1. SUFFICES ASSUME ok PROVE y \in Stmt /\ y.j \notin Critical /\ Sound(y) OBVIOUS
  <2>2. x.p \in ProfileIds /\ profile[x.p] \in Profile /\ x.p <= last.profile
    BY <1>4, <2>1 DEF Live, Inv, Tables, Typed, TypeOK, Ids
  <2>3. y \in RenamedStmt /\ y.j = "ntaken" /\ y.p = x.p /\ y.old = profile[x.p]
    BY <1>2, <1>3, <2>2 DEF RenameStmt, RenamedStmt
  <2>4. y \in Stmt /\ y.j \notin Critical BY <2>3 DEF Stmt, Critical
  <2> QED BY <1>4, <2>1, <2>2, <2>3, <2>4 DEF Sound, Owns
<1> QED BY <1>1, <1>5, <1>6, GoOne

\* A profile is renamed: its new name.
LEMMA RenameTakenInv ==
    ASSUME Inv, Observe, NEW c \in Clients, RenameTaken(c)
    PROVE  Inv'
<1>1. /\ todo[c] # <<>> /\ Head(todo[c]).j = "ntaken" /\ Job(c) \in Stmt /\ Job(c).j = "ntaken" /\ Sound(Job(c))
      /\ UNCHANGED shared
  BY JobIs DEF RenameTaken, Inv, Jobs, At, shared
<1>2. PICK x \in RenamedStmt : x = Job(c) /\ x.j = "ntaken" /\ Sound(x)
  BY <1>1, StmtIs
<1>3. PICK y : y = [x EXCEPT !.j = "ncommit"] OBVIOUS
<1>0. PICK v \in LoginFound(x.n) : Go(c, ~ NameTaken(x.n, x.old.owner, {x.p}, v), <<[x EXCEPT !.j = "ncommit"]>>)
  BY <1>2 DEF RenameTaken
<1>4. PICK ok : ok <=> ~ NameTaken(x.n, x.old.owner, {x.p}, v) OBVIOUS
<1>5. Go(c, ok, <<y>>)
  BY <1>0, <1>3, <1>4 DEF Go
<1>6. ok => y \in Stmt /\ y.j \notin Critical /\ Sound(y)
  <2>1. y \in RenamedStmt /\ y.j = "ncommit" /\ y.p = x.p /\ y.old = x.old /\ y.n = x.n
    BY <1>2, <1>3 DEF RenamedStmt
  <2>2. y \in Stmt /\ y.j \notin Critical BY <2>1 DEF Stmt, Critical
  <2>3. /\ y.p <= last.profile /\ (profile[y.p] # None => profile[y.p].owner = y.old.owner)
        /\ load.serial => profile[y.p] = y.old /\ y.old.renames < MaxRenames
    BY <1>2, <2>1 DEF Sound
  <2>4. ok => OwnName(y.n, y.old.owner)
    BY <1>2, <1>4, <2>1, FoundOwn DEF NameTaken, RenamedStmt, Inv
  <2> QED BY <2>1, <2>2, <2>3, <2>4 DEF Sound, Owns
<1> QED BY <1>1, <1>5, <1>6, GoOne

\* ensure_username_available.
LEMMA UsernameCheckInv ==
    ASSUME Inv, Observe, NEW c \in Clients, UsernameCheck(c)
    PROVE  Inv'
<1>1. /\ todo[c] # <<>> /\ Head(todo[c]).j = "ucheck" /\ Job(c) \in Stmt /\ Job(c).j = "ucheck"
      /\ UNCHANGED shared
  BY JobIs DEF UsernameCheck, Inv, Jobs, At, shared
<1>2. PICK x \in CheckStmt : x = Job(c)
  BY <1>1, StmtIs
<1>3. PICK k : k = IF x.u = None THEN "uinsert" ELSE "uupdate" OBVIOUS
<1>4. PICK y : y = [x EXCEPT !.j = k] OBVIOUS
<1>5. PICK v \in LoginFound(x.n) :
             Go(c, ~ UsernameTaken(x.n, x.u, v), <<[x EXCEPT !.j = IF x.u = None THEN "uinsert" ELSE "uupdate"]>>)
  BY <1>2 DEF UsernameCheck
<1>6. PICK ok : ok <=> ~ UsernameTaken(x.n, x.u, v) OBVIOUS
<1>7. Go(c, ok, <<y>>)
  BY <1>3, <1>4, <1>5, <1>6 DEF Go
<1>8. ok => y \in Stmt /\ y.j \notin Critical /\ Sound(y)
  <2>1. y \in InsertStmt \cup LoginStmt /\ y.j \in {"uinsert", "uupdate"} /\ y.u = x.u /\ y.n = x.n /\ x.n \in Names
    BY <1>2, <1>3, <1>4 DEF CheckStmt, InsertStmt, LoginStmt
  <2>2. y \in Stmt /\ y.j \notin Critical BY <2>1 DEF Stmt, Critical
  <2>3. ok => OwnName(y.n, y.u) BY <1>6, <2>1, FoundOwn DEF UsernameTaken, Inv
  <2>4. ok => OwnProfiles(y.n, y.u) BY <1>6, <2>1 DEF UsernameTaken, OwnProfiles
  <2> QED BY <2>1, <2>2, <2>3, <2>4 DEF Sound, Owns
<1> QED BY <1>1, <1>7, <1>8, GoOne

\* A ban is created: no scope of it is banned already.
LEMMA BanCheckInv ==
    ASSUME Inv, Observe, NEW c \in Clients, BanCheck(c)
    PROVE  Inv'
<1>1. /\ todo[c] # <<>> /\ Head(todo[c]).j = "bcheck" /\ Job(c) \in Stmt /\ Job(c).j = "bcheck" /\ Sound(Job(c))
      /\ UNCHANGED shared
  BY JobIs DEF BanCheck, Inv, Jobs, At, shared
<1>2. PICK x \in WishStmt : x = Job(c) /\ x.j = "bcheck" /\ Sound(x)
  BY <1>1, StmtIs
<1>3. PICK y : y = [j |-> "bcreate", r |-> [user |-> x.r.user, scopes |-> x.r.scopes, status |-> "active",
                                        start |-> now + x.r.later, end |-> x.r.end]]
  OBVIOUS
<1>4. PICK ok : ok <=> /\ x.r.user \in Members /\ x.r.end > now + x.r.later /\ x.r.scopes # {} /\ ~ Duplicate(x.r.user, x.r.scopes, {})
                        /\ last.ban < MaxBan
  OBVIOUS
<1>5. Go(c, ok, <<y>>)
  BY <1>2, <1>3, <1>4 DEF BanCheck, Go
<1>6. ok => y \in Stmt /\ y.j \notin Critical /\ Sound(y)
  <2>1. x.r \in Wish /\ now \in 0..MaxTime
    BY <1>2 DEF WishStmt, Inv, Tables, Typed, TypeOK
  <2>2. now + x.r.later \in 0..Forever BY <2>1, YggJoinAssumption DEF Wish, Forever
  <2>3. PICK r : r = [user |-> x.r.user, scopes |-> x.r.scopes, status |-> "active", start |-> now + x.r.later, end |-> x.r.end]
    OBVIOUS
  <2>4. r \in Ban BY <2>1, <2>2, <2>3 DEF Wish, Ban
  <2>5. y \in Stmt /\ y.j \in Plain BY <1>3, <2>3, <2>4 DEF Stmt, Plain, BanStmt
  <2> QED BY <2>5, PlainSound
<1> QED BY <1>1, <1>5, <1>6, GoOne

\* What BanRead asks of the row.
MayReban(x) ==
    LET old == ban[x.b] start == IF x.r.later = 1 THEN now + 1 ELSE old.start IN
    /\ Effective(x.b) /\ Len(log[x.b]) < MaxEvent
    /\ x.r.end > start
    /\ x.r.scopes # {}
    /\ x.r.scopes # old.scopes => ~ Duplicate(old.user, x.r.scopes, {x.b})

\* A ban is edited: it is read.
LEMMA BanReadInv ==
    ASSUME Inv, Observe, NEW c \in Clients, BanRead(c)
    PROVE  Inv'
<1>1. /\ todo[c] # <<>> /\ Head(todo[c]).j = "bread" /\ Job(c) \in Stmt /\ Job(c).j = "bread" /\ Sound(Job(c))
      /\ UNCHANGED shared
  BY JobIs DEF BanRead, Inv, Jobs, At, shared
<1>2. PICK x \in RebanStmt : x = Job(c) /\ x.j = "bread" /\ Sound(x)
  BY <1>1, StmtIs
<1>3. PICK y : y = [j |-> "bupdate", b |-> x.b, old |-> ban[x.b], scopes |-> x.r.scopes,
                  start |-> IF x.r.later = 1 THEN now + 1 ELSE ban[x.b].start, end |-> x.r.end]
  OBVIOUS
<1>4. PICK ok : ok <=> MayReban(x) OBVIOUS
<1>5. Go(c, ok, <<y>>)
  <2>1. Go(c, MayReban(x), <<y>>) BY <1>2, <1>3 DEF BanRead, MayReban
  <2> QED BY <1>4, <2>1 DEF Go
<1>6. ok => y \in Stmt /\ y.j \notin Critical /\ Sound(y)
  <2>1. SUFFICES ASSUME ok PROVE y \in Stmt /\ y.j \notin Critical /\ Sound(y) OBVIOUS
  <2>2. x.r \in Wish /\ now \in 0..MaxTime /\ x.b \in BanIds
    BY <1>2 DEF RebanStmt, Inv, Tables, Typed, TypeOK
  <2>3. ban[x.b] \in Ban /\ ban[x.b] # None
    <3>1. Effective(x.b) BY <1>4, <2>1 DEF MayReban
    <3> QED BY <2>2, <3>1 DEF Effective, Inv, Tables, Typed, TypeOK
  <2>4. now + 1 \in 0..Forever /\ ban[x.b].start \in 0..Forever
    BY <2>2, <2>3, YggJoinAssumption DEF Ban, Forever
  <2>5. PICK start : start = (IF x.r.later = 1 THEN now + 1 ELSE ban[x.b].start) /\ start \in 0..Forever
    BY <2>4
  <2>6. y \in UpdateStmt /\ y.j = "bupdate" /\ y.b = x.b /\ y.old = ban[x.b]
    BY <1>3, <2>2, <2>3, <2>5 DEF Wish, UpdateStmt
  <2>7. y \in Stmt /\ y.j \notin Critical BY <2>6 DEF Stmt, Critical
  <2> QED BY <2>3, <2>6, <2>7 DEF Sound, Owns
<1> QED BY <1>1, <1>5, <1>6, GoOne

\* A ban is revoked: it is read.
LEMMA RevokeReadInv ==
    ASSUME Inv, Observe, NEW c \in Clients, RevokeRead(c)
    PROVE  Inv'
<1>1. /\ todo[c] # <<>> /\ Head(todo[c]).j = "rread" /\ Job(c) \in Stmt /\ Job(c).j = "rread" /\ Sound(Job(c))
      /\ UNCHANGED shared
  BY JobIs DEF RevokeRead, Inv, Jobs, At, shared
<1>2. PICK x \in UnbanStmt : x = Job(c) /\ x.j = "rread" /\ Sound(x)
  BY <1>1, StmtIs
<1>3. PICK y : y = [j |-> "revoke", b |-> x.b, old |-> ban[x.b]] OBVIOUS
<1>4. PICK ok : ok <=> Effective(x.b) OBVIOUS
<1>5. Go(c, ok, <<y>>)
  BY <1>2, <1>3, <1>4 DEF RevokeRead, Go
<1>6. ok => y \in Stmt /\ y.j \notin Critical /\ Sound(y)
  <2>1. SUFFICES ASSUME ok PROVE y \in Stmt /\ y.j \notin Critical /\ Sound(y) OBVIOUS
  <2>2. x.b \in BanIds BY <1>2 DEF UnbanStmt
  <2>3. ban[x.b] \in Ban /\ ban[x.b] # None
    BY <1>4, <2>1, <2>2 DEF Effective, Inv, Tables, Typed, TypeOK
  <2>4. y \in RevokeStmt /\ y.j = "revoke" /\ y.b = x.b /\ y.old = ban[x.b]
    BY <1>3, <2>2, <2>3 DEF RevokeStmt
  <2>5. y \in Stmt /\ y.j \notin Critical BY <2>4 DEF Stmt, Critical
  <2> QED BY <2>3, <2>4, <2>5 DEF Sound, Owns
<1> QED BY <1>1, <1>5, <1>6, GoOne
\* A request goes on with one statement.
LEMMA ThenOne ==
    ASSUME Inv, Observe, NEW c \in Clients, todo[c] # <<>>, Head(todo[c]).j \notin {"flush", "drop", "drevoke"},
           NEW x \in Stmt, x.j \notin Critical, Sound(x), Then(c, <<x>>), UNCHANGED shared
    PROVE  Inv'
<1>1. Free(c) /\ List(todo[c])
  BY DEF Free, Inv, Jobs, JobsTyped
<1>2. Sets(c, <<x>>)
  BY <1>1, OneIsList, ThenAlone
<1> QED BY <1>1, <1>2, OneStep

\* hasJoined reads the list of upstreams.
LEMMA ListReadInv ==
    ASSUME Inv, Observe, NEW c \in Clients, ListRead(c)
    PROVE  Inv'
<1>1. /\ todo[c] # <<>> /\ Head(todo[c]).j = "lread" /\ Job(c) \in Stmt /\ Job(c).j = "lread"
      /\ UNCHANGED shared
  BY JobIs DEF ListRead, Inv, Jobs, At, shared
<1>2. PICK x \in AskStmt : x = Job(c) /\ x.j = "lread"
  BY <1>1, StmtIs
<1>3. PICK y : y = [j |-> "lfill", q |-> x.q, l |-> Enabled] OBVIOUS
<1>4. Then(c, <<y>>)
  BY <1>2, <1>3 DEF ListRead
<1>5. Enabled \subseteq Upstream
  <2>1. SUFFICES ASSUME NEW f \in FwdIds, fwd[f] # None
                 PROVE  [id |-> f, kind |-> fwd[f].kind, prio |-> fwd[f].prio] \in Upstream
    BY DEF Enabled
  <2>2. fwd[f] \in Fwd BY <2>1 DEF Inv, Tables, Typed, TypeOK
  <2> QED BY <2>2 DEF Fwd, Upstream
<1>6. y \in ListStmt /\ y.j = "lfill" /\ y.l = Enabled
  BY <1>2, <1>3, <1>5 DEF AskStmt, ListStmt
<1>7. y \in Stmt /\ y.j \notin Critical
  BY <1>6 DEF Stmt, Critical
<1>8. Sound(y)
  BY <1>6 DEF Sound, Owns
<1> QED BY <1>1, <1>4, <1>7, <1>8, ThenOne

\* hasJoined answers.
LEMMA ReplyInv ==
    ASSUME Inv, Observe, NEW c \in Clients, Reply(c)
    PROVE  Inv'
<1>1. todo[c] # <<>> /\ Head(todo[c]).j = "answer" /\ UNCHANGED shared /\ Sets(c, <<>>)
  BY DEF Reply, At, shared, Stop, Sets
<1> QED BY <1>1, StopStep DEF Free

\* profiles_by_names looks into the cache, then into the table.
LEMMA LookUpInv ==
    ASSUME Inv, Observe, NEW c \in Clients, LookUp(c)
    PROVE  Inv'
<1>1. /\ todo[c] # <<>> /\ Head(todo[c]).j = "look" /\ Job(c) \in Stmt /\ Job(c).j = "look"
      /\ UNCHANGED shared /\ Free(c)
  BY JobIs DEF LookUp, Inv, Jobs, At, shared, Free
<1>2. PICK x \in NameStmt : x = Job(c) /\ x.j = "look"
  BY <1>1, StmtIs
<1>3. CASE Stop(c)
  <2>1. Sets(c, <<>>) BY <1>3 DEF Stop, Sets
  <2> QED BY <1>1, <2>1, StopStep
<1>4. CASE \E p \in Named(x.n) : Then(c, <<[j |-> "fill", p |-> p, n |-> x.n]>>)
  <2>1. PICK p \in Named(x.n) : Then(c, <<[j |-> "fill", p |-> p, n |-> x.n]>>) BY <1>4
  <2>2. PICK y : y = [j |-> "fill", p |-> p, n |-> x.n] OBVIOUS
  <2>3. p \in ProfileIds /\ profile[p] # None /\ Norm[profile[p].name] = Norm[x.n]
    BY DEF Named, Live
  <2>4. y \in FillStmt /\ y.j = "fill" /\ y.p = p /\ y.n = x.n
    BY <1>2, <2>2, <2>3 DEF NameStmt, FillStmt
  <2>5. y \in Stmt /\ y.j \notin Critical BY <2>4 DEF Stmt, Critical
  <2>6. p <= last.profile BY <2>3 DEF Inv, Tables, Ids
  <2>7. Sound(y) BY <2>3, <2>4, <2>6 DEF Sound, Owns
  <2> QED BY <1>1, <2>1, <2>2, <2>5, <2>7, ThenOne
<1> QED BY <1>2, <1>3, <1>4 DEF LookUp

\* create_profile_for_external_auth chooses a name.
LEMMA ChooseNameInv ==
    ASSUME Inv, Observe, NEW c \in Clients, ChooseName(c)
    PROVE  Inv'
<1>1. /\ todo[c] # <<>> /\ Head(todo[c]).j = "auto" /\ Job(c) \in Stmt /\ Job(c).j = "auto"
      /\ UNCHANGED shared
  BY JobIs DEF ChooseName, Inv, Jobs, At, shared
<1>2. PICK x \in AutoStmt : x = Job(c) /\ x.j = "auto"
  BY <1>1, StmtIs
<1>3. x.names \in Seq(Names) /\ x.names # <<>> /\ x.u \in Users
  BY DEF AutoStmt
<1>4. Head(x.names) \in Names /\ Tail(x.names) \in Seq(Names) /\ Len(Tail(x.names)) = Len(x.names) - 1
  BY <1>3, HeadTailProperties
<1>0. PICK v \in LoginFound(Head(x.names)) :
         IF Len(x.names) > 1 /\ NameTaken(Head(x.names), x.u, {}, v) THEN Then(c, <<[x EXCEPT !.names = Tail(@)]>>)
         ELSE Then(c, <<[j |-> "cban", u |-> x.u, n |-> Head(x.names), m |-> None]>>)
  BY <1>2 DEF ChooseName
<1>5. CASE Len(x.names) > 1 /\ Then(c, <<[x EXCEPT !.names = Tail(@)]>>)
  <2>1. PICK y : y = [x EXCEPT !.names = Tail(@)] OBVIOUS
  <2>2. Tail(x.names) # <<>>
    <3>1. PICK t : t = Tail(x.names) OBVIOUS
    <3>2. Len(x.names) \in Nat BY <1>3, LenProperties
    <3>3. Len(t) # 0 BY <1>4, <1>5, <3>1, <3>2
    <3>4. t # <<>> BY <3>3
    <3> QED BY <3>1, <3>4
  <2>3. y \in AutoStmt /\ y.j = "auto" BY <1>2, <1>4, <2>1, <2>2 DEF AutoStmt
  <2>4. y \in Stmt /\ y.j \in Plain BY <2>3 DEF Stmt, Plain
  <2> QED BY <1>1, <1>5, <2>1, <2>4, PlainSound, ThenOne
<1>6. CASE Then(c, <<[j |-> "cban", u |-> x.u, n |-> Head(x.names), m |-> None]>>)
  <2>1. PICK y : y = [j |-> "cban", u |-> x.u, n |-> Head(x.names), m |-> None] OBVIOUS
  <2>2. y \in Stmt /\ y.j \in Plain BY <1>3, <1>4, <2>1 DEF Stmt, Plain, CreateStmt
  <2> QED BY <1>1, <1>6, <2>1, <2>2, PlainSound, ThenOne
<1> QED BY <1>0, <1>5, <1>6

\* A profile is deleted: it is read.
LEMMA DeleteReadInv ==
    ASSUME Inv, Observe, NEW c \in Clients, DeleteRead(c)
    PROVE  Inv'
<1>1. /\ todo[c] # <<>> /\ Head(todo[c]).j = "dread" /\ Job(c) \in Stmt /\ Job(c).j = "dread"
      /\ UNCHANGED shared /\ Free(c) /\ List(todo[c])
  BY JobIs DEF DeleteRead, Inv, Jobs, At, shared, Free
<1>2. PICK x \in DeleteStmt : x = Job(c) /\ x.j = "dread"
  BY <1>1, StmtIs
<1>3. PICK y, z : y = [j |-> "drevoke", p |-> x.p] /\ z = [j |-> "drow", p |-> x.p] OBVIOUS
<1>4. y \in Stmt /\ z \in Stmt /\ y.j = "drevoke" /\ z.j = "drow"
  BY <1>2, <1>3 DEF Stmt, DeleteStmt
<1>5. PICK ok : ok <=> (x.p \in Live /\ ~ Banned(profile[x.p].owner, "manage") /\ profile[x.p].source = "local")
  OBVIOUS
<1>6. Go(c, ok, <<y, z>>)
  BY <1>2, <1>3, <1>5 DEF DeleteRead, Go
<1>7. List(<<y, z>>) /\ Len(<<y, z>>) = 2 /\ <<y, z>>[1] = y /\ <<y, z>>[2] = z /\ Head(<<y, z>>) = y
  BY <1>4, TwoIsList
<1>8. Sound(y) /\ Sound(z)
  BY <1>4, PlainSound DEF Plain
<1>9. SoundList(<<y, z>>) /\ Calm(<<y, z>>)
  <2>1. \A n \in 1..2 : n = 1 \/ n = 2 OBVIOUS
  <2> QED BY <1>4, <1>7, <1>8, <2>1 DEF SoundList, Calm, Critical
<1>10. Sets(c, <<y, z>>) \/ Sets(c, <<>>)
  BY <1>1, <1>6, <1>7, GoAlone
<1> QED BY <1>1, <1>7, <1>9, <1>10, ReadStep, StopStep

-----------------------------------------------------------------------------
(* hasJoined                                                               *)

\* What keeps players out.
LEMMA StayOutIs ==
    /\ \A p : <<"gone", p>> \in StayOut => p \in ProfileIds /\ profile[p] = None
    /\ \A u : <<"banned", u>> \in StayOut => Banned(u, "join")
    /\ \A m : <<"unbound", m>> \in StayOut => ~ Bound(m)
<1>1. \A p : <<"gone", p>> \in StayOut => p \in ProfileIds /\ profile[p] = None
  BY DEF StayOut, Live
<1>2. \A u : <<"banned", u>> \in StayOut => Banned(u, "join")
  BY DEF StayOut
<1>3. \A m : <<"unbound", m>> \in StayOut => ~ Bound(m)
  BY DEF StayOut
<1> QED BY <1>1, <1>2, <1>3

\* What is known of a question that is under way.
LEMMA AskIs ==
    ASSUME Inv, NEW c \in Clients, todo[c] # <<>>
    PROVE  /\ \A p : profile[p] # None => <<"gone", p>> \notin shut[c]
           /\ \A u : ~ Banned(u, "join") => <<"banned", u>> \notin shut[c]
           /\ \A m : Bound(m) => <<"unbound", m>> \notin shut[c]
           /\ Answering(c, Job(c)) /\ Finding(c, Job(c))
           /\ sure[c] # None => /\ joined[Job(c).q.s].p = sure[c] /\ Fits(joined[Job(c).q.s], Job(c).q)
                                /\ profile[sure[c]] # None /\ ~ Banned(profile[sure[c]].owner, "join")
<1>1. shut[c] \subseteq StayOut /\ Answering(c, Job(c)) /\ Finding(c, Job(c))
  BY DEF Inv, HistoryInv
<1>2. sure[c] # None => Player(Job(c).q) = sure[c]
  BY DEF Inv, HistoryInv
<1>3. sure[c] # None => HasJoined(Job(c).q) /\ joined[Job(c).q.s].p = sure[c]
  BY <1>2 DEF Player
<1> QED BY <1>1, <1>3, StayOutIs DEF HasJoined, Live

\* A question goes on.
LEMMA ThenAsk ==
    ASSUME Inv, Observe, NEW c \in Clients, todo[c] # <<>>, Head(todo[c]).j \notin {"flush", "drop", "drevoke"},
           NEW x \in Stmt, x.j # "list", Sound(x), Then(c, <<x>>), UNCHANGED shared,
           shut'[c] \subseteq shut[c] /\ (sure'[c] # None => sure'[c] = sure[c]) =>
               Answering(c, x)' /\ Finding(c, x)'
    PROVE  Inv'
<1>1. Free(c) /\ List(todo[c]) /\ JobsTyped /\ HistoryInv
  BY DEF Free, Inv, Jobs, JobsTyped
<1>2. Sets(c, <<x>>) /\ List(<<x>>) /\ Head(<<x>>) = x /\ <<x>> # <<>>
  BY <1>1, OneIsList, ThenAlone
<1>3. todo'[c] = <<x>>
  BY <1>1, <1>2, SetsTodo
<1>4. shut'[c] \subseteq shut[c] /\ (sure'[c] # None => sure'[c] = sure[c])
  BY <1>1, <1>2, <1>3, Observed
<1> QED BY <1>1, <1>2, <1>4, AskStep
\* A question that goes on without letting anybody in, and either nobody has joined for sure or the local
\* check is still ahead.
LEMMA SearchOn ==
    ASSUME Inv, Observe, NEW c \in Clients, todo[c] # <<>>, Head(todo[c]).j \notin {"flush", "drop", "drevoke"},
           NEW x \in NextStmt \cup CallStmt \cup BoundStmt, Then(c, <<x>>), UNCHANGED shared,
           sure[c] # None /\ x.j # "lget" => x.all # {} /\ (HasLocal(x.all) => HasLocal(x.rest))
    PROVE  Inv'
<1>1. x.j \in {"next", "lget", "call", "bound"} /\ x \in Stmt
  BY DEF NextStmt, CallStmt, BoundStmt, Stmt
<1>2. Sound(x) /\ x.j # "list"
  BY <1>1 DEF Sound, Owns
<1>3. ASSUME shut'[c] \subseteq shut[c] /\ (sure'[c] # None => sure'[c] = sure[c])
      PROVE  Answering(c, x)' /\ Finding(c, x)'
  BY <1>1, <1>3 DEF Answering, Finding, HasLocal
<1> QED BY <1>1, <1>2, <1>3, ThenAsk

\* A question is answered.
LEMMA AnswerGiven ==
    ASSUME Inv, Observe, NEW c \in Clients, todo[c] # <<>>, Head(todo[c]).j \notin {"flush", "drop", "drevoke"},
           NEW q \in Query, NEW all \in SUBSET Upstream, NEW who \in Who,
           Then(c, <<[j |-> "answer", q |-> q, all |-> all, who |-> who]>>), UNCHANGED shared,
           who.via = "local" => /\ who.id \in ProfileIds /\ who.id <= last.profile
                                /\ <<"gone", who.id>> \notin shut[c]
                                /\ profile[who.id] # None => <<"banned", profile[who.id].owner>> \notin shut[c],
           who.via = "mojang" => <<"unbound", who.id>> \notin shut[c],
           who = Nobody /\ sure[c] # None => all # {} /\ ~ HasLocal(all)
    PROVE  Inv'
<1>1. PICK x : x = [j |-> "answer", q |-> q, all |-> all, who |-> who] OBVIOUS
<1>2. x \in AnswerStmt /\ x.j = "answer" /\ x.who = who /\ x.all = all
  BY <1>1 DEF AnswerStmt
<1>3. x \in Stmt
  BY <1>2 DEF Stmt
<1>4. Sound(x)
  BY <1>2 DEF Sound, Owns
<1>5. profile' = profile
  BY DEF shared, playState
<1>6. ASSUME shut'[c] \subseteq shut[c] /\ (sure'[c] # None => sure'[c] = sure[c])
      PROVE  Answering(c, x)' /\ Finding(c, x)'
  <2>1. Answering(c, x)' BY <1>2, <1>5, <1>6 DEF Answering
  <2>2. Finding(c, x)' BY <1>2, <1>6 DEF Finding, HasLocal
  <2> QED BY <2>1, <2>2
<1> QED BY <1>1, <1>2, <1>3, <1>4, <1>6, ThenAsk

\* Nobody is a possible answer.
LEMMA NobodyIs == Nobody \in Who /\ Nobody.via = "none"
  BY DEF Nobody, Who

\* A list leads to its first upstream, or to the local check alone.
LEMMA SurveyIs ==
    ASSUME NEW q \in Query, NEW l \in SUBSET Upstream
    PROVE  LET x == [j |-> IF l = {} THEN "lget" ELSE "next", q |-> q, all |-> l, rest |-> l, f |-> None]
           IN  x \in NextStmt /\ (x.j # "lget" => x.all # {}) /\ x.rest = x.all
  BY DEF NextStmt

\* hasJoined looks into the cached list.
LEMMA ListHitInv ==
    ASSUME Inv, Observe, NEW c \in Clients, ListHit(c)
    PROVE  Inv'
<1>1. /\ todo[c] # <<>> /\ Head(todo[c]).j = "list" /\ Job(c) \in Stmt /\ Job(c).j = "list"
      /\ UNCHANGED shared
  BY JobIs DEF ListHit, Inv, Jobs, At, shared
<1>2. PICK x \in AskStmt : x = Job(c) /\ x.j = "list"
  BY <1>1, StmtIs
<1>3. x.q \in Query
  BY DEF AskStmt
<1>4. CASE list # None
  <2>1. list \in SUBSET Upstream BY <1>4 DEF Inv, Tables, Typed
  <2>2. PICK y : y = [j |-> IF list = {} THEN "lget" ELSE "next", q |-> x.q, all |-> list, rest |-> list, f |-> None]
    OBVIOUS
  <2>3. y \in NextStmt /\ (y.j # "lget" => y.all # {}) /\ y.rest = y.all
    BY <1>3, <2>1, <2>2, SurveyIs
  <2>4. Then(c, <<y>>) BY <1>2, <1>4, <2>2 DEF ListHit, Survey
  <2> QED BY <1>1, <2>3, <2>4, SearchOn
<1>5. CASE list = None
  <2>1. PICK y : y = [x EXCEPT !.j = "lread"] OBVIOUS
  <2>2. y \in Stmt /\ y.j \in Plain BY <1>2, <2>1 DEF Stmt, AskStmt, Plain
  <2>3. Then(c, <<y>>) BY <1>2, <1>5, <2>1 DEF ListHit
  <2> QED BY <1>1, <2>2, <2>3, PlainSound, ThenOne
<1> QED BY <1>4, <1>5

\* The next upstream is chosen.
LEMMA NextUpstreamInv ==
    ASSUME Inv, Observe, NEW c \in Clients, NextUpstream(c)
    PROVE  Inv'
<1>1. /\ todo[c] # <<>> /\ Head(todo[c]).j = "next" /\ Job(c) \in Stmt /\ Job(c).j = "next"
      /\ UNCHANGED shared
  BY JobIs DEF NextUpstream, Inv, Jobs, At, shared
<1>2. PICK x \in NextStmt : x = Job(c) /\ x.j = "next"
  BY <1>1, StmtIs
<1>3. x.q \in Query /\ x.all \in SUBSET Upstream /\ x.rest \in SUBSET Upstream
  BY DEF NextStmt
<1>4. sure[c] # None => x.all # {} /\ (HasLocal(x.all) => HasLocal(x.rest))
  BY <1>1, <1>2, AskIs DEF Finding
<1>5. CASE x.rest = {}
  <2>1. Then(c, <<[j |-> "answer", q |-> x.q, all |-> x.all, who |-> Nobody]>>)
    BY <1>2, <1>5 DEF NextUpstream, Answer
  <2>2. sure[c] # None => x.all # {} /\ ~ HasLocal(x.all) BY <1>4, <1>5 DEF HasLocal
  <2> QED BY <1>1, <1>3, <2>1, <2>2, NobodyIs, AnswerGiven
<1>6. CASE x.rest # {}
  <2>1. PICK r \in Foremost(x.rest) :
            Then(c, <<[x EXCEPT !.j = IF r.kind = "local" THEN "lget" ELSE "call", !.f = r.id, !.rest = @ \ {r}]>>)
    BY <1>2, <1>6 DEF NextUpstream
  <2>2. r \in Upstream /\ r.id \in FwdIds /\ r \in x.rest BY <1>3 DEF Foremost, Upstream
  <2>3. PICK y : y = [x EXCEPT !.j = IF r.kind = "local" THEN "lget" ELSE "call", !.f = r.id, !.rest = @ \ {r}]
    OBVIOUS
  <2>4. y.all = x.all /\ y.rest = x.rest \ {r} /\ y.j = (IF r.kind = "local" THEN "lget" ELSE "call")
    BY <1>2, <2>3 DEF NextStmt
  <2>5. y \in NextStmt \cup CallStmt BY <1>2, <1>3, <2>2, <2>3 DEF NextStmt, CallStmt
  <2>6. sure[c] # None /\ y.j # "lget" => y.all # {} /\ (HasLocal(y.all) => HasLocal(y.rest))
    BY <1>4, <2>4 DEF HasLocal
  <2> QED BY <1>1, <2>1, <2>3, <2>5, <2>6, SearchOn
<1> QED BY <1>5, <1>6
\* The upstreams of a question and where it is.
Asked(x) == x.q \in Query /\ x.all \in SUBSET Upstream /\ x.rest \in SUBSET Upstream /\ x.f \in FwdIds \cup {None}

\* No session here: the next upstream, or the end of a local check without upstreams.
LEMMA OnwardInv ==
    ASSUME Inv, Observe, NEW c \in Clients, todo[c] # <<>>, Head(todo[c]).j \notin {"flush", "drop", "drevoke"},
           NEW x, Asked(x), Onward(c, x), UNCHANGED shared,
           sure[c] # None => x.f # None /\ x.all # {} /\ (HasLocal(x.all) => HasLocal(x.rest))
    PROVE  Inv'
<1>1. x.q \in Query /\ x.all \in SUBSET Upstream /\ x.rest \in SUBSET Upstream /\ x.f \in FwdIds \cup {None}
  BY DEF Asked
<1>2. CASE x.f = None
  <2>1. Then(c, <<[j |-> "answer", q |-> x.q, all |-> x.all, who |-> Nobody]>>)
    BY <1>2 DEF Onward, Answer
  <2>2. sure[c] = None BY <1>2
  <2> QED BY <1>1, <2>1, <2>2, NobodyIs, AnswerGiven
<1>3. CASE x.f # None
  <2>1. PICK y : y = [j |-> "next", q |-> x.q, all |-> x.all, rest |-> x.rest, f |-> x.f] OBVIOUS
  <2>2. y \in NextStmt /\ y.all = x.all /\ y.rest = x.rest BY <1>1, <2>1 DEF NextStmt
  <2>3. Then(c, <<y>>) BY <1>3, <2>1 DEF Onward
  <2> QED BY <2>2, <2>3, SearchOn
<1> QED BY <1>2, <1>3

\* The local check looks for the join.
LEMMA LocalGetInv ==
    ASSUME Inv, Observe, NEW c \in Clients, LocalGet(c)
    PROVE  Inv'
<1>1. /\ todo[c] # <<>> /\ Head(todo[c]).j = "lget" /\ Job(c) \in Stmt /\ Job(c).j = "lget"
      /\ UNCHANGED shared
  BY JobIs DEF LocalGet, Inv, Jobs, At, shared
<1>2. PICK x \in NextStmt : x = Job(c) /\ x.j = "lget"
  BY <1>1, StmtIs
<1>3. Asked(x) /\ x.q.s \in Servers
  BY DEF NextStmt, Asked, Query
<1>4. sure[c] # None => Fits(joined[x.q.s], x.q) /\ joined[x.q.s].p = sure[c]
  BY <1>1, <1>2, AskIs
<1>5. CASE Fits(joined[x.q.s], x.q)
  <2>1. joined[x.q.s] \in Entry BY <1>3, <1>5 DEF Fits, Inv, Tables, Typed, TypeOK
  <2>2. PICK p \in ProfileIds : p = joined[x.q.s].p BY <2>1 DEF Entry
  <2>3. PICK y : y = [j |-> "lprofile", q |-> x.q, all |-> x.all, rest |-> x.rest, f |-> x.f, p |-> p]
    OBVIOUS
  <2>4. y \in PlayerStmt /\ y.j = "lprofile" /\ y.p = p
    BY <1>3, <2>3 DEF PlayerStmt, Asked
  <2>5. y \in Stmt /\ Sound(y) BY <2>4 DEF Stmt, Sound, Owns
  <2>6. Then(c, <<y>>) BY <1>2, <1>5, <2>2, <2>3 DEF LocalGet
  <2>7. ASSUME shut'[c] \subseteq shut[c] /\ (sure'[c] # None => sure'[c] = sure[c])
        PROVE  Answering(c, y)' /\ Finding(c, y)'
    BY <1>4, <2>2, <2>4, <2>7 DEF Answering, Finding
  <2> QED BY <1>1, <2>4, <2>5, <2>6, <2>7, ThenAsk
<1>6. CASE ~ Fits(joined[x.q.s], x.q)
  <2>1. Onward(c, x) BY <1>2, <1>6 DEF LocalGet
  <2> QED BY <1>1, <1>3, <1>4, <1>6, <2>1, OnwardInv
<1> QED BY <1>5, <1>6

\* The local check reads the profile.
LEMMA LocalProfileInv ==
    ASSUME Inv, Observe, NEW c \in Clients, LocalProfile(c)
    PROVE  Inv'
<1>1. /\ todo[c] # <<>> /\ Head(todo[c]).j = "lprofile" /\ Job(c) \in Stmt /\ Job(c).j = "lprofile"
      /\ UNCHANGED shared /\ Free(c)
  BY JobIs DEF LocalProfile, Inv, Jobs, At, shared, Free
<1>2. PICK x \in PlayerStmt : x = Job(c) /\ x.j = "lprofile"
  BY <1>1, StmtIs
<1>3. Asked(x) /\ x.p \in ProfileIds
  BY DEF PlayerStmt, Asked
<1>4. sure[c] # None => x.p = sure[c] /\ profile[sure[c]] # None
  BY <1>1, <1>2, AskIs DEF Finding
<1>5. CASE x.p \in Live
  <2>1. profile[x.p] \in Profile /\ profile[x.p] # None /\ x.p <= last.profile
    BY <1>3, <1>5 DEF Live, Inv, Tables, Typed, TypeOK, Ids
  <2>2. PICK u \in Users : u = profile[x.p].owner BY <2>1 DEF Profile
  <2>3. PICK y : y = [j |-> "lban", q |-> x.q, all |-> x.all, rest |-> x.rest, f |-> x.f, p |-> x.p, u |-> u]
    OBVIOUS
  <2>4. y \in OwnerStmt /\ y.j = "lban" /\ y.p = x.p /\ y.u = u
    BY <1>3, <2>3 DEF OwnerStmt, Asked
  <2>5. y \in Stmt /\ Sound(y) BY <2>1, <2>2, <2>4 DEF Stmt, Sound, Owns
  <2>6. Then(c, <<y>>) BY <1>2, <1>5, <2>2, <2>3 DEF LocalProfile
  <2>7. <<"gone", x.p>> \notin shut[c] BY <1>1, <2>1, AskIs
  <2>8. ASSUME shut'[c] \subseteq shut[c] /\ (sure'[c] # None => sure'[c] = sure[c])
        PROVE  Answering(c, y)' /\ Finding(c, y)'
    BY <1>4, <2>4, <2>7, <2>8 DEF Answering, Finding
  <2> QED BY <1>1, <2>4, <2>5, <2>6, <2>8, ThenAsk
<1>6. CASE x.p \notin Live
  <2>1. sure[c] = None BY <1>3, <1>4, <1>6 DEF Live
  <2>2. CASE Stop(c)
    <3>1. Sets(c, <<>>) BY <2>2 DEF Stop, Sets
    <3> QED BY <1>1, <3>1, StopStep
  <2>3. CASE Onward(c, x) BY <1>1, <1>3, <2>1, <2>3, OnwardInv
  <2> QED BY <1>2, <1>6, <2>2, <2>3 DEF LocalProfile
<1> QED BY <1>5, <1>6

\* The local check looks at the ban: who is banned all the time is not let in, who may is found.
LEMMA LocalBanInv ==
    ASSUME Inv, Observe, NEW c \in Clients, LocalBan(c)
    PROVE  Inv'
<1>1. /\ todo[c] # <<>> /\ Head(todo[c]).j = "lban" /\ Job(c) \in Stmt /\ Job(c).j = "lban" /\ Sound(Job(c))
      /\ UNCHANGED shared
  BY JobIs DEF LocalBan, Inv, Jobs, At, shared
<1>2. PICK x \in OwnerStmt : x = Job(c) /\ x.j = "lban"
  BY <1>1, StmtIs
<1>3. Asked(x) /\ x.p \in ProfileIds /\ x.u \in Users
  BY DEF OwnerStmt, Asked
<1>4. x.p <= last.profile /\ (profile[x.p] # None => profile[x.p].owner = x.u)
  BY <1>1, <1>2 DEF Sound
<1>5. CASE Banned(x.u, "join")
  <2>1. sure[c] = None
    <3>1. sure[c] # None => x.p = sure[c] /\ profile[sure[c]] # None /\ ~ Banned(profile[sure[c]].owner, "join")
      BY <1>1, <1>2, AskIs DEF Finding
    <3> QED BY <1>4, <1>5, <3>1
  <2>2. Onward(c, x) BY <1>2, <1>5 DEF LocalBan
  <2> QED BY <1>1, <1>3, <2>1, <2>2, OnwardInv
<1>6. CASE ~ Banned(x.u, "join")
  <2>1. PICK who : who = [via |-> "local", id |-> x.p] OBVIOUS
  <2>2. who \in Who /\ who.via = "local" /\ who.id = x.p /\ who # Nobody
    BY <1>3, <2>1 DEF Who, Nobody
  <2>3. Then(c, <<[j |-> "answer", q |-> x.q, all |-> x.all, who |-> who]>>)
    BY <1>2, <1>6, <2>1 DEF LocalBan, Answer
  <2>4. <<"gone", x.p>> \notin shut[c] /\ <<"banned", x.u>> \notin shut[c]
    BY <1>1, <1>2, <1>6, AskIs DEF Answering
  <2>5. who.via = "local" => /\ who.id \in ProfileIds /\ who.id <= last.profile
                             /\ <<"gone", who.id>> \notin shut[c]
                             /\ profile[who.id] # None => <<"banned", profile[who.id].owner>> \notin shut[c]
    BY <1>3, <1>4, <2>2, <2>4
  <2> QED BY <1>1, <1>3, <2>2, <2>3, <2>5, AnswerGiven DEF Asked
<1> QED BY <1>5, <1>6

\* An upstream is asked.
LEMMA CallUpstreamInv ==
    ASSUME Inv, Observe, NEW c \in Clients, CallUpstream(c)
    PROVE  Inv'
<1>1. /\ todo[c] # <<>> /\ Head(todo[c]).j = "call" /\ Job(c) \in Stmt /\ Job(c).j = "call"
      /\ UNCHANGED shared
  BY JobIs DEF CallUpstream, Inv, Jobs, At, shared
<1>2. PICK x \in CallStmt : x = Job(c) /\ x.j = "call"
  BY <1>1, StmtIs
<1>3. Asked(x) /\ x.f \in FwdIds /\ x.f # None
  BY YggJoinAssumption DEF CallStmt, Asked, FwdIds
<1>4. sure[c] # None => x.all # {} /\ (HasLocal(x.all) => HasLocal(x.rest))
  BY <1>1, <1>2, AskIs DEF Finding
<1>5. CASE Onward(c, x)
  BY <1>1, <1>3, <1>4, <1>5, OnwardInv
<1>6. CASE \E m \in Official : Then(c, <<[j |-> "bound", q |-> x.q, all |-> x.all, rest |-> x.rest, f |-> x.f, m |-> m]>>)
  <2>1. PICK m \in Official : Then(c, <<[j |-> "bound", q |-> x.q, all |-> x.all, rest |-> x.rest, f |-> x.f, m |-> m]>>)
    BY <1>6
  <2>2. PICK y : y = [j |-> "bound", q |-> x.q, all |-> x.all, rest |-> x.rest, f |-> x.f, m |-> m]
    OBVIOUS
  <2>3. y \in BoundStmt /\ y.all = x.all /\ y.rest = x.rest
    BY <1>3, <2>2 DEF BoundStmt, Asked
  <2> QED BY <1>1, <1>4, <2>1, <2>2, <2>3, SearchOn
<1>7. CASE Answer(c, x, [via |-> "authlib", id |-> None])
  <2>1. PICK who : who = [via |-> "authlib", id |-> None] OBVIOUS
  <2>2. who \in Who /\ who.via = "authlib" /\ who # Nobody BY <2>1 DEF Who, Nobody
  <2>3. Then(c, <<[j |-> "answer", q |-> x.q, all |-> x.all, who |-> who]>>)
    BY <1>7, <2>1 DEF Answer
  <2> QED BY <1>1, <1>3, <2>2, <2>3, AnswerGiven DEF Asked
<1> QED BY <1>2, <1>5, <1>6, <1>7 DEF CallUpstream

\* An official account must be bound.
LEMMA CheckBoundInv ==
    ASSUME Inv, Observe, NEW c \in Clients, CheckBound(c)
    PROVE  Inv'
<1>1. /\ todo[c] # <<>> /\ Head(todo[c]).j = "bound" /\ Job(c) \in Stmt /\ Job(c).j = "bound"
      /\ UNCHANGED shared
  BY JobIs DEF CheckBound, Inv, Jobs, At, shared
<1>2. PICK x \in BoundStmt : x = Job(c) /\ x.j = "bound"
  BY <1>1, StmtIs
<1>3. Asked(x) /\ x.f # None /\ x.m \in Official
  BY YggJoinAssumption DEF BoundStmt, Asked, FwdIds
<1>4. sure[c] # None => x.all # {} /\ (HasLocal(x.all) => HasLocal(x.rest))
  BY <1>1, <1>2, AskIs DEF Finding
<1>5. CASE Bound(x.m)
  <2>1. PICK who : who = [via |-> "mojang", id |-> x.m] OBVIOUS
  <2>2. who \in Who /\ who.via = "mojang" /\ who.id = x.m /\ who # Nobody
    BY <1>3, <2>1 DEF Who, Nobody
  <2>3. Then(c, <<[j |-> "answer", q |-> x.q, all |-> x.all, who |-> who]>>)
    BY <1>2, <1>5, <2>1 DEF CheckBound, Answer
  <2>4. <<"unbound", x.m>> \notin shut[c] BY <1>1, <1>5, AskIs
  <2> QED BY <1>1, <1>3, <2>2, <2>3, <2>4, AnswerGiven DEF Asked
<1>6. CASE ~ Bound(x.m)
  <2>1. Onward(c, x) BY <1>2, <1>6 DEF CheckBound
  <2> QED BY <1>1, <1>3, <1>4, <2>1, OnwardInv
<1> QED BY <1>5, <1>6
-----------------------------------------------------------------------------
(* Writes to caches, tokens and the clock                                  *)

\* The tables that statements rely on.
base == <<profile, login, banState, fwd, last, load>>

\* The other variables may be written.
SideTyped ==
    /\ token' \in [ProfileIds -> {"none", "ok", "paused"}] /\ joined' \in [Servers -> Entry \cup {None}]
    /\ list' \in (SUBSET Upstream) \cup {None} /\ summary' \in [Names -> ProfileIds \cup {None}]
    /\ \A n \in Names : summary'[n] # None => summary'[n] <= last.profile
    /\ now' \in 0..MaxTime /\ faults' \in Nat /\ faults' <= faults

\* What the other variables hold before.
LEMMA SideBefore ==
    ASSUME Tables
    PROVE  /\ token \in [ProfileIds -> {"none", "ok", "paused"}] /\ joined \in [Servers -> Entry \cup {None}]
           /\ list \in (SUBSET Upstream) \cup {None} /\ summary \in [Names -> ProfileIds \cup {None}]
           /\ \A n \in Names : summary[n] # None => summary[n] <= last.profile
           /\ now \in 0..MaxTime /\ faults \in Nat /\ faults <= faults /\ load.faults \in Nat /\ faults <= load.faults
           /\ last.profile \in Nat
<1>1. load \in Workloads /\ last.profile \in 0..MaxProfile /\ faults \in Nat
  BY DEF Tables, Typed, TypeOK
<1>2. load.faults \in Nat /\ last.profile \in Nat
  BY <1>1, YggJoinAssumption
<1>3. faults <= faults
  BY <1>1
<1> QED BY <1>2, <1>3 DEF Tables, Typed, TypeOK, Ids

\* The tables stay right.
LEMMA SideTables ==
    ASSUME Tables, UNCHANGED base, SideTyped, raced \subseteq raced'
    PROVE  Tables' /\ Evolves
<1> USE DEF base, banState
<1>1. load.faults \in Nat /\ faults \in Nat /\ faults <= load.faults /\ last.profile \in Nat
  BY SideBefore
<1>2. faults' <= load.faults
  BY <1>1 DEF SideTyped
<1>3. Typed'
  BY <1>2 DEF Tables, Typed, TypeOK, SideTyped
<1>4. Ids' /\ LogTellsBan'
  BY DEF Tables, Ids, LogTellsBan, Said, SideTyped
<1>5. NamesAreOwn'
  BY NamesSame DEF Tables
<1>6. WithinQuota'
  BY DEF Tables, WithinQuota, Count, Live
<1>7. Evolves
  BY <1>1 DEF Evolves, Keeps
<1> QED BY <1>3, <1>4, <1>5, <1>6, <1>7 DEF Tables

\* The statements stay right.
LEMMA SideJobs ==
    ASSUME Jobs, Observe, UNCHANGED base, NEW c \in Clients, todo[c] # <<>>, NEW s, List(s), Sets(c, s), SoundList(s)
    PROVE  Jobs'
<1>1. JobsTyped /\ Serial /\ SoundJobs /\ load' = load
  BY DEF Jobs, base
<1>3. JobsTyped' /\ todo'[c] = s /\ \A d \in Clients : d # c => todo'[d] = todo[d]
  BY <1>1, SetsTodo
<1>4. Serial'
  BY <1>1, SetsSerial
<1>5. SoundJobs'
  <2> SUFFICES ASSUME NEW d \in Clients, NEW n \in 1..Len(todo'[d]) PROVE Sound(todo[d][n])'
    BY DEF SoundJobs
  <2>1. PICK x : x = todo'[d][n] OBVIOUS
  <2>2. Sound(x) BY <1>1, <1>3, <2>1 DEF SoundJobs, SoundList
  <2>3. UNCHANGED <<profile, login, ban, fwd, last, load>> /\ raced \subseteq raced'
    BY RacedGrows DEF base, banState
  <2>4. Sound(x)' BY <2>2, <2>3, SoundSame
  <2> QED BY <2>1, <2>4
<1> QED BY <1>3, <1>4, <1>5, RacedGrows DEF Jobs

\* A request writes to a cache or to a token and goes on.
LEMMA SideStep ==
    ASSUME Inv, Observe, UNCHANGED base, SideTyped, CacheInv', NEW c \in Clients, todo[c] # <<>>,
           NEW s, List(s), Sets(c, s), SoundList(s), Calm(s)
    PROVE  Inv'
<1>1. Tables' /\ Evolves
  BY SideTables, RacedGrows DEF Inv
<1>2. Jobs'
  BY SideJobs DEF Inv
<1>3. HistoryInv'
  BY <1>1, CalmStep DEF Inv, Jobs, Evolves
<1> QED BY <1>1, <1>2, <1>3 DEF Inv

\* Caches that were right stay right.
LEMMA CacheKept ==
    ASSUME Jobs, CacheInv, NEW c \in Clients, Free(c), load' = load, faults' = faults,
           load.serial /\ Clean => Clean',
           \A n \in Names : load.serial /\ Right(n) => Right(n)'
    PROVE  CacheInv'
<1>1. load.serial /\ faults = load.faults => Clean /\ \A n \in Names : Right(n)
  BY CacheRight
<1> QED BY <1>1 DEF CacheInv

\* authenticate gives the profile its token.
LEMMA AuthenticateInv ==
    ASSUME Inv, Observe, NEW c \in Clients, Authenticate(c)
    PROVE  Inv'
<1>1. /\ todo[c] # <<>> /\ Head(todo[c]).j = "issue" /\ Job(c) \in Stmt /\ Job(c).j = "issue"
      /\ Free(c) /\ Sets(c, <<>>) /\ Tables /\ Jobs /\ CacheInv
  BY JobIs DEF Authenticate, Inv, Jobs, At, Free, Stop, Sets
<1>2. UNCHANGED base /\ UNCHANGED <<list, summary, joined, now, faults, profile, fwd, load>>
  BY DEF Authenticate, base, fwdState, env
<1>3. token' \in [ProfileIds -> {"none", "ok", "paused"}]
  <2>1. token \in [ProfileIds -> {"none", "ok", "paused"}] BY <1>1, SideBefore
  <2>2. token' = token \/ token' = [token EXCEPT ![Job(c).p] = "ok"] BY DEF Authenticate
  <2> QED BY <2>1, <2>2
<1>4. SideTyped
  BY <1>1, <1>2, <1>3, SideBefore DEF SideTyped
<1>5. CacheInv'
  <2>1. (Clean' <=> Clean) /\ \A n \in Names : Right(n)' <=> Right(n)
    BY <1>2 DEF Clean, Right, Enabled, Live
  <2> QED BY <1>1, <1>2, <2>1, CacheKept
<1>6. SoundList(<<>>) /\ Calm(<<>>)
  BY NoneIsList DEF SoundList, Calm
<1> QED BY <1>1, <1>2, <1>4, <1>5, <1>6, NoneIsList, SideStep

\* The second of two statements relies on nothing.
LEMMA OneLeft ==
    ASSUME NEW s, s = <<>> \/ (Len(s) = 1 /\ s[1] = Head(s) /\ s[1].j \in {"drop", "drow"})
    PROVE  SoundList(s) /\ Calm(s)
<1>1. CASE s = <<>>
  <2>1. Len(s) = 0 BY <1>1
  <2>2. 1..Len(s) = {} BY <2>1
  <2> QED BY <1>1, <2>2 DEF SoundList, Calm
<1>2. CASE Len(s) = 1 /\ s[1] = Head(s) /\ s[1].j \in {"drop", "drow"}
  <2>1. Sound(s[1]) /\ s[1].j \notin Critical BY <1>2, PlainSound DEF Plain
  <2>2. \A n \in 1..Len(s) : n = 1 BY <1>2
  <2> QED BY <1>2, <2>1, <2>2 DEF SoundList, Calm
<1> QED BY <1>1, <1>2

\* A deletion takes the profile's token.
LEMMA DeleteRevokeInv ==
    ASSUME Inv, Observe, NEW c \in Clients, DeleteRevoke(c)
    PROVE  Inv'
<1>1. /\ todo[c] # <<>> /\ Head(todo[c]).j = "drevoke" /\ Job(c) \in Stmt /\ Job(c).j = "drevoke"
      /\ List(todo[c]) /\ Free(c) /\ Tables /\ Jobs /\ CacheInv
  BY JobIs DEF DeleteRevoke, Inv, Jobs, At, Free
<1>2. UNCHANGED base /\ UNCHANGED <<list, summary, joined, now, faults, profile, fwd, load>>
  BY DEF DeleteRevoke, base, fwdState, env
<1>3. token' \in [ProfileIds -> {"none", "ok", "paused"}]
  <2>1. token \in [ProfileIds -> {"none", "ok", "paused"}] BY <1>1, SideBefore
  <2>2. token' = [token EXCEPT ![Job(c).p] = "none"] BY DEF DeleteRevoke
  <2> QED BY <2>1, <2>2
<1>4. SideTyped
  BY <1>1, <1>2, <1>3, SideBefore DEF SideTyped
<1>5. CacheInv'
  <2>1. (Clean' <=> Clean) /\ \A n \in Names : Right(n)' <=> Right(n)
    BY <1>2 DEF Clean, Right, Enabled, Live
  <2> QED BY <1>1, <1>2, <2>1, CacheKept
<1>6. PICK s : s = Tail(todo[c]) OBVIOUS
<1>7. List(s) /\ (s # <<>> => Len(s) = 1 /\ s[1] = Head(s) /\ s[1].j = "drow")
  BY <1>1, <1>6, ListTail
<1>8. Sets(c, s)
  BY <1>1, <1>6, ThenRest DEF DeleteRevoke
<1>10. SoundList(s) /\ Calm(s)
  BY <1>7, OneLeft
<1> QED BY <1>1, <1>2, <1>4, <1>5, <1>7, <1>8, <1>10, SideStep

\* set_join_session.
LEMMA JoinSetInv ==
    ASSUME Inv, Observe, NEW c \in Clients, JoinSet(c)
    PROVE  Inv'
<1>1. /\ todo[c] # <<>> /\ Head(todo[c]).j = "jset" /\ Job(c) \in Stmt /\ Job(c).j = "jset"
      /\ Free(c) /\ Sets(c, <<>>) /\ Tables /\ Jobs /\ CacheInv
  BY JobIs DEF JoinSet, Inv, Jobs, At, Free, Stop, Sets
<1>2. UNCHANGED base /\ UNCHANGED <<list, summary, token, now, faults, profile, fwd, load>>
  BY DEF JoinSet, base, fwdState, playState, env
<1>3. joined' \in [Servers -> Entry \cup {None}]
  <2>1. joined \in [Servers -> Entry \cup {None}] BY <1>1, SideBefore
  <2>2. joined' = [joined EXCEPT ![Job(c).s] = Job(c).e] BY DEF JoinSet
  <2>3. Job(c).e \in Entry BY <1>1, StmtIs DEF SetStmt
  <2> QED BY <2>1, <2>2, <2>3
<1>4. SideTyped
  BY <1>1, <1>2, <1>3, SideBefore DEF SideTyped
<1>5. CacheInv'
  <2>1. (Clean' <=> Clean) /\ \A n \in Names : Right(n)' <=> Right(n)
    BY <1>2 DEF Clean, Right, Enabled, Live
  <2> QED BY <1>1, <1>2, <2>1, CacheKept
<1>6. SoundList(<<>>) /\ Calm(<<>>)
  BY NoneIsList DEF SoundList, Calm
<1> QED BY <1>1, <1>2, <1>4, <1>5, <1>6, NoneIsList, SideStep
\* invalidate_session_forward_server_cache.
LEMMA FwdFlushInv ==
    ASSUME Inv, Observe, NEW c \in Clients, FwdFlush(c)
    PROVE  Inv'
<1>1. /\ todo[c] # <<>> /\ Head(todo[c]).j = "flush" /\ List(todo[c])
      /\ Sets(c, <<>>) /\ Tables /\ Jobs /\ CacheInv /\ JobsTyped
  BY DEF FwdFlush, Inv, Jobs, JobsTyped, At, Stop, Sets
<1>2. UNCHANGED base /\ UNCHANGED <<token, summary, joined, now, faults, profile, fwd, load>> /\ list' = None
  BY DEF FwdFlush, base, playState, env
<1>3. SideTyped
  BY <1>1, <1>2, SideBefore DEF SideTyped
<1>4. CacheInv'
  <2> SUFFICES ASSUME load'.serial, faults' = load'.faults, NEW n \in Names
               PROVE  Right(n)' \/ \E d \in Clients : Drops(d, n)'
    <3>1. Clean' BY <1>2 DEF Clean
    <3> QED BY <3>1 DEF CacheInv
  <2>1. (Right(n)' <=> Right(n)) BY <1>2 DEF Right, Live
  <2>2. Right(n) \/ \E d \in Clients : Drops(d, n) BY <1>1, <1>2 DEF CacheInv
  <2>3. ASSUME NEW d \in Clients, Drops(d, n) PROVE FALSE
    <3>1. PICK k \in 1..Len(todo[d]) : todo[d][k].j = "drop" BY <2>3 DEF Drops
    <3>2. todo[d] # <<>> BY <3>1, EmptySeq
    <3>3. d = c BY <1>1, <1>2, <3>2 DEF Jobs, Serial
    <3>4. Len(todo[c]) = 1 /\ todo[c][1].j = "flush" BY <1>1, ListTail
    <3> QED BY <3>1, <3>3, <3>4
  <2> QED BY <2>1, <2>2, <2>3
<1>5. SoundList(<<>>) /\ Calm(<<>>)
  BY NoneIsList DEF SoundList, Calm
<1> QED BY <1>1, <1>2, <1>3, <1>4, <1>5, NoneIsList, SideStep

\* invalidate_profile_name_summary_cache.
LEMMA DropSummaryInv ==
    ASSUME Inv, Observe, NEW c \in Clients, DropSummary(c)
    PROVE  Inv'
<1>1. /\ todo[c] # <<>> /\ Head(todo[c]).j = "drop" /\ List(todo[c]) /\ Job(c) \in Stmt /\ Job(c).j = "drop"
      /\ Job(c) = todo[c][1] /\ Tables /\ Jobs /\ CacheInv /\ JobsTyped
  BY JobIs DEF DropSummary, Inv, Jobs, At
<1>2. UNCHANGED base /\ UNCHANGED <<token, list, joined, now, faults, profile, fwd, load>>
  BY DEF DropSummary, base, fwdState, env
<1>3. PICK x \in NameStmt : x = Job(c)
  BY <1>1, StmtIs
<1>4. PICK m \in Names : m = Norm[x.n]
  BY YggJoinAssumption DEF NameStmt
<1>5. /\ summary' \in [Names -> ProfileIds \cup {None}]
      /\ \A n \in Names : summary'[n] = (IF n = m THEN None ELSE summary[n])
  <2>1. summary \in [Names -> ProfileIds \cup {None}] BY <1>1, SideBefore
  <2>2. summary' = [summary EXCEPT ![m] = None] BY <1>3, <1>4 DEF DropSummary
  <2> QED BY <2>1, <2>2
<1>6. SideTyped
  BY <1>1, <1>2, <1>5, SideBefore DEF SideTyped
<1>7. PICK s : s = Tail(todo[c]) OBVIOUS
<1>8. List(s) /\ (s # <<>> => Len(s) = 1 /\ s[1] = Head(s) /\ s[1].j = "drop" /\ s[1] = todo[c][2])
  BY <1>1, <1>7, ListTail
<1>9. Sets(c, s)
  BY <1>1, <1>7, ThenRest DEF DropSummary
<1>10. SoundList(s) /\ Calm(s)
  BY <1>8, OneLeft
<1>11. todo'[c] = s /\ \A d \in Clients : d # c => todo'[d] = todo[d]
  BY <1>1, <1>8, <1>9, SetsTodo
<1>12. CacheInv'
  <2> SUFFICES ASSUME load'.serial, faults' = load'.faults, NEW n \in Names
               PROVE  Clean' /\ (Right(n)' \/ \E d \in Clients : Drops(d, n)')
    BY DEF CacheInv
  <2>1. (Clean' <=> Clean) /\ (n # m => (Right(n)' <=> Right(n))) /\ (n = m => Right(n)')
    BY <1>2, <1>5 DEF Clean, Right, Live, Enabled
  <2>2. (Clean \/ \E d \in Clients : At(d, "flush")) /\ (Right(n) \/ \E d \in Clients : Drops(d, n))
    BY <1>1, <1>2 DEF CacheInv
  <2>3. \A d \in Clients : todo[d] # <<>> => d = c BY <1>1, <1>2 DEF Jobs, Serial
  <2>4. \A d \in Clients : ~ At(d, "flush") BY <1>1, <2>3 DEF At
  <2>5. ASSUME NEW d \in Clients, Drops(d, n), n # m PROVE Drops(c, n)'
    <3>1. PICK k \in 1..Len(todo[d]) : todo[d][k].j = "drop" /\ Norm[todo[d][k].n] = n
      BY <2>5 DEF Drops
    <3>2. todo[d] # <<>> BY <3>1, EmptySeq
    <3>3. d = c BY <2>3, <3>2
    <3>4. k # 1 BY <1>1, <1>3, <1>4, <2>5, <3>1, <3>3
    <3>5. k = 2 /\ s # <<>> BY <1>1, <1>7, <3>1, <3>3, <3>4, ListTail
    <3>6. Len(s) = 1 /\ s[1].j = "drop" /\ Norm[s[1].n] = n BY <1>8, <3>1, <3>3, <3>5
    <3> QED BY <1>11, <3>6 DEF Drops
  <2> QED BY <2>1, <2>2, <2>4, <2>5
<1> QED BY <1>1, <1>2, <1>6, <1>8, <1>9, <1>10, <1>12, SideStep

\* profiles_by_names fills the cache with the profile that has the name.
LEMMA FillSummaryInv ==
    ASSUME Inv, Observe, NEW c \in Clients, FillSummary(c)
    PROVE  Inv'
<1>1. /\ todo[c] # <<>> /\ Head(todo[c]).j = "fill" /\ Job(c) \in Stmt /\ Job(c).j = "fill" /\ Sound(Job(c))
      /\ Free(c) /\ Sets(c, <<>>) /\ Tables /\ Jobs /\ CacheInv
  BY JobIs DEF FillSummary, Inv, Jobs, At, Free, Stop, Sets
<1>2. UNCHANGED base /\ UNCHANGED <<token, list, joined, now, faults, profile, fwd, load>>
  BY DEF FillSummary, base, fwdState, env
<1>3. PICK x \in FillStmt : x = Job(c)
  BY <1>1, StmtIs
<1>4. PICK m \in Names : m = Norm[x.n]
  BY YggJoinAssumption DEF FillStmt
<1>5. PICK p \in ProfileIds : p = x.p
  BY DEF FillStmt
<1>6. p <= last.profile /\ (load.serial /\ profile[p] # None => Norm[profile[p].name] = m)
  BY <1>1, <1>3, <1>4, <1>5 DEF Sound
<1>7. /\ summary' \in [Names -> ProfileIds \cup {None}]
      /\ \A n \in Names : summary'[n] = (IF n = m THEN p ELSE summary[n])
  <2>1. summary \in [Names -> ProfileIds \cup {None}] BY <1>1, SideBefore
  <2>2. summary' = [summary EXCEPT ![m] = p] BY <1>3, <1>4, <1>5 DEF FillSummary
  <2> QED BY <2>1, <2>2
<1>8. SideTyped
  BY <1>1, <1>2, <1>6, <1>7, SideBefore DEF SideTyped
<1>9. CacheInv'
  <2>1. Clean' <=> Clean BY <1>2 DEF Clean, Enabled
  <2>2. \A n \in Names : load.serial /\ Right(n) => Right(n)'
    BY <1>2, <1>6, <1>7 DEF Right, Live
  <2> QED BY <1>1, <1>2, <2>1, <2>2, CacheKept
<1>10. SoundList(<<>>) /\ Calm(<<>>)
  BY NoneIsList DEF SoundList, Calm
<1> QED BY <1>1, <1>2, <1>8, <1>9, <1>10, NoneIsList, SideStep

\* hasJoined fills the cached list and goes on with it.
LEMMA ListFillInv ==
    ASSUME Inv, Observe, NEW c \in Clients, ListFill(c)
    PROVE  Inv'
<1>1. /\ todo[c] # <<>> /\ Head(todo[c]).j = "lfill" /\ Job(c) \in Stmt /\ Job(c).j = "lfill" /\ Sound(Job(c))
      /\ List(todo[c]) /\ Free(c) /\ Tables /\ Jobs /\ CacheInv /\ HistoryInv /\ JobsTyped /\ SoundJobs
  BY JobIs DEF ListFill, Inv, Jobs, At, Free
<1>2. UNCHANGED base /\ UNCHANGED <<token, summary, joined, now, faults, profile, fwd, load>>
  BY DEF ListFill, base, playState, env
<1>3. PICK x \in ListStmt : x = Job(c) /\ x.j = "lfill"
  BY <1>1, StmtIs
<1>4. x.q \in Query /\ x.l \in SUBSET Upstream /\ list' = x.l /\ (load.serial => x.l = Enabled)
  BY <1>1, <1>3 DEF ListStmt, ListFill, Sound
<1>5. SideTyped
  BY <1>1, <1>2, <1>4, SideBefore DEF SideTyped
<1>6. CacheInv'
  <2>1. load.serial => Clean' BY <1>2, <1>4 DEF Clean, Enabled
  <2>2. \A n \in Names : Right(n)' <=> Right(n) BY <1>2 DEF Right, Live
  <2> QED BY <1>1, <1>2, <2>1, <2>2, CacheKept
<1>7. PICK y : y = [j |-> IF x.l = {} THEN "lget" ELSE "next", q |-> x.q, all |-> x.l, rest |-> x.l, f |-> None]
  OBVIOUS
<1>8. y \in NextStmt /\ (y.j # "lget" => y.all # {}) /\ y.rest = y.all /\ y.j \in {"next", "lget"}
  BY <1>4, <1>7, SurveyIs DEF NextStmt
<1>9. y \in Stmt /\ Sound(y)
  BY <1>8 DEF Stmt, Sound, Owns
<1>10. List(<<y>>) /\ SoundList(<<y>>) /\ Head(<<y>>) = y
  BY <1>9, OneIsList DEF SoundList
<1>11. Sets(c, <<y>>)
  <2>1. Then(c, <<y>>) BY <1>3, <1>7 DEF ListFill, Survey
  <2> QED BY <1>1, <1>10, <2>1, ThenAlone
<1>12. Jobs'
  BY <1>1, <1>2, <1>10, <1>11, SideJobs
<1>13. Tables' /\ Keeps
  BY <1>1, <1>2, <1>5, SideTables, RacedGrows DEF Evolves
<1>14. HistoryInv'
  <2>1. Answering(c, y)' /\ Finding(c, y)' BY <1>8 DEF Answering, Finding, HasLocal
  <2>2. todo'[c] = <<y>> /\ \A d \in Clients : d # c => todo'[d] = todo[d]
    BY <1>1, <1>10, <1>11, SetsTodo
  <2>3. Job(c)' = y BY <1>10, <2>2 DEF Job
  <2> QED BY <1>1, <1>13, <2>1, <2>2, <2>3, HistoryStep
<1> QED BY <1>6, <1>12, <1>13, <1>14 DEF Inv
-----------------------------------------------------------------------------
(* Bans                                                                    *)

\* A request writes and goes on.
LEMMA WriteStep ==
    ASSUME Inv, Observe, Tables', Evolves, CacheInv', NEW c \in Clients, OnlyClaimed(c), todo[c] # <<>>,
           NEW s, List(s), Sets(c, s), SoundList(s)', Calm(s)
    PROVE  Inv'
<1>1. Jobs'
  BY JobsStay DEF Inv
<1>2. HistoryInv'
  BY CalmStep DEF Inv, Jobs, Evolves
<1> QED BY <1>1, <1>2 DEF Inv

\* A request writes and ends.
LEMMA EndStep ==
    ASSUME Inv, Observe, Tables', Evolves, CacheInv', NEW c \in Clients, OnlyClaimed(c), todo[c] # <<>>, Sets(c, <<>>)
    PROVE  Inv'
<1>1. SoundList(<<>>)' /\ Calm(<<>>)
  BY NoneIsList DEF SoundList, Calm
<1> QED BY <1>1, NoneIsList, WriteStep

\* The events of a ban tell it.
Tells(r, l) ==
    /\ l # <<>> /\ l[Len(l)].next = Said(r)
    /\ \A n \in DOMAIN l : l[n].next.status = "revoked" => r.status = "revoked"
    /\ load.serial => \A n \in 2..Len(l) : l[n].prev = l[n - 1].next

\* A ban is written with an event.
LEMMA BanTables ==
    ASSUME Tables, UNCHANGED <<playState, fwdState, joined, env>>, NEW b \in BanIds, NEW r \in Ban, NEW l \in Seq(Event),
           ban' = [ban EXCEPT ![b] = r], log' = [log EXCEPT ![b] = l], Tells(r, l),
           NEW n \in 0..MaxBan, last' = [last EXCEPT !.ban = n], last.ban <= n, b <= n,
           raced \subseteq raced'
    PROVE  Tables' /\ Evolves
<1> USE DEF playState, fwdState, env
<1>1. /\ ban \in [BanIds -> Ban \cup {None}] /\ log \in [BanIds -> Seq(Event)]
      /\ last \in [profile : 0..MaxProfile, ban : 0..MaxBan, fwd : 0..MaxFwd]
  BY DEF Tables, Typed, TypeOK
<1>2. /\ ban' \in [BanIds -> Ban \cup {None}] /\ log' \in [BanIds -> Seq(Event)]
      /\ \A k \in BanIds : ban'[k] = (IF k = b THEN r ELSE ban[k]) /\ log'[k] = (IF k = b THEN l ELSE log[k])
  BY <1>1
<1>3. last' \in [profile : 0..MaxProfile, ban : 0..MaxBan, fwd : 0..MaxFwd] /\ last'.profile = last.profile /\ last'.ban = n
  BY <1>1
<1>4. \A k \in BanIds : \A m \in DOMAIN log'[k] : log'[k][m] \in Event
  <2> SUFFICES ASSUME NEW k \in BanIds, NEW m \in DOMAIN log'[k] PROVE log'[k][m] \in Event
    OBVIOUS
  <2>1. log'[k] \in Seq(Event) BY <1>2
  <2>2. m \in 1..Len(log'[k]) BY <2>1, LenProperties
  <2> QED BY <2>1, <2>2, ElementOfSeq
<1>5. Typed'
  BY <1>2, <1>3, <1>4 DEF Tables, Typed, TypeOK
<1>6. Ids'
  <2>1. ASSUME NEW k \in BanIds, ban'[k] # None PROVE k <= last'.ban
    <3>1. k \in Nat /\ last.ban \in Nat /\ n \in Nat BY <1>1, YggJoinAssumption DEF BanIds
    <3>2. k = b \/ k <= last.ban BY <1>2, <2>1 DEF Tables, Ids
    <3> QED BY <1>3, <3>1, <3>2
  <2> QED BY <1>3, <2>1 DEF Tables, Ids
<1>7. LogTellsBan'
  <2> SUFFICES ASSUME NEW k \in BanIds, ban'[k] # None PROVE Tells(ban[k], log[k])'
    BY DEF LogTellsBan, Tells
  <2>1. CASE k = b BY <1>2, <2>1 DEF Tells, Said
  <2>2. CASE k # b
    <3>1. ban'[k] = ban[k] /\ log'[k] = log[k] BY <1>2, <2>2
    <3>2. Tells(ban[k], log[k]) BY <3>1 DEF Tables, LogTellsBan, Tells
    <3> QED BY <3>1, <3>2 DEF Tells, Said
  <2> QED BY <2>1, <2>2
<1>8. NamesAreOwn' /\ WithinQuota'
  BY NamesSame DEF Tables, Live, WithinQuota, Count
<1>9. Evolves
  <2>1. last.profile \in Nat BY SideBefore
  <2>2. \A k \in BanIds : ban[k] # None => ban'[k] # None BY <1>2, YggJoinAssumption
  <2> QED BY <1>3, <2>1, <2>2 DEF Evolves, Keeps
<1> QED BY <1>5, <1>6, <1>7, <1>8, <1>9 DEF Tables

\* The caches do not know of bans.
LEMMA BanCache ==
    ASSUME Jobs, CacheInv, NEW c \in Clients, Free(c), UNCHANGED <<playState, fwdState, env>>
    PROVE  CacheInv'
<1>1. (Clean' <=> Clean) /\ \A n \in Names : Right(n)' <=> Right(n)
  BY DEF playState, fwdState, Clean, Right, Enabled, Live
<1> QED BY <1>1, CacheKept DEF env

\* One more event tells the ban it leaves.
LEMMA TellsMore ==
    ASSUME NEW old \in Ban, NEW r \in Ban, NEW l \in Seq(Event), Tells(old, l), NEW e \in Event, e.next = Said(r),
           load.serial => e.prev = Said(old), old.status = "revoked" => r.status = "revoked"
    PROVE  Append(l, e) \in Seq(Event) /\ Tells(r, Append(l, e))
<1>1. PICK m : m = Append(l, e) OBVIOUS
<1>2. /\ m \in Seq(Event) /\ Len(l) \in Nat /\ Len(m) = Len(l) + 1 /\ m[Len(l) + 1] = e
      /\ \A n \in 1..Len(l) : m[n] = l[n]
  BY <1>1, AppendProperties, LenProperties
<1>3. DOMAIN m = 1..Len(m) /\ DOMAIN l = 1..Len(l) /\ m # <<>>
  BY <1>2, LenProperties, EmptySeq
<1>4. Len(l) >= 1 /\ Len(l) \in 1..Len(l) /\ m[Len(l)] = l[Len(l)]
  BY <1>2, EmptySeq DEF Tells
<1>5. m[Len(m)].next = Said(r)
  BY <1>2
<1>6. ASSUME NEW n \in DOMAIN m, m[n].next.status = "revoked" PROVE r.status = "revoked"
  <2>1. CASE n \in 1..Len(l) BY <1>2, <1>3, <1>6, <2>1 DEF Tells
  <2>2. CASE n = Len(l) + 1 BY <1>2, <1>6, <2>2 DEF Said
  <2> QED BY <1>2, <1>3, <2>1, <2>2
<1>7. ASSUME load.serial, NEW n \in 2..Len(m) PROVE m[n].prev = m[n - 1].next
  <2>1. CASE n \in 2..Len(l)
    <3>1. n \in 1..Len(l) /\ n - 1 \in 1..Len(l) BY <1>2, <2>1
    <3> QED BY <1>2, <1>7, <2>1, <3>1 DEF Tells
  <2>2. CASE n = Len(l) + 1
    <3>1. n - 1 = Len(l) BY <1>2, <2>2
    <3> QED BY <1>2, <1>4, <1>7, <2>2, <3>1 DEF Tells
  <2> QED BY <1>2, <2>1, <2>2
<1> QED BY <1>1, <1>2, <1>3, <1>5, <1>6, <1>7 DEF Tells

\* What is told of a ban.
LEMMA SaidIs == ASSUME NEW r \in Ban PROVE Said(r) \in Told /\ Said(r).status = r.status
  BY DEF Ban, Said, Told

\* A ban is created with its first event.
LEMMA BanCreateInv ==
    ASSUME Inv, Observe, NEW c \in Clients, BanCreate(c)
    PROVE  Inv'
<1>1. /\ todo[c] # <<>> /\ Head(todo[c]).j = "bcreate" /\ Job(c) \in Stmt /\ Job(c).j = "bcreate"
      /\ Free(c) /\ Sets(c, <<>>) /\ Tables /\ Jobs /\ CacheInv
  BY JobIs DEF BanCreate, Inv, Jobs, At, Free, Stop, Sets
<1>2. UNCHANGED <<playState, fwdState, joined, env>>
  BY DEF BanCreate
<1>3. CASE last.ban = MaxBan
  <2>1. UNCHANGED shared BY <1>2, <1>3 DEF BanCreate, shared
  <2> QED BY <1>1, <2>1, StopStep
<1>4. CASE last.ban # MaxBan
  <2>1. PICK r \in Ban : r = Job(c).r BY <1>1, StmtIs DEF BanStmt
  <2>2. PICK b : b = last.ban + 1 OBVIOUS
  <2>3. b \in BanIds /\ b \in 0..MaxBan /\ last.ban <= b /\ b <= b
    <3>1. last.ban \in 0..MaxBan BY <1>1 DEF Tables, Typed
    <3> QED BY <1>4, <2>2, <3>1, YggJoinAssumption DEF BanIds
  <2>4. PICK e : e = [type |-> "created", prev |-> None, next |-> Said(r)] OBVIOUS
  <2>5. e \in Event /\ e.next = Said(r) /\ Said(r).status = r.status
    BY <2>4, SaidIs DEF Event
  <2>6. PICK l : l = <<e>> OBVIOUS
  <2>7. l \in Seq(Event) /\ Len(l) = 1 /\ l[1] = e /\ DOMAIN l = {1} /\ l # <<>>
    BY <2>5, <2>6
  <2>8. Tells(r, l) BY <2>5, <2>7 DEF Tells
  <2>9. ban' = [ban EXCEPT ![b] = r] /\ log' = [log EXCEPT ![b] = l] /\ last' = [last EXCEPT !.ban = b]
    BY <1>4, <2>1, <2>2, <2>4, <2>6 DEF BanCreate
  <2>10. Tables' /\ Evolves BY <1>1, <1>2, <2>3, <2>7, <2>8, <2>9, BanTables, RacedGrows
  <2>11. CacheInv' /\ OnlyClaimed(c) BY <1>1, <1>2, BanCache, NoneTaken DEF playState
  <2> QED BY <1>1, <2>10, <2>11, EndStep
<1> QED BY <1>3, <1>4

\* A ban is changed with an event: the status it had if it was revoked stays.
LEMMA BanChanged ==
    ASSUME Inv, Observe, NEW c \in Clients, todo[c] # <<>>, Free(c), Sets(c, <<>>),
           UNCHANGED <<playState, fwdState, joined, last, env>>,
           NEW b \in BanIds, ban[b] # None, NEW old \in Ban, load.serial => ban[b] = old,
           NEW r \in Ban, ban[b].status = "revoked" => r.status = "revoked", NEW t \in {"updated", "revoked"},
           ban' = [ban EXCEPT ![b] = r],
           log' = [log EXCEPT ![b] = Append(@, [type |-> t, prev |-> Said(old), next |-> Said(r)])]
    PROVE  Inv'
<1>1. Tables /\ Jobs /\ CacheInv
  BY DEF Inv
<1>2. ban[b] \in Ban /\ log \in [BanIds -> Seq(Event)] /\ log[b] \in Seq(Event)
  BY <1>1 DEF Tables, Typed, TypeOK
<1>3. Tells(ban[b], log[b])
  BY <1>1 DEF Tables, LogTellsBan, Tells
<1>0. PICK e : e = [type |-> t, prev |-> Said(old), next |-> Said(r)] OBVIOUS
<1>4. e \in Event /\ e.next = Said(r) /\ e.prev = Said(old)
  <2>1. Said(old) \in Told /\ Said(r) \in Told BY SaidIs
  <2> QED BY <1>0, <2>1 DEF Event
<1>5. PICK l : l = Append(log[b], e) OBVIOUS
<1>6. l \in Seq(Event) /\ Tells(r, l)
  BY <1>2, <1>3, <1>4, <1>5, TellsMore
<1>7. log' = [log EXCEPT ![b] = l]
  BY <1>0, <1>2, <1>5
<1>8. PICK n \in 0..MaxBan : n = last.ban
  BY <1>1 DEF Tables, Typed
<1>9. last' = [last EXCEPT !.ban = n] /\ last.ban <= n /\ b <= n
  <2>1. last' = last /\ last \in [profile : 0..MaxProfile, ban : 0..MaxBan, fwd : 0..MaxFwd]
    BY <1>1 DEF Tables, Typed
  <2>2. b <= last.ban BY <1>1 DEF Tables, Ids
  <2> QED BY <1>8, <2>1, <2>2
<1>10. Tables' /\ Evolves
  BY <1>1, <1>6, <1>7, <1>9, BanTables, RacedGrows
<1>11. CacheInv' /\ OnlyClaimed(c)
  BY <1>1, BanCache, NoneTaken DEF playState
<1> QED BY <1>10, <1>11, EndStep

\* update_user_ban writes the changed columns of the row as it is now.
LEMMA BanUpdateInv ==
    ASSUME Inv, Observe, NEW c \in Clients, BanUpdate(c)
    PROVE  Inv'
<1>1. /\ todo[c] # <<>> /\ Head(todo[c]).j = "bupdate" /\ Job(c) \in Stmt /\ Job(c).j = "bupdate" /\ Sound(Job(c))
      /\ Free(c) /\ Sets(c, <<>>) /\ Tables
  BY JobIs DEF BanUpdate, Inv, Jobs, At, Free, Stop, Sets
<1>2. UNCHANGED <<playState, fwdState, joined, last, env>>
  BY DEF BanUpdate
<1>3. PICK x \in UpdateStmt : x = Job(c) /\ x.j = "bupdate" /\ Sound(x)
  BY <1>1, StmtIs
<1>4. /\ x.b \in BanIds /\ x.old \in Ban /\ x.scopes \in SUBSET Scopes /\ x.start \in 0..Forever /\ x.end \in 0..Forever
      /\ ban[x.b] # None /\ (load.serial => ban[x.b] = x.old)
  BY <1>3 DEF UpdateStmt, Sound
<1>5. PICK row \in Ban : row = ban[x.b]
  BY <1>1, <1>4 DEF Tables, Typed, TypeOK
<1>6. PICK r : r = [row EXCEPT !.start = IF x.start # x.old.start THEN x.start ELSE @,
                               !.scopes = IF x.scopes # x.old.scopes THEN x.scopes ELSE @,
                               !.end = IF x.end # x.old.end THEN x.end ELSE @]
  OBVIOUS
<1>7. r \in Ban /\ r.status = row.status
  BY <1>4, <1>5, <1>6 DEF Ban
<1>8. PICK b \in BanIds, old \in Ban, t \in {"updated", "revoked"} : b = x.b /\ old = x.old /\ t = "updated"
  BY <1>4
<1>9. ban[b] # None /\ (load.serial => ban[b] = old) /\ (ban[b].status = "revoked" => r.status = "revoked")
  BY <1>4, <1>5, <1>7, <1>8
<1>10. ban' = [ban EXCEPT ![b] = r] /\ log' = [log EXCEPT ![b] = Append(@, [type |-> t, prev |-> Said(old), next |-> Said(r)])]
  BY <1>3, <1>5, <1>6, <1>8 DEF BanUpdate
<1> QED BY <1>1, <1>2, <1>7, <1>9, <1>10, BanChanged

\* revoke_user_ban sets the status.
LEMMA BanRevokeInv ==
    ASSUME Inv, Observe, NEW c \in Clients, BanRevoke(c)
    PROVE  Inv'
<1>1. /\ todo[c] # <<>> /\ Head(todo[c]).j = "revoke" /\ Job(c) \in Stmt /\ Job(c).j = "revoke" /\ Sound(Job(c))
      /\ Free(c) /\ Sets(c, <<>>) /\ Tables
  BY JobIs DEF BanRevoke, Inv, Jobs, At, Free, Stop, Sets
<1>2. UNCHANGED <<playState, fwdState, joined, last, env>>
  BY DEF BanRevoke
<1>3. PICK x \in RevokeStmt : x = Job(c) /\ x.j = "revoke" /\ Sound(x)
  BY <1>1, StmtIs
<1>4. x.b \in BanIds /\ x.old \in Ban /\ ban[x.b] # None /\ (load.serial => ban[x.b] = x.old)
  BY <1>3 DEF RevokeStmt, Sound
<1>5. PICK row \in Ban : row = ban[x.b]
  BY <1>1, <1>4 DEF Tables, Typed, TypeOK
<1>6. PICK r : r = [row EXCEPT !.status = "revoked"] OBVIOUS
<1>7. r \in Ban /\ r.status = "revoked"
  BY <1>5, <1>6 DEF Ban
<1>8. PICK b \in BanIds, old \in Ban, t \in {"updated", "revoked"} : b = x.b /\ old = x.old /\ t = "revoked"
  BY <1>4
<1>9. ban[b] # None /\ (load.serial => ban[b] = old) /\ (ban[b].status = "revoked" => r.status = "revoked")
  BY <1>4, <1>5, <1>7, <1>8
<1>10. ban' = [ban EXCEPT ![b] = r] /\ log' = [log EXCEPT ![b] = Append(@, [type |-> t, prev |-> Said(old), next |-> Said(r)])]
  BY <1>3, <1>5, <1>6, <1>8 DEF BanRevoke
<1> QED BY <1>1, <1>2, <1>7, <1>9, <1>10, BanChanged
-----------------------------------------------------------------------------
(* Upstreams                                                               *)

\* A forwarding server is written.
LEMMA FwdTables ==
    ASSUME Tables, UNCHANGED <<playState, banState, list, joined, env>>, NEW f \in FwdIds, NEW r \in Fwd \cup {None},
           fwd' = [fwd EXCEPT ![f] = r], NEW n \in 0..MaxFwd, last' = [last EXCEPT !.fwd = n],
           raced \subseteq raced'
    PROVE  Tables' /\ Evolves
<1> USE DEF playState, banState, env
<1>1. fwd \in [FwdIds -> Fwd \cup {None}] /\ last \in [profile : 0..MaxProfile, ban : 0..MaxBan, fwd : 0..MaxFwd]
  BY DEF Tables, Typed, TypeOK
<1>2. fwd' \in [FwdIds -> Fwd \cup {None}]
  BY <1>1
<1>3. /\ last' \in [profile : 0..MaxProfile, ban : 0..MaxBan, fwd : 0..MaxFwd]
      /\ last'.profile = last.profile /\ last'.ban = last.ban
  BY <1>1
<1>4. Typed'
  BY <1>2, <1>3 DEF Tables, Typed, TypeOK
<1>5. Ids' /\ LogTellsBan'
  BY <1>3 DEF Tables, Ids, LogTellsBan, Said
<1>6. NamesAreOwn' /\ WithinQuota'
  BY NamesSame DEF Tables, Live, WithinQuota, Count
<1>7. Evolves
  <2>1. last.profile \in Nat BY SideBefore
  <2> QED BY <1>3, <2>1 DEF Evolves, Keeps
<1> QED BY <1>4, <1>5, <1>6, <1>7 DEF Tables

\* A forwarding server is written; the request has yet to drop the cached list.
LEMMA FwdWritten ==
    ASSUME Inv, Observe, NEW c \in Clients, todo[c] # <<>>, Head(todo[c]).j \notin {"flush", "drop", "drevoke"},
           Then(c, <<[j |-> "flush"]>>), UNCHANGED <<playState, banState, list, joined, env>>,
           NEW f \in FwdIds, NEW r \in Fwd \cup {None}, fwd' = [fwd EXCEPT ![f] = r],
           NEW n \in 0..MaxFwd, last' = [last EXCEPT !.fwd = n]
    PROVE  Inv'
<1>1. Tables /\ Jobs /\ CacheInv /\ JobsTyped /\ List(todo[c]) /\ Free(c)
  BY DEF Inv, Jobs, JobsTyped, Free
<1>2. Tables' /\ Evolves /\ OnlyClaimed(c)
  BY <1>1, FwdTables, RacedGrows, NoneTaken DEF playState
<1>3. PICK y : y = [j |-> "flush"] OBVIOUS
<1>4. y \in Stmt /\ y.j = "flush" /\ y.j \in Plain
  BY <1>3 DEF Stmt, FlushStmt, Plain
<1>5. PICK s : s = <<y>> OBVIOUS
<1>6. List(s) /\ Len(s) = 1 /\ s[1] = y /\ s # <<>> /\ Head(s) = y
  BY <1>4, <1>5, OneIsList
<1>7. Sets(c, s)
  BY <1>1, <1>3, <1>5, <1>6, ThenAlone
<1>8. Calm(s)
  BY <1>4, <1>6, PlainSound DEF Calm
<1>9. SoundList(s)'
  <2>1. \A k \in 1..Len(s) : s[k] = y BY <1>6
  <2>2. Sound(y)' BY <1>4 DEF Sound, Owns
  <2> QED BY <2>1, <2>2 DEF SoundList
<1>10. todo'[c] = s
  BY <1>1, <1>6, <1>7, SetsTodo
<1>11. CacheInv'
  <2>1. At(c, "flush")' BY <1>4, <1>6, <1>10 DEF At
  <2>2. \A m \in Names : Right(m)' <=> Right(m) BY DEF playState, Right, Live
  <2>3. load'.serial /\ faults' = load'.faults => \A m \in Names : Right(m)
    BY <1>1, CacheRight DEF env
  <2> QED BY <2>1, <2>2, <2>3 DEF CacheInv
<1> QED BY <1>2, <1>6, <1>7, <1>8, <1>9, <1>11, WriteStep

\* An upstream is added, unless its address was taken meanwhile.
LEMMA FwdInsertInv ==
    ASSUME Inv, Observe, NEW c \in Clients, FwdInsert(c)
    PROVE  Inv'
<1>1. /\ todo[c] # <<>> /\ Head(todo[c]).j = "finsert" /\ Job(c) \in Stmt /\ Job(c).j = "finsert" /\ Free(c) /\ Tables
      /\ UNCHANGED <<playState, banState, list, joined, env>>
  BY JobIs DEF FwdInsert, Inv, Jobs, At, Free
<1>2. PICK x \in FwdStmt : x = Job(c)
  BY <1>1, StmtIs
<1>3. PICK r \in Fwd \cup {None} : r = x.r
  BY DEF FwdStmt
<1>4. PICK ok : ok <=> (~ UrlTaken(x.r.url, {}) /\ last.fwd < MaxFwd) OBVIOUS
<1>5. Go(c, ok, <<[j |-> "flush"]>>)
  BY <1>2, <1>4 DEF FwdInsert, Go
<1>6. CASE ok
  <2>1. PICK n : n = last.fwd + 1 OBVIOUS
  <2>2. n \in FwdIds /\ n \in 0..MaxFwd
    <3>1. last.fwd \in 0..MaxFwd BY <1>1 DEF Tables, Typed
    <3> QED BY <1>4, <1>6, <2>1, <3>1, YggJoinAssumption DEF FwdIds
  <2>3. fwd' = [fwd EXCEPT ![n] = r] /\ last' = [last EXCEPT !.fwd = n]
    BY <1>2, <1>3, <1>4, <1>6, <2>1 DEF FwdInsert
  <2>4. Then(c, <<[j |-> "flush"]>>) BY <1>5, <1>6 DEF Go
  <2> QED BY <1>1, <2>2, <2>3, <2>4, FwdWritten
<1>7. CASE ~ ok
  <2>1. UNCHANGED shared BY <1>1, <1>2, <1>4, <1>7 DEF FwdInsert, shared, fwdState
  <2>2. Sets(c, <<>>) BY <1>5, <1>7 DEF Go, Stop, Sets
  <2> QED BY <1>1, <2>1, <2>2, StopStep
<1> QED BY <1>6, <1>7

\* An edited row is a row.
LEMMA EditedIs == ASSUME NEW r \in Fwd, NEW e \in Edit PROVE Edited(r, e) \in Fwd
<1>1. CASE e.field = "on"
  BY <1>1 DEF Edited, Fwd, Edit
<1>2. CASE e.field = "prio"
  BY <1>2 DEF Edited, Fwd, Edit
<1>3. CASE e.field = "url"
  BY <1>3 DEF Edited, Fwd, Edit, Urls
<1>4. CASE e.field = "kind"
  BY <1>4 DEF Edited, Fwd, Edit
<1> QED BY <1>1, <1>2, <1>3, <1>4 DEF Edit

\* What stops an edit when it is written.
EditFits(x) == fwd[x.f] # None /\ (x.e.field = "url" => ~ UrlTaken("u2", {x.f}))

\* An upstream is edited, unless it is gone or the address was taken meanwhile.
LEMMA FwdUpdateInv ==
    ASSUME Inv, Observe, NEW c \in Clients, FwdUpdate(c)
    PROVE  Inv'
<1>1. /\ todo[c] # <<>> /\ Head(todo[c]).j = "fupdate" /\ Job(c) \in Stmt /\ Job(c).j = "fupdate" /\ Free(c) /\ Tables
      /\ UNCHANGED <<playState, banState, list, joined, last, env>>
  BY JobIs DEF FwdUpdate, Inv, Jobs, At, Free
<1>2. PICK x \in EditStmt : x = Job(c)
  BY <1>1, StmtIs
<1>3. x.f \in FwdIds /\ x.e \in Edit
  BY DEF EditStmt
<1>4. PICK ok : ok <=> EditFits(x) OBVIOUS
<1>5. Go(c, ok, <<[j |-> "flush"]>>)
  BY <1>2, <1>4 DEF FwdUpdate, Go, EditFits
<1>6. CASE ok
  <2>1. PICK f \in FwdIds : f = x.f BY <1>3
  <2>2. fwd[f] \in Fwd BY <1>1, <1>4, <1>6, <2>1 DEF EditFits, Tables, Typed, TypeOK
  <2>3. PICK r \in Fwd \cup {None} : r = Edited(fwd[f], x.e) BY <1>3, <2>2, EditedIs
  <2>4. fwd' = [fwd EXCEPT ![f] = r]
    BY <1>2, <1>4, <1>6, <2>1, <2>3 DEF FwdUpdate, EditFits
  <2>5. PICK n \in 0..MaxFwd : n = last.fwd BY <1>1 DEF Tables, Typed
  <2>6. last' = [last EXCEPT !.fwd = n]
    <3>1. last' = last /\ last \in [profile : 0..MaxProfile, ban : 0..MaxBan, fwd : 0..MaxFwd]
      BY <1>1 DEF Tables, Typed
    <3> QED BY <2>5, <3>1
  <2>7. Then(c, <<[j |-> "flush"]>>) BY <1>5, <1>6 DEF Go
  <2> QED BY <1>1, <2>4, <2>6, <2>7, FwdWritten
<1>7. CASE ~ ok
  <2>1. UNCHANGED shared
    BY <1>1, <1>2, <1>4, <1>7 DEF FwdUpdate, shared, fwdState, EditFits
  <2>2. Sets(c, <<>>) BY <1>5, <1>7 DEF Go, Stop, Sets
  <2> QED BY <1>1, <2>1, <2>2, StopStep
<1> QED BY <1>6, <1>7

\* An upstream is deleted.
LEMMA FwdDeleteInv ==
    ASSUME Inv, Observe, NEW c \in Clients, FwdDelete(c)
    PROVE  Inv'
<1>1. /\ todo[c] # <<>> /\ Head(todo[c]).j = "fdelete" /\ Job(c) \in Stmt /\ Job(c).j = "fdelete" /\ Tables
      /\ UNCHANGED <<playState, banState, list, joined, last, env>> /\ Then(c, <<[j |-> "flush"]>>)
  BY JobIs DEF FwdDelete, Inv, Jobs, At
<1>2. PICK f \in FwdIds : f = Job(c).f
  BY <1>1, StmtIs DEF FwdIdStmt
<1>3. PICK r \in Fwd \cup {None} : r = None OBVIOUS
<1>4. fwd' = [fwd EXCEPT ![f] = r]
  BY <1>2, <1>3 DEF FwdDelete
<1>5. PICK n \in 0..MaxFwd : n = last.fwd
  BY <1>1 DEF Tables, Typed
<1>6. last' = [last EXCEPT !.fwd = n]
  <2>1. last' = last /\ last \in [profile : 0..MaxProfile, ban : 0..MaxBan, fwd : 0..MaxFwd]
    BY <1>1 DEF Tables, Typed
  <2> QED BY <1>5, <2>1
<1> QED BY <1>1, <1>4, <1>6, FwdWritten
-----------------------------------------------------------------------------
(* Profiles                                                                *)

\* The profiles of one user are finitely many.
LEMMA CountFinite ==
    ASSUME NEW u PROVE IsFiniteSet({p \in Live : profile[p].owner = u}) /\ Count(u) \in Nat
<1>1. IsFiniteSet(ProfileIds)
  BY YggJoinAssumption, FS_Interval DEF ProfileIds
<1>2. {p \in Live : profile[p].owner = u} \subseteq ProfileIds
  BY DEF Live
<1>3. IsFiniteSet({p \in Live : profile[p].owner = u})
  BY <1>1, <1>2, FS_Subset
<1> QED BY <1>3, FS_CardinalityType DEF Count

\* A profile is created under a name that is free, its owner below the limit.
LEMMA CreatedTables ==
    ASSUME Tables, UNCHANGED <<login, token, summary, banState, fwdState, joined, env>>, raced \subseteq raced', NEW p, p = last.profile + 1, p <= MaxProfile,
           NEW r \in Profile, profile' = [profile EXCEPT ![p] = r], last' = [last EXCEPT !.profile = p],
           Named(r.name) = {}, OwnName(r.name, r.owner), load.serial => Count(r.owner) < MaxProfiles, r.renames = 0
    PROVE  /\ Tables' /\ Evolves /\ (\A n \in Names : Right(n) => Right(n)') /\ (Clean => Clean')
           /\ \A n \in Names : Norm[n] # Norm[r.name] => \A q \in Named(n)' : q \in Named(n) /\ profile'[q].owner = profile[q].owner
<1> USE DEF banState, fwdState, env
<1>1. /\ profile \in [ProfileIds -> Profile \cup {None}] /\ last \in [profile : 0..MaxProfile, ban : 0..MaxBan, fwd : 0..MaxFwd]
      /\ \A q \in ProfileIds : profile[q] # None => q <= last.profile
      /\ \A n \in Names : summary[n] # None => summary[n] \in ProfileIds /\ summary[n] <= last.profile
      /\ NamesAreOwn /\ WithinQuota
  BY DEF Tables, Typed, TypeOK, Ids
<1>2. last.profile \in Nat /\ p \in ProfileIds /\ p \in 0..MaxProfile /\ ProfileIds \subseteq Nat
  BY <1>1, YggJoinAssumption DEF ProfileIds
<1>3. /\ profile' \in [ProfileIds -> Profile \cup {None}]
      /\ \A q \in ProfileIds : profile'[q] = (IF q = p THEN r ELSE profile[q])
  BY <1>1, <1>2
<1>4. /\ last' \in [profile : 0..MaxProfile, ban : 0..MaxBan, fwd : 0..MaxFwd]
      /\ last'.profile = p /\ last'.ban = last.ban
  BY <1>1, <1>2
<1>5. ASSUME NEW q \in ProfileIds, q <= last.profile PROVE q # p /\ q <= p /\ profile'[q] = profile[q]
  BY <1>2, <1>3, <1>5
<1>6. r # None
  BY YggJoinAssumption
<1>7. p \notin Live /\ Live' = Live \cup {p}
  <2>1. profile[p] = None BY <1>1, <1>2, <1>5
  <2> QED BY <1>2, <1>3, <1>6, <2>1 DEF Live
<1>8. Typed'
  BY <1>3, <1>4 DEF Tables, Typed, TypeOK
<1>9. Ids' /\ LogTellsBan'
  <2>1. ASSUME NEW q \in ProfileIds, profile'[q] # None PROVE q <= last'.profile
    BY <1>1, <1>2, <1>3, <1>4, <1>5, <2>1
  <2>2. ASSUME NEW n \in Names, summary'[n] # None PROVE summary'[n] <= last'.profile
    BY <1>1, <1>2, <1>4, <1>5, <2>2
  <2>3. Ids' BY <1>4, <2>1, <2>2 DEF Tables, Ids
  <2> QED BY <2>3 DEF Tables, LogTellsBan, Said
<1>10. NamesAreOwn'
  <2>1. ASSUME NEW q \in Live', NEW k \in Live', Norm[profile'[k].name] = Norm[profile'[q].name] PROVE k = q
    <3>1. CASE q = p /\ k # p
      <4>1. k \in Live /\ profile'[k] = profile[k] /\ profile'[q] = r
        BY <1>2, <1>3, <1>7, <3>1 DEF Live
      <4> QED BY <2>1, <4>1 DEF Named
    <3>2. CASE q # p /\ k = p
      <4>1. q \in Live /\ profile'[q] = profile[q] /\ profile'[k] = r
        BY <1>2, <1>3, <1>7, <3>2 DEF Live
      <4> QED BY <2>1, <4>1 DEF Named
    <3>3. CASE q # p /\ k # p
      <4>1. q \in Live /\ k \in Live /\ profile'[q] = profile[q] /\ profile'[k] = profile[k]
        BY <1>2, <1>3, <1>7, <3>3 DEF Live
      <4> QED BY <1>1, <2>1, <4>1, NamesAre
    <3> QED BY <3>1, <3>2, <3>3
  <2>0. \A n, u : OwnName(n, u) => OwnName(n, u)' BY DEF OwnName, LoginsNamed, Members
  <2>2. ASSUME NEW q \in Live' PROVE OwnName(profile[q].name, profile[q].owner)'
    <3>1. CASE q = p
      <4>1. profile'[q] = r BY <1>2, <1>3, <3>1
      <4>2. OwnName(r.name, r.owner)' BY <2>0
      <4> QED BY <4>1, <4>2 DEF OwnName, LoginsNamed, Members
    <3>2. CASE q # p
      <4>1. q \in Live /\ profile'[q] = profile[q] BY <1>2, <1>3, <1>7, <3>2 DEF Live
      <4>2. OwnName(profile[q].name, profile[q].owner) BY <1>1, <4>1, NamesAre
      <4> QED BY <4>1, <4>2 DEF OwnName, LoginsNamed, Members
    <3> QED BY <3>1, <3>2
  <2>3. (\A u, v \in Members : Norm[login[v]] = Norm[login[u]] => v = u \/ Norm[login[u]] \in raced)'
    BY <1>1, NamesAre DEF Members
  <2> QED BY <2>1, <2>2, <2>3, NamesAreThen
<1>11. WithinQuota'
  <2> SUFFICES ASSUME load'.serial
               PROVE  (\A u \in Users : Count(u)' <= MaxProfiles) /\ \A q \in Live' : profile'[q].renames <= MaxRenames
    BY DEF WithinQuota
  <2>1. ASSUME NEW u \in Users PROVE Count(u)' <= MaxProfiles
    <3>1. PICK S : S = {q \in Live : profile[q].owner = u} OBVIOUS
    <3>2. IsFiniteSet(S) /\ Cardinality(S) = Count(u) /\ Count(u) \in Nat /\ Count(u) <= MaxProfiles
      BY <1>1, <3>1, CountFinite DEF Count, WithinQuota
    <3>3. CASE u = r.owner
      <4>1. {q \in Live' : profile'[q].owner = u} = S \cup {p} /\ p \notin S
        BY <1>2, <1>3, <1>7, <3>1, <3>3 DEF Live
      <4>2. Cardinality(S \cup {p}) = Cardinality(S) + 1 BY <3>2, <4>1, FS_AddElement
      <4>3. Count(u)' = Count(u) + 1 BY <3>2, <4>1, <4>2 DEF Count
      <4> QED BY <3>2, <3>3, <4>3, YggJoinAssumption
    <3>4. CASE u # r.owner
      <4>1. {q \in Live' : profile'[q].owner = u} = S
        BY <1>2, <1>3, <1>7, <3>1, <3>4 DEF Live
      <4> QED BY <3>2, <4>1 DEF Count
    <3> QED BY <3>3, <3>4
  <2>2. ASSUME NEW q \in Live' PROVE profile'[q].renames <= MaxRenames
    <3>1. CASE q = p BY <1>2, <1>3, <3>1, YggJoinAssumption
    <3>2. CASE q # p BY <1>1, <1>2, <1>3, <1>7, <3>2 DEF Live, WithinQuota
    <3> QED BY <3>1, <3>2
  <2> QED BY <2>1, <2>2
<1>12. Evolves
  <2>1. last.profile <= last'.profile /\ last'.profile \in Nat BY <1>2, <1>4
  <2>2. \A q \in ProfileIds : q <= last.profile => profile'[q] = profile[q] BY <1>5
  <2> QED BY <1>2, <2>1, <2>2 DEF Evolves, Keeps
<1>13. \A n \in Names : Right(n) => Right(n)'
  <2> SUFFICES ASSUME NEW n \in Names, Right(n), summary[n] # None, summary[n] \in Live'
               PROVE  Norm[profile'[summary[n]].name] = n
    BY DEF Right
  <2>1. summary[n] # p /\ profile'[summary[n]] = profile[summary[n]] BY <1>1, <1>5
  <2> QED BY <1>7, <2>1 DEF Right
<1>14. Clean => Clean'
  BY DEF Clean, Enabled
<1>15. ASSUME NEW n \in Names, Norm[n] # Norm[r.name], NEW q \in Named(n)' PROVE q \in Named(n) /\ profile'[q].owner = profile[q].owner
  <2>1. q \in Live' /\ Norm[profile'[q].name] = Norm[n] /\ q \in ProfileIds
    BY DEF Named, Live
  <2>2. q # p BY <1>3, <1>15, <2>1
  <2> QED BY <1>3, <1>7, <2>1, <2>2 DEF Named
<1> QED BY <1>8, <1>9, <1>10, <1>11, <1>12, <1>13, <1>14, <1>15 DEF Tables

\* A request creates a profile and ends.
LEMMA CreatedInv ==
    ASSUME Inv, Observe, NEW c \in Clients, todo[c] # <<>>, Free(c), Sets(c, <<>>),
           UNCHANGED <<login, token, summary, banState, fwdState, joined, env>>, NEW p, p = last.profile + 1, p <= MaxProfile,
           NEW r \in Profile, profile' = [profile EXCEPT ![p] = r], last' = [last EXCEPT !.profile = p],
           Named(r.name) = {}, OwnName(r.name, r.owner), load.serial => Count(r.owner) < MaxProfiles, r.renames = 0,
           Norm[r.name] \in Claims(c)
    PROVE  Inv'
<1>1. Tables /\ Jobs /\ CacheInv /\ raced \subseteq raced'
  BY RacedGrows DEF Inv
<1>2. /\ Tables' /\ Evolves /\ (\A n \in Names : Right(n) => Right(n)') /\ (Clean => Clean')
      /\ \A n \in Names : Norm[n] # Norm[r.name] => \A q \in Named(n)' : q \in Named(n) /\ profile'[q].owner = profile[q].owner
  BY <1>1, CreatedTables
<1>3. CacheInv'
  BY <1>1, <1>2, CacheKept DEF env
<1>4. OnlyClaimed(c)
  <2>1. \A n \in Names : LoginsNamed(n)' = LoginsNamed(n) BY DEF LoginsNamed, Members
  <2> QED BY <1>2, <2>1 DEF OnlyClaimed
<1> QED BY <1>2, <1>3, <1>4, EndStep

\* A new row is a row.
LEMMA FreshIs ==
    ASSUME NEW u \in Users, NEW n \in Names, NEW src \in {"local", "microsoft"}, NEW x \in ProfileIds \cup Official
    PROVE  /\ Fresh(u, n, src, x) \in Profile /\ Fresh(u, n, src, x).name = n /\ Fresh(u, n, src, x).owner = u
           /\ Fresh(u, n, src, x).renames = 0
  BY DEF Fresh, Profile

\* create_minecraft_profile inserts, unless the name was taken meanwhile.
LEMMA CreateInsertInv ==
    ASSUME Inv, Observe, NEW c \in Clients, CreateInsert(c)
    PROVE  Inv'
<1>1. /\ todo[c] # <<>> /\ Head(todo[c]).j = "cinsert" /\ Job(c) \in Stmt /\ Job(c).j = "cinsert" /\ Sound(Job(c))
      /\ Free(c) /\ Tables /\ Sets(c, <<>>) /\ UNCHANGED <<login, token, summary, banState, fwdState, joined, env>>
  BY JobIs DEF CreateInsert, Inv, Jobs, At, Free, Stop, Sets
<1>2. PICK x \in CreateStmt : x = Job(c) /\ x.j = "cinsert" /\ Sound(x)
  BY <1>1, StmtIs
<1>3. /\ x.u \in Users /\ x.n \in Names /\ x.m \in Official \cup {None}
      /\ (load.serial => Count(x.u) < MaxProfiles) /\ OwnName(x.n, x.u)
  BY <1>2 DEF CreateStmt, Sound, Owns
<1>4. PICK p : p = last.profile + 1 OBVIOUS
<1>0. PICK ok : ok <=> Named(x.n) = {} /\ (x.m # None => WithUuid(x.m) = {}) /\ p <= MaxProfile
  OBVIOUS
<1>5. CASE ok
  <2>1. p \in ProfileIds
    <3>1. last.profile \in 0..MaxProfile BY <1>1 DEF Tables, Typed
    <3> QED BY <1>0, <1>4, <1>5, <3>1, YggJoinAssumption DEF ProfileIds
  <2>2. PICK r : r = IF x.m = None THEN Fresh(x.u, x.n, "local", p) ELSE Fresh(x.u, x.n, "microsoft", x.m)
    OBVIOUS
  <2>3. profile' = [profile EXCEPT ![p] = r] /\ last' = [last EXCEPT !.profile = p]
    <3>1. profile' = [profile EXCEPT ![p] = IF x.m = None THEN Fresh(x.u, x.n, "local", p) ELSE Fresh(x.u, x.n, "microsoft", x.m)]
          /\ last' = [last EXCEPT !.profile = p]
      BY <1>0, <1>2, <1>4, <1>5 DEF CreateInsert
    <3> QED BY <2>2, <3>1
  <2>6. r \in Profile /\ r.name = x.n /\ r.owner = x.u /\ r.renames = 0
    <3>1. CASE x.m = None
      <4>1. r = Fresh(x.u, x.n, "local", p) BY <2>2, <3>1
      <4> QED BY <1>3, <2>1, <4>1, FreshIs
    <3>2. CASE x.m # None
      <4>1. r = Fresh(x.u, x.n, "microsoft", x.m) BY <2>2, <3>2
      <4> QED BY <1>3, <3>2, <4>1, FreshIs
    <3> QED BY <3>1, <3>2
  <2>4. Norm[r.name] \in Claims(c)
    <3>1. At(c, "cinsert") /\ Job(c).n = x.n BY <1>1, <1>2 DEF At, Job
    <3>2. Norm[x.n] \in Claims(c) BY <3>1 DEF Claims
    <3> QED BY <2>6, <3>2
  <2>5. Named(r.name) = {} /\ OwnName(r.name, r.owner) /\ (load.serial => Count(r.owner) < MaxProfiles) /\ p <= MaxProfile
    <3>1. Named(x.n) = {} /\ p <= MaxProfile BY <1>0, <1>5
    <3> QED BY <1>3, <2>6, <3>1
  <2> QED BY <1>1, <1>4, <2>3, <2>4, <2>5, <2>6, CreatedInv
<1>6. CASE ~ ok
  <2>1. UNCHANGED <<profile, last>> BY <1>0, <1>2, <1>4, <1>6 DEF CreateInsert
  <2>2. UNCHANGED shared BY <1>1, <2>1 DEF shared, playState
  <2> QED BY <1>1, <2>2, StopStep
<1> QED BY <1>5, <1>6

\* A profile is renamed to a name that is free.
LEMMA RenamedTables ==
    ASSUME Tables, UNCHANGED <<login, summary, banState, fwdState, joined, last, env>>, raced \subseteq raced', NEW p \in Live, NEW r \in Profile,
           token' \in [ProfileIds -> {"none", "ok", "paused"}], profile' = [profile EXCEPT ![p] = r], r.owner = profile[p].owner,
           Named(r.name) \ {p} = {}, OwnName(r.name, r.owner), load.serial => r.renames <= MaxRenames
    PROVE  /\ Tables' /\ Evolves /\ (Clean => Clean')
           /\ \A n \in Names : Right(n) /\ n # Norm[profile[p].name] => Right(n)'
           /\ \A n \in Names : Norm[n] # Norm[r.name] => \A q \in Named(n)' : q \in Named(n) /\ profile'[q].owner = profile[q].owner
<1> USE DEF banState, fwdState, env
<1>1. profile \in [ProfileIds -> Profile \cup {None}] /\ NamesAreOwn /\ WithinQuota /\ last.profile \in Nat
  BY SideBefore DEF Tables, Typed, TypeOK
<1>2. p \in ProfileIds /\ profile[p] # None /\ r # None
  BY YggJoinAssumption DEF Live
<1>3. /\ profile' \in [ProfileIds -> Profile \cup {None}]
      /\ \A q \in ProfileIds : profile'[q] = (IF q = p THEN r ELSE profile[q])
  BY <1>1, <1>2
<1>4. Live' = Live
  BY <1>2, <1>3 DEF Live
<1>5. Typed'
  BY <1>3 DEF Tables, Typed, TypeOK
<1>6. Ids' /\ LogTellsBan'
  <2>1. Ids' BY <1>2, <1>3 DEF Tables, Ids
  <2> QED BY <2>1 DEF Tables, LogTellsBan, Said
<1>7. NamesAreOwn'
  <2>1. ASSUME NEW q \in Live', NEW k \in Live', Norm[profile'[k].name] = Norm[profile'[q].name] PROVE k = q
    <3>1. CASE q = p /\ k # p
      <4>1. k \in Live /\ profile'[k] = profile[k] /\ profile'[q] = r
        BY <1>2, <1>3, <1>4, <3>1 DEF Live
      <4> QED BY <2>1, <3>1, <4>1 DEF Named
    <3>2. CASE q # p /\ k = p
      <4>1. q \in Live /\ profile'[q] = profile[q] /\ profile'[k] = r
        BY <1>2, <1>3, <1>4, <3>2 DEF Live
      <4> QED BY <2>1, <3>2, <4>1 DEF Named
    <3>3. CASE q # p /\ k # p
      <4>1. q \in Live /\ k \in Live /\ profile'[q] = profile[q] /\ profile'[k] = profile[k]
        BY <1>2, <1>3, <1>4, <3>3 DEF Live
      <4> QED BY <1>1, <2>1, <4>1, NamesAre
    <3> QED BY <3>1, <3>2, <3>3
  <2>0. \A n, u : OwnName(n, u) => OwnName(n, u)' BY DEF OwnName, LoginsNamed, Members
  <2>2. ASSUME NEW q \in Live' PROVE OwnName(profile[q].name, profile[q].owner)'
    <3>1. CASE q = p
      <4>1. profile'[q] = r BY <1>2, <1>3, <3>1
      <4>2. OwnName(r.name, r.owner)' BY <2>0
      <4> QED BY <4>1, <4>2 DEF OwnName, LoginsNamed, Members
    <3>2. CASE q # p
      <4>1. q \in Live /\ profile'[q] = profile[q] BY <1>2, <1>3, <1>4, <3>2 DEF Live
      <4>2. OwnName(profile[q].name, profile[q].owner) BY <1>1, <4>1, NamesAre
      <4> QED BY <4>1, <4>2 DEF OwnName, LoginsNamed, Members
    <3> QED BY <3>1, <3>2
  <2>3. (\A u, v \in Members : Norm[login[v]] = Norm[login[u]] => v = u \/ Norm[login[u]] \in raced)'
    BY <1>1, NamesAre DEF Members
  <2> QED BY <2>1, <2>2, <2>3, NamesAreThen
<1>8. WithinQuota'
  <2> SUFFICES ASSUME load'.serial
               PROVE  (\A u \in Users : Count(u)' <= MaxProfiles) /\ \A q \in Live' : profile'[q].renames <= MaxRenames
    BY DEF WithinQuota
  <2>1. ASSUME NEW u \in Users PROVE Count(u)' <= MaxProfiles
    <3>1. {q \in Live' : profile'[q].owner = u} = {q \in Live : profile[q].owner = u}
      BY <1>2, <1>3, <1>4 DEF Live
    <3> QED BY <1>1, <3>1 DEF Count, WithinQuota
  <2>2. ASSUME NEW q \in Live' PROVE profile'[q].renames <= MaxRenames
    BY <1>1, <1>2, <1>3, <1>4 DEF Live, WithinQuota
  <2> QED BY <2>1, <2>2
<1>9. Evolves
  BY <1>1, <1>2, <1>3 DEF Evolves, Keeps
<1>10. \A n \in Names : Right(n) /\ n # Norm[profile[p].name] => Right(n)'
  <2> SUFFICES ASSUME NEW n \in Names, Right(n), n # Norm[profile[p].name], summary[n] # None, summary[n] \in Live
               PROVE  Norm[profile'[summary[n]].name] = n
    BY <1>4 DEF Right
  <2>1. summary[n] # p /\ Norm[profile[summary[n]].name] = n BY DEF Right
  <2> QED BY <1>3, <2>1 DEF Live
<1>11. Clean => Clean'
  BY DEF Clean, Enabled
<1>12. ASSUME NEW n \in Names, Norm[n] # Norm[r.name], NEW q \in Named(n)' PROVE q \in Named(n) /\ profile'[q].owner = profile[q].owner
  <2>1. q \in Live' /\ Norm[profile'[q].name] = Norm[n] /\ q \in ProfileIds
    BY DEF Named, Live
  <2>2. q # p BY <1>3, <1>12, <2>1
  <2> QED BY <1>3, <1>4, <2>1, <2>2 DEF Named
<1> QED BY <1>5, <1>6, <1>7, <1>8, <1>9, <1>10, <1>11, <1>12 DEF Tables

\* What a rename makes of a row.
Renamed(row, n) == [row EXCEPT !.name = n, !.renames = @ + 1]

\* A renamed row is a row.
LEMMA RenamedIs ==
    ASSUME NEW row \in Profile, NEW n \in Names
    PROVE  /\ Renamed(row, n) \in Profile /\ Renamed(row, n).name = n /\ Renamed(row, n).owner = row.owner
           /\ Renamed(row, n).renames = row.renames + 1 /\ row.renames \in Nat
<1>1. row.renames \in Nat /\ row.renames + 1 \in Nat
  BY DEF Profile
<1>2. PICK k \in Nat : k = row.renames + 1
  BY <1>1
<1>3. PICK r : r = [row EXCEPT !.name = n, !.renames = k] OBVIOUS
<1>4. r \in Profile /\ r.name = n /\ r.owner = row.owner /\ r.renames = k
  BY <1>3 DEF Profile
<1>5. Renamed(row, n) = r
  BY <1>2, <1>3 DEF Renamed
<1> QED BY <1>1, <1>2, <1>4, <1>5

\* What stops a rename when it commits.
RenameFits(x) == x.p \in Live /\ Named(x.n) \ {x.p} = {}

\* A rename commits, unless the profile is gone or the name was taken meanwhile; then both names are dropped.
LEMMA RenameCommitInv ==
    ASSUME Inv, Observe, NEW c \in Clients, RenameCommit(c)
    PROVE  Inv'
<1>1. /\ todo[c] # <<>> /\ Head(todo[c]).j = "ncommit" /\ List(todo[c]) /\ Job(c) \in Stmt /\ Job(c).j = "ncommit"
      /\ Sound(Job(c)) /\ Free(c) /\ Tables /\ Jobs /\ CacheInv /\ JobsTyped
      /\ UNCHANGED <<login, summary, banState, fwdState, joined, last, env>> /\ raced \subseteq raced'
  BY JobIs, RacedGrows DEF RenameCommit, Inv, Jobs, At, Free
<1>2. PICK x \in RenamedStmt : x = Job(c) /\ x.j = "ncommit" /\ Sound(x)
  BY <1>1, StmtIs
<1>3. x.p \in ProfileIds /\ x.n \in Names /\ x.old \in Profile /\ x.old.name \in Names /\ OwnName(x.n, x.old.owner)
  BY <1>2 DEF RenamedStmt, Sound, Owns, Profile
<1>4. PICK y, z : y = [j |-> "drop", n |-> x.old.name] /\ z = [j |-> "drop", n |-> x.n] OBVIOUS
<1>5. y \in Stmt /\ y.j = "drop" /\ y.n = x.old.name /\ z \in Stmt /\ z.j = "drop"
  BY <1>3, <1>4 DEF Stmt, NameStmt
<1>6. PICK s : s = <<y, z>> OBVIOUS
<1>7. List(s) /\ Len(s) = 2 /\ s[1] = y /\ s[2] = z /\ s # <<>> /\ Head(s) = y
  BY <1>5, <1>6, TwoIsList
<1>8. PICK ok : ok <=> RenameFits(x) OBVIOUS
<1>9. Go(c, ok, s)
  BY <1>2, <1>4, <1>6, <1>8 DEF RenameCommit, Go, RenameFits
<1>10. (ok /\ Sets(c, s)) \/ (~ ok /\ Sets(c, <<>>))
  BY <1>1, <1>7, <1>9, GoAlone
<1>11. CASE ok
  <2>1. PICK p \in Live : p = x.p BY <1>8, <1>11 DEF RenameFits
  <2>2. /\ profile \in [ProfileIds -> Profile \cup {None}] /\ profile[p] \in Profile /\ p \in ProfileIds /\ profile[p] # None
        /\ token \in [ProfileIds -> {"none", "ok", "paused"}]
    BY <1>1 DEF Live, Tables, Typed, TypeOK
  <2>3. profile[p].owner = x.old.owner /\ (load.serial => profile[p] = x.old /\ profile[p].renames < MaxRenames)
    BY <1>2, <2>1, <2>2 DEF Sound
  <2>0. PICK row \in Profile, new \in Names : row = profile[p] /\ new = x.n BY <1>3, <2>2
  <2>4. PICK r : r = Renamed(row, new) OBVIOUS
  <2>5. r \in Profile /\ r.name = x.n /\ r.owner = profile[p].owner /\ r.renames = profile[p].renames + 1 /\ profile[p].renames \in Nat
    BY <2>0, <2>4, RenamedIs
  <2>6. profile' = [profile EXCEPT ![p] = r]
    BY <1>2, <1>8, <1>11, <2>0, <2>1, <2>2, <2>4 DEF RenameCommit, RenameFits, Renamed
  <2>7. token' \in [ProfileIds -> {"none", "ok", "paused"}]
    BY <1>2, <1>8, <1>11, <2>1, <2>2 DEF RenameCommit, RenameFits
  <2>8. Named(r.name) \ {p} = {} /\ OwnName(r.name, r.owner)
    BY <1>3, <1>8, <1>11, <2>1, <2>3, <2>5 DEF RenameFits
  <2>9. load.serial => r.renames <= MaxRenames BY <2>3, <2>5, YggJoinAssumption
  <2>10. /\ Tables' /\ Evolves /\ (Clean => Clean')
         /\ \A n \in Names : Right(n) /\ n # Norm[profile[p].name] => Right(n)'
         /\ \A n \in Names : Norm[n] # Norm[r.name] => \A q \in Named(n)' : q \in Named(n) /\ profile'[q].owner = profile[q].owner
    BY <1>1, <2>5, <2>6, <2>7, <2>8, <2>9, RenamedTables
  <2>11. Sets(c, s) /\ todo'[c] = s BY <1>1, <1>7, <1>10, <1>11, SetsTodo
  <2>12. CacheInv'
    <3> SUFFICES ASSUME load'.serial, faults' = load'.faults
                 PROVE  Clean' /\ \A n \in Names : Right(n)' \/ Drops(c, n)'
      BY DEF CacheInv
    <3>1. load.serial /\ faults = load.faults BY <1>1 DEF env
    <3>2. Clean /\ \A n \in Names : Right(n) BY <1>1, <3>1, CacheRight
    <3>3. ASSUME NEW n \in Names, n = Norm[profile[p].name] PROVE Drops(c, n)'
      <4>1. 1 \in 1..Len(s) /\ s[1].j = "drop" /\ Norm[s[1].n] = n
        BY <1>5, <1>7, <2>3, <3>1, <3>3
      <4> QED BY <2>11, <4>1 DEF Drops
    <3> QED BY <2>10, <3>2, <3>3
  <2>13. SoundList(s)' /\ Calm(s)
    <3>1. \A k \in 1..Len(s) : s[k] \in {y, z} BY <1>7
    <3>2. Sound(y)' /\ Sound(z)' BY <1>5 DEF Sound, Owns
    <3>3. SoundList(s)' BY <3>1, <3>2 DEF SoundList
    <3> QED BY <1>5, <1>7, <3>3 DEF Calm, Critical
  <2>14. OnlyClaimed(c)
    <3>1. \A n \in Names : LoginsNamed(n)' = LoginsNamed(n)
      BY <1>1 DEF LoginsNamed, Members
    <3>2. Norm[r.name] \in Claims(c) BY <1>1, <1>2, <2>5 DEF Claims, At, Job
    <3> QED BY <2>10, <3>1, <3>2 DEF OnlyClaimed
  <2> QED BY <1>1, <1>7, <2>10, <2>11, <2>12, <2>13, <2>14, WriteStep
<1>12. CASE ~ ok
  <2>1. UNCHANGED <<profile, token>> BY <1>2, <1>8, <1>12 DEF RenameCommit, RenameFits
  <2>2. UNCHANGED shared BY <1>1, <2>1 DEF shared, playState
  <2> QED BY <1>1, <1>10, <1>12, <2>2, StopStep
<1> QED BY <1>11, <1>12

\* delete_profile_for_user deletes the row.
LEMMA DeleteRowInv ==
    ASSUME Inv, Observe, NEW c \in Clients, DeleteRow(c)
    PROVE  Inv'
<1> USE DEF banState, fwdState, env
<1>1. /\ todo[c] # <<>> /\ Head(todo[c]).j = "drow" /\ Job(c) \in Stmt /\ Job(c).j = "drow"
      /\ Free(c) /\ Sets(c, <<>>) /\ Tables /\ Jobs /\ CacheInv
      /\ UNCHANGED <<login, token, summary, banState, fwdState, joined, last, env>> /\ raced \subseteq raced'
  BY JobIs, RacedGrows DEF DeleteRow, Inv, Jobs, At, Free, Stop, Sets
<1>2. PICK p \in ProfileIds : p = Job(c).p
  BY <1>1, StmtIs DEF DeleteStmt
<1>3. profile \in [ProfileIds -> Profile \cup {None}] /\ NamesAreOwn /\ WithinQuota /\ last.profile \in Nat
  BY <1>1, SideBefore DEF Tables, Typed, TypeOK
<1>4. /\ profile' \in [ProfileIds -> Profile \cup {None}]
      /\ \A q \in ProfileIds : profile'[q] = (IF q = p THEN None ELSE profile[q])
  BY <1>2, <1>3 DEF DeleteRow
<1>5. Live' = Live \ {p} /\ \A q \in Live' : q \in Live /\ profile'[q] = profile[q]
  BY <1>4 DEF Live
<1>6. Typed'
  BY <1>1, <1>4 DEF Tables, Typed, TypeOK
<1>7. Ids' /\ LogTellsBan'
  <2>1. Ids' BY <1>1, <1>4 DEF Tables, Ids
  <2> QED BY <1>1, <2>1 DEF Tables, LogTellsBan, Said
<1>8. NamesAreOwn'
  <2>1. ASSUME NEW q \in Live', NEW k \in Live', Norm[profile'[k].name] = Norm[profile'[q].name] PROVE k = q
    BY <1>3, <1>5, <2>1, NamesAre
  <2>2. ASSUME NEW q \in Live' PROVE OwnName(profile[q].name, profile[q].owner)'
    <3>1. OwnName(profile[q].name, profile[q].owner) /\ profile'[q] = profile[q]
      BY <1>3, <1>5, NamesAre
    <3> QED BY <1>1, <3>1 DEF OwnName, LoginsNamed, Members
  <2>3. (\A u, v \in Members : Norm[login[v]] = Norm[login[u]] => v = u \/ Norm[login[u]] \in raced)'
    BY <1>1, <1>3, NamesAre DEF Members
  <2> QED BY <2>1, <2>2, <2>3, NamesAreThen
<1>9. WithinQuota'
  <2> SUFFICES ASSUME load'.serial
               PROVE  (\A u \in Users : Count(u)' <= MaxProfiles) /\ \A q \in Live' : profile'[q].renames <= MaxRenames
    BY DEF WithinQuota
  <2>1. ASSUME NEW u \in Users PROVE Count(u)' <= MaxProfiles
    <3>1. PICK S, T : S = {q \in Live : profile[q].owner = u} /\ T = {q \in Live' : profile'[q].owner = u}
      OBVIOUS
    <3>2. IsFiniteSet(S) /\ Cardinality(S) \in Nat /\ Cardinality(S) <= MaxProfiles
      BY <1>1, <1>3, <3>1, CountFinite DEF Count, WithinQuota
    <3>3. T \subseteq S BY <1>5, <3>1
    <3>4. Cardinality(T) <= Cardinality(S) /\ Cardinality(T) \in Nat
      BY <3>2, <3>3, FS_Subset, FS_CardinalityType
    <3>5. Cardinality(T) <= MaxProfiles BY <3>2, <3>4, YggJoinAssumption
    <3> QED BY <3>1, <3>5 DEF Count
  <2>2. ASSUME NEW q \in Live' PROVE profile'[q].renames <= MaxRenames
    BY <1>1, <1>3, <1>5 DEF WithinQuota
  <2> QED BY <2>1, <2>2
<1>10. Evolves
  BY <1>1, <1>3, <1>4 DEF Evolves, Keeps
<1>11. CacheInv'
  <2>1. \A n \in Names : Right(n) => Right(n)' BY <1>1, <1>5 DEF Right
  <2>2. Clean => Clean' BY <1>1 DEF Clean, Enabled
  <2> QED BY <1>1, <2>1, <2>2, CacheKept
<1>12. OnlyClaimed(c)
  <2>1. \A n \in Names : LoginsNamed(n)' = LoginsNamed(n) BY <1>1 DEF LoginsNamed, Members
  <2>2. \A n \in Names : \A q \in Named(n)' : q \in Named(n) /\ profile'[q].owner = profile[q].owner
    BY <1>5 DEF Named
  <2> QED BY <2>1, <2>2 DEF OnlyClaimed
<1> QED BY <1>1, <1>6, <1>7, <1>8, <1>9, <1>10, <1>11, <1>12, EndStep DEF Tables
-----------------------------------------------------------------------------
(* Login names                                                             *)

\* A user gets a login name that is free, or free but for him.
LEMMA LoginTables ==
    ASSUME Tables, UNCHANGED <<profile, token, summary, banState, fwdState, joined, last, env>>, raced \subseteq raced',
           NEW u \in Users, NEW n \in Names, login' = [login EXCEPT ![u] = n], OwnName(n, u), OwnProfiles(n, u)
    PROVE  Tables' /\ Evolves
<1> USE DEF banState, fwdState, env
<1>1. login \in [Users -> Names \cup {None}] /\ NamesAreOwn /\ last.profile \in Nat
  BY SideBefore DEF Tables, Typed, TypeOK
<1>2. login' \in [Users -> Names \cup {None}] /\ \A v \in Users : login'[v] = (IF v = u THEN n ELSE login[v])
  BY <1>1
<1>3. Typed'
  BY <1>2 DEF Tables, Typed, TypeOK
<1>4. Ids' /\ LogTellsBan' /\ WithinQuota'
  BY DEF Tables, Ids, LogTellsBan, Said, WithinQuota, Count, Live
<1>5. ASSUME NEW v \in Members', v # u PROVE v \in Members /\ login'[v] = login[v]
  BY <1>2, <1>5 DEF Members
<1>6. Live' = Live
  BY DEF Live
<1>7. NamesAreOwn'
  <2>1. \A q, k \in Live' : Norm[profile'[k].name] = Norm[profile'[q].name] => k = q
    BY <1>1, <1>6, NamesAre
  <2>2. ASSUME NEW q \in Live' PROVE OwnName(profile[q].name, profile[q].owner)'
    <3>1. q \in Live /\ OwnName(profile[q].name, profile[q].owner) BY <1>1, <1>6, NamesAre
    <3>2. CASE Norm[profile[q].name] = Norm[n]
      <4>1. Norm[n] \in raced \/ profile[q].owner = u BY <3>1, <3>2 DEF OwnProfiles, Named
      <4>2. Norm[n] \in raced \/ LoginsNamed(profile[q].name)' \subseteq {u}
        BY <1>5, <3>2 DEF OwnName, LoginsNamed
      <4> QED BY <3>2, <4>1, <4>2 DEF OwnName
    <3>3. CASE Norm[profile[q].name] # Norm[n]
      <4>1. LoginsNamed(profile[q].name)' \subseteq LoginsNamed(profile[q].name)
        BY <1>2, <1>5, <3>3 DEF LoginsNamed
      <4> QED BY <3>1, <4>1 DEF OwnName
    <3> QED BY <3>2, <3>3
  <2>3. (\A v, w \in Members : Norm[login[w]] = Norm[login[v]] => w = v \/ Norm[login[v]] \in raced)'
    <3> SUFFICES ASSUME NEW v \in Members', NEW w \in Members', Norm[login'[w]] = Norm[login'[v]], w # v
                 PROVE  Norm[login'[v]] \in raced'
      OBVIOUS
    <3>1. CASE v = u
      <4>1. w \in LoginsNamed(n) /\ w # u /\ login'[v] = n
        BY <1>2, <1>5, <3>1 DEF LoginsNamed
      <4> QED BY <4>1 DEF OwnName
    <3>2. CASE w = u
      <4>1. v \in LoginsNamed(n) /\ v # u /\ Norm[login'[v]] = Norm[n]
        BY <1>2, <1>5, <3>2 DEF LoginsNamed
      <4> QED BY <4>1 DEF OwnName
    <3>3. CASE v # u /\ w # u
      <4>1. v \in Members /\ w \in Members /\ login'[v] = login[v] /\ login'[w] = login[w]
        BY <1>5, <3>3
      <4> QED BY <1>1, <4>1, NamesAre
    <3> QED BY <3>1, <3>2, <3>3
  <2> QED BY <2>1, <2>2, <2>3, NamesAreThen
<1>8. Evolves
  BY <1>1 DEF Evolves, Keeps
<1> QED BY <1>3, <1>4, <1>7, <1>8 DEF Tables

\* A request writes a login name and ends.
LEMMA LoginWritten ==
    ASSUME Inv, Observe, NEW c \in Clients, todo[c] # <<>>, Free(c), Sets(c, <<>>),
           UNCHANGED <<profile, token, summary, banState, fwdState, joined, last, env>>,
           NEW u \in Users, NEW n \in Names, login' = [login EXCEPT ![u] = n], OwnName(n, u), OwnProfiles(n, u),
           Norm[n] \in Claims(c)
    PROVE  Inv'
<1>1. Tables /\ Jobs /\ CacheInv /\ raced \subseteq raced'
  BY RacedGrows DEF Inv
<1>2. Tables' /\ Evolves
  BY <1>1, LoginTables
<1>3. CacheInv'
  <2>1. (Clean' <=> Clean) /\ \A m \in Names : Right(m)' <=> Right(m)
    BY DEF fwdState, Clean, Right, Enabled, Live
  <2> QED BY <1>1, <2>1, CacheKept DEF env
<1>4. OnlyClaimed(c)
  <2>1. login \in [Users -> Names \cup {None}] BY <1>1 DEF Tables, Typed, TypeOK
  <2>2. \A m \in Names : Norm[m] # Norm[n] => LoginsNamed(m)' \subseteq LoginsNamed(m)
    BY <2>1 DEF LoginsNamed, Members
  <2>3. \A m \in Names : \A q \in Named(m)' : q \in Named(m) /\ profile'[q].owner = profile[q].owner
    BY DEF Named, Live
  <2> QED BY <2>2, <2>3 DEF OnlyClaimed
<1> QED BY <1>2, <1>3, <1>4, EndStep

\* A new user is inserted, unless his name is taken to the letter.
LEMMA UserInsertInv ==
    ASSUME Inv, Observe, NEW c \in Clients, UserInsert(c)
    PROVE  Inv'
<1>1. /\ todo[c] # <<>> /\ Head(todo[c]).j = "uinsert" /\ Job(c) \in Stmt /\ Job(c).j = "uinsert" /\ Sound(Job(c))
      /\ Free(c) /\ Tables /\ Sets(c, <<>>) /\ UNCHANGED <<profile, token, summary, banState, fwdState, joined, last, env>>
  BY JobIs DEF UserInsert, Inv, Jobs, At, Free, Stop, Sets
<1>2. PICK x \in InsertStmt : x = Job(c) /\ x.j = "uinsert" /\ Sound(x)
  BY <1>1, StmtIs
<1>3. PICK n \in Names : n = x.n
  BY DEF InsertStmt
<1>4. OwnName(n, None) /\ OwnProfiles(n, None)
  BY <1>2, <1>3 DEF InsertStmt, Sound, Owns
<1>5. CASE UNCHANGED login
  <2>1. UNCHANGED shared BY <1>1, <1>5 DEF shared, playState
  <2> QED BY <1>1, <2>1, StopStep
<1>6. CASE \E u \in Users \ Members : login' = [login EXCEPT ![u] = n]
  <2>1. PICK u \in Users : login' = [login EXCEPT ![u] = n] BY <1>6
  <2>2. OwnName(n, u) BY <1>4, YggJoinAssumption DEF OwnName, LoginsNamed, Members
  <2>3. OwnProfiles(n, u)
    <3>1. ASSUME NEW p \in Named(n) PROVE profile[p].owner # None
      <4>1. profile[p] \in Profile BY <1>1 DEF Named, Live, Tables, Typed, TypeOK
      <4> QED BY <4>1, YggJoinAssumption DEF Profile
    <3> QED BY <1>4, <3>1 DEF OwnProfiles
  <2>4. Norm[n] \in Claims(c) BY <1>1, <1>2, <1>3 DEF Claims, At, Job
  <2> QED BY <1>1, <2>1, <2>2, <2>3, <2>4, LoginWritten
<1> QED BY <1>2, <1>3, <1>5, <1>6 DEF UserInsert

\* An administrator changes a login name, unless the new one is taken to the letter.
LEMMA UserRenameInv ==
    ASSUME Inv, Observe, NEW c \in Clients, UserRename(c)
    PROVE  Inv'
<1>1. /\ todo[c] # <<>> /\ Head(todo[c]).j = "uupdate" /\ Job(c) \in Stmt /\ Job(c).j = "uupdate" /\ Sound(Job(c))
      /\ Free(c) /\ Sets(c, <<>>) /\ UNCHANGED <<profile, token, summary, banState, fwdState, joined, last, env>>
  BY JobIs DEF UserRename, Inv, Jobs, At, Free, Stop, Sets
<1>2. PICK x \in LoginStmt : x = Job(c) /\ x.j = "uupdate" /\ Sound(x)
  BY <1>1, StmtIs
<1>3. PICK u \in Users, n \in Names : u = x.u /\ n = x.n
  BY DEF LoginStmt
<1>4. OwnName(n, u) /\ OwnProfiles(n, u)
  BY <1>2, <1>3 DEF Sound, Owns
<1>5. CASE UNCHANGED login
  <2>1. UNCHANGED shared BY <1>1, <1>5 DEF shared, playState
  <2> QED BY <1>1, <2>1, StopStep
<1>6. CASE login' = [login EXCEPT ![u] = n]
  <2>1. Norm[n] \in Claims(c) BY <1>1, <1>2, <1>3 DEF Claims, At, Job
  <2> QED BY <1>1, <1>4, <1>6, <2>1, LoginWritten
<1> QED BY <1>2, <1>3, <1>5, <1>6 DEF UserRename
-----------------------------------------------------------------------------
(* Time, expiry and failures                                               *)

\* The requests stand still while time passes or a cache entry expires.
LEMMA StillStep ==
    ASSUME Inv, Observe, UNCHANGED base, SideTyped, CacheInv', todo' = todo
    PROVE  Inv'
<1>1. Tables' /\ Evolves
  BY SideTables, RacedGrows DEF Inv
<1>2. Jobs /\ JobsTyped /\ Serial /\ SoundJobs /\ HistoryInv /\ load' = load
  BY DEF Inv, Jobs, base
<1>3. JobsTyped' /\ Serial'
  BY <1>2 DEF JobsTyped, List, Serial
<1>4. SoundJobs'
  <2> SUFFICES ASSUME NEW d \in Clients, NEW n \in 1..Len(todo'[d]) PROVE Sound(todo[d][n])'
    BY DEF SoundJobs
  <2>1. PICK x : x = todo'[d][n] OBVIOUS
  <2>2. Sound(x) BY <1>2, <2>1 DEF SoundJobs
  <2>3. UNCHANGED <<profile, login, ban, fwd, last, load>> /\ raced \subseteq raced'
    BY RacedGrows DEF base, banState
  <2>4. Sound(x)' BY <2>2, <2>3, SoundSame
  <2> QED BY <2>1, <2>4
<1>5. HistoryInv'
  <2>1. PICK c : c \notin Clients BY NoSetContainsEverything
  <2> QED BY <1>1, <1>2, <2>1, HistoryStep DEF Evolves
<1> QED BY <1>1, <1>3, <1>4, <1>5, RacedGrows DEF Inv, Jobs

\* What the requests have yet to tell the caches does not change with a cache.
LEMMA StillCache ==
    ASSUME CacheInv, load' = load, faults' = faults, todo' = todo, Clean => Clean',
           \A n \in Names : Right(n) => Right(n)'
    PROVE  CacheInv'
  BY DEF CacheInv, At, Drops

\* Time passes.
LEMMA TickInv == ASSUME Inv, Observe, Tick PROVE Inv'
<1>1. Tables /\ CacheInv
  BY DEF Inv
<1>2. UNCHANGED base /\ UNCHANGED <<token, list, summary, joined, faults, profile, fwd, load, todo>> /\ now' = now + 1 /\ now < MaxTime
  BY DEF Tick, base, playState, fwdState
<1>3. now' \in 0..MaxTime
  <2>1. now \in 0..MaxTime BY <1>1, SideBefore
  <2> QED BY <1>2, <2>1, YggJoinAssumption
<1>4. SideTyped
  BY <1>1, <1>2, <1>3, SideBefore DEF SideTyped
<1>5. CacheInv'
  <2>1. (Clean' <=> Clean) /\ \A n \in Names : Right(n)' <=> Right(n)
    BY <1>2 DEF Clean, Right, Enabled, Live
  <2> QED BY <1>1, <1>2, <2>1, StillCache
<1> QED BY <1>2, <1>4, <1>5, StillStep

\* A join expires.
LEMMA ExpireJoinInv == ASSUME Inv, Observe, NEW s \in Servers, ExpireJoin(s) PROVE Inv'
<1>1. Tables /\ CacheInv
  BY DEF Inv
<1>2. UNCHANGED base /\ UNCHANGED <<token, list, summary, now, faults, profile, fwd, load, todo>>
  BY DEF ExpireJoin, base, playState, fwdState, env
<1>3. joined' \in [Servers -> Entry \cup {None}]
  <2>1. joined \in [Servers -> Entry \cup {None}] /\ joined' = [joined EXCEPT ![s] = None]
    BY <1>1, SideBefore DEF ExpireJoin
  <2> QED BY <2>1
<1>4. SideTyped
  BY <1>1, <1>2, <1>3, SideBefore DEF SideTyped
<1>5. CacheInv'
  <2>1. (Clean' <=> Clean) /\ \A n \in Names : Right(n)' <=> Right(n)
    BY <1>2 DEF Clean, Right, Enabled, Live
  <2> QED BY <1>1, <1>2, <2>1, StillCache
<1> QED BY <1>2, <1>4, <1>5, StillStep

\* The cached list of upstreams expires.
LEMMA ExpireListInv == ASSUME Inv, Observe, ExpireList PROVE Inv'
<1>1. Tables /\ CacheInv
  BY DEF Inv
<1>2. UNCHANGED base /\ UNCHANGED <<token, joined, summary, now, faults, profile, fwd, load, todo>> /\ list' = None
  BY DEF ExpireList, base, playState, env
<1>4. SideTyped
  BY <1>1, <1>2, SideBefore DEF SideTyped
<1>5. CacheInv'
  <2>1. Clean' /\ \A n \in Names : Right(n)' <=> Right(n) BY <1>2 DEF Clean, Right, Live
  <2> QED BY <1>1, <1>2, <2>1, StillCache
<1> QED BY <1>2, <1>4, <1>5, StillStep

\* A cached name expires.
LEMMA ExpireSummaryInv == ASSUME Inv, Observe, NEW n \in Names, ExpireSummary(n) PROVE Inv'
<1>1. Tables /\ CacheInv
  BY DEF Inv
<1>2. UNCHANGED base /\ UNCHANGED <<token, joined, list, now, faults, profile, fwd, load, todo>>
  BY DEF ExpireSummary, base, fwdState, env
<1>3. /\ summary' \in [Names -> ProfileIds \cup {None}]
      /\ \A m \in Names : summary'[m] = (IF m = n THEN None ELSE summary[m])
  <2>1. summary \in [Names -> ProfileIds \cup {None}] /\ summary' = [summary EXCEPT ![n] = None]
    BY <1>1, SideBefore DEF ExpireSummary
  <2> QED BY <2>1
<1>4. SideTyped
  BY <1>1, <1>2, <1>3, SideBefore DEF SideTyped
<1>5. CacheInv'
  <2>1. (Clean' <=> Clean) /\ \A m \in Names : Right(m) => Right(m)'
    BY <1>2, <1>3 DEF Clean, Right, Enabled, Live
  <2> QED BY <1>1, <1>2, <2>1, StillCache
<1> QED BY <1>2, <1>4, <1>5, StillStep

\* A failure touches no table; after it the caches may be wrong.
LEMMA FailTables ==
    ASSUME Inv, Fails, UNCHANGED <<playState, banState, fwdState, joined, last, now, load>>
    PROVE  UNCHANGED base /\ SideTyped /\ CacheInv' /\ faults' # faults
<1>1. Tables /\ faults' = faults - 1 /\ faults > 0
  BY DEF Inv, Fails
<1>2. UNCHANGED base /\ UNCHANGED <<token, joined, summary, list, now, load>>
  BY DEF base, playState, fwdState
<1>3. faults \in Nat /\ load.faults \in Nat /\ faults <= load.faults
  BY <1>1, SideBefore
<1>4. faults' \in Nat /\ faults' <= faults /\ faults' < load.faults /\ faults' # faults
  BY <1>1, <1>3
<1>5. SideTyped
  BY <1>1, <1>2, <1>4, SideBefore DEF SideTyped
<1>6. CacheInv'
  <2>1. faults' # load'.faults BY <1>2, <1>3, <1>4
  <2> QED BY <2>1 DEF CacheInv
<1> QED BY <1>2, <1>4, <1>5, <1>6

\* A statement fails and its request goes on calmly, or ends.
LEMMA FailCalm ==
    ASSUME Inv, Observe, Fails, UNCHANGED <<playState, banState, fwdState, joined, last, now, load>>,
           NEW c \in Clients, todo[c] # <<>>, NEW s, List(s), Sets(c, s), SoundList(s), Calm(s)
    PROVE  Inv'
  BY FailTables, SideStep

\* A statement fails and the question goes on: it is not known any more that the player has joined.
LEMMA FailOn ==
    ASSUME Inv, Observe, Fails, UNCHANGED <<playState, banState, fwdState, joined, last, now, load>>,
           NEW c \in Clients, todo[c] # <<>>, Head(todo[c]).j \notin {"drop", "drevoke"},
           NEW x \in NextStmt \cup AnswerStmt, x.j # Head(todo[c]).j, x.j = "answer" => x.who = Nobody, Then(c, <<x>>)
    PROVE  Inv'
<1>1. Tables /\ Jobs /\ JobsTyped /\ SoundJobs /\ HistoryInv /\ List(todo[c])
  BY DEF Inv, Jobs, JobsTyped
<1>2. x \in Stmt /\ x.j \in {"next", "lget", "answer"}
  BY DEF Stmt, NextStmt, AnswerStmt
<1>3. Sound(x)
  BY <1>2, NobodyIs DEF Sound, Owns
<1>4. List(<<x>>) /\ SoundList(<<x>>) /\ Head(<<x>>) = x /\ <<x>> # <<>>
  BY <1>2, <1>3, OneIsList DEF SoundList
<1>5. Sets(c, <<x>>)
  BY <1>1, <1>4, ThenAlone
<1>6. todo'[c] = <<x>> /\ \A d \in Clients : d # c => todo'[d] = todo[d]
  BY <1>1, <1>4, <1>5, SetsTodo
<1>7. UNCHANGED base /\ SideTyped /\ CacheInv' /\ faults' # faults
  BY FailTables
<1>8. Tables' /\ Evolves /\ Keeps
  BY <1>1, <1>7, SideTables, RacedGrows DEF Evolves
<1>9. Jobs'
  BY <1>1, <1>4, <1>5, <1>7, SideJobs
<1>10. sure'[c] = None
  <2>1. todo'[c] # todo[c] BY <1>4, <1>6
  <2> QED BY <1>1, <1>2, <1>4, <1>6, <1>7, <2>1, Observed
<1>11. HistoryInv'
  <2>1. Job(c)' = x BY <1>4, <1>6 DEF Job
  <2>2. Answering(c, x)' /\ Finding(c, x)' BY <1>2, <1>10, NobodyIs DEF Answering, Finding
  <2> QED BY <1>1, <1>6, <1>8, <2>1, <2>2, HistoryStep
<1> QED BY <1>7, <1>8, <1>9, <1>11 DEF Inv

\* A failed check leads on to the next upstream, or to the end of a question without upstreams.
LEMMA FailOnward ==
    ASSUME Inv, Observe, Fails, UNCHANGED <<playState, banState, fwdState, joined, last, now, load>>,
           NEW c \in Clients, todo[c] # <<>>, Head(todo[c]).j \in {"lget", "lprofile", "lban"},
           NEW x, Asked(x), Onward(c, x)
    PROVE  Inv'
<1>1. CASE x.f = None
  <2>1. PICK y : y = [j |-> "answer", q |-> x.q, all |-> x.all, who |-> Nobody] OBVIOUS
  <2>2. y \in AnswerStmt /\ y.j = "answer" /\ y.who = Nobody
    BY <2>1, NobodyIs DEF AnswerStmt, Asked
  <2>3. Then(c, <<y>>) BY <1>1, <2>1 DEF Onward, Answer
  <2> QED BY <2>2, <2>3, FailOn
<1>2. CASE x.f # None
  <2>1. PICK y : y = [j |-> "next", q |-> x.q, all |-> x.all, rest |-> x.rest, f |-> x.f] OBVIOUS
  <2>2. y \in NextStmt /\ y.j = "next" BY <2>1 DEF NextStmt, Asked
  <2>3. Then(c, <<y>>) BY <1>2, <2>1 DEF Onward
  <2> QED BY <2>2, <2>3, FailOn
<1> QED BY <1>1, <1>2

\* A request is lost.
LEMMA LoseInv == ASSUME Inv, Observe, NEW c \in Clients, Lose(c) PROVE Inv'
<1>1. /\ todo[c] # <<>> /\ Sets(c, <<>>) /\ Fails
      /\ UNCHANGED <<playState, banState, fwdState, joined, last, now, load>>
  BY DEF Lose, Stop, Sets
<1>2. SoundList(<<>>) /\ Calm(<<>>)
  BY NoneIsList DEF SoundList, Calm
<1> QED BY <1>1, <1>2, NoneIsList, FailCalm

\* local_has_joined cannot read its tables, and is a failed upstream.
LEMMA LocalFailsInv == ASSUME Inv, Observe, NEW c \in Clients, LocalFails(c) PROVE Inv'
<1>1. /\ todo[c] # <<>> /\ Head(todo[c]).j \in {"lprofile", "lban"} /\ Job(c) \in Stmt /\ Job(c).j \in {"lprofile", "lban"}
      /\ Fails /\ Onward(c, Job(c)) /\ UNCHANGED <<playState, banState, fwdState, joined, last, now, load>>
  BY JobIs DEF LocalFails, Inv, Jobs, At
<1>2. Asked(Job(c))
  BY <1>1, StmtIs DEF Asked, PlayerStmt, OwnerStmt
<1> QED BY <1>1, <1>2, FailOnward

\* A cache does not answer.
LEMMA CacheFailsInv == ASSUME Inv, Observe, NEW c \in Clients, CacheFails(c) PROVE Inv'
<1>1. Fails /\ UNCHANGED <<playState, banState, fwdState, joined, last, now, load>> /\ JobsTyped /\ SoundJobs
  BY DEF CacheFails, Inv, Jobs
<1>2. CASE At(c, "list") /\ Then(c, <<[Job(c) EXCEPT !.j = "lread"]>>)
  <2>1. todo[c] # <<>> /\ Head(todo[c]).j = "list" /\ List(todo[c]) /\ Job(c) \in Stmt /\ Job(c).j = "list"
    BY <1>1, <1>2, JobIs DEF At
  <2>2. PICK x \in AskStmt : x = Job(c) BY <2>1, StmtIs
  <2>3. PICK y : y = [x EXCEPT !.j = "lread"] OBVIOUS
  <2>4. y \in Stmt /\ y.j \in Plain /\ Sound(y) /\ y.j \notin Critical
    <3>1. y \in AskStmt /\ y.j = "lread" BY <2>3 DEF AskStmt
    <3> QED BY <3>1, PlainSound DEF Stmt, Plain
  <2>5. List(<<y>>) /\ SoundList(<<y>>) /\ Calm(<<y>>)
    BY <2>4, OneIsList DEF SoundList, Calm
  <2>6. Sets(c, <<y>>) BY <1>2, <2>1, <2>2, <2>3, <2>5, ThenAlone
  <2> QED BY <1>1, <2>1, <2>5, <2>6, FailCalm
<1>3. CASE At(c, "lfill") /\ Survey(c, Job(c).q, Job(c).l)
  <2>1. todo[c] # <<>> /\ Head(todo[c]).j = "lfill" /\ Job(c) \in Stmt /\ Job(c).j = "lfill"
    BY <1>1, <1>3, JobIs DEF At
  <2>2. PICK q \in Query, l \in SUBSET Upstream : q = Job(c).q /\ l = Job(c).l
    BY <2>1, StmtIs DEF ListStmt
  <2>3. PICK y : y = [j |-> IF l = {} THEN "lget" ELSE "next", q |-> q, all |-> l, rest |-> l, f |-> None]
    OBVIOUS
  <2>4. y \in NextStmt /\ y.j \in {"next", "lget"} BY <2>3, SurveyIs DEF NextStmt
  <2>5. Then(c, <<y>>) BY <1>3, <2>2, <2>3 DEF Survey
  <2> QED BY <1>1, <2>1, <2>4, <2>5, FailOn
<1>4. CASE At(c, "lget") /\ Onward(c, Job(c))
  <2>1. todo[c] # <<>> /\ Head(todo[c]).j = "lget" /\ Job(c) \in Stmt /\ Job(c).j = "lget"
    BY <1>1, <1>4, JobIs DEF At
  <2>2. Asked(Job(c)) BY <2>1, StmtIs DEF Asked, NextStmt
  <2> QED BY <1>1, <1>4, <2>1, <2>2, FailOnward
<1>5. CASE At(c, "drop") /\ Then(c, <<>>)
  <2>1. todo[c] # <<>> /\ Head(todo[c]).j = "drop" /\ List(todo[c]) /\ Job(c) = todo[c][1] /\ Job(c).j = "drop"
    BY <1>1, <1>5, JobIs DEF At
  <2>2. PICK s : s = Tail(todo[c]) OBVIOUS
  <2>3. List(s) /\ (s # <<>> => Len(s) = 1 /\ s[1] = Head(s) /\ s[1].j = "drop")
    BY <2>1, <2>2, ListTail
  <2>4. Sets(c, s) BY <1>5, <2>1, <2>2, ThenRest
  <2>5. SoundList(s) /\ Calm(s) BY <2>3, OneLeft
  <2> QED BY <1>1, <2>1, <2>3, <2>4, <2>5, FailCalm
<1>6. CASE \E p \in ProfileIds : At(c, "look") /\ p \in Named(Job(c).n) /\ Then(c, <<[j |-> "fill", p |-> p, n |-> Job(c).n]>>)
  <2>1. PICK p \in ProfileIds : At(c, "look") /\ p \in Named(Job(c).n) /\ Then(c, <<[j |-> "fill", p |-> p, n |-> Job(c).n]>>)
    BY <1>6
  <2>2. todo[c] # <<>> /\ Head(todo[c]).j = "look" /\ List(todo[c]) /\ Job(c) \in Stmt /\ Job(c).j = "look"
    BY <1>1, <2>1, JobIs DEF At
  <2>3. PICK y : y = [j |-> "fill", p |-> p, n |-> Job(c).n] OBVIOUS
  <2>4. profile[p] # None /\ Norm[profile[p].name] = Norm[Job(c).n] /\ p <= last.profile /\ Job(c).n \in Names
    BY <2>1, <2>2, StmtIs DEF Named, Live, Inv, Tables, Ids, NameStmt
  <2>5. y \in Stmt /\ Sound(y) /\ y.j \notin Critical
    <3>1. y \in FillStmt /\ y.j = "fill" /\ y.p = p /\ y.n = Job(c).n
      BY <2>3, <2>4 DEF FillStmt
    <3> QED BY <2>4, <3>1 DEF Stmt, Sound, Owns, Critical
  <2>6. List(<<y>>) /\ SoundList(<<y>>) /\ Calm(<<y>>)
    BY <2>5, OneIsList DEF SoundList, Calm
  <2>7. Sets(c, <<y>>) BY <2>1, <2>2, <2>3, <2>6, ThenAlone
  <2> QED BY <1>1, <2>2, <2>6, <2>7, FailCalm
<1> QED BY <1>2, <1>3, <1>4, <1>5, <1>6 DEF CacheFails
-----------------------------------------------------------------------------
(* The invariant                                                           *)

\* The tables a workload starts with.
LEMMA InitTables == Init => Tables
<1> SUFFICES ASSUME Init PROVE Tables
  OBVIOUS
<1>1. /\ load \in Workloads /\ load.profiles \in Seq(Profile) /\ load.fwds \in Seq(Fwd) /\ load.faults \in Nat
      /\ Len(load.profiles) <= MaxProfile /\ Len(load.fwds) <= MaxFwd
      /\ \A p \in DOMAIN load.profiles :
            /\ load.profiles[p].renames <= MaxRenames
            /\ \A r \in DOMAIN load.profiles \ {p} : Norm[load.profiles[r].name] # Norm[load.profiles[p].name]
            /\ \A v \in Users \ {load.profiles[p].owner} :
                  load.logins[v] # None => Norm[load.logins[v]] # Norm[load.profiles[p].name]
      /\ login = load.logins /\ login \in [Users -> Names \cup {None}] /\ raced = {}
      /\ \A u, v \in Users : u # v /\ login[u] # None /\ login[v] # None => Norm[login[u]] # Norm[login[v]]
      /\ \A u \in Users : Cardinality({p \in DOMAIN load.profiles : load.profiles[p].owner = u}) <= MaxProfiles
  BY YggJoinAssumption DEF Init
<1>2. PICK P, F : P = load.profiles /\ F = load.fwds OBVIOUS
<1>3. P \in Seq(Profile) /\ DOMAIN P = 1..Len(P) /\ Len(P) \in Nat /\ Len(P) <= MaxProfile /\ \A p \in DOMAIN P : P[p] \in Profile
  BY <1>1, <1>2, LenProperties, ElementOfSeq
<1>4. F \in Seq(Fwd) /\ DOMAIN F = 1..Len(F) /\ Len(F) \in Nat /\ Len(F) <= MaxFwd /\ \A f \in DOMAIN F : F[f] \in Fwd
  BY <1>1, <1>2, LenProperties, ElementOfSeq
<1>5. /\ profile = [p \in ProfileIds |-> IF p \in DOMAIN P THEN P[p] ELSE None]
      /\ fwd = [f \in FwdIds |-> IF f \in DOMAIN F THEN F[f] ELSE None]
      /\ last = [profile |-> Len(P), ban |-> 0, fwd |-> Len(F)]
  BY <1>2 DEF Init
<1>6. DOMAIN P \subseteq ProfileIds /\ Len(P) \in 0..MaxProfile /\ Len(F) \in 0..MaxFwd
  BY <1>3, <1>4, YggJoinAssumption DEF ProfileIds
<1>7. Live = DOMAIN P /\ \A p \in Live : profile[p] = P[p]
  BY <1>3, <1>5, <1>6, YggJoinAssumption DEF Live
<1>8. profile \in [ProfileIds -> Profile \cup {None}] /\ fwd \in [FwdIds -> Fwd \cup {None}]
  BY <1>3, <1>4, <1>5
<1>9. last \in [profile : 0..MaxProfile, ban : 0..MaxBan, fwd : 0..MaxFwd]
  BY <1>5, <1>6, YggJoinAssumption
<1>10. log \in [BanIds -> Seq(Event)] /\ \A b \in BanIds : \A n \in DOMAIN log[b] : log[b][n] \in Event
  <2>1. <<>> \in Seq(Event) /\ DOMAIN <<>> = {} OBVIOUS
  <2>2. log = [b \in BanIds |-> <<>>] BY DEF Init
  <2> QED BY <2>1, <2>2
<1>11. now \in 0..MaxTime /\ faults \in Nat /\ faults <= load.faults
  BY <1>1, YggJoinAssumption DEF Init
<1>12. Typed
  BY <1>1, <1>8, <1>9, <1>10, <1>11 DEF Typed, TypeOK, Init
<1>13. Ids
  BY <1>3, <1>5, <1>7 DEF Ids, Init, Live
<1>14. LogTellsBan
  BY DEF LogTellsBan, Init
<1>15. NamesAreOwn
  <2>1. \A q, k \in Live : Norm[profile[k].name] = Norm[profile[q].name] => k = q
    BY <1>1, <1>2, <1>7
  <2>2. \A q \in Live : OwnName(profile[q].name, profile[q].owner)
    BY <1>1, <1>2, <1>7 DEF OwnName, LoginsNamed, Members
  <2>3. \A u, v \in Members : Norm[login[v]] = Norm[login[u]] => v = u \/ Norm[login[u]] \in raced
    BY <1>1 DEF Members
  <2> QED BY <2>1, <2>2, <2>3, NamesAre
<1>16. WithinQuota
  <2>1. ASSUME NEW u \in Users PROVE Count(u) <= MaxProfiles
    <3>1. {p \in Live : profile[p].owner = u} = {p \in DOMAIN P : P[p].owner = u} BY <1>7
    <3> QED BY <1>1, <1>2, <3>1 DEF Count
  <2>2. \A q \in Live : profile[q].renames <= MaxRenames BY <1>1, <1>2, <1>7
  <2> QED BY <2>1, <2>2 DEF WithinQuota
<1> QED BY <1>12, <1>13, <1>14, <1>15, <1>16 DEF Tables

\* Nothing is asked, cached or observed at first.
LEMMA InitInv == Init => Inv
<1> SUFFICES ASSUME Init PROVE Inv
  OBVIOUS
<1>1. \A c \in Clients : todo[c] = <<>> /\ shut[c] = {} /\ sure[c] = None
  BY DEF Init
<1>2. JobsTyped
  <2>1. todo = [c \in Clients |-> <<>>] /\ <<>> \in Seq(Stmt) BY DEF Init
  <2> QED BY <1>1, <2>1, NoneIsList DEF JobsTyped
<1>3. Serial
  BY <1>1 DEF Serial
<1>4. SoundJobs
  BY <1>1, NoneIsList DEF SoundJobs
<1>5. CacheInv
  BY DEF CacheInv, Clean, Right, Init
<1>6. HistoryInv
  BY <1>1 DEF HistoryInv, Init
<1>7. Contested \subseteq raced
  BY <1>1 DEF Contested, Claims, At
<1> QED BY <1>2, <1>3, <1>4, <1>5, <1>6, <1>7, InitTables DEF Inv, Jobs

\* A statement of a request, each by its lemma.
LEMMA StatementInv == ASSUME Inv, Observe, NEW c \in Clients, Statement(c) PROVE Inv'
<1>1. CASE Authenticate(c) \/ JoinToken(c) \/ JoinBan(c) \/ JoinProfile(c) \/ JoinSet(c)
  BY <1>1, AuthenticateInv, JoinTokenInv, JoinBanInv, JoinProfileInv, JoinSetInv
<1>2. CASE \/ ListHit(c) \/ ListRead(c) \/ ListFill(c) \/ NextUpstream(c) \/ LocalGet(c) \/ LocalProfile(c)
           \/ LocalBan(c) \/ CallUpstream(c) \/ CheckBound(c) \/ Reply(c)
  BY <1>2, ListHitInv, ListReadInv, ListFillInv, NextUpstreamInv, LocalGetInv, LocalProfileInv, LocalBanInv,
     CallUpstreamInv, CheckBoundInv, ReplyInv
<1>3. CASE BanCheck(c) \/ BanCreate(c) \/ BanRead(c) \/ BanUpdate(c) \/ RevokeRead(c) \/ BanRevoke(c)
  BY <1>3, BanCheckInv, BanCreateInv, BanReadInv, BanUpdateInv, RevokeReadInv, BanRevokeInv
<1>4. CASE FwdCheck(c) \/ FwdInsert(c) \/ FwdRead(c) \/ FwdUpdate(c) \/ FwdFind(c) \/ FwdDelete(c) \/ FwdFlush(c)
  BY <1>4, FwdCheckInv, FwdInsertInv, FwdReadInv, FwdUpdateInv, FwdFindInv, FwdDeleteInv, FwdFlushInv
<1>5. CASE \/ ChooseName(c) \/ CreateBan(c) \/ CreateCount(c) \/ CreateTaken(c) \/ CreateInsert(c)
           \/ LookUp(c) \/ FillSummary(c)
  BY <1>5, ChooseNameInv, CreateBanInv, CreateCountInv, CreateTakenInv, CreateInsertInv,
     LookUpInv, FillSummaryInv
<1>6. CASE \/ RenameBan(c) \/ RenameRead(c) \/ RenameTaken(c) \/ RenameCommit(c) \/ DropSummary(c)
           \/ DeleteRead(c) \/ DeleteRevoke(c) \/ DeleteRow(c)
  BY <1>6, RenameBanInv, RenameReadInv, RenameTakenInv, RenameCommitInv, DropSummaryInv, DeleteReadInv,
     DeleteRevokeInv, DeleteRowInv
<1>7. CASE UsernameCheck(c) \/ UserInsert(c) \/ UserRename(c)
  BY <1>7, UsernameCheckInv, UserInsertInv, UserRenameInv
<1> QED BY <1>1, <1>2, <1>3, <1>4, <1>5, <1>6, <1>7 DEF Statement

\* The invariant holds at every step, and when nothing happens.
LEMMA NextInv == Inv /\ [Next]_vars => Inv'
<1> SUFFICES ASSUME Inv, [Next]_vars PROVE Inv'
  OBVIOUS
<1>1. CASE Next
  <2>0. Observe /\ Step BY <1>1 DEF Next
  <2>1. ASSUME NEW c \in Clients, Request(c) \/ Statement(c) \/ Lose(c) \/ LocalFails(c) \/ CacheFails(c) PROVE Inv'
    BY <2>0, <2>1, RequestInv, StatementInv, LoseInv, LocalFailsInv, CacheFailsInv
  <2>2. CASE Tick \/ ExpireList BY <2>0, <2>2, TickInv, ExpireListInv
  <2>3. ASSUME NEW s \in Servers, ExpireJoin(s) PROVE Inv' BY <2>0, <2>3, ExpireJoinInv
  <2>4. ASSUME NEW n \in Names, ExpireSummary(n) PROVE Inv'
    BY <2>0, <2>4, ExpireSummaryInv
  <2> QED BY <2>0, <2>1, <2>2, <2>3, <2>4 DEF Step
<1>2. CASE UNCHANGED vars
  <2> USE <1>2 DEF vars
  <2>1. Tables /\ Jobs /\ CacheInv /\ HistoryInv BY DEF Inv
  <2>2. Tables'
    <3>1. UNCHANGED <<playState, banState, fwdState, joined, last, load>>
      BY DEF playState, banState, fwdState
    <3>2. now' \in 0..MaxTime /\ faults' \in Nat /\ faults' <= faults /\ raced \subseteq raced'
      BY <2>1, SideBefore
    <3> QED BY <2>1, <3>1, <3>2, TablesSame
  <2>3. Jobs'
    <3>1. JobsTyped' /\ Serial' BY <2>1 DEF Jobs, JobsTyped, List, Serial
    <3>2. SoundJobs'
      <4> SUFFICES ASSUME NEW d \in Clients, NEW n \in 1..Len(todo'[d]) PROVE Sound(todo[d][n])'
        BY DEF SoundJobs
      <4>1. PICK x : x = todo[d][n] OBVIOUS
      <4>2. Sound(x) BY <2>1, <4>1 DEF Jobs, SoundJobs
      <4>3. Sound(x)' BY <4>2, SoundSame
      <4> QED BY <4>1, <4>3
    <3>3. Contested' \subseteq raced'
      <4>1. \A c : Claims(c)' = Claims(c) BY DEF Claims, At, Job
      <4> QED BY <2>1, <4>1 DEF Jobs, Contested
    <3> QED BY <3>1, <3>2, <3>3 DEF Jobs
  <2>4. CacheInv'
    <3>1. (Clean' <=> Clean) /\ \A n \in Names : Right(n)' <=> Right(n)
      BY DEF Clean, Right, Enabled, Live
    <3> QED BY <2>1, <3>1, StillCache
  <2>5. HistoryInv'
    <3>1. \A c \in Clients : Job(c)' = Job(c) BY DEF Job
    <3>2. StayOut' = StayOut
      BY DEF StayOut, Live, Banned, BansOn, Effective, EffectiveRow, Bound, WithUuid
    <3>3. \A q : Player(q)' = Player(q)
      BY DEF Player, HasJoined, Fits, Live, Banned, BansOn, Effective, EffectiveRow
    <3>4. \A c \in Clients : /\ Answering(c, Job(c)) => Answering(c, Job(c))'
                             /\ Finding(c, Job(c)) => Finding(c, Job(c))'
      BY <3>1 DEF Answering, Finding, HasLocal
    <3>5. \A c \in Clients : Player(Job(c).q)' = Player(Job(c).q) BY <3>1, <3>3
    <3> QED BY <2>1, <3>2, <3>4, <3>5 DEF HistoryInv
  <2> QED BY <2>2, <2>3, <2>4, <2>5 DEF Inv
<1> QED BY <1>1, <1>2

\* The invariant holds in every reachable state.
THEOREM InvHolds == Spec => []Inv
  BY InitInv, NextInv, PTL DEF Spec

-----------------------------------------------------------------------------
(* What the invariant gives                                                *)

\* local_has_joined reads the profile and the ban of a recorded join again, or says nothing when it cannot: its
\* word lets in nobody who was gone or banned ever since the question came.  forwarded_mojang_profile_is_bound asks
\* for the binding only: Mojang's word lets in no account that was not bound ever since, banned owners of bound
\* ones it does let in.  Whoever had joined ever since is found, whatever the upstreams do, unless a statement of
\* this request failed, for orchestrated_has_joined takes a local check that failed for an upstream without the player.
THEOREM AnswerHolds == Spec => []AnswerIsRight
<1>1. Inv => AnswerIsRight
  <2> SUFFICES ASSUME Inv PROVE AnswerIsRight
    OBVIOUS
  <2>1. \A c \in Clients : todo[c] # <<>> => Answering(c, Job(c)) /\ Finding(c, Job(c))
    BY DEF Inv, HistoryInv
  <2>2. \A c \in Clients : At(c, "answer") => todo[c] # <<>> /\ Job(c).j = "answer"
    BY DEF At, Job
  <2>3. BannedStaysOut BY <2>1, <2>2 DEF BannedStaysOut, Answering, Live
  <2>4. OfficialIsBound BY <2>1, <2>2 DEF OfficialIsBound, Answering
  <2>5. JoinedIsFound BY <2>1, <2>2 DEF JoinedIsFound, Finding, HasLocal
  <2> QED BY <2>3, <2>4, <2>5 DEF AnswerIsRight
<1> QED BY <1>1, InvHolds, PTL

\* create_user_ban, update_user_ban and revoke_user_ban write the row and its event in one transaction, and an
\* edit writes only the columns it changes: the events of a ban tell the ban, and a revoked ban stays revoked.
THEOREM LogHolds == Spec => []LogTellsBan
<1>1. Inv => LogTellsBan
  BY DEF Inv, Tables
<1> QED BY <1>1, InvHolds, PTL

\* The unique index keeps the names of profiles apart; profile_name_taken and ensure_username_available keep login
\* names apart from them and from each other, for users who register or are renamed at any moment, but for a name
\* that two requests had both found free before either took it, since no index spans users and profiles.  One
\* request at a time, limits hold and invalidate_profile_name_summary_cache with
\* invalidate_session_forward_server_cache keeps the caches right.
THEOREM ProfilesHold == Spec => []ProfilesConsistent
<1>1. Inv => ProfilesConsistent
  <2> SUFFICES ASSUME Inv PROVE ProfilesConsistent
    OBVIOUS
  <2>1. TypeOK /\ NamesAreOwn /\ WithinQuota /\ CacheInv BY DEF Inv, Tables, Typed
  <2>2. CachesAreFresh
    <3> SUFFICES ASSUME load.serial, Quiet, faults = load.faults
                 PROVE  Clean /\ \A n \in Names : Right(n)
      BY DEF CachesAreFresh, Clean, Right
    <3>1. \A c \in Clients : ~ At(c, "flush") BY DEF Quiet, At
    <3>2. ASSUME NEW c \in Clients, NEW n, Drops(c, n) PROVE FALSE
      <4>1. PICK k : k \in 1..Len(todo[c]) BY <3>2 DEF Drops
      <4>2. Len(todo[c]) = 0 BY NoneIsList DEF Quiet
      <4> QED BY <4>1, <4>2
    <3> QED BY <2>1, <3>1, <3>2 DEF CacheInv
  <2> QED BY <2>1, <2>2 DEF ProfilesConsistent
<1> QED BY <1>1, InvHolds, PTL
==============================================================================
