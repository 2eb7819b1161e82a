------------------------- MODULE ExternalAuth_proofs -------------------------
(***************************************************************************)
(* Proofs about ExternalAuth, for any number of providers, users, flows    *)
(* and requests and every workload: a flow ends once and sends one mail, a *)
(* visitor keeps one account and enters through a provider that was        *)
(* enabled, a mail links a proven account, and accounts, links and         *)
(* profiles agree.                                                         *)
(***************************************************************************)
EXTENDS ExternalAuth, SequenceTheorems, TLAPS

-----------------------------------------------------------------------------
(* Statements: what a request carries, by the point it has reached         *)

Keys == Providers \cup {PublicKey}
Services == {"microsoft", "xbox", "xsts", "minecraft", "profile"}
\* A flow that has been mailed to an address.
MailRow == {r \in Flow : r.sub \in Subjects /\ r.target \in Emails}

LoginStmt == [j : {"lopen"}, key : Keys]
BindStmt == [j : {"bopen"}, key : Keys, u : UserIds, k : {"code", "device"}]
LinkStmt == [j : {"uread", "unlink"}, i : Identity]
NewStmt == [j : {"pkey", "pcreate"}, r : Provider]
EditStmt == [j : {"pupdate"}, p : Providers, r : Provider]
DropStmt == [j : {"pdelete"}, p : Providers]
FindStmt == [j : {"find"}, f : FlowIds, then : {"prov", "bprov"}]
TakeStmt == [j : {"consume"}, f : FlowIds]
CheckStmt == [j : {"prov", "bprov"}, f : FlowIds, p : Providers, u : UserIds \cup {None}]
AskStmt == [j : {"claims"}, f : FlowIds, p : Providers, row : Provider]
KnownStmt == [j : {"known", "byemail"}, f : FlowIds, p : Providers, row : Provider, claim : Claims]
VisitStmt == [j : {"link", "create", "pending", "account", "session"}, f : FlowIds,
              p : Providers, sub : Subjects, e : Emails \cup {None}, ver : BOOLEAN, u : UserIds \cup {None}]
ProvenStmt == [j : {"pcommit", "session"}, f : FlowIds, p : Providers, sub : Subjects, u : UserIds]
DeviceStmt == [j : {"device"}, f : FlowIds, u : UserIds]
TokenStmt == [j : {"token"}, f : FlowIds, u : UserIds, p : Providers]
CallStmt == [j : {"call"}, f : FlowIds, at : Services]
AccountStmt == [j : {"account?"}, f : FlowIds, p : Providers, u : UserIds \cup {None}]
ApplyStmt == [j : {"apply"}, f : FlowIds, p : Providers, u : UserIds, s : Subjects]
MailStmt == [j : {"mread", "mcommit"}, f : FlowIds, e : Emails]
ConfirmStmt == [j : {"cread"}, f : FlowIds]
ConfirmedStmt == [j : {"ccommit"}, f : FlowIds, row : MailRow]
PasswordStmt == [j : {"pread"}, f : FlowIds, u : UserIds]

Stmt ==
    LoginStmt \cup BindStmt \cup LinkStmt \cup NewStmt \cup EditStmt \cup DropStmt \cup FindStmt \cup TakeStmt
    \cup CheckStmt \cup AskStmt \cup KnownStmt \cup VisitStmt \cup ProvenStmt \cup DeviceStmt \cup TokenStmt
    \cup CallStmt \cup AccountStmt \cup ApplyStmt \cup MailStmt \cup ConfirmStmt \cup ConfirmedStmt \cup PasswordStmt

\* Statements of a request that has consumed its flow.
Owning == {"prov", "bprov", "claims", "known", "byemail", "link", "create", "pending", "account", "session",
           "call", "account?", "apply"}

\* A request has one statement to make, or a consumption or a call and what follows it, all of one
\* flow and all but the last one calls.
List(s) ==
    /\ s \in Seq(Stmt)
    /\ \A n \in 2..Len(s) :
          /\ s[1].j \in {"consume", "call"} /\ s[n].f = s[1].f
          /\ s[n].j \in {"prov", "bprov", "call", "account?"} /\ (n < Len(s) => s[n].j = "call")

-----------------------------------------------------------------------------
(* The inductive invariant                                                 *)

\* The types, and what ids hand out.
Typed ==
    /\ load \in Workloads /\ faults \in Nat
    /\ users \in [UserIds -> User \cup {None}] /\ provs \in [Providers -> Provider \cup {None}]
    /\ links \subseteq Identity /\ flows \in [FlowIds -> Flow \cup {None}]
    /\ profiles \in [Subjects -> UserIds \cup {None}]
    /\ last \in [user : 0..MaxUser, flow : 0..MaxFlow, prov : 0..MaxProv]
    /\ ends \in [FlowIds -> Nat] /\ mails \in [FlowIds -> Nat] /\ dark \in BOOLEAN
    /\ entries \subseteq [user : UserIds, ns : Providers, sub : Subjects]
    /\ todo \in [Clients -> Seq(Stmt)] /\ \A c \in Clients : List(todo[c])

\* Rows have ids that were handed out; a flow that waits for an address knows its subject.
Ids ==
    /\ \A f \in FlowIds : flows[f] # None => f <= last.flow /\ (flows[f].kind = "mail" => flows[f].sub \in Subjects)
    /\ \A p \in Providers : provs[p] # None => p <= last.prov

\* The flow of a mail: a row of that kind, or none any more.
OfMail(f) == f <= last.flow /\ (flows[f] = None \/ flows[f].kind = "mail")
\* The provider has this kind, unless it is gone.
OfKind(p, kinds) == p <= last.prov /\ (provs[p] = None \/ provs[p].kind \in kinds)
\* The visitor's link leads to the account, unless it was given up.
LedTo(ns, s, u) == <<ns, s>> \in released \/ \E i \in links : i.ns = ns /\ i.sub = s /\ i.user = u

\* What a statement may rely on when it is made.
Sound(x) ==
    /\ x.j \in {"cread", "pread"} => OfMail(x.f)
    /\ x.j \in {"claims", "known", "byemail"} => OfKind(x.p, {x.row.kind})
    /\ x.j = "byemail" => x.claim.email # None
    /\ x.j = "create" /\ x.e = None => OfKind(x.p, {"linuxdo"})
    /\ x.j = "unlink" => x.i.ns # Minecraft /\ OfKind(x.i.prov, Kinds \ {"microsoft", "linuxdo"})
    /\ x.j \in {"account", "session"} => LedTo(x.p, x.sub, x.u)
SoundJobs == \A c \in Clients : todo[c] # <<>> => Sound(todo[c][1])

\* The request has consumed the flow and goes on with it.
Owner(c, f) == todo[c] # <<>> /\ todo[c][1].j \in Owning /\ todo[c][1].f = f
Consumed(f) == f <= last.flow /\ (flows[f] = None \/ flows[f].used)
Mailed(f) == f <= last.flow /\ (flows[f] = None \/ flows[f].target # None)

\* A consumed flow has one owner or has ended, and a flow that was mailed has its address.
FlowInv ==
    /\ \A c \in Clients, f \in FlowIds : Owner(c, f) =>
          /\ Consumed(f) /\ ends[f] = 0
          /\ \A d \in Clients : Owner(d, f) => d = c
    /\ \A f \in FlowIds : ends[f] # 0 => Consumed(f) /\ ends[f] = 1
    /\ \A f \in FlowIds : mails[f] # 0 => Mailed(f) /\ mails[f] = 1

\* A subject is linked to one account, and who came in did so to the account he is linked to.
VisitInv ==
    /\ \A i, k \in links : i.ns = k.ns /\ i.sub = k.sub => i.user = k.user
    /\ \A e \in entries : LedTo(e.ns, e.sub, e.user)

\* Who has no address has a link that cannot be given up, unless a provider was deleted.
Reachable(u) ==
    \/ \E i \in links : i.user = u /\ provs[i.prov] # None /\ provs[i.prov].kind = "linuxdo"
    \/ \E p \in 1..last.prov : provs[p] = None
OrphanInv == \A u \in Live : users[u].email = None => Reachable(u)

Inv == Typed /\ Ids /\ SoundJobs /\ FlowInv /\ VisitInv /\ OrphanInv /\ BoundProfile

-----------------------------------------------------------------------------
(* Lists of statements                                                     *)

\* The request goes on with these statements.
Sets(c, s) == todo' = [todo EXCEPT ![c] = s]

\* A statement's kind tells what it carries.
LEMMA StmtIs ==
    ASSUME NEW x \in Stmt
    PROVE  /\ x.j = "lopen" => x \in LoginStmt
           /\ x.j = "bopen" => x \in BindStmt
           /\ x.j \in {"uread", "unlink"} => x \in LinkStmt
           /\ x.j \in {"pkey", "pcreate"} => x \in NewStmt
           /\ x.j = "pupdate" => x \in EditStmt
           /\ x.j = "pdelete" => x \in DropStmt
           /\ x.j = "find" => x \in FindStmt
           /\ x.j = "consume" => x \in TakeStmt
           /\ x.j \in {"prov", "bprov"} => x \in CheckStmt
           /\ x.j = "claims" => x \in AskStmt
           /\ x.j \in {"known", "byemail"} => x \in KnownStmt
           /\ x.j \in {"link", "create", "pending", "account"} => x \in VisitStmt
           /\ x.j = "session" => x \in VisitStmt \cup ProvenStmt
           /\ x.j = "pcommit" => x \in ProvenStmt
           /\ x.j = "device" => x \in DeviceStmt
           /\ x.j = "token" => x \in TokenStmt
           /\ x.j = "call" => x \in CallStmt
           /\ x.j = "account?" => x \in AccountStmt
           /\ x.j = "apply" => x \in ApplyStmt
           /\ x.j \in {"mread", "mcommit"} => x \in MailStmt
           /\ x.j = "cread" => x \in ConfirmStmt
           /\ x.j = "ccommit" => x \in ConfirmedStmt
           /\ x.j = "pread" => x \in PasswordStmt
  BY DEF Stmt, LoginStmt, BindStmt, LinkStmt, NewStmt, EditStmt, DropStmt, FindStmt, TakeStmt, CheckStmt,
         AskStmt, KnownStmt, VisitStmt, ProvenStmt, DeviceStmt, TokenStmt, CallStmt, AccountStmt, ApplyStmt,
         MailStmt, ConfirmStmt, ConfirmedStmt, PasswordStmt

\* No statement to make, and one, are lists.
LEMMA NoneIsList == List(<<>>)
  BY DEF List

\* One statement is a list.
LEMMA OneIsList == ASSUME NEW x \in Stmt PROVE List(<<x>>) /\ <<x>> # <<>> /\ <<x>>[1] = x
  BY DEF List

\* A consumption and what follows it is a list, and so is what follows.
LEMMA ListTail ==
    ASSUME NEW s, List(s), s # <<>>
    PROVE  /\ s[1] \in Stmt /\ Head(s) = s[1] /\ List(Tail(s))
           /\ Tail(s) # <<>> => /\ s[1].j \in {"consume", "call"} /\ Tail(s)[1].f = s[1].f
                                /\ Tail(s)[1].j \in {"prov", "bprov", "call", "account?"}
<1>1. s \in Seq(Stmt) /\ Len(s) \in Nat /\ Len(s) >= 1
  BY EmptySeq, LenProperties DEF List
<1>2. /\ Head(s) = s[1] /\ Tail(s) \in Seq(Stmt) /\ Len(Tail(s)) = Len(s) - 1
      /\ \A n \in 1..Len(Tail(s)) : Tail(s)[n] = s[n + 1]
  BY <1>1, HeadTailProperties
<1>3. s[1] \in Stmt
  BY <1>1, ElementOfSeq
<1>5. ASSUME NEW n \in 1..Len(Tail(s))
      PROVE  /\ s[1].j \in {"consume", "call"} /\ Tail(s)[n].f = s[1].f
             /\ Tail(s)[n].j \in {"prov", "bprov", "call", "account?"}
             /\ n < Len(Tail(s)) => Tail(s)[n].j = "call"
  <2>1. n + 1 \in 2..Len(s) /\ (n < Len(Tail(s)) => n + 1 < Len(s)) BY <1>1, <1>2
  <2> QED BY <1>2, <2>1 DEF List
<1>6. Tail(s) # <<>> => 1 \in 1..Len(Tail(s))
  BY <1>1, <1>2, EmptySeq
<1>7. List(Tail(s))
  <2> SUFFICES ASSUME NEW n \in 2..Len(Tail(s))
               PROVE  /\ Tail(s)[1].j \in {"consume", "call"} /\ Tail(s)[n].f = Tail(s)[1].f
                      /\ Tail(s)[n].j \in {"prov", "bprov", "call", "account?"}
                      /\ n < Len(Tail(s)) => Tail(s)[n].j = "call"
    BY <1>2 DEF List
  <2>1. 1 \in 1..Len(Tail(s)) /\ n \in 1..Len(Tail(s)) /\ 1 < Len(Tail(s)) BY <1>1, <1>2
  <2> QED BY <1>5, <2>1
<1> QED BY <1>2, <1>3, <1>5, <1>6, <1>7

\* A request that is neither consuming nor calling is at its last statement, and "Then" replaces it.
LEMMA ThenAlone ==
    ASSUME NEW c \in Clients, List(todo[c]), todo[c] # <<>>, Head(todo[c]).j \notin {"consume", "call"},
           NEW s, List(s), Then(c, s)
    PROVE  Sets(c, s)
<1>1. Tail(todo[c]) = <<>>
  BY ListTail
<1>2. s \o <<>> = s
  BY ConcatEmptySeq DEF List
<1> QED BY <1>1, <1>2 DEF Then, Sets

\* Go: with statements, or not at all.
LEMMA GoAlone ==
    ASSUME NEW c \in Clients, List(todo[c]), todo[c] # <<>>, Head(todo[c]).j \notin {"consume", "call"},
           NEW s, List(s), NEW ok, Go(c, ok, s)
    PROVE  (ok /\ Sets(c, s)) \/ Sets(c, <<>>)
<1>1. Then(c, s) => Sets(c, s)
  BY ThenAlone
<1>2. Stop(c) => Sets(c, <<>>)
  BY DEF Stop, Sets
<1> QED BY <1>1, <1>2 DEF Go

\* What stays when a request changes its list.
LEMMA SetsTodo ==
    ASSUME Typed, NEW c \in Clients, NEW s, List(s), Sets(c, s)
    PROVE  /\ todo' \in [Clients -> Seq(Stmt)] /\ \A d \in Clients : List(todo'[d])
           /\ todo'[c] = s /\ \A d \in Clients : d # c => todo'[d] = todo[d]
  BY DEF Typed, Sets, List

\* The calls to Xbox Live and Minecraft, then the question for the account.
LEMMA CallsAreList ==
    ASSUME NEW s \in Seq(Services), s # <<>>, NEW x, x.f \in FlowIds, x.p \in Providers, x.u \in UserIds \cup {None}
    PROVE  LET q == Calls(s, x) IN
             /\ List(q) /\ q # <<>> /\ q[1].j = "call" /\ q[1].f = x.f
             /\ List(<<[j |-> "consume", f |-> x.f]>> \o q)
             /\ <<[j |-> "consume", f |-> x.f]>> \o q # <<>>
             /\ (<<[j |-> "consume", f |-> x.f]>> \o q)[1].j = "consume"
<1> DEFINE r == [n \in DOMAIN s |-> [j |-> "call", f |-> x.f, at |-> s[n]]]
           a == [j |-> "account?", f |-> x.f, p |-> x.p, u |-> x.u]
           q == Calls(s, x)
           t == [j |-> "consume", f |-> x.f]
<1>1. Len(s) \in Nat \ {0} /\ DOMAIN s = 1..Len(s)
  BY EmptySeq, LenProperties
<1>2. /\ r \in Seq(CallStmt) /\ Len(r) = Len(s)
      /\ \A n \in 1..Len(s) : r[n].j = "call" /\ r[n].f = x.f /\ r[n] \in Stmt
  <2>1. \A n \in 1..Len(s) : s[n] \in Services BY ElementOfSeq
  <2>2. \A n \in 1..Len(s) : r[n] = [j |-> "call", f |-> x.f, at |-> s[n]] BY <1>1
  <2>3. \A n \in 1..Len(s) : r[n] \in CallStmt BY <2>1, <2>2 DEF CallStmt
  <2> QED BY <1>1, <2>2, <2>3 DEF Stmt
<1>3. a \in Stmt /\ a.j = "account?" /\ a.f = x.f /\ t \in Stmt /\ t.j = "consume" /\ t.f = x.f
  BY DEF Stmt, AccountStmt, TakeStmt
<1>4. q = r \o <<a>>
  BY DEF Calls
<1> HIDE DEF q, r, a, t
<1>5. r \in Seq(Stmt)
  BY <1>2 DEF Stmt
<1>6. /\ q \in Seq(Stmt) /\ Len(q) = Len(s) + 1
      /\ \A n \in 1..Len(q) : q[n] = IF n <= Len(s) THEN r[n] ELSE a
  BY <1>1, <1>2, <1>3, <1>4, <1>5
<1>7. \A n \in 1..Len(q) : /\ q[n].f = x.f /\ q[n].j \in {"call", "account?"} /\ q[n] \in Stmt
                           /\ n < Len(q) => q[n].j = "call"
  BY <1>1, <1>2, <1>3, <1>6
<1>8. q # <<>> /\ 1 \in 1..Len(q) /\ 1 < Len(q)
  BY <1>1, <1>6
<1>9. List(q) /\ q[1].j = "call" /\ q[1].f = x.f
  BY <1>6, <1>7, <1>8 DEF List
<1> DEFINE z == <<t>> \o q
<1>10. /\ z \in Seq(Stmt) /\ Len(z) = Len(q) + 1 /\ z[1] = t
       /\ \A n \in 2..Len(z) : z[n] = q[n - 1]
  BY <1>3, <1>6, <1>8
<1>11. \A n \in 2..Len(z) : n - 1 \in 1..Len(q) /\ (n < Len(z) => n - 1 < Len(q))
  BY <1>6, <1>8, <1>10
<1> HIDE DEF z
<1>12. List(z) /\ z # <<>> /\ z[1].j = "consume"
  BY <1>3, <1>7, <1>8, <1>10, <1>11 DEF List
<1> QED BY <1>8, <1>9, <1>12 DEF z, q, t

\* The services asked are services.
LEMMA ServicesAsked ==
    /\ MinecraftCalls \in Seq(Services) /\ MinecraftCalls # <<>>
    /\ DeviceCalls \in Seq(Services) /\ DeviceCalls # <<>>
<1>1. MinecraftCalls \in Seq(Services) /\ Len(MinecraftCalls) = 5
  BY DEF MinecraftCalls, Services
<1>2. DeviceCalls \in Seq(Services) /\ Len(DeviceCalls) = 4
  BY <1>1, HeadTailProperties DEF DeviceCalls
<1>3. \A s \in Seq(Services) : Len(s) # 0 => s # <<>>
  BY EmptySeq
<1>4. MinecraftCalls # <<>>
  BY <1>1, <1>3
<1>5. DeviceCalls # <<>>
  BY <1>2, <1>3
<1> QED BY <1>1, <1>2, <1>4, <1>5

-----------------------------------------------------------------------------
(* What every step keeps                                                   *)

\* A row of a flow keeps its kind, stays consumed and keeps its address.
GoesOn(f) ==
    /\ flows'[f].kind = flows[f].kind
    /\ flows[f].used => flows'[f].used
    /\ flows[f].target # None => flows'[f].target # None
\* Ids are not used again, rows keep their kind, and a link that goes is noted as released.
Evolves ==
    /\ last' \in [user : Nat, flow : Nat, prov : Nat]
    /\ last.flow <= last'.flow /\ last.prov <= last'.prov
    /\ \A f \in FlowIds : f <= last.flow =>
          flows'[f] = None \/ (flows[f] # None /\ GoesOn(f))
    /\ \A p \in Providers : p <= last.prov =>
          provs'[p] = None \/ (provs[p] # None /\ provs'[p].kind = provs[p].kind)
    /\ released \subseteq released'
    /\ \A i \in links : i \in links' \/ <<i.ns, i.sub>> \in released'

\* Whoever owns a flow after the step owned it before.
OwnersKept == \A d \in Clients, f \in FlowIds : Owner(d, f)' => Owner(d, f)
StaysConsumed == \A f \in FlowIds : (Consumed(f) => Consumed(f)') /\ (Mailed(f) => Mailed(f)')

\* The list goes on with a flow that the request owned, or with none.
Keeps(c, s) ==
    s = <<>> \/ s[1].j \notin Owning
    \/ (todo[c] # <<>> /\ todo[c][1].j \in Owning /\ todo[c][1].f = s[1].f)

\* A visitor's link leads to the same account as long as it is not given up.
LEMMA LedToStays ==
    ASSUME Evolves, NEW ns, NEW s, NEW u, LedTo(ns, s, u)
    PROVE  LedTo(ns, s, u)'
  BY DEF Evolves, LedTo

\* What a statement relies on stays.
LEMMA SoundStays ==
    ASSUME Typed, Evolves, NEW x \in Stmt, Sound(x)
    PROVE  Sound(x)'
<1>1. /\ last.flow \in Nat /\ last.prov \in Nat /\ last'.flow \in Nat /\ last'.prov \in Nat
      /\ FlowIds \subseteq Nat /\ Providers \subseteq Nat
  BY ExternalAuthAssumption DEF Typed, Evolves, FlowIds, Providers
<1>2. \A f \in FlowIds : OfMail(f) => OfMail(f)'
  <2> SUFFICES ASSUME NEW f \in FlowIds, OfMail(f) PROVE OfMail(f)'
    OBVIOUS
  <2>1. f <= last'.flow BY <1>1 DEF OfMail, Evolves
  <2> QED BY <2>1 DEF OfMail, Evolves, GoesOn
<1>3. \A p \in Providers : \A k : OfKind(p, k) => OfKind(p, k)'
  BY <1>1 DEF OfKind, Evolves
<1>4. x.j \in {"cread", "pread"} => OfMail(x.f)'
  BY <1>2, StmtIs DEF Sound, ConfirmStmt, PasswordStmt
<1>5. x.j \in {"claims", "known", "byemail"} => OfKind(x.p, {x.row.kind})'
  BY <1>3, StmtIs DEF Sound, AskStmt, KnownStmt
<1>6. x.j = "create" /\ x.e = None => OfKind(x.p, {"linuxdo"})'
  BY <1>3, StmtIs DEF Sound, VisitStmt
<1>7. x.j = "unlink" => x.i.ns # Minecraft /\ OfKind(x.i.prov, Kinds \ {"microsoft", "linuxdo"})'
  BY <1>3, StmtIs DEF Sound, LinkStmt, Identity
<1>8. x.j \in {"account", "session"} => LedTo(x.p, x.sub, x.u)'
  BY LedToStays DEF Sound
<1>9. x.j = "byemail" => x.claim.email # None
  BY DEF Sound
<1> QED BY <1>4, <1>5, <1>6, <1>7, <1>8, <1>9 DEF Sound

\* Every list begins with a sound statement if the one that changed does.
LEMMA JobsStay ==
    ASSUME Typed, SoundJobs, Evolves, NEW c \in Clients, NEW s, List(s), Sets(c, s),
           s # <<>> => Sound(s[1])'
    PROVE  SoundJobs'
<1> SUFFICES ASSUME NEW d \in Clients PROVE (todo[d] # <<>> => Sound(todo[d][1]))'
  BY DEF SoundJobs
<1>1. CASE d = c
  BY <1>1, SetsTodo
<1>2. CASE d # c
  <2>1. todo'[d] = todo[d] BY <1>2, SetsTodo
  <2> SUFFICES ASSUME todo[d] # <<>> PROVE Sound(todo[d][1])'
    BY <2>1
  <2>2. todo[d][1] \in Stmt /\ Sound(todo[d][1]) BY ListTail DEF Typed, SoundJobs
  <2>3. PICK x : x = todo[d][1] OBVIOUS
  <2>4. Sound(x)' BY <2>2, <2>3, SoundStays
  <2> QED BY <2>1, <2>3, <2>4
<1> QED BY <1>1, <1>2

\* The same when no list changes.
LEMMA JobsStayAll ==
    ASSUME Typed, SoundJobs, Evolves, todo' = todo
    PROVE  SoundJobs'
<1> SUFFICES ASSUME NEW d \in Clients, todo[d] # <<>> PROVE Sound(todo[d][1])'
  BY DEF SoundJobs
<1>1. todo[d][1] \in Stmt /\ Sound(todo[d][1])
  BY ListTail DEF Typed, SoundJobs
<1>2. PICK x : x = todo[d][1] OBVIOUS
<1>3. Sound(x)'
  BY <1>1, <1>2, SoundStays
<1> QED BY <1>2, <1>3

-----------------------------------------------------------------------------
(* Flows: who owns them, how they end                                      *)

\* A list that goes on with what the request owned makes no new owner.
LEMMA KeepsOwners ==
    ASSUME Typed, NEW c \in Clients, NEW s, List(s), Sets(c, s), Keeps(c, s)
    PROVE  OwnersKept
<1>1. todo'[c] = s /\ \A d \in Clients : d # c => todo'[d] = todo[d]
  BY SetsTodo
<1> SUFFICES ASSUME NEW d \in Clients, NEW f \in FlowIds, Owner(d, f)' PROVE Owner(d, f)
  BY DEF OwnersKept
<1> QED BY <1>1 DEF Owner, Keeps

\* No request ends, takes or mails a flow.
LEMMA FlowCarry ==
    ASSUME FlowInv, OwnersKept, StaysConsumed, ends' = ends, mails' = mails
    PROVE  FlowInv'
<1>1. \A c \in Clients, f \in FlowIds : Owner(c, f)' =>
          /\ Consumed(f)' /\ ends'[f] = 0
          /\ \A d \in Clients : Owner(d, f)' => d = c
  BY DEF FlowInv, OwnersKept, StaysConsumed
<1>2. \A f \in FlowIds : ends'[f] # 0 => Consumed(f)' /\ ends'[f] = 1
  BY DEF FlowInv, StaysConsumed
<1>3. \A f \in FlowIds : mails'[f] # 0 => Mailed(f)' /\ mails'[f] = 1
  BY DEF FlowInv, StaysConsumed
<1> QED BY <1>1, <1>2, <1>3 DEF FlowInv

\* A request consumes a flow that was open: nobody owned it and it had not ended.
LEMMA FlowTaken ==
    ASSUME FlowInv, NEW c \in Clients, NEW f \in FlowIds, ~Consumed(f), Consumed(f)', StaysConsumed,
           \A d \in Clients, g \in FlowIds : Owner(d, g)' => Owner(d, g) \/ (d = c /\ g = f),
           ends' = ends, mails' = mails
    PROVE  FlowInv'
<1>1. ends[f] = 0 /\ \A d \in Clients : ~Owner(d, f)
  BY DEF FlowInv
<1>2. \A d \in Clients, g \in FlowIds : Owner(d, g)' =>
          /\ Consumed(g)' /\ ends'[g] = 0
          /\ \A b \in Clients : Owner(b, g)' => b = d
  BY <1>1 DEF FlowInv, StaysConsumed
<1>3. \A g \in FlowIds : ends'[g] # 0 => Consumed(g)' /\ ends'[g] = 1
  BY DEF FlowInv, StaysConsumed
<1>4. \A g \in FlowIds : mails'[g] # 0 => Mailed(g)' /\ mails'[g] = 1
  BY DEF FlowInv, StaysConsumed
<1> QED BY <1>2, <1>3, <1>4 DEF FlowInv

\* The owner of a flow ends it and stops.
LEMMA FlowEnded ==
    ASSUME Typed, FlowInv, NEW c \in Clients, NEW f \in FlowIds, Owner(c, f), StaysConsumed, OwnersKept, ~Owner(c, f)',
           ends' = [ends EXCEPT ![f] = @ + 1], mails' = mails
    PROVE  FlowInv'
<1>1. ends[f] = 0 /\ Consumed(f) /\ \A d \in Clients : Owner(d, f) => d = c
  BY DEF FlowInv
<1>2. ends'[f] = 1 /\ \A g \in FlowIds : g # f => ends'[g] = ends[g]
  BY <1>1 DEF Typed
<1>3. \A d \in Clients : ~Owner(d, f)'
  BY <1>1 DEF OwnersKept
<1>4. \A d \in Clients, g \in FlowIds : Owner(d, g)' =>
          /\ Consumed(g)' /\ ends'[g] = 0
          /\ \A b \in Clients : Owner(b, g)' => b = d
  BY <1>2, <1>3 DEF FlowInv, StaysConsumed, OwnersKept
<1>5. \A g \in FlowIds : ends'[g] # 0 => Consumed(g)' /\ ends'[g] = 1
  BY <1>1, <1>2 DEF FlowInv, StaysConsumed
<1>6. \A g \in FlowIds : mails'[g] # 0 => Mailed(g)' /\ mails'[g] = 1
  BY DEF FlowInv, StaysConsumed
<1> QED BY <1>4, <1>5, <1>6 DEF FlowInv

\* A flow is mailed that had no address.
LEMMA FlowMailed ==
    ASSUME Typed, FlowInv, NEW f \in FlowIds, ~Mailed(f), Mailed(f)', StaysConsumed, OwnersKept,
           ends' = ends, mails' = [mails EXCEPT ![f] = @ + 1]
    PROVE  FlowInv'
<1>1. mails[f] = 0
  BY DEF FlowInv
<1>2. mails'[f] = 1 /\ \A g \in FlowIds : g # f => mails'[g] = mails[g]
  BY <1>1 DEF Typed
<1>3. \A g \in FlowIds : mails'[g] # 0 => Mailed(g)' /\ mails'[g] = 1
  BY <1>2 DEF FlowInv, StaysConsumed
<1>4. \A c \in Clients, g \in FlowIds : Owner(c, g)' =>
          /\ Consumed(g)' /\ ends'[g] = 0
          /\ \A d \in Clients : Owner(d, g)' => d = c
  BY DEF FlowInv, OwnersKept, StaysConsumed
<1>5. \A g \in FlowIds : ends'[g] # 0 => Consumed(g)' /\ ends'[g] = 1
  BY DEF FlowInv, StaysConsumed
<1> QED BY <1>3, <1>4, <1>5 DEF FlowInv

-----------------------------------------------------------------------------
(* Steps that change nothing but the list of a request                     *)

\* With rows and history as they were, everything evolves.
LEMMA Unchanged ==
    ASSUME Typed, UNCHANGED <<db, hist>>
    PROVE  Evolves /\ StaysConsumed
<1>1. last \in [user : Nat, flow : Nat, prov : Nat]
  BY ExternalAuthAssumption DEF Typed
<1>2. Evolves
  BY <1>1 DEF Evolves, GoesOn, db, hist
<1>3. StaysConsumed
  BY DEF StaysConsumed, Consumed, Mailed, db
<1> QED BY <1>2, <1>3

\* What the request may go on with.
Fit(c, s) == List(s) /\ Keeps(c, s) /\ (s # <<>> => Sound(s[1]))

\* A request goes on with a fitting list.
LEMMA PureStep ==
    ASSUME Inv, UNCHANGED <<db, hist, load>>, faults' \in Nat,
           NEW c \in Clients, NEW s, Sets(c, s), Fit(c, s)
    PROVE  Inv'
<1> USE DEF Inv
<1>0. UNCHANGED <<users, provs, links, flows, profiles, last, ends, mails, entries, released, dark, load>>
  BY DEF db, hist
<1>1. Evolves /\ StaysConsumed
  BY Unchanged DEF db, hist
<1>2. Typed'
  BY <1>0, SetsTodo DEF Typed, Fit
<1>3. Ids'
  BY <1>0 DEF Ids
<1>4. s # <<>> => Sound(s[1])'
  BY <1>0 DEF Fit, Sound, OfMail, OfKind, LedTo
<1>5. SoundJobs'
  BY <1>1, <1>4, JobsStay DEF Fit
<1>6. FlowInv'
  BY <1>0, <1>1, KeepsOwners, FlowCarry DEF Fit
<1>7. VisitInv' /\ OrphanInv' /\ BoundProfile'
  BY <1>0 DEF VisitInv, LedTo, OrphanInv, Reachable, Live, BoundProfile
<1> QED BY <1>2, <1>3, <1>5, <1>6, <1>7

\* A request may always stop.
LEMMA FitNone == ASSUME NEW c \in Clients PROVE Fit(c, <<>>)
  BY NoneIsList DEF Fit, Keeps

\* One sound statement, of a flow the request owns if it needs one.
LEMMA FitOne ==
    ASSUME NEW c \in Clients, NEW x \in Stmt, Sound(x),
           x.j \notin Owning \/ (todo[c] # <<>> /\ todo[c][1].j \in Owning /\ todo[c][1].f = x.f)
    PROVE  Fit(c, <<x>>)
<1>1. List(<<x>>) /\ <<x>> # <<>> /\ <<x>>[1] = x
  BY OneIsList
<1> QED BY <1>1 DEF Fit, Keeps

\* What a workload holds.
LEMMA LoadType ==
    ASSUME Typed
    PROVE  /\ load.keys \subseteq Keys /\ load.emails \subseteq Emails /\ load.rows \subseteq Provider
           /\ load.claims \subseteq Claims /\ load.flows \in 0..MaxFlow
  BY ExternalAuthAssumption DEF Typed, Keys

\* A request that begins.
LEMMA StartFit ==
    ASSUME Inv, NEW c \in Clients, NEW op, NEW x \in Stmt, Sound(x), x.j \notin Owning, Start(c, op, <<x>>)
    PROVE  Inv'
<1>1. Sets(c, <<x>>) /\ UNCHANGED <<db, hist, load>> /\ faults' = faults
  BY DEF Start, Sets, env
<1>2. Fit(c, <<x>>)
  BY FitOne
<1>3. faults' \in Nat
  BY <1>1 DEF Inv, Typed
<1> QED BY <1>1, <1>2, <1>3, PureStep

\* Flows that were handed out, and who is asked for, exist.
LEMMA HandedType ==
    ASSUME Typed
    PROVE  /\ \A k : Handed(k) \subseteq FlowIds
           /\ \A k : \A f \in Handed(k) : f <= last.flow /\ (flows[f] # None => flows[f].kind = k)
           /\ Live \subseteq UserIds
  BY ExternalAuthAssumption DEF Typed, Handed, FlowIds, Live

\* Every request begins with a sound statement.
LEMMA RequestKeeps ==
    ASSUME Inv, NEW c \in Clients, Request(c)
    PROVE  Inv'
<1>t. Typed
  BY DEF Inv
<1> USE DEF Owning
<1>1. CASE StartLogin(c)
  <2>1. PICK k \in load.keys : Start(c, "login", <<[j |-> "lopen", key |-> k]>>)
    BY <1>1 DEF StartLogin
  <2>2. [j |-> "lopen", key |-> k] \in Stmt BY <1>t, LoadType DEF Stmt, LoginStmt
  <2> QED BY <2>1, <2>2, StartFit DEF Sound
<1>2. CASE FinishLogin(c)
  <2>1. PICK f \in Handed("login") : Start(c, "callback", <<[j |-> "find", f |-> f, then |-> "prov"]>>)
    BY <1>2 DEF FinishLogin
  <2>3. [j |-> "find", f |-> f, then |-> "prov"] \in Stmt
    BY <1>t, HandedType DEF Stmt, FindStmt
  <2> QED BY <2>1, <2>3, StartFit DEF Sound
<1>3. CASE StartBinding(c)
  <2>1. PICK u \in Live, k \in load.keys, by \in {"code", "device"} :
           Start(c, "bind", <<[j |-> "bopen", key |-> k, u |-> u, k |-> by]>>)
    BY <1>3 DEF StartBinding
  <2>2. [j |-> "bopen", key |-> k, u |-> u, k |-> by] \in Stmt
    BY <1>t, LoadType, HandedType DEF Stmt, BindStmt
  <2> QED BY <2>1, <2>2, StartFit DEF Sound
<1>4. CASE FinishBinding(c)
  <2>1. PICK f \in Handed("code") : Start(c, "bound", <<[j |-> "find", f |-> f, then |-> "bprov"]>>)
    BY <1>4 DEF FinishBinding
  <2>3. [j |-> "find", f |-> f, then |-> "bprov"] \in Stmt
    BY <1>t, HandedType DEF Stmt, FindStmt
  <2> QED BY <2>1, <2>3, StartFit DEF Sound
<1>5. CASE CheckDeviceCodeStatus(c)
  <2>1. PICK f \in Handed("device"), u \in Live : Start(c, "poll", <<[j |-> "device", f |-> f, u |-> u]>>)
    BY <1>5 DEF CheckDeviceCodeStatus
  <2>2. [j |-> "device", f |-> f, u |-> u] \in Stmt
    BY <1>t, HandedType DEF Stmt, DeviceStmt
  <2> QED BY <2>1, <2>2, StartFit DEF Sound
<1>6. CASE StartEmailVerification(c)
  <2>1. PICK f \in Handed("mail"), e \in load.emails : Start(c, "mail", <<[j |-> "mread", f |-> f, e |-> e]>>)
    BY <1>6 DEF StartEmailVerification
  <2>2. [j |-> "mread", f |-> f, e |-> e] \in Stmt
    BY <1>t, LoadType, HandedType DEF Stmt, MailStmt
  <2> QED BY <2>1, <2>2, StartFit DEF Sound
<1>7. CASE ConfirmEmailVerification(c)
  <2>1. PICK f \in Handed("mail") : Start(c, "confirm", <<[j |-> "cread", f |-> f]>>)
    BY <1>7 DEF ConfirmEmailVerification
  <2>3. [j |-> "cread", f |-> f] \in Stmt BY <1>t, HandedType DEF Stmt, ConfirmStmt
  <2>4. OfMail(f) BY <1>t, HandedType DEF OfMail
  <2>5. Sound([j |-> "cread", f |-> f]) BY <2>4 DEF Sound
  <2> QED BY <2>1, <2>3, <2>5, StartFit
<1>8. CASE LinkWithPassword(c)
  <2>1. PICK f \in Handed("mail"), u \in Live :
           Start(c, "password", <<[j |-> "pread", f |-> f, u |-> u]>>)
    BY <1>8 DEF LinkWithPassword
  <2>3. [j |-> "pread", f |-> f, u |-> u] \in Stmt
    BY <1>t, HandedType DEF Stmt, PasswordStmt
  <2>4. OfMail(f) BY <1>t, HandedType DEF OfMail
  <2>5. Sound([j |-> "pread", f |-> f, u |-> u]) BY <2>4 DEF Sound
  <2> QED BY <2>1, <2>3, <2>5, StartFit
<1>9. CASE DeleteLink(c)
  <2>1. PICK i \in links : Start(c, "unlink", <<[j |-> "uread", i |-> i]>>)
    BY <1>9 DEF DeleteLink
  <2>2. [j |-> "uread", i |-> i] \in Stmt BY <1>t DEF Stmt, LinkStmt, Typed
  <2> QED BY <2>1, <2>2, StartFit DEF Sound
<1>10. CASE CreateProvider(c)
  <2>1. PICK r \in load.rows : Start(c, "create", <<[j |-> "pkey", r |-> r]>>)
    BY <1>10 DEF CreateProvider
  <2>2. [j |-> "pkey", r |-> r] \in Stmt BY <1>t, LoadType DEF Stmt, NewStmt
  <2> QED BY <2>1, <2>2, StartFit DEF Sound
<1>11. CASE UpdateProvider(c)
  <2>1. PICK p \in Providers, r \in load.rows : Start(c, "provider", <<[j |-> "pupdate", p |-> p, r |-> r]>>)
    BY <1>11 DEF UpdateProvider
  <2>2. [j |-> "pupdate", p |-> p, r |-> r] \in Stmt BY <1>t, LoadType DEF Stmt, EditStmt
  <2> QED BY <2>1, <2>2, StartFit DEF Sound
<1>12. CASE DeleteProvider(c)
  <2>1. PICK p \in Providers : Start(c, "drop", <<[j |-> "pdelete", p |-> p]>>)
    BY <1>12 DEF DeleteProvider
  <2>2. [j |-> "pdelete", p |-> p] \in Stmt BY DEF Stmt, DropStmt
  <2> QED BY <2>1, <2>2, StartFit DEF Sound
<1> QED BY <1>1, <1>2, <1>3, <1>4, <1>5, <1>6, <1>7, <1>8, <1>9, <1>10, <1>11, <1>12 DEF Request

\* The statement a request is at.
LEMMA HeadIs ==
    ASSUME Inv, NEW c \in Clients, NEW k, At(c, k)
    PROVE  /\ todo[c] # <<>> /\ List(todo[c]) /\ Head(todo[c]).j = k
           /\ Job(c) = todo[c][1] /\ Job(c) \in Stmt /\ Job(c).j = k /\ Sound(Job(c))
<1>1. todo[c] # <<>> /\ Head(todo[c]).j = k /\ List(todo[c])
  BY DEF At, Inv, Typed
<1>2. todo[c][1] \in Stmt /\ Head(todo[c]) = todo[c][1]
  BY <1>1, ListTail
<1> QED BY <1>1, <1>2 DEF Job, Inv, SoundJobs

\* What may follow a statement.
After(c, y) ==
    /\ y \in Stmt /\ Sound(y)
    /\ y.j \notin Owning \/ (todo[c] # <<>> /\ todo[c][1].j \in Owning /\ todo[c][1].f = y.f)

\* A request that stops, with nothing written.
LEMMA StopStep ==
    ASSUME Inv, NEW c \in Clients, Stop(c), UNCHANGED <<db, hist, load>>, faults' \in Nat
    PROVE  Inv'
<1>1. Sets(c, <<>>)
  BY DEF Stop, Sets
<1> QED BY <1>1, FitNone, PureStep

\* A request that goes on with one statement, with nothing written.
LEMMA ThenStep ==
    ASSUME Inv, NEW c \in Clients, NEW k, At(c, k), k \notin {"consume", "call"},
           NEW y, After(c, y), Then(c, <<y>>), UNCHANGED <<db, env, hist>>
    PROVE  Inv'
<1>1. Fit(c, <<y>>)
  BY FitOne DEF After
<1>2. Sets(c, <<y>>)
  BY <1>1, HeadIs, ThenAlone DEF Fit
<1>3. faults' \in Nat /\ load' = load
  BY DEF Inv, Typed, env
<1> QED BY <1>1, <1>2, <1>3, PureStep

\* A request that goes on or stops, with nothing written.
LEMMA GoStep ==
    ASSUME Inv, NEW c \in Clients, NEW k, At(c, k), k \notin {"consume", "call"},
           NEW y, NEW ok, ok => After(c, y), Go(c, ok, <<y>>), UNCHANGED <<db, env, hist>>
    PROVE  Inv'
<1>1. CASE ok
  BY <1>1, ThenStep DEF Go
<1>2. CASE ~ok
  <2>1. Stop(c) /\ faults' \in Nat /\ load' = load BY <1>2 DEF Go, Inv, Typed, env
  <2> QED BY <2>1, StopStep
<1> QED BY <1>1, <1>2

-----------------------------------------------------------------------------
(* Statements that write nothing                                           *)

\* The flow of a callback is found, to be consumed before anything else.
LEMMA FindFlowKeeps ==
    ASSUME Inv, NEW c \in Clients, FindFlow(c)
    PROVE  Inv'
<1>1. At(c, "find") /\ UNCHANGED <<db, env, hist>>
  BY DEF FindFlow
<1>2. PICK x : x = Job(c) OBVIOUS
<1>3. x \in FindStmt /\ todo[c] # <<>> /\ List(todo[c]) /\ Head(todo[c]).j = "find"
  BY <1>1, <1>2, HeadIs, StmtIs
<1>4. faults' \in Nat /\ load' = load
  BY <1>1 DEF Inv, Typed, env
<1>5. CASE Active(x.f)
  <2>1. PICK a, b : /\ a = [j |-> "consume", f |-> x.f]
                    /\ b = [j |-> x.then, f |-> x.f, p |-> flows[x.f].prov, u |-> flows[x.f].user]
    OBVIOUS
  <2>2. flows[x.f] \in Flow BY <1>3, <1>5 DEF Active, FindStmt, Inv, Typed
  <2>3. a \in Stmt /\ a.j = "consume" /\ a.f = x.f
    BY <1>3, <2>1 DEF Stmt, TakeStmt, FindStmt
  <2>4. b \in CheckStmt /\ b.j \in {"prov", "bprov"} /\ b.f = x.f
    BY <1>3, <2>1, <2>2 DEF CheckStmt, FindStmt, Flow
  <2>5. b \in Stmt BY <2>4 DEF Stmt
  <2>6. List(<<a, b>>) BY <2>3, <2>4, <2>5 DEF List
  <2>7. Then(c, <<a, b>>) BY <1>2, <1>5, <2>1 DEF FindFlow
  <2>8. Sets(c, <<a, b>>) BY <1>3, <2>6, <2>7, ThenAlone
  <2>9. Fit(c, <<a, b>>) BY <2>3, <2>6 DEF Fit, Keeps, Owning, Sound
  <2> QED BY <1>1, <1>4, <2>8, <2>9, PureStep
<1>6. CASE ~Active(x.f)
  <2>1. Stop(c) BY <1>2, <1>6 DEF FindFlow
  <2> QED BY <1>1, <1>4, <2>1, StopStep
<1> QED BY <1>5, <1>6

\* The provider's row goes along.
LEMMA CheckProviderKeeps ==
    ASSUME Inv, NEW c \in Clients, CheckProvider(c)
    PROVE  Inv'
<1>1. At(c, "prov") /\ UNCHANGED <<db, env, hist>>
  BY DEF CheckProvider
<1>2. PICK x : x = Job(c) OBVIOUS
<1>3. x \in CheckStmt /\ todo[c] # <<>> /\ x = todo[c][1] /\ x.j = "prov"
  BY <1>1, <1>2, HeadIs, StmtIs
<1>4. PICK y : y = [j |-> "claims", f |-> x.f, p |-> x.p, row |-> provs[x.p]] OBVIOUS
<1>5. Go(c, On(x.p) /\ provs[x.p].login, <<y>>)
  BY <1>2, <1>4 DEF CheckProvider
<1>6. On(x.p) => After(c, y)
  <2> SUFFICES ASSUME On(x.p) PROVE After(c, y)
    OBVIOUS
  <2>1. provs[x.p] \in Provider /\ x.p <= last.prov
    BY <1>3 DEF On, CheckStmt, Inv, Typed, Ids
  <2>2. y \in Stmt BY <1>3, <1>4, <2>1 DEF Stmt, AskStmt, CheckStmt
  <2>3. Sound(y) BY <1>4, <2>1 DEF Sound, OfKind
  <2> QED BY <1>3, <1>4, <2>2, <2>3 DEF After, Owning
<1> QED BY <1>1, <1>5, <1>6, GoStep

\* The provider answers with claims.
LEMMA ExchangeKeeps ==
    ASSUME Inv, NEW c \in Clients, Exchange(c)
    PROVE  Inv'
<1>1. At(c, "claims") /\ UNCHANGED <<db, env, hist>>
  BY DEF Exchange
<1>2. PICK x : x = Job(c) OBVIOUS
<1>3. x \in AskStmt /\ todo[c] # <<>> /\ x = todo[c][1] /\ x.j = "claims" /\ Sound(x)
  BY <1>1, <1>2, HeadIs, StmtIs
<1>4. PICK k \in load.claims :
         Then(c, <<[j |-> "known", f |-> x.f, p |-> x.p, row |-> x.row, claim |-> k]>>)
  BY <1>2 DEF Exchange
<1>5. PICK y : y = [j |-> "known", f |-> x.f, p |-> x.p, row |-> x.row, claim |-> k] OBVIOUS
<1>6. y \in Stmt
  BY <1>3, <1>5, LoadType DEF Stmt, KnownStmt, AskStmt, Inv
<1>7. Sound(y)
  BY <1>3, <1>5 DEF Sound
<1>8. After(c, y)
  BY <1>3, <1>5, <1>6, <1>7 DEF After, Owning
<1> QED BY <1>1, <1>4, <1>5, <1>8, ThenStep

\* What the visitor said of himself goes along.
LEMMA OnwardType ==
    ASSUME NEW x \in KnownStmt, NEW k \in {"link", "create", "pending", "account"}, NEW u \in UserIds \cup {None}
    PROVE  /\ Onward(x, k, u) \in VisitStmt /\ Onward(x, k, u) \in Stmt
           /\ Onward(x, k, u).j = k /\ Onward(x, k, u).f = x.f /\ Onward(x, k, u).p = x.p
           /\ Onward(x, k, u).sub = x.claim.sub /\ Onward(x, k, u).e = x.claim.email /\ Onward(x, k, u).u = u
  BY DEF KnownStmt, VisitStmt, Stmt, Onward, Claims

\* The visitor's link leads to his account; without one he is asked for an address, or gets an account.
LEMMA FindIdentityKeeps ==
    ASSUME Inv, NEW c \in Clients, FindIdentity(c)
    PROVE  Inv'
<1>1. At(c, "known") /\ UNCHANGED <<db, env, hist>>
  BY DEF FindIdentity
<1>2. PICK x : x = Job(c) OBVIOUS
<1>3. /\ x \in KnownStmt /\ todo[c] # <<>> /\ x = todo[c][1] /\ x.j = "known" /\ Sound(x)
      /\ x.p \in Providers /\ x.claim \in Claims /\ x \in Stmt
  BY <1>1, <1>2, HeadIs, StmtIs DEF KnownStmt
<1>4. \A y \in Stmt : Sound(y) /\ y.j \in Owning /\ y.f = x.f => After(c, y)
  BY <1>3 DEF After, Owning
<1>5. CASE Linked(x.p, x.claim.sub) # {}
  <2>1. PICK i \in Linked(x.p, x.claim.sub) : Then(c, <<[Onward(x, "account", i.user) EXCEPT !.e = None]>>)
    BY <1>2, <1>5 DEF FindIdentity
  <2>2. i \in links /\ i.user \in UserIds /\ i.ns = x.p /\ i.sub = x.claim.sub
    BY DEF Linked, Inv, Typed, Identity
  <2>3. PICK o : o = Onward(x, "account", i.user) OBVIOUS
  <2>4. PICK y : y = [o EXCEPT !.e = None] OBVIOUS
  <2>5. /\ o \in VisitStmt /\ o.j = "account" /\ o.f = x.f
        /\ o.p = x.p /\ o.sub = x.claim.sub /\ o.u = i.user
    BY <1>3, <2>2, <2>3, OnwardType
  <2>6. /\ y \in VisitStmt /\ y.j = "account" /\ y.f = x.f
        /\ y.p = x.p /\ y.sub = x.claim.sub /\ y.u = i.user
    BY <2>4, <2>5 DEF VisitStmt
  <2>7. y \in Stmt BY <2>6 DEF Stmt
  <2>8. LedTo(y.p, y.sub, y.u) BY <2>2, <2>6 DEF LedTo
  <2>9. Sound(y) BY <2>6, <2>8 DEF Sound
  <2> QED BY <1>1, <1>4, <2>1, <2>3, <2>4, <2>6, <2>7, <2>9, ThenStep DEF Owning
<1>6. CASE Linked(x.p, x.claim.sub) = {} /\ x.claim.email # None
  <2>1. PICK y : y = [x EXCEPT !.j = "byemail"] OBVIOUS
  <2>2. Go(c, x.row.verified => x.claim.ver, <<y>>) BY <1>2, <1>6, <2>1 DEF FindIdentity
  <2>3. /\ y \in KnownStmt /\ y.j = "byemail" /\ y.f = x.f /\ y.p = x.p /\ y.row = x.row
        /\ y.claim = x.claim
    BY <1>3, <2>1 DEF KnownStmt
  <2>4. y \in Stmt /\ Sound(y) BY <1>3, <1>6, <2>3 DEF Stmt, Sound
  <2> QED BY <1>1, <1>4, <2>2, <2>3, <2>4, GoStep DEF Owning
<1>7. CASE Linked(x.p, x.claim.sub) = {} /\ x.claim.email = None /\ x.row.kind = "linuxdo"
  <2>1. PICK y : y = Onward(x, "create", None) OBVIOUS
  <2>2. Go(c, load.registration, <<y>>) BY <1>2, <1>7, <2>1 DEF FindIdentity
  <2>3. y \in Stmt /\ y.j = "create" /\ y.f = x.f /\ y.p = x.p BY <1>3, <2>1, OnwardType
  <2>4. OfKind(x.p, {"linuxdo"}) BY <1>3, <1>7 DEF Sound
  <2>5. Sound(y) BY <2>3, <2>4 DEF Sound
  <2> QED BY <1>1, <1>4, <2>2, <2>3, <2>5, GoStep DEF Owning
<1>8. CASE Linked(x.p, x.claim.sub) = {} /\ x.claim.email = None /\ x.row.kind # "linuxdo"
  <2>1. PICK y : y = Onward(x, "pending", None) OBVIOUS
  <2>2. Go(c, ~ (x.row.kind = "github" /\ x.row.verified), <<y>>)
    BY <1>2, <1>8, <2>1 DEF FindIdentity
  <2>3. y \in Stmt /\ y.j = "pending" /\ y.f = x.f BY <1>3, <2>1, OnwardType
  <2>5. Sound(y) BY <2>3 DEF Sound
  <2> QED BY <1>1, <1>4, <2>2, <2>3, <2>5, GoStep DEF Owning
<1> QED BY <1>5, <1>6, <1>7, <1>8

\* The address leads to an account, to a new one, or to a mail.
LEMMA ResolveByEmailKeeps ==
    ASSUME Inv, NEW c \in Clients, ResolveByEmail(c)
    PROVE  Inv'
<1>1. At(c, "byemail") /\ UNCHANGED <<db, env, hist>>
  BY DEF ResolveByEmail
<1>2. PICK x : x = Job(c) OBVIOUS
<1>3. /\ x \in KnownStmt /\ todo[c] # <<>> /\ x = todo[c][1] /\ x.j = "byemail" /\ Sound(x)
  BY <1>1, <1>2, HeadIs, StmtIs DEF KnownStmt
<1>4. \A y \in Stmt : Sound(y) /\ y.j \in Owning /\ y.f = x.f => After(c, y)
  BY <1>3 DEF After, Owning
<1>5. x.claim.email # None
  BY <1>3 DEF Sound
<1>6. ASSUME NEW k \in {"link", "create", "pending"}, NEW u \in UserIds \cup {None}
      PROVE  After(c, Onward(x, k, u))
  <2>1. PICK y : y = Onward(x, k, u) OBVIOUS
  <2>2. y \in Stmt /\ y.j = k /\ y.f = x.f /\ y.e = x.claim.email
    BY <1>3, <2>1, OnwardType
  <2>3. Sound(y) BY <1>5, <2>2 DEF Sound
  <2> QED BY <1>4, <2>1, <2>2, <2>3 DEF Owning
<1>7. CASE \E u \in HasEmail(x.claim.email) : Go(c, users[u].active, <<Onward(x, "link", u)>>)
  <2>1. PICK u \in HasEmail(x.claim.email) : Go(c, users[u].active, <<Onward(x, "link", u)>>)
    BY <1>7
  <2>2. u \in UserIds BY DEF HasEmail, Live
  <2> QED BY <1>1, <1>6, <2>1, <2>2, GoStep
<1>8. CASE Then(c, <<Onward(x, "create", None)>>) \/ Then(c, <<Onward(x, "pending", None)>>)
  BY <1>1, <1>6, <1>8, ThenStep
<1> QED BY <1>2, <1>7, <1>8 DEF ResolveByEmail

\* The account of the link is read.
LEMMA TouchAndReadKeeps ==
    ASSUME Inv, NEW c \in Clients, TouchAndRead(c)
    PROVE  Inv'
<1>1. At(c, "account") /\ UNCHANGED <<db, env, hist>>
  BY DEF TouchAndRead
<1>2. PICK x : x = Job(c) OBVIOUS
<1>3. /\ x \in VisitStmt /\ todo[c] # <<>> /\ x = todo[c][1] /\ x.j = "account" /\ Sound(x)
  BY <1>1, <1>2, HeadIs, StmtIs
<1>4. PICK y : y = [x EXCEPT !.j = "session"] OBVIOUS
<1>5. PICK ok : ok = (x.u \in Live /\ users[x.u].active) OBVIOUS
<1>6. Go(c, ok, <<y>>)
  BY <1>2, <1>4, <1>5 DEF TouchAndRead
<1>7. y \in VisitStmt /\ y.j = "session" /\ y.f = x.f /\ y.p = x.p /\ y.sub = x.sub /\ y.u = x.u
  BY <1>3, <1>4 DEF VisitStmt
<1>8. y \in Stmt /\ Sound(y)
  BY <1>3, <1>7 DEF Stmt, Sound
<1>9. After(c, y)
  BY <1>3, <1>7, <1>8 DEF After, Owning
<1> QED BY <1>1, <1>6, <1>9, GoStep

\* The flow of a mail is read.
LEMMA ReadForMailKeeps ==
    ASSUME Inv, NEW c \in Clients, ReadForMail(c)
    PROVE  Inv'
<1>1. At(c, "mread") /\ UNCHANGED <<db, env, hist>>
  BY DEF ReadForMail
<1>2. PICK x : x = Job(c) OBVIOUS
<1>3. x \in MailStmt
  BY <1>1, <1>2, HeadIs, StmtIs
<1>4. PICK y : y = [x EXCEPT !.j = "mcommit"] OBVIOUS
<1>5. PICK ok : Go(c, ok, <<y>>)
  BY <1>2, <1>4 DEF ReadForMail
<1>6. y \in Stmt /\ y.j = "mcommit"
  BY <1>3, <1>4 DEF Stmt, MailStmt
<1>7. After(c, y)
  BY <1>6 DEF After, Owning, Sound
<1> QED BY <1>1, <1>5, <1>7, GoStep

\* The flow of a confirmation is read: it has an address and a subject.
LEMMA ReadForConfirmKeeps ==
    ASSUME Inv, NEW c \in Clients, ReadForConfirm(c)
    PROVE  Inv'
<1>1. At(c, "cread") /\ UNCHANGED <<db, env, hist>>
  BY DEF ReadForConfirm
<1>2. PICK x : x = Job(c) OBVIOUS
<1>3. x \in ConfirmStmt /\ Sound(x) /\ x.j = "cread"
  BY <1>1, <1>2, HeadIs, StmtIs
<1>4. PICK y : y = [j |-> "ccommit", f |-> x.f, row |-> flows[x.f]] OBVIOUS
<1>5. PICK ok : ok = (Active(x.f) /\ flows[x.f].target # None /\ On(flows[x.f].prov)) OBVIOUS
<1>6. Go(c, ok, <<y>>)
  BY <1>2, <1>4, <1>5 DEF ReadForConfirm
<1>7. ok => After(c, y)
  <2> SUFFICES ASSUME Active(x.f), flows[x.f].target # None PROVE After(c, y)
    BY <1>5
  <2>1. x.f \in FlowIds /\ flows[x.f] \in Flow /\ flows[x.f].kind = "mail"
    BY <1>3 DEF Active, ConfirmStmt, Sound, OfMail, Inv, Typed
  <2>2. flows[x.f].sub \in Subjects /\ flows[x.f].target \in Emails
    BY <2>1 DEF Inv, Ids, Active, Flow
  <2>3. y \in Stmt /\ y.j = "ccommit"
    BY <1>3, <1>4, <2>1, <2>2 DEF Stmt, ConfirmedStmt, ConfirmStmt, MailRow
  <2> QED BY <2>3 DEF After, Owning, Sound
<1> QED BY <1>1, <1>6, <1>7, GoStep

\* The flow of a link by password is read.
LEMMA ReadForPasswordKeeps ==
    ASSUME Inv, NEW c \in Clients, ReadForPassword(c)
    PROVE  Inv'
<1>1. At(c, "pread") /\ UNCHANGED <<db, env, hist>>
  BY DEF ReadForPassword
<1>2. PICK x : x = Job(c) OBVIOUS
<1>3. x \in PasswordStmt /\ Sound(x) /\ x.j = "pread"
  BY <1>1, <1>2, HeadIs, StmtIs
<1>4. PICK y : y = [j |-> "pcommit", f |-> x.f, u |-> x.u, p |-> flows[x.f].prov, sub |-> flows[x.f].sub]
  OBVIOUS
<1>5. PICK ok : ok = (/\ Active(x.f) /\ On(flows[x.f].prov) /\ x.u \in Live
                      /\ users[x.u].active /\ (users[x.u].email # None => users[x.u].verified))
  OBVIOUS
<1>6. Go(c, ok, <<y>>)
  BY <1>2, <1>4, <1>5 DEF ReadForPassword
<1>7. ok => After(c, y)
  <2> SUFFICES ASSUME Active(x.f) PROVE After(c, y)
    BY <1>5
  <2>1. x.f \in FlowIds /\ flows[x.f] \in Flow /\ flows[x.f].kind = "mail"
    BY <1>3 DEF Active, PasswordStmt, Sound, OfMail, Inv, Typed
  <2>2. flows[x.f].sub \in Subjects /\ flows[x.f].prov \in Providers
    BY <2>1 DEF Inv, Ids, Active, Flow
  <2>3. y \in Stmt /\ y.j = "pcommit"
    BY <1>3, <1>4, <2>1, <2>2 DEF Stmt, ProvenStmt, PasswordStmt
  <2> QED BY <2>3 DEF After, Owning, Sound
<1> QED BY <1>1, <1>6, <1>7, GoStep

\* The calls follow, once the provider is found enabled.
LEMMA CheckBindingProviderKeeps ==
    ASSUME Inv, NEW c \in Clients, CheckBindingProvider(c)
    PROVE  Inv'
<1>1. At(c, "bprov") /\ UNCHANGED <<db, env, hist>>
  BY DEF CheckBindingProvider
<1>2. PICK x : x = Job(c) OBVIOUS
<1>3. /\ x \in CheckStmt /\ todo[c] # <<>> /\ x = todo[c][1] /\ x.j = "bprov"
      /\ List(todo[c]) /\ Head(todo[c]).j = "bprov"
  BY <1>1, <1>2, HeadIs, StmtIs
<1>4. PICK q : q = Calls(MinecraftCalls, x) OBVIOUS
<1>5. List(q) /\ q # <<>> /\ q[1].j = "call" /\ q[1].f = x.f
  <2>1. x.f \in FlowIds /\ x.p \in Providers /\ x.u \in UserIds \cup {None}
    BY <1>3 DEF CheckStmt
  <2>2. MinecraftCalls \in Seq(Services) /\ MinecraftCalls # <<>> BY ServicesAsked
  <2>3. PICK m : m = MinecraftCalls OBVIOUS
  <2> QED BY <1>4, <2>1, <2>2, <2>3, CallsAreList
<1>6. Go(c, On(x.p), q)
  BY <1>2, <1>4 DEF CheckBindingProvider
<1>7. Sets(c, q) \/ Sets(c, <<>>)
  BY <1>3, <1>5, <1>6, GoAlone
<1>8. Fit(c, q)
  BY <1>3, <1>5 DEF Fit, Keeps, Owning, Sound
<1>9. faults' \in Nat /\ load' = load
  BY <1>1 DEF Inv, Typed, env
<1> QED BY <1>1, <1>7, <1>8, <1>9, FitNone, PureStep

\* The device flow and its owner are read.
LEMMA ReadDeviceKeeps ==
    ASSUME Inv, NEW c \in Clients, ReadDevice(c)
    PROVE  Inv'
<1>1. At(c, "device") /\ UNCHANGED <<db, env, hist>>
  BY DEF ReadDevice
<1>2. PICK x : x = Job(c) OBVIOUS
<1>3. x \in DeviceStmt
  BY <1>1, <1>2, HeadIs, StmtIs
<1>4. PICK y : y = [j |-> "token", f |-> x.f, u |-> x.u, p |-> IF flows[x.f] = None THEN None ELSE flows[x.f].prov]
  OBVIOUS
<1>5. Go(c, Active(x.f) /\ flows[x.f].user = x.u, <<y>>)
  BY <1>2, <1>4 DEF ReadDevice
<1>6. Active(x.f) => After(c, y)
  <2> SUFFICES ASSUME Active(x.f) PROVE After(c, y)
    OBVIOUS
  <2>1. flows[x.f] \in Flow /\ flows[x.f] # None
    BY <1>3 DEF Active, DeviceStmt, Inv, Typed
  <2>2. y \in Stmt /\ y.j = "token"
    BY <1>3, <1>4, <2>1 DEF Stmt, TokenStmt, DeviceStmt, Flow
  <2> QED BY <2>2 DEF After, Owning, Sound
<1> QED BY <1>1, <1>5, <1>6, GoStep

\* The device code is polled: the flow is consumed before the account is asked for.
LEMMA PollDeviceKeeps ==
    ASSUME Inv, NEW c \in Clients, PollDevice(c)
    PROVE  Inv'
<1>1. At(c, "token") /\ UNCHANGED <<db, env, hist>>
  BY DEF PollDevice
<1>2. PICK x : x = Job(c) OBVIOUS
<1>3. x \in TokenStmt /\ todo[c] # <<>> /\ List(todo[c]) /\ Head(todo[c]).j = "token"
  BY <1>1, <1>2, HeadIs, StmtIs
<1>4. PICK q : q = <<[j |-> "consume", f |-> x.f]>> \o Calls(DeviceCalls, x) OBVIOUS
<1>5. List(q) /\ q # <<>> /\ q[1].j = "consume"
  BY <1>3, <1>4, CallsAreList, ServicesAsked DEF TokenStmt
<1>6. Fit(c, q)
  BY <1>5 DEF Fit, Keeps, Owning, Sound
<1>7. PICK a : a = [j |-> "consume", f |-> x.f] OBVIOUS
<1>8. a \in Stmt /\ a.j = "consume"
  BY <1>3, <1>7 DEF Stmt, TakeStmt, TokenStmt
<1>9. After(c, a)
  BY <1>8 DEF After, Owning, Sound
<1>10. faults' \in Nat /\ load' = load
  BY <1>1 DEF Inv, Typed, env
<1>11. CASE Then(c, q)
  <2>1. Sets(c, q) BY <1>3, <1>5, <1>11, ThenAlone
  <2> QED BY <1>1, <1>6, <1>10, <2>1, PureStep
<1>12. CASE Stop(c)
  BY <1>1, <1>10, <1>12, StopStep
<1>13. CASE Then(c, <<a>>)
  BY <1>1, <1>9, <1>13, ThenStep
<1> QED BY <1>2, <1>4, <1>7, <1>11, <1>12, <1>13 DEF PollDevice

\* The next statement of the list.
LEMMA ThenTail ==
    ASSUME Inv, NEW c \in Clients, NEW k, At(c, k), Then(c, <<>>)
    PROVE  /\ Sets(c, Tail(todo[c])) /\ List(Tail(todo[c]))
           /\ Tail(todo[c]) # <<>> => /\ Sound(Tail(todo[c])[1]) /\ Tail(todo[c])[1].j \in Owning
                                      /\ Tail(todo[c])[1].f = todo[c][1].f
<1>1. todo[c] # <<>> /\ List(todo[c])
  BY HeadIs
<1>2. /\ List(Tail(todo[c]))
      /\ Tail(todo[c]) # <<>> => /\ Tail(todo[c])[1].f = todo[c][1].f
                                 /\ Tail(todo[c])[1].j \in {"prov", "bprov", "call", "account?"}
  BY <1>1, ListTail
<1>3. <<>> \o Tail(todo[c]) = Tail(todo[c])
  BY <1>2, ConcatEmptySeq DEF List
<1> QED BY <1>2, <1>3 DEF Then, Sets, Owning, Sound

\* A service answers, or the request ends.
LEMMA CallServiceKeeps ==
    ASSUME Inv, NEW c \in Clients, CallService(c)
    PROVE  Inv'
<1>1. At(c, "call") /\ UNCHANGED <<db, env, hist>>
  BY DEF CallService
<1>2. faults' \in Nat /\ load' = load
  BY <1>1 DEF Inv, Typed, env
<1>3. CASE Then(c, <<>>)
  <2>1. PICK t : t = Tail(todo[c]) OBVIOUS
  <2>2. /\ Sets(c, t) /\ List(t)
        /\ t # <<>> => Sound(t[1]) /\ t[1].j \in Owning /\ t[1].f = todo[c][1].f
    BY <1>1, <1>3, <2>1, ThenTail
  <2>3. todo[c] # <<>> /\ todo[c][1].j = "call" BY <1>1, HeadIs
  <2>4. Fit(c, t) BY <2>2, <2>3 DEF Fit, Keeps, Owning
  <2> QED BY <1>1, <1>2, <2>2, <2>4, PureStep
<1>4. CASE Stop(c)
  BY <1>1, <1>2, <1>4, StopStep
<1> QED BY <1>3, <1>4 DEF CallService

\* The Minecraft account is known, and its user is still there.
LEMMA ExchangeMinecraftKeeps ==
    ASSUME Inv, NEW c \in Clients, ExchangeMinecraft(c)
    PROVE  Inv'
<1>1. At(c, "account?") /\ UNCHANGED <<db, env, hist>>
  BY DEF ExchangeMinecraft
<1>2. PICK x : x = Job(c) OBVIOUS
<1>3. x \in AccountStmt /\ todo[c] # <<>> /\ x = todo[c][1] /\ x.j = "account?"
  BY <1>1, <1>2, HeadIs, StmtIs
<1>4. PICK k \in load.claims :
         Go(c, x.u \in Live, <<[j |-> "apply", f |-> x.f, p |-> x.p, u |-> x.u, s |-> k.sub]>>)
  BY <1>2 DEF ExchangeMinecraft
<1>5. PICK y : y = [j |-> "apply", f |-> x.f, p |-> x.p, u |-> x.u, s |-> k.sub] OBVIOUS
<1>6. PICK ok : ok = (x.u \in Live) OBVIOUS
<1>7. k.sub \in Subjects
  BY LoadType DEF Inv, Claims
<1>8. ok => After(c, y)
  <2> SUFFICES ASSUME x.u \in Live PROVE After(c, y)
    BY <1>6
  <2>1. x.u \in UserIds BY DEF Live
  <2>2. y \in Stmt /\ y.j = "apply" /\ y.f = x.f
    BY <1>3, <1>5, <1>7, <2>1 DEF Stmt, ApplyStmt, AccountStmt
  <2> QED BY <1>3, <2>2 DEF After, Owning, Sound
<1> QED BY <1>1, <1>4, <1>5, <1>6, <1>8, GoStep

\* The link to give up is read.
LEMMA ReadLinkKeeps ==
    ASSUME Inv, NEW c \in Clients, ReadLink(c)
    PROVE  Inv'
<1>1. At(c, "uread") /\ UNCHANGED <<db, env, hist>>
  BY DEF ReadLink
<1>2. PICK x : x = Job(c) OBVIOUS
<1>3. x \in LinkStmt
  BY <1>1, <1>2, HeadIs, StmtIs
<1>4. PICK y : y = [x EXCEPT !.j = "unlink"] OBVIOUS
<1>5. Go(c, x.i \in links /\ CanUnlink(x.i), <<y>>)
  BY <1>2, <1>4 DEF ReadLink
<1>6. CanUnlink(x.i) => After(c, y)
  <2> SUFFICES ASSUME CanUnlink(x.i) PROVE After(c, y)
    OBVIOUS
  <2>1. y \in Stmt /\ y.j = "unlink" /\ y.i = x.i /\ x.i \in Identity
    BY <1>3, <1>4 DEF Stmt, LinkStmt
  <2>2. x.i.prov \in Providers /\ provs[x.i.prov] \in Provider
    BY <2>1 DEF CanUnlink, Identity, Inv, Typed
  <2>3. OfKind(x.i.prov, Kinds \ {"microsoft", "linuxdo"})
    BY <2>2 DEF OfKind, CanUnlink, Inv, Ids, Provider
  <2>4. Sound(y) BY <2>1, <2>3 DEF Sound, CanUnlink
  <2> QED BY <2>1, <2>4 DEF After, Owning
<1> QED BY <1>1, <1>5, <1>6, GoStep

\* The key of a new provider is chosen.
LEMMA ChooseKeyKeeps ==
    ASSUME Inv, NEW c \in Clients, ChooseKey(c)
    PROVE  Inv'
<1>1. At(c, "pkey") /\ UNCHANGED <<db, env, hist>>
  BY DEF ChooseKey
<1>2. PICK x : x = Job(c) OBVIOUS
<1>3. x \in NewStmt
  BY <1>1, <1>2, HeadIs, StmtIs
<1>4. PICK b \in BOOLEAN : b = (x.r.kind = "microsoft" /\ WithPublicKey = {}) OBVIOUS
<1>5. PICK y : y = [j |-> "pcreate", r |-> [x.r EXCEPT !.public = b]] OBVIOUS
<1>6. Then(c, <<y>>)
  BY <1>2, <1>4, <1>5 DEF ChooseKey
<1>7. y \in Stmt /\ y.j = "pcreate"
  BY <1>3, <1>5 DEF Stmt, NewStmt, Provider
<1>8. After(c, y)
  BY <1>7 DEF After, Owning, Sound
<1> QED BY <1>1, <1>6, <1>8, ThenStep

\* A request is lost.
LEMMA LoseKeeps ==
    ASSUME Inv, NEW c \in Clients, Lose(c)
    PROVE  Inv'
<1>1. Stop(c) /\ UNCHANGED <<db, hist, load>>
  BY DEF Lose
<1>2. faults' \in Nat
  BY DEF Lose, Inv, Typed
<1> QED BY <1>1, <1>2, StopStep

-----------------------------------------------------------------------------
(* Statements that write                                                   *)

\* Ids are numbers.
LEMMA Numbers ==
    ASSUME Typed
    PROVE  /\ last.flow \in 0..MaxFlow /\ last.prov \in 0..MaxProv /\ last.user \in 0..MaxUser
           /\ MaxFlow \in Nat /\ MaxProv \in Nat /\ MaxUser \in Nat
           /\ FlowIds = 1..MaxFlow /\ Providers = 1..MaxProv /\ UserIds = 1..MaxUser
           /\ last \in [user : Nat, flow : Nat, prov : Nat]
  BY ExternalAuthAssumption DEF Typed, FlowIds, Providers, UserIds

\* Where rows go on, what is consumed stays consumed and what is mailed stays mailed.
LEMMA EvolvesConsumed ==
    ASSUME Typed, Evolves
    PROVE  StaysConsumed
<1> SUFFICES ASSUME NEW f \in FlowIds PROVE (Consumed(f) => Consumed(f)') /\ (Mailed(f) => Mailed(f)')
  BY DEF StaysConsumed
<1>1. f <= last.flow => f <= last'.flow
  BY Numbers DEF Evolves
<1>2. Consumed(f) => Consumed(f)'
  BY <1>1 DEF Consumed, Evolves, GoesOn
<1>3. Mailed(f) => Mailed(f)'
  BY <1>1 DEF Mailed, Evolves, GoesOn
<1> QED BY <1>2, <1>3

\* A user without an address stays reachable: only links of other kinds go, or links of users and
\* providers that go themselves.
LEMMA OrphanStays ==
    ASSUME Typed, Ids, OrphanInv, Evolves,
           \A u \in Live' : users'[u].email = None => (u \in Live /\ users[u].email = None) \/ Reachable(u)',
           \A i \in links : \/ i \in links' \/ i.user \notin Live' \/ provs[i.prov] = None \/ provs'[i.prov] = None
                            \/ provs[i.prov].kind # "linuxdo"
    PROVE  OrphanInv'
<1> SUFFICES ASSUME NEW u \in Live', users'[u].email = None, u \in Live /\ users[u].email = None
             PROVE  Reachable(u)'
  BY DEF OrphanInv
<1>0. \A p \in Providers : p <= last.prov => p \in 1..last'.prov
  BY Numbers DEF Evolves
<1>1. Reachable(u)
  BY DEF OrphanInv
<1>2. CASE \E p \in 1..last.prov : provs[p] = None
  <2>1. PICK p \in 1..last.prov : provs[p] = None BY <1>2
  <2>2. p \in Providers /\ p <= last.prov BY <2>1, Numbers
  <2> QED BY <1>0, <2>1, <2>2 DEF Reachable, Evolves
<1>3. CASE \E i \in links : i.user = u /\ provs[i.prov] # None /\ provs[i.prov].kind = "linuxdo"
  <2>1. PICK i \in links : i.user = u /\ provs[i.prov] # None /\ provs[i.prov].kind = "linuxdo"
    BY <1>3
  <2>2. i.prov \in Providers /\ i.prov <= last.prov BY <2>1 DEF Typed, Identity, Ids
  <2>3. CASE provs'[i.prov] = None BY <1>0, <2>2, <2>3 DEF Reachable
  <2>4. CASE provs'[i.prov] # None BY <2>1, <2>2, <2>4 DEF Reachable, Evolves
  <2> QED BY <2>3, <2>4
<1> QED BY <1>1, <1>2, <1>3 DEF Reachable

\* No link is made, and profiles stay.
LEMMA BoundStays ==
    ASSUME BoundProfile, profiles' = profiles, \A i \in links' : i.ns = Minecraft => i \in links
    PROVE  BoundProfile'
  BY DEF BoundProfile

\* No link is made: a subject still leads to one account.
LEMMA VisitStays ==
    ASSUME VisitInv, Evolves, links' \subseteq links, entries' = entries
    PROVE  VisitInv'
  BY LedToStays DEF VisitInv

\* A link is made of a subject that has none, or one to the same account.
LEMMA VisitLinked ==
    ASSUME VisitInv, Evolves, NEW l, links' = links \cup {l}, entries' = entries,
           \A i \in links : i.ns = l.ns /\ i.sub = l.sub => i.user = l.user
    PROVE  VisitInv'
<1>1. \A i, k \in links' : i.ns = k.ns /\ i.sub = k.sub => i.user = k.user
  BY DEF VisitInv
<1>2. \A e \in entries' : LedTo(e.ns, e.sub, e.user)'
  BY LedToStays DEF VisitInv
<1> QED BY <1>1, <1>2 DEF VisitInv

\* The request stops: it owns nothing any more.
LEMMA Stops ==
    ASSUME Typed, NEW c \in Clients, Stop(c)
    PROVE  /\ todo' \in [Clients -> Seq(Stmt)] /\ \A d \in Clients : List(todo'[d])
           /\ Sets(c, <<>>) /\ OwnersKept /\ \A f : ~Owner(c, f)'
<1>1. Sets(c, <<>>)
  BY DEF Stop, Sets
<1>2. Keeps(c, <<>>)
  BY DEF Keeps
<1>3. todo'[c] = <<>>
  BY <1>1, NoneIsList, SetsTodo
<1> QED BY <1>1, <1>2, <1>3, NoneIsList, SetsTodo, KeepsOwners DEF Owner

\* A flow is opened under a fresh id.
LEMMA InsertRow ==
    ASSUME Typed, Ids, NEW r \in Flow, r.kind = "mail" => r.sub \in Subjects, Insert(r),
           UNCHANGED <<provs, links, released>>
    PROVE  /\ flows' \in [FlowIds -> Flow \cup {None}]
           /\ last' \in [user : 0..MaxUser, flow : 0..MaxFlow, prov : 0..MaxProv]
           /\ Evolves /\ Ids'
<1> DEFINE n == last.flow + 1
<1>1. /\ n \in FlowIds /\ ~(n <= last.flow) /\ flows' = [flows EXCEPT ![n] = r]
      /\ last' = [last EXCEPT !.flow = n]
  <2>1. last.flow < load.flows /\ load.flows \in 0..MaxFlow BY LoadType DEF Insert
  <2>2. n \in FlowIds /\ ~(n <= last.flow) BY <2>1, Numbers
  <2> QED BY <2>2 DEF Insert
<1>2. /\ last' \in [user : 0..MaxUser, flow : 0..MaxFlow, prov : 0..MaxProv] /\ last'.flow = n /\ last'.prov = last.prov
      /\ last' \in [user : Nat, flow : Nat, prov : Nat] /\ last.flow <= last'.flow
  <2>1. n \in 0..MaxFlow /\ n \in Nat /\ last.flow <= n BY <1>1, Numbers
  <2> HIDE DEF n
  <2>2. last \in [user : 0..MaxUser, flow : 0..MaxFlow, prov : 0..MaxProv] BY DEF Typed
  <2>3. last' \in [user : 0..MaxUser, flow : 0..MaxFlow, prov : 0..MaxProv]
    BY <1>1, <2>1, <2>2
  <2>4. last' \in [user : Nat, flow : Nat, prov : Nat] BY <1>1, <2>1, Numbers
  <2>5. last'.flow = n /\ last'.prov = last.prov BY <1>1, <2>2
  <2> QED BY <2>1, <2>3, <2>4, <2>5
<1> HIDE DEF n
<1>3. flows' \in [FlowIds -> Flow \cup {None}]
  BY <1>1 DEF Typed
<1>4. \A f \in FlowIds : f # n => flows'[f] = flows[f]
  BY <1>1 DEF Typed
<1>5. flows'[n] = r
  BY <1>1 DEF Typed
<1>6. Evolves
  <2>1. \A f \in FlowIds : f <= last.flow => flows'[f] = None \/ (flows[f] # None /\ GoesOn(f))
    BY <1>1, <1>4 DEF GoesOn
  <2> QED BY <1>2, <2>1, Numbers DEF Evolves
<1>7. \A f \in FlowIds : f <= last.flow => f <= last'.flow
  BY <1>2, Numbers
<1>8. n <= last'.flow
  BY <1>1, <1>2, Numbers
<1>9. Ids'
  BY <1>2, <1>4, <1>5, <1>7, <1>8 DEF Ids
<1> QED BY <1>2, <1>3, <1>6, <1>9

\* A request that opens a flow, or not, and ends.
LEMMA OpenKeeps ==
    ASSUME Inv, NEW c \in Clients, Stop(c), UNCHANGED <<users, provs, links, profiles, env, hist>>,
           \/ UNCHANGED <<flows, last>>
           \/ \E r \in Flow : (r.kind = "mail" => r.sub \in Subjects) /\ Insert(r)
    PROVE  Inv'
<1>0. faults' \in Nat /\ load' = load
  BY DEF Inv, Typed, env
<1>1. CASE UNCHANGED <<flows, last>>
  BY <1>0, <1>1, StopStep DEF db
<1>2. CASE \E r \in Flow : (r.kind = "mail" => r.sub \in Subjects) /\ Insert(r)
  <2>1. PICK r \in Flow : (r.kind = "mail" => r.sub \in Subjects) /\ Insert(r) BY <1>2
  <2>2. UNCHANGED <<ends, mails, entries, released, dark>> BY DEF hist
  <2>3. /\ flows' \in [FlowIds -> Flow \cup {None}]
        /\ last' \in [user : 0..MaxUser, flow : 0..MaxFlow, prov : 0..MaxProv]
        /\ Evolves /\ Ids'
    BY <2>1, <2>2, InsertRow DEF Inv
  <2>4. Typed' BY <1>0, <2>2, <2>3, Stops DEF Inv, Typed
  <2>5. SoundJobs' BY <2>3, Stops, NoneIsList, JobsStay DEF Inv
  <2>6. FlowInv' BY <2>2, <2>3, Stops, EvolvesConsumed, FlowCarry DEF Inv
  <2>7. VisitInv' BY <2>2, <2>3, VisitStays DEF Inv
  <2>8. OrphanInv' BY <2>3, OrphanStays DEF Inv, Live
  <2>9. BoundProfile' BY BoundStays DEF Inv
  <2> QED BY <2>3, <2>4, <2>5, <2>6, <2>7, <2>8, <2>9 DEF Inv
<1> QED BY <1>1, <1>2

\* A flow of any kind begins unused.
LEMMA OpenType ==
    ASSUME NEW k \in FlowKinds, NEW p \in Providers, NEW u \in UserIds \cup {None}, NEW s \in Subjects \cup {None}
    PROVE  Open(k, p, u, s) \in Flow /\ Open(k, p, u, s).kind = k /\ Open(k, p, u, s).sub = s
  BY DEF Open, Flow

\* A login begins.
LEMMA OpenLoginKeeps ==
    ASSUME Inv, NEW c \in Clients, OpenLogin(c)
    PROVE  Inv'
<1>1. Stop(c) /\ UNCHANGED <<users, provs, links, profiles, env, hist>>
  BY DEF OpenLogin
<1>2. UNCHANGED <<flows, last>> \/ \E p \in Providers : Insert(Open("login", p, None, None))
  BY DEF OpenLogin, FindProvider, WithPublicKey, EnabledMicrosoft
<1>3. \A p \in Providers : Open("login", p, None, None) \in Flow /\ Open("login", p, None, None).kind = "login"
  BY OpenType DEF FlowKinds
<1> QED BY <1>1, <1>2, <1>3, OpenKeeps

\* A binding begins.
LEMMA OpenBindingKeeps ==
    ASSUME Inv, NEW c \in Clients, OpenBinding(c)
    PROVE  Inv'
<1>1. Stop(c) /\ UNCHANGED <<users, provs, links, profiles, env, hist>> /\ At(c, "bopen")
  BY DEF OpenBinding
<1>2. PICK x : x = Job(c) OBVIOUS
<1>3. x.u \in UserIds /\ x.k \in {"code", "device"}
  BY <1>1, <1>2, HeadIs, StmtIs DEF BindStmt
<1>4. UNCHANGED <<flows, last>> \/ \E p \in Providers : Insert(Open(x.k, p, x.u, None))
  BY <1>2 DEF OpenBinding, FindBindingProvider, FindProvider, WithPublicKey, EnabledMicrosoft
<1>5. \A p \in Providers : Open(x.k, p, x.u, None) \in Flow /\ Open(x.k, p, x.u, None).kind = x.k
  BY <1>3, OpenType DEF FlowKinds
<1> QED BY <1>1, <1>3, <1>4, <1>5, OpenKeeps

\* The visitor is to prove an address.
LEMMA OpenPendingKeeps ==
    ASSUME Inv, NEW c \in Clients, OpenPending(c)
    PROVE  Inv'
<1>1. UNCHANGED <<users, provs, links, profiles, env, hist>> /\ At(c, "pending")
  BY DEF OpenPending
<1>2. PICK x : x = Job(c) OBVIOUS
<1>3. x.p \in Providers /\ x.sub \in Subjects
  BY <1>1, <1>2, HeadIs, StmtIs DEF VisitStmt
<1>4. Stop(c) /\ (UNCHANGED <<flows, last>> \/ Insert(Open("mail", x.p, None, x.sub)))
  BY <1>2 DEF OpenPending
<1>5. Open("mail", x.p, None, x.sub) \in Flow /\ Open("mail", x.p, None, x.sub).sub = x.sub
  BY <1>3 DEF Open, Flow, FlowKinds
<1> QED BY <1>1, <1>3, <1>4, <1>5, OpenKeeps

\* One row of a flow changes: its kind and subject stay, it stays consumed and keeps its address.
LEMMA RowChanged ==
    ASSUME Typed, Ids, NEW f \in FlowIds, flows[f] # None, NEW r \in Flow, flows' = [flows EXCEPT ![f] = r],
           r.kind = flows[f].kind, r.sub = flows[f].sub, flows[f].used => r.used,
           flows[f].target # None => r.target # None,
           last' \in [user : Nat, flow : Nat, prov : Nat], last'.flow = last.flow, last'.prov = last.prov,
           provs' = provs, links \subseteq links', released' = released
    PROVE  /\ flows' \in [FlowIds -> Flow \cup {None}] /\ flows'[f] = r /\ f <= last.flow
           /\ Evolves /\ Ids'
<1>1. flows' \in [FlowIds -> Flow \cup {None}] /\ flows'[f] = r /\ \A g \in FlowIds : g # f => flows'[g] = flows[g]
  BY DEF Typed
<1>2. f <= last.flow
  BY DEF Ids
<1>3. \A g \in FlowIds : g <= last.flow => flows'[g] = None \/ (flows[g] # None /\ GoesOn(g))
  <2> SUFFICES ASSUME NEW g \in FlowIds, flows'[g] # None PROVE flows[g] # None /\ GoesOn(g)
    OBVIOUS
  <2>1. CASE g = f BY <1>1, <2>1 DEF GoesOn
  <2>2. CASE g # f BY <1>1, <2>2 DEF GoesOn
  <2> QED BY <2>1, <2>2
<1>4. last.flow <= last'.flow /\ last.prov <= last'.prov
  BY Numbers
<1>5. Evolves
  BY <1>3, <1>4 DEF Evolves
<1>6. Ids'
  <2>1. \A g \in FlowIds : flows'[g] # None => flows[g] # None /\ flows'[g].kind = flows[g].kind
                                                /\ flows'[g].sub = flows[g].sub
    BY <1>1
  <2> QED BY <2>1 DEF Ids
<1> QED BY <1>1, <1>2, <1>5, <1>6

\* A flow is consumed that was active.
LEMMA FlowUsed ==
    ASSUME Typed, Ids, NEW f \in FlowIds, Active(f), flows' = [flows EXCEPT ![f].used = TRUE],
           last' \in [user : Nat, flow : Nat, prov : Nat], last'.flow = last.flow, last'.prov = last.prov,
           provs' = provs, links \subseteq links', released' = released
    PROVE  /\ flows' \in [FlowIds -> Flow \cup {None}] /\ ~Consumed(f) /\ Consumed(f)'
           /\ Evolves /\ Ids'
<1>1. PICK r : r = [flows[f] EXCEPT !.used = TRUE] OBVIOUS
<1>2. flows[f] \in Flow /\ flows[f] # None /\ ~flows[f].used
  BY DEF Active, Typed
<1>3. /\ r \in Flow /\ r.used = TRUE /\ r.kind = flows[f].kind /\ r.sub = flows[f].sub
      /\ r.target = flows[f].target
  BY <1>1, <1>2 DEF Flow
<1>4. flows' = [flows EXCEPT ![f] = r]
  BY <1>1
<1>5. /\ flows' \in [FlowIds -> Flow \cup {None}] /\ flows'[f] = r /\ f <= last.flow
      /\ Evolves /\ Ids'
  BY <1>2, <1>3, <1>4, RowChanged
<1>6. ~Consumed(f) /\ Consumed(f)'
  BY <1>2, <1>3, <1>5 DEF Consumed
<1> QED BY <1>5, <1>6

\* Who goes on with the flow consumed is its only new owner.
LEMMA TakesOver ==
    ASSUME Typed, NEW c \in Clients, NEW f \in FlowIds, NEW s, List(s), Sets(c, s), s # <<>> => s[1].f = f
    PROVE  \A d \in Clients, g \in FlowIds : Owner(d, g)' => Owner(d, g) \/ (d = c /\ g = f)
<1>1. todo'[c] = s /\ \A d \in Clients : d # c => todo'[d] = todo[d]
  BY SetsTodo
<1> QED BY <1>1 DEF Owner

\* A flow is consumed before the request goes on: consume_by_state_hash.
LEMMA ConsumeFlowKeeps ==
    ASSUME Inv, NEW c \in Clients, ConsumeFlow(c)
    PROVE  Inv'
<1>1. At(c, "consume") /\ UNCHANGED <<users, provs, links, profiles, last, env, hist>>
  BY DEF ConsumeFlow
<1>2. PICK f : f = Job(c).f OBVIOUS
<1>3. f \in FlowIds /\ todo[c] # <<>> /\ todo[c][1].f = f
  BY <1>1, <1>2, HeadIs, StmtIs DEF TakeStmt
<1>4. UNCHANGED <<ends, mails, entries, released, dark>> /\ faults' \in Nat /\ load' = load
  BY <1>1 DEF Inv, Typed, env, hist
<1>5. CASE Active(f)
  <2>1. flows' = [flows EXCEPT ![f].used = TRUE] /\ Then(c, <<>>)
    BY <1>2, <1>5 DEF ConsumeFlow
  <2>2. /\ flows' \in [FlowIds -> Flow \cup {None}] /\ ~Consumed(f) /\ Consumed(f)'
        /\ Evolves /\ Ids'
    BY <1>1, <1>3, <1>4, <1>5, <2>1, Numbers, FlowUsed DEF Inv
  <2>3. PICK s : s = Tail(todo[c]) OBVIOUS
  <2>4. /\ Sets(c, s) /\ List(s)
        /\ s # <<>> => Sound(s[1]) /\ s[1].f = f /\ s[1] \in Stmt
    BY <1>1, <1>3, <2>1, <2>3, ThenTail, ListTail
  <2>5. s # <<>> => Sound(s[1])'
    <3> SUFFICES ASSUME s # <<>> PROVE Sound(s[1])'
      OBVIOUS
    <3>1. PICK y \in Stmt : y = s[1] /\ Sound(y) BY <2>4
    <3> QED BY <2>2, <3>1, SoundStays DEF Inv
  <2>6. Typed' BY <1>1, <1>4, <2>2, <2>4, SetsTodo DEF Inv, Typed
  <2>7. SoundJobs' BY <2>2, <2>4, <2>5, JobsStay DEF Inv
  <2>8. FlowInv' BY <1>3, <1>4, <2>2, <2>4, TakesOver, EvolvesConsumed, FlowTaken DEF Inv
  <2>9. VisitInv' /\ OrphanInv' /\ BoundProfile'
    BY <1>1, <1>4, <2>2, VisitStays, OrphanStays, BoundStays DEF Inv, Live
  <2> QED BY <2>2, <2>6, <2>7, <2>8, <2>9 DEF Inv
<1>6. CASE ~Active(f)
  <2>1. Stop(c) /\ flows' = flows BY <1>2, <1>6 DEF ConsumeFlow
  <2> QED BY <1>1, <1>4, <2>1, StopStep DEF db
<1> QED BY <1>5, <1>6

\* Flows and providers stay, links are added.
LEMMA EvolvesLinked ==
    ASSUME Typed, Ids, last' \in [user : Nat, flow : Nat, prov : Nat], last'.flow = last.flow, last'.prov = last.prov,
           flows' = flows, provs' = provs, links \subseteq links', released' = released
    PROVE  Evolves /\ Ids'
<1>1. last.flow <= last'.flow /\ last.prov <= last'.prov
  BY Numbers
<1>2. Evolves
  BY <1>1 DEF Evolves, GoesOn
<1>3. Ids'
  BY DEF Ids
<1> QED BY <1>2, <1>3

\* A link is made or not, of a subject that has none or one to the same account, by a request that
\* goes on with the session.
LEMMA LinkMade ==
    ASSUME Typed, VisitInv, BoundProfile, Evolves, entries' = entries, profiles' = profiles,
           NEW l \in Identity, l.ns # Minecraft, links' = links \cup {l} \/ (links' = links /\ \E i \in links : i.ns = l.ns /\ i.sub = l.sub /\ i.user = l.user),
           \A i \in links : i.ns = l.ns /\ i.sub = l.sub => i.user = l.user
    PROVE  links' \subseteq Identity /\ VisitInv' /\ BoundProfile' /\ LedTo(l.ns, l.sub, l.user)'
<1>1. CASE links' = links \cup {l}
  <2>1. links' \subseteq Identity BY <1>1 DEF Typed
  <2>2. VisitInv' BY <1>1, VisitLinked
  <2>3. BoundProfile' BY <1>1, BoundStays
  <2>4. LedTo(l.ns, l.sub, l.user)' BY <1>1 DEF LedTo
  <2> QED BY <2>1, <2>2, <2>3, <2>4
<1>2. CASE links' = links /\ \E i \in links : i.ns = l.ns /\ i.sub = l.sub /\ i.user = l.user
  <2>1. LedTo(l.ns, l.sub, l.user)' BY <1>2 DEF LedTo
  <2> QED BY <1>2, <2>1, VisitStays, BoundStays DEF Typed
<1> QED BY <1>1, <1>2

\* The visitor's address leads to an account, which is linked.
LEMMA AutoLinkKeeps ==
    ASSUME Inv, NEW c \in Clients, AutoLink(c)
    PROVE  Inv'
<1>1. At(c, "link") /\ UNCHANGED <<users, provs, flows, profiles, last, env, hist>>
  BY DEF AutoLink
<1>2. PICK x : x = Job(c) OBVIOUS
<1>3. /\ x \in VisitStmt /\ todo[c] # <<>> /\ x = todo[c][1] /\ x.j = "link"
      /\ List(todo[c]) /\ Head(todo[c]).j = "link"
  BY <1>1, <1>2, HeadIs, StmtIs
<1>4. UNCHANGED <<ends, mails, entries, released, dark>> /\ faults' \in Nat /\ load' = load
  BY <1>1 DEF Inv, Typed, env, hist
<1>5. CASE x.u \in Live /\ provs[x.p] # None /\ Linkable(x.u, x.p, x.p, x.sub)
  <2>1. PICK l : l = Link(x.u, x.p, x.p, x.sub) OBVIOUS
  <2>2. PICK y : y = [x EXCEPT !.j = "session"] OBVIOUS
  <2>3. links' = links \cup {l} /\ Then(c, <<y>>) BY <1>2, <1>5, <2>1, <2>2 DEF AutoLink
  <2>4. x.u \in UserIds /\ x.p \in Providers /\ x.sub \in Subjects /\ x.p # Minecraft
    BY <1>3, <1>5, Numbers DEF VisitStmt, Live, Inv, Minecraft
  <2>5. l \in Identity /\ l.ns = x.p /\ l.sub = x.sub /\ l.user = x.u
    BY <2>1, <2>4 DEF Link, Identity
  <2>6. \A i \in links : ~(i.ns = l.ns /\ i.sub = l.sub)
    BY <1>5, <2>5 DEF Linkable, Linked
  <2>7. Evolves /\ Ids' BY <1>1, <1>4, <2>3, Numbers, EvolvesLinked DEF Inv
  <2>8. links' \subseteq Identity /\ VisitInv' /\ BoundProfile' /\ LedTo(l.ns, l.sub, l.user)'
    BY <1>1, <1>4, <2>3, <2>4, <2>5, <2>6, <2>7, LinkMade DEF Inv
  <2>9. y \in VisitStmt /\ y.j = "session" /\ y.f = x.f /\ y.p = x.p /\ y.sub = x.sub /\ y.u = x.u
    BY <1>3, <2>2 DEF VisitStmt
  <2>10. y \in Stmt BY <2>9 DEF Stmt
  <2>11. List(<<y>>) /\ <<y>>[1] = y /\ <<y>> # <<>> BY <2>10, OneIsList
  <2>12. Sets(c, <<y>>) BY <1>3, <2>3, <2>11, ThenAlone
  <2>13. Keeps(c, <<y>>) BY <1>3, <2>9, <2>11 DEF Keeps, Owning
  <2>14. Sound(y)' BY <2>5, <2>8, <2>9 DEF Sound
  <2>15. Typed' BY <1>1, <1>4, <2>8, <2>11, <2>12, SetsTodo DEF Inv, Typed
  <2>16. SoundJobs' BY <2>7, <2>11, <2>12, <2>14, JobsStay DEF Inv
  <2>17. FlowInv'
    BY <1>4, <2>7, <2>11, <2>12, <2>13, KeepsOwners, EvolvesConsumed, FlowCarry DEF Inv
  <2>18. OrphanInv' BY <1>1, <2>3, <2>7, OrphanStays DEF Inv, Live
  <2> QED BY <2>7, <2>8, <2>15, <2>16, <2>17, <2>18 DEF Inv
<1>6. CASE ~(x.u \in Live /\ provs[x.p] # None /\ Linkable(x.u, x.p, x.p, x.sub))
  <2>1. Stop(c) /\ links' = links BY <1>2, <1>6 DEF AutoLink
  <2> QED BY <1>1, <1>4, <2>1, StopStep DEF db
<1> QED BY <1>5, <1>6

\* A user is added under a fresh id.
LEMMA UserAdded ==
    ASSUME Typed, NEW r \in User, AddUser(r)
    PROVE  /\ users' \in [UserIds -> User \cup {None}] /\ last.user + 1 \in UserIds
           /\ last' \in [user : 0..MaxUser, flow : 0..MaxFlow, prov : 0..MaxProv]
           /\ last' \in [user : Nat, flow : Nat, prov : Nat] /\ last'.flow = last.flow /\ last'.prov = last.prov
           /\ users'[last.user + 1] = r
           /\ \A u \in UserIds : u # last.user + 1 => users'[u] = users[u]
<1> DEFINE n == last.user + 1
<1>1. n \in UserIds /\ n \in 0..MaxUser /\ n \in Nat
  BY Numbers DEF AddUser
<1>2. users' = [users EXCEPT ![n] = r] /\ last' = [last EXCEPT !.user = n]
  BY DEF AddUser
<1> HIDE DEF n
<1>3. last \in [user : 0..MaxUser, flow : 0..MaxFlow, prov : 0..MaxProv]
  BY DEF Typed
<1>4. last' \in [user : 0..MaxUser, flow : 0..MaxFlow, prov : 0..MaxProv]
  BY <1>1, <1>2, <1>3
<1>5. last' \in [user : Nat, flow : Nat, prov : Nat]
  BY <1>1, <1>2, Numbers
<1>6. last'.flow = last.flow /\ last'.prov = last.prov
  BY <1>2, <1>3
<1>7. /\ users' \in [UserIds -> User \cup {None}] /\ users'[n] = r
      /\ \A u \in UserIds : u # n => users'[u] = users[u]
  BY <1>1, <1>2 DEF Typed
<1> QED BY <1>1, <1>4, <1>5, <1>6, <1>7 DEF n

\* An account and its link are made at once.
LEMMA ProvisionKeeps ==
    ASSUME Inv, NEW c \in Clients, Provision(c)
    PROVE  Inv'
<1>1. At(c, "create") /\ UNCHANGED <<provs, flows, profiles, env, hist>>
  BY DEF Provision
<1>2. PICK x : x = Job(c) OBVIOUS
<1>3. /\ x \in VisitStmt /\ todo[c] # <<>> /\ x = todo[c][1] /\ x.j = "create" /\ Sound(x)
      /\ List(todo[c]) /\ Head(todo[c]).j = "create"
  BY <1>1, <1>2, HeadIs, StmtIs
<1>4. UNCHANGED <<ends, mails, entries, released, dark>> /\ faults' \in Nat /\ load' = load
  BY <1>1 DEF Inv, Typed, env, hist
<1>5. PICK u : u = last.user + 1 OBVIOUS
<1>6. CASE (x.e = None \/ HasEmail(x.e) = {}) /\ provs[x.p] # None /\ Linkable(u, x.p, x.p, x.sub)
  <2>1. PICK l, r : l = Link(u, x.p, x.p, x.sub) /\ r = Registered(x.e, x.ver) OBVIOUS
  <2>2. PICK y : y = [x EXCEPT !.j = "session", !.u = u] OBVIOUS
  <2>3. links' = links \cup {l} /\ Then(c, <<y>>) /\ AddUser(r)
    BY <1>2, <1>5, <1>6, <2>1, <2>2 DEF Provision
  <2>4. x.p \in Providers /\ x.sub \in Subjects /\ x.p # Minecraft
    BY <1>3, Numbers DEF VisitStmt, Inv, Minecraft
  <2>5. r \in User /\ r.email = x.e BY <1>3, <2>1 DEF VisitStmt, Registered, User
  <2>6. /\ users' \in [UserIds -> User \cup {None}] /\ u \in UserIds
        /\ last' \in [user : 0..MaxUser, flow : 0..MaxFlow, prov : 0..MaxProv]
        /\ last' \in [user : Nat, flow : Nat, prov : Nat] /\ last'.flow = last.flow /\ last'.prov = last.prov
        /\ users'[u] = r
        /\ \A v \in UserIds : v # u => users'[v] = users[v]
    BY <1>5, <2>3, <2>5, UserAdded DEF Inv
  <2>7. l \in Identity /\ l.ns = x.p /\ l.sub = x.sub /\ l.user = u /\ l.prov = x.p
    BY <2>1, <2>4, <2>6 DEF Link, Identity
  <2>8. \A i \in links : ~(i.ns = l.ns /\ i.sub = l.sub)
    BY <1>6, <2>7 DEF Linkable, Linked
  <2>9. Evolves /\ Ids' BY <1>1, <1>4, <2>3, <2>6, EvolvesLinked DEF Inv
  <2>10. links' \subseteq Identity /\ VisitInv' /\ BoundProfile' /\ LedTo(l.ns, l.sub, l.user)'
    BY <1>1, <1>4, <2>3, <2>4, <2>7, <2>8, <2>9, LinkMade DEF Inv
  <2>11. y \in VisitStmt /\ y.j = "session" /\ y.f = x.f /\ y.p = x.p /\ y.sub = x.sub /\ y.u = u
    BY <1>3, <2>2, <2>6 DEF VisitStmt
  <2>12. y \in Stmt BY <2>11 DEF Stmt
  <2>13. List(<<y>>) /\ <<y>>[1] = y /\ <<y>> # <<>> BY <2>12, OneIsList
  <2>14. Sets(c, <<y>>) BY <1>3, <2>3, <2>13, ThenAlone
  <2>15. Keeps(c, <<y>>) BY <1>3, <2>11, <2>13 DEF Keeps, Owning
  <2>16. Sound(y)' BY <2>7, <2>10, <2>11 DEF Sound
  <2>17. Typed' BY <1>1, <1>4, <2>6, <2>10, <2>13, <2>14, SetsTodo DEF Inv, Typed
  <2>18. SoundJobs' BY <2>9, <2>13, <2>14, <2>16, JobsStay DEF Inv
  <2>19. FlowInv'
    BY <1>4, <2>9, <2>13, <2>14, <2>15, KeepsOwners, EvolvesConsumed, FlowCarry DEF Inv
  <2>20. r.email = None => Reachable(u)'
    <3> SUFFICES ASSUME x.e = None PROVE Reachable(u)'
      BY <2>5
    <3>1. provs'[l.prov] # None /\ provs'[l.prov].kind = "linuxdo" /\ l \in links' /\ l.user = u
      BY <1>1, <1>3, <1>6, <2>3, <2>7 DEF Sound, OfKind
    <3> QED BY <3>1 DEF Reachable
  <2>21. \A v \in Live' : users'[v].email = None => (v \in Live /\ users[v].email = None) \/ Reachable(v)'
    <3> SUFFICES ASSUME NEW v \in Live', users'[v].email = None, v # u PROVE v \in Live /\ users[v].email = None
      BY <2>6, <2>20
    <3> QED BY <2>6 DEF Live
  <2>22. OrphanInv' BY <2>3, <2>9, <2>21, OrphanStays DEF Inv
  <2> QED BY <2>9, <2>10, <2>17, <2>18, <2>19, <2>22 DEF Inv
<1>7. CASE ~((x.e = None \/ HasEmail(x.e) = {}) /\ provs[x.p] # None /\ Linkable(u, x.p, x.p, x.sub))
  <2>1. Stop(c) /\ UNCHANGED <<users, links, last>> BY <1>2, <1>5, <1>7 DEF Provision
  <2> QED BY <1>1, <1>4, <2>1, StopStep DEF db
<1> QED BY <1>6, <1>7

\* The mail of a flow that had none.
LEMMA MailCommitKeeps ==
    ASSUME Inv, NEW c \in Clients, MailCommit(c)
    PROVE  Inv'
<1>1. At(c, "mcommit") /\ Stop(c) /\ UNCHANGED <<users, provs, links, profiles, last, env, ends, entries, released, dark>>
  BY DEF MailCommit
<1>2. PICK x : x = Job(c) OBVIOUS
<1>3. x \in MailStmt /\ x.f \in FlowIds /\ x.e \in Emails
  BY <1>1, <1>2, HeadIs, StmtIs DEF MailStmt
<1>4. faults' \in Nat /\ load' = load
  BY <1>1 DEF Inv, Typed, env
<1>5. CASE Active(x.f) /\ flows[x.f].target = None
  <2>1. flows' = [flows EXCEPT ![x.f].target = x.e] /\ mails' = [mails EXCEPT ![x.f] = @ + 1]
    BY <1>2, <1>5 DEF MailCommit
  <2>2. PICK r : r = [flows[x.f] EXCEPT !.target = x.e] OBVIOUS
  <2>3. flows[x.f] \in Flow /\ flows[x.f] # None /\ x.e # None
    BY <1>3, <1>5, ExternalAuthAssumption DEF Active, Inv, Typed
  <2>4. /\ r \in Flow /\ r.target = x.e /\ r.kind = flows[x.f].kind /\ r.sub = flows[x.f].sub
        /\ r.used = flows[x.f].used
    BY <1>3, <2>2, <2>3 DEF Flow
  <2>5. flows' = [flows EXCEPT ![x.f] = r] BY <2>1, <2>2
  <2>6. PICK f \in FlowIds : f = x.f BY <1>3
  <2>7. /\ flows' \in [FlowIds -> Flow \cup {None}] /\ flows'[f] = r /\ f <= last.flow
        /\ Evolves /\ Ids'
    BY <1>1, <1>5, <2>3, <2>4, <2>5, <2>6, Numbers, RowChanged DEF Inv
  <2>8. ~Mailed(f) /\ Mailed(f)' BY <1>1, <1>5, <2>3, <2>4, <2>6, <2>7 DEF Mailed
  <2>9. Typed'
    <3>1. mails' \in [FlowIds -> Nat] BY <1>3, <2>1 DEF Inv, Typed
    <3> QED BY <1>1, <1>4, <2>7, <3>1, Stops DEF Inv, Typed
  <2>10. SoundJobs' BY <1>1, <2>7, Stops, NoneIsList, JobsStay DEF Inv
  <2>11. FlowInv'
    BY <1>1, <2>1, <2>6, <2>7, <2>8, Stops, EvolvesConsumed, FlowMailed DEF Inv
  <2>12. VisitInv' /\ OrphanInv' /\ BoundProfile'
    BY <1>1, <2>7, VisitStays, OrphanStays, BoundStays DEF Inv, Live
  <2> QED BY <2>7, <2>9, <2>10, <2>11, <2>12 DEF Inv
<1>6. CASE ~(Active(x.f) /\ flows[x.f].target = None)
  <2>1. UNCHANGED <<flows, mails>> BY <1>2, <1>6 DEF MailCommit
  <2> QED BY <1>1, <1>4, <2>1, StopStep DEF db, hist
<1> QED BY <1>5, <1>6

\* The owner of a session's flow and what the session carries.
LEMMA IssueSessionKeeps ==
    ASSUME Inv, NEW c \in Clients, IssueSession(c)
    PROVE  Inv'
<1>1. At(c, "session") /\ Stop(c) /\ UNCHANGED <<db, env, mails, released>>
  BY DEF IssueSession
<1>2. PICK x : x = Job(c) OBVIOUS
<1>3. /\ todo[c] # <<>> /\ x = todo[c][1] /\ x.j = "session" /\ Sound(x)
      /\ x.f \in FlowIds /\ x.p \in Providers /\ x.sub \in Subjects
  BY <1>1, <1>2, HeadIs, StmtIs DEF VisitStmt, ProvenStmt
<1>4. faults' \in Nat /\ load' = load /\ UNCHANGED <<users, provs, links, flows, profiles, last>>
  BY <1>1 DEF Inv, Typed, env, db
<1>5. CASE x.u \in Live
  <2>1. PICK e : e = [user |-> x.u, ns |-> x.p, sub |-> x.sub] OBVIOUS
  <2>2. /\ entries' = entries \cup {e} /\ ends' = [ends EXCEPT ![x.f] = @ + 1]
        /\ dark' = (dark \/ <<c, x.p>> \in barred)
    BY <1>2, <1>5, <2>1 DEF IssueSession
  <2>3. e \in [user : UserIds, ns : Providers, sub : Subjects] /\ e.ns = x.p /\ e.sub = x.sub /\ e.user = x.u
    BY <1>3, <1>5, <2>1 DEF Live
  <2>4. Evolves /\ Ids' BY <1>1, <1>4, Numbers, EvolvesLinked DEF Inv
  <2>5. dark' \in BOOLEAN BY <1>3, <2>2 DEF Inv, Typed
  <2>6. ends' \in [FlowIds -> Nat] /\ entries' \subseteq [user : UserIds, ns : Providers, sub : Subjects]
    BY <1>3, <2>2, <2>3 DEF Inv, Typed
  <2>7. Typed' BY <1>1, <1>4, <2>5, <2>6, Stops DEF Inv, Typed
  <2>8. SoundJobs' BY <1>1, <2>4, Stops, NoneIsList, JobsStay DEF Inv
  <2>9. PICK f \in FlowIds : f = x.f BY <1>3
  <2>10. Owner(c, f) BY <1>3, <2>9 DEF Owner, Owning
  <2>11. FlowInv'
    BY <1>1, <2>2, <2>4, <2>9, <2>10, Stops, EvolvesConsumed, FlowEnded DEF Inv
  <2>12. LedTo(e.ns, e.sub, e.user) BY <1>3, <2>3 DEF Sound
  <2>13. VisitInv' BY <1>1, <1>4, <2>2, <2>12 DEF Inv, VisitInv, LedTo
  <2>14. OrphanInv' /\ BoundProfile'
    BY <1>4 DEF Inv, OrphanInv, Reachable, Live, BoundProfile
  <2> QED BY <2>4, <2>7, <2>8, <2>11, <2>13, <2>14 DEF Inv
<1>6. CASE x.u \notin Live
  <2>1. UNCHANGED <<entries, ends, dark>> BY <1>2, <1>6 DEF IssueSession
  <2> QED BY <1>1, <1>4, <2>1, StopStep DEF hist
<1> QED BY <1>5, <1>6

\* Consumption, account and link at once: the request owns the flow from here on.
LEMMA ConfirmCommitKeeps ==
    ASSUME Inv, NEW c \in Clients, ConfirmCommit(c)
    PROVE  Inv'
<1>1. At(c, "ccommit") /\ UNCHANGED <<provs, profiles, env, hist>>
  BY DEF ConfirmCommit
<1>2. PICK x : x = Job(c) OBVIOUS
<1>3. /\ x \in ConfirmedStmt /\ todo[c] # <<>> /\ List(todo[c]) /\ Head(todo[c]).j = "ccommit"
  BY <1>1, <1>2, HeadIs, StmtIs
<1>4. UNCHANGED <<ends, mails, entries, released, dark>> /\ faults' \in Nat /\ load' = load
  BY <1>1 DEF Inv, Typed, env, hist
<1>5. PICK p, s, e, f : p = x.row.prov /\ s = x.row.sub /\ e = x.row.target /\ f = x.f OBVIOUS
<1>6. /\ p \in Providers /\ s \in Subjects /\ e \in Emails /\ e # None /\ f \in FlowIds
      /\ p # Minecraft
  BY <1>3, <1>5, Numbers, ExternalAuthAssumption DEF ConfirmedStmt, MailRow, Flow, Minecraft, Inv
<1>7. ASSUME Active(f), NEW u \in Resolved(p, s, e),
             IF u \in Live THEN UNCHANGED <<users, last>> ELSE AddUser(Registered(e, TRUE)),
             links' = IF Linked(p, s) = {} THEN links \cup {Link(u, p, p, s)} ELSE links,
             Then(c, <<[j |-> "session", f |-> x.f, p |-> p, sub |-> s, u |-> u]>>),
             Taken(f)
      PROVE  Inv'
  <2>1. PICK y : y = [j |-> "session", f |-> x.f, p |-> p, sub |-> s, u |-> u] OBVIOUS
  <2>2. PICK l, r : l = Link(u, p, p, s) /\ r = Registered(e, TRUE) OBVIOUS
  <2>3. u \in Live \/ u = last.user + 1 BY DEF Resolved, HasEmail
  <2>4. r \in User /\ r.email = e BY <1>6, <2>2 DEF Registered, User
  <2>5. /\ users' \in [UserIds -> User \cup {None}] /\ u \in UserIds
        /\ last' \in [user : 0..MaxUser, flow : 0..MaxFlow, prov : 0..MaxProv]
        /\ last' \in [user : Nat, flow : Nat, prov : Nat] /\ last'.flow = last.flow /\ last'.prov = last.prov
        /\ \A v \in UserIds : users'[v] = users[v] \/ users'[v] = r
    <3>1. CASE u \in Live BY <1>7, <3>1, Numbers DEF Inv, Typed, Live
    <3>2. CASE u \notin Live
      <4>1. AddUser(r) /\ u = last.user + 1 BY <1>7, <2>2, <2>3, <3>2
      <4> QED BY <2>4, <4>1, UserAdded DEF Inv
    <3> QED BY <3>1, <3>2
  <2>6. l \in Identity /\ l.ns = p /\ l.sub = s /\ l.user = u
    BY <1>6, <2>2, <2>5 DEF Link, Identity
  <2>7. /\ links' = links \cup {l} \/ (links' = links /\ \E i \in links : i.ns = l.ns /\ i.sub = l.sub /\ i.user = l.user)
        /\ \A i \in links : i.ns = l.ns /\ i.sub = l.sub => i.user = l.user
    <3>1. CASE Linked(p, s) = {} BY <1>7, <2>2, <2>6, <3>1 DEF Linked
    <3>2. CASE Linked(p, s) # {}
      <4>1. PICK i \in Linked(p, s) : i.user = u BY <3>2 DEF Resolved
      <4>2. i \in links /\ i.ns = p /\ i.sub = s BY <4>1 DEF Linked
      <4>3. links' = links BY <1>7, <3>2
      <4> QED BY <2>6, <4>1, <4>2, <4>3 DEF Inv, VisitInv
    <3> QED BY <3>1, <3>2
  <2>8. links \subseteq links' /\ flows' = [flows EXCEPT ![f].used = TRUE]
    BY <1>7, <2>7 DEF Taken
  <2>9. /\ flows' \in [FlowIds -> Flow \cup {None}] /\ ~Consumed(f) /\ Consumed(f)'
        /\ Evolves /\ Ids'
    BY <1>1, <1>4, <1>6, <1>7, <2>5, <2>8, FlowUsed DEF Inv
  <2>10. links' \subseteq Identity /\ VisitInv' /\ BoundProfile' /\ LedTo(l.ns, l.sub, l.user)'
    BY <1>1, <1>4, <1>6, <2>6, <2>7, <2>9, LinkMade DEF Inv
  <2>11. y \in Stmt /\ y.j = "session" /\ y.f = f /\ y.p = p /\ y.sub = s /\ y.u = u
    BY <1>5, <1>6, <2>1, <2>5 DEF Stmt, ProvenStmt
  <2>12. List(<<y>>) /\ <<y>>[1] = y /\ <<y>> # <<>> BY <2>11, OneIsList
  <2>13. Sets(c, <<y>>) BY <1>3, <1>7, <2>1, <2>12, ThenAlone
  <2>14. Sound(y)' BY <2>6, <2>10, <2>11 DEF Sound
  <2>15. Typed' BY <1>1, <1>4, <2>5, <2>9, <2>10, <2>12, <2>13, SetsTodo DEF Inv, Typed
  <2>16. SoundJobs' BY <2>9, <2>12, <2>13, <2>14, JobsStay DEF Inv
  <2>17. FlowInv'
    BY <1>4, <1>6, <2>9, <2>11, <2>12, <2>13, TakesOver, EvolvesConsumed, FlowTaken DEF Inv
  <2>18. \A v \in Live' : users'[v].email = None => v \in Live /\ users[v].email = None
    BY <1>6, <2>4, <2>5 DEF Live
  <2>19. OrphanInv' BY <2>8, <2>9, <2>18, OrphanStays DEF Inv
  <2> QED BY <2>9, <2>10, <2>15, <2>16, <2>17, <2>19 DEF Inv
<1>8. ASSUME Stop(c), UNCHANGED <<users, last, links, flows>>
      PROVE  Inv'
  BY <1>1, <1>4, <1>8, StopStep DEF db
<1> QED BY <1>2, <1>5, <1>7, <1>8 DEF ConfirmCommit

\* The same by password.
LEMMA PasswordCommitKeeps ==
    ASSUME Inv, NEW c \in Clients, PasswordCommit(c)
    PROVE  Inv'
<1>1. At(c, "pcommit") /\ UNCHANGED <<users, provs, profiles, last, env, hist>>
  BY DEF PasswordCommit
<1>2. PICK x : x = Job(c) OBVIOUS
<1>3. /\ x \in ProvenStmt /\ todo[c] # <<>> /\ List(todo[c]) /\ Head(todo[c]).j = "pcommit"
      /\ x.f \in FlowIds /\ x.p \in Providers /\ x.sub \in Subjects /\ x.u \in UserIds
  BY <1>1, <1>2, HeadIs, StmtIs DEF ProvenStmt
<1>4. UNCHANGED <<ends, mails, entries, released, dark>> /\ faults' \in Nat /\ load' = load
  BY <1>1 DEF Inv, Typed, env, hist
<1>5. CASE Active(x.f) /\ x.u \in Live /\ provs[x.p] # None /\ LinkTo(x.u, x.p, x.sub)
  <2>1. PICK l : l = Link(x.u, x.p, x.p, x.sub) OBVIOUS
  <2>2. PICK y : y = [x EXCEPT !.j = "session"] OBVIOUS
  <2>3. links' = links \cup {l} /\ Then(c, <<y>>) /\ flows' = [flows EXCEPT ![x.f].used = TRUE]
    BY <1>2, <1>5, <2>1, <2>2 DEF PasswordCommit, Taken
  <2>4. x.p # Minecraft BY <1>3, Numbers DEF Minecraft, Inv
  <2>5. l \in Identity /\ l.ns = x.p /\ l.sub = x.sub /\ l.user = x.u
    BY <1>3, <2>1 DEF Link, Identity
  <2>6. \A i \in links : i.ns = l.ns /\ i.sub = l.sub => i.user = l.user
    BY <1>5, <2>5 DEF LinkTo, Linkable, Linked, Inv, VisitInv
  <2>7. PICK f \in FlowIds : f = x.f BY <1>3
  <2>8. /\ flows' \in [FlowIds -> Flow \cup {None}] /\ ~Consumed(f) /\ Consumed(f)'
        /\ Evolves /\ Ids'
    BY <1>1, <1>4, <1>5, <2>3, <2>7, Numbers, FlowUsed DEF Inv
  <2>9. links' \subseteq Identity /\ VisitInv' /\ BoundProfile' /\ LedTo(l.ns, l.sub, l.user)'
    BY <1>1, <1>4, <2>3, <2>4, <2>5, <2>6, <2>8, LinkMade DEF Inv
  <2>10. y \in ProvenStmt /\ y.j = "session" /\ y.f = f /\ y.p = x.p /\ y.sub = x.sub /\ y.u = x.u
    BY <1>3, <2>2, <2>7 DEF ProvenStmt
  <2>11. y \in Stmt BY <2>10 DEF Stmt
  <2>12. List(<<y>>) /\ <<y>>[1] = y /\ <<y>> # <<>> BY <2>11, OneIsList
  <2>13. Sets(c, <<y>>) BY <1>3, <2>3, <2>12, ThenAlone
  <2>14. Sound(y)' BY <2>5, <2>9, <2>10 DEF Sound
  <2>15. Typed' BY <1>1, <1>4, <2>8, <2>9, <2>12, <2>13, SetsTodo DEF Inv, Typed
  <2>16. SoundJobs' BY <2>8, <2>12, <2>13, <2>14, JobsStay DEF Inv
  <2>17. FlowInv'
    BY <1>4, <2>7, <2>8, <2>10, <2>12, <2>13, TakesOver, EvolvesConsumed, FlowTaken DEF Inv
  <2>18. OrphanInv' BY <1>1, <2>3, <2>8, OrphanStays DEF Inv, Live
  <2> QED BY <2>8, <2>9, <2>15, <2>16, <2>17, <2>18 DEF Inv
<1>6. CASE ~(Active(x.f) /\ x.u \in Live /\ provs[x.p] # None /\ LinkTo(x.u, x.p, x.sub))
  <2>1. Stop(c) /\ UNCHANGED <<links, flows>> BY <1>2, <1>6 DEF PasswordCommit
  <2> QED BY <1>1, <1>4, <2>1, StopStep DEF db
<1> QED BY <1>5, <1>6

\* Link and profile of a Minecraft account are made at once; this ends the flow.
LEMMA ApplyBindingKeeps ==
    ASSUME Inv, NEW c \in Clients, ApplyBinding(c)
    PROVE  Inv'
<1>1. At(c, "apply") /\ Stop(c) /\ UNCHANGED <<users, provs, flows, last, env, mails, entries, released, dark>>
  BY DEF ApplyBinding
<1>2. PICK x : x = Job(c) OBVIOUS
<1>3. /\ x \in ApplyStmt /\ todo[c] # <<>> /\ x = todo[c][1] /\ x.j = "apply"
      /\ x.f \in FlowIds /\ x.p \in Providers /\ x.s \in Subjects /\ x.u \in UserIds
  BY <1>1, <1>2, HeadIs, StmtIs DEF ApplyStmt
<1>4. faults' \in Nat /\ load' = load
  BY <1>1 DEF Inv, Typed, env
<1>5. CASE x.u \in Live /\ provs[x.p] # None /\ BindIdentity(x.u, x.p, x.s) /\ BindProfile(x.u, x.s)
  <2>1. PICK l : l = Link(x.u, x.p, Minecraft, x.s) OBVIOUS
  <2>2. /\ links' = IF Linked(Minecraft, x.s) = {} THEN links \cup {l} ELSE links
        /\ profiles' = [profiles EXCEPT ![x.s] = IF @ = None THEN x.u ELSE @]
        /\ ends' = [ends EXCEPT ![x.f] = @ + 1]
    BY <1>2, <1>5, <2>1 DEF ApplyBinding
  <2>3. l \in Identity /\ l.ns = Minecraft /\ l.sub = x.s /\ l.user = x.u
    BY <1>3, <2>1 DEF Link, Identity
  <2>4. links \subseteq links' BY <2>2
  <2>5. Evolves /\ Ids' BY <1>1, <2>4, Numbers, EvolvesLinked DEF Inv
  <2>6. VisitInv' /\ links' \subseteq Identity
    <3>1. CASE Linked(Minecraft, x.s) = {}
      <4>1. \A i \in links : ~(i.ns = l.ns /\ i.sub = l.sub) BY <2>3, <3>1 DEF Linked
      <4>2. links' = links \cup {l} BY <2>2, <3>1
      <4> QED BY <1>1, <2>3, <2>5, <4>1, <4>2, VisitLinked DEF Inv, Typed
    <3>2. CASE Linked(Minecraft, x.s) # {}
      <4>1. links' = links BY <2>2, <3>2
      <4> QED BY <1>1, <2>5, <4>1, VisitStays DEF Inv, Typed
    <3> QED BY <3>1, <3>2
  <2>7. /\ profiles' \in [Subjects -> UserIds \cup {None}] /\ profiles'[x.s] = x.u
        /\ \A s \in Subjects : s # x.s => profiles'[s] = profiles[s]
    BY <1>3, <1>5, <2>2 DEF Inv, Typed, BindProfile
  <2>8. BoundProfile'
    <3> SUFFICES ASSUME NEW i \in links', i.ns = Minecraft PROVE profiles'[i.sub] = i.user
      BY DEF BoundProfile
    <3>1. CASE i \in links
      <4>1. profiles[i.sub] = i.user /\ i.user \in UserIds /\ i.sub \in Subjects /\ i.user # None
        BY <3>1, Numbers, ExternalAuthAssumption DEF Inv, BoundProfile, Typed, Identity
      <4>2. i.sub = x.s => i.user = x.u BY <1>5, <4>1 DEF BindProfile
      <4> QED BY <2>7, <4>1, <4>2
    <3>2. CASE i \notin links BY <2>2, <2>3, <2>7, <3>2
    <3> QED BY <3>1, <3>2
  <2>9. ends' \in [FlowIds -> Nat] BY <1>3, <2>2 DEF Inv, Typed
  <2>10. Typed' BY <1>1, <1>4, <2>6, <2>7, <2>9, Stops DEF Inv, Typed
  <2>11. SoundJobs' BY <1>1, <2>5, Stops, NoneIsList, JobsStay DEF Inv
  <2>12. PICK f \in FlowIds : f = x.f BY <1>3
  <2>13. Owner(c, f) BY <1>3, <2>12 DEF Owner, Owning
  <2>14. FlowInv'
    BY <1>1, <2>2, <2>5, <2>12, <2>13, Stops, EvolvesConsumed, FlowEnded DEF Inv
  <2>15. OrphanInv' BY <1>1, <2>4, <2>5, OrphanStays DEF Inv, Live
  <2> QED BY <2>5, <2>6, <2>8, <2>10, <2>11, <2>14, <2>15 DEF Inv
<1>6. CASE ~(x.u \in Live /\ provs[x.p] # None /\ BindIdentity(x.u, x.p, x.s) /\ BindProfile(x.u, x.s))
  <2>1. UNCHANGED <<links, profiles, ends>> BY <1>2, <1>6 DEF ApplyBinding
  <2> QED BY <1>1, <1>4, <2>1, StopStep DEF db, hist
<1> QED BY <1>5, <1>6

\* Links that go are noted.
LEMMA Freed ==
    ASSUME NEW is, Free(is)
    PROVE  /\ links' \subseteq links /\ released \subseteq released'
           /\ \A i \in links : i \in links' \/ (i \in is /\ <<i.ns, i.sub>> \in released')
  BY DEF Free

\* A link is given up.
LEMMA UnlinkKeeps ==
    ASSUME Inv, NEW c \in Clients, Unlink(c)
    PROVE  Inv'
<1>1. At(c, "unlink") /\ Stop(c) /\ UNCHANGED <<users, provs, flows, profiles, last, env, ends, mails, entries, dark>>
  BY DEF Unlink
<1>2. PICK x : x = Job(c) OBVIOUS
<1>3. x \in LinkStmt /\ x.j = "unlink" /\ Sound(x)
  BY <1>1, <1>2, HeadIs, StmtIs
<1>4. Free({x.i} \cap links)
  BY <1>2 DEF Unlink
<1>5. /\ links' \subseteq links /\ released \subseteq released'
      /\ \A i \in links : i \in links' \/ (i = x.i /\ <<i.ns, i.sub>> \in released')
  BY <1>4, Freed
<1>6. faults' \in Nat /\ load' = load
  BY <1>1 DEF Inv, Typed, env
<1>7. Evolves
  BY <1>1, <1>5, Numbers DEF Evolves, GoesOn, Inv
<1>8. Typed' /\ Ids'
  BY <1>1, <1>5, <1>6, Stops DEF Inv, Typed, Ids
<1>9. SoundJobs'
  BY <1>1, <1>7, Stops, NoneIsList, JobsStay DEF Inv
<1>10. FlowInv'
  BY <1>1, <1>7, Stops, EvolvesConsumed, FlowCarry DEF Inv
<1>11. provs[x.i.prov] = None \/ provs[x.i.prov].kind # "linuxdo"
  BY <1>3 DEF Sound, OfKind
<1>12. OrphanInv'
  BY <1>1, <1>5, <1>7, <1>11, OrphanStays DEF Inv, Live
<1>13. VisitInv' /\ BoundProfile'
  BY <1>1, <1>5, <1>7, VisitStays, BoundStays DEF Inv
<1> QED BY <1>8, <1>9, <1>10, <1>12, <1>13 DEF Inv

\* A provider is created under a fresh id.
LEMMA InsertProviderKeeps ==
    ASSUME Inv, NEW c \in Clients, InsertProvider(c)
    PROVE  Inv'
<1>1. At(c, "pcreate") /\ Stop(c) /\ UNCHANGED <<users, links, flows, profiles, env, hist>>
  BY DEF InsertProvider
<1>2. PICK r : r = Job(c).r OBVIOUS
<1>3. r \in Provider
  BY <1>1, <1>2, HeadIs, StmtIs DEF NewStmt
<1>4. UNCHANGED <<ends, mails, entries, released, dark>> /\ faults' \in Nat /\ load' = load
  BY <1>1 DEF Inv, Typed, env, hist
<1>5. CASE UNCHANGED <<provs, last>>
  BY <1>1, <1>4, <1>5, StopStep DEF db
<1>6. CASE ~UNCHANGED <<provs, last>>
  <2>1. PICK n : n = last.prov + 1 OBVIOUS
  <2>2. last.prov < MaxProv /\ provs' = [provs EXCEPT ![n] = r] /\ last' = [last EXCEPT !.prov = n]
    BY <1>2, <1>6, <2>1 DEF InsertProvider
  <2>3. n \in Providers /\ n \in 0..MaxProv /\ n \in Nat /\ ~(n <= last.prov) /\ last.prov <= n
    BY <2>1, <2>2, Numbers DEF Inv
  <2>4. last \in [user : 0..MaxUser, flow : 0..MaxFlow, prov : 0..MaxProv] /\ last \in [user : Nat, flow : Nat, prov : Nat]
    BY Numbers DEF Inv, Typed
  <2>5. /\ last' \in [user : 0..MaxUser, flow : 0..MaxFlow, prov : 0..MaxProv]
        /\ last' \in [user : Nat, flow : Nat, prov : Nat] /\ last'.flow = last.flow /\ last'.prov = n
    BY <2>2, <2>3, <2>4
  <2>6. /\ provs' \in [Providers -> Provider \cup {None}]
        /\ \A p \in Providers : p # n => provs'[p] = provs[p]
    BY <1>3, <2>2 DEF Inv, Typed
  <2>7. \A p \in Providers : p <= last.prov => provs'[p] = provs[p] /\ p <= n
    BY <2>3, <2>6, Numbers DEF Inv
  <2>8. Evolves BY <1>1, <1>4, <2>3, <2>5, <2>7, Numbers DEF Evolves, GoesOn, Inv
  <2>9. Ids'
    <3>1. n <= last'.prov BY <2>3, <2>5
    <3>2. \A p \in Providers : provs'[p] # None => p <= last'.prov
      BY <2>5, <2>6, <2>7, <3>1 DEF Inv, Ids
    <3> QED BY <1>1, <2>5, <3>2 DEF Inv, Ids
  <2>10. Typed' BY <1>1, <1>4, <2>5, <2>6, Stops DEF Inv, Typed
  <2>11. SoundJobs' BY <1>1, <2>8, Stops, NoneIsList, JobsStay DEF Inv
  <2>12. FlowInv' BY <1>1, <1>4, <2>8, Stops, EvolvesConsumed, FlowCarry DEF Inv
  <2>13. OrphanInv' /\ VisitInv' /\ BoundProfile'
    BY <1>1, <1>4, <2>8, OrphanStays, VisitStays, BoundStays DEF Inv, Live
  <2> QED BY <2>9, <2>10, <2>11, <2>12, <2>13 DEF Inv
<1> QED BY <1>5, <1>6

\* A provider is edited; its kind stays.
LEMMA StoreProviderKeeps ==
    ASSUME Inv, NEW c \in Clients, StoreProvider(c)
    PROVE  Inv'
<1>1. At(c, "pupdate") /\ Stop(c) /\ UNCHANGED <<users, links, flows, profiles, last, load, faults, hist>>
  BY DEF StoreProvider
<1>2. PICK x : x = Job(c) OBVIOUS
<1>3. x.p \in Providers /\ x.r \in Provider
  BY <1>1, <1>2, HeadIs, StmtIs DEF EditStmt
<1>4. UNCHANGED <<ends, mails, entries, released, dark>> /\ faults' \in Nat /\ load' = load
  BY <1>1 DEF Inv, Typed, env, hist
<1>5. CASE provs[x.p] = None
  <2>1. provs' = provs BY <1>2, <1>5 DEF StoreProvider
  <2> QED BY <1>1, <1>4, <2>1, StopStep DEF db
<1>6. CASE provs[x.p] # None
  <2>1. PICK r : r = [x.r EXCEPT !.kind = provs[x.p].kind, !.public = provs[x.p].public] OBVIOUS
  <2>2. provs' = [provs EXCEPT ![x.p] = r] BY <1>2, <1>6, <2>1 DEF StoreProvider
  <2>3. provs[x.p] \in Provider BY <1>3, <1>6 DEF Inv, Typed
  <2>4. r \in Provider /\ r.kind = provs[x.p].kind BY <1>3, <2>1, <2>3 DEF Provider
  <2>5. /\ provs' \in [Providers -> Provider \cup {None}] /\ provs'[x.p] = r
        /\ \A p \in Providers : p # x.p => provs'[p] = provs[p]
    BY <1>3, <2>2, <2>4 DEF Inv, Typed
  <2>6. Evolves BY <1>1, <1>4, <1>6, <2>4, <2>5, Numbers DEF Evolves, GoesOn, Inv
  <2>7. Ids' BY <1>1, <1>6, <2>5 DEF Inv, Ids
  <2>10. Typed' BY <1>1, <1>4, <2>5, Stops DEF Inv, Typed
  <2>11. SoundJobs' BY <1>1, <2>6, Stops, NoneIsList, JobsStay DEF Inv
  <2>12. FlowInv' BY <1>1, <1>4, <2>6, Stops, EvolvesConsumed, FlowCarry DEF Inv
  <2>13. OrphanInv' /\ VisitInv' /\ BoundProfile'
    BY <1>1, <1>4, <2>6, OrphanStays, VisitStays, BoundStays DEF Inv, Live
  <2> QED BY <2>7, <2>10, <2>11, <2>12, <2>13 DEF Inv
<1> QED BY <1>5, <1>6

\* Flows go, others stay as they are.
LEMMA FlowsGo ==
    ASSUME Typed, Ids, NEW G, flows' = [f \in FlowIds |-> IF f \in G THEN None ELSE flows[f]],
           last' = last
    PROVE  /\ flows' \in [FlowIds -> Flow \cup {None}]
           /\ \A f \in FlowIds : flows'[f] = None \/ flows'[f] = flows[f]
           /\ \A f \in FlowIds : flows'[f] = None \/ (flows[f] # None /\ GoesOn(f))
           /\ \A f \in FlowIds : flows'[f] # None => f <= last'.flow /\ (flows'[f].kind = "mail" => flows'[f].sub \in Subjects)
<1>1. \A f \in FlowIds : flows'[f] = None \/ flows'[f] = flows[f] OBVIOUS
<1>2. flows' \in [FlowIds -> Flow \cup {None}]
  BY DEF Typed
<1>3. \A f \in FlowIds : flows'[f] = None \/ (flows[f] # None /\ GoesOn(f))
  BY <1>1 DEF GoesOn
<1> QED BY <1>1, <1>2, <1>3 DEF Ids

\* A provider goes, with its links and flows.
LEMMA RemoveProviderKeeps ==
    ASSUME Inv, NEW c \in Clients, RemoveProvider(c)
    PROVE  Inv'
<1>1. At(c, "pdelete") /\ Stop(c) /\ UNCHANGED <<users, profiles, last, env, ends, mails, entries, dark>>
  BY DEF RemoveProvider
<1>2. PICK p : p = Job(c).p OBVIOUS
<1>3. p \in Providers
  BY <1>1, <1>2, HeadIs, StmtIs DEF DropStmt
<1>4. faults' \in Nat /\ load' = load
  BY <1>1 DEF Inv, Typed, env
<1>5. PICK G, is : G = {f \in FlowIds : flows[f] # None /\ flows[f].prov = p} /\ is = {i \in links : i.prov = p}
  OBVIOUS
<1>6. /\ provs' = [provs EXCEPT ![p] = None] /\ Free(is)
      /\ flows' = [f \in FlowIds |-> IF f \in G THEN None ELSE flows[f]]
  BY <1>2, <1>5 DEF RemoveProvider
<1>7. /\ flows' \in [FlowIds -> Flow \cup {None}]
      /\ \A f \in FlowIds : flows'[f] = None \/ (flows[f] # None /\ GoesOn(f))
      /\ \A f \in FlowIds : flows'[f] # None => f <= last'.flow /\ (flows'[f].kind = "mail" => flows'[f].sub \in Subjects)
  BY <1>1, <1>6, FlowsGo DEF Inv
<1>8. /\ provs' \in [Providers -> Provider \cup {None}] /\ provs'[p] = None
      /\ \A q \in Providers : q # p => provs'[q] = provs[q]
  BY <1>3, <1>6 DEF Inv, Typed
<1>9. /\ links' \subseteq links /\ released \subseteq released'
      /\ \A i \in links : i \in links' \/ (i \in is /\ <<i.ns, i.sub>> \in released')
  BY <1>6, Freed
<1>10. Evolves
  BY <1>1, <1>7, <1>8, <1>9, Numbers DEF Evolves, Inv
<1>11. Ids'
  BY <1>1, <1>7, <1>8 DEF Inv, Ids
<1>12. Typed'
  BY <1>1, <1>4, <1>7, <1>8, <1>9, Stops DEF Inv, Typed
<1>13. SoundJobs'
  BY <1>1, <1>10, Stops, NoneIsList, JobsStay DEF Inv
<1>14. FlowInv'
  BY <1>1, <1>10, Stops, EvolvesConsumed, FlowCarry DEF Inv
<1>15. OrphanInv'
  BY <1>1, <1>5, <1>8, <1>9, <1>10, OrphanStays DEF Inv, Live
<1>16. VisitInv' /\ BoundProfile'
  BY <1>1, <1>9, <1>10, VisitStays, BoundStays DEF Inv
<1> QED BY <1>11, <1>12, <1>13, <1>14, <1>15, <1>16 DEF Inv

\* No list changes, so nobody becomes an owner.
LEMMA OwnersSame == ASSUME todo' = todo PROVE OwnersKept
  BY DEF OwnersKept, Owner

\* An account is disabled.
LEMMA DisableUserKeeps ==
    ASSUME Inv, NEW c \in Clients, DisableUser(c)
    PROVE  Inv'
<1>1. PICK u \in Live : users' = [users EXCEPT ![u].active = FALSE]
  BY DEF DisableUser
<1>2. UNCHANGED <<provs, links, flows, profiles, last, todo, ends, mails, entries, released, dark, load, faults>>
  BY DEF DisableUser, env, hist
<1>3. u \in UserIds /\ users[u] \in User
  BY DEF Live, Inv, Typed
<1>4. PICK r : r = [users[u] EXCEPT !.active = FALSE] OBVIOUS
<1>5. r \in User /\ r.email = users[u].email
  BY <1>3, <1>4 DEF User
<1>6. /\ users' \in [UserIds -> User \cup {None}] /\ users'[u] = r
      /\ \A v \in UserIds : v # u => users'[v] = users[v]
  BY <1>1, <1>3, <1>4, <1>5 DEF Inv, Typed
<1>7. Evolves /\ Ids'
  BY <1>2, Numbers, EvolvesLinked DEF Inv
<1>8. Typed'
  BY <1>2, <1>6 DEF Inv, Typed
<1>9. SoundJobs'
  BY <1>2, <1>7, JobsStayAll DEF Inv
<1>10. FlowInv'
  BY <1>2, <1>7, OwnersSame, EvolvesConsumed, FlowCarry DEF Inv
<1>11. \A v \in Live' : users'[v].email = None => v \in Live /\ users[v].email = None
  BY <1>5, <1>6 DEF Live
<1>12. OrphanInv'
  BY <1>2, <1>7, <1>11, OrphanStays DEF Inv
<1>13. VisitInv' /\ BoundProfile'
  BY <1>2, <1>7, VisitStays, BoundStays DEF Inv
<1> QED BY <1>7, <1>8, <1>9, <1>10, <1>12, <1>13 DEF Inv

\* An account goes, with its links, flows and profiles.
LEMMA DeleteUserKeeps ==
    ASSUME Inv, NEW c \in Clients, DeleteUser(c)
    PROVE  Inv'
<1>1. PICK u \in Live :
         /\ users' = [users EXCEPT ![u] = None] /\ Free({i \in links : i.user = u})
         /\ flows' = [f \in FlowIds |-> IF flows[f] # None /\ flows[f].user = u THEN None ELSE flows[f]]
         /\ profiles' = [s \in Subjects |-> IF profiles[s] = u THEN None ELSE profiles[s]]
  BY DEF DeleteUser
<1>2. UNCHANGED <<provs, last, todo, load, faults, ends, mails, entries, dark>>
  BY DEF DeleteUser, env
<1>3. u \in UserIds
  BY DEF Live
<1>4. PICK G, is : G = {f \in FlowIds : flows[f] # None /\ flows[f].user = u} /\ is = {i \in links : i.user = u}
  OBVIOUS
<1>5. flows' = [f \in FlowIds |-> IF f \in G THEN None ELSE flows[f]] /\ Free(is)
  BY <1>1, <1>4
<1>6. /\ flows' \in [FlowIds -> Flow \cup {None}]
      /\ \A f \in FlowIds : flows'[f] = None \/ (flows[f] # None /\ GoesOn(f))
      /\ \A f \in FlowIds : flows'[f] # None => f <= last'.flow /\ (flows'[f].kind = "mail" => flows'[f].sub \in Subjects)
  BY <1>2, <1>5, FlowsGo DEF Inv
<1>7. /\ links' \subseteq links /\ released \subseteq released'
      /\ \A i \in links : i \in links' \/ (i \in is /\ <<i.ns, i.sub>> \in released')
  BY <1>5, Freed
<1>8. \A i \in links' : i.user # u
  BY <1>1 DEF Free
<1>9. /\ users' \in [UserIds -> User \cup {None}] /\ users'[u] = None
      /\ \A v \in UserIds : v # u => users'[v] = users[v]
  BY <1>1, <1>3 DEF Inv, Typed
<1>10. /\ profiles' \in [Subjects -> UserIds \cup {None}]
       /\ \A s \in Subjects : profiles[s] # u => profiles'[s] = profiles[s]
  BY <1>1 DEF Inv, Typed
<1>11. Evolves
  BY <1>2, <1>6, <1>7, Numbers DEF Evolves, Inv
<1>12. Ids'
  BY <1>2, <1>6 DEF Inv, Ids
<1>13. Typed'
  BY <1>2, <1>6, <1>7, <1>9, <1>10 DEF Inv, Typed
<1>14. SoundJobs'
  BY <1>2, <1>11, JobsStayAll DEF Inv
<1>15. FlowInv'
  BY <1>2, <1>11, OwnersSame, EvolvesConsumed, FlowCarry DEF Inv
<1>16. \A v \in Live' : v \in Live /\ v # u /\ users'[v] = users[v]
  BY <1>9 DEF Live
<1>17. OrphanInv'
  BY <1>4, <1>7, <1>11, <1>16, OrphanStays DEF Inv
<1>18. VisitInv'
  BY <1>2, <1>7, <1>11, VisitStays DEF Inv
<1>19. BoundProfile'
  <2> SUFFICES ASSUME NEW i \in links', i.ns = Minecraft PROVE profiles'[i.sub] = i.user
    BY DEF BoundProfile
  <2>1. i \in links /\ i.user # u /\ i.sub \in Subjects /\ profiles[i.sub] = i.user
    BY <1>7, <1>8 DEF Inv, BoundProfile, Typed, Identity
  <2> QED BY <1>10, <2>1
<1> QED BY <1>12, <1>13, <1>14, <1>15, <1>17, <1>18, <1>19 DEF Inv

\* Only flows change, and they go on.
LEMMA FlowsOnly ==
    ASSUME Inv, UNCHANGED <<users, provs, links, profiles, last, todo, env, hist>>,
           flows' \in [FlowIds -> Flow \cup {None}], Evolves,
           \A f \in FlowIds : flows'[f] # None => f <= last'.flow /\ (flows'[f].kind = "mail" => flows'[f].sub \in Subjects)
    PROVE  Inv'
<1>1. UNCHANGED <<ends, mails, entries, released, dark, load, faults>>
  BY DEF env, hist
<1>2. Typed' /\ Ids'
  BY <1>1 DEF Inv, Typed, Ids
<1>3. SoundJobs'
  BY JobsStayAll DEF Inv
<1>4. FlowInv'
  BY <1>1, OwnersSame, EvolvesConsumed, FlowCarry DEF Inv
<1>5. OrphanInv' /\ VisitInv' /\ BoundProfile'
  BY <1>1, OrphanStays, VisitStays, BoundStays DEF Inv, Live
<1> QED BY <1>2, <1>3, <1>4, <1>5 DEF Inv

\* A flow expires.
LEMMA ExpireKeeps ==
    ASSUME Inv, NEW f \in FlowIds, Expire(f)
    PROVE  Inv'
<1>1. /\ flows[f] # None /\ flows' = [flows EXCEPT ![f].over = TRUE]
      /\ UNCHANGED <<users, provs, links, profiles, last, todo, env, hist>>
  BY DEF Expire
<1>2. PICK r : r = [flows[f] EXCEPT !.over = TRUE] OBVIOUS
<1>3. flows[f] \in Flow
  BY <1>1 DEF Inv, Typed
<1>4. /\ r \in Flow /\ r.kind = flows[f].kind /\ r.sub = flows[f].sub /\ r.used = flows[f].used
      /\ r.target = flows[f].target
  BY <1>2, <1>3 DEF Flow
<1>5. flows' = [flows EXCEPT ![f] = r]
  BY <1>1, <1>2
<1>6. released' = released
  BY <1>1 DEF hist
<1>7. flows' \in [FlowIds -> Flow \cup {None}] /\ Evolves /\ Ids'
  BY <1>1, <1>4, <1>5, <1>6, Numbers, RowChanged DEF Inv
<1> QED BY <1>1, <1>7, FlowsOnly DEF Ids

\* Expired flows go.
LEMMA CleanupKeeps ==
    ASSUME Inv, CleanupExpiredFlows
    PROVE  Inv'
<1>1. UNCHANGED <<users, provs, links, profiles, last, todo, env, hist>>
  BY DEF CleanupExpiredFlows
<1>2. PICK G : G = {f \in FlowIds : flows[f] # None /\ flows[f].over} OBVIOUS
<1>3. flows' = [f \in FlowIds |-> IF f \in G THEN None ELSE flows[f]]
  BY <1>2 DEF CleanupExpiredFlows
<1>4. /\ flows' \in [FlowIds -> Flow \cup {None}]
      /\ \A f \in FlowIds : flows'[f] = None \/ (flows[f] # None /\ GoesOn(f))
      /\ \A f \in FlowIds : flows'[f] # None => f <= last'.flow /\ (flows'[f].kind = "mail" => flows'[f].sub \in Subjects)
  BY <1>1, <1>3, FlowsGo DEF Inv
<1>5. Evolves
  BY <1>1, <1>4, Numbers DEF Evolves, Inv, hist
<1> QED BY <1>1, <1>4, <1>5, FlowsOnly

-----------------------------------------------------------------------------
(* The invariant holds                                                     *)

\* Nothing changes.
LEMMA StutterKeeps ==
    ASSUME Inv, UNCHANGED vars
    PROVE  Inv'
<1>1. UNCHANGED <<users, provs, links, flows, profiles, last, todo, load, faults, ends, mails, entries, released, dark>>
  BY DEF vars
<1>2. Typed' /\ Ids'
  BY <1>1 DEF Inv, Typed, Ids
<1>3. SoundJobs'
  BY <1>1 DEF Inv, SoundJobs, Sound, OfMail, OfKind, LedTo
<1>4. FlowInv'
  BY <1>1 DEF Inv, FlowInv, Owner, Consumed, Mailed
<1>5. VisitInv' /\ OrphanInv' /\ BoundProfile'
  BY <1>1 DEF Inv, VisitInv, LedTo, OrphanInv, Live, Reachable, BoundProfile
<1> QED BY <1>2, <1>3, <1>4, <1>5 DEF Inv

\* The first state: a workload's users, providers and links, no flow and no request.
LEMMA InitKeeps ==
    ASSUME Init
    PROVE  Inv
<1>1. load \in Workloads
  BY DEF Init
<1>2. /\ load.users \in Seq(User) /\ load.provs \in Seq(Provider) /\ load.links \subseteq Identity /\ load.faults \in Nat
      /\ Len(load.users) <= MaxUser /\ Len(load.provs) <= MaxProv
      /\ \A i \in load.links : i.user \in DOMAIN load.users /\ i.prov \in DOMAIN load.provs /\ i.ns # Minecraft
      /\ \A i, k \in load.links : i.ns = k.ns /\ i.sub = k.sub => i = k
      /\ \A u \in DOMAIN load.users : load.users[u].email = None =>
            \E i \in load.links : i.user = u /\ load.provs[i.prov].kind = "linuxdo"
  BY <1>1, ExternalAuthAssumption
<1>3. PICK U, P : U = load.users /\ P = load.provs OBVIOUS
<1>4. /\ U \in Seq(User) /\ DOMAIN U = 1..Len(U) /\ Len(U) \in Nat /\ \A u \in DOMAIN U : U[u] \in User
      /\ P \in Seq(Provider) /\ DOMAIN P = 1..Len(P) /\ Len(P) \in Nat /\ \A p \in DOMAIN P : P[p] \in Provider
  BY <1>2, <1>3, ElementOfSeq, LenProperties
<1>5. MaxUser \in Nat /\ MaxProv \in Nat /\ MaxFlow \in Nat
  BY ExternalAuthAssumption
<1>6. DOMAIN U \subseteq UserIds /\ DOMAIN P \subseteq Providers
  BY <1>2, <1>3, <1>4, <1>5 DEF UserIds, Providers
<1>7. /\ users = [u \in UserIds |-> IF u \in DOMAIN U THEN U[u] ELSE None]
      /\ provs = [p \in Providers |-> IF p \in DOMAIN P THEN P[p] ELSE None]
      /\ links = load.links /\ flows = [f \in FlowIds |-> None] /\ profiles = [s \in Subjects |-> None]
      /\ last = [user |-> Len(U), flow |-> 0, prov |-> Len(P)] /\ todo = [c \in Clients |-> <<>>] /\ faults = load.faults
      /\ ends = [f \in FlowIds |-> 0] /\ mails = [f \in FlowIds |-> 0] /\ entries = {} /\ released = {} /\ dark = FALSE
  BY <1>3 DEF Init
<1>8. Typed
  <2>1. last \in [user : 0..MaxUser, flow : 0..MaxFlow, prov : 0..MaxProv]
    BY <1>2, <1>3, <1>4, <1>5, <1>7
  <2>2. users \in [UserIds -> User \cup {None}] /\ provs \in [Providers -> Provider \cup {None}]
    BY <1>4, <1>7
  <2>3. todo \in [Clients -> Seq(Stmt)] /\ \A c \in Clients : List(todo[c])
    BY <1>7, NoneIsList DEF List
  <2> QED BY <1>1, <1>2, <1>7, <2>1, <2>2, <2>3 DEF Typed
<1>9. Ids
  BY <1>4, <1>7 DEF Ids
<1>10. SoundJobs /\ FlowInv
  BY <1>7 DEF SoundJobs, FlowInv, Owner
<1>11. VisitInv /\ BoundProfile
  BY <1>2, <1>7 DEF VisitInv, BoundProfile
<1>12. OrphanInv
  <2> SUFFICES ASSUME NEW u \in Live, users[u].email = None PROVE Reachable(u)
    BY DEF OrphanInv
  <2>1. u \in DOMAIN U /\ U[u].email = None BY <1>7 DEF Live
  <2>2. PICK i \in links : i.user = u /\ P[i.prov].kind = "linuxdo"
    BY <1>2, <1>3, <1>7, <2>1
  <2>3. i.prov \in DOMAIN P BY <1>2, <1>3, <1>7
  <2>4. provs[i.prov] = P[i.prov] /\ i.prov \in 1..last.prov BY <1>4, <1>6, <1>7, <2>3
  <2> QED BY <2>2, <2>4 DEF Reachable
<1> QED BY <1>8, <1>9, <1>10, <1>11, <1>12 DEF Inv

\* Every statement a request makes.
LEMMA StatementKeeps ==
    ASSUME Inv, NEW c \in Clients, Statement(c)
    PROVE  Inv'
<1>1. CASE OpenLogin(c) \/ OpenBinding(c) \/ OpenPending(c)
  BY <1>1, OpenLoginKeeps, OpenBindingKeeps, OpenPendingKeeps
<1>2. CASE FindFlow(c) \/ ConsumeFlow(c) \/ CheckProvider(c) \/ Exchange(c) \/ FindIdentity(c)
  BY <1>2, FindFlowKeeps, ConsumeFlowKeeps, CheckProviderKeeps, ExchangeKeeps, FindIdentityKeeps
<1>3. CASE ResolveByEmail(c) \/ AutoLink(c) \/ Provision(c) \/ TouchAndRead(c) \/ IssueSession(c)
  BY <1>3, ResolveByEmailKeeps, AutoLinkKeeps, ProvisionKeeps, TouchAndReadKeeps, IssueSessionKeeps
<1>4. CASE ReadForMail(c) \/ MailCommit(c) \/ ReadForConfirm(c) \/ ConfirmCommit(c)
  BY <1>4, ReadForMailKeeps, MailCommitKeeps, ReadForConfirmKeeps, ConfirmCommitKeeps
<1>5. CASE ReadForPassword(c) \/ PasswordCommit(c)
  BY <1>5, ReadForPasswordKeeps, PasswordCommitKeeps
<1>6. CASE CheckBindingProvider(c) \/ ReadDevice(c) \/ PollDevice(c)
  BY <1>6, CheckBindingProviderKeeps, ReadDeviceKeeps, PollDeviceKeeps
<1>7. CASE CallService(c) \/ ExchangeMinecraft(c) \/ ApplyBinding(c)
  BY <1>7, CallServiceKeeps, ExchangeMinecraftKeeps, ApplyBindingKeeps
<1>8. CASE ReadLink(c) \/ Unlink(c) \/ ChooseKey(c)
  BY <1>8, ReadLinkKeeps, UnlinkKeeps, ChooseKeyKeeps
<1>9. CASE InsertProvider(c) \/ StoreProvider(c) \/ RemoveProvider(c)
  BY <1>9, InsertProviderKeeps, StoreProviderKeeps, RemoveProviderKeeps
<1> QED BY <1>1, <1>2, <1>3, <1>4, <1>5, <1>6, <1>7, <1>8, <1>9 DEF Statement

\* Every step.
LEMMA NextKeeps ==
    ASSUME Inv, [Next]_vars
    PROVE  Inv'
<1>1. CASE \E c \in Clients : Request(c) \/ Statement(c) \/ Lose(c) \/ DisableUser(c) \/ DeleteUser(c)
  BY <1>1, RequestKeeps, StatementKeeps, LoseKeeps, DisableUserKeeps, DeleteUserKeeps
<1>2. CASE \E f \in FlowIds : Expire(f)
  BY <1>2, ExpireKeeps
<1>3. CASE CleanupExpiredFlows
  BY <1>3, CleanupKeeps
<1>4. CASE UNCHANGED vars
  BY <1>4, StutterKeeps
<1> QED BY <1>1, <1>2, <1>3, <1>4 DEF Next

\* The inductive invariant holds in every state.
LEMMA InvHolds == Spec => []Inv
<1>1. Init => Inv
  BY InitKeeps
<1>2. Inv /\ [Next]_vars => Inv'
  BY NextKeeps
<1> QED BY <1>1, <1>2, PTL DEF Spec

-----------------------------------------------------------------------------
(* What a request met when it arrived, and what it copied from the rows    *)

\* Statements that come after the provider was found enabled, and the provider they are about.
Admitted == {"claims", "known", "byemail", "link", "create", "pending", "account", "session", "ccommit", "pcommit"}
Via(x) == IF x.j = "ccommit" THEN x.row.prov ELSE x.p

\* A barred provider is off, and a request that got past the check has none.
BarsOff == \A b \in barred : b[2] \in Providers /\ b[2] <= last.prov /\ ~ On(b[2])
BarredInv ==
    /\ BarsOff /\ ~ dark
    /\ \A c \in Clients : todo[c] # <<>> /\ todo[c][1].j \in Admitted => <<c, Via(todo[c][1])>> \notin barred

\* The flow still says what was read of it, unless it is gone; the account has proven its address.
SameRow(f, p, s) == f <= last.flow /\ (flows[f] = None \/ (flows[f].prov = p /\ flows[f].sub = s))
SameTarget(f, e) == flows[f] = None \/ flows[f].target = e
Proven(u) == u <= last.user /\ (users[u] = None \/ (users[u].email # None => users[u].verified))
Copied(x) ==
    /\ x.j = "ccommit" => SameRow(x.f, x.row.prov, x.row.sub) /\ SameTarget(x.f, x.row.target)
    /\ x.j = "pcommit" => SameRow(x.f, x.p, x.sub) /\ Proven(x.u)
CopyInv ==
    /\ \A u \in Live : u <= last.user
    /\ \A c \in Clients : todo[c] # <<>> => Copied(todo[c][1])

ArrivalInv == BarredInv /\ CopyInv

\* What every step keeps of the rows that are copied.
KeepsFlow(f) ==
    \/ flows'[f] = None
    \/ /\ flows[f] # None /\ flows'[f].prov = flows[f].prov /\ flows'[f].sub = flows[f].sub
       /\ flows[f].target # None => flows'[f].target = flows[f].target
KeepsUser(u) ==
    \/ users'[u] = None
    \/ users[u] # None /\ users'[u].email = users[u].email /\ users'[u].verified = users[u].verified
Remembers ==
    /\ last' \in [user : Nat, flow : Nat, prov : Nat]
    /\ last.flow <= last'.flow /\ last.user <= last'.user
    /\ \A f \in FlowIds : f <= last.flow => KeepsFlow(f)
    /\ \A u \in UserIds : (u <= last.user => KeepsUser(u)) /\ (users'[u] # None => u <= last'.user)

\* A step of one request: it goes on past the check only with a provider that is enabled or was found so,
\* and what it copies is what it read.
Moves(c) == \A d \in Clients : d # c => todo'[d] = todo[d]
Passes(c, y) == y.j \in Admitted =>
    \/ On(Via(y))
    \/ todo[c] # <<>> /\ todo[c][1].j \in Admitted /\ Via(todo[c][1]) = Via(y)
Proceeds(c) == Moves(c) /\ (todo'[c] # <<>> => Passes(c, todo'[c][1]) /\ Copied(todo'[c][1]))

\* A copy stays true.
LEMMA CopiedStays ==
    ASSUME Typed, Remembers, NEW x \in Stmt, Copied(x)
    PROVE  Copied(x)'
<1>1. /\ last.flow \in Nat /\ last.user \in Nat /\ last'.flow \in Nat /\ last'.user \in Nat
      /\ \A f \in FlowIds : f \in Nat
      /\ \A u \in UserIds : u \in Nat
  <2>1. last.flow \in Nat /\ last.user \in Nat /\ last'.flow \in Nat /\ last'.user \in Nat
    BY Numbers DEF Remembers
  <2> QED BY <2>1, Numbers
<1>2. \A f \in FlowIds : f <= last.flow => f <= last'.flow
  <2>1. last.flow <= last'.flow BY DEF Remembers
  <2>2. PICK a, b : a = last.flow /\ b = last'.flow OBVIOUS
  <2> QED BY <1>1, <2>1, <2>2
<1>3. \A u \in UserIds : u <= last.user => u <= last'.user
  <2>1. last.user <= last'.user BY DEF Remembers
  <2>2. PICK a, b : a = last.user /\ b = last'.user OBVIOUS
  <2> QED BY <1>1, <2>1, <2>2
<1>4. ASSUME NEW f \in FlowIds, NEW p, NEW s, SameRow(f, p, s)
      PROVE  SameRow(f, p, s)'
  BY <1>2, <1>4 DEF SameRow, Remembers, KeepsFlow
<1>5. CASE x.j = "ccommit"
  <2>1. PICK f, p, s, e : f = x.f /\ p = x.row.prov /\ s = x.row.sub /\ e = x.row.target OBVIOUS
  <2>2. f \in FlowIds /\ e # None /\ SameRow(f, p, s) /\ SameTarget(f, e)
    BY <1>5, <2>1, StmtIs, ExternalAuthAssumption DEF Copied, ConfirmedStmt, MailRow
  <2>3. SameTarget(f, e)' BY <2>2 DEF SameTarget, SameRow, Remembers, KeepsFlow
  <2> QED BY <1>4, <1>5, <2>1, <2>2, <2>3 DEF Copied
<1>6. CASE x.j = "pcommit"
  <2>1. PICK f, p, s, u : f = x.f /\ p = x.p /\ s = x.sub /\ u = x.u OBVIOUS
  <2>2. f \in FlowIds /\ u \in UserIds /\ SameRow(f, p, s) /\ Proven(u)
    BY <1>6, <2>1, StmtIs DEF Copied, ProvenStmt
  <2>3. Proven(u)' BY <1>3, <2>2 DEF Proven, Remembers, KeepsUser
  <2> QED BY <1>4, <1>6, <2>1, <2>2, <2>3 DEF Copied
<1> QED BY <1>5, <1>6 DEF Copied

-----------------------------------------------------------------------------
(* How a request goes on                                                   *)

\* Statements before the check, and those whose work is done, have nothing to pass or to copy.
LEMMA OutsidePasses == ASSUME NEW c, NEW y, y.j \notin Admitted PROVE Passes(c, y) /\ Copied(y)
  BY DEF Passes, Copied, Admitted

\* A request that ends.
LEMMA EndsWell ==
    ASSUME Typed, NEW c \in Clients, Stop(c)
    PROVE  Proceeds(c)
<1>1. Sets(c, <<>>)
  BY DEF Stop, Sets
<1> QED BY <1>1, NoneIsList, SetsTodo DEF Proceeds, Moves

\* A request that begins.
LEMMA BeginsWell ==
    ASSUME Typed, NEW c \in Clients, NEW op, NEW y, y.j \notin Admitted, Start(c, op, <<y>>)
    PROVE  Proceeds(c) /\ (todo'[c] # <<>> => todo'[c][1].j \notin Admitted)
<1>1. todo' = [todo EXCEPT ![c] = <<y>>]
  BY DEF Start
<1>2. todo'[c] = <<y>> /\ \A d \in Clients : d # c => todo'[d] = todo[d]
  BY <1>1 DEF Typed
<1>3. todo'[c][1] = y
  BY <1>2
<1> QED BY <1>2, <1>3, OutsidePasses DEF Proceeds, Moves

\* A request goes on with statements put before the rest.
LEMMA GoesWell ==
    ASSUME Typed, NEW c \in Clients, todo[c] # <<>>, NEW S, NEW s \in Seq(S), s # <<>>, Then(c, s),
           Passes(c, s[1]), Copied(s[1])
    PROVE  Proceeds(c)
<1>1. PICK t : t = Tail(todo[c]) OBVIOUS
<1>2. t \in Seq(Stmt)
  BY <1>1, ListTail DEF Typed, List
<1>3. todo' = [todo EXCEPT ![c] = s \o t]
  BY <1>1 DEF Then
<1>4. todo'[c] = s \o t /\ \A d \in Clients : d # c => todo'[d] = todo[d]
  BY <1>3 DEF Typed
<1>5. s \in Seq(S \cup Stmt) /\ t \in Seq(S \cup Stmt)
  BY <1>2
<1>6. Len(s) \in Nat /\ Len(s) # 0 /\ Len(t) \in Nat
  BY <1>5, EmptySeq, LenProperties
<1>7. (s \o t)[1] = s[1]
  BY <1>5, <1>6, ConcatProperties
<1> QED BY <1>4, <1>7 DEF Proceeds, Moves

\* The same with one statement.
LEMMA GoesWithOne ==
    ASSUME Typed, NEW c \in Clients, todo[c] # <<>>, NEW y, Then(c, <<y>>), Passes(c, y), Copied(y)
    PROVE  Proceeds(c)
<1>1. <<y>> \in Seq({y}) /\ <<y>> # <<>> /\ <<y>>[1] = y OBVIOUS
<1> QED BY <1>1, GoesWell

\* Whether it goes on or stops.
LEMMA GoesOrEnds ==
    ASSUME Typed, NEW c \in Clients, todo[c] # <<>>, NEW y, NEW ok, Go(c, ok, <<y>>),
           ok => Passes(c, y) /\ Copied(y)
    PROVE  Proceeds(c)
  BY GoesWithOne, EndsWell DEF Go

\* With what was left to do, after a consumption or a call.
LEMMA RestsWell ==
    ASSUME Inv, NEW c \in Clients, NEW k, At(c, k), Then(c, <<>>)
    PROVE  Proceeds(c)
<1>1. Sets(c, Tail(todo[c])) /\ List(Tail(todo[c])) /\ todo[c] # <<>> /\ List(todo[c])
  BY ThenTail, HeadIs
<1>2. Tail(todo[c]) # <<>> => Tail(todo[c])[1].j \in {"prov", "bprov", "call", "account?"}
  BY <1>1, ListTail
<1>3. Tail(todo[c]) # <<>> => Tail(todo[c])[1].j \notin Admitted
  BY <1>2 DEF Admitted
<1>4. todo'[c] = Tail(todo[c]) /\ \A d \in Clients : d # c => todo'[d] = todo[d]
  BY <1>1, SetsTodo DEF Inv
<1> QED BY <1>3, <1>4, OutsidePasses DEF Proceeds, Moves

\* Every request begins before the check.
LEMMA RequestProceeds ==
    ASSUME Inv, NEW c \in Clients, Request(c)
    PROVE  /\ Proceeds(c) /\ (todo'[c] # <<>> => todo'[c][1].j \notin Admitted)
           /\ \A b \in barred' : b \in barred \/ (b[1] = c /\ b[2] \in 1..last.prov /\ ~ On(b[2]))
           /\ UNCHANGED <<db, hist>>
<1>1. PICK op, y : Start(c, op, <<y>>) /\ y.j \notin Admitted
  <2> USE DEF Admitted
  <2>1. CASE StartLogin(c) BY <2>1 DEF StartLogin
  <2>2. CASE FinishLogin(c) BY <2>2 DEF FinishLogin
  <2>3. CASE StartBinding(c) BY <2>3 DEF StartBinding
  <2>4. CASE FinishBinding(c) BY <2>4 DEF FinishBinding
  <2>5. CASE CheckDeviceCodeStatus(c) BY <2>5 DEF CheckDeviceCodeStatus
  <2>6. CASE StartEmailVerification(c) BY <2>6 DEF StartEmailVerification
  <2>7. CASE ConfirmEmailVerification(c) BY <2>7 DEF ConfirmEmailVerification
  <2>8. CASE LinkWithPassword(c) BY <2>8 DEF LinkWithPassword
  <2>9. CASE DeleteLink(c) BY <2>9 DEF DeleteLink
  <2>10. CASE CreateProvider(c) BY <2>10 DEF CreateProvider
  <2>11. CASE UpdateProvider(c) BY <2>11 DEF UpdateProvider
  <2>12. CASE DeleteProvider(c) BY <2>12 DEF DeleteProvider
  <2> QED BY <2>1, <2>2, <2>3, <2>4, <2>5, <2>6, <2>7, <2>8, <2>9, <2>10, <2>11, <2>12 DEF Request
<1>2. Proceeds(c) /\ (todo'[c] # <<>> => todo'[c][1].j \notin Admitted)
  BY <1>1, BeginsWell DEF Inv
<1>3. \A b \in barred' : b \in barred \/ (b[1] = c /\ b[2] \in 1..last.prov /\ ~ On(b[2]))
  BY <1>1 DEF Start
<1> QED BY <1>1, <1>2, <1>3 DEF Start

\* Statements that end the request.
LEMMA LastProceed ==
    ASSUME Inv, NEW c \in Clients,
           \/ OpenLogin(c) \/ OpenBinding(c) \/ OpenPending(c) \/ MailCommit(c) \/ IssueSession(c) \/ ApplyBinding(c)
           \/ Unlink(c) \/ InsertProvider(c) \/ StoreProvider(c) \/ RemoveProvider(c) \/ Lose(c)
    PROVE  Proceeds(c)
<1>1. Stop(c)
  <2>1. CASE OpenLogin(c) \/ OpenBinding(c) \/ OpenPending(c)
    BY <2>1 DEF OpenLogin, OpenBinding, OpenPending
  <2>2. CASE MailCommit(c) \/ IssueSession(c) \/ ApplyBinding(c) \/ Unlink(c)
    BY <2>2 DEF MailCommit, IssueSession, ApplyBinding, Unlink
  <2>3. CASE InsertProvider(c) \/ StoreProvider(c) \/ RemoveProvider(c) \/ Lose(c)
    BY <2>3 DEF InsertProvider, StoreProvider, RemoveProvider, Lose
  <2> QED BY <2>1, <2>2, <2>3
<1> QED BY <1>1, EndsWell DEF Inv

\* Statements that lead to one before the check, or to one that has nothing to do with it.
LEMMA EarlyProceed ==
    ASSUME Inv, NEW c \in Clients,
           \/ ReadForMail(c) \/ ReadDevice(c) \/ ExchangeMinecraft(c) \/ ReadLink(c) \/ ChooseKey(c)
    PROVE  Proceeds(c)
<1>1. /\ todo[c] # <<>>
      /\ \E ok, y : Go(c, ok, <<y>>) /\ y.j \notin Admitted
  <2>1. CASE ReadForMail(c)
    <3>1. PICK x : x = Job(c) OBVIOUS
    <3>2. At(c, "mread") /\ \E ok : Go(c, ok, <<[x EXCEPT !.j = "mcommit"]>>)
      BY <2>1, <3>1 DEF ReadForMail
    <3>3. x \in MailStmt BY <3>1, <3>2, HeadIs, StmtIs
    <3>4. [x EXCEPT !.j = "mcommit"].j = "mcommit" BY <3>3 DEF MailStmt
    <3> QED BY <3>2, <3>4 DEF At, Admitted
  <2>2. CASE ReadDevice(c)
    <3>1. PICK x : x = Job(c) OBVIOUS
    <3>2. PICK y : y = [j |-> "token", f |-> x.f, u |-> x.u, p |-> IF flows[x.f] = None THEN None ELSE flows[x.f].prov]
      OBVIOUS
    <3>3. todo[c] # <<>> /\ Go(c, Active(x.f) /\ flows[x.f].user = x.u, <<y>>)
      BY <2>2, <3>1, <3>2 DEF ReadDevice, At
    <3>4. y.j \notin Admitted BY <3>2 DEF Admitted
    <3> QED BY <3>3, <3>4
  <2>3. CASE ExchangeMinecraft(c)
    <3>1. PICK x : x = Job(c) OBVIOUS
    <3>2. PICK k \in load.claims :
             Go(c, x.u \in Live, <<[j |-> "apply", f |-> x.f, p |-> x.p, u |-> x.u, s |-> k.sub]>>)
      BY <2>3, <3>1 DEF ExchangeMinecraft
    <3>3. PICK y : y = [j |-> "apply", f |-> x.f, p |-> x.p, u |-> x.u, s |-> k.sub] OBVIOUS
    <3>4. y.j \notin Admitted /\ todo[c] # <<>>
      BY <2>3, <3>3 DEF Admitted, ExchangeMinecraft, At
    <3> QED BY <3>2, <3>3, <3>4
  <2>4. CASE ReadLink(c)
    <3>1. PICK x : x = Job(c) OBVIOUS
    <3>2. At(c, "uread") /\ \E ok : Go(c, ok, <<[x EXCEPT !.j = "unlink"]>>)
      BY <2>4, <3>1 DEF ReadLink
    <3>3. x \in LinkStmt BY <3>1, <3>2, HeadIs, StmtIs
    <3>4. [x EXCEPT !.j = "unlink"].j = "unlink" BY <3>3 DEF LinkStmt
    <3> QED BY <3>2, <3>4 DEF At, Admitted
  <2>5. CASE ChooseKey(c)
    <3>1. PICK y : Then(c, <<y>>) /\ y.j = "pcreate" /\ todo[c] # <<>>
      BY <2>5 DEF ChooseKey, At
    <3>2. Go(c, TRUE, <<y>>) BY <3>1 DEF Go
    <3> QED BY <3>1, <3>2 DEF Admitted
  <2> QED BY <2>1, <2>2, <2>3, <2>4, <2>5
<1>2. PICK ok, y : Go(c, ok, <<y>>) /\ y.j \notin Admitted
  BY <1>1
<1> QED BY <1>1, <1>2, OutsidePasses, GoesOrEnds DEF Inv

\* Statements that bring consumptions and calls.
LEMMA FlowProceed ==
    ASSUME Inv, NEW c \in Clients,
           FindFlow(c) \/ ConsumeFlow(c) \/ CheckBindingProvider(c) \/ PollDevice(c) \/ CallService(c)
    PROVE  Proceeds(c)
<1>t. Typed
  BY DEF Inv
<1>1. CASE FindFlow(c)
  <2>1. PICK x : x = Job(c) OBVIOUS
  <2>2. PICK a, b : /\ a = [j |-> "consume", f |-> x.f]
                    /\ b = [j |-> x.then, f |-> x.f, p |-> flows[x.f].prov, u |-> flows[x.f].user]
    OBVIOUS
  <2>3. todo[c] # <<>> /\ (Then(c, <<a, b>>) \/ Stop(c))
    BY <1>1, <2>1, <2>2 DEF FindFlow, At
  <2>4. <<a, b>> \in Seq({a, b}) /\ <<a, b>> # <<>> /\ <<a, b>>[1] = a OBVIOUS
  <2>5. a.j \notin Admitted BY <2>2 DEF Admitted
  <2>6. Passes(c, a) /\ Copied(a) BY <2>5, OutsidePasses
  <2>7. CASE Then(c, <<a, b>>)
    <3>1. PICK s : s = <<a, b>> OBVIOUS
    <3> QED BY <1>t, <2>3, <2>4, <2>6, <2>7, <3>1, GoesWell
  <2> QED BY <1>t, <2>3, <2>7, EndsWell
<1>2. CASE ConsumeFlow(c) \/ CallService(c)
  <2>1. \E k : At(c, k) /\ (Then(c, <<>>) \/ Stop(c)) BY <1>2 DEF ConsumeFlow, CallService
  <2> QED BY <1>t, <2>1, RestsWell, EndsWell
<1>3. CASE CheckBindingProvider(c)
  <2>1. PICK x, q : x = Job(c) /\ q = Calls(MinecraftCalls, x) OBVIOUS
  <2>2. At(c, "bprov") /\ (Then(c, q) \/ Stop(c))
    BY <1>3, <2>1 DEF CheckBindingProvider, Go
  <2>3. x \in CheckStmt /\ todo[c] # <<>> BY <2>1, <2>2, HeadIs, StmtIs
  <2>4. List(q) /\ q # <<>> /\ q[1].j = "call"
    BY <2>1, <2>3, CallsAreList, ServicesAsked DEF CheckStmt
  <2>5. q \in Seq(Stmt) /\ Passes(c, q[1]) /\ Copied(q[1])
    BY <2>4, OutsidePasses DEF List, Admitted
  <2> QED BY <1>t, <2>2, <2>3, <2>4, <2>5, GoesWell, EndsWell
<1>4. CASE PollDevice(c)
  <2>1. PICK x, a, q : x = Job(c) /\ a = [j |-> "consume", f |-> x.f] /\ q = Calls(DeviceCalls, x)
    OBVIOUS
  <2>2. At(c, "token") /\ (Then(c, <<a>> \o q) \/ Stop(c) \/ Then(c, <<a>>))
    BY <1>4, <2>1 DEF PollDevice
  <2>3. x \in TokenStmt /\ todo[c] # <<>> BY <2>1, <2>2, HeadIs, StmtIs
  <2>4. PICK r : r = <<a>> \o q OBVIOUS
  <2>5. List(r) /\ r # <<>> /\ r[1].j = "consume"
    BY <2>1, <2>3, <2>4, CallsAreList, ServicesAsked DEF TokenStmt
  <2>6. r \in Seq(Stmt) /\ Passes(c, r[1]) /\ Copied(r[1])
    BY <2>5, OutsidePasses DEF List, Admitted
  <2>7. Passes(c, a) /\ Copied(a) BY <2>1, OutsidePasses DEF Admitted
  <2> QED BY <1>t, <2>2, <2>3, <2>4, <2>5, <2>6, <2>7, GoesWell, GoesWithOne, EndsWell
<1> QED BY <1>1, <1>2, <1>3, <1>4

\* The provider is enabled.
LEMMA CheckProceeds ==
    ASSUME Inv, NEW c \in Clients, CheckProvider(c)
    PROVE  Proceeds(c)
<1>1. PICK x, y : x = Job(c) /\ y = [j |-> "claims", f |-> x.f, p |-> x.p, row |-> provs[x.p]]
  OBVIOUS
<1>2. todo[c] # <<>> /\ Go(c, On(x.p) /\ provs[x.p].login, <<y>>)
  BY <1>1 DEF CheckProvider, At
<1>3. y.j = "claims" /\ y.p = x.p
  BY <1>1
<1>4. On(x.p) => Passes(c, y) /\ Copied(y)
  BY <1>3 DEF Passes, Copied, Via
<1> QED BY <1>2, <1>4, GoesOrEnds DEF Inv

\* What was read of the flow of a mail is copied, and its provider is enabled.
LEMMA ReadsProceed ==
    ASSUME Inv, CopyInv, NEW c \in Clients, ReadForConfirm(c) \/ ReadForPassword(c)
    PROVE  Proceeds(c)
<1>1. PICK x : x = Job(c) OBVIOUS
<1>2. \A f \in FlowIds : Active(f) => f <= last.flow /\ flows[f] # None
  BY DEF Inv, Ids, Active
<1>3. CASE ReadForConfirm(c)
  <2>1. PICK y : y = [j |-> "ccommit", f |-> x.f, row |-> flows[x.f]] OBVIOUS
  <2>2. At(c, "cread") /\ Go(c, Active(x.f) /\ flows[x.f].target # None /\ On(flows[x.f].prov), <<y>>)
    BY <1>1, <1>3, <2>1 DEF ReadForConfirm
  <2>3. x.f \in FlowIds /\ todo[c] # <<>> BY <1>1, <2>2, HeadIs, StmtIs DEF ConfirmStmt
  <2>4. y.j = "ccommit" /\ y.f = x.f /\ y.row = flows[x.f] BY <2>1
  <2>5. Active(x.f) => Copied(y) BY <1>2, <2>3, <2>4 DEF Copied, SameRow, SameTarget
  <2>6. On(flows[x.f].prov) => Passes(c, y) BY <2>4 DEF Passes, Via
  <2> QED BY <2>2, <2>3, <2>5, <2>6, GoesOrEnds DEF Inv
<1>4. CASE ReadForPassword(c)
  <2>1. PICK y : y = [j |-> "pcommit", f |-> x.f, u |-> x.u, p |-> flows[x.f].prov, sub |-> flows[x.f].sub]
    OBVIOUS
  <2>2. PICK ok : ok <=> (/\ Active(x.f) /\ On(flows[x.f].prov) /\ x.u \in Live
                          /\ users[x.u].active /\ (users[x.u].email # None => users[x.u].verified))
    OBVIOUS
  <2>3. At(c, "pread") /\ ((Then(c, <<y>>) /\ ok) \/ Stop(c))
    BY <1>1, <1>4, <2>1, <2>2 DEF ReadForPassword, Go
  <2>4. x.f \in FlowIds /\ todo[c] # <<>> BY <1>1, <2>3, HeadIs, StmtIs DEF PasswordStmt
  <2>5. y.j = "pcommit" /\ y.f = x.f /\ y.p = flows[x.f].prov /\ y.sub = flows[x.f].sub /\ y.u = x.u
    BY <2>1
  <2>6. ok => Copied(y)
    <3>1. ok => SameRow(y.f, y.p, y.sub) BY <1>2, <2>2, <2>4, <2>5 DEF SameRow
    <3>2. ok => Proven(y.u) BY <2>2, <2>5 DEF Proven, CopyInv
    <3> QED BY <2>5, <3>1, <3>2 DEF Copied
  <2>7. ok => Passes(c, y) BY <2>2, <2>5 DEF Passes, Via
  <2> QED BY <2>3, <2>4, <2>6, <2>7, GoesWithOne, EndsWell DEF Inv
<1> QED BY <1>3, <1>4

\* A statement of the same provider follows one that was let in.
LEMMA SamePasses ==
    ASSUME Inv, NEW c \in Clients, NEW k \in Admitted, At(c, k),
           NEW y, y.j \in Admitted \ {"ccommit", "pcommit"}, y.p = Via(Job(c))
    PROVE  Passes(c, y) /\ Copied(y) /\ todo[c] # <<>>
<1>1. todo[c] # <<>> /\ Job(c) = todo[c][1] /\ Job(c).j = k
  BY HeadIs
<1> QED BY <1>1 DEF Passes, Copied, Via

\* The visitor is asked for, looked up, linked or registered: always with the provider checked before.
LEMMA VisitProceeds ==
    ASSUME Inv, NEW c \in Clients,
           Exchange(c) \/ FindIdentity(c) \/ ResolveByEmail(c) \/ AutoLink(c) \/ Provision(c) \/ TouchAndRead(c)
    PROVE  Proceeds(c)
<1>1. PICK x : x = Job(c) OBVIOUS
<1>2. PICK k : At(c, k) /\ k \in {"claims", "known", "byemail", "link", "create", "account"}
               /\ (k = "claims" <=> Exchange(c)) /\ (k = "known" <=> FindIdentity(c))
               /\ (k = "byemail" <=> ResolveByEmail(c)) /\ (k = "link" <=> AutoLink(c))
               /\ (k = "create" <=> Provision(c)) /\ (k = "account" <=> TouchAndRead(c))
  BY DEF Exchange, FindIdentity, ResolveByEmail, AutoLink, Provision, TouchAndRead, At
<1>3. x \in Stmt /\ x.j = k /\ Via(x) = x.p /\ todo[c] # <<>>
  BY <1>1, <1>2, HeadIs DEF Via
<1>4. ASSUME NEW y, y.j \in Admitted \ {"ccommit", "pcommit"}, y.p = x.p, Then(c, <<y>>)
      PROVE  Proceeds(c)
  <2>1. k \in Admitted BY <1>2 DEF Admitted
  <2>2. Passes(c, y) /\ Copied(y) BY <1>1, <1>2, <1>3, <1>4, <2>1, SamePasses
  <2> QED BY <1>3, <1>4, <2>2, GoesWithOne DEF Inv
<1>5. Stop(c) => Proceeds(c)
  BY EndsWell DEF Inv
<1>6. ASSUME NEW j \in {"link", "create", "pending", "account"}, NEW u
      PROVE  Onward(x, j, u).j = j /\ Onward(x, j, u).p = x.p
  BY DEF Onward
<1>7. CASE Exchange(c)
  <2>1. PICK q \in load.claims : Then(c, <<[j |-> "known", f |-> x.f, p |-> x.p, row |-> x.row, claim |-> q]>>)
    BY <1>1, <1>7 DEF Exchange
  <2>2. PICK y : y = [j |-> "known", f |-> x.f, p |-> x.p, row |-> x.row, claim |-> q] OBVIOUS
  <2>3. y.j = "known" /\ y.p = x.p BY <2>2
  <2> QED BY <1>4, <2>1, <2>2, <2>3 DEF Admitted
<1>8. CASE FindIdentity(c)
  <2>1. x \in KnownStmt BY <1>2, <1>3, <1>8, StmtIs
  <2>2. PICK y : y = [x EXCEPT !.j = "byemail"] OBVIOUS
  <2>3. y.j = "byemail" /\ y.p = x.p BY <2>1, <2>2 DEF KnownStmt
  <2>4. \/ \E i \in links : Then(c, <<[Onward(x, "account", i.user) EXCEPT !.e = None]>>)
        \/ Then(c, <<y>>) \/ Then(c, <<Onward(x, "create", None)>>) \/ Then(c, <<Onward(x, "pending", None)>>)
        \/ Stop(c)
    BY <1>1, <1>8, <2>2 DEF FindIdentity, Go, Linked
  <2>5. ASSUME NEW i \in links, Then(c, <<[Onward(x, "account", i.user) EXCEPT !.e = None]>>)
        PROVE  Proceeds(c)
    <3>1. PICK z : z = [Onward(x, "account", i.user) EXCEPT !.e = None] OBVIOUS
    <3>2. z.j = "account" /\ z.p = x.p BY <3>1 DEF Onward
    <3> QED BY <1>4, <2>5, <3>1, <3>2 DEF Admitted
  <2>6. CASE Then(c, <<y>>) BY <1>4, <2>3, <2>6 DEF Admitted
  <2>7. CASE Then(c, <<Onward(x, "create", None)>>) \/ Then(c, <<Onward(x, "pending", None)>>)
    <3>1. PICK j \in {"create", "pending"} : Then(c, <<Onward(x, j, None)>>) BY <2>7
    <3> QED BY <1>4, <1>6, <3>1 DEF Admitted
  <2> QED BY <1>5, <2>4, <2>5, <2>6, <2>7
<1>9. CASE ResolveByEmail(c)
  <2>1. \/ \E j \in {"link", "create", "pending"} : \E u : Then(c, <<Onward(x, j, u)>>)
        \/ Stop(c)
    BY <1>1, <1>9 DEF ResolveByEmail, Go
  <2>2. ASSUME NEW j \in {"link", "create", "pending"}, NEW u, Then(c, <<Onward(x, j, u)>>)
        PROVE  Proceeds(c)
    BY <1>4, <1>6, <2>2 DEF Admitted
  <2> QED BY <1>5, <2>1, <2>2
<1>10. CASE AutoLink(c) \/ TouchAndRead(c)
  <2>1. x \in VisitStmt BY <1>2, <1>3, <1>10, StmtIs
  <2>2. PICK y : y = [x EXCEPT !.j = "session"] OBVIOUS
  <2>3. y.j = "session" /\ y.p = x.p BY <2>1, <2>2 DEF VisitStmt
  <2>4. Then(c, <<y>>) \/ Stop(c) BY <1>1, <1>10, <2>2 DEF AutoLink, TouchAndRead, Go
  <2> QED BY <1>4, <1>5, <2>3, <2>4 DEF Admitted
<1>11. CASE Provision(c)
  <2>1. x \in VisitStmt BY <1>2, <1>3, <1>11, StmtIs
  <2>2. PICK y : y = [x EXCEPT !.j = "session", !.u = last.user + 1] OBVIOUS
  <2>3. y.j = "session" /\ y.p = x.p BY <2>1, <2>2 DEF VisitStmt
  <2>4. Then(c, <<y>>) \/ Stop(c) BY <1>1, <1>11, <2>2 DEF Provision
  <2> QED BY <1>4, <1>5, <2>3, <2>4 DEF Admitted
<1> QED BY <1>7, <1>8, <1>9, <1>10, <1>11

\* A flow that ends goes on with the provider it was opened for.
LEMMA CommitProceeds ==
    ASSUME Inv, NEW c \in Clients, ConfirmCommit(c) \/ PasswordCommit(c)
    PROVE  Proceeds(c)
<1>1. PICK x : x = Job(c) OBVIOUS
<1>2. Stop(c) => Proceeds(c)
  BY EndsWell DEF Inv
<1>3. CASE ConfirmCommit(c)
  <2>1. At(c, "ccommit") BY <1>3 DEF ConfirmCommit
  <2>2. \/ Stop(c)
        \/ \E u : Then(c, <<[j |-> "session", f |-> x.f, p |-> x.row.prov, sub |-> x.row.sub, u |-> u]>>)
    BY <1>1, <1>3 DEF ConfirmCommit
  <2>3. ASSUME NEW u, Then(c, <<[j |-> "session", f |-> x.f, p |-> x.row.prov, sub |-> x.row.sub, u |-> u]>>)
        PROVE  Proceeds(c)
    <3>1. PICK y : y = [j |-> "session", f |-> x.f, p |-> x.row.prov, sub |-> x.row.sub, u |-> u]
      OBVIOUS
    <3>2. y.j = "session" /\ y.p = x.row.prov BY <3>1
    <3>3. x.j = "ccommit" BY <1>1, <2>1, HeadIs
    <3>4. y.p = Via(Job(c)) /\ y.j \in Admitted \ {"ccommit", "pcommit"} /\ "ccommit" \in Admitted
      BY <1>1, <3>2, <3>3 DEF Via, Admitted
    <3>5. Passes(c, y) /\ Copied(y) /\ todo[c] # <<>> BY <2>1, <3>4, SamePasses
    <3> QED BY <2>3, <3>1, <3>5, GoesWithOne DEF Inv
  <2> QED BY <1>2, <2>2, <2>3
<1>4. CASE PasswordCommit(c)
  <2>1. At(c, "pcommit") BY <1>4 DEF PasswordCommit
  <2>2. x \in ProvenStmt /\ x.j = "pcommit" BY <1>1, <2>1, HeadIs, StmtIs
  <2>3. PICK y : y = [x EXCEPT !.j = "session"] OBVIOUS
  <2>4. y.j = "session" /\ y.p = x.p BY <2>2, <2>3 DEF ProvenStmt
  <2>5. y.p = Via(Job(c)) /\ y.j \in Admitted \ {"ccommit", "pcommit"} /\ "pcommit" \in Admitted
    BY <1>1, <2>2, <2>4 DEF Via, Admitted
  <2>6. Passes(c, y) /\ Copied(y) /\ todo[c] # <<>> BY <2>1, <2>5, SamePasses
  <2>7. Then(c, <<y>>) \/ Stop(c) BY <1>1, <1>4, <2>3 DEF PasswordCommit
  <2> QED BY <1>2, <2>6, <2>7, GoesWithOne DEF Inv
<1> QED BY <1>3, <1>4

\* Every statement.
LEMMA StatementProceeds ==
    ASSUME Inv, CopyInv, NEW c \in Clients, Statement(c) \/ Lose(c)
    PROVE  Proceeds(c)
<1>1. CASE \/ OpenLogin(c) \/ OpenBinding(c) \/ OpenPending(c) \/ MailCommit(c) \/ IssueSession(c) \/ ApplyBinding(c)
           \/ Unlink(c) \/ InsertProvider(c) \/ StoreProvider(c) \/ RemoveProvider(c) \/ Lose(c)
  BY <1>1, LastProceed
<1>2. CASE ReadForMail(c) \/ ReadDevice(c) \/ ExchangeMinecraft(c) \/ ReadLink(c) \/ ChooseKey(c)
  BY <1>2, EarlyProceed
<1>3. CASE FindFlow(c) \/ ConsumeFlow(c) \/ CheckBindingProvider(c) \/ PollDevice(c) \/ CallService(c)
  BY <1>3, FlowProceed
<1>4. CASE CheckProvider(c) \/ ReadForConfirm(c) \/ ReadForPassword(c)
  BY <1>4, CheckProceeds, ReadsProceed
<1>5. CASE Exchange(c) \/ FindIdentity(c) \/ ResolveByEmail(c) \/ AutoLink(c) \/ Provision(c) \/ TouchAndRead(c)
  BY <1>5, VisitProceeds
<1>6. CASE ConfirmCommit(c) \/ PasswordCommit(c)
  BY <1>6, CommitProceeds
<1> QED BY <1>1, <1>2, <1>3, <1>4, <1>5, <1>6 DEF Statement

-----------------------------------------------------------------------------
(* What is copied stays                                                    *)

\* Rows of flows change and those of users stay.
LEMMA FlowsRemember ==
    ASSUME Typed, CopyInv, users' = users, last' \in [user : Nat, flow : Nat, prov : Nat],
           last'.user = last.user, last'.flow = last.flow, \A f \in FlowIds : KeepsFlow(f)
    PROVE  Remembers
<1>1. last.flow \in Nat /\ last.user \in Nat
  BY Numbers
<1>2. last.flow <= last'.flow /\ last.user <= last'.user
  BY <1>1
<1>3. \A u \in UserIds : KeepsUser(u)
  BY DEF KeepsUser
<1>4. \A u \in UserIds : users'[u] # None => u <= last'.user
  BY DEF CopyInv, Live
<1> QED BY <1>2, <1>3, <1>4 DEF Remembers

\* No row changes.
LEMMA NothingForgotten ==
    ASSUME Typed, CopyInv, UNCHANGED <<users, flows, last>>
    PROVE  Remembers
<1>1. \A f \in FlowIds : KeepsFlow(f)
  BY DEF KeepsFlow
<1>2. last' \in [user : Nat, flow : Nat, prov : Nat] /\ last' = last
  BY Numbers
<1> QED BY <1>1, <1>2, FlowsRemember

\* A flow is consumed, mailed or expires: its row changes in other columns.
LEMMA RowKept ==
    ASSUME Typed, NEW f \in FlowIds, flows[f] # None, NEW r \in Flow, flows' = [flows EXCEPT ![f] = r],
           r.prov = flows[f].prov, r.sub = flows[f].sub, flows[f].target # None => r.target = flows[f].target
    PROVE  \A g \in FlowIds : KeepsFlow(g)
<1>1. flows'[f] = r /\ \A g \in FlowIds : g # f => flows'[g] = flows[g]
  BY DEF Typed
<1> QED BY <1>1 DEF KeepsFlow

\* A flow is consumed.
LEMMA UsedKept ==
    ASSUME Typed, NEW f \in FlowIds, Active(f), Taken(f)
    PROVE  \A g \in FlowIds : KeepsFlow(g)
<1>1. PICK r : r = [flows[f] EXCEPT !.used = TRUE] OBVIOUS
<1>2. flows[f] \in Flow /\ flows[f] # None
  BY DEF Active, Typed
<1>3. r \in Flow /\ r.prov = flows[f].prov /\ r.sub = flows[f].sub /\ r.target = flows[f].target
  BY <1>1, <1>2 DEF Flow
<1>4. flows' = [flows EXCEPT ![f] = r]
  BY <1>1 DEF Taken
<1> QED BY <1>2, <1>3, <1>4, RowKept

\* A flow is opened under a fresh id.
LEMMA InsertRemembers ==
    ASSUME Typed, CopyInv, NEW r, Insert(r), users' = users
    PROVE  Remembers
<1> DEFINE n == last.flow + 1
<1>1. last.flow \in Nat /\ last.user \in Nat /\ n \in Nat /\ last.flow <= n /\ last.user <= last.user
  BY Numbers
<1>2. flows' = [flows EXCEPT ![n] = r] /\ last' = [last EXCEPT !.flow = n]
  BY DEF Insert
<1>3. \A f \in FlowIds : f <= last.flow => f # n
  BY <1>1, Numbers
<1> HIDE DEF n
<1>4. last' \in [user : Nat, flow : Nat, prov : Nat] /\ last'.flow = n /\ last'.user = last.user
  BY <1>1, <1>2, Numbers
<1>5. \A f \in FlowIds : f <= last.flow => flows'[f] = flows[f]
  BY <1>2, <1>3 DEF Typed
<1>6. \A f \in FlowIds : f <= last.flow => KeepsFlow(f)
  BY <1>5 DEF KeepsFlow
<1>7. \A u \in UserIds : KeepsUser(u)
  BY DEF KeepsUser
<1>8. \A u \in UserIds : users'[u] # None => u <= last'.user
  BY <1>4 DEF CopyInv, Live
<1> QED BY <1>1, <1>4, <1>6, <1>7, <1>8 DEF Remembers

\* An account is made under a fresh id.
LEMMA AddRemembers ==
    ASSUME Typed, CopyInv, NEW r \in User, AddUser(r), \A f \in FlowIds : KeepsFlow(f)
    PROVE  Remembers
<1>1. PICK n : n = last.user + 1 OBVIOUS
<1>2. /\ last.user \in Nat /\ last.flow \in Nat /\ last.user <= n /\ last.flow <= last.flow
      /\ \A u \in UserIds : u <= last.user => u # n /\ u <= n
  BY <1>1, Numbers
<1>3. /\ last' \in [user : Nat, flow : Nat, prov : Nat] /\ last'.flow = last.flow
      /\ \A u \in UserIds : u # n => users'[u] = users[u]
  BY <1>1, UserAdded
<1>4. last'.user = n
  BY <1>1, Numbers DEF AddUser
<1>5. \A u \in UserIds : u <= last.user => KeepsUser(u)
  BY <1>2, <1>3 DEF KeepsUser
<1>6. n \in Nat /\ n <= n
  BY <1>1, <1>2
<1>7. \A u \in UserIds : users'[u] # None => u <= last'.user
  BY <1>2, <1>3, <1>4, <1>6 DEF CopyInv, Live
<1> QED BY <1>2, <1>3, <1>4, <1>5, <1>7 DEF Remembers

\* Statements that change no row of a user or a flow.
LEMMA ReadersRemember ==
    ASSUME Inv, CopyInv, NEW c \in Clients,
           \/ Request(c) \/ Lose(c) \/ FindFlow(c) \/ CheckProvider(c) \/ Exchange(c) \/ FindIdentity(c) \/ ResolveByEmail(c)
           \/ AutoLink(c) \/ TouchAndRead(c) \/ IssueSession(c) \/ ReadForMail(c) \/ ReadForConfirm(c) \/ ReadForPassword(c)
           \/ CheckBindingProvider(c) \/ ReadDevice(c) \/ PollDevice(c) \/ CallService(c) \/ ExchangeMinecraft(c)
           \/ ApplyBinding(c) \/ ReadLink(c) \/ Unlink(c) \/ ChooseKey(c) \/ StoreProvider(c)
    PROVE  Remembers
<1>1. UNCHANGED <<users, flows, last>>
  <2> USE DEF db
  <2>1. CASE Request(c) BY <2>1, RequestProceeds
  <2>2. CASE Lose(c) \/ FindFlow(c) \/ CheckProvider(c) \/ Exchange(c) \/ FindIdentity(c) \/ ResolveByEmail(c)
    BY <2>2 DEF Lose, FindFlow, CheckProvider, Exchange, FindIdentity, ResolveByEmail
  <2>3. CASE AutoLink(c) \/ TouchAndRead(c) \/ IssueSession(c) \/ ReadForMail(c) \/ ReadForConfirm(c) \/ ReadForPassword(c)
    BY <2>3 DEF AutoLink, TouchAndRead, IssueSession, ReadForMail, ReadForConfirm, ReadForPassword
  <2>4. CASE CheckBindingProvider(c) \/ ReadDevice(c) \/ PollDevice(c) \/ CallService(c) \/ ExchangeMinecraft(c)
    BY <2>4 DEF CheckBindingProvider, ReadDevice, PollDevice, CallService, ExchangeMinecraft
  <2>5. CASE ApplyBinding(c) \/ ReadLink(c) \/ Unlink(c) \/ ChooseKey(c) \/ StoreProvider(c)
    BY <2>5 DEF ApplyBinding, ReadLink, Unlink, ChooseKey, StoreProvider
  <2> QED BY <2>1, <2>2, <2>3, <2>4, <2>5
<1> QED BY <1>1, NothingForgotten DEF Inv

\* Statements that open, consume, mail or remove a flow.
LEMMA WritersRemember ==
    ASSUME Inv, CopyInv, NEW c \in Clients,
           \/ OpenLogin(c) \/ OpenBinding(c) \/ OpenPending(c) \/ ConsumeFlow(c) \/ MailCommit(c)
           \/ InsertProvider(c) \/ RemoveProvider(c)
    PROVE  Remembers
<1>t. Typed /\ last \in [user : Nat, flow : Nat, prov : Nat]
  BY Numbers DEF Inv
<1>1. PICK x : x = Job(c) OBVIOUS
<1>2. CASE OpenLogin(c) \/ OpenBinding(c) \/ OpenPending(c)
  <2>1. users' = users BY <1>2 DEF OpenLogin, OpenBinding, OpenPending
  <2>2. UNCHANGED <<flows, last>> \/ \E r : Insert(r)
    BY <1>2 DEF OpenLogin, OpenBinding, OpenPending
  <2> QED BY <1>t, <2>1, <2>2, InsertRemembers, NothingForgotten
<1>3. CASE ConsumeFlow(c)
  <2>1. At(c, "consume") /\ UNCHANGED <<users, last>> /\ (flows' = flows \/ (Active(x.f) /\ Taken(x.f)))
    BY <1>1, <1>3 DEF ConsumeFlow, Taken
  <2>2. x.f \in FlowIds BY <1>1, <2>1, HeadIs, StmtIs DEF TakeStmt
  <2>3. PICK f \in FlowIds : f = x.f BY <2>2
  <2>4. Active(f) /\ Taken(f) => \A g \in FlowIds : KeepsFlow(g) BY <1>t, UsedKept
  <2> QED BY <1>t, <2>1, <2>3, <2>4, FlowsRemember, NothingForgotten
<1>4. CASE MailCommit(c)
  <2>1. At(c, "mcommit") /\ UNCHANGED <<users, last>> BY <1>4 DEF MailCommit
  <2>2. x.f \in FlowIds /\ x.e \in Emails BY <1>1, <2>1, HeadIs, StmtIs DEF MailStmt
  <2>3. PICK f \in FlowIds : f = x.f BY <2>2
  <2>4. PICK r : r = [flows[f] EXCEPT !.target = x.e] OBVIOUS
  <2>5. flows' = flows \/ (Active(f) /\ flows[f].target = None /\ flows' = [flows EXCEPT ![f] = r])
    BY <1>1, <1>4, <2>3, <2>4 DEF MailCommit
  <2>6. CASE Active(f) /\ flows[f].target = None /\ flows' = [flows EXCEPT ![f] = r]
    <3>1. flows[f] \in Flow /\ flows[f] # None BY <1>t, <2>6 DEF Active, Typed
    <3>2. r \in Flow /\ r.prov = flows[f].prov /\ r.sub = flows[f].sub
      BY <2>2, <2>4, <3>1 DEF Flow
    <3>3. \A g \in FlowIds : KeepsFlow(g) BY <1>t, <2>6, <3>1, <3>2, RowKept
    <3> QED BY <1>t, <2>1, <3>3, FlowsRemember
  <2> QED BY <1>t, <2>1, <2>5, <2>6, NothingForgotten
<1>5. CASE InsertProvider(c)
  <2>1. UNCHANGED <<users, flows>> /\ (last' = last \/ last' = [last EXCEPT !.prov = @ + 1])
    BY <1>5 DEF InsertProvider
  <2>2. last' \in [user : Nat, flow : Nat, prov : Nat] /\ last'.user = last.user /\ last'.flow = last.flow
    BY <1>t, <2>1
  <2>3. \A f \in FlowIds : KeepsFlow(f) BY <2>1 DEF KeepsFlow
  <2> QED BY <1>t, <2>1, <2>2, <2>3, FlowsRemember
<1>6. CASE RemoveProvider(c)
  <2>1. UNCHANGED <<users, last>> /\ \A f \in FlowIds : flows'[f] = None \/ flows'[f] = flows[f]
    BY <1>6 DEF RemoveProvider
  <2>2. \A f \in FlowIds : KeepsFlow(f) BY <2>1 DEF KeepsFlow
  <2> QED BY <1>t, <2>1, <2>2, FlowsRemember
<1> QED BY <1>2, <1>3, <1>4, <1>5, <1>6

\* Statements that make an account or end a flow with a link.
LEMMA LinkersRemember ==
    ASSUME Inv, CopyInv, NEW c \in Clients, Provision(c) \/ ConfirmCommit(c) \/ PasswordCommit(c)
    PROVE  Remembers
<1>t. Typed /\ last \in [user : Nat, flow : Nat, prov : Nat]
  BY Numbers DEF Inv
<1>1. PICK x : x = Job(c) OBVIOUS
<1>2. CASE Provision(c)
  <2>1. At(c, "create") /\ flows' = flows BY <1>2 DEF Provision
  <2>2. x \in VisitStmt BY <1>1, <2>1, HeadIs, StmtIs
  <2>3. PICK r : r = Registered(x.e, x.ver) OBVIOUS
  <2>4. AddUser(r) \/ UNCHANGED <<users, last>> BY <1>1, <1>2, <2>3 DEF Provision
  <2>5. r \in User BY <2>2, <2>3 DEF VisitStmt, Registered, User
  <2>6. \A f \in FlowIds : KeepsFlow(f) BY <2>1 DEF KeepsFlow
  <2> QED BY <1>t, <2>1, <2>4, <2>5, <2>6, AddRemembers, NothingForgotten
<1>3. CASE ConfirmCommit(c)
  <2>1. At(c, "ccommit") BY <1>3 DEF ConfirmCommit
  <2>2. x.f \in FlowIds /\ x.row.target \in Emails
    BY <1>1, <2>1, HeadIs, StmtIs DEF ConfirmedStmt, MailRow
  <2>3. PICK r : r = Registered(x.row.target, TRUE) OBVIOUS
  <2>4. PICK f \in FlowIds : f = x.f BY <2>2
  <2>5. /\ UNCHANGED <<users, last>> \/ AddUser(r)
        /\ UNCHANGED <<users, last, flows>> \/ (Active(f) /\ Taken(f))
    BY <1>1, <1>3, <2>3, <2>4 DEF ConfirmCommit
  <2>6. r \in User BY <2>2, <2>3 DEF Registered, User
  <2>7. Active(f) /\ Taken(f) => \A g \in FlowIds : KeepsFlow(g) BY <1>t, UsedKept
  <2> QED BY <1>t, <2>5, <2>6, <2>7, AddRemembers, FlowsRemember, NothingForgotten
<1>4. CASE PasswordCommit(c)
  <2>1. At(c, "pcommit") /\ UNCHANGED <<users, last>> BY <1>4 DEF PasswordCommit
  <2>2. x.f \in FlowIds BY <1>1, <2>1, HeadIs, StmtIs DEF ProvenStmt
  <2>3. PICK f \in FlowIds : f = x.f BY <2>2
  <2>4. flows' = flows \/ (Active(f) /\ Taken(f)) BY <1>1, <1>4, <2>3 DEF PasswordCommit
  <2>5. Active(f) /\ Taken(f) => \A g \in FlowIds : KeepsFlow(g) BY <1>t, UsedKept
  <2> QED BY <1>t, <2>1, <2>4, <2>5, FlowsRemember, NothingForgotten
<1> QED BY <1>2, <1>3, <1>4

\* The steps that no request takes.
LEMMA OthersRemember ==
    ASSUME Inv, CopyInv,
           \/ \E c \in Clients : DisableUser(c) \/ DeleteUser(c)
           \/ \E f \in FlowIds : Expire(f)
           \/ CleanupExpiredFlows
    PROVE  Remembers /\ UNCHANGED <<provs, todo, barred, dark>>
<1>t. Typed /\ last \in [user : Nat, flow : Nat, prov : Nat] /\ last.user \in Nat /\ last.flow \in Nat
  BY Numbers DEF Inv
<1>1. CASE \E c \in Clients : DisableUser(c) \/ DeleteUser(c)
  <2>1. /\ UNCHANGED <<last, provs, todo, barred, dark>>
        /\ \A f \in FlowIds : flows'[f] = None \/ flows'[f] = flows[f]
        /\ \E u \in Live : users' = [users EXCEPT ![u] = None] \/ users' = [users EXCEPT ![u].active = FALSE]
    BY <1>1 DEF DisableUser, DeleteUser, env, hist
  <2>2. PICK u \in Live : users' = [users EXCEPT ![u] = None] \/ users' = [users EXCEPT ![u].active = FALSE]
    BY <2>1
  <2>3. u \in UserIds /\ users[u] \in User /\ users[u] # None BY <1>t DEF Live, Typed
  <2>4. PICK r : r = [users[u] EXCEPT !.active = FALSE] OBVIOUS
  <2>5. r.email = users[u].email /\ r.verified = users[u].verified BY <2>3, <2>4 DEF User
  <2>6. (users'[u] = None \/ users'[u] = r) /\ \A v \in UserIds : v # u => users'[v] = users[v]
    BY <1>t, <2>2, <2>3, <2>4 DEF Typed
  <2>7. \A v \in UserIds : KeepsUser(v) BY <2>3, <2>5, <2>6 DEF KeepsUser
  <2>8. \A v \in UserIds : users'[v] # None => v <= last'.user
    BY <2>1, <2>3, <2>6 DEF CopyInv, Live
  <2>9. \A f \in FlowIds : KeepsFlow(f) BY <2>1 DEF KeepsFlow
  <2>10. last.flow <= last'.flow /\ last.user <= last'.user /\ last' \in [user : Nat, flow : Nat, prov : Nat]
    BY <1>t, <2>1
  <2> QED BY <2>1, <2>7, <2>8, <2>9, <2>10 DEF Remembers
<1>2. CASE \E f \in FlowIds : Expire(f)
  <2>1. PICK f \in FlowIds : Expire(f) BY <1>2
  <2>2. PICK r : r = [flows[f] EXCEPT !.over = TRUE] OBVIOUS
  <2>3. flows[f] # None /\ flows' = [flows EXCEPT ![f] = r] /\ UNCHANGED <<users, last, provs, todo, barred, dark>>
    BY <2>1, <2>2 DEF Expire, env, hist
  <2>4. flows[f] \in Flow BY <1>t, <2>3 DEF Typed
  <2>5. r \in Flow /\ r.prov = flows[f].prov /\ r.sub = flows[f].sub /\ r.target = flows[f].target
    BY <2>2, <2>4 DEF Flow
  <2>6. \A g \in FlowIds : KeepsFlow(g) BY <1>t, <2>3, <2>5, RowKept
  <2> QED BY <1>t, <2>3, <2>6, FlowsRemember
<1>3. CASE CleanupExpiredFlows
  <2>1. /\ UNCHANGED <<users, last, provs, todo, barred, dark>>
        /\ \A f \in FlowIds : flows'[f] = None \/ flows'[f] = flows[f]
    BY <1>3 DEF CleanupExpiredFlows, env, hist
  <2>2. \A f \in FlowIds : KeepsFlow(f) BY <2>1 DEF KeepsFlow
  <2> QED BY <1>t, <2>1, <2>2, FlowsRemember
<1> QED BY <1>1, <1>2, <1>3

\* Every statement.
LEMMA StatementRemembers ==
    ASSUME Inv, CopyInv, NEW c \in Clients, Request(c) \/ Statement(c) \/ Lose(c)
    PROVE  Remembers
<1>1. CASE \/ Request(c) \/ Lose(c) \/ FindFlow(c) \/ CheckProvider(c) \/ Exchange(c) \/ FindIdentity(c) \/ ResolveByEmail(c)
           \/ AutoLink(c) \/ TouchAndRead(c) \/ IssueSession(c) \/ ReadForMail(c) \/ ReadForConfirm(c) \/ ReadForPassword(c)
           \/ CheckBindingProvider(c) \/ ReadDevice(c) \/ PollDevice(c) \/ CallService(c) \/ ExchangeMinecraft(c)
           \/ ApplyBinding(c) \/ ReadLink(c) \/ Unlink(c) \/ ChooseKey(c) \/ StoreProvider(c)
  BY <1>1, ReadersRemember
<1>2. CASE \/ OpenLogin(c) \/ OpenBinding(c) \/ OpenPending(c) \/ ConsumeFlow(c) \/ MailCommit(c)
           \/ InsertProvider(c) \/ RemoveProvider(c)
  BY <1>2, WritersRemember
<1>3. CASE Provision(c) \/ ConfirmCommit(c) \/ PasswordCommit(c)
  BY <1>3, LinkersRemember
<1> QED BY <1>1, <1>2, <1>3 DEF Statement

-----------------------------------------------------------------------------
(* The providers that are barred to a request                              *)

\* Statements that touch neither providers nor what is barred.
LEMMA ProvidersSame ==
    ASSUME Inv, NEW c \in Clients, Statement(c) \/ Lose(c),
           ~ IssueSession(c), ~ InsertProvider(c), ~ StoreProvider(c), ~ RemoveProvider(c)
    PROVE  UNCHANGED <<provs, barred, dark>> /\ last'.prov = last.prov
<1> USE DEF db, env, hist
<1>t. last \in [user : Nat, flow : Nat, prov : Nat]
  BY Numbers DEF Inv
<1>1. CASE FindFlow(c) \/ ConsumeFlow(c) \/ CheckProvider(c) \/ Exchange(c) \/ FindIdentity(c) \/ ResolveByEmail(c)
  BY <1>1 DEF FindFlow, ConsumeFlow, CheckProvider, Exchange, FindIdentity, ResolveByEmail
<1>2. CASE AutoLink(c) \/ TouchAndRead(c) \/ ReadForMail(c) \/ MailCommit(c) \/ ReadForConfirm(c) \/ ReadForPassword(c)
  BY <1>2 DEF AutoLink, TouchAndRead, ReadForMail, MailCommit, ReadForConfirm, ReadForPassword
<1>3. CASE PasswordCommit(c) \/ CheckBindingProvider(c) \/ ReadDevice(c) \/ PollDevice(c) \/ CallService(c)
  BY <1>3 DEF PasswordCommit, CheckBindingProvider, ReadDevice, PollDevice, CallService
<1>4. CASE ExchangeMinecraft(c) \/ ApplyBinding(c) \/ ReadLink(c) \/ Unlink(c) \/ ChooseKey(c) \/ Lose(c)
  BY <1>4 DEF ExchangeMinecraft, ApplyBinding, ReadLink, Unlink, ChooseKey, Lose
<1>5. CASE OpenLogin(c) \/ OpenBinding(c) \/ OpenPending(c)
  <2>1. UNCHANGED <<provs, barred, dark>> /\ (last' = last \/ \E r : Insert(r))
    BY <1>5 DEF OpenLogin, OpenBinding, OpenPending
  <2> QED BY <1>t, <2>1 DEF Insert
<1>6. CASE Provision(c) \/ ConfirmCommit(c)
  <2>1. UNCHANGED <<provs, barred, dark>> /\ (last' = last \/ \E r : AddUser(r))
    BY <1>6 DEF Provision, ConfirmCommit
  <2> QED BY <1>t, <2>1 DEF AddUser
<1> QED BY <1>1, <1>2, <1>3, <1>4, <1>5, <1>6 DEF Statement

\* What is barred stays off, and nobody enters through it.
LEMMA BarsStay ==
    ASSUME Inv, BarredInv, NEW c \in Clients, Request(c) \/ Statement(c) \/ Lose(c)
    PROVE  /\ BarsOff' /\ ~dark'
           /\ \A b \in barred' : b \in barred \/ (b[1] = c /\ (todo'[c] # <<>> => todo'[c][1].j \notin Admitted))
<1>t. /\ last \in [user : Nat, flow : Nat, prov : Nat] /\ MaxProv \in Nat /\ last.prov \in 0..MaxProv
      /\ Providers = 1..MaxProv /\ provs \in [Providers -> Provider \cup {None}] /\ ~dark /\ BarsOff
  BY Numbers DEF Inv, Typed, BarredInv
<1>1. PICK x : x = Job(c) OBVIOUS
<1>2. CASE Request(c)
  <2>1. /\ UNCHANGED <<provs, last, dark>>
        /\ \A b \in barred' : b \in barred \/ (b[1] = c /\ b[2] \in 1..last.prov /\ ~ On(b[2]))
        /\ todo'[c] # <<>> => todo'[c][1].j \notin Admitted
    BY <1>2, RequestProceeds DEF db, hist
  <2>2. \A p \in 1..last.prov : p \in Providers /\ p <= last.prov BY <1>t
  <2>3. \A p : On(p)' <=> On(p) BY <2>1 DEF On
  <2>4. BarsOff' BY <1>t, <2>1, <2>2, <2>3 DEF BarsOff
  <2> QED BY <1>t, <2>1, <2>4
<1>3. CASE IssueSession(c)
  <2>1. At(c, "session") /\ UNCHANGED <<provs, last, barred>> /\ (dark' = dark \/ dark' = (dark \/ <<c, x.p>> \in barred))
    BY <1>1, <1>3 DEF IssueSession, db, env
  <2>2. todo[c] # <<>> /\ todo[c][1].j \in Admitted /\ Via(todo[c][1]) = x.p
    BY <1>1, <2>1, HeadIs DEF Via, Admitted
  <2>3. <<c, x.p>> \notin barred BY <2>2 DEF BarredInv
  <2>4. BarsOff' BY <1>t, <2>1 DEF BarsOff, On
  <2>5. ~dark' BY <1>t, <2>1, <2>3
  <2> QED BY <2>1, <2>4, <2>5
<1>4. CASE InsertProvider(c)
  <2>1. At(c, "pcreate") /\ UNCHANGED <<barred, dark>>
    BY <1>4 DEF InsertProvider, env, hist
  <2>2. PICK n, r : n = last.prov + 1 /\ r = x.r OBVIOUS
  <2>3. UNCHANGED <<provs, last>> \/ (provs' = [provs EXCEPT ![n] = r] /\ last' = [last EXCEPT !.prov = n])
    BY <1>1, <1>4, <2>2 DEF InsertProvider
  <2>4. \A p \in Providers : p <= last.prov => p # n /\ p <= n BY <1>t, <2>2
  <2>5. \A p \in Providers : p <= last.prov => p <= last'.prov /\ provs'[p] = provs[p]
    BY <1>t, <2>3, <2>4
  <2>6. BarsOff' BY <1>t, <2>1, <2>5 DEF BarsOff, On
  <2> QED BY <1>t, <2>1, <2>6
<1>5. CASE StoreProvider(c)
  <2>1. At(c, "pupdate") /\ UNCHANGED <<last, dark>> BY <1>5 DEF StoreProvider, hist
  <2>2. x \in EditStmt BY <1>1, <2>1, HeadIs, StmtIs
  <2>3. PICK p, r : p = x.p /\ r = [x.r EXCEPT !.kind = provs[p].kind, !.public = provs[p].public]
    OBVIOUS
  <2>4. x.r \in Provider /\ r.enabled = x.r.enabled /\ p \in Providers
    BY <2>2, <2>3 DEF EditStmt, Provider
  <2>5. /\ provs' = IF provs[p] = None THEN provs ELSE [provs EXCEPT ![p] = r]
        /\ barred' = IF x.r.enabled THEN {b \in barred : b[2] # p} ELSE barred
    BY <1>1, <1>5, <2>3 DEF StoreProvider
  <2>6. barred' \subseteq barred BY <2>5
  <2>7. ASSUME NEW b \in barred' PROVE b[2] \in Providers /\ b[2] <= last'.prov /\ ~ On(b[2])'
    <3>1. b[2] \in Providers /\ b[2] <= last.prov /\ ~ On(b[2]) BY <1>t, <2>6 DEF BarsOff
    <3>2. PICK q : q = b[2] OBVIOUS
    <3>3. CASE q # p
      <4>1. provs'[q] = provs[q] BY <1>t, <2>5, <3>3
      <4> QED BY <2>1, <3>1, <3>2, <4>1 DEF On
    <3>4. CASE q = p
      <4>1. ~x.r.enabled BY <2>5, <3>2, <3>4
      <4>2. provs'[p] = None \/ provs'[p] = r BY <1>t, <2>4, <2>5
      <4> QED BY <2>1, <2>4, <3>1, <3>2, <3>4, <4>1, <4>2 DEF On
    <3> QED BY <3>3, <3>4
  <2>8. BarsOff' BY <2>7 DEF BarsOff
  <2> QED BY <1>t, <2>1, <2>6, <2>8
<1>6. CASE RemoveProvider(c)
  <2>1. /\ UNCHANGED <<barred, last, dark>>
        /\ \E p : provs' = [provs EXCEPT ![p] = None]
    BY <1>6 DEF RemoveProvider, env
  <2>2. \A p \in Providers : provs'[p] = None \/ provs'[p] = provs[p] BY <1>t, <2>1
  <2>3. BarsOff' BY <1>t, <2>1, <2>2 DEF BarsOff, On
  <2> QED BY <1>t, <2>1, <2>3
<1>7. CASE /\ Statement(c) \/ Lose(c)
           /\ ~ IssueSession(c) /\ ~ InsertProvider(c) /\ ~ StoreProvider(c) /\ ~ RemoveProvider(c)
  <2>1. UNCHANGED <<provs, barred, dark>> /\ last'.prov = last.prov BY <1>7, ProvidersSame
  <2>2. BarsOff' BY <1>t, <2>1 DEF BarsOff, On
  <2> QED BY <1>t, <2>1, <2>2
<1> QED BY <1>2, <1>3, <1>4, <1>5, <1>6, <1>7

-----------------------------------------------------------------------------
(* The second invariant holds                                              *)

\* A step of one request.
LEMMA ArrivalStep ==
    ASSUME Inv, Inv', ArrivalInv, NEW c \in Clients, Request(c) \/ Statement(c) \/ Lose(c)
    PROVE  ArrivalInv'
<1>1. Remembers
  BY StatementRemembers DEF ArrivalInv
<1>2. Moves(c) /\ (todo'[c] # <<>> => Passes(c, todo'[c][1]) /\ Copied(todo'[c][1]))
  BY RequestProceeds, StatementProceeds DEF ArrivalInv, Proceeds
<1>3. /\ BarsOff' /\ ~dark'
      /\ \A b \in barred' : b \in barred \/ (b[1] = c /\ (todo'[c] # <<>> => todo'[c][1].j \notin Admitted))
  BY BarsStay DEF ArrivalInv
<1>4. ASSUME NEW d \in Clients, todo'[d] # <<>>, todo'[d][1].j \in Admitted
      PROVE  <<d, Via(todo'[d][1])>> \notin barred'
  <2>1. PICK y, p : y = todo'[d][1] /\ p = Via(y) OBVIOUS
  <2>2. <<d, p>>[1] = d /\ <<d, p>>[2] = p OBVIOUS
  <2>3. <<d, p>> \in barred' => <<d, p>> \in barred BY <1>3, <1>4, <2>2
  <2>4. CASE d # c
    <3>1. todo[d] # <<>> /\ todo[d][1].j \in Admitted /\ Via(todo[d][1]) = p
      BY <1>2, <1>4, <2>1, <2>4 DEF Moves
    <3> QED BY <2>1, <2>3, <3>1 DEF ArrivalInv, BarredInv
  <2>5. CASE d = c
    <3>1. On(p) \/ (todo[c] # <<>> /\ todo[c][1].j \in Admitted /\ Via(todo[c][1]) = p)
      BY <1>2, <1>4, <2>1, <2>5 DEF Passes
    <3>2. <<d, p>> \in barred => ~ On(p) BY <2>2 DEF ArrivalInv, BarredInv, BarsOff
    <3>3. (todo[c] # <<>> /\ todo[c][1].j \in Admitted /\ Via(todo[c][1]) = p) => <<d, p>> \notin barred
      BY <2>5 DEF ArrivalInv, BarredInv
    <3> QED BY <2>1, <2>3, <3>1, <3>2, <3>3
  <2> QED BY <2>4, <2>5
<1>5. BarredInv'
  BY <1>3, <1>4 DEF BarredInv, Via
<1>6. ASSUME NEW d \in Clients, todo'[d] # <<>> PROVE Copied(todo[d][1])'
  <2>1. PICK y : y = todo'[d][1] OBVIOUS
  <2>2. y \in Stmt BY <1>6, <2>1, ListTail DEF Inv, Typed
  <2>3. Copied(y) BY <1>2, <1>6, <2>1 DEF Moves, ArrivalInv, CopyInv
  <2>4. Copied(y)' BY <1>1, <2>2, <2>3, CopiedStays DEF Inv
  <2> QED BY <2>1, <2>4 DEF Copied, SameRow, SameTarget, Proven
<1>7. \A u \in Live' : u <= last'.user
  BY <1>1 DEF Remembers, Live
<1>8. CopyInv'
  BY <1>6, <1>7 DEF CopyInv
<1> QED BY <1>5, <1>8 DEF ArrivalInv

\* A step of nobody's request.
LEMMA ArrivalOthers ==
    ASSUME Inv, ArrivalInv, Remembers, UNCHANGED <<provs, todo, barred, dark>>, last'.prov = last.prov
    PROVE  ArrivalInv'
<1>1. BarredInv'
  BY DEF ArrivalInv, BarredInv, BarsOff, On, Via
<1>2. ASSUME NEW d \in Clients, todo[d] # <<>> PROVE Copied(todo[d][1])'
  <2>1. PICK y : y = todo[d][1] OBVIOUS
  <2>2. y \in Stmt /\ Copied(y)
    BY <1>2, <2>1, ListTail DEF Inv, Typed, ArrivalInv, CopyInv
  <2>3. Copied(y)' BY <2>2, CopiedStays DEF Inv
  <2> QED BY <2>1, <2>3 DEF Copied, SameRow, SameTarget, Proven
<1>3. \A u \in Live' : u <= last'.user
  BY DEF Remembers, Live
<1>4. CopyInv'
  BY <1>2, <1>3 DEF CopyInv, Copied, SameRow, SameTarget, Proven
<1> QED BY <1>1, <1>4 DEF ArrivalInv

\* Every step.
LEMMA ArrivalNext ==
    ASSUME Inv, Inv', ArrivalInv, [Next]_vars
    PROVE  ArrivalInv'
<1>1. CASE \E c \in Clients : Request(c) \/ Statement(c) \/ Lose(c)
  BY <1>1, ArrivalStep
<1>2. CASE \/ \E c \in Clients : DisableUser(c) \/ DeleteUser(c)
           \/ \E f \in FlowIds : Expire(f)
           \/ CleanupExpiredFlows
  <2>1. Remembers /\ UNCHANGED <<provs, todo, barred, dark>>
    BY <1>2, OthersRemember DEF ArrivalInv
  <2>2. last'.prov = last.prov
    BY <1>2 DEF DisableUser, DeleteUser, Expire, CleanupExpiredFlows
  <2> QED BY <2>1, <2>2, ArrivalOthers
<1>3. CASE UNCHANGED vars
  <2>1. UNCHANGED <<users, flows, last, provs, todo, barred, dark>> BY <1>3 DEF vars
  <2>2. Remembers BY <2>1, NothingForgotten DEF Inv, ArrivalInv
  <2> QED BY <2>1, <2>2, ArrivalOthers
<1> QED BY <1>1, <1>2, <1>3 DEF Next

\* The first state: nothing is barred and no request has copied anything.
LEMMA ArrivalInit == ASSUME Init PROVE ArrivalInv
<1>1. BarredInv
  BY DEF Init, BarredInv, BarsOff
<1>2. Inv
  BY InitKeeps
<1>3. PICK U : U = load.users OBVIOUS
<1>4. /\ users = [u \in UserIds |-> IF u \in DOMAIN U THEN U[u] ELSE None] /\ last.user = Len(U) /\ U \in Seq(User)
  BY <1>3, ExternalAuthAssumption DEF Init
<1>5. DOMAIN U = 1..Len(U) /\ Len(U) \in Nat
  BY <1>4, LenProperties
<1>6. \A u \in Live : u <= last.user
  BY <1>4, <1>5 DEF Live
<1>7. CopyInv
  BY <1>6 DEF Init, CopyInv
<1> QED BY <1>1, <1>7 DEF ArrivalInv

\* It holds in every state.
LEMMA ArrivalHolds == Spec => []ArrivalInv
<1>1. Init => ArrivalInv
  BY ArrivalInit
<1>2. Inv /\ Inv' /\ ArrivalInv /\ [Next]_vars => ArrivalInv'
  BY ArrivalNext
<1> QED BY <1>1, <1>2, InvHolds, PTL DEF Spec

\* What a commit that uses up the flow of a mail links.
Linking(f) ==
    \A i \in links' \ links :
       /\ i.prov = flows[f].prov /\ i.sub = flows[f].sub
       /\ users'[i.user].email # None => users'[i.user].verified
       /\ i.user \notin Live => users'[i.user].email = flows[f].target
\* The step uses up the flow.
UsesUp(f) == flows[f] # None /\ ~ flows[f].used /\ flows'[f] # None /\ flows'[f].used

\* A flow is used up by the request that takes it, and by no other step.
LEMMA TakenOnly ==
    ASSUME Typed, NEW f \in FlowIds, Taken(f), NEW g \in FlowIds, UsesUp(g)
    PROVE  g = f
  BY DEF Typed, Taken, UsesUp

\* A confirmed mail links the account that has proven the address, or a new one with it.
LEMMA ConfirmLinks ==
    ASSUME Inv, CopyInv, NEW c \in Clients, ConfirmCommit(c), NEW g \in FlowIds, UsesUp(g)
    PROVE  Linking(g)
<1>1. At(c, "ccommit")
  BY DEF ConfirmCommit
<1>2. PICK x : x = Job(c) OBVIOUS
<1>3. x \in ConfirmedStmt /\ x.j = "ccommit" /\ Copied(x)
  BY <1>1, <1>2, HeadIs, StmtIs DEF CopyInv
<1>4. PICK p, s, e, f : p = x.row.prov /\ s = x.row.sub /\ e = x.row.target /\ f = x.f OBVIOUS
<1>5. f \in FlowIds /\ e \in Emails /\ SameRow(f, p, s) /\ SameTarget(f, e)
  BY <1>3, <1>4 DEF ConfirmedStmt, MailRow, Copied
<1>6. \/ UNCHANGED <<links, flows>>
      \/ \E u \in Resolved(p, s, e) :
            /\ Active(f) /\ Taken(f)
            /\ IF u \in Live THEN UNCHANGED <<users, last>> ELSE AddUser(Registered(e, TRUE))
            /\ links' = IF Linked(p, s) = {} THEN links \cup {Link(u, p, p, s)} ELSE links
  BY <1>2, <1>4 DEF ConfirmCommit
<1>7. ~ UNCHANGED flows
  BY DEF UsesUp
<1>8. PICK u \in Resolved(p, s, e) :
         /\ Active(f) /\ Taken(f)
         /\ IF u \in Live THEN UNCHANGED <<users, last>> ELSE AddUser(Registered(e, TRUE))
         /\ links' = IF Linked(p, s) = {} THEN links \cup {Link(u, p, p, s)} ELSE links
  BY <1>6, <1>7
<1>9. g = f
  BY <1>5, <1>8, TakenOnly DEF Inv
<1>10. flows[f].prov = p /\ flows[f].sub = s /\ flows[f].target = e
  BY <1>5, <1>8 DEF SameRow, SameTarget, Active
<1>11. CASE Linked(p, s) = {}
  <2>1. PICK l : l = Link(u, p, p, s) OBVIOUS
  <2>2. l.user = u /\ l.prov = p /\ l.sub = s /\ \A i \in links' \ links : i = l
    BY <1>8, <1>11, <2>1 DEF Link
  <2>3. CASE u \in Live
    <3>1. users' = users /\ users[u].verified
      <4>1. u \in HasEmail(e) => users[u].verified BY <1>11, <2>3 DEF Resolved
      <4>2. u \in HasEmail(e)
        <5>1. u # last.user + 1
          <6>1. u \in UserIds /\ u <= last.user BY <2>3 DEF CopyInv, Live
          <6> QED BY <6>1, Numbers DEF Inv
        <5> QED BY <1>11, <5>1 DEF Resolved
      <4> QED BY <1>8, <2>3, <4>1, <4>2
    <3> QED BY <1>9, <1>10, <2>2, <2>3, <3>1 DEF Linking
  <2>4. CASE u \notin Live
    <3>1. u = last.user + 1 BY <1>11, <2>4 DEF Resolved, HasEmail
    <3>2. PICK r : r = Registered(e, TRUE) OBVIOUS
    <3>3. r \in User /\ r.email = e /\ r.verified = TRUE /\ AddUser(r)
      BY <1>5, <1>8, <2>4, <3>2 DEF Registered, User
    <3>4. users'[u] = r BY <3>1, <3>3, UserAdded DEF Inv
    <3> QED BY <1>9, <1>10, <2>2, <3>3, <3>4 DEF Linking
  <2> QED BY <2>3, <2>4
<1>12. CASE Linked(p, s) # {}
  BY <1>8, <1>12 DEF Linking
<1> QED BY <1>11, <1>12

\* A password links the account it belongs to.
LEMMA PasswordLinks ==
    ASSUME Inv, CopyInv, NEW c \in Clients, PasswordCommit(c), NEW g \in FlowIds, UsesUp(g)
    PROVE  Linking(g)
<1>1. At(c, "pcommit") /\ users' = users
  BY DEF PasswordCommit
<1>2. PICK x : x = Job(c) OBVIOUS
<1>3. x \in ProvenStmt /\ x.j = "pcommit" /\ Copied(x)
  BY <1>1, <1>2, HeadIs, StmtIs DEF CopyInv
<1>4. PICK f, l : f = x.f /\ l = Link(x.u, x.p, x.p, x.sub) OBVIOUS
<1>5. f \in FlowIds /\ SameRow(f, x.p, x.sub) /\ Proven(x.u)
  BY <1>3, <1>4 DEF ProvenStmt, Copied
<1>6. UNCHANGED flows \/ (Active(f) /\ Taken(f) /\ x.u \in Live /\ links' = links \cup {l})
  BY <1>2, <1>4 DEF PasswordCommit
<1>7. Active(f) /\ Taken(f) /\ x.u \in Live /\ links' = links \cup {l}
  BY <1>6 DEF UsesUp
<1>8. g = f
  BY <1>5, <1>7, TakenOnly DEF Inv
<1>9. flows[f].prov = x.p /\ flows[f].sub = x.sub
  BY <1>5, <1>7 DEF SameRow, Active
<1>10. l.user = x.u /\ l.prov = x.p /\ l.sub = x.sub /\ \A i \in links' \ links : i = l
  BY <1>4, <1>7 DEF Link
<1>11. users[x.u].email # None => users[x.u].verified
  BY <1>5, <1>7 DEF Proven, Live
<1> QED BY <1>1, <1>7, <1>8, <1>9, <1>10, <1>11 DEF Linking

\* Every other step leaves the flows of mails unused or makes no link.
LEMMA OtherLinks ==
    ASSUME Inv, CopyInv, NEW c \in Clients, Request(c) \/ Statement(c) \/ Lose(c) \/ DisableUser(c) \/ DeleteUser(c),
           ~ ConfirmCommit(c), ~ PasswordCommit(c), NEW g \in FlowIds, UsesUp(g)
    PROVE  Linking(g)
<1> SUFFICES links' \subseteq links
  BY DEF Linking
<1> USE DEF db, env
<1>0. ~ UNCHANGED flows
  BY DEF UsesUp
<1>1. CASE FindFlow(c) \/ ConsumeFlow(c) \/ CheckProvider(c) \/ Exchange(c) \/ FindIdentity(c) \/ ResolveByEmail(c)
  BY <1>1 DEF FindFlow, ConsumeFlow, CheckProvider, Exchange, FindIdentity, ResolveByEmail
<1>2. CASE AutoLink(c) \/ Provision(c) \/ ApplyBinding(c)
  BY <1>0, <1>2 DEF AutoLink, Provision, ApplyBinding
<1>3. CASE TouchAndRead(c) \/ IssueSession(c) \/ ReadForMail(c) \/ MailCommit(c) \/ ReadForConfirm(c) \/ ReadForPassword(c)
  BY <1>3 DEF TouchAndRead, IssueSession, ReadForMail, MailCommit, ReadForConfirm, ReadForPassword
<1>4. CASE CheckBindingProvider(c) \/ ReadDevice(c) \/ PollDevice(c) \/ CallService(c) \/ ExchangeMinecraft(c)
  BY <1>4 DEF CheckBindingProvider, ReadDevice, PollDevice, CallService, ExchangeMinecraft
<1>5. CASE ReadLink(c) \/ ChooseKey(c) \/ InsertProvider(c) \/ StoreProvider(c) \/ Lose(c) \/ DisableUser(c)
  BY <1>5 DEF ReadLink, ChooseKey, InsertProvider, StoreProvider, Lose, DisableUser
<1>6. CASE Unlink(c) \/ RemoveProvider(c) \/ DeleteUser(c)
  BY <1>6 DEF Unlink, RemoveProvider, DeleteUser, Free
<1>7. CASE OpenLogin(c) \/ OpenBinding(c) \/ OpenPending(c)
  BY <1>7 DEF OpenLogin, OpenBinding, OpenPending
<1>8. CASE Request(c)
  BY <1>0, <1>8, RequestProceeds
<1> QED BY <1>1, <1>2, <1>3, <1>4, <1>5, <1>6, <1>7, <1>8 DEF Statement

-----------------------------------------------------------------------------
(* The theorems                                                            *)

(* However many callbacks, mailed links, passwords and device polls return *)
(* with one flow at once, one of them brings about one login or one link   *)
(* (consume_by_state_hash, consume_by_id, mark_consumed_if_unused decide), *)
(* and one of them sends one mail (update_email_request decides).          *)
THEOREM FlowsAreSpentOnce == Spec => []FlowSpentOnce
<1>1. Inv => FlowSpentOnce
  <2> SUFFICES ASSUME Inv, NEW f \in FlowIds PROVE ends[f] <= 1 /\ mails[f] <= 1
    BY DEF FlowSpentOnce, FlowEndsOnce, OneMailPerFlow
  <2>1. ends[f] \in {0, 1} /\ mails[f] \in {0, 1} BY DEF Inv, FlowInv
  <2> QED BY <2>1
<1> QED BY <1>1, InvHolds, PTL

(* Between any two statements of any requests the rows agree: an account   *)
(* without an address has a link through which it is entered, unless a     *)
(* provider was deleted, and who is linked to a Minecraft account owns its *)
(* profile (external_auth_identity_can_unlink, apply_minecraft_binding and *)
(* the transactions that create an account together with its link).        *)
THEOREM AccountsAndLinksAgree == Spec => []LinksConsistent
<1>1. Inv => LinksConsistent
  <2> SUFFICES ASSUME Inv PROVE TypeOK /\ NoOrphanAccount /\ BoundProfile
    BY DEF LinksConsistent
  <2>1. /\ last.prov \in 0..MaxProv /\ last.user \in 0..MaxUser /\ last.flow \in 0..MaxFlow
        /\ \A e \in entries : e.user \in UserIds
    BY DEF Inv, Typed
  <2>2. TypeOK BY <2>1 DEF Inv, Typed, TypeOK
  <2>3. NoOrphanAccount BY DEF Inv, OrphanInv, Reachable, NoOrphanAccount
  <2> QED BY <2>2, <2>3 DEF Inv
<1> QED BY <1>1, InvHolds, PTL

(* A visitor the provider vouches for enters one account, however his      *)
(* callbacks, confirmed mails and password links interleave, as long as    *)
(* nobody gave up the link: the unique index on namespace and subject      *)
(* decides between two requests that both found no link.                   *)
LEMMA VisitorsKeepTheirAccount == Spec => []OneAccountPerVisitor
<1>1. Inv => OneAccountPerVisitor
  <2> SUFFICES ASSUME Inv, NEW a \in entries, NEW b \in entries,
                      a.ns = b.ns, a.sub = b.sub, <<a.ns, a.sub>> \notin released
               PROVE  a.user = b.user
    BY DEF OneAccountPerVisitor
  <2>1. PICK i \in links : i.ns = a.ns /\ i.sub = a.sub /\ i.user = a.user
    BY DEF Inv, VisitInv, LedTo
  <2>2. PICK k \in links : k.ns = b.ns /\ k.sub = b.sub /\ k.user = b.user
    BY DEF Inv, VisitInv, LedTo
  <2> QED BY <2>1, <2>2 DEF Inv, VisitInv
<1> QED BY <1>1, InvHolds, PTL

(* Whoever enters through a provider enters the account that is theirs, as *)
(* long as nobody gave up the link, and through a provider that has been   *)
(* enabled at some time since they came: a callback, a mailed link or a    *)
(* password that reaches the server after the provider was switched off    *)
(* logs nobody in (finish_callback and ensure_provider_enabled read the    *)
(* provider before anything is looked up; what follows goes on with it).   *)
THEOREM EntriesAreRight == Spec => []EntryIsRight
<1>1. ArrivalInv => DarkProviderIsDark
  BY DEF ArrivalInv, BarredInv, DarkProviderIsDark
<1> QED BY <1>1, VisitorsKeepTheirAccount, ArrivalHolds, PTL DEF EntryIsRight

(* What a commit links is what the flow was opened for and to an account   *)
(* that has proven its address, although flow and account were read before *)
(* the commit and may have changed or gone since: rows of flows keep their *)
(* provider, subject and first target, accounts keep what they have proven.*)
THEOREM MailsLinkTheProven == Spec => MailLinksProven
<1>1. Inv /\ ArrivalInv /\ [Next]_vars =>
         [\A f \in FlowIds :
             (/\ flows[f] # None /\ flows[f].kind = "mail" /\ ~ flows[f].used
              /\ flows'[f] # None /\ flows'[f].used)
             => \A i \in links' \ links :
                   /\ i.prov = flows[f].prov /\ i.sub = flows[f].sub
                   /\ users'[i.user].email # None => users'[i.user].verified
                   /\ i.user \notin Live => users'[i.user].email = flows[f].target]_vars
  <2> SUFFICES ASSUME Inv, ArrivalInv, Next, NEW f \in FlowIds, UsesUp(f) PROVE Linking(f)
    BY DEF UsesUp, Linking
  <2>1. CASE \E c \in Clients : Request(c) \/ Statement(c) \/ Lose(c) \/ DisableUser(c) \/ DeleteUser(c)
    BY <2>1, ConfirmLinks, PasswordLinks, OtherLinks DEF ArrivalInv
  <2>2. CASE (\E g \in FlowIds : Expire(g)) \/ CleanupExpiredFlows
    BY <2>2 DEF Expire, CleanupExpiredFlows, Linking
  <2> QED BY <2>1, <2>2 DEF Next
<1> QED BY <1>1, InvHolds, ArrivalHolds, PTL DEF Spec, MailLinksProven
=============================================================================
