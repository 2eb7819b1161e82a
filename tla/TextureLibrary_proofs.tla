------------------------ MODULE TextureLibrary_proofs ------------------------
(***************************************************************************)
(* Proofs about TextureLibrary, for any number of users, requests,         *)
(* textures, tags and reports and every workload: what the library lists   *)
(* was cleared, tags and reports agree with the textures, and a handled    *)
(* report keeps its verdict.                                               *)
(***************************************************************************)
EXTENDS TextureLibrary, FiniteSetTheorems, SequenceTheorems, TLAPS

-----------------------------------------------------------------------------
(* The inductive invariant                                                 *)

\* The statements of a request, with their arguments.
Statement ==
    [j : {"sread", "wread", "cread", "tread", "preport", "pfind", "pcreate"}, u : Users, t : TexIds]
    \cup [j : {"vread"}, u : Users, t : TexIds, v : Visibilities]
    \cup [j : {"rread", "ccreate"}, u : Users, t : TexIds, k : Contents]
    \cup [j : {"vwrite"}, t : TexIds, v : Visibilities]
    \cup [j : {"rwrite"}, t : TexIds, k : Contents, snap : Texture]
    \cup [j : {"swrite", "down", "jread", "jwrite", "uread", "pending"}, t : TexIds]
    \cup [j : {"awrite"}, t : TexIds, k : Contents]
    \cup [j : {"clist"}, t : TexIds, to : TexIds]
    \cup [j : {"tcheck", "tclear"}, t : TexIds, gs : SUBSET TagIds]
    \cup [j : {"tadd"}, t : TexIds, g : TagIds]
    \cup [j : {"aread"}, t : TexIds, gs : {None} \cup SUBSET TagIds]
    \cup [j : {"hread", "handle"}, r : ReportIds, verdict : {"accepted", "rejected"}]
    \cup [j : {"gfind"}, n : Names, g : {None} \cup TagIds]
    \cup [j : {"gcreate"}, n : Names, g : {None}]
    \cup [j : {"gwrite"}, n : Names, g : TagIds]
    \cup [j : {"gdel"}, g : TagIds]
Typed == TypeOK /\ todo \in [Clients -> Seq(Statement)]

\* Statements that stand in a list with others.
Together == {"tread", "tcheck", "tclear", "tadd", "awrite", "down", "pending", "handle"}
\* The other statements are alone, reports are listed before any is handled, and each is handled once.
ShapeOf(q) ==
    /\ \A n \in DOMAIN q : q[n].j \notin Together => Len(q) = 1
    /\ \A m, n \in DOMAIN q : q[n].j = "pending" => m = n \/ q[m].j = "down"
    /\ \A m, n \in DOMAIN q : q[m].j = "handle" /\ q[n].j = "handle" /\ q[m].r = q[n].r => m = n
\* Reports are handled by those who judge.
Judging == {"hread", "uread", "pending", "handle"}
JudgedBy(c, q) == \A n \in DOMAIN q : q[n].j \in Judging => Judges(c)
ShapeInv == \A c \in Clients : ShapeOf(todo[c]) /\ JudgedBy(c, todo[c])

\* A report about to be handled is open still.
HandleOk(x) == x.j = "handle" => reports[x.r] = None \/ reports[x.r].status = "pending"
HandleInv == OneJudge => \A c \in Clients : \A n \in DOMAIN todo[c] : HandleOk(todo[c][n])

\* What a request read holds until it writes, when no other request is under way.
Sound(x) ==
    /\ x.j \in {"swrite", "jwrite", "awrite"} => tex[x.t] = None \/ tex[x.t].vis = "public"
    /\ x.j = "awrite" => tex[x.t] = None \/ tex[x.t].content = x.k
    /\ x.j = "pcreate" => \A r \in PendingOf(x.t) : reports[r].by # x.u
Single == \A c, d \in Clients : todo[c] # <<>> /\ todo[d] # <<>> => c = d
SerialInv == load.serial => Single /\ \A c \in Clients : \A n \in DOMAIN todo[c] : Sound(todo[c][n])

\* A published texture was cleared even while it is private: its owner may show it again.
PublishedWasCleared == \A t \in Live : tex[t].status = "published" => <<t, tex[t].content>> \in cleared \cup overtaken

Inv == Typed /\ ShapeInv /\ HandleInv /\ SerialInv /\ PublishedWasCleared /\ ListingIsRight /\ TagsExist /\ OneOpenReport

-----------------------------------------------------------------------------
(* Statements and lists of them                                            *)

\* No row is mistaken for None.
LEMMA NoRow ==
    /\ None \notin Texture /\ None \notin Report /\ None \notin Names /\ None \notin TagIds
    /\ TexIds \subseteq Nat /\ TagIds \subseteq Nat /\ ReportIds \subseteq Nat
  BY LibraryAssumption DEF TexIds, TagIds, ReportIds

\* What a request may be given.
LEMMA LoadType ==
    ASSUME load \in Workloads
    PROVE  load.texs \subseteq TexIds /\ load.contents \subseteq Contents /\ load.review \in BOOLEAN /\ load.serial \in BOOLEAN
  BY LibraryAssumption

LEMMA JobType ==
    ASSUME Typed, NEW c \in Clients, todo[c] # <<>>
    PROVE  /\ Job(c) \in Statement /\ Job(c) = todo[c][1] /\ 1 \in DOMAIN todo[c] /\ todo[c] \in Seq(Statement)
           /\ Len(todo[c]) \in Nat \ {0}
<1>1. todo[c] \in Seq(Statement)
  BY DEF Typed
<1>2. Len(todo[c]) \in Nat \ {0}
  BY <1>1
<1> QED BY <1>1, <1>2 DEF Job

\* The arguments a statement has.
LEMMA Fields ==
    ASSUME NEW x \in Statement
    PROVE  /\ x.j \notin {"tadd", "gfind", "gcreate", "gwrite", "gdel", "hread", "handle"} => x.t \in TexIds
           /\ x.j = "tadd" => x.t \in TexIds /\ x.g \in TagIds
           /\ x.j \in {"sread", "wread", "cread", "tread", "preport", "pfind", "pcreate", "vread", "rread", "ccreate"} => x.u \in Users
           /\ x.j \in {"rread", "ccreate", "rwrite", "awrite"} => x.k \in Contents
           /\ x.j \in {"vread", "vwrite"} => x.v \in Visibilities
           /\ x.j = "clist" => x.to \in TexIds
           /\ x.j \in {"tcheck", "tclear"} => x.gs \in SUBSET TagIds
           /\ x.j = "aread" => x.gs \in {None} \cup SUBSET TagIds
           /\ x.j \in {"hread", "handle"} => x.r \in ReportIds /\ x.verdict \in {"accepted", "rejected"}
           /\ x.j \in {"gfind", "gcreate", "gwrite"} => x.n \in Names
           /\ x.j = "gfind" => x.g \in {None} \cup TagIds
           /\ x.j \in {"gwrite", "gdel"} => x.g \in TagIds
<1>1. x.j \notin {"tadd", "gfind", "gcreate", "gwrite", "gdel", "hread", "handle"} => x.t \in TexIds
  BY DEF Statement
<1>2. /\ x.j = "tadd" => x.t \in TexIds /\ x.g \in TagIds
      /\ x.j \in {"gwrite", "gdel"} => x.g \in TagIds
      /\ x.j = "clist" => x.to \in TexIds
  BY DEF Statement
<1>3. x.j \in {"sread", "wread", "cread", "tread", "preport", "pfind", "pcreate", "vread", "rread", "ccreate"} => x.u \in Users
  BY DEF Statement
<1>4. /\ x.j \in {"rread", "ccreate", "rwrite", "awrite"} => x.k \in Contents
      /\ x.j \in {"vread", "vwrite"} => x.v \in Visibilities
  BY DEF Statement
<1>5. /\ x.j \in {"tcheck", "tclear"} => x.gs \in SUBSET TagIds
      /\ x.j = "aread" => x.gs \in {None} \cup SUBSET TagIds
  BY DEF Statement
<1>6. x.j \in {"hread", "handle"} => x.r \in ReportIds /\ x.verdict \in {"accepted", "rejected"}
  BY DEF Statement
<1>7. /\ x.j \in {"gfind", "gcreate", "gwrite"} => x.n \in Names
      /\ x.j = "gfind" => x.g \in {None} \cup TagIds
  BY DEF Statement
<1> QED BY <1>1, <1>2, <1>3, <1>4, <1>5, <1>6, <1>7

\* The list of a request after a statement: the statements it asked for, then the rest.
LEMMA Spliced ==
    ASSUME NEW S, NEW q \in Seq(S), q # <<>>, NEW s \in Seq(S)
    PROVE  /\ s \o Tail(q) \in Seq(S) /\ Len(s \o Tail(q)) = Len(s) + Len(q) - 1
           /\ \A n \in DOMAIN (s \o Tail(q)) : \/ n \in DOMAIN s /\ (s \o Tail(q))[n] = s[n]
                                               \/ /\ n \notin DOMAIN s /\ n - Len(s) + 1 \in DOMAIN q /\ n - Len(s) + 1 > 1
                                                  /\ (s \o Tail(q))[n] = q[n - Len(s) + 1]
<1>1. PICK u \in Seq(S) : u = Tail(q)
  BY HeadTailProperties
<1>2. Len(q) \in Nat \ {0} /\ Len(u) = Len(q) - 1 /\ \A n \in 1 .. Len(u) : u[n] = q[n + 1]
  BY <1>1
<1>3. PICK w \in Seq(S) : w = s \o u
  BY ConcatProperties
<1>4. /\ Len(s) \in Nat /\ Len(w) = Len(s) + Len(u) /\ DOMAIN w = 1 .. Len(w) /\ DOMAIN s = 1 .. Len(s) /\ DOMAIN q = 1 .. Len(q)
      /\ \A n \in 1 .. Len(s) : w[n] = s[n]
      /\ \A n \in Len(s) + 1 .. Len(s) + Len(u) : w[n] = u[n - Len(s)]
  BY <1>3
<1>5. ASSUME NEW n \in DOMAIN w, n \notin DOMAIN s
      PROVE  n - Len(s) + 1 \in DOMAIN q /\ n - Len(s) + 1 > 1 /\ w[n] = q[n - Len(s) + 1]
  <2>1. n \in Len(s) + 1 .. Len(s) + Len(u) /\ n - Len(s) \in 1 .. Len(u)
    BY <1>2, <1>4, <1>5
  <2>2. w[n] = u[n - Len(s)] BY <1>4, <2>1
  <2>3. u[n - Len(s)] = q[n - Len(s) + 1] BY <1>2, <2>1
  <2> QED BY <1>2, <1>4, <2>1, <2>2, <2>3
<1> QED BY <1>1, <1>2, <1>3, <1>4, <1>5

\* A finite set as a sequence: its elements, each once.
LEMMA Listing ==
    ASSUME NEW S, IsFiniteSet(S)
    PROVE  /\ SetToSeq(S) \in Seq(S) /\ \A n \in DOMAIN SetToSeq(S) : SetToSeq(S)[n] \in S
           /\ \A m, n \in DOMAIN SetToSeq(S) : SetToSeq(S)[m] = SetToSeq(S)[n] => m = n
<1>1. PICK k \in Nat : k = Cardinality(S) /\ ExistsBijection(1 .. k, S)
  BY FS_CardinalityType
<1>2. PICK f \in Bijection(1 .. k, S) : TRUE
  BY <1>1 DEF ExistsBijection
<1>3. f \in [1 .. k -> S] /\ \A a, b \in 1 .. k : f[a] = f[b] => a = b
  BY <1>2 DEF Bijection, Injection, Surjection, IsInjective
<1>4. DOMAIN f = 1 .. k
  BY <1>3
<1>5. IsInjective(f)
  BY <1>3, <1>4 DEF IsInjective
<1>6. PICK g : g = SetToSeq(S) OBVIOUS
<1>7. g \in [1 .. k -> S] /\ IsInjective(g)
  BY <1>1, <1>3, <1>5, <1>6 DEF SetToSeq
<1>8. g \in Seq(S) /\ DOMAIN g = 1 .. k
  BY <1>7
<1>9. \A m, n \in DOMAIN g : g[m] = g[n] => m = n
  BY <1>7 DEF IsInjective
<1> QED BY <1>6, <1>7, <1>8, <1>9

\* The values of a function on a finite set.
LEMMA ImageFinite ==
    ASSUME NEW S, IsFiniteSet(S), NEW f, DOMAIN f = S, f = [x \in S |-> f[x]]
    PROVE  IsFiniteSet({f[x] : x \in S})
<1>1. PICK T : T = {f[x] : x \in S} OBVIOUS
<1>2. f \in [S -> T] /\ \A y \in T : \E x \in S : f[x] = y
  BY <1>1
<1>3. f \in Surjection(S, T)
  BY <1>2 DEF Surjection
<1> QED BY <1>1, <1>3, FS_Surjection

\* What a statement may put before the rest of its list.
Follows(x, s) ==
    \/ s = <<>>
    \/ x.j \notin Together /\ ShapeOf(s) /\ \A n \in DOMAIN s : s[n].j \in Judging => x.j \in Judging
    \/ x.j \in {"tcheck", "tclear"} /\ \A n \in DOMAIN s : s[n].j \in {"tclear", "tadd"}
    \/ /\ x.j = "pending" /\ \A n \in DOMAIN s : s[n].j = "handle"
       /\ \A m, n \in DOMAIN s : s[m].r = s[n].r => m = n

\* The list keeps its shape.
LEMMA SplicedShape ==
    ASSUME NEW q \in Seq(Statement), q # <<>>, NEW s \in Seq(Statement), ShapeOf(q), Follows(q[1], s)
    PROVE  /\ ShapeOf(s \o Tail(q))
           /\ \A c : JudgedBy(c, q) => JudgedBy(c, s \o Tail(q))
<1>1. PICK w \in Seq(Statement) : w = s \o Tail(q)
  BY Spliced
<1>2. /\ Len(w) = Len(s) + Len(q) - 1 /\ Len(s) \in Nat /\ Len(q) \in Nat \ {0}
      /\ DOMAIN w = 1 .. Len(w) /\ DOMAIN s = 1 .. Len(s) /\ DOMAIN q = 1 .. Len(q)
  BY <1>1, Spliced
<1>3. \A n \in DOMAIN w : \/ n \in DOMAIN s /\ w[n] = s[n]
                          \/ n \notin DOMAIN s /\ n - Len(s) + 1 \in DOMAIN q /\ n - Len(s) + 1 > 1 /\ w[n] = q[n - Len(s) + 1]
  BY <1>1, Spliced
<1>4. CASE q[1].j \notin Together
  <2>1. Len(q) = 1 /\ Len(w) = Len(s) BY <1>2, <1>4 DEF ShapeOf
  <2>2. \A n \in DOMAIN w : n \in DOMAIN s /\ w[n] = s[n] BY <1>2, <2>1, <1>3
  <2>3. CASE s = <<>> BY <1>1, <1>2, <2>1, <2>2, <2>3 DEF ShapeOf, JudgedBy
  <2>4. CASE s # <<>>
    <3>1. ShapeOf(s) /\ \A n \in DOMAIN s : s[n].j \in Judging => q[1].j \in Judging
      BY <1>4, <2>4 DEF Follows, Together
    <3>2. ShapeOf(w) BY <2>1, <2>2, <3>1 DEF ShapeOf
    <3>3. 1 \in DOMAIN q BY <1>2
    <3> QED BY <1>1, <2>2, <3>1, <3>2, <3>3 DEF JudgedBy
  <2> QED BY <2>3, <2>4
<1>5. CASE q[1].j \in Together
  <2>1. \A n \in DOMAIN s : s[n].j \in {"tclear", "tadd", "handle"} /\ (s[n].j = "handle" => q[1].j = "pending")
    BY <1>5 DEF Follows
  <2>2. s # <<>> => q[1].j # "down" BY <1>5 DEF Follows
  <2>3. q[1].j = "pending" => \A m, n \in DOMAIN s : s[m].r = s[n].r => m = n
    BY <1>5 DEF Follows
  <2>4. ASSUME NEW n \in DOMAIN w, w[n].j \notin Together PROVE Len(w) = 1
    <3>1. CASE n \in DOMAIN s /\ w[n] = s[n] BY <2>1, <2>4, <3>1 DEF Together
    <3>2. CASE n \notin DOMAIN s
      <4>1. PICK a \in DOMAIN q : a > 1 /\ q[a].j \notin Together BY <1>3, <2>4, <3>2
      <4>2. Len(q) = 1 BY <4>1 DEF ShapeOf
      <4> QED BY <1>2, <4>1, <4>2
    <3> QED BY <1>3, <3>1, <3>2
  <2>5. ASSUME NEW m \in DOMAIN w, NEW n \in DOMAIN w, w[n].j = "pending" PROVE m = n \/ w[m].j = "down"
    <3>1. n \notin DOMAIN s /\ n - Len(s) + 1 \in DOMAIN q /\ n - Len(s) + 1 > 1 /\ w[n] = q[n - Len(s) + 1]
      BY <1>3, <2>1, <2>5
    <3>2. 1 \in DOMAIN q /\ 1 # n - Len(s) + 1 BY <1>2, <3>1
    <3>3. q[1].j = "down" BY <3>1, <3>2, <2>5 DEF ShapeOf
    <3>4. s = <<>> /\ Len(s) = 0 /\ DOMAIN s = {} BY <2>2, <3>3
    <3>5. m - Len(s) + 1 \in DOMAIN q /\ w[m] = q[m - Len(s) + 1] BY <1>3, <3>4
    <3>6. m - Len(s) + 1 = n - Len(s) + 1 \/ q[m - Len(s) + 1].j = "down"
      BY <3>1, <3>5, <2>5 DEF ShapeOf
    <3> QED BY <1>2, <3>5, <3>6
  <2>6. ASSUME NEW m \in DOMAIN w, NEW n \in DOMAIN w, w[m].j = "handle", w[n].j = "handle", w[m].r = w[n].r PROVE m = n
    <3>1. ASSUME NEW a \in DOMAIN w, NEW b \in DOMAIN w, w[a].j = "handle", w[b].j = "handle", a \in DOMAIN s PROVE b \in DOMAIN s
      <4>1. w[a] = s[a] BY <1>2, <1>3, <3>1
      <4>2. q[1].j = "pending" /\ 1 \in DOMAIN q BY <1>2, <2>1, <3>1, <4>1
      <4> SUFFICES ASSUME b \notin DOMAIN s PROVE FALSE
        OBVIOUS
      <4>3. b - Len(s) + 1 \in DOMAIN q /\ b - Len(s) + 1 > 1 /\ w[b] = q[b - Len(s) + 1]
        BY <1>3
      <4>4. b - Len(s) + 1 # 1 BY <1>2, <4>3
      <4> QED BY <3>1, <4>2, <4>3, <4>4 DEF ShapeOf
    <3>2. CASE m \in DOMAIN s /\ n \in DOMAIN s
      <4>1. w[m] = s[m] /\ w[n] = s[n] BY <1>3, <3>2
      <4> QED BY <2>1, <2>3, <2>6, <3>2, <4>1
    <3>3. CASE m \notin DOMAIN s /\ n \notin DOMAIN s
      <4>1. /\ m - Len(s) + 1 \in DOMAIN q /\ w[m] = q[m - Len(s) + 1]
            /\ n - Len(s) + 1 \in DOMAIN q /\ w[n] = q[n - Len(s) + 1]
        BY <1>3, <3>3
      <4>2. m - Len(s) + 1 = n - Len(s) + 1 BY <2>6, <4>1 DEF ShapeOf
      <4> QED BY <1>2, <4>1, <4>2
    <3> QED BY <3>1, <3>2, <3>3, <2>6
  <2>7. ShapeOf(w) BY <2>4, <2>5, <2>6 DEF ShapeOf
  <2>8. ASSUME NEW c, JudgedBy(c, q) PROVE JudgedBy(c, w)
    <3> SUFFICES ASSUME NEW n \in DOMAIN w, w[n].j \in Judging PROVE Judges(c)
      BY DEF JudgedBy
    <3>1. CASE n \in DOMAIN s /\ w[n] = s[n]
      <4>1. q[1].j = "pending" /\ 1 \in DOMAIN q BY <1>2, <2>1, <3>1 DEF Judging
      <4> QED BY <2>8, <4>1 DEF JudgedBy, Judging
    <3>2. CASE n \notin DOMAIN s BY <1>3, <2>8, <3>2 DEF JudgedBy
    <3> QED BY <1>3, <3>1, <3>2
  <2> QED BY <1>1, <2>7, <2>8
<1> QED BY <1>4, <1>5


-----------------------------------------------------------------------------
(* How a request goes on                                                   *)

Moves(c, s) == todo[c] # <<>> /\ Follows(Job(c), s) /\ todo' = [todo EXCEPT ![c] = s \o Tail(todo[c])]
\* The statements a request asks for are right at once.
Checked(s) == \A n \in DOMAIN s : HandleOk(s[n]) /\ (load.serial => Sound(s[n]))
Goes(c) == Stop(c) \/ \E s \in Seq(Statement) : Moves(c, s) /\ Checked(s)'

\* A single statement.
LEMMA One ==
    ASSUME NEW x \in Statement
    PROVE  /\ <<x>> \in Seq(Statement) /\ DOMAIN <<x>> = {1} /\ <<x>>[1] = x /\ Len(<<x>>) = 1
           /\ ShapeOf(<<x>>)
<1>1. <<x>> \in Seq(Statement) /\ Len(<<x>>) = 1 /\ <<x>>[1] = x /\ DOMAIN <<x>> = {1} OBVIOUS
<1> QED BY <1>1 DEF ShapeOf

\* Two statements.
LEMMA Two ==
    ASSUME NEW x \in Statement, NEW y \in Statement
    PROVE  <<x>> \o <<y>> = <<x, y>>
<1>1. PICK a \in Seq(Statement) : a = <<x>>
  BY One
<1>2. PICK b \in Seq(Statement) : b = <<y>>
  BY One
<1>3. PICK w \in Seq(Statement) : w = a \o b
  BY ConcatProperties
<1>4. Len(a) = 1 /\ Len(b) = 1 /\ a[1] = x /\ b[1] = y
  BY <1>1, <1>2
<1>5. /\ Len(w) = Len(a) + Len(b)
      /\ \A i \in 1 .. Len(a) + Len(b) : w[i] = IF i <= Len(a) THEN a[i] ELSE b[i - Len(a)]
  BY <1>3, ConcatProperties
<1>6. Len(w) = 2 /\ w[1] = x /\ w[2] = y
  BY <1>4, <1>5
<1>9. <<x, y>> \in Seq(Statement) /\ Len(<<x, y>>) = 2 /\ <<x, y>>[1] = x /\ <<x, y>>[2] = y
  OBVIOUS
<1>7. PICK v \in Seq(Statement) : v = <<x, y>> /\ Len(v) = 2 /\ v[1] = x /\ v[2] = y
  BY <1>9
<1>8. w = v
  BY <1>6, <1>7, SeqEqual
<1> QED BY <1>1, <1>2, <1>3, <1>7, <1>8

\* Nothing is left to do of a statement.
LEMMA GoesOn ==
    ASSUME Typed, NEW c \in Clients, todo[c] # <<>>, Then(c, <<>>)
    PROVE  Goes(c)
<1>1. <<>> \in Seq(Statement) /\ DOMAIN <<>> = {} OBVIOUS
<1>2. Moves(c, <<>>)
  BY DEF Moves, Follows, Then
<1>3. Checked(<<>>)'
  BY <1>1 DEF Checked
<1> QED BY <1>1, <1>2, <1>3 DEF Goes

\* A statement that is alone asks for one other.
LEMMA GoesTo ==
    ASSUME Typed, NEW c \in Clients, todo[c] # <<>>, NEW x \in Statement, Then(c, <<x>>), Job(c).j \notin Together,
           x.j \in Judging => Job(c).j \in Judging, HandleOk(x)', load.serial' => Sound(x)'
    PROVE  Goes(c)
<1>1. <<x>> \in Seq(Statement) /\ DOMAIN <<x>> = {1} /\ <<x>>[1] = x /\ ShapeOf(<<x>>)
  BY One
<1>2. Moves(c, <<x>>)
  BY <1>1 DEF Moves, Follows, Then
<1>3. Checked(<<x>>)'
  BY <1>1 DEF Checked
<1> QED BY <1>1, <1>2, <1>3 DEF Goes

\* A statement that is alone asks for two others.
LEMMA GoesToTwo ==
    ASSUME Typed, NEW c \in Clients, todo[c] # <<>>, NEW x \in Statement, NEW y \in Statement, Then(c, <<x, y>>),
           Job(c).j \notin Together, x.j \in {"tcheck", "down"}, y.j \in {"awrite", "pending", "handle"},
           y.j = "pending" => x.j = "down",
           y.j \in Judging => Job(c).j \in Judging, HandleOk(y)', load.serial' => Sound(y)'
    PROVE  Goes(c)
<1>1. <<x, y>> \in Seq(Statement) /\ DOMAIN <<x, y>> = {1, 2} /\ <<x, y>>[1] = x /\ <<x, y>>[2] = y /\ Len(<<x, y>>) = 2
  OBVIOUS
<1>2. ShapeOf(<<x, y>>)
  BY <1>1 DEF ShapeOf, Together
<1>3. Moves(c, <<x, y>>)
  BY <1>1, <1>2 DEF Moves, Follows, Then, Judging
<1>4. Checked(<<x, y>>)'
  BY <1>1 DEF Checked, HandleOk, Sound
<1> QED BY <1>1, <1>3, <1>4 DEF Goes

\* A write by id goes on, or finds the row gone.
LEMMA WriteGoes ==
    ASSUME Typed, NEW c \in Clients, todo[c] # <<>>, NEW row, Write(c, row)
    PROVE  Goes(c)
  BY GoesOn DEF Write, Goes

\* The read of an owned row.
LEMMA ReadGoes ==
    ASSUME Typed, NEW c \in Clients, NEW j, NEW x \in Statement, Read(c, j, <<x>>), j \notin Together,
           x.j \notin Judging \cup {"swrite", "jwrite", "awrite", "pcreate"}
    PROVE  Goes(c)
<1>1. todo[c] # <<>> /\ Job(c).j = j
  BY DEF Read, At, Job
<1>2. HandleOk(x)' /\ Sound(x)'
  BY DEF HandleOk, Sound, Judging
<1> QED BY <1>1, <1>2, GoesTo DEF Read, Goes

\* The owner's statements.
LEMMA OwnerGoes ==
    ASSUME Typed, NEW c \in Clients,
           \/ VisibilityRead(c) \/ VisibilityWrite(c) \/ ReplaceRead(c) \/ ReplaceWrite(c) \/ ReplaceConflict(c)
           \/ SubmitRead(c) \/ SubmitWrite(c) \/ WithdrawRead(c) \/ TakeDown(c)
    PROVE  Goes(c)
<1>1. todo[c] # <<>>
  BY DEF VisibilityRead, VisibilityWrite, ReplaceRead, ReplaceWrite, ReplaceConflict, SubmitRead, SubmitWrite, WithdrawRead, TakeDown,
         Read, At
<1>2. PICK x \in Statement : x = Job(c)
  BY <1>1, JobType
<1>3. CASE VisibilityWrite(c) \/ ReplaceWrite(c) \/ SubmitWrite(c) \/ TakeDown(c)
  BY <1>1, <1>3, WriteGoes DEF VisibilityWrite, ReplaceWrite, SubmitWrite, TakeDown
<1>4. CASE ReplaceConflict(c)
  BY <1>4 DEF ReplaceConflict, Goes
<1>5. CASE VisibilityRead(c)
  <2>1. PICK y : y = [j |-> "vwrite", t |-> x.t, v |-> x.v] OBVIOUS
  <2>2. x.j = "vread" BY <1>2, <1>5 DEF VisibilityRead, Read, At, Job
  <2>3. y \in Statement BY <2>1, <2>2, Fields DEF Statement
  <2> QED BY <1>1, <1>2, <1>5, <2>1, <2>3, ReadGoes DEF VisibilityRead, Together, Judging
<1>6. CASE WithdrawRead(c)
  <2>1. PICK y : y = [j |-> "down", t |-> x.t] OBVIOUS
  <2>2. x.j = "wread" BY <1>2, <1>6 DEF WithdrawRead, Read, At, Job
  <2>3. y \in Statement BY <2>1, <2>2, Fields DEF Statement
  <2> QED BY <1>1, <1>2, <1>6, <2>1, <2>3, ReadGoes DEF WithdrawRead, Together, Judging
<1>7. CASE ReplaceRead(c)
  <2>1. PICK y : y = [j |-> "rwrite", t |-> x.t, k |-> x.k, snap |-> tex[x.t]] OBVIOUS
  <2>2. x.j = "rread" BY <1>2, <1>7 DEF ReplaceRead, At, Job
  <2>3. ASSUME Owned(x) PROVE y \in Statement
    <3>1. tex[x.t] \in Texture /\ x.t \in TexIds /\ x.k \in Contents
      BY <2>2, <2>3, Fields DEF Typed, TypeOK, Owned
    <3> QED BY <2>1, <3>1 DEF Statement
  <2>4. Stop(c) \/ (Owned(x) /\ Then(c, <<y>>)) BY <1>2, <1>7, <2>1 DEF ReplaceRead
  <2>5. y.j = "rwrite" /\ HandleOk(y)' /\ Sound(y)' BY <2>1 DEF HandleOk, Sound
  <2> QED BY <1>1, <1>2, <2>2, <2>3, <2>4, <2>5, GoesTo DEF Together, Judging, Goes
<1>8. CASE SubmitRead(c)
  <2>1. PICK y : y = [j |-> "swrite", t |-> x.t] OBVIOUS
  <2>2. x.j = "sread" /\ tex' = tex BY <1>2, <1>8 DEF SubmitRead, At, Job, db
  <2>3. y \in Statement /\ y.j = "swrite" /\ y.t = x.t BY <2>1, <2>2, Fields DEF Statement
  <2>4. Stop(c) \/ (Owned(x) /\ tex[x.t].vis = "public" /\ Then(c, <<y>>))
    BY <1>2, <1>8, <2>1 DEF SubmitRead
  <2>5. tex[x.t].vis = "public" => HandleOk(y)' /\ Sound(y)'
    BY <2>2, <2>3 DEF HandleOk, Sound
  <2> QED BY <1>1, <1>2, <2>2, <2>3, <2>4, <2>5, GoesTo DEF Together, Judging, Goes
<1> QED BY <1>3, <1>4, <1>5, <1>6, <1>7, <1>8

\* The statements about copies and bindings of tags.
LEMMA TagsGo ==
    ASSUME Typed, NEW c \in Clients,
           CopyRead(c) \/ CopyCreate(c) \/ CopyTags(c) \/ TagsRead(c) \/ TagsCheck(c) \/ TagsClear(c) \/ TagsAdd(c)
    PROVE  Goes(c)
<1>1. todo[c] # <<>>
  BY DEF CopyRead, CopyCreate, CopyTags, TagsRead, TagsCheck, TagsClear, TagsAdd, Read, At
<1>2. PICK x \in Statement : x = Job(c)
  BY <1>1, JobType
<1>3. CASE TagsAdd(c)
  BY <1>1, <1>3, GoesOn DEF TagsAdd, Goes
<1>4. CASE TagsRead(c)
  BY <1>1, <1>4, GoesOn DEF TagsRead, Read, Goes
<1>5. CASE CopyRead(c)
  <2>1. PICK y : y = [j |-> "ccreate", u |-> x.u, t |-> x.t, k |-> tex[x.t].content] OBVIOUS
  <2>2. x.j = "cread" /\ (Stop(c) \/ (Listed(x.t) /\ Then(c, <<y>>)))
    BY <1>2, <1>5, <2>1 DEF CopyRead, At, Job
  <2>3. ASSUME Listed(x.t) PROVE y \in Statement
    <3>1. tex[x.t] \in Texture /\ x.t \in TexIds /\ x.u \in Users
      BY <2>2, <2>3, Fields DEF Typed, TypeOK, Listed
    <3>2. tex[x.t].content \in Contents BY <3>1 DEF Texture
    <3> QED BY <2>1, <3>1, <3>2 DEF Statement
  <2>4. y.j = "ccreate" /\ HandleOk(y)' /\ Sound(y)' BY <2>1 DEF HandleOk, Sound
  <2> QED BY <1>1, <1>2, <2>2, <2>3, <2>4, GoesTo DEF Together, Judging, Goes
<1>6. CASE CopyCreate(c)
  <2>1. PICK t \in load.texs \ Live : Then(c, <<[j |-> "clist", t |-> Job(c).t, to |-> t]>>)
    BY <1>6 DEF CopyCreate
  <2>2. PICK y : y = [j |-> "clist", t |-> x.t, to |-> t] OBVIOUS
  <2>3. x.j = "ccreate" /\ t \in TexIds
    BY <1>2, <1>6, <2>1, LoadType DEF CopyCreate, At, Job, Typed, TypeOK
  <2>4. y \in Statement /\ y.j = "clist" BY <2>2, <2>3, Fields DEF Statement
  <2>5. HandleOk(y)' /\ Sound(y)' BY <2>4 DEF HandleOk, Sound
  <2> QED BY <1>1, <1>2, <2>1, <2>2, <2>3, <2>4, <2>5, GoesTo DEF Together, Judging
<1>7. CASE CopyTags(c)
  <2>1. PICK y : y = [j |-> "tclear", t |-> x.to, gs |-> TagsOf(x.t)] OBVIOUS
  <2>2. x.j = "clist" /\ (Then(c, <<>>) \/ Then(c, <<y>>))
    BY <1>2, <1>7, <2>1 DEF CopyTags, At, Job
  <2>3. y \in Statement /\ y.j = "tclear"
    <3>1. x.to \in TexIds /\ TagsOf(x.t) \in SUBSET TagIds BY <2>2, Fields DEF TagsOf
    <3> QED BY <2>1, <3>1 DEF Statement
  <2>4. HandleOk(y)' /\ Sound(y)' BY <2>3 DEF HandleOk, Sound
  <2> QED BY <1>1, <1>2, <2>2, <2>3, <2>4, GoesTo, GoesOn DEF Together, Judging
<1>8. CASE TagsCheck(c)
  <2>1. PICK y : y = [j |-> "tclear", t |-> x.t, gs |-> x.gs] OBVIOUS
  <2>2. x.j = "tcheck" /\ (Stop(c) \/ Then(c, <<y>>))
    BY <1>2, <1>8, <2>1 DEF TagsCheck, At, Job
  <2>3. y \in Statement /\ y.j = "tclear" BY <2>1, <2>2, Fields DEF Statement
  <2>4. <<y>> \in Seq(Statement) /\ DOMAIN <<y>> = {1} /\ <<y>>[1] = y BY <2>3, One
  <2>5. Follows(x, <<y>>) BY <2>2, <2>3, <2>4 DEF Follows
  <2>6. Checked(<<y>>)' BY <2>3, <2>4 DEF Checked, HandleOk, Sound
  <2> QED BY <1>1, <1>2, <2>2, <2>4, <2>5, <2>6 DEF Goes, Moves, Then
<1>9. CASE TagsClear(c)
  <2>1. PICK S : S = {[j |-> "tadd", t |-> x.t, g |-> g] : g \in x.gs} OBVIOUS
  <2>2. x.j = "tclear" /\ Then(c, SetToSeq(S)) BY <1>2, <1>9, <2>1 DEF TagsClear, At, Job
  <2>3. x.gs \in SUBSET TagIds /\ x.t \in TexIds BY <2>2, Fields
  <2>4. IsFiniteSet(x.gs)
    <3>1. IsFiniteSet(TagIds) BY LibraryAssumption, FS_Interval DEF TagIds
    <3> QED BY <2>3, <3>1, FS_Subset
  <2>5. IsFiniteSet(S)
    <3>1. PICK f : f = [g \in x.gs |-> [j |-> "tadd", t |-> x.t, g |-> g]] OBVIOUS
    <3>2. DOMAIN f = x.gs /\ f = [g \in x.gs |-> f[g]] /\ S = {f[g] : g \in x.gs}
      BY <2>1, <3>1
    <3> QED BY <2>4, <3>2, ImageFinite
  <2>6. S \subseteq Statement /\ \A y \in S : y.j = "tadd" BY <2>1, <2>3 DEF Statement
  <2>7. PICK q : q = SetToSeq(S) OBVIOUS
  <2>8. q \in Seq(Statement) /\ \A n \in DOMAIN q : q[n].j = "tadd"
    BY <2>5, <2>6, <2>7, Listing
  <2>9. Follows(x, q) /\ Checked(q)' BY <2>2, <2>8 DEF Follows, Checked, HandleOk, Sound
  <2> QED BY <1>1, <1>2, <2>2, <2>7, <2>8, <2>9 DEF Goes, Moves, Then
<1> QED BY <1>3, <1>4, <1>5, <1>6, <1>7, <1>8, <1>9

\* The reviewer's statements.
LEMMA ReviewGoes ==
    ASSUME Typed, load.serial => PrivateIsOut, NEW c \in Clients,
           ApproveRead(c) \/ ApproveWrite(c) \/ RejectRead(c) \/ RejectWrite(c) \/ UnpublishRead(c)
    PROVE  Goes(c)
<1>1. todo[c] # <<>>
  BY DEF ApproveRead, ApproveWrite, RejectRead, RejectWrite, UnpublishRead, At
<1>2. PICK x \in Statement : x = Job(c)
  BY <1>1, JobType
<1>3. CASE ApproveWrite(c) \/ RejectWrite(c)
  BY <1>1, <1>3, WriteGoes DEF ApproveWrite, RejectWrite
<1>4. CASE ApproveRead(c)
  <2>1. PICK y, z : y = [j |-> "awrite", t |-> x.t, k |-> tex[x.t].content] /\ z = [j |-> "tcheck", t |-> x.t, gs |-> x.gs]
    OBVIOUS
  <2>2. x.j = "aread" /\ x.t \in TexIds /\ x.gs \in {None} \cup SUBSET TagIds /\ UNCHANGED db
    <3>1. x.j = "aread" /\ UNCHANGED db BY <1>2, <1>4 DEF ApproveRead, At, Job
    <3> QED BY <3>1, Fields
  <2>3. PICK ok : ok <=> tex[x.t] # None /\ tex[x.t].status = "pending" /\ tex[x.t].vis = "public"
    OBVIOUS
  <2>4. /\ ~ ok => Stop(c)
        /\ ok => Then(c, (IF x.gs = None THEN <<>> ELSE <<z>>) \o <<y>>)
    BY <1>2, <1>4, <2>1, <2>3 DEF ApproveRead
  <2>5. ok => y \in Statement
    <3>1. ok => tex[x.t] \in Texture BY <2>2, <2>3 DEF Typed, TypeOK
    <3>2. ok => tex[x.t].content \in Contents BY <3>1 DEF Texture
    <3> QED BY <2>1, <2>2, <3>2 DEF Statement
  <2>6. ok => y.j = "awrite" /\ HandleOk(y)' /\ Sound(y)'
    BY <2>1, <2>2, <2>3 DEF HandleOk, Sound, db
  <2>7. CASE ok /\ x.gs = None
    <3>1. <<>> \o <<y>> = <<y>> OBVIOUS
    <3> QED BY <1>1, <1>2, <2>2, <2>4, <2>5, <2>6, <2>7, <3>1, GoesTo DEF Together, Judging
  <2>8. CASE ok /\ x.gs # None
    <3>2. z \in Statement /\ z.j = "tcheck" BY <2>1, <2>2, <2>8 DEF Statement
    <3>1. <<z>> \o <<y>> = <<z, y>> BY <2>5, <2>8, <3>2, Two
    <3> QED BY <1>1, <1>2, <2>2, <2>4, <2>5, <2>6, <2>8, <3>1, <3>2, GoesToTwo DEF Together, Judging
  <2> QED BY <2>4, <2>7, <2>8 DEF Goes
<1>5. CASE RejectRead(c)
  <2>1. PICK y : y = [j |-> "jwrite", t |-> x.t] OBVIOUS
  <2>2. x.j = "jread" /\ UNCHANGED <<db, load>> BY <1>2, <1>5 DEF RejectRead, At, Job, env
  <2>3. y \in Statement /\ y.j = "jwrite" /\ y.t = x.t /\ x.t \in TexIds
    BY <2>1, <2>2, Fields DEF Statement
  <2>4. Stop(c) \/ (tex[x.t] # None /\ tex[x.t].status = "pending" /\ Then(c, <<y>>))
    BY <1>2, <1>5, <2>1 DEF RejectRead
  <2>5. ASSUME tex[x.t] # None, tex[x.t].status = "pending" PROVE HandleOk(y)' /\ (load.serial' => Sound(y)')
    <3>1. HandleOk(y)' BY <2>3 DEF HandleOk
    <3>2. ASSUME load.serial PROVE tex[x.t].vis = "public"
      <4>1. x.t \in Live /\ tex[x.t] \in Texture BY <2>3, <2>5 DEF Live, Typed, TypeOK
      <4>2. tex[x.t].vis # "private" BY <2>5, <3>2, <4>1 DEF PrivateIsOut
      <4> QED BY <4>1, <4>2 DEF Texture, Visibilities
    <3> QED BY <2>2, <2>3, <3>1, <3>2 DEF Sound, db
  <2> QED BY <1>1, <1>2, <2>2, <2>3, <2>4, <2>5, GoesTo DEF Together, Judging, Goes
<1>6. CASE UnpublishRead(c)
  <2>1. PICK y, z : y = [j |-> "pending", t |-> x.t] /\ z = [j |-> "down", t |-> x.t] OBVIOUS
  <2>2. x.j = "uread" BY <1>2, <1>6 DEF UnpublishRead, At, Job
  <2>3. y \in Statement /\ y.j = "pending" /\ z \in Statement /\ z.j = "down"
    BY <2>1, <2>2, Fields DEF Statement
  <2>4. Stop(c) \/ Then(c, <<z, y>>) BY <1>2, <1>6, <2>1 DEF UnpublishRead
  <2>5. HandleOk(y)' /\ Sound(y)' BY <2>3 DEF HandleOk, Sound
  <2> QED BY <1>1, <1>2, <2>2, <2>3, <2>4, <2>5, GoesToTwo DEF Together, Judging, Goes
<1> QED BY <1>3, <1>4, <1>5, <1>6

\* The statements about reports.
LEMMA ReportsGo ==
    ASSUME Typed, NEW c \in Clients,
           ReportRead(c) \/ ReportFind(c) \/ ReportCreate(c) \/ PendingList(c) \/ HandleRead(c) \/ Handle(c)
    PROVE  Goes(c)
<1>1. todo[c] # <<>>
  BY DEF ReportRead, ReportFind, ReportCreate, PendingList, HandleRead, Handle, At
<1>2. PICK x \in Statement : x = Job(c)
  BY <1>1, JobType
<1>3. CASE ReportCreate(c) \/ Handle(c)
  BY <1>1, <1>3, GoesOn DEF ReportCreate, Handle, Goes
<1>4. CASE ReportRead(c)
  <2>1. PICK y : y = [x EXCEPT !.j = "pfind"] OBVIOUS
  <2>2. x.j = "preport" /\ (Stop(c) \/ Then(c, <<y>>))
    BY <1>2, <1>4, <2>1 DEF ReportRead, At, Job
  <2>3. y \in Statement /\ y.j = "pfind"
    <3>1. x \in [j : {"sread", "wread", "cread", "tread", "preport", "pfind", "pcreate"}, u : Users, t : TexIds]
      BY <2>2 DEF Statement
    <3> QED BY <2>1, <3>1 DEF Statement
  <2>4. HandleOk(y)' /\ Sound(y)' BY <2>3 DEF HandleOk, Sound
  <2> QED BY <1>1, <1>2, <2>2, <2>3, <2>4, GoesTo DEF Together, Judging, Goes
<1>5. CASE ReportFind(c)
  <2>1. PICK y : y = [x EXCEPT !.j = "pcreate"] OBVIOUS
  <2>2. x.j = "pfind" /\ UNCHANGED db /\ (Stop(c) \/ ((\A r \in PendingOf(x.t) : reports[r].by # x.u) /\ Then(c, <<y>>)))
    BY <1>2, <1>5, <2>1 DEF ReportFind, At, Job
  <2>3. y \in Statement /\ y.j = "pcreate" /\ y.t = x.t /\ y.u = x.u
    <3>1. x \in [j : {"sread", "wread", "cread", "tread", "preport", "pfind", "pcreate"}, u : Users, t : TexIds]
      BY <2>2 DEF Statement
    <3> QED BY <2>1, <3>1 DEF Statement
  <2>4. reports' = reports /\ PendingOf(x.t)' = PendingOf(x.t)
    BY <2>2 DEF db, PendingOf, LiveReports
  <2>5. (\A r \in PendingOf(x.t) : reports[r].by # x.u) => HandleOk(y)' /\ Sound(y)'
    BY <2>3, <2>4 DEF HandleOk, Sound
  <2> QED BY <1>1, <1>2, <2>2, <2>3, <2>5, GoesTo DEF Together, Judging, Goes
<1>6. CASE PendingList(c)
  <2>1. PICK S : S = {[j |-> "handle", r |-> r, verdict |-> "accepted"] : r \in PendingOf(x.t)}
    OBVIOUS
  <2>2. x.j = "pending" /\ Then(c, SetToSeq(S)) /\ reports' = reports
    BY <1>2, <1>6, <2>1 DEF PendingList, At, Job, db
  <2>3. PendingOf(x.t) \in SUBSET ReportIds BY DEF PendingOf, LiveReports
  <2>4. IsFiniteSet(S)
    <3>1. IsFiniteSet(PendingOf(x.t))
      <4>1. IsFiniteSet(ReportIds) BY LibraryAssumption, FS_Interval DEF ReportIds
      <4> QED BY <2>3, <4>1, FS_Subset
    <3>2. PICK f : f = [r \in PendingOf(x.t) |-> [j |-> "handle", r |-> r, verdict |-> "accepted"]]
      OBVIOUS
    <3>3. DOMAIN f = PendingOf(x.t) /\ f = [r \in PendingOf(x.t) |-> f[r]] /\ S = {f[r] : r \in PendingOf(x.t)}
      BY <2>1, <3>2
    <3> QED BY <3>1, <3>3, ImageFinite
  <2>5. S \subseteq Statement /\ \A y \in S : y.j = "handle" /\ y.r \in PendingOf(x.t)
    BY <2>1, <2>3 DEF Statement
  <2>6. \A y, z \in S : y.r = z.r => y = z BY <2>1
  <2>7. PICK q : q = SetToSeq(S) OBVIOUS
  <2>8. /\ q \in Seq(Statement) /\ \A n \in DOMAIN q : q[n] \in S
        /\ \A m, n \in DOMAIN q : q[m] = q[n] => m = n
    BY <2>4, <2>5, <2>7, Listing
  <2>9. Follows(x, q) BY <2>2, <2>5, <2>6, <2>8 DEF Follows
  <2>10. Checked(q)' BY <2>2, <2>5, <2>8 DEF Checked, HandleOk, Sound, PendingOf
  <2> QED BY <1>1, <1>2, <2>2, <2>7, <2>8, <2>9, <2>10 DEF Goes, Moves, Then
<1>7. CASE HandleRead(c)
  <2>1. PICK y, z : y = [j |-> "handle", r |-> x.r, verdict |-> x.verdict] /\ z = [j |-> "down", t |-> reports[x.r].t]
    OBVIOUS
  <2>2. x.j = "hread" /\ reports' = reports BY <1>2, <1>7 DEF HandleRead, At, Job, db
  <2>3. PICK ok : ok <=> reports[x.r] # None /\ reports[x.r].status = "pending" OBVIOUS
  <2>4. /\ ~ ok => Stop(c)
        /\ ok => Then(c, (IF x.verdict = "accepted" THEN <<z>> ELSE <<>>) \o <<y>>)
    BY <1>2, <1>7, <2>1, <2>3 DEF HandleRead
  <2>5. y \in Statement /\ y.j = "handle" /\ y.r = x.r /\ x.r \in ReportIds
    BY <2>1, <2>2, Fields DEF Statement
  <2>6. ok => HandleOk(y)' /\ Sound(y)' BY <2>2, <2>3, <2>5 DEF HandleOk, Sound
  <2>7. CASE ok /\ x.verdict # "accepted"
    <3>1. <<>> \o <<y>> = <<y>> OBVIOUS
    <3> QED BY <1>1, <1>2, <2>2, <2>4, <2>5, <2>6, <2>7, <3>1, GoesTo DEF Together, Judging
  <2>8. CASE ok /\ x.verdict = "accepted"
    <3>2. reports[x.r] \in Report BY <2>3, <2>5, <2>8 DEF Typed, TypeOK
    <3>3. z \in Statement /\ z.j = "down" BY <2>1, <3>2 DEF Statement, Report
    <3>1. <<z>> \o <<y>> = <<z, y>> BY <2>5, <3>3, Two
    <3> QED BY <1>1, <1>2, <2>2, <2>4, <2>5, <2>6, <2>8, <3>1, <3>3, GoesToTwo DEF Together, Judging
  <2> QED BY <2>4, <2>7, <2>8 DEF Goes
<1> QED BY <1>3, <1>4, <1>5, <1>6, <1>7

\* The statements about tags.
LEMMA NamesGo ==
    ASSUME Typed, NEW c \in Clients, TagFind(c) \/ TagCreate(c) \/ TagWrite(c) \/ TagDelete(c)
    PROVE  Goes(c)
<1>1. todo[c] # <<>>
  BY DEF TagFind, TagCreate, TagWrite, TagDelete, At
<1>2. PICK x \in Statement : x = Job(c)
  BY <1>1, JobType
<1>3. CASE TagCreate(c) \/ TagWrite(c) \/ TagDelete(c)
  BY <1>1, <1>3, GoesOn DEF TagCreate, TagWrite, TagDelete, Goes
<1>4. CASE TagFind(c)
  <2>1. PICK y : y = [x EXCEPT !.j = IF x.g = None THEN "gcreate" ELSE "gwrite"] OBVIOUS
  <2>2. x.j = "gfind" /\ (Stop(c) \/ Then(c, <<y>>))
    BY <1>2, <1>4, <2>1 DEF TagFind, At, Job
  <2>3. y \in Statement /\ y.j \in {"gcreate", "gwrite"}
    <3>1. x \in [j : {"gfind"}, n : Names, g : {None} \cup TagIds] BY <2>2 DEF Statement
    <3>2. CASE x.g = None BY <2>1, <3>1, <3>2 DEF Statement
    <3>3. CASE x.g # None BY <2>1, <3>1, <3>3 DEF Statement
    <3> QED BY <3>2, <3>3
  <2>4. HandleOk(y)' /\ Sound(y)' BY <2>3 DEF HandleOk, Sound
  <2> QED BY <1>1, <1>2, <2>2, <2>3, <2>4, GoesTo DEF Together, Judging, Goes
<1> QED BY <1>3, <1>4

\* However a request goes on, its list is one of those, and what it added is right.
LEMMA WorkGoes ==
    ASSUME Inv, NEW c \in Clients, Work(c) \/ Lose(c)
    PROVE  Goes(c) /\ todo[c] # <<>>
<1>1. todo[c] # <<>>
  BY DEF Work, Lose, VisibilityRead, VisibilityWrite, ReplaceRead, ReplaceWrite, ReplaceConflict, SubmitRead, SubmitWrite,
         WithdrawRead, TakeDown, CopyRead, CopyCreate, CopyTags, TagsRead, TagsCheck, TagsClear, TagsAdd, ApproveRead, ApproveWrite,
         RejectRead, RejectWrite, UnpublishRead, ReportRead, ReportFind, ReportCreate, PendingList, HandleRead, Handle,
         TagFind, TagCreate, TagWrite, TagDelete, Read, At
<1>2. CASE Lose(c)
  BY <1>2 DEF Lose, Goes
<1>3. CASE Work(c)
  <2>1. Typed /\ (load.serial => PrivateIsOut) BY DEF Inv, ListingIsRight
  <2>2. CASE \/ VisibilityRead(c) \/ VisibilityWrite(c) \/ ReplaceRead(c) \/ ReplaceWrite(c) \/ ReplaceConflict(c)
             \/ SubmitRead(c) \/ SubmitWrite(c) \/ WithdrawRead(c) \/ TakeDown(c)
    BY <1>1, <2>1, <2>2, OwnerGoes
  <2>3. CASE CopyRead(c) \/ CopyCreate(c) \/ CopyTags(c) \/ TagsRead(c) \/ TagsCheck(c) \/ TagsClear(c) \/ TagsAdd(c)
    BY <1>1, <2>1, <2>3, TagsGo
  <2>4. CASE ApproveRead(c) \/ ApproveWrite(c) \/ RejectRead(c) \/ RejectWrite(c) \/ UnpublishRead(c)
    BY <1>1, <2>1, <2>4, ReviewGoes
  <2>5. CASE ReportRead(c) \/ ReportFind(c) \/ ReportCreate(c) \/ PendingList(c) \/ HandleRead(c) \/ Handle(c)
    BY <1>1, <2>1, <2>5, ReportsGo
  <2>6. CASE TagFind(c) \/ TagCreate(c) \/ TagWrite(c) \/ TagDelete(c)
    BY <1>1, <2>1, <2>6, NamesGo
  <2> QED BY <1>3, <2>2, <2>3, <2>4, <2>5, <2>6 DEF Work
<1> QED BY <1>1, <1>2, <1>3

-----------------------------------------------------------------------------
(* The lists of the requests                                               *)

\* The lists after a step of a request: one that was not left to do already is right.
Continues(c) ==
    /\ todo' \in [Clients -> Seq(Statement)] /\ \A d \in Clients : d # c => todo'[d] = todo[d]
    /\ ShapeOf(todo[c]) => ShapeOf(todo'[c])
    /\ ShapeOf(todo[c]) /\ JudgedBy(c, todo[c]) => JudgedBy(c, todo'[c])
    /\ \A n \in DOMAIN todo'[c] : \A x \in Statement : todo'[c][n] = x
          => \/ HandleOk(x)' /\ (load.serial' => Sound(x)')
             \/ \E m \in DOMAIN todo[c] : m > 1 /\ x = todo[c][m]
LEMMA GoesContinues ==
    ASSUME Typed, NEW c \in Clients, Goes(c), todo[c] # <<>>
    PROVE  Continues(c)
<1>1. todo[c] \in Seq(Statement) /\ todo \in [Clients -> Seq(Statement)]
  BY DEF Typed
<1>2. CASE Stop(c)
  <2>1. <<>> \in Seq(Statement) /\ DOMAIN <<>> = {} OBVIOUS
  <2>2. todo' \in [Clients -> Seq(Statement)] /\ todo'[c] = <<>> /\ \A d \in Clients : d # c => todo'[d] = todo[d]
    BY <1>1, <1>2, <2>1 DEF Stop
  <2> QED BY <2>1, <2>2 DEF Continues, ShapeOf, JudgedBy
<1>3. CASE \E s \in Seq(Statement) : Moves(c, s) /\ Checked(s)'
  <2>1. PICK s \in Seq(Statement) : Moves(c, s) /\ Checked(s)' BY <1>3
  <2>2. PICK q \in Seq(Statement) : q = todo[c] BY <1>1
  <2>3. PICK w \in Seq(Statement) : w = s \o Tail(q) BY <1>1, <2>2, Spliced
  <2>4. 1 \in DOMAIN q /\ Job(c) = q[1] /\ q # <<>> BY <2>2, JobType
  <2>5. todo' = [todo EXCEPT ![c] = w] /\ Follows(q[1], s)
    BY <2>1, <2>2, <2>3, <2>4 DEF Moves
  <2>6. todo' \in [Clients -> Seq(Statement)] /\ todo'[c] = w /\ \A d \in Clients : d # c => todo'[d] = todo[d]
    BY <1>1, <2>5
  <2>7. /\ ShapeOf(q) => ShapeOf(w)
        /\ ShapeOf(q) /\ JudgedBy(c, q) => JudgedBy(c, w)
    BY <2>3, <2>4, <2>5, SplicedShape
  <2>8. ASSUME NEW n \in DOMAIN w
        PROVE  \/ HandleOk(w[n])' /\ (load.serial' => Sound(w[n])')
               \/ \E m \in DOMAIN q : m > 1 /\ w[n] = q[m]
    <3>1. \/ n \in DOMAIN s /\ w[n] = s[n]
          \/ /\ n \notin DOMAIN s /\ n - Len(s) + 1 \in DOMAIN q /\ n - Len(s) + 1 > 1
             /\ w[n] = q[n - Len(s) + 1]
      BY <2>3, <2>4, Spliced
    <3>2. CASE n \in DOMAIN s /\ w[n] = s[n] BY <2>1, <3>2 DEF Checked
    <3> QED BY <3>1, <3>2
  <2>9. ASSUME NEW n \in DOMAIN w, NEW x \in Statement, w[n] = x
        PROVE  \/ HandleOk(x)' /\ (load.serial' => Sound(x)')
               \/ \E m \in DOMAIN q : m > 1 /\ x = q[m]
    <3>1. CASE HandleOk(w[n])' /\ (load.serial' => Sound(w[n])') BY <2>9, <3>1
    <3>2. CASE \E m \in DOMAIN q : m > 1 /\ w[n] = q[m] BY <2>9, <3>2
    <3> QED BY <2>8, <3>1, <3>2
  <2> QED BY <2>2, <2>6, <2>7, <2>9 DEF Continues
<1> QED BY <1>2, <1>3 DEF Goes

\* A request that starts with a list of statements.
Begins(c) ==
    /\ todo[c] = <<>> /\ (load.serial => \A d \in Clients : todo[d] = <<>>)
    /\ \E s \in Seq(Statement) :
          /\ todo' = [todo EXCEPT ![c] = s] /\ ShapeOf(s) /\ JudgedBy(c, s)
          /\ \A n \in DOMAIN s : s[n].j \notin {"handle", "swrite", "jwrite", "awrite", "pcreate"}
    /\ UNCHANGED <<db, env, history>>
LEMMA BeginsOne ==
    ASSUME Typed, NEW c \in Clients, NEW x \in Statement, NEW op, Start(c, op, <<x>>),
           x.j \notin {"handle", "swrite", "jwrite", "awrite", "pcreate"},
           x.j \in Judging => op \in {"accept", "dismiss", "unpublish"}
    PROVE  Begins(c)
<1>1. <<x>> \in Seq(Statement) /\ DOMAIN <<x>> = {1} /\ <<x>>[1] = x /\ ShapeOf(<<x>>)
  BY One
<1>2. JudgedBy(c, <<x>>)
  BY <1>1 DEF JudgedBy, Judges, Start
<1> QED BY <1>1, <1>2 DEF Begins, Start
LEMMA RequestBegins ==
    ASSUME Typed, NEW c \in Clients, Request(c)
    PROVE  Begins(c) \/ UploadTexture(c) \/ DeleteWardrobeTexture(c) \/ DeleteLibraryTexture(c) \/ SetPolicy(c)
<1>1. Live \subseteq TexIds /\ LiveTags \subseteq TagIds /\ LiveReports \subseteq ReportIds /\ load.contents \subseteq Contents
  BY LoadType DEF Live, LiveTags, LiveReports, Typed, TypeOK
<1>2. CASE UpdateWardrobeTexture(c)
  <2>1. PICK u \in Users, t \in Live, v \in Visibilities : Start(c, "visibility", <<[j |-> "vread", u |-> u, t |-> t, v |-> v]>>)
    BY <1>2 DEF UpdateWardrobeTexture
  <2>2. PICK x : x = [j |-> "vread", u |-> u, t |-> t, v |-> v] OBVIOUS
  <2>3. x \in Statement /\ x.j = "vread" BY <1>1, <2>2 DEF Statement
  <2> QED BY <2>1, <2>2, <2>3, BeginsOne DEF Judging
<1>3. CASE ReplaceWardrobeContent(c)
  <2>1. PICK u \in Users, t \in Live, k \in load.contents : Start(c, "replace", <<[j |-> "rread", u |-> u, t |-> t, k |-> k]>>)
    BY <1>3 DEF ReplaceWardrobeContent
  <2>2. PICK x : x = [j |-> "rread", u |-> u, t |-> t, k |-> k] OBVIOUS
  <2>3. x \in Statement /\ x.j = "rread" BY <1>1, <2>2 DEF Statement
  <2> QED BY <2>1, <2>2, <2>3, BeginsOne DEF Judging
<1>4. CASE SubmitReview(c) \/ WithdrawSubmission(c) \/ CopyPublicTexture(c) \/ CreateReport(c)
  <2>1. PICK op \in {"submit", "withdraw", "copy", "report"}, k \in {"sread", "wread", "cread", "preport"}, u \in Users, t \in Live :
            Start(c, op, <<[j |-> k, u |-> u, t |-> t]>>)
    BY <1>4 DEF SubmitReview, WithdrawSubmission, CopyPublicTexture, CreateReport, StartEnabled
  <2>2. PICK x : x = [j |-> k, u |-> u, t |-> t] OBVIOUS
  <2>3. x \in Statement /\ x.j = k BY <1>1, <2>2 DEF Statement
  <2> QED BY <2>1, <2>2, <2>3, BeginsOne DEF Judging
<1>5. CASE ReplaceWardrobeTags(c)
  <2>1. PICK u \in Users, t \in Live, gs \in SUBSET LiveTags :
            Start(c, "retag", <<[j |-> "tread", u |-> u, t |-> t], [j |-> "tcheck", t |-> t, gs |-> gs]>>)
    BY <1>5 DEF ReplaceWardrobeTags
  <2>2. PICK x, y : x = [j |-> "tread", u |-> u, t |-> t] /\ y = [j |-> "tcheck", t |-> t, gs |-> gs]
    OBVIOUS
  <2>3. x \in Statement /\ x.j = "tread" /\ y \in Statement /\ y.j = "tcheck"
    BY <1>1, <2>2 DEF Statement
  <2>4. <<x, y>> \in Seq(Statement) /\ DOMAIN <<x, y>> = {1, 2} /\ <<x, y>>[1] = x /\ <<x, y>>[2] = y /\ Len(<<x, y>>) = 2
    BY <2>3
  <2>5. ShapeOf(<<x, y>>) /\ JudgedBy(c, <<x, y>>)
    BY <2>3, <2>4 DEF ShapeOf, JudgedBy, Together, Judging
  <2>6. Start(c, "retag", <<x, y>>) BY <2>1, <2>2
  <2>7. \A n \in DOMAIN <<x, y>> : <<x, y>>[n].j \notin {"handle", "swrite", "jwrite", "awrite", "pcreate"}
    BY <2>3, <2>4
  <2>8. Begins(c) BY <2>4, <2>5, <2>6, <2>7 DEF Begins, Start
  <2> QED BY <2>8
<1>6. CASE Approve(c)
  <2>1. PICK t \in Live, gs \in {None} \cup SUBSET LiveTags : Start(c, "approve", <<[j |-> "aread", t |-> t, gs |-> gs]>>)
    BY <1>6 DEF Approve, StartEnabled
  <2>2. PICK x : x = [j |-> "aread", t |-> t, gs |-> gs] OBVIOUS
  <2>3. x \in Statement /\ x.j = "aread" BY <1>1, <2>2 DEF Statement
  <2> QED BY <2>1, <2>2, <2>3, BeginsOne DEF Judging
<1>7. CASE Reject(c) \/ Unpublish(c)
  <2>1. PICK op \in {"reject", "unpublish"}, k \in {"jread", "uread"}, t \in Live :
            (k = "uread" => op = "unpublish") /\ Start(c, op, <<[j |-> k, t |-> t]>>)
    BY <1>7 DEF Reject, Unpublish, StartEnabled
  <2>2. PICK x : x = [j |-> k, t |-> t] OBVIOUS
  <2>3. x \in Statement /\ x.j = k BY <1>1, <2>2 DEF Statement
  <2> QED BY <2>1, <2>2, <2>3, BeginsOne DEF Judging
<1>8. CASE AcceptReport(c) \/ RejectReport(c)
  <2>1. PICK op \in {"accept", "dismiss"}, v \in {"accepted", "rejected"}, r \in LiveReports :
            Start(c, op, <<[j |-> "hread", r |-> r, verdict |-> v]>>)
    BY <1>8 DEF AcceptReport, RejectReport, StartEnabled
  <2>2. PICK x : x = [j |-> "hread", r |-> r, verdict |-> v] OBVIOUS
  <2>3. x \in Statement /\ x.j = "hread" BY <1>1, <2>2 DEF Statement
  <2> QED BY <2>1, <2>2, <2>3, BeginsOne
<1>9. CASE CreateTag(c) \/ UpdateTag(c)
  <2>1. PICK n \in Names, g \in {None} \cup LiveTags : Start(c, "tags", <<[j |-> "gfind", n |-> n, g |-> g]>>)
    BY <1>9 DEF CreateTag, UpdateTag
  <2>2. PICK x : x = [j |-> "gfind", n |-> n, g |-> g] OBVIOUS
  <2>3. x \in Statement /\ x.j = "gfind" BY <1>1, <2>2 DEF Statement
  <2> QED BY <2>1, <2>2, <2>3, BeginsOne DEF Judging
<1>10. CASE DeleteTag(c)
  <2>1. PICK g \in LiveTags : Start(c, "tags", <<[j |-> "gdel", g |-> g]>>)
    BY <1>10 DEF DeleteTag
  <2>2. PICK x : x = [j |-> "gdel", g |-> g] OBVIOUS
  <2>3. x \in Statement /\ x.j = "gdel" BY <1>1, <2>2 DEF Statement
  <2> QED BY <2>1, <2>2, <2>3, BeginsOne DEF Judging
<1> QED BY <1>2, <1>3, <1>4, <1>5, <1>6, <1>7, <1>8, <1>9, <1>10 DEF Request

-----------------------------------------------------------------------------
(* What a step does to the rows                                            *)

\* A texture row is written: a new one, one that is private, one that only becomes public,
\* or one whose status is decided.
Fresh(t, row) == tex[t] = None /\ row.status = "private" /\ Forget(t)
Hidden(t, row) == tex[t] # None /\ row.status = "private" /\ UNCHANGED history
Shown(t, row) ==
    /\ tex[t] # None /\ row.vis = "public" /\ row.status = tex[t].status /\ row.content = tex[t].content
    /\ UNCHANGED history
Decided(x, t, row) ==
    /\ x.j \in {"swrite", "jwrite", "awrite"} /\ t = x.t /\ tex[t] # None
    /\ row.vis = tex[t].vis /\ row.content = tex[t].content
    /\ cleared \subseteq cleared' /\ overtaken \subseteq overtaken'
    /\ row.status = "published" => <<t, row.content>> \in cleared' \cup overtaken'
    /\ Sound(x) => overtaken' = overtaken
TexChange(c) ==
    \/ tex' = tex /\ UNCHANGED history
    \/ \E t \in TexIds, row \in Texture :
          /\ tex' = [tex EXCEPT ![t] = row]
          /\ Fresh(t, row) \/ Hidden(t, row) \/ Shown(t, row) \/ (todo[c] # <<>> /\ Decided(Job(c), t, row))
\* The statements that stand together keep the contents and the visibilities.
KeepsRows(c) == Job(c).j \in Together => \A t \in TexIds :
    \/ tex'[t] = tex[t]
    \/ tex[t] # None /\ tex'[t] # None /\ tex'[t].vis = tex[t].vis /\ tex'[t].content = tex[t].content
HistoryTyped == cleared' \subseteq TexIds \X Contents /\ overtaken' \subseteq TexIds \X Contents

\* The row a write by id leaves.
LEMMA WriteRow ==
    ASSUME Typed, NEW c \in Clients, Job(c).t \in TexIds, NEW row, Write(c, row)
    PROVE  \/ tex[Job(c).t] = None /\ tex' = tex
           \/ tex[Job(c).t] # None /\ tex[Job(c).t] \in Texture /\ tex' = [tex EXCEPT ![Job(c).t] = row]
  BY DEF Write, Typed, TypeOK

LEMMA OwnerRows ==
    ASSUME Typed, NEW c \in Clients, VisibilityWrite(c) \/ ReplaceWrite(c) \/ SubmitWrite(c) \/ TakeDown(c)
    PROVE  TexChange(c) /\ KeepsRows(c) /\ HistoryTyped
<1>1. todo[c] # <<>>
  BY DEF VisibilityWrite, ReplaceWrite, SubmitWrite, TakeDown, At
<1>2. PICK x \in Statement : x = Job(c)
  BY <1>1, JobType
<1>3. x.j \in {"vwrite", "rwrite", "swrite", "down"} /\ x.t \in TexIds
  <2>1. x.j \in {"vwrite", "rwrite", "swrite", "down"}
    BY <1>2 DEF VisibilityWrite, ReplaceWrite, SubmitWrite, TakeDown, At, Job
  <2> QED BY <2>1, Fields
<1>4. tex \in [TexIds -> Texture \cup {None}] /\ cleared \subseteq TexIds \X Contents /\ overtaken \subseteq TexIds \X Contents
  BY DEF Typed, TypeOK
<1>5. CASE VisibilityWrite(c)
  <2>1. PICK row : row = IF tex[x.t] = None THEN None
                   ELSE [tex[x.t] EXCEPT !.vis = x.v, !.status = IF x.v = "private" THEN "private" ELSE @]
    OBVIOUS
  <2>2. x.j = "vwrite" /\ Write(c, row) /\ UNCHANGED history
    BY <1>2, <1>5, <2>1 DEF VisibilityWrite, At, Job
  <2>3. x.v \in Visibilities BY <2>2, Fields
  <2>4. \/ tex' = tex
        \/ tex[x.t] # None /\ tex[x.t] \in Texture /\ tex' = [tex EXCEPT ![x.t] = row]
    BY <1>2, <1>3, <2>2, WriteRow
  <2>5. ASSUME tex[x.t] # None, tex[x.t] \in Texture
        PROVE  row \in Texture /\ (Hidden(x.t, row) \/ Shown(x.t, row))
    <3>1. row \in Texture /\ row.vis = x.v /\ row.content = tex[x.t].content
          /\ row.status = IF x.v = "private" THEN "private" ELSE tex[x.t].status
      BY <2>1, <2>3, <2>5 DEF Texture, Statuses
    <3> QED BY <2>2, <2>3, <2>5, <3>1 DEF Hidden, Shown, Visibilities
  <2>6. KeepsRows(c) BY <1>2, <2>2 DEF KeepsRows, Together
  <2> QED BY <1>3, <1>4, <2>2, <2>4, <2>5, <2>6 DEF TexChange, HistoryTyped, history
<1>6. CASE ReplaceWrite(c)
  <2>1. PICK row : row = IF tex[x.t] = None THEN None ELSE [tex[x.t] EXCEPT !.content = x.k, !.status = "private"]
    OBVIOUS
  <2>2. x.j = "rwrite" /\ Write(c, row) /\ UNCHANGED history
    BY <1>2, <1>6, <2>1 DEF ReplaceWrite, At, Job
  <2>3. x.k \in Contents BY <2>2, Fields
  <2>4. \/ tex' = tex
        \/ tex[x.t] # None /\ tex[x.t] \in Texture /\ tex' = [tex EXCEPT ![x.t] = row]
    BY <1>2, <1>3, <2>2, WriteRow
  <2>5. ASSUME tex[x.t] # None, tex[x.t] \in Texture
        PROVE  row \in Texture /\ Hidden(x.t, row)
    <3>1. row \in Texture /\ row.status = "private"
      BY <2>1, <2>3, <2>5 DEF Texture, Statuses
    <3> QED BY <2>2, <2>5, <3>1 DEF Hidden
  <2>6. KeepsRows(c) BY <1>2, <2>2 DEF KeepsRows, Together
  <2> QED BY <1>3, <1>4, <2>2, <2>4, <2>5, <2>6 DEF TexChange, HistoryTyped, history
<1>7. CASE SubmitWrite(c)
  <2>1. PICK row : row = Status(x.t, IF policy.review THEN "pending" ELSE "published") OBVIOUS
  <2>2. x.j = "swrite" /\ Write(c, row) /\ overtaken' = overtaken
        /\ cleared' = IF policy.review \/ tex[x.t] = None THEN cleared ELSE cleared \cup {<<x.t, tex[x.t].content>>}
    BY <1>2, <1>7, <2>1 DEF SubmitWrite, At, Job
  <2>4. \/ tex[x.t] = None /\ tex' = tex
        \/ tex[x.t] # None /\ tex[x.t] \in Texture /\ tex' = [tex EXCEPT ![x.t] = row]
    BY <1>2, <1>3, <2>2, WriteRow
  <2>5. ASSUME tex[x.t] # None, tex[x.t] \in Texture
        PROVE  row \in Texture /\ Decided(x, x.t, row)
    <3>1. row \in Texture /\ row.vis = tex[x.t].vis /\ row.content = tex[x.t].content
          /\ row.status = IF policy.review THEN "pending" ELSE "published"
      BY <2>1, <2>5 DEF Texture, Statuses, Status
    <3> QED BY <2>2, <2>5, <3>1 DEF Decided
  <2>6. KeepsRows(c) BY <1>2, <2>2 DEF KeepsRows, Together
  <2>7. HistoryTyped
    <3>1. tex[x.t] # None => tex[x.t].content \in Contents BY <1>3, <1>4 DEF Texture
    <3> QED BY <1>3, <1>4, <2>2, <3>1 DEF HistoryTyped
  <2>8. tex[x.t] = None => UNCHANGED history BY <2>2 DEF history
  <2> QED BY <1>1, <1>2, <1>3, <2>4, <2>5, <2>6, <2>7, <2>8 DEF TexChange
<1>8. CASE TakeDown(c)
  <2>1. PICK row : row = Status(x.t, "private") OBVIOUS
  <2>2. x.j = "down" /\ Write(c, row) /\ UNCHANGED history
    BY <1>2, <1>8, <2>1 DEF TakeDown, At, Job
  <2>4. \/ tex' = tex
        \/ tex[x.t] # None /\ tex[x.t] \in Texture /\ tex' = [tex EXCEPT ![x.t] = row]
    BY <1>2, <1>3, <2>2, WriteRow
  <2>5. ASSUME tex[x.t] # None, tex[x.t] \in Texture
        PROVE  row \in Texture /\ Hidden(x.t, row) /\ row.vis = tex[x.t].vis /\ row.content = tex[x.t].content
    <3>1. row \in Texture /\ row.status = "private" /\ row.vis = tex[x.t].vis /\ row.content = tex[x.t].content
      BY <2>1, <2>5 DEF Texture, Statuses, Status
    <3> QED BY <2>2, <2>5, <3>1 DEF Hidden
  <2>6. KeepsRows(c) BY <1>3, <1>4, <2>4, <2>5, NoRow DEF KeepsRows
  <2> QED BY <1>3, <1>4, <2>2, <2>4, <2>5, <2>6 DEF TexChange, HistoryTyped, history
<1> QED BY <1>5, <1>6, <1>7, <1>8

LEMMA ReviewRows ==
    ASSUME Typed, NEW c \in Clients, ApproveWrite(c) \/ RejectWrite(c)
    PROVE  TexChange(c) /\ KeepsRows(c) /\ HistoryTyped
<1>1. todo[c] # <<>>
  BY DEF ApproveWrite, RejectWrite, At
<1>2. PICK x \in Statement : x = Job(c)
  BY <1>1, JobType
<1>3. x.j \in {"awrite", "jwrite"} /\ x.t \in TexIds
  <2>1. x.j \in {"awrite", "jwrite"} BY <1>2 DEF ApproveWrite, RejectWrite, At, Job
  <2> QED BY <2>1, Fields
<1>4. tex \in [TexIds -> Texture \cup {None}] /\ cleared \subseteq TexIds \X Contents /\ overtaken \subseteq TexIds \X Contents
  BY DEF Typed, TypeOK
<1>5. CASE ApproveWrite(c)
  <2>1. PICK row : row = Status(x.t, "published") OBVIOUS
  <2>2. /\ x.j = "awrite" /\ Write(c, row)
        /\ cleared' = IF tex[x.t] = None THEN cleared ELSE cleared \cup {<<x.t, x.k>>}
        /\ overtaken' = IF tex[x.t] = None \/ tex[x.t].content = x.k THEN overtaken
                        ELSE overtaken \cup {<<x.t, tex[x.t].content>>}
    BY <1>2, <1>5, <2>1 DEF ApproveWrite, At, Job
  <2>3. x.k \in Contents BY <2>2, Fields
  <2>4. \/ tex[x.t] = None /\ tex' = tex
        \/ tex[x.t] # None /\ tex[x.t] \in Texture /\ tex' = [tex EXCEPT ![x.t] = row]
    BY <1>2, <1>3, <2>2, WriteRow
  <2>5. ASSUME tex[x.t] # None, tex[x.t] \in Texture
        PROVE  row \in Texture /\ Decided(x, x.t, row) /\ row.vis = tex[x.t].vis /\ row.content = tex[x.t].content
    <3>1. row \in Texture /\ row.vis = tex[x.t].vis /\ row.content = tex[x.t].content /\ row.status = "published"
      BY <2>1, <2>5 DEF Texture, Statuses, Status
    <3>2. Sound(x) => tex[x.t].content = x.k BY <2>2, <2>5 DEF Sound
    <3> QED BY <2>2, <2>5, <3>1, <3>2 DEF Decided
  <2>6. KeepsRows(c) BY <1>3, <1>4, <2>4, <2>5, NoRow DEF KeepsRows
  <2>7. HistoryTyped
    <3>1. tex[x.t] # None => tex[x.t].content \in Contents BY <1>3, <1>4 DEF Texture
    <3> QED BY <1>3, <1>4, <2>2, <2>3, <3>1 DEF HistoryTyped
  <2>8. tex[x.t] = None => UNCHANGED history BY <2>2 DEF history
  <2> QED BY <1>1, <1>2, <1>3, <2>4, <2>5, <2>6, <2>7, <2>8 DEF TexChange
<1>6. CASE RejectWrite(c)
  <2>1. PICK row : row = Status(x.t, "rejected") OBVIOUS
  <2>2. x.j = "jwrite" /\ Write(c, row) /\ cleared' = cleared /\ overtaken' = overtaken
    BY <1>2, <1>6, <2>1 DEF RejectWrite, At, Job, history
  <2>4. \/ tex' = tex
        \/ tex[x.t] # None /\ tex[x.t] \in Texture /\ tex' = [tex EXCEPT ![x.t] = row]
    BY <1>2, <1>3, <2>2, WriteRow
  <2>5. ASSUME tex[x.t] # None, tex[x.t] \in Texture
        PROVE  row \in Texture /\ Decided(x, x.t, row)
    <3>1. row \in Texture /\ row.vis = tex[x.t].vis /\ row.content = tex[x.t].content /\ row.status = "rejected"
      BY <2>1, <2>5 DEF Texture, Statuses, Status
    <3> QED BY <2>2, <2>5, <3>1 DEF Decided
  <2>6. KeepsRows(c) BY <1>2, <2>2 DEF KeepsRows, Together
  <2> QED BY <1>1, <1>2, <1>3, <1>4, <2>2, <2>4, <2>5, <2>6 DEF TexChange, HistoryTyped, history
<1> QED BY <1>5, <1>6

\* A new row.
LEMMA NewRow ==
    ASSUME Typed, NEW c \in Clients, NEW t \in load.texs \ Live, NEW row \in Texture, tex' = [tex EXCEPT ![t] = row],
           row.status = "private", Forget(t)
    PROVE  TexChange(c) /\ HistoryTyped
<1>1. t \in TexIds /\ tex[t] = None
  BY LoadType DEF Live, Typed, TypeOK
<1>2. HistoryTyped
  BY DEF Forget, HistoryTyped, Typed, TypeOK
<1> QED BY <1>1, <1>2 DEF TexChange, Fresh
LEMMA UploadRow ==
    ASSUME Typed, NEW c \in Clients, UploadTexture(c)
    PROVE  TexChange(c) /\ HistoryTyped
<1>1. PICK t \in load.texs \ Live, u \in Users, k \in load.contents, v \in Visibilities :
          /\ tex' = [tex EXCEPT ![t] = [owner |-> u, content |-> k, vis |-> v, status |-> "private"]] /\ Forget(t)
  BY DEF UploadTexture
<1>2. PICK row : row = [owner |-> u, content |-> k, vis |-> v, status |-> "private"] OBVIOUS
<1>3. row \in Texture /\ row.status = "private"
  BY <1>1, <1>2, LoadType DEF Texture, Statuses, Typed, TypeOK
<1> QED BY <1>1, <1>2, <1>3, NewRow
LEMMA CopyRow ==
    ASSUME Typed, NEW c \in Clients, CopyCreate(c)
    PROVE  TexChange(c) /\ KeepsRows(c) /\ HistoryTyped
<1>1. PICK t \in load.texs \ Live :
          tex' = [tex EXCEPT ![t] = [owner |-> Job(c).u, content |-> Job(c).k, vis |-> "private", status |-> "private"]] /\ Forget(t)
  BY DEF CopyCreate
<1>2. PICK x \in Statement : x = Job(c)
  BY JobType DEF CopyCreate, At
<1>3. PICK row : row = [owner |-> x.u, content |-> x.k, vis |-> "private", status |-> "private"]
  OBVIOUS
<1>4. x.j = "ccreate"
  BY <1>2 DEF CopyCreate, At, Job
<1>5. x.u \in Users /\ x.k \in Contents
  BY <1>4, Fields
<1>6. row \in Texture /\ row.status = "private"
  BY <1>3, <1>5 DEF Texture, Statuses, Visibilities
<1>7. KeepsRows(c)
  BY <1>2, <1>4 DEF KeepsRows, Together
<1> QED BY <1>1, <1>2, <1>3, <1>6, <1>7, NewRow

\* The other statements write no texture row.
LEMMA WorkRows ==
    ASSUME Typed, NEW c \in Clients, Work(c) \/ Lose(c)
    PROVE  TexChange(c) /\ KeepsRows(c) /\ HistoryTyped
<1>1. CASE tex' = tex /\ UNCHANGED history
  BY <1>1 DEF TexChange, KeepsRows, HistoryTyped, history, Typed, TypeOK
<1>2. CASE VisibilityWrite(c) \/ ReplaceWrite(c) \/ SubmitWrite(c) \/ TakeDown(c)
  BY <1>2, OwnerRows
<1>3. CASE ApproveWrite(c) \/ RejectWrite(c)
  BY <1>3, ReviewRows
<1>4. CASE CopyCreate(c)
  BY <1>4, CopyRow
<1>5. Work(c) => \/ tex' = tex /\ UNCHANGED history
                 \/ VisibilityWrite(c) \/ ReplaceWrite(c) \/ SubmitWrite(c) \/ TakeDown(c)
                 \/ ApproveWrite(c) \/ RejectWrite(c) \/ CopyCreate(c)
  BY DEF Work, VisibilityRead, ReplaceRead, ReplaceConflict, SubmitRead,
         WithdrawRead, CopyRead, CopyTags, TagsRead, TagsCheck, TagsClear, TagsAdd, ApproveRead,
         RejectRead, UnpublishRead, ReportRead, ReportFind, ReportCreate, PendingList, HandleRead, Handle,
         TagFind, TagCreate, TagWrite, TagDelete, Read, db
<1>6. Lose(c) => tex' = tex /\ UNCHANGED history
  BY DEF Lose, db
<1> QED BY <1>1, <1>2, <1>3, <1>4, <1>5, <1>6

\* A report row is written: a new one that is open, or one that is handled.
ReportChange(c) ==
    \/ reports' = reports
    \/ \E r \in ReportIds, row \in Report :
          /\ reports' = [reports EXCEPT ![r] = row]
          /\ \/ /\ Job(c).j = "pcreate" /\ reports[r] = None
                /\ row.t = Job(c).t /\ row.by = Job(c).u /\ row.status = "pending"
             \/ /\ Job(c).j = "handle" /\ r = Job(c).r /\ reports[r] # None
                /\ row.t = reports[r].t /\ row.by = reports[r].by /\ row.status # "pending"
LEMMA WorkReports ==
    ASSUME Typed, NEW c \in Clients, Work(c) \/ Lose(c)
    PROVE  ReportChange(c)
<1>1. CASE ReportCreate(c)
  <2>1. PICK x \in Statement : x = Job(c) BY <1>1, JobType DEF ReportCreate, At
  <2>2. x.j = "pcreate" BY <1>1, <2>1 DEF ReportCreate, At, Job
  <2>3. x.t \in TexIds /\ x.u \in Users BY <2>2, Fields
  <2>4. PICK row : row = [t |-> x.t, by |-> x.u, status |-> "pending"] OBVIOUS
  <2>5. row \in Report /\ row.t = x.t /\ row.by = x.u /\ row.status = "pending"
    BY <2>3, <2>4 DEF Report, ReportStatuses
  <2>6. reports' = reports \/ \E r \in ReportIds \ LiveReports : reports' = [reports EXCEPT ![r] = row]
    BY <1>1, <2>1, <2>4 DEF ReportCreate
  <2> QED BY <2>1, <2>2, <2>5, <2>6 DEF ReportChange, LiveReports
<1>2. CASE Handle(c)
  <2>1. PICK x \in Statement : x = Job(c) BY <1>2, JobType DEF Handle, At
  <2>2. x.j = "handle" BY <1>2, <2>1 DEF Handle, At, Job
  <2>3. x.r \in ReportIds /\ x.verdict \in {"accepted", "rejected"} BY <2>2, Fields
  <2>4. PICK row : row = [reports[x.r] EXCEPT !.status = x.verdict] OBVIOUS
  <2>5. reports' = reports \/ (reports[x.r] # None /\ reports' = [reports EXCEPT ![x.r] = row])
    BY <1>2, <2>1, <2>4 DEF Handle
  <2>6. ASSUME reports[x.r] # None PROVE row \in Report /\ row.t = reports[x.r].t /\ row.by = reports[x.r].by /\ row.status # "pending"
    <3>1. reports[x.r] \in Report BY <2>3, <2>6 DEF Typed, TypeOK
    <3> QED BY <2>3, <2>4, <3>1 DEF Report, ReportStatuses
  <2> QED BY <2>1, <2>2, <2>3, <2>5, <2>6 DEF ReportChange
<1>3. Work(c) => reports' = reports \/ ReportCreate(c) \/ Handle(c)
  BY DEF Work, VisibilityRead, VisibilityWrite, ReplaceRead, ReplaceWrite, ReplaceConflict, SubmitRead, SubmitWrite,
         WithdrawRead, TakeDown, CopyRead, CopyCreate, CopyTags, TagsRead, TagsCheck, TagsClear, TagsAdd, ApproveRead, ApproveWrite,
         RejectRead, RejectWrite, UnpublishRead, ReportRead, ReportFind, PendingList, HandleRead,
         TagFind, TagCreate, TagWrite, TagDelete, Read, db
<1>4. Lose(c) => reports' = reports
  BY DEF Lose, db
<1> QED BY <1>1, <1>2, <1>3, <1>4 DEF ReportChange

\* Tags and bindings: a tag is written or goes with its bindings, a binding is removed or made of what exists.
TagChange ==
    \/ UNCHANGED <<tags, tagged>>
    \/ \E g \in TagIds, n \in Names : tags' = [tags EXCEPT ![g] = n] /\ tagged' = tagged
    \/ \E g \in TagIds : tags' = [tags EXCEPT ![g] = None] /\ tagged' = {b \in tagged : b[2] # g}
    \/ tags' = tags /\ tagged' \subseteq tagged
    \/ \E t \in TexIds, g \in TagIds :
          tags' = tags /\ tagged' = tagged \cup {<<t, g>>} /\ tex[t] # None /\ tags[g] # None
LEMMA WorkTags ==
    ASSUME Typed, NEW c \in Clients, Work(c) \/ Lose(c)
    PROVE  TagChange
<1>1. CASE TagCreate(c)
  <2>1. PICK x \in Statement : x = Job(c) BY <1>1, JobType DEF TagCreate, At
  <2>2. x.j = "gcreate" BY <1>1, <2>1 DEF TagCreate, At, Job
  <2>3. x.n \in Names BY <2>2, Fields
  <2>4. tagged' = tagged /\ (tags' = tags \/ \E g \in TagIds : tags' = [tags EXCEPT ![g] = x.n])
    BY <1>1, <2>1 DEF TagCreate
  <2> QED BY <2>3, <2>4 DEF TagChange
<1>2. CASE TagWrite(c)
  <2>1. PICK x \in Statement : x = Job(c) BY <1>2, JobType DEF TagWrite, At
  <2>2. x.j = "gwrite" BY <1>2, <2>1 DEF TagWrite, At, Job
  <2>3. x.n \in Names /\ x.g \in TagIds BY <2>2, Fields
  <2>4. tagged' = tagged /\ (tags' = tags \/ tags' = [tags EXCEPT ![x.g] = x.n])
    BY <1>2, <2>1 DEF TagWrite
  <2> QED BY <2>3, <2>4 DEF TagChange
<1>3. CASE TagDelete(c)
  <2>1. PICK x \in Statement : x = Job(c) BY <1>3, JobType DEF TagDelete, At
  <2>2. x.j = "gdel" BY <1>3, <2>1 DEF TagDelete, At, Job
  <2>3. x.g \in TagIds BY <2>2, Fields
  <2>4. tags' = [tags EXCEPT ![x.g] = None] /\ tagged' = {b \in tagged : b[2] # x.g}
    BY <1>3, <2>1 DEF TagDelete
  <2> QED BY <2>3, <2>4 DEF TagChange
<1>4. CASE TagsClear(c)
  BY <1>4 DEF TagsClear, TagChange
<1>5. CASE TagsAdd(c)
  <2>1. PICK x \in Statement : x = Job(c) BY <1>5, JobType DEF TagsAdd, At
  <2>2. x.j = "tadd" BY <1>5, <2>1 DEF TagsAdd, At, Job
  <2>3. x.t \in TexIds /\ x.g \in TagIds BY <2>2, Fields
  <2>4. tags' = tags /\ (tagged' = tagged \/ (tex[x.t] # None /\ tags[x.g] # None /\ tagged' = tagged \cup {<<x.t, x.g>>}))
    BY <1>5, <2>1 DEF TagsAdd
  <2> QED BY <2>3, <2>4 DEF TagChange
<1>6. Work(c) => UNCHANGED <<tags, tagged>> \/ TagsClear(c) \/ TagsAdd(c) \/ TagCreate(c) \/ TagWrite(c) \/ TagDelete(c)
  BY DEF Work, VisibilityRead, VisibilityWrite, ReplaceRead, ReplaceWrite, ReplaceConflict, SubmitRead, SubmitWrite,
         WithdrawRead, TakeDown, CopyRead, CopyCreate, CopyTags, TagsRead, TagsCheck, ApproveRead, ApproveWrite,
         RejectRead, RejectWrite, UnpublishRead, ReportRead, ReportFind, ReportCreate, PendingList, HandleRead, Handle,
         TagFind, Read, db
<1>7. Lose(c) => UNCHANGED <<tags, tagged>>
  BY DEF Lose, db
<1> QED BY <1>1, <1>2, <1>3, <1>4, <1>5, <1>6, <1>7 DEF TagChange

\* The policy and the faults.
LEMMA WorkEnv ==
    ASSUME Typed, NEW c \in Clients, Work(c) \/ Lose(c)
    PROVE  policy' = policy /\ load' = load /\ faults' \in Nat
<1>1. Work(c) => UNCHANGED env
  BY DEF Work, VisibilityRead, VisibilityWrite, ReplaceRead, ReplaceWrite, ReplaceConflict, SubmitRead, SubmitWrite,
         WithdrawRead, TakeDown, CopyRead, CopyCreate, CopyTags, TagsRead, TagsCheck, TagsClear, TagsAdd, ApproveRead, ApproveWrite,
         RejectRead, RejectWrite, UnpublishRead, ReportRead, ReportFind, ReportCreate, PendingList, HandleRead, Handle,
         TagFind, TagCreate, TagWrite, TagDelete, Read
<1> QED BY <1>1 DEF Lose, env, Typed, TypeOK

\* The steps of the model, by what they change.
LEMMA Steps ==
    ASSUME Typed, NEW c \in Clients, Request(c) \/ Work(c) \/ Lose(c)
    PROVE  \/ Work(c) \/ Lose(c)
           \/ Begins(c)
           \/ UploadTexture(c)
           \/ Idle(c) /\ \E t \in TexIds : Cascade(t)
           \/ SetPolicy(c)
  BY RequestBegins DEF DeleteWardrobeTexture, DeleteLibraryTexture, Live

LEMMA StepTyped ==
    ASSUME Inv, NEW c \in Clients, Request(c) \/ Work(c) \/ Lose(c)
    PROVE  Typed'
<1>1. TypeOK /\ todo \in [Clients -> Seq(Statement)]
  BY DEF Typed, Inv
<1>2. ASSUME TexChange(c) PROVE tex' \in [TexIds -> Texture \cup {None}]
  BY <1>1, <1>2 DEF TexChange, TypeOK
<1>3. CASE Work(c) \/ Lose(c)
  <2>1. TexChange(c) /\ HistoryTyped /\ ReportChange(c) /\ TagChange
    BY <1>3, WorkRows, WorkReports, WorkTags DEF Inv
  <2>2. reports' \in [ReportIds -> Report \cup {None}]
    BY <1>1, <2>1 DEF ReportChange, TypeOK
  <2>3. tags' \in [TagIds -> Names \cup {None}] BY <1>1, <2>1 DEF TagChange, TypeOK
  <2>4. tagged' \subseteq TexIds \X TagIds BY <1>1, <2>1 DEF TagChange, TypeOK
  <2>5. policy' = policy /\ load' = load /\ faults' \in Nat BY <1>3, WorkEnv DEF Inv
  <2>6. todo' \in [Clients -> Seq(Statement)]
    BY <1>3, WorkGoes, GoesContinues DEF Inv, Continues
  <2> QED BY <1>1, <1>2, <2>1, <2>2, <2>3, <2>4, <2>5, <2>6 DEF Typed, TypeOK, HistoryTyped
<1>4. CASE Begins(c)
  BY <1>1, <1>4 DEF Begins, Typed, TypeOK, db, env, history
<1>5. CASE UploadTexture(c)
  <2>1. TexChange(c) /\ HistoryTyped BY <1>5, UploadRow DEF Inv
  <2> QED BY <1>1, <1>2, <1>5, <2>1 DEF UploadTexture, Typed, TypeOK, HistoryTyped, env
<1>6. CASE \E t \in TexIds : Cascade(t)
  BY <1>1, <1>6 DEF Cascade, Typed, TypeOK, env, history
<1>7. CASE SetPolicy(c)
  BY <1>1, <1>7 DEF SetPolicy, Typed, TypeOK, db, history
<1> QED BY <1>3, <1>4, <1>5, <1>6, <1>7, Steps DEF Inv, Idle

-----------------------------------------------------------------------------
(* Every step keeps the invariant                                          *)

\* The lists.
LEMMA StepShape ==
    ASSUME Inv, NEW c \in Clients, Request(c) \/ Work(c) \/ Lose(c)
    PROVE  ShapeInv' /\ load' = load
<1>1. /\ \A d \in Clients : ShapeOf(todo[d]) /\ JudgedBy(d, todo[d])
      /\ todo \in [Clients -> Seq(Statement)]
  BY DEF Inv, ShapeInv, Typed
<1>2. load' = load
  BY Steps, WorkEnv DEF Inv, Begins, UploadTexture, Cascade, SetPolicy, env
<1>3. \A d \in Clients : ShapeOf(todo'[d]) /\ JudgedBy(d, todo'[d])
  <2>1. CASE Work(c) \/ Lose(c)
    <3>1. Continues(c) BY <2>1, WorkGoes, GoesContinues DEF Inv
    <3> SUFFICES ASSUME NEW d \in Clients PROVE ShapeOf(todo'[d]) /\ JudgedBy(d, todo'[d])
      OBVIOUS
    <3>2. CASE d = c BY <1>1, <3>1, <3>2 DEF Continues
    <3>3. CASE d # c BY <1>1, <3>1, <3>3 DEF Continues
    <3> QED BY <3>2, <3>3
  <2>2. CASE Begins(c)
    <3>1. PICK s \in Seq(Statement) : todo' = [todo EXCEPT ![c] = s] /\ ShapeOf(s) /\ JudgedBy(c, s)
      BY <2>2 DEF Begins
    <3> QED BY <1>1, <3>1
  <2>3. CASE todo' = todo BY <1>1, <2>3
  <2> QED BY <2>1, <2>2, <2>3, Steps DEF Inv, UploadTexture, Cascade, SetPolicy
<1>4. ASSUME NEW d \in Clients PROVE ShapeOf(todo[d])' /\ JudgedBy(d, todo[d])'
  <2>1. ShapeOf(todo[d])' BY <1>3, <1>4 DEF ShapeOf
  <2>2. Judges(d)' <=> Judges(d) BY <1>2 DEF Judges
  <2>3. JudgedBy(d, todo[d])' BY <1>3, <1>4, <2>2 DEF JudgedBy
  <2> QED BY <2>1, <2>3
<1> QED BY <1>2, <1>4 DEF ShapeInv

\* What a report becomes: it goes, it is handled, or a new one is there.
LEMMA StepReports ==
    ASSUME Inv, NEW c \in Clients, Request(c) \/ Work(c) \/ Lose(c), NEW r \in ReportIds
    PROVE  \/ reports'[r] = reports[r]
           \/ reports'[r] = None
           \/ reports[r] = None /\ reports'[r].status = "pending"
           \/ todo[c] # <<>> /\ Job(c).j = "handle" /\ Job(c).r = r /\ reports[r] # None
<1>1. reports \in [ReportIds -> Report \cup {None}]
  BY DEF Inv, Typed, TypeOK
<1>2. CASE Work(c) \/ Lose(c)
  <2>1. todo[c] # <<>> /\ ReportChange(c) BY <1>2, WorkGoes, WorkReports DEF Inv
  <2>2. ASSUME NEW q \in ReportIds, NEW row, reports' = [reports EXCEPT ![q] = row]
        PROVE reports'[r] = IF r = q THEN row ELSE reports[r]
    BY <1>1, <2>2
  <2> QED BY <2>1, <2>2 DEF ReportChange
<1>3. CASE Begins(c) \/ UploadTexture(c) \/ SetPolicy(c)
  BY <1>3 DEF Begins, UploadTexture, SetPolicy, db
<1>4. CASE \E t \in TexIds : Cascade(t)
  BY <1>4 DEF Cascade
<1> QED BY <1>2, <1>3, <1>4, Steps DEF Inv

\* A report is handled by one request only.
LEMMA HandledOnce ==
    ASSUME Inv, OneJudge, NEW c \in Clients, NEW d \in Clients, todo[c] # <<>>, Job(c).j = "handle",
           NEW m \in DOMAIN todo[d], todo[d][m].j = "handle", todo[d][m].r = Job(c).r
    PROVE  c = d /\ m = 1
<1>1. Job(c) = todo[c][1] /\ 1 \in DOMAIN todo[c]
  BY JobType DEF Inv
<1>2. Judges(c) /\ Judges(d)
  BY <1>1 DEF Inv, ShapeInv, JudgedBy, Judging
<1>3. todo[d] # <<>> OBVIOUS
<1>4. c = d
  BY <1>2, <1>3 DEF OneJudge, Inv, SerialInv, Single
<1>5. m = 1
  BY <1>1, <1>4 DEF Inv, ShapeInv, ShapeOf
<1> QED BY <1>4, <1>5
LEMMA StepHandle ==
    ASSUME Inv, NEW c \in Clients, Request(c) \/ Work(c) \/ Lose(c)
    PROVE  HandleInv'
<1>1. load' = load
  BY StepShape
<1> SUFFICES ASSUME OneJudge, NEW d \in Clients, NEW n \in DOMAIN todo'[d], todo'[d][n].j = "handle"
             PROVE  reports'[todo'[d][n].r] = None \/ reports'[todo'[d][n].r].status = "pending"
  BY <1>1 DEF HandleInv, OneJudge, Judges, HandleOk
<1>2. PICK y : y = todo'[d][n] OBVIOUS
<1>3. y \in Statement /\ y.j = "handle"
  BY <1>2, StepTyped DEF Typed
<1>4. y.r \in ReportIds
  BY <1>3, Fields
<1>5. ASSUME NEW m \in DOMAIN todo[d], todo[d][m] = y, d = c /\ (Work(c) \/ Lose(c)) => m > 1
      PROVE  reports'[y.r] = None \/ reports'[y.r].status = "pending"
  <2>1. reports[y.r] = None \/ reports[y.r].status = "pending"
    BY <1>3, <1>5 DEF Inv, HandleInv, HandleOk
  <2>2. CASE todo[c] # <<>> /\ Job(c).j = "handle" /\ Job(c).r = y.r
    <3>1. c = d /\ m = 1 BY <1>3, <1>5, <2>2, HandledOnce
    <3>2. ~ (Work(c) \/ Lose(c)) BY <1>5, <3>1
    <3>3. \/ Begins(c) \/ UploadTexture(c) \/ (Idle(c) /\ \E t \in TexIds : Cascade(t)) \/ SetPolicy(c)
      BY <3>2, Steps DEF Inv
    <3> QED BY <2>2, <3>3 DEF Begins, UploadTexture, Idle, SetPolicy
  <2>3. CASE ~ (todo[c] # <<>> /\ Job(c).j = "handle" /\ Job(c).r = y.r)
    BY <1>4, <2>1, <2>3, StepReports
  <2> QED BY <2>2, <2>3
<1>6. CASE Work(c) \/ Lose(c)
  <2>1. Continues(c) BY <1>6, WorkGoes, GoesContinues DEF Inv
  <2>2. CASE d = c
    <3>1. \/ HandleOk(y)'
          \/ \E m \in DOMAIN todo[d] : m > 1 /\ y = todo[d][m]
      BY <1>2, <1>3, <2>1, <2>2 DEF Continues
    <3>2. HandleOk(y)' => reports'[y.r] = None \/ reports'[y.r].status = "pending"
      BY <1>3 DEF HandleOk
    <3> QED BY <1>2, <1>5, <3>1, <3>2
  <2>3. CASE d # c
    <3>1. todo'[d] = todo[d] BY <2>1, <2>3 DEF Continues
    <3> QED BY <1>2, <1>5, <2>3, <3>1
  <2> QED BY <2>2, <2>3
<1>7. CASE Begins(c)
  <2>1. PICK s \in Seq(Statement) : todo' = [todo EXCEPT ![c] = s] /\ \A a \in DOMAIN s : s[a].j # "handle"
    BY <1>7 DEF Begins
  <2>2. todo'[c] = s /\ \A e \in Clients : e # c => todo'[e] = todo[e]
    BY <2>1 DEF Inv, Typed
  <2>3. d # c BY <1>2, <1>3, <2>1, <2>2
  <2> QED BY <1>2, <1>5, <2>2, <2>3
<1>8. CASE todo' = todo /\ ~ (Work(c) \/ Lose(c))
  BY <1>2, <1>5, <1>8
<1> QED BY <1>6, <1>7, <1>8, Steps DEF Inv, UploadTexture, Cascade, SetPolicy

\* With one request at a time, the others are idle.
LEMMA StepSerial ==
    ASSUME Inv, NEW c \in Clients, Request(c) \/ Work(c) \/ Lose(c)
    PROVE  SerialInv'
<1>1. load' = load
  BY StepShape
<1> SUFFICES ASSUME load.serial PROVE (Single /\ \A d \in Clients : \A n \in DOMAIN todo[d] : Sound(todo[d][n]))'
  BY <1>1 DEF SerialInv
<1>2. Single /\ \A d \in Clients : \A n \in DOMAIN todo[d] : Sound(todo[d][n])
  BY DEF Inv, SerialInv
<1>3. CASE Work(c) \/ Lose(c)
  <2>1. Continues(c) /\ todo[c] # <<>> BY <1>3, WorkGoes, GoesContinues DEF Inv
  <2>2. \A d \in Clients : d # c => todo[d] = <<>> /\ todo'[d] = <<>>
    BY <1>2, <2>1 DEF Single, Continues
  <2>3. Single' BY <2>2 DEF Single
  <2>4. ASSUME NEW n \in DOMAIN todo'[c] PROVE Sound(todo[c][n])'
    <3>1. PICK y \in Statement : y = todo'[c][n] BY <2>1 DEF Continues
    <3>2. \/ Sound(y)'
          \/ \E m \in DOMAIN todo[c] : m > 1 /\ y = todo[c][m]
      BY <1>1, <2>1, <3>1 DEF Continues
    <3>3. ASSUME NEW m \in DOMAIN todo[c], m > 1, y = todo[c][m] PROVE Sound(y)'
      <4>1. Len(todo[c]) > 1 /\ 1 \in DOMAIN todo[c] /\ Job(c) = todo[c][1]
        BY <2>1, <3>3, JobType DEF Inv
      <4>2. y.j \in Together /\ Job(c).j \in Together
        BY <3>3, <4>1 DEF Inv, ShapeInv, ShapeOf
      <4>3. KeepsRows(c) BY <1>3, WorkRows DEF Inv
      <4>4. CASE y.j = "awrite"
        <5>1. y.t \in TexIds BY <4>4, Fields
        <5>2. tex[y.t] = None \/ (tex[y.t].vis = "public" /\ tex[y.t].content = y.k)
          BY <1>2, <3>3, <4>4 DEF Sound
        <5>3. tex'[y.t] = tex[y.t] \/ (tex[y.t] # None /\ tex'[y.t].vis = tex[y.t].vis /\ tex'[y.t].content = tex[y.t].content)
          BY <4>2, <4>3, <5>1 DEF KeepsRows
        <5>4. tex'[y.t] = None \/ (tex'[y.t].vis = "public" /\ tex'[y.t].content = y.k)
          BY <5>2, <5>3
        <5> QED BY <4>4, <5>4 DEF Sound
      <4>5. CASE y.j # "awrite" BY <4>2, <4>5 DEF Sound, Together
      <4> QED BY <4>4, <4>5
    <3>4. Sound(y)' BY <3>2, <3>3
    <3> QED BY <3>1, <3>4
  <2>5. ASSUME NEW d \in Clients, NEW n \in DOMAIN todo'[d] PROVE Sound(todo[d][n])'
    BY <2>2, <2>4, <2>5
  <2> QED BY <2>3, <2>5
<1>4. CASE Begins(c)
  <2>1. PICK s \in Seq(Statement) :
            todo' = [todo EXCEPT ![c] = s] /\ \A n \in DOMAIN s : s[n].j \notin {"handle", "swrite", "jwrite", "awrite", "pcreate"}
    BY <1>4 DEF Begins
  <2>2. todo'[c] = s /\ \A d \in Clients : d # c => todo'[d] = <<>>
    BY <1>4, <2>1 DEF Begins, Inv, Typed
  <2>3. Single' BY <2>2 DEF Single
  <2>4. ASSUME NEW d \in Clients, NEW n \in DOMAIN todo'[d] PROVE Sound(todo[d][n])'
    <3>1. d = c /\ todo'[d][n] = s[n] /\ n \in DOMAIN s BY <2>2, <2>4
    <3>2. PICK y : y = todo'[d][n] OBVIOUS
    <3>3. y.j \notin {"swrite", "jwrite", "awrite", "pcreate"} BY <2>1, <3>1, <3>2
    <3>4. Sound(y)' BY <3>3 DEF Sound
    <3> QED BY <3>2, <3>4
  <2> QED BY <2>3, <2>4
<1>5. CASE todo' = todo /\ \A d \in Clients : todo[d] = <<>>
  BY <1>5 DEF Single
<1> QED BY <1>3, <1>4, <1>5, Steps DEF Inv, UploadTexture, Cascade, Idle, SetPolicy

\* The texture rows, a row that goes included.
LEMMA StepRows ==
    ASSUME Inv, NEW c \in Clients, Request(c) \/ Work(c) \/ Lose(c)
    PROVE  \/ TexChange(c)
           \/ \E t \in TexIds : Cascade(t)
<1>1. CASE Begins(c) \/ SetPolicy(c)
  BY <1>1 DEF Begins, SetPolicy, db, TexChange
<1> QED BY <1>1, Steps, WorkRows, UploadRow DEF Inv

\* What the statement at hand relies on holds.
LEMMA SoundJob ==
    ASSUME Inv, load.serial, NEW c \in Clients, todo[c] # <<>>
    PROVE  Sound(Job(c))
<1>1. PICK x : x = Job(c) OBVIOUS
<1>2. 1 \in DOMAIN todo[c] /\ x = todo[c][1]
  BY <1>1, JobType DEF Inv
<1>3. Sound(todo[c][1])
  BY <1>2 DEF Inv, SerialInv
<1> QED BY <1>1, <1>2, <1>3

\* The rows after a write.
LEMMA RowAfter ==
    ASSUME Typed, NEW c \in Clients, TexChange(c), NEW u \in TexIds
    PROVE  \/ tex'[u] = tex[u] /\ (history' = history \/ (cleared \subseteq cleared' /\ overtaken \subseteq overtaken')
                                   \/ \E t \in TexIds : t # u /\ Forget(t))
           \/ tex'[u] \in Texture /\ (Fresh(u, tex'[u]) \/ Hidden(u, tex'[u]) \/ Shown(u, tex'[u]) \/ (todo[c] # <<>> /\ Decided(Job(c), u, tex'[u])))
<1>1. CASE tex' = tex /\ UNCHANGED history
  BY <1>1
<1>2. CASE \E t \in TexIds, row \in Texture :
          /\ tex' = [tex EXCEPT ![t] = row]
          /\ Fresh(t, row) \/ Hidden(t, row) \/ Shown(t, row) \/ (todo[c] # <<>> /\ Decided(Job(c), t, row))
  <2>1. PICK t \in TexIds, row \in Texture :
          /\ tex' = [tex EXCEPT ![t] = row]
          /\ Fresh(t, row) \/ Hidden(t, row) \/ Shown(t, row) \/ (todo[c] # <<>> /\ Decided(Job(c), t, row))
    BY <1>2
  <2>2. tex'[u] = IF u = t THEN row ELSE tex[u] BY <2>1 DEF Typed, TypeOK
  <2>3. CASE u = t BY <2>1, <2>2, <2>3
  <2>4. CASE u # t
    <3>1. Fresh(t, row) => Forget(t) BY DEF Fresh
    <3>2. Hidden(t, row) \/ Shown(t, row) => history' = history BY DEF Hidden, Shown
    <3>3. Decided(Job(c), t, row) => cleared \subseteq cleared' /\ overtaken \subseteq overtaken'
      BY DEF Decided
    <3> QED BY <2>1, <2>2, <2>4, <3>1, <3>2, <3>3
  <2> QED BY <2>3, <2>4
<1> QED BY <1>1, <1>2 DEF TexChange

LEMMA StepPublished ==
    ASSUME Inv, NEW c \in Clients, Request(c) \/ Work(c) \/ Lose(c)
    PROVE  PublishedWasCleared'
<1>1. CASE TexChange(c)
  <2> SUFFICES ASSUME NEW u \in TexIds, tex'[u] # None, tex'[u].status = "published"
               PROVE  <<u, tex'[u].content>> \in cleared' \cup overtaken'
    BY DEF PublishedWasCleared, Live
  <2>1. CASE tex'[u] = tex[u]
    <3>1. <<u, tex[u].content>> \in cleared \cup overtaken
      BY <2>1 DEF Inv, PublishedWasCleared, Live
    <3>2. CASE history' = history BY <2>1, <3>1, <3>2 DEF history
    <3>3. CASE cleared \subseteq cleared' /\ overtaken \subseteq overtaken'
      BY <2>1, <3>1, <3>3
    <3>4. CASE \E t \in TexIds : t # u /\ Forget(t) BY <2>1, <3>1, <3>4 DEF Forget
    <3>5. CASE Fresh(u, tex'[u]) \/ Hidden(u, tex'[u]) BY <3>5 DEF Fresh, Hidden
    <3>6. CASE Shown(u, tex'[u]) \/ (todo[c] # <<>> /\ Decided(Job(c), u, tex'[u]))
      BY <2>1, <3>1, <3>6 DEF Shown, Decided, history
    <3> QED BY <1>1, <3>2, <3>3, <3>4, <3>5, <3>6, RowAfter DEF Inv
  <2>2. CASE Fresh(u, tex'[u]) \/ Hidden(u, tex'[u]) BY <2>2 DEF Fresh, Hidden
  <2>3. CASE Shown(u, tex'[u])
    <3>1. tex[u] # None /\ tex[u].status = "published" /\ tex'[u].content = tex[u].content /\ UNCHANGED history
      BY <2>3 DEF Shown
    <3>2. <<u, tex[u].content>> \in cleared \cup overtaken
      BY <3>1 DEF Inv, PublishedWasCleared, Live
    <3> QED BY <3>1, <3>2 DEF history
  <2>4. CASE todo[c] # <<>> /\ Decided(Job(c), u, tex'[u]) BY <2>4 DEF Decided
  <2> QED BY <1>1, <2>1, <2>2, <2>3, <2>4, RowAfter DEF Inv
<1>2. CASE \E t \in TexIds : Cascade(t)
  <2>1. PICK t \in TexIds : tex' = [tex EXCEPT ![t] = None] /\ UNCHANGED history
    BY <1>2 DEF Cascade
  <2> SUFFICES ASSUME NEW u \in TexIds, tex'[u] # None, tex'[u].status = "published"
               PROVE  <<u, tex'[u].content>> \in cleared' \cup overtaken'
    BY DEF PublishedWasCleared, Live
  <2>2. tex'[u] = tex[u] BY <2>1 DEF Inv, Typed, TypeOK
  <2> QED BY <2>1, <2>2 DEF Inv, PublishedWasCleared, Live, history
<1> QED BY <1>1, <1>2, StepRows

LEMMA StepListing ==
    ASSUME Inv, NEW c \in Clients, Request(c) \/ Work(c) \/ Lose(c)
    PROVE  ListingIsRight'
<1>1. load' = load
  BY StepShape
<1>2. \A t \in Live' : Listed(t)' => <<t, tex'[t].content>> \in cleared' \cup overtaken'
  BY StepPublished DEF PublishedWasCleared, Listed
<1>3. ASSUME load.serial PROVE overtaken' = {}
  <2>1. overtaken = {} BY <1>3 DEF Inv, ListingIsRight, ListedWasCleared
  <2>2. CASE UNCHANGED history BY <2>1, <2>2 DEF history
  <2>3. CASE TexChange(c)
    <3>1. ASSUME NEW t, NEW row, Fresh(t, row) \/ Hidden(t, row) \/ Shown(t, row) \/ (todo[c] # <<>> /\ Decided(Job(c), t, row))
          PROVE  overtaken' = {}
      <4>1. todo[c] # <<>> => Sound(Job(c)) BY <1>3, SoundJob
      <4> QED BY <2>1, <3>1, <4>1 DEF Fresh, Hidden, Shown, Decided, Forget, history
    <3> QED BY <2>2, <2>3, <3>1 DEF TexChange
  <2> QED BY <2>2, <2>3, StepRows DEF Cascade
<1>4. ASSUME load.serial, NEW u \in TexIds, tex'[u] # None, tex'[u].vis = "private" PROVE tex'[u].status = "private"
  <2>1. CASE tex'[u] = tex[u] BY <1>4, <2>1 DEF Inv, ListingIsRight, PrivateIsOut, Live
  <2>2. CASE tex'[u] # tex[u]
    <3>1. TexChange(c) BY <1>4, <2>2, StepRows DEF Cascade, Inv, Typed, TypeOK
    <3>2. Fresh(u, tex'[u]) \/ Hidden(u, tex'[u]) \/ Shown(u, tex'[u]) \/ (todo[c] # <<>> /\ Decided(Job(c), u, tex'[u]))
      BY <2>2, <3>1, RowAfter DEF Inv
    <3>3. CASE todo[c] # <<>> /\ Decided(Job(c), u, tex'[u])
      <4>2. Sound(Job(c)) BY <1>4, <3>3, SoundJob
      <4> QED BY <1>4, <3>3, <4>2 DEF Decided, Sound
    <3> QED BY <1>4, <3>2, <3>3 DEF Fresh, Hidden, Shown
  <2> QED BY <2>1, <2>2
<1> QED BY <1>1, <1>2, <1>3, <1>4 DEF ListingIsRight, ListedWasCleared, PrivateIsOut, Live

LEMMA StepTags ==
    ASSUME Inv, NEW c \in Clients, Request(c) \/ Work(c) \/ Lose(c)
    PROVE  TagsExist'
<1>1. /\ tex \in [TexIds -> Texture \cup {None}] /\ tags \in [TagIds -> Names \cup {None}]
      /\ tagged \subseteq TexIds \X TagIds
      /\ \A b \in tagged : tex[b[1]] # None /\ tags[b[2]] # None
  BY DEF Inv, Typed, TypeOK, TagsExist
<1>2. ASSUME TexChange(c), NEW t \in TexIds, tex[t] # None PROVE tex'[t] # None
  BY <1>2, RowAfter, NoRow DEF Inv
<1>3. CASE UNCHANGED <<tags, tagged>> /\ TexChange(c)
  BY <1>1, <1>2, <1>3 DEF TagsExist
<1>4. CASE Work(c) \/ Lose(c)
  <2>1. TexChange(c) /\ TagChange BY <1>4, WorkRows, WorkTags DEF Inv
  <2>2. CASE \E g \in TagIds, n \in Names : tags' = [tags EXCEPT ![g] = n] /\ tagged' = tagged
    <3>1. \A g \in TagIds : tags[g] # None => tags'[g] # None BY <1>1, <2>2, NoRow
    <3> QED BY <1>1, <1>2, <2>1, <2>2, <3>1 DEF TagsExist
  <2>3. CASE \E g \in TagIds : tags' = [tags EXCEPT ![g] = None] /\ tagged' = {b \in tagged : b[2] # g}
    <3>1. PICK g \in TagIds : tags' = [tags EXCEPT ![g] = None] /\ tagged' = {b \in tagged : b[2] # g}
      BY <2>3
    <3>2. \A h \in TagIds : h # g => tags'[h] = tags[h] BY <1>1, <3>1
    <3> QED BY <1>1, <1>2, <2>1, <3>1, <3>2 DEF TagsExist
  <2>4. CASE tags' = tags /\ tagged' \subseteq tagged
    BY <1>1, <1>2, <2>1, <2>4 DEF TagsExist
  <2>5. CASE \E t \in TexIds, g \in TagIds : tags' = tags /\ tagged' = tagged \cup {<<t, g>>} /\ tex[t] # None /\ tags[g] # None
    BY <1>1, <1>2, <2>1, <2>5 DEF TagsExist
  <2> QED BY <1>3, <2>1, <2>2, <2>3, <2>4, <2>5 DEF TagChange
<1>5. CASE Begins(c) \/ SetPolicy(c)
  BY <1>1, <1>5 DEF Begins, SetPolicy, db, TagsExist
<1>6. CASE UploadTexture(c)
  BY <1>3, <1>6, UploadRow DEF UploadTexture, Inv
<1>7. CASE \E t \in TexIds : Cascade(t)
  BY <1>1, <1>7 DEF Cascade, TagsExist
<1> QED BY <1>4, <1>5, <1>6, <1>7, Steps DEF Inv

LEMMA StepOneOpen ==
    ASSUME Inv, NEW c \in Clients, Request(c) \/ Work(c) \/ Lose(c)
    PROVE  OneOpenReport'
<1>1. load' = load
  BY StepShape
<1>2. reports \in [ReportIds -> Report \cup {None}]
  BY DEF Inv, Typed, TypeOK
<1> SUFFICES ASSUME load.serial, NEW r \in ReportIds, NEW q \in ReportIds, reports'[r] # None, reports'[q] # None,
                    reports'[r].status = "pending", reports'[q].status = "pending",
                    reports'[r].t = reports'[q].t, reports'[r].by = reports'[q].by
             PROVE  r = q
  BY <1>1 DEF OneOpenReport, LiveReports
<1>3. CASE reports'[r] = reports[r] /\ reports'[q] = reports[q]
  BY <1>3 DEF Inv, OneOpenReport, LiveReports
<1>4. CASE Work(c) \/ Lose(c)
  <2>1. todo[c] # <<>> /\ ReportChange(c) BY <1>4, WorkGoes, WorkReports DEF Inv
  <2>2. ASSUME NEW i \in ReportIds, NEW row \in Report, reports' = [reports EXCEPT ![i] = row],
               Job(c).j = "pcreate", row.t = Job(c).t, row.by = Job(c).u, row.status = "pending"
        PROVE  r = q
    <3>1. reports'[i] = row /\ \A p \in ReportIds : p # i => reports'[p] = reports[p]
      BY <1>2, <2>2
    <3>2. \A p \in PendingOf(Job(c).t) : reports[p].by # Job(c).u
      BY <2>1, <2>2, SoundJob DEF Sound
    <3>3. ASSUME NEW p \in ReportIds, p # i, reports'[p] # None, reports'[p].status = "pending", reports'[p].t = Job(c).t
          PROVE  reports'[p].by # Job(c).u
      BY <3>1, <3>2, <3>3 DEF PendingOf, LiveReports
    <3>4. CASE r = i BY <2>2, <3>1, <3>3, <3>4
    <3>5. CASE q = i BY <2>2, <3>1, <3>3, <3>5
    <3>6. CASE r # i /\ q # i BY <1>3, <3>1, <3>6
    <3> QED BY <3>4, <3>5, <3>6
  <2>3. ASSUME NEW i \in ReportIds, NEW row \in Report, reports' = [reports EXCEPT ![i] = row], row.status # "pending"
        PROVE  r = q
    <3>1. reports'[i] = row /\ \A p \in ReportIds : p # i => reports'[p] = reports[p]
      BY <1>2, <2>3
    <3> QED BY <1>3, <2>3, <3>1
  <2> QED BY <1>3, <2>1, <2>2, <2>3 DEF ReportChange
<1>5. CASE Begins(c) \/ UploadTexture(c) \/ SetPolicy(c)
  BY <1>3, <1>5 DEF Begins, UploadTexture, SetPolicy, db
<1>6. CASE \E t \in TexIds : Cascade(t)
  BY <1>3, <1>6 DEF Cascade
<1> QED BY <1>4, <1>5, <1>6, Steps DEF Inv

-----------------------------------------------------------------------------
(* The theorems                                                            *)

LEMMA InitInv == Init => Inv
<1> SUFFICES ASSUME Init PROVE Inv
  OBVIOUS
<1>1. load \in Workloads /\ load.review \in BOOLEAN /\ load.faults \in Nat
  BY LibraryAssumption DEF Init
<1>2. TypeOK
  BY <1>1 DEF Init, TypeOK
<1>3. <<>> \in Seq(Statement) /\ DOMAIN <<>> = {} OBVIOUS
<1>4. \A c \in Clients : todo[c] = <<>>
  BY DEF Init
<1>5. Typed
  BY <1>2, <1>3 DEF Init, Typed
<1>6. ShapeInv /\ HandleInv /\ SerialInv
  BY <1>3, <1>4 DEF ShapeInv, ShapeOf, JudgedBy, HandleInv, SerialInv, Single
<1>7. PublishedWasCleared /\ ListingIsRight /\ TagsExist /\ OneOpenReport
  BY DEF Init, PublishedWasCleared, ListingIsRight, ListedWasCleared, PrivateIsOut, TagsExist, OneOpenReport, Live, LiveReports
<1> QED BY <1>5, <1>6, <1>7 DEF Inv

LEMMA StutterInv == Inv /\ UNCHANGED vars => Inv'
<1> SUFFICES ASSUME Inv, UNCHANGED vars PROVE Inv'
  OBVIOUS
<1>1. Typed'
  BY DEF vars, Inv, Typed, TypeOK
<1>6. ShapeInv'
  <2>1. todo' = todo /\ load' = load BY DEF vars
  <2>2. ASSUME NEW c \in Clients PROVE ShapeOf(todo[c])' /\ JudgedBy(c, todo[c])'
    <3>1. ShapeOf(todo[c]) /\ JudgedBy(c, todo[c]) BY DEF Inv, ShapeInv
    <3>2. ShapeOf(todo[c])' BY <2>1, <3>1 DEF ShapeOf
    <3>3. Judges(c)' <=> Judges(c) BY <2>1 DEF Judges
    <3>4. JudgedBy(c, todo[c])' BY <2>1, <3>1, <3>3 DEF JudgedBy
    <3> QED BY <3>2, <3>4
  <2> QED BY <2>2 DEF ShapeInv
<1>2. HandleInv'
  BY DEF vars, Inv, HandleInv, HandleOk, OneJudge, Judges
<1>3. SerialInv'
  BY DEF vars, Inv, SerialInv, Single, Sound, PendingOf, LiveReports
<1>4. PublishedWasCleared' /\ ListingIsRight'
  BY DEF vars, Inv, PublishedWasCleared, ListingIsRight, ListedWasCleared, PrivateIsOut, Live, Listed
<1>5. TagsExist' /\ OneOpenReport'
  BY DEF vars, Inv, TagsExist, OneOpenReport, LiveReports
<1> QED BY <1>1, <1>2, <1>3, <1>4, <1>5, <1>6 DEF Inv

LEMMA StepInv == Inv /\ [Next]_vars => Inv'
<1> SUFFICES ASSUME Inv, [Next]_vars PROVE Inv'
  OBVIOUS
<1>1. CASE UNCHANGED vars
  BY <1>1, StutterInv
<1>2. CASE Next
  <2>1. PICK c \in Clients : Request(c) \/ Work(c) \/ Lose(c) BY <1>2 DEF Next
  <2> QED
    BY <2>1, StepTyped, StepShape, StepHandle, StepSerial, StepPublished, StepListing, StepTags, StepOneOpen DEF Inv
<1> QED BY <1>1, <1>2

\* The strengthening is an invariant: what every reachable state of the library satisfies.
THEOREM LibraryInv == Spec => []Inv
  BY InitInv, StepInv, PTL DEF Spec

\* What the library shows was cleared in its present content or published by an overtaken approval, of which there
\* is none with one request at a time; then a private texture has no standing either.
THEOREM ListedIsCleared == Spec => []ListingIsRight
<1>1. Inv => ListingIsRight
  BY DEF Inv
<1> QED BY <1>1, LibraryInv, PTL

\* The tables are typed, a texture's tags exist and, with one request at a time, a user has one open report of a texture.
THEOREM LibraryAgrees == Spec => []LibraryConsistent
<1>1. Inv => LibraryConsistent
  BY DEF Inv, Typed, LibraryConsistent
<1> QED BY <1>1, LibraryInv, PTL

\* A handled report keeps its verdict until it goes with its texture.
THEOREM VerdictsAreFinal == Spec => VerdictIsFinal
<1>1. ASSUME Inv, [Next]_vars
      PROVE  [OneJudge => \A r \in ReportIds : reports[r] # None /\ reports[r].status # "pending"
                 => reports'[r] \in {reports[r], None}]_vars
  <2> SUFFICES ASSUME Next, OneJudge, NEW r \in ReportIds, reports[r] # None, reports[r].status # "pending"
               PROVE  reports'[r] \in {reports[r], None}
    BY <1>1
  <2>1. PICK c \in Clients : Request(c) \/ Work(c) \/ Lose(c) BY DEF Next
  <2>2. ASSUME todo[c] # <<>>, Job(c).j = "handle", Job(c).r = r PROVE FALSE
    <3>1. PICK x : x = Job(c) OBVIOUS
    <3>2. 1 \in DOMAIN todo[c] /\ x = todo[c][1] /\ x.j = "handle" /\ x.r = r
      BY <1>1, <2>2, <3>1, JobType DEF Inv
    <3>3. HandleOk(todo[c][1]) BY <1>1, <3>2 DEF Inv, HandleInv
    <3> QED BY <3>2, <3>3 DEF HandleOk
  <2> QED BY <1>1, <2>1, <2>2, StepReports
<1> QED BY <1>1, LibraryInv, PTL DEF Spec, VerdictIsFinal
=============================================================================
