------------------------------ MODULE MCYggJoin -------------------------------
EXTENDS YggJoin, TLC

CONSTANTS c1, c2, v1, v2, v3, m1, i1, i2

\* Names 1 and 2 differ in case only; v3 has not registered yet.
NormOf == <<2, 2, 3, 4>>
Logins(a, b) == v1 :> a @@ v2 :> b @@ v3 :> None

Local(u, n, p) == [owner |-> u, name |-> n, source |-> "local", uuid |-> p, renames |-> 0]
Linked(u, n, m) == [Local(u, n, m) EXCEPT !.source = "microsoft"]
Here == [kind |-> "local", builtin |-> TRUE, url |-> None, on |-> TRUE, prio |-> 1]
Mojang == [kind |-> "mojang", builtin |-> TRUE, url |-> "mojang", on |-> TRUE, prio |-> 2]
Other(url, n) == [kind |-> "authlib", builtin |-> FALSE, url |-> url, on |-> TRUE, prio |-> n]
BanOf(u, s, later, end) == [user |-> u, scopes |-> s, later |-> later, end |-> end]
Edit(f, v) == [field |-> f, val |-> v]

Base == [ops |-> c1 :> {} @@ c2 :> {}, serial |-> FALSE, time |-> FALSE, faults |-> 0, names |-> {1}, ips |-> {i1},
         logins |-> Logins(2, 3), profiles |-> <<Local(v1, 1, 1)>>,
         bans |-> {BanOf(v1, {"join"}, 0, Forever)}, fwds |-> <<Here>>, new |-> {}, edits |-> {}]
Load(one, other, b) == [b EXCEPT !.ops = c1 :> one @@ c2 :> other]
Serial(b) == [b EXCEPT !.serial = TRUE]

\* A server asks while the player joins, is banned, renamed or deleted.
Playing == Load({"signin", "join"}, {"ask"}, [Base EXCEPT !.names = {1, 2}, !.ips = {i1, i2}, !.faults = 1])
Banning == Load({"signin", "join", "ask"}, {"ban", "unban"}, [Base EXCEPT !.fwds = <<>>, !.time = TRUE, !.bans = {BanOf(v1, {"join", "access"}, 0, 1)}])
Leaving == Load({"signin", "join", "ask"}, {"rename", "delete"}, [Base EXCEPT !.names = {1, 4}])
\* Upstreams that answer, refuse and fail, and change while they are asked.
Forwarding == Load({"ask"}, {"fedit"}, [Base EXCEPT !.fwds = <<Here, Mojang>>, !.faults = 1, !.edits = {Edit("on", 0), Edit("prio", 2)}])
\* The owner of a bound official account is banned while Mojang is asked about him.
Vouching == Load({"ask"}, {"ban"}, [Base EXCEPT !.fwds = <<Here, Mojang>>, !.profiles = <<Linked(v1, 1, m1)>>])
Asking == Serial(Load({"signin", "join", "ask"}, {"official", "fedit"},
    [Base EXCEPT !.fwds = <<Here, Mojang, Other("u1", 0)>>, !.edits = {Edit("on", 0), Edit("on", 1)}]))
Administering == Serial(Load({"ask"}, {"fadd", "fedit", "fdrop"},
    [Base EXCEPT !.fwds = <<Here>>, !.new = {Other("u1", 2), Other("u2", 0)}, !.faults = 1,
                 !.edits = {Edit("on", 0), Edit("url", 0), Edit("kind", 1)}]))
Editing == Load({"fadd", "fedit"}, {"fadd", "fdrop"}, [Base EXCEPT !.new = {Other("u1", 1), Other("u2", 1)}, !.edits = {Edit("url", 0), Edit("on", 0)}])
\* Two administrators and one user's bans.
Moderating == Load({"ban", "reban"}, {"reban", "unban"},
    [Base EXCEPT !.bans = {BanOf(v1, {"join"}, 0, Forever), BanOf(v1, {"join", "manage"}, 1, 2)}])
Scheduling == Serial(Load({"ban", "reban", "unban"}, {},
    [Base EXCEPT !.time = TRUE, !.bans = {BanOf(v1, {"join"}, 0, Forever), BanOf(v1, {"join", "manage"}, 1, 2), BanOf(v1, {"manage"}, 0, 2)}]))
\* Names.
Naming == Load({"create", "rename"}, {"create", "arename", "delete"}, [Base EXCEPT !.fwds = <<>>, !.names = {2, 4}])
Greeting == Load({"auto"}, {"rename", "arename"}, [Base EXCEPT !.fwds = <<>>, !.names = {2, 3, 4}])
Keeping == Serial(Load({"create", "rename", "official", "names"}, {"delete", "ban"},
    [Base EXCEPT !.fwds = <<>>, !.names = {2, 3, 4}, !.bans = {BanOf(v1, {"manage"}, 0, 1)}]))
\* Two users register while a third creates and renames his profile; the administrator gives him another login name.
Registering == Load({"register", "create"}, {"register", "login", "rename"},
    [Base EXCEPT !.fwds = <<>>, !.names = {1, 2}, !.logins = Logins(3, None), !.profiles = <<Local(v1, 4, 1)>>])
Binding == Load({"official", "create"}, {"official", "register"}, [Base EXCEPT !.fwds = <<>>, !.names = {3, 4}])
Enrolling == Serial(Load({"register", "create"}, {"login", "rename", "delete"}, [Base EXCEPT !.fwds = <<>>, !.names = {2, 3, 4}]))

AllLoads == {Playing, Banning, Leaving, Forwarding, Vouching, Asking, Administering, Editing, Moderating, Scheduling, Naming, Greeting, Keeping,
             Registering, Binding, Enrolling}
==============================================================================
