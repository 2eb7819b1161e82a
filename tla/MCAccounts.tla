------------------------------ MODULE MCAccounts ------------------------------
EXTENDS Accounts, TLC

CONSTANTS c1, c2, e1, e2, e3

Account(e, role) == [email |-> e, pending |-> None, verified |-> TRUE, role |-> role, scopes |-> FALSE, active |-> TRUE]
Load(one, other, serial, n, time, us, es, max) ==
    [ops |-> c1 :> one @@ c2 :> other, serial |-> serial, faults |-> n, activation |-> TRUE, time |-> time,
     users |-> us, emails |-> es, max |-> [user |-> max[1], tok |-> max[2], inv |-> max[3]]]
Open(w) == [w EXCEPT !.activation = FALSE]
Admin == Account(e1, "admin")
Member == Account(e2, "user")

\* One request at a time, with a failure at any statement.
Founding == Load({"setup", "register", "contact", "reset", "newpassword"}, {}, TRUE, 1, TRUE, <<>>, {e1, e2}, <<2, 2, 0>>)
Managing == Load({"change", "contact", "newpassword", "reset"}, {"update"}, TRUE, 0, FALSE, <<Admin>>, {e1, e2, e3}, <<1, 2, 0>>)
Renewing == Load({"change", "resend", "contact"}, {}, TRUE, 1, TRUE, <<Admin>>, {e2, e3}, <<1, 3, 0>>)
Correcting == Load({"register", "contact"}, {"update"}, TRUE, 1, FALSE, <<Admin>>, {e2, e3}, <<2, 2, 0>>)
Hosting == Load({"accept", "verify", "register", "contact"}, {"invite", "revoke", "delete"}, TRUE, 1, TRUE, <<Admin>>, {e2}, <<3, 1, 2>>)
\* Two requests at once.
Joining == Load({"register", "activation", "contact"}, {"register", "contact"}, FALSE, 0, TRUE, <<Admin>>, {e2, e3}, <<3, 2, 0>>)
Moving == Load({"change", "contact"}, {"change", "contact"}, FALSE, 0, FALSE, <<Admin, Member>>, {e2, e3}, <<2, 3, 0>>)
Resetting == Load({"reset", "newpassword"}, {"newpassword", "change", "contact"}, FALSE, 0, FALSE, <<Admin>>, {e1, e2}, <<1, 4, 0>>)
Inviting == Open(Load({"accept", "verify", "register"}, {"invite", "accept", "revoke"}, FALSE, 0, TRUE, <<Admin>>, {e2}, <<3, 0, 3>>))
Staffing == Load({"update", "delete"}, {"update", "create"}, FALSE, 0, FALSE, <<Admin>>, {e2}, <<2, 0, 0>>)

AllLoads == {Founding, Managing, Renewing, Correcting, Hosting, Joining, Moving, Resetting, Inviting, Staffing}
==============================================================================
