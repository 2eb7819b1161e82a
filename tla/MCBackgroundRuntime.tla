------------------------ MODULE MCBackgroundRuntime ------------------------
EXTENDS BackgroundRuntime, TLC

CONSTANTS n1, n2

Base == [nodes |-> Nodes, stops |-> {}, kinds |-> <<>>, mails |-> <<>>, recorded |-> {}, requests |-> 0, asks |-> FALSE,
         capacity |-> 2, batch |-> 1, mail_batch |-> 1, max_attempts |-> 2, rounds |-> 2,
         left |-> [crashes |-> 0, stalls |-> 0, writes |-> 0, sends |-> 0, claims |-> 0, cleanups |-> 0]]
One == [Base EXCEPT !.nodes = {n1}]
Good == <<"good">>
Everything == {"request", "server_start", "server_shutdown", "mail_send", "mail_delivery_failed"}

Loads == {
    \* records of the health check on two nodes
    [Base EXCEPT !.kinds = Health :> 2, !.left.stalls = 2, !.left.cleanups = 1],
    [Base EXCEPT !.kinds = Health :> 2, !.left.crashes = 1, !.left.stalls = 1],
    [One EXCEPT !.kinds = Health :> 4, !.left.cleanups = 1],
    \* the other kinds
    [One EXCEPT !.kinds = Dispatch :> 2 @@ "audit-cleanup" :> 2, !.left.stalls = 1],
    [One EXCEPT !.kinds = "yggdrasil-texture-cleanup" :> 1 @@ "yggdrasil-storage-consistency-check" :> 2, !.left.crashes = 1],
    \* mails on two nodes
    [Base EXCEPT !.kinds = MailKind :> 9, !.mails = Good, !.left.crashes = 1, !.left.stalls = 1],
    [Base EXCEPT !.kinds = MailKind :> 9, !.mails = Good, !.left.stalls = 1, !.left.sends = 1, !.stops = {n1}],
    [One EXCEPT !.kinds = MailKind :> 9, !.mails = <<"good", "bad">>, !.left.sends = 1, !.left.claims = 1],
    \* a shutdown drains the outbox
    [One EXCEPT !.kinds = MailKind :> 9, !.mails = <<"good", "good">>, !.left.claims = 1, !.stops = {n1}, !.rounds = 3],
    [One EXCEPT !.kinds = MailKind :> 9, !.mails = <<"good", "bad">>, !.left.writes = 1, !.stops = {n1}, !.recorded = Everything, !.mail_batch = 2],
    \* the audit log
    [One EXCEPT !.requests = 3, !.asks = TRUE, !.recorded = Everything, !.left.writes = 1, !.stops = {n1}],
    [One EXCEPT !.requests = 3, !.recorded = Everything, !.left.writes = 1, !.left.crashes = 1, !.stops = {n1}, !.capacity = 3, !.batch = 2]}
=============================================================================
