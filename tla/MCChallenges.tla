----------------------------- MODULE MCChallenges -----------------------------
EXTENDS Challenges

CONSTANTS u1, u2, c1, c2

Blank == [op |-> "", user |-> NoOne, of |-> 0, cred |-> c1, signs |-> 0, count |-> 0, verified |-> TRUE,
          discoverable |-> TRUE, name |-> "key", right |-> TRUE, need |-> "login"]
Begin(u) == [Blank EXCEPT !.op = "start registration", !.user = u]
Finish(u, f, c) == [Blank EXCEPT !.op = "finish registration", !.user = u, !.of = f, !.signs = f, !.cred = c]
Enter(u) == [Blank EXCEPT !.op = "start login", !.user = u]
Prove(f, c, n) == [Blank EXCEPT !.op = "finish login", !.of = f, !.signs = f, !.cred = c, !.count = n]
Rename(u, i) == [Blank EXCEPT !.op = "rename", !.user = u, !.of = i, !.name = "renamed"]
Delete(u, i) == [Blank EXCEPT !.op = "delete", !.user = u, !.of = i]
Issue == [Blank EXCEPT !.op = "issue captcha"]
Answer(f, ok) == [Blank EXCEPT !.op = "answer", !.of = f, !.right = ok]

Base == [users |-> [u \in Persons |-> [active |-> TRUE, activated |-> TRUE]], keys |-> <<>>, jobs |-> <<>>, https |-> TRUE,
         required |-> {"login"}, max_attempts |-> 2, ageing |-> FALSE, disabled |-> {}, closing |-> FALSE]
One == <<Passkey(u1, c1, 1, 0, "key")>>
Two == <<Passkey(u1, c1, 1, 0, "key"), Passkey(u2, c2, 2, 0, "key")>>

Loads == {
    \* two users register at once, one of them with the other's flow, and sign in
    [Base EXCEPT !.jobs = <<Begin(u1), Begin(u2), Finish(u1, 1, c1), Finish(u2, 1, c2), Finish(u2, 2, c2), Enter(NoOne), Prove(6, c2, 0)>>],
    [Base EXCEPT !.keys = One, !.jobs = <<Begin(u1), Finish(u2, 1, c2), Finish(u1, 1, c2), Rename(u1, 1), Delete(u1, 1)>>],
    \* one authenticator answers two users, an answer is for another challenge, the registration is not discoverable
    [Base EXCEPT !.jobs = <<Begin(u1), Begin(u2), Finish(u1, 1, c1), Finish(u2, 2, c1)>>, !.ageing = TRUE, !.disabled = {u1}],
    [Base EXCEPT !.jobs = <<Begin(u1), Begin(u1), [Finish(u1, 1, c1) EXCEPT !.signs = 2], [Finish(u1, 2, c1) EXCEPT !.discoverable = FALSE]>>],
    [Base EXCEPT !.keys = <<Passkey(u1, c2, 1, 0, "key")>>, !.jobs = <<[Begin(u1) EXCEPT !.name = "too long"], Begin(u1),
                 [Finish(u1, 2, c1) EXCEPT !.name = "too long"], [Rename(u1, 1) EXCEPT !.name = "too long"]>>],
    \* one flow answered twice, by a named user and by another one
    [Base EXCEPT !.keys = Two, !.jobs = <<Enter(u1), Prove(1, c1, 1), Prove(1, c1, 2), Prove(1, c2, 1), Delete(u1, 1)>>, !.ageing = TRUE],
    \* two flows, two copies of one authenticator, a deletion and a renaming in between
    [Base EXCEPT !.keys = One, !.jobs = <<Enter(NoOne), Enter(u1), Prove(1, c1, 1), Prove(2, c1, 1), Delete(u1, 1), Rename(u1, 1)>>],
    [Base EXCEPT !.keys = One, !.jobs = <<Enter(NoOne), Enter(u1), Prove(1, c1, 2), Prove(2, c1, 1), [Prove(2, c1, 3) EXCEPT !.signs = 1]>>, !.closing = TRUE],
    [Base EXCEPT !.keys = Two, !.jobs = <<Enter(NoOne), Enter(NoOne), [Prove(1, c1, 0) EXCEPT !.verified = FALSE], Prove(2, c2, 0), Delete(u2, 2), Delete(u1, 2)>>,
                 !.disabled = Persons, !.users[u1].activated = FALSE],
    [Base EXCEPT !.jobs = <<Begin(u1), Enter(NoOne), Prove(2, c1, 0)>>, !.https = FALSE],
    \* captchas
    [Base EXCEPT !.jobs = <<Issue, Answer(1, FALSE), Answer(1, FALSE), Answer(1, TRUE), Answer(1, TRUE)>>],
    [Base EXCEPT !.jobs = <<Issue, Answer(1, FALSE), Answer(1, FALSE), Answer(1, FALSE), Answer(1, TRUE)>>, !.max_attempts = 1],
    [Base EXCEPT !.jobs = <<Issue, Issue, Answer(1, FALSE), Answer(1, TRUE), [Answer(2, TRUE) EXCEPT !.need = "register"], Answer(2, TRUE)>>, !.ageing = TRUE]}
==============================================================================
