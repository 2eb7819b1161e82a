--------------------------- MODULE MCTextureLibrary ---------------------------
EXTENDS TextureLibrary

CONSTANTS c1, c2, k1, k2

Load(user, admin, serial, n, review, ts, ks) ==
    [ops |-> c1 :> user @@ c2 :> admin, serial |-> serial, faults |-> n, review |-> review,
     texs |-> ts, contents |-> ks]

\* One request at a time, with a failure at any statement.
Publishing == Load({"upload", "visibility", "replace", "submit", "withdraw", "delete"},
                   {"approve", "reject", "unpublish", "remove", "policy"}, TRUE, 1, TRUE, {1}, {k1, k2})
Reporting == Load({"upload", "submit", "report", "copy", "visibility"},
                  {"unpublish", "accept", "dismiss", "remove"}, TRUE, 1, FALSE, {1, 2}, {k1})
\* Two administrators, one after the other.
Deciding == Load({"upload", "submit", "report", "accept", "dismiss"},
                {"unpublish", "accept", "dismiss"}, TRUE, 1, FALSE, {1}, {k1})
\* A user and an administrator at once.
Reviewing == Load({"upload", "visibility", "submit", "withdraw", "delete"},
                  {"approve", "reject", "unpublish"}, FALSE, 0, TRUE, {1}, {k1})
Handling == Load({"upload", "submit", "report", "delete"},
                 {"unpublish", "accept", "dismiss"}, FALSE, 0, FALSE, {1}, {k1})
Tagging == Load({"upload", "submit", "copy", "retag"}, {"tags"}, FALSE, 0, FALSE, {1}, {k1})
Editing == Load({"upload", "replace"}, {"visibility", "replace"}, FALSE, 0, TRUE, {1}, {k1, k2})
Overtaking == Load({"upload", "replace", "visibility", "submit"}, {"approve"}, FALSE, 1, TRUE, {1}, {k1, k2})
Curating == Load({"upload", "submit", "retag"}, {"approve", "tags"}, FALSE, 0, TRUE, {1}, {k1})

AllLoads == {Publishing, Reporting, Deciding, Reviewing, Handling, Tagging, Editing, Overtaking, Curating}
==============================================================================
