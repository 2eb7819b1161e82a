---------------------------- MODULE MCTextureStore ----------------------------
EXTENDS Avatars

CONSTANTS u1, u2, p1, p2, h1, h2, h3, c1, c2

Owners == p1 :> u1 @@ p2 :> u1
Load(ops, serial, n, us, ps, hs) ==
    [ops |-> ops, serial |-> serial, faults |-> n, legacy |-> Cardinality(ps) > 1, slim |-> FALSE,
     fresh |-> ~ serial, users |-> us, profiles |-> ps, hashes |-> hs]

\* One request at a time, with a failure at any statement.
Sharing == Load({"upload", "copy", "delete", "remove", "replace", "maintain", "blob"}, TRUE, 1, {u1, u2}, {p1}, {h1, h2})
Binding == Load({"skin", "bind", "unbind", "metadata", "presets", "properties"}, TRUE, 1, {u1}, {p1}, {h1})
Official == Load({"import", "dropOfficial", "purgeProfile", "purgeUser", "properties", "blob"}, TRUE, 1, {u1}, {p1}, {h1, h2})
Legacy == Load({"maintain", "unbind", "upload", "purgeHash", "properties"}, TRUE, 1, {u1}, {p1, p2}, {h1, h2})
Showing == Load({"avatar", "source", "nickname"}, TRUE, 2, {u1}, {p1}, {h1})
Departing == Load({"avatar", "account", "nickname", "maintain"}, TRUE, 1, {u1, u2}, {p1, p2}, {h1})
\* Two requests at a time, every upload with content of its own.
Replacing == Load({"upload", "replace"}, FALSE, 0, {u1}, {p1}, {h1, h2, h3})
Editing == Load({"upload", "replace", "metadata"}, FALSE, 0, {u1}, {p1}, {h1, h2})
Slow == Load({"upload", "bind", "unbind", "properties"}, FALSE, 0, {u1}, {p1}, {h1})

AllLoads == {Sharing, Binding, Official, Legacy, Showing, Departing, Replacing, Editing, Slow}

ClientSymmetry == Permutations(Clients)
==============================================================================
