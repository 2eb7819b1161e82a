----------------------------- MODULE MCYggToken -----------------------------
(* Small deployments of YggToken for TLC. *)
EXTENDS YggToken, TLC

\* Requests are interchangeable.
Symmetry == Permutations(Proc)

CONSTANTS u1, f1

\* One user owns every profile.
OneOwner == [f \in Profiles |-> u1]

\* Lookups against every way of revoking, with at most one token kept;
\* renames and deletions; logins and refreshes alone, serial, with two kept.
SmallModes ==
    { [ops |-> {"authenticate", "validate", "refresh", "invalidate", "signout", "cleanup"},
       serial |-> FALSE, active |-> 1, profiles |-> {}, tokens |-> 2],
      [ops |-> {"authenticate", "validate", "rename", "delete"},
       serial |-> FALSE, active |-> 2, profiles |-> {f1}, tokens |-> 2],
      [ops |-> {"authenticate", "refresh"},
       serial |-> TRUE, active |-> 2, profiles |-> {}, tokens |-> 3] }
=============================================================================
