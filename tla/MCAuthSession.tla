--------------------------- MODULE MCAuthSession ---------------------------
(* Small instances of AuthSession for TLC. *)
EXTENDS AuthSession, TLC

\* Requests, token ids and session ids are interchangeable.
Symmetry == Permutations(Proc) \cup Permutations(Jti) \cup Permutations(Sid)
=============================================================================
