--------------------------- MODULE MCAuthSessions ---------------------------
(* Symmetry for the runs of AuthSessions.                                   *)
EXTENDS AuthSessions, TLC

MCSymmetry == Permutations(Users) \cup Permutations(Tokens)
                \cup Permutations(Requests)
=============================================================================
