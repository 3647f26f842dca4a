------------------------------- MODULE MCJobs -------------------------------
(* Small instances of Jobs.                                                 *)
EXTENDS Jobs, TLC

\* Requests of one kind are interchangeable, as are folders.
Symmetry == Permutations(Requests \ Uploads) \cup Permutations(Folders)
=============================================================================
