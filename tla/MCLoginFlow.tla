------------------------------ MODULE MCLoginFlow ------------------------------
(* Small instances of LoginFlow: tabs and logins are alike.                 *)
EXTENDS LoginFlow, TLC

MCSymmetry == Permutations(Tabs) \cup Permutations(Logins)
=============================================================================
