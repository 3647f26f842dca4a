------------------------------ MODULE MCDialogs ------------------------------
(* Two remotes for Dialogs.  In r1: a folder d with a file and folders of   *)
(* its own, a folder whose name has a colon, and files that some columns    *)
(* compare equal, one of them named so that it breaks its URL; in r2: a     *)
(* folder within one whose name breaks links.                               *)
EXTENDS Dialogs

Row(remote, names, isDir, size, lastModified, mimeType) ==
  [at |-> [remote |-> remote, names |-> names], name |-> Last(names), isDir |-> isDir,
   size |-> size, lastModified |-> lastModified, mimeType |-> mimeType]

d  == <<"d">>
e  == <<"e">>
dx == <<"d", Colon, "x">>
f  == <<"f">>
F  == <<"F">>
g  == <<"g">>
h  == <<"f", "%20", "#">>
w  == <<"?">>
v  == <<"v">>

InD     == Row("r1", <<d, f>>, FALSE, 1, 1, 1)
FolderV == Row("r2", <<w, v>>, TRUE, 0, Missing, 0)
Odd     == Row("r2", <<h>>, FALSE, 1, 1, 1)
MCTouched == {InD, FolderV, Odd}
MCItems == MCTouched \cup
  {Row("r1", <<d>>, TRUE, 0, 2, 0), Row("r1", <<d, e>>, TRUE, 0, 2, 0),
   Row("r1", <<d, e, v>>, TRUE, 0, 2, 0), Row("r1", <<dx>>, TRUE, 0, 1, 0),
   Row("r1", <<f>>, FALSE, 2, Missing, 2), Row("r1", <<F>>, FALSE, 1, 1, 1),
   Row("r1", <<g>>, FALSE, Missing, 1, 1),
   Row("r2", <<w>>, TRUE, 0, 1, 0)}

(* F and f differ in their case only.                                       *)
MCLowerRank == [n \in {d, dx, e, f, F, g, h, w, v} |->
  CASE n \in {h, w} -> 0 [] n = d -> 1 [] n = dx -> 2 [] n \in {f, F} -> 3 [] n \in {e, g} -> 4 [] OTHER -> 5]

MCNewNames == {<<Blank>>, <<Blank, "n">>, f}
MCTyped == {Empty, <<Blank, "d", Slash>>}
MCUploaded == <<"p", Slash, "q">>
MCSlashed == {"?"}
MCTokens == {Slash, Colon, Blank, "?", "#", "%20", "r1", "r2",
             "d", "e", "f", "F", "g", "n", "p", "q", "v", "x"}
=============================================================================
