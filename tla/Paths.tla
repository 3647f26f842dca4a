-------------------------------- MODULE Paths --------------------------------
(***************************************************************************)
(* How the Web UI writes and reads the places of a storage: the route of a *)
(* folder, its breadcrumbs, and the paths its dialogs and uploads put      *)
(* together (src/apps/web-ui/src/app/content-page/folder-list-view).       *)
(*                                                                         *)
(* A text is a sequence of tokens: the marks the code looks for, and       *)
(* stretches of other characters.  A place is what the user means by such  *)
(* texts: a remote and the names that lead from its root.                  *)
(***************************************************************************)
EXTENDS Integers, Sequences, SequencesExt

CONSTANTS
  Tokens,  \* what texts are made of
  Slashed  \* tokens that put a '/' into the base64 of their text, which takes
           \*   some bytes at some places, as the '?' of "r1:a?"

Slash == "/"
Colon == ":"
Blank == " "
Empty == <<>>   \* the empty text, and an undefined one where only falsiness counts

ASSUME TokensAssumption ==
  {Slash, Colon, Blank} \subseteq Tokens /\ Slashed \subseteq Tokens \ {Slash, Colon}

Texts == Seq(Tokens)
Has(text, token) == token \in ToSet(text)

(* What a name of a storage can be.                                         *)
StorageNames == {text \in Texts : text # Empty /\ ~Has(text, Slash)}

-----------------------------------------------------------------------------
(* What the code takes from JavaScript: split, join, trim.                  *)

AddToken(parts, token, mark) ==
  IF token = mark THEN Append(parts, Empty)
                  ELSE Append(Front(parts), Append(Last(parts), token))

Split(text, mark) ==
  LET parts[n \in 0..Len(text)] ==
        IF n = 0 THEN <<Empty>> ELSE AddToken(parts[n - 1], text[n], mark)
  IN parts[Len(text)]

Join(parts, mark) ==
  LET joined[n \in 0..Len(parts)] ==
        IF n = 0 THEN Empty
        ELSE IF n = 1 THEN parts[1] ELSE joined[n - 1] \o <<mark>> \o parts[n]
  IN joined[Len(parts)]

CutEnd(text, mark) ==
  LET kept == {i \in DOMAIN text : text[i] # mark} IN
  SubSeq(text, 1, IF kept = {} THEN 0 ELSE CHOOSE i \in kept : \A j \in kept : j <= i)

Trim(text) == CutEnd(Reverse(CutEnd(Reverse(text), Blank)), Blank)

-----------------------------------------------------------------------------
(* Places, the user's side: what the texts are compared with.               *)

(* The text rclone writes for a place of its listings.                      *)
PathOf(place) == Join(place.names, Slash)

NonEmpty(parts) ==
  LET kept[n \in 0..Len(parts)] ==
        IF n = 0 THEN <<>>
        ELSE IF parts[n] = Empty THEN kept[n - 1] ELSE Append(kept[n - 1], parts[n])
  IN kept[Len(parts)]

(* The names a path text leads through; empty ones lead nowhere.            *)
Names(text) == NonEmpty(Split(text, Slash))

ParentOf(place) == [place EXCEPT !.names = Front(@)]
Below(place, names) == [place EXCEPT !.names = @ \o names]

(* A URL that is put together as it comes does not bring every text through. *)
(* "%20" stands for a '%' with two hexadecimal digits, "%" for one without,  *)
(* the tab for line breaks also.                                             *)
UrlMarks == {"?", "#", "%", "%20", "\\", "\t"}
EndsBlank(text) == text # Empty /\ Last(text) = Blank
UrlBreaks(text) == EndsBlank(text) \/ \E mark \in UrlMarks : Has(text, mark)

BreaksUrl(place) ==
  \/ EndsBlank(Last(place.names))
  \/ \E i \in DOMAIN place.names : \E mark \in UrlMarks : Has(place.names[i], mark)

(* Names the routes do not bring through (see Decode and LinkBreaks).       *)
Awkward(place) ==
  \/ place.remote \in Slashed
  \/ \E i \in DOMAIN place.names : \E w \in {Colon} \cup Slashed : Has(place.names[i], w)

-----------------------------------------------------------------------------
(* The route of a folder.  Base64 without its padding is read back as it    *)
(* was written, so the code stands for the text.                            *)

Encode(remote, path) == <<remote, Colon>> \o path

(* Mutant of Decode: the path is given with the colon.                      *)
DecodeLast(code) ==
  LET parts == Split(code, Colon) IN
  [remote |-> Head(Head(parts)), path |-> Last(parts)]

(* Only what stands between the first colon and the second is the path.     *)
Decode(code) ==
  LET parts == Split(code, Colon) IN
  [remote |-> Head(parts[1]), path |-> parts[2]]

(* A link given as one string is cut at the slashes of its base64 and then  *)
(* leads to no page; a link given as an array is not.                       *)
LinkBreaks(code) == \E w \in Slashed : Has(code, w)

(* Mutant of CrumbPaths: every crumb leads to a folder of the root.         *)
CrumbPathsFlat(path) ==
  IF path = Empty THEN <<>> ELSE <<Empty>> \o Front(Split(path, Slash))

LinkBelow(link, name) == IF link = Empty THEN name ELSE link \o <<Slash>> \o name

(* The paths the breadcrumbs of a folder lead to: the remote's root, then   *)
(* one per folder on the way; the last is the folder itself and no link.    *)
CrumbPaths(path) ==
  LET names == Split(path, Slash)
      link[n \in 0..Len(names) - 1] ==
        IF n = 0 THEN Empty ELSE LinkBelow(link[n - 1], names[n])
  IN IF path = Empty THEN <<>> ELSE [k \in DOMAIN names |-> link[k - 1]]

(* The heading over the listing.                                            *)
CurrentFolder(here) ==
  IF here.path = Empty THEN <<here.remote>> ELSE Last(Split(here.path, Slash))

(* The part of a text that is the path of a URL.                            *)
UrlPath(text) ==
  LET sent == CutEnd(SelectSeq(text, LAMBDA token : token # "\t"), Blank)
      ends == {i \in DOMAIN sent : sent[i] \in {"?", "#"}}
  IN IF ends = {} THEN sent
     ELSE SubSeq(sent, 1, (CHOOSE i \in ends : \A j \in ends : i <= j) - 1)

Unescaped(token) ==
  CASE token = "%20" -> Blank [] token = "\\" -> Slash [] OTHER -> token

(* The path the server sees of a URL, which it refuses for a lone percent   *)
(* sign.                                                                    *)
UrlRefused(text) == Has(UrlPath(text), "%")
SeenPath(text)   == [i \in DOMAIN UrlPath(text) |-> Unescaped(UrlPath(text)[i])]

-----------------------------------------------------------------------------
(* Paths of uploads and of new folders.                                     *)

(* The directory part of the path a file has in the folder that is uploaded.*)
TargetDirectory(relative) == Join(Front(Split(relative, Slash)), Slash)

JoinRemotePath(base, child) ==
  CASE base = Empty  -> child
    [] child = Empty -> base
    [] OTHER         -> base \o <<Slash>> \o child

(* The target of a rename.                                                  *)
RenameTarget(folder, name) ==
  IF folder = Empty THEN name ELSE folder \o <<Slash>> \o name

(* The destination the move and the copy dialog read from their field.      *)
NormalizePath(text) == CutEnd(Trim(text), Slash)

JoinPath(base, name) ==
  IF base \in {Empty, <<Slash>>} THEN <<Slash>> \o name
                                 ELSE base \o <<Slash>> \o name
=============================================================================
