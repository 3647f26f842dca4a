------------------------------- MODULE Dialogs -------------------------------
(***************************************************************************)
(* The folder pages of the Web UI: the route that says which folder is     *)
(* shown, its rows, and the dialogs the user works on items with           *)
(* (src/apps/web-ui/src/app/content-page/folder-list-view, store/dialogs). *)
(*                                                                         *)
(* The dialogs follow a stack of requests: a dialog shows itself when a    *)
(* request of its kind comes to the top and closes when another one does.  *)
(* What the browser does on its own (Escape, the submission of a dialog's  *)
(* form, history) does not touch the stack, and the stack outlives the     *)
(* page's components.  One action is one event and all it sets off before  *)
(* the next: reducer, selectors, microtasks, the browser's default action. *)
(***************************************************************************)
EXTENDS WebApi, FolderRows

CONSTANTS
  Nothing,    \* no request, no job
  Remotes,    \* the remotes of the configuration
  Items,      \* the rows the server lists, with the place each is at
  Touched,    \* bound: those a dialog is opened for
  NewNames,   \* what the user may type as a name,
  Typed,      \*   and as a destination
  Uploaded,   \* the path of an uploaded file within its folder
  MaxStack    \* bound: requests on the stack

Kinds == {"delete", "rename", "move", "copy", "view"}
Requests == [kind : Kinds, item : Items]

Places == [remote : Remotes, names : Seq(StorageNames)]

(* rclone allows neither mark in the name of a remote.                      *)
ASSUME ConstantsAssumption ==
  /\ Remotes \subseteq Tokens \ {Slash, Colon}
  /\ IsFiniteSet(Items)
  /\ \A item \in Items : /\ item.at \in Places /\ item.at.names # <<>>
                          /\ item.name = Last(item.at.names) /\ IsRow(item)
  /\ Touched \subseteq Items
  /\ NewNames \cup Typed \cup {Uploaded} \subseteq Texts
  /\ Last(Split(Uploaded, Slash)) # Empty
  /\ MaxStack \in Nat
  /\ Nothing \notin Requests \cup [kind : {"mkdir"}, item : {Nothing}]

(* The folders the user may mean.                                           *)
Root(remote) == [remote |-> remote, names |-> <<>>]
Folders == {Root(r) : r \in Remotes} \cup {item.at : item \in {i \in Items : i.isDir}}

NoFolder == [remote |-> "", path |-> Empty]

VARIABLES
  page,      \* the page that is open
  here,      \* REMOTE_PATH$ of the folder page
  meant,     \* history: the folder the user went to
  view,      \* filesListViewOption
  sort,      \* sortConfig of the table
  requests,  \* DialogState.requests
  open,      \* the <dialog> elements that are open
  asked,     \* history: the dialog the user opened and has before him since,
             \*   on the page he opened it on
  job        \* history: the call this step has made, and what it should be

route == <<page, here, meant>>
rows  == <<view, sort>>
vars  == <<route, rows, requests, open, asked, job>>

Init ==
  /\ page = "remotes" /\ here = NoFolder /\ meant = Nowhere
  /\ view = "list" /\ sort = NoSort
  /\ requests = <<>> /\ open = {}
  /\ asked = Nothing /\ job = Nothing

-----------------------------------------------------------------------------
(* The rows.                                                                *)

Listing(h) == {item \in Items : /\ item.at.remote = h.remote
                               /\ PathOf(ParentOf(item.at)) = h.path}
ServerRows(h) == SetToSeq(Listing(h))

(* What a click on a row or a card of the open folder can be about.         *)
Clickable(item) == page = "folder" /\ open = {} /\ item \in Listing(here)

SetListView(v) ==
  /\ page = "folder" /\ open = {} /\ view # v
  /\ view' = v /\ sort' = NoSort /\ job' = Nothing
  /\ UNCHANGED <<route, requests, open, asked>>

ClickColumn(field) ==
  /\ page = "folder" /\ open = {} /\ view = "table"
  /\ sort' = ToggleSort(sort, field) /\ job' = Nothing
  /\ UNCHANGED <<route, view, requests, open, asked>>

-----------------------------------------------------------------------------
(* The stack and the dialogs.                                               *)

Top(stack)  == IF stack = <<>> THEN Nothing ELSE Last(stack)
KindOf(top) == IF top = Nothing THEN {} ELSE {top.kind}

(* The dialogs a page brings with it.                                       *)
Mounted(p) == CASE p = "folder"  -> Kinds \cup {"mkdir"}
                [] p = "remotes" -> {"view"}
                [] OTHER         -> {}

(* Mutant of Shown: a dialog does not close for the next one.               *)
ShownStays(shown, old, new) == shown \cup (KindOf(Top(new)) \cap Mounted(page))

(* The dialogs that are open when the stack has changed: the kind that was  *)
(* at the top is told null, or its new request; the kind that is there now  *)
(* is told its request.                                                     *)
Shown(shown, old, new) ==
  (shown \ KindOf(Top(old))) \cup (KindOf(Top(new)) \cap Mounted(page))

(* Mutant of Push: the new request goes to the bottom.                      *)
PushBelow(stack, request) == <<request>> \o stack

Push(stack, request) == Append(stack, request)
Pop(stack) == IF stack = <<>> THEN <<>> ELSE Front(stack)

OpenDialog(kind, item) ==
  /\ Clickable(item) /\ item \in Touched /\ Len(requests) < MaxStack
  /\ LET new == Push(requests, [kind |-> kind, item |-> item]) IN
       requests' = new /\ open' = Shown(open, requests, new)
  /\ asked' = [kind |-> kind, item |-> item]
  /\ UNCHANGED <<route, rows>>

OpenFromTable(kind, item) ==
  view = "table" /\ kind # "view" /\ OpenDialog(kind, item) /\ job' = Nothing
OpenFromCard(kind, item) ==
  view = "list" /\ kind # "view" /\ OpenDialog(kind, item) /\ job' = Nothing

(* closeDialog, after which the browser may close the elements of also.     *)
Close(also) ==
  /\ requests' = Pop(requests)
  /\ open' = Shown(open, requests, Pop(requests)) \ also
  /\ asked' = Nothing
  /\ UNCHANGED <<route, rows>>

(* The dialog of this kind is before the user, with its request.            *)
Shows(kind) == kind \in open /\ KindOf(Top(requests)) = {kind}
Current == Top(requests).item

(* Buttons of type button only take the request away.                       *)
Cancel(kind) ==
  /\ kind \in {"rename", "move", "copy"} /\ Shows(kind)
  /\ Close({}) /\ job' = Nothing

(* "No", and a click beside a dialog, also submit a form of the dialog,     *)
(* which closes it.                                                         *)
Dismiss(kind) ==
  /\ kind \in {"delete", "rename", "move", "copy"} /\ Shows(kind)
  /\ Close({kind}) /\ job' = Nothing

CloseViewer == Shows("view") /\ Close({}) /\ job' = Nothing

(* Beside the viewer both the button and its form call closeDialog.         *)
ClickBesideViewer ==
  /\ Shows("view")
  /\ LET one == Pop(requests) two == Pop(one) IN
       /\ requests' = two
       /\ open' = Shown(Shown(open, requests, one), one, two) \ {"view"}
  /\ asked' = Nothing /\ job' = Nothing
  /\ UNCHANGED <<route, rows>>

(* Escape closes the element; nobody listens to that.                       *)
PressEscape(kind) ==
  /\ kind \in open
  /\ open' = open \ {kind}
  /\ asked' = Nothing /\ job' = Nothing
  /\ UNCHANGED <<route, rows, requests>>

-----------------------------------------------------------------------------
(* Going places.  A modal dialog keeps clicks from the page behind it, but  *)
(* not the user from the browser's history.                                 *)

(* Mutant of Mounts: the dialogs of a page stay when it is left.            *)
MountsKeeps(p) == open \cup (KindOf(Top(requests)) \cap (Mounted(p) \ Mounted(page)))

(* The dialogs that are open when page p is there: those that stay, and the *)
(* top request's, if its component is new.                                  *)
Mounts(p) == (open \cap Mounted(p))
               \cup (KindOf(Top(requests)) \cap (Mounted(p) \ Mounted(page)))

Goto(p, h, place) ==
  /\ page' = p /\ here' = h /\ meant' = place
  /\ open' = Mounts(p)
  /\ IF page = "folder" /\ p = "folder" THEN UNCHANGED rows
     ELSE view' = "list" /\ sort' = NoSort
  /\ asked' = Nothing /\ job' = Nothing
  /\ UNCHANGED requests

(* A route to the folder the user means; the folder page stays for another  *)
(* folder.                                                                  *)
Navigate(code, place) ==
  /\ page = "folder" => meant # place
  /\ Goto("folder", Decode(code), place)

(* A link that is one string.                                               *)
FollowLink(code, place) ==
  IF LinkBreaks(code) THEN Goto("outside", NoFolder, place) ELSE Navigate(code, place)

PickRemote(remote) ==
  /\ page = "remotes" /\ open = {}
  /\ FollowLink(Encode(remote, Empty), Root(remote))

FollowCrumb(k) ==
  /\ page = "folder" /\ open = {}
  /\ k \in DOMAIN CrumbPaths(here.path)
  /\ FollowLink(Encode(here.remote, CrumbPaths(here.path)[k]),
                Below(Root(here.remote), SubSeq(Split(here.path, Slash), 1, k - 1)))

(* The browser's history leads back to a folder, and to other pages: the    *)
(* remotes, and those without the content page (home, login).               *)
Revisit(place) == Navigate(Encode(place.remote, PathOf(place)), place)
Leave(p) == p \in {"remotes", "outside"} /\ page # p /\ Goto(p, NoFolder, Nowhere)

(* The page is loaded anew.                                                 *)
Reload ==
  /\ view' = "list" /\ sort' = NoSort
  /\ requests' = <<>> /\ open' = {}
  /\ asked' = Nothing /\ job' = Nothing
  /\ UNCHANGED route

-----------------------------------------------------------------------------
(* Jobs, and the content of a file.  What a call should be is told by the   *)
(* dialog the user opened; it is not told of a dialog that came up by       *)
(* itself, or on another page.                                              *)

Submits(request, wanted, of) ==
  job' = [does |-> Effect(SubmitJob(request)), wanted |-> wanted, of |-> of]

Want(does, isDir, from, to) ==
  [verb |-> [does |-> does, isDir |-> isDir], from |-> from, to |-> to]

AsAsked(wanted) == IF asked = Nothing THEN Nothing ELSE wanted

(* A row or a card: a folder opens, a file is viewed.                       *)
ClickItem(item) ==
  IF item.isDir
  THEN /\ Clickable(item)
       /\ Navigate(Encode(here.remote, PathOf(item.at)), item.at)
  ELSE /\ OpenDialog("view", item)
       /\ job' = [does |-> Effect(FetchFileContent(here.remote, here.path, item.name)),
                  wanted |-> IF BreaksUrl(item.at) THEN Nothing
                             ELSE Want("get", FALSE, item.at, Nowhere),
                  of |-> item.at]

ClickRow(item)  == view = "table" /\ ClickItem(item)
ClickCard(item) == view = "list" /\ ClickItem(item)

(* "Yes" closes the dialog as the form's submission; the request stays.     *)
ConfirmDelete ==
  /\ Shows("delete")
  /\ Submits(Delete(here, Current),
             AsAsked(Want("delete", Current.isDir, Current.at, Nowhere)), Current.at)
  /\ open' = open \ {"delete"}
  /\ asked' = Nothing
  /\ UNCHANGED <<route, rows, requests>>

ConfirmRename(text) ==
  LET name == Trim(text) IN
  /\ Shows("rename") /\ name # Empty /\ name # Current.name
  /\ Submits(Move(here, Current, RenameTarget(here.path, name)),
             AsAsked(Want("move", Current.isDir, Current.at,
                          Below(ParentOf(Current.at), Names(name)))), Current.at)
  /\ Close({})

(* The field of the move and the copy dialog starts with the folder's path. *)
Destination(text) == JoinPath(NormalizePath(text), Current.name)
WantedPlace(text) ==
  Below(Root(Current.at.remote), Append(Names(Trim(text)), Current.name))

ConfirmMove(text) ==
  /\ Shows("move")
  /\ Submits(Move(here, Current, Destination(text)),
             AsAsked(Want("move", Current.isDir, Current.at, WantedPlace(text))),
             Current.at)
  /\ Close({})

ConfirmCopy(text) ==
  /\ Shows("copy")
  /\ Submits(Copy(here, Current, Destination(text)),
             AsAsked(Want("copy", Current.isDir, Current.at, WantedPlace(text))),
             Current.at)
  /\ Close({})

(* The dialog for a new folder is opened and closed by its component.       *)
OpenCreateFolder ==
  /\ page = "folder" /\ open = {}
  /\ open' = {"mkdir"}
  /\ asked' = [kind |-> "mkdir", item |-> Nothing] /\ job' = Nothing
  /\ UNCHANGED <<route, rows, requests>>

CancelCreateFolder ==
  /\ "mkdir" \in open
  /\ open' = open \ {"mkdir"}
  /\ asked' = Nothing /\ job' = Nothing
  /\ UNCHANGED <<route, rows, requests>>

(* What is put into the folder the user means.                              *)
WantPut(isDir, names) ==
  IF Awkward(meant) THEN Nothing ELSE Want("put", isDir, Nowhere, Below(meant, names))

SubmitCreateFolder(text) ==
  LET name == Trim(text) IN
  /\ "mkdir" \in open
  /\ open' = open \ {"mkdir"}
  /\ asked' = Nothing
  /\ IF name = Empty THEN job' = Nothing
     ELSE Submits(Mkdir(here, JoinRemotePath(here.path, name)),
                  AsAsked(WantPut(TRUE, Names(name))), meant)
  /\ UNCHANGED <<route, rows, requests>>

UploadNewFile ==
  /\ page = "folder" /\ open = {}
  /\ LET name == Last(Split(Uploaded, Slash)) IN
       Submits(Upload(here, here.path, name), WantPut(FALSE, <<name>>), meant)
  /\ UNCHANGED <<route, rows, requests, open, asked>>

(* One of the files of a folder.                                            *)
UploadNewFolder ==
  /\ page = "folder" /\ open = {}
  /\ Submits(Upload(here, JoinRemotePath(here.path, TargetDirectory(Uploaded)),
                    Last(Split(Uploaded, Slash))),
             WantPut(FALSE, Names(Uploaded)), meant)
  /\ UNCHANGED <<route, rows, requests, open, asked>>

Next ==
  \/ \E v \in {"list", "table"} : SetListView(v)
  \/ \E field \in SortFields : ClickColumn(field)
  \/ \E kind \in Kinds, item \in Touched :
       OpenFromTable(kind, item) \/ OpenFromCard(kind, item)
  \/ \E item \in Items : ClickRow(item) \/ ClickCard(item)
  \/ \E kind \in Kinds : Cancel(kind) \/ Dismiss(kind)
  \/ CloseViewer \/ ClickBesideViewer
  \/ \E kind \in open : PressEscape(kind)
  \/ \E remote \in Remotes : PickRemote(remote)
  \/ \E k \in DOMAIN here.path : FollowCrumb(k)
  \/ \E place \in Folders : Revisit(place)
  \/ \E p \in {"remotes", "outside"} : Leave(p)
  \/ Reload
  \/ ConfirmDelete
  \/ \E text \in NewNames : ConfirmRename(text) \/ SubmitCreateFolder(text)
  \/ \E text \in Typed \cup {here.path} : ConfirmMove(text) \/ ConfirmCopy(text)
  \/ OpenCreateFolder \/ CancelCreateFolder
  \/ UploadNewFile \/ UploadNewFolder

Spec == Init /\ [][Next]_vars

-----------------------------------------------------------------------------
(* The variables have their types, and only what the page brings with it is *)
(* open: folder dialogs without a folder would act on no remote.            *)
TypeOK ==
  /\ page \in {"folder", "remotes", "outside"}
  /\ here \in IF page = "folder" THEN [remote : Remotes, path : Texts] ELSE {NoFolder}
  /\ meant \in Places \cup {Nowhere}
  /\ view \in {"list", "table"} /\ sort \in SortConfigs
  /\ requests \in Seq(Requests) /\ Len(requests) <= MaxStack
  /\ open \subseteq Mounted(page)
  /\ asked = Nothing \/ asked \in [kind : Kinds \cup {"mkdir"}, item : Items \cup {Nothing}]

(* At most one dialog is open, and it is the one for a new folder or that   *)
(* of the request on the top, however the requests that closed dialogs left *)
(* on the stack come up again.                                              *)
OnlyTheTopIsOpen ==
  /\ Cardinality(open) <= 1
  /\ open \subseteq {"mkdir"} \cup KindOf(Top(requests))

(* The dialog the user has asked for is the one he sees, about the item he  *)
(* clicked, whatever is left on the stack.                                  *)
WhatWasAskedIsShown ==
  asked # Nothing => /\ open = {asked.kind}
                     /\ asked.kind # "mkdir" => Top(requests) = asked

(* A job does to the storage what the user asked for in the dialog: to that *)
(* item, in its remote, to the place he gave, by the right command of       *)
(* rclone; an upload or a new folder lands in the folder he went to, if its *)
(* names are none the routes garble; the viewer fetches the file that was   *)
(* clicked, if its name is none its URL garbles.                            *)
JobsDoWhatWasAsked ==
  job # Nothing => job.wanted = Nothing \/ job.does = job.wanted

(* The folder page shows the folder the user went to, by whatever chain of  *)
(* rows, remotes and breadcrumbs, unless a name on the way is one the       *)
(* routes do not bring through.                                             *)
ArrivesWhereMeant ==
  meant # Nowhere /\ ~Awkward(meant) =>
    /\ page = "folder"
    /\ here = [remote |-> meant.remote, path |-> PathOf(meant)]
    /\ CurrentFolder(here) = IF meant.names = <<>> THEN <<meant.remote>>
                                                   ELSE Last(meant.names)

ShownRows == IF view = "table" THEN SortedRows(ServerRows(here), sort)
                               ELSE ServerRows(here)

(* The table shows every row of the folder once: folders first whatever the *)
(* sorting, then by the column and direction chosen, equal ones in the      *)
(* server's order; the cards show them as the server sent them.             *)
RowsInOrder ==
  page = "folder" =>
    LET n     == Cardinality(Listing(here))
        sent  == ServerRows(here)
        shown == ShownRows
    IN /\ DOMAIN shown = 1..n /\ ToSet(shown) = Listing(here)
       /\ view = "table" =>
            \A i, j \in 1..n : i < j =>
              LET a == shown[i]
                  b == shown[j]
                  x == SortKey(a, sort)
                  y == SortKey(b, sort)
              IN \/ a.isDir /\ ~b.isDir
                 \/ /\ a.isDir = b.isDir /\ x # y
                    /\ (x < y) = (sort.direction = "asc")
                 \/ /\ a.isDir = b.isDir /\ x = y
                    /\ \A k, l \in 1..n : sent[k] = a /\ sent[l] = b => k < l

(* What the delete dialog asks about, "this file", is what its job deletes. *)
(* It is not: the remote is that of the page that is open now, the path     *)
(* that of the item shown.                                                  *)
DeletesTheItemShown ==
  job # Nothing /\ job.does.verb.does = "delete" => job.does.from = job.of
=============================================================================
