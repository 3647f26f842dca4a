---------------------------- MODULE Dialogs_proofs ----------------------------
(***************************************************************************)
(* The dialogs of Dialogs for any remotes and items, whatever is typed,    *)
(* and however deep the stack of requests gets.                            *)
(***************************************************************************)
EXTENDS Dialogs, FolderPages_proofs

(* What is open belongs to the page, and is one dialog at most: the one for *)
(* a new folder or that of the request on the top.                          *)
OneIsOpen ==
  /\ open \subseteq Mounted(page)
  /\ open \subseteq {"mkdir"} \cup KindOf(Top(requests))
  /\ \A k, m \in open : k = m

IInv ==
  /\ page \in {"folder", "remotes", "outside"}
  /\ requests \in Seq(Requests)
  /\ OneIsOpen /\ WhatWasAskedIsShown

-----------------------------------------------------------------------------
(* The top of a stack, and of what Push and Pop make of it.                 *)
LEMMA TopOfStack ==
  ASSUME NEW stack \in Seq(Requests)
  PROVE  /\ stack = <<>> => Top(stack) = Nothing
         /\ stack # <<>> => Top(stack) \in Requests
BY DEF Top, Last

LEMMA PushAndPop ==
  ASSUME NEW stack \in Seq(Requests)
  PROVE  /\ Pop(stack) \in Seq(Requests)
         /\ \A r \in Requests : /\ Push(stack, r) \in Seq(Requests)
                                /\ Top(Push(stack, r)) = r
<1>1. Pop(stack) \in Seq(Requests)
  BY DEF Pop, Front
<1>2. ASSUME NEW r \in Requests
      PROVE  Push(stack, r) \in Seq(Requests) /\ Top(Push(stack, r)) = r
  BY DEF Push, Top, Last
<1> QED BY <1>1, <1>2

(* A stack calls for one kind of dialog at most, never for a new folder's.  *)
LEMMA KindOfTop ==
  ASSUME NEW stack \in Seq(Requests)
  PROVE  /\ KindOf(Top(stack)) \subseteq Kinds /\ "mkdir" \notin KindOf(Top(stack))
         /\ \A k, m \in KindOf(Top(stack)) : k = m
<1>1. CASE stack = <<>>
  BY <1>1, TopOfStack DEF KindOf
<1>2. CASE stack # <<>>
  <2>1. Top(stack).kind \in Kinds
    BY <1>2, TopOfStack DEF Requests
  <2> QED BY <2>1 DEF KindOf, Kinds
<1> QED BY <1>1, <1>2

LEMMA InitHolds == Init => IInv
<1> SUFFICES ASSUME Init PROVE IInv
  OBVIOUS
<1>1. requests \in Seq(Requests)
  BY DEF Init
<1> QED BY <1>1 DEF Init, IInv, OneIsOpen, WhatWasAskedIsShown

-----------------------------------------------------------------------------
(* Steps behind the dialogs, and those that close what is open only.        *)
LEMMA StackStays ==
  ASSUME IInv, UNCHANGED <<page, requests>>, open' \subseteq open,
         asked' = Nothing \/ (asked' = asked /\ open' = open)
  PROVE  IInv'
<1>1. OneIsOpen'
  BY DEF IInv, OneIsOpen, Mounted, Kinds
<1>2. WhatWasAskedIsShown'
  BY DEF IInv, WhatWasAskedIsShown
<1> QED BY <1>1, <1>2 DEF IInv

(* What the stack calls for is open once its dialogs are told of it, if the *)
(* one before it was the only one.                                          *)
LEMMA ShownFollows ==
  ASSUME NEW shown \in SUBSET KindOf(Top(requests)), requests \in Seq(Requests),
         NEW new \in Seq(Requests)
  PROVE  Shown(shown, requests, new) = KindOf(Top(new)) \cap Mounted(page)
BY DEF Shown

LEMMA TopOpens ==
  ASSUME IInv, page' = page, requests' \in Seq(Requests),
         open' \subseteq KindOf(Top(requests')) \cap Mounted(page),
         WhatWasAskedIsShown'
  PROVE  IInv'
<1>1. OneIsOpen'
  BY KindOfTop DEF OneIsOpen
<1> QED BY <1>1 DEF IInv

(* The dialog before the user is the only one.                              *)
LEMMA CloseHolds ==
  ASSUME IInv, NEW kind \in Kinds, Shows(kind), NEW also, Close(also) PROVE IInv'
<1>1. open = KindOf(Top(requests)) /\ requests \in Seq(Requests)
  BY DEF IInv, OneIsOpen, Shows
<1>2. page' = page /\ requests' = Pop(requests) /\ asked' = Nothing
      /\ open' = Shown(open, requests, Pop(requests)) \ also
  BY DEF Close, route
<1>3. requests' \in Seq(Requests)
  BY <1>1, <1>2, PushAndPop
<1>4. open' \subseteq KindOf(Top(requests')) \cap Mounted(page)
  BY <1>1, <1>2, <1>3, ShownFollows
<1> QED BY <1>2, <1>3, <1>4, TopOpens DEF WhatWasAskedIsShown

LEMMA OpenDialogHolds ==
  ASSUME IInv, NEW kind \in Kinds, NEW item \in Items, OpenDialog(kind, item) PROVE IInv'
<1> DEFINE r == [kind |-> kind, item |-> item]
<1>1. open = {} /\ page = "folder" /\ page' = page /\ requests \in Seq(Requests)
  BY DEF OpenDialog, Clickable, route, IInv
<1>2. requests' = Push(requests, r) /\ open' = Shown(open, requests, requests') /\ asked' = r
  BY DEF OpenDialog
<1>3. r \in Requests
  BY DEF Requests
<1>4. requests' \in Seq(Requests) /\ Top(requests') = r
  BY <1>1, <1>2, <1>3, PushAndPop
<1>5. KindOf(Top(requests')) = {kind}
  BY <1>3, <1>4, ConstantsAssumption DEF KindOf
<1>6. open' = {kind}
  BY <1>1, <1>2, <1>4, <1>5, ShownFollows DEF Mounted
<1>7. WhatWasAskedIsShown'
  BY <1>2, <1>4, <1>6 DEF WhatWasAskedIsShown
<1>8. open' \subseteq KindOf(Top(requests')) \cap Mounted(page)
  BY <1>1, <1>5, <1>6 DEF Mounted
<1> QED BY <1>1, <1>4, <1>7, <1>8, TopOpens

LEMMA ClickBesideViewerHolds ==
  ASSUME IInv, ClickBesideViewer PROVE IInv'
<1> DEFINE one == Pop(requests)
           two == Pop(one)
<1>1. open = KindOf(Top(requests)) /\ requests \in Seq(Requests)
  BY DEF IInv, OneIsOpen, ClickBesideViewer, Shows
<1>2. page' = page /\ requests' = two /\ asked' = Nothing
      /\ open' = Shown(Shown(open, requests, one), one, two) \ {"view"}
  BY DEF ClickBesideViewer, route
<1>3. one \in Seq(Requests) /\ two \in Seq(Requests)
  BY <1>1, PushAndPop
<1>4. Shown(open, requests, one) \subseteq KindOf(Top(one))
  BY <1>1, <1>3, ShownFollows
<1>5. open' \subseteq KindOf(Top(two)) \cap Mounted(page)
  BY <1>2, <1>4 DEF Shown
<1> HIDE DEF one, two
<1> QED BY <1>2, <1>3, <1>5, TopOpens DEF WhatWasAskedIsShown

(* Nothing is both brought by the next page and open on this one, and a new *)
(* folder's dialog stays on its page.                                       *)
LEMMA GotoHolds ==
  ASSUME IInv, NEW p \in {"folder", "remotes", "outside"}, NEW h, NEW place,
         Goto(p, h, place)
  PROVE  IInv'
<1>1. page' = p /\ requests' = requests /\ open' = Mounts(p) /\ asked' = Nothing
  BY DEF Goto
<1>2. /\ page \in {"folder", "remotes", "outside"} /\ requests \in Seq(Requests) /\ OneIsOpen
  BY DEF IInv
<1>3. "mkdir" \notin KindOf(Top(requests)) /\ \A k, m \in KindOf(Top(requests)) : k = m
  BY <1>2, KindOfTop
<1>4. OneIsOpen'
  <2>1. open' \subseteq Mounted(p) /\ open' \subseteq {"mkdir"} \cup KindOf(Top(requests))
    BY <1>1, <1>2 DEF Mounts, OneIsOpen
  <2>2. CASE "mkdir" \notin open
    <3>1. open' \subseteq KindOf(Top(requests))
      BY <1>1, <1>2, <2>2 DEF Mounts, OneIsOpen
    <3> QED BY <1>1, <1>3, <2>1, <3>1 DEF OneIsOpen
  <2>3. CASE "mkdir" \in open
    <3>1. page = "folder" /\ open = {"mkdir"}
      BY <1>2, <2>3 DEF OneIsOpen, Mounted
    <3>2. Mounted(p) \subseteq Mounted(page)
      BY <3>1 DEF Mounted, Kinds
    <3>3. open' \subseteq {"mkdir"}
      BY <1>1, <3>1, <3>2 DEF Mounts
    <3> QED BY <1>1, <2>1, <3>3 DEF OneIsOpen
  <2> QED BY <2>2, <2>3
<1> QED BY <1>1, <1>2, <1>4 DEF IInv, WhatWasAskedIsShown

LEMMA FollowLinkHolds ==
  ASSUME IInv, NEW code, NEW place, FollowLink(code, place) \/ Navigate(code, place)
  PROVE  IInv'
BY GotoHolds DEF FollowLink, Navigate

-----------------------------------------------------------------------------
(* Every step keeps the invariant.                                          *)
LEMMA NextHolds == IInv /\ [Next]_vars => IInv'
<1> SUFFICES ASSUME IInv, [Next]_vars PROVE IInv'
  OBVIOUS
<1>1. Touched \subseteq Items
  BY ConstantsAssumption
<1>2. CASE UNCHANGED vars
  BY <1>2, StackStays DEF vars, route
<1>3. ASSUME \/ \E v \in {"list", "table"} : SetListView(v)
             \/ \E field \in SortFields : ClickColumn(field)
             \/ \E kind \in open : PressEscape(kind)
             \/ ConfirmDelete
             \/ \E text \in NewNames : SubmitCreateFolder(text)
             \/ CancelCreateFolder \/ UploadNewFile \/ UploadNewFolder
      PROVE  IInv'
  <2>1. /\ UNCHANGED <<page, requests>> /\ open' \subseteq open
        /\ asked' = Nothing \/ (asked' = asked /\ open' = open)
    BY <1>3 DEF SetListView, ClickColumn, PressEscape, ConfirmDelete, SubmitCreateFolder,
                CancelCreateFolder, UploadNewFile, UploadNewFolder, route
  <2> QED BY <2>1, StackStays
<1>4. ASSUME \/ \E kind \in Kinds : Cancel(kind) \/ Dismiss(kind)
             \/ CloseViewer
             \/ \E text \in NewNames : ConfirmRename(text)
             \/ \E text \in Typed \cup {here.path} : ConfirmMove(text) \/ ConfirmCopy(text)
      PROVE  IInv'
  <2>1. \E kind \in Kinds : \E also : Shows(kind) /\ Close(also)
    BY <1>4 DEF Cancel, Dismiss, CloseViewer, ConfirmRename, ConfirmMove, ConfirmCopy, Kinds
  <2> QED BY <2>1, CloseHolds
<1>5. ASSUME NEW kind \in Kinds, NEW item \in Touched,
             OpenFromTable(kind, item) \/ OpenFromCard(kind, item)
      PROVE  IInv'
  BY <1>1, <1>5, OpenDialogHolds DEF OpenFromTable, OpenFromCard
<1>6. ASSUME NEW item \in Items, ClickRow(item) \/ ClickCard(item) PROVE IInv'
  BY <1>6, OpenDialogHolds, FollowLinkHolds DEF ClickRow, ClickCard, ClickItem, Kinds
<1>7. ASSUME \/ \E remote \in Remotes : PickRemote(remote)
             \/ \E k \in DOMAIN here.path : FollowCrumb(k)
             \/ \E place \in Folders : Revisit(place)
      PROVE  IInv'
  BY <1>7, FollowLinkHolds DEF PickRemote, FollowCrumb, Revisit
<1>8. ASSUME NEW p \in {"remotes", "outside"}, Leave(p) PROVE IInv'
  BY <1>8, GotoHolds DEF Leave
<1>9. CASE Reload
  <2>1. page' = page /\ requests' = <<>> /\ open' = {} /\ asked' = Nothing
    BY <1>9 DEF Reload, route
  <2>2. requests' \in Seq(Requests)
    BY <2>1
  <2> QED BY <2>1, <2>2, TopOpens DEF WhatWasAskedIsShown
<1>10. CASE OpenCreateFolder
  <2>1. /\ page = "folder" /\ page' = page /\ requests' = requests /\ open' = {"mkdir"}
        /\ asked' = [kind |-> "mkdir", item |-> Nothing]
    BY <1>10 DEF OpenCreateFolder, route
  <2> QED BY <2>1 DEF IInv, OneIsOpen, WhatWasAskedIsShown, Mounted
<1> QED BY <1>2, <1>3, <1>4, <1>5, <1>6, <1>7, <1>8, <1>9, <1>10, ClickBesideViewerHolds
        DEF Next

LEMMA InvariantHolds == Spec => []IInv
BY InitHolds, NextHolds, PTL DEF Spec

-----------------------------------------------------------------------------
(* However requests pile up behind Escape, history and forms that close     *)
(* their dialog by themselves, two dialogs are never open, nor one that is  *)
(* not the top request's.                                                   *)
THEOREM OnlyTheTopIsOpenCorrect == Spec => []OnlyTheTopIsOpen
<1>1. ASSUME IInv PROVE Cardinality(open) <= 1
  <2>1. CASE open = {}
    BY <2>1, FS_EmptySet
  <2>2. ASSUME NEW kind \in open PROVE Cardinality(open) <= 1
    <3>1. open = {kind}
      BY <1>1 DEF IInv, OneIsOpen
    <3>2. Cardinality({kind}) = 1
      BY FS_Singleton
    <3> QED BY <3>1, <3>2
  <2> QED BY <2>1, <2>2
<1>2. IInv => OnlyTheTopIsOpen
  BY <1>1 DEF IInv, OneIsOpen, OnlyTheTopIsOpen
<1> QED BY <1>2, InvariantHolds, PTL

(* No dialog outlives its page: one of a folder would act on no folder.     *)
THEOREM DialogsOfThePageCorrect == Spec => [](open \subseteq Mounted(page))
<1>1. IInv => open \subseteq Mounted(page)
  BY DEF IInv, OneIsOpen
<1> QED BY <1>1, InvariantHolds, PTL

(* The dialog a user asked for, and has not left, is before him and about   *)
(* the item he clicked.                                                     *)
THEOREM WhatWasAskedIsShownCorrect == Spec => []WhatWasAskedIsShown
<1>1. IInv => WhatWasAskedIsShown
  BY DEF IInv
<1> QED BY <1>1, InvariantHolds, PTL

-----------------------------------------------------------------------------
(* The rows.  The server sends every row of a folder once.                  *)
LEMMA ServerRowsOnce ==
  ASSUME NEW h, NEW n, n = Cardinality(Listing(h))
  PROVE  /\ n \in Nat /\ ServerRows(h) \in Bijection(1..n, Listing(h))
         /\ \A i \in 1..n : IsRow(ServerRows(h)[i])
<1>1. Listing(h) \subseteq Items
  BY DEF Listing
<1>2. IsFiniteSet(Listing(h))
  BY <1>1, ConstantsAssumption, FS_Subset
<1>3. n \in Nat /\ ExistsBijection(1..n, Listing(h))
  BY <1>2, FS_CardinalityType
<1>4. PICK f : f \in Bijection(1..n, Listing(h))
  BY <1>3 DEF ExistsBijection
<1>5. f \in [1..n -> Listing(h)] /\ IsInjective(f)
  BY <1>4 DEF Bijection, Injection
<1>6. ServerRows(h) = CHOOSE g \in [1..n -> Listing(h)] : IsInjective(g)
  BY DEF ServerRows, SetToSeq
<1>7. ServerRows(h) \in [1..n -> Listing(h)] /\ IsInjective(ServerRows(h))
  BY <1>5, <1>6
<1>8. ServerRows(h) \in Injection(1..n, Listing(h))
  BY <1>7 DEF Injection
<1>9. Cardinality(1..n) = n
  BY <1>3, FS_Interval
<1>10. ServerRows(h) \in Bijection(1..n, Listing(h))
  BY <1>2, <1>8, <1>9, FS_Injection DEF Bijection
<1> QED BY <1>1, <1>3, <1>7, <1>10, ConstantsAssumption

LEMMA SortKept == Spec => [](sort \in SortConfigs /\ view \in {"list", "table"})
<1> DEFINE Inv == sort \in SortConfigs /\ view \in {"list", "table"}
<1>1. Init => Inv
  BY DEF Init, SortConfigs
<1>2. Inv /\ [Next]_vars => Inv'
  <2> SUFFICES ASSUME Inv, [Next]_vars PROVE Inv'
    OBVIOUS
  <2>1. NoSort \in SortConfigs
    BY DEF SortConfigs
  <2>2. ASSUME NEW field \in SortFields, ClickColumn(field) PROVE Inv'
    <3>1. ToggleSort(sort, field) \in SortConfigs
      BY DEF ToggleSort, SortConfigs
    <3> QED BY <2>2, <3>1 DEF ClickColumn
  <2>3. ASSUME NEW v \in {"list", "table"}, SetListView(v) PROVE Inv'
    BY <2>1, <2>3 DEF SetListView
  <2>4. ASSUME NEW p, NEW h, NEW place, Goto(p, h, place) PROVE Inv'
    BY <2>1, <2>4 DEF Goto, rows
  <2>5. ASSUME \/ \E code, place : Navigate(code, place) \/ FollowLink(code, place)
               \/ \E p \in {"remotes", "outside"} : Leave(p)
        PROVE  Inv'
    BY <2>4, <2>5 DEF Navigate, FollowLink, Leave
  <2>6. CASE UNCHANGED rows
    BY <2>6 DEF rows
  <2>7. CASE Reload
    BY <2>1, <2>7 DEF Reload
  <2>8. ASSUME NEW kind, NEW item, OpenDialog(kind, item) PROVE UNCHANGED rows
    BY <2>8 DEF OpenDialog
  <2>9. ASSUME NEW also, Close(also) PROVE UNCHANGED rows
    BY <2>9 DEF Close
  <2>10. CASE UNCHANGED vars
    BY <2>6, <2>10 DEF vars
  <2>11. ASSUME NEW item, ClickRow(item) \/ ClickCard(item) PROVE Inv'
    BY <2>5, <2>6, <2>8, <2>11 DEF ClickRow, ClickCard, ClickItem
  <2>12. CASE \/ \E remote \in Remotes : PickRemote(remote)
              \/ \E k \in DOMAIN here.path : FollowCrumb(k)
              \/ \E place \in Folders : Revisit(place)
    BY <2>5, <2>12 DEF PickRemote, FollowCrumb, Revisit
  <2>13. CASE \/ \E kind \in Kinds : Cancel(kind) \/ Dismiss(kind)
              \/ CloseViewer \/ ClickBesideViewer
              \/ \E kind \in open : PressEscape(kind)
              \/ ConfirmDelete \/ OpenCreateFolder \/ CancelCreateFolder
              \/ UploadNewFile \/ UploadNewFolder
    BY <2>6, <2>9, <2>13 DEF Cancel, Dismiss, CloseViewer, ClickBesideViewer, PressEscape,
       ConfirmDelete, OpenCreateFolder, CancelCreateFolder, UploadNewFile, UploadNewFolder
  <2>14. CASE \/ \E text \in NewNames : ConfirmRename(text) \/ SubmitCreateFolder(text)
              \/ \E text \in Typed \cup {here.path} : ConfirmMove(text) \/ ConfirmCopy(text)
    BY <2>6, <2>9, <2>14 DEF ConfirmRename, SubmitCreateFolder, ConfirmMove, ConfirmCopy
  <2>15. ASSUME NEW kind \in Kinds, NEW item \in Touched,
                OpenFromTable(kind, item) \/ OpenFromCard(kind, item)
         PROVE  Inv'
    BY <2>6, <2>8, <2>15 DEF OpenFromTable, OpenFromCard
  <2> HIDE DEF Inv
  <2> QED BY <2>2, <2>3, <2>5, <2>7, <2>10, <2>11, <2>12, <2>13, <2>14, <2>15 DEF Next
<1> QED BY <1>1, <1>2, PTL DEF Spec

(* Two rows the table shows one above the other.                            *)
InOrder(a, b, given) ==
  \/ a.isDir /\ ~b.isDir
  \/ /\ a.isDir = b.isDir /\ SortKey(a, sort) # SortKey(b, sort)
     /\ (SortKey(a, sort) < SortKey(b, sort)) = (sort.direction = "asc")
  \/ a.isDir = b.isDir /\ SortKey(a, sort) = SortKey(b, sort) /\ given

LEMMA AheadInOrder ==
  ASSUME sort \in SortConfigs, NEW list, NEW i \in Int, NEW j \in Int,
         IsRow(list[i]), IsRow(list[j]), Ahead(list, sort, i, j)
  PROVE  InOrder(list[i], list[j], i < j)
<1>1. /\ SortKey(list[i], sort) \in Int /\ SortKey(list[j], sort) \in Int
      /\ list[i].isDir \in BOOLEAN /\ list[j].isDir \in BOOLEAN
  BY KeyIsNumber DEF IsRow
<1> QED BY <1>1 DEF Ahead, Before, InOrder

(* Each row of an open folder is shown once, and the table has them in the  *)
(* order asked for, for every listing the server may send.                  *)
LEMMA RowsOfTheFolder ==
  ASSUME sort \in SortConfigs, view \in {"list", "table"}
  PROVE  RowsInOrder
<1> DEFINE n == Cardinality(Listing(here))
           list == ServerRows(here)
<1>1. /\ n \in Nat /\ list \in Bijection(1..n, Listing(here))
      /\ \A i \in 1..n : IsRow(list[i])
  BY ServerRowsOnce
<1>2. /\ list \in [1..n -> Listing(here)] /\ DOMAIN list = 1..n
      /\ \A k, l \in 1..n : list[k] = list[l] => k = l
      /\ \A item \in Listing(here) : \E k \in 1..n : list[k] = item
  BY <1>1 DEF Bijection, Injection, Surjection, IsInjective
<1> HIDE DEF n, list
<1>3. CASE view = "list"
  <2>1. ShownRows = list
    BY <1>3 DEF ShownRows, list
  <2>2. ToSet(ShownRows) = Listing(here)
    BY <1>2, <2>1 DEF ToSet
  <2> QED BY <1>2, <1>3, <2>1, <2>2 DEF RowsInOrder, n
<1>4. CASE view = "table"
  <2>1. PICK from \in Bijection(1..n, 1..n) :
          /\ SortedRows(list, sort) = [k \in 1..n |-> list[from[k]]]
          /\ \A k, l \in 1..n : k < l => Ahead(list, sort, from[k], from[l])
    BY <1>1, <1>2, SortedRowsInOrder
  <2>2. /\ from \in [1..n -> 1..n]
        /\ \A j \in 1..n : \E k \in 1..n : from[k] = j
    BY DEF Bijection, Injection, Surjection
  <2>3. ShownRows = [k \in 1..n |-> list[from[k]]]
    BY <1>4, <2>1 DEF ShownRows, list
  <2>4. ToSet(ShownRows) = Listing(here)
    <3>1. \A item \in Listing(here) : \E k \in 1..n : ShownRows[k] = item
      BY <1>2, <2>2, <2>3
    <3>2. \A k \in 1..n : ShownRows[k] \in Listing(here)
      BY <1>2, <2>2, <2>3
    <3> QED BY <2>3, <3>1, <3>2 DEF ToSet
  <2>5. ASSUME NEW i \in 1..n, NEW j \in 1..n, i < j
        PROVE  InOrder(ShownRows[i], ShownRows[j],
                       \A k, l \in 1..n : list[k] = ShownRows[i] /\ list[l] = ShownRows[j]
                                         => k < l)
    <3>1. from[i] \in 1..n /\ from[j] \in 1..n /\ Ahead(list, sort, from[i], from[j])
      BY <2>1, <2>2, <2>5
    <3>2. InOrder(list[from[i]], list[from[j]], from[i] < from[j])
      BY <1>1, <3>1, AheadInOrder
    <3>3. ShownRows[i] = list[from[i]] /\ ShownRows[j] = list[from[j]]
      BY <2>3
    <3>4. from[i] < from[j] =>
            \A k, l \in 1..n : list[k] = ShownRows[i] /\ list[l] = ShownRows[j] => k < l
      BY <1>2, <3>1, <3>3
    <3> QED BY <3>2, <3>3, <3>4 DEF InOrder
  <2> QED BY <2>3, <2>4, <2>5 DEF RowsInOrder, InOrder, n, list
<1> QED BY <1>3, <1>4

(* Whatever folder is open, the page shows each of its rows once, and the   *)
(* table in the order asked for.                                            *)
THEOREM RowsInOrderCorrect == Spec => []RowsInOrder
<1>1. sort \in SortConfigs /\ view \in {"list", "table"} => RowsInOrder
  BY RowsOfTheFolder
<1> QED BY <1>1, SortKept, PTL

-----------------------------------------------------------------------------
(* Where the routes lead.  On a folder page, what is open is what the route *)
(* of the place the user means is read back as; elsewhere he means nothing, *)
(* or a link broke.                                                         *)
RoutesLead ==
  /\ page = "folder" => /\ meant \in Places
                        /\ here = Decode(Encode(meant.remote, PathOf(meant)))
  /\ page # "folder" => /\ here = NoFolder
                        /\ meant = Nowhere \/ (meant \in Places /\ Awkward(meant))

LEMMA PlacesAre ==
  ASSUME NEW place \in Places
  PROVE  /\ place.remote \in Remotes /\ place.remote \in Tokens \ {Slash, Colon}
         /\ place.names \in Seq(StorageNames)
         /\ PathOf(place) = Join(place.names, Slash)
         /\ place = [remote |-> place.remote, names |-> place.names]
BY ConstantsAssumption DEF Places, PathOf

LEMMA FoldersArePlaces == Folders \subseteq Places
<1>1. ASSUME NEW remote \in Remotes PROVE Root(remote) \in Places
  <2>1. <<>> \in Seq(StorageNames)
    BY EmptySeq
  <2> QED BY <2>1 DEF Root, Places
<1>2. \A item \in Items : item.at \in Places
  BY ConstantsAssumption
<1> QED BY <1>1, <1>2 DEF Folders

LEMMA NavigateLeads ==
  ASSUME NEW place \in Places, NEW code, code = Encode(place.remote, PathOf(place)),
         Navigate(code, place)
  PROVE  RoutesLead'
<1>1. page' = "folder" /\ here' = Decode(code) /\ meant' = place
  BY DEF Navigate, Goto
<1> QED BY <1>1 DEF RoutesLead

(* Only names that are awkward break a link.                                *)
LEMMA FollowLinkLeads ==
  ASSUME NEW place \in Places, NEW code, code = Encode(place.remote, PathOf(place)),
         FollowLink(code, place)
  PROVE  RoutesLead'
<1>1. CASE LinkBreaks(code)
  <2>1. page' = "outside" /\ here' = NoFolder /\ meant' = place
    BY <1>1 DEF FollowLink, Goto
  <2>2. PICK w \in Slashed : Has(code, w)
    BY <1>1 DEF LinkBreaks
  <2>3. w \notin {Slash, Colon}
    BY TokensAssumption
  <2>4. w = place.remote \/ \E i \in DOMAIN place.names : Has(place.names[i], w)
    BY <2>2, <2>3, PlacesAre, EncodeHas
  <2>5. Awkward(place)
    BY <2>4 DEF Awkward
  <2> QED BY <2>1, <2>5 DEF RoutesLead
<1>2. CASE ~LinkBreaks(code)
  BY <1>2, NavigateLeads DEF FollowLink
<1> QED BY <1>1, <1>2

(* A breadcrumb leads to the place it stands for.                           *)
LEMMA CrumbLeads ==
  ASSUME RoutesLead, NEW k, FollowCrumb(k)
  PROVE  RoutesLead'
<1> DEFINE up == SubSeq(Split(here.path, Slash), 1, k - 1)
<1>1. /\ page = "folder" /\ k \in DOMAIN CrumbPaths(here.path)
      /\ FollowLink(Encode(here.remote, CrumbPaths(here.path)[k]), Below(Root(here.remote), up))
  BY DEF FollowCrumb
<1>2. meant \in Places /\ here = Decode(Encode(meant.remote, PathOf(meant)))
  BY <1>1 DEF RoutesLead
<1>3. PICK path \in Texts : path = PathOf(meant)
  BY <1>2, PlacesAre, PathOfNames
<1>4. here.remote = meant.remote /\ here.path = Split(path, Colon)[1] /\ here.path \in Texts
  <2>1. meant.remote \in Tokens \ {Colon}
    BY <1>2, PlacesAre
  <2>2. /\ Decode(Encode(meant.remote, path))
             = [remote |-> meant.remote, path |-> Split(path, Colon)[1]]
        /\ Split(path, Colon)[1] \in Texts
    BY <2>1, DecodeEncode
  <2> QED BY <1>2, <1>3, <2>2
<1>5. StartsWith(path, here.path, Tokens)
  <2>1. path \in Seq(Tokens)
    BY TextsAre
  <2> QED BY <1>4, <2>1, FirstPart
<1>6. up \in Seq(StorageNames) /\ CrumbPaths(here.path)[k] = Join(up, Slash)
  <2>1. /\ meant.names \in Seq(StorageNames)
        /\ StartsWith(Join(meant.names, Slash), here.path, Tokens)
    BY <1>2, <1>3, <1>5, PlacesAre
  <2> QED BY <1>1, <1>4, <2>1, CrumbsAreOfPlaces
<1> HIDE DEF up
<1>7. Below(Root(here.remote), up) = [remote |-> here.remote, names |-> up]
  BY <1>6, ConcatEmptySeq DEF Below, Root
<1>8. [remote |-> here.remote, names |-> up] \in Places
  BY <1>2, <1>4, <1>6, PlacesAre DEF Places
<1>9. PathOf(Below(Root(here.remote), up)) = CrumbPaths(here.path)[k]
  BY <1>6, <1>7 DEF PathOf
<1> QED BY <1>1, <1>7, <1>8, <1>9, FollowLinkLeads

LEMMA RoutesLeadHolds == Spec => []RoutesLead
<1>1. Init => RoutesLead
  <2>1. Init => page = "remotes" /\ here = NoFolder /\ meant = Nowhere
    BY DEF Init
  <2> QED BY <2>1 DEF RoutesLead
<1>2. RoutesLead /\ [Next]_vars => RoutesLead'
  <2> SUFFICES ASSUME RoutesLead, [Next]_vars PROVE RoutesLead'
    OBVIOUS
  <2>1. CASE UNCHANGED route
    BY <2>1 DEF route, RoutesLead
  <2>2. ASSUME NEW kind, NEW item, OpenDialog(kind, item) PROVE RoutesLead'
    BY <2>1, <2>2 DEF OpenDialog
  <2>3. ASSUME NEW also, Close(also) PROVE RoutesLead'
    BY <2>1, <2>3 DEF Close
  <2>4. ASSUME NEW item \in Items, ClickRow(item) \/ ClickCard(item) PROVE RoutesLead'
    <3>1. CASE item.isDir
      <4>1. item \in Listing(here)
        BY <2>4, <3>1 DEF ClickRow, ClickCard, ClickItem, Clickable
      <4>2. item.at.remote = here.remote /\ item.at \in Places
        BY <4>1, ConstantsAssumption DEF Listing
      <4>3. Navigate(Encode(here.remote, PathOf(item.at)), item.at)
        BY <2>4, <3>1 DEF ClickRow, ClickCard, ClickItem
      <4> QED BY <4>2, <4>3, NavigateLeads
    <3>2. CASE ~item.isDir
      BY <2>2, <2>4, <3>2 DEF ClickRow, ClickCard, ClickItem
    <3> QED BY <3>1, <3>2
  <2>5. ASSUME NEW remote \in Remotes, PickRemote(remote) PROVE RoutesLead'
    <3>1. Root(remote) \in Places
      BY EmptySeq DEF Root, Places
    <3>2. PathOf(Root(remote)) = Empty /\ Root(remote).remote = remote
      BY JoinEmpty DEF Root, PathOf
    <3> QED BY <2>5, <3>1, <3>2, FollowLinkLeads DEF PickRemote
  <2>6. ASSUME NEW place \in Folders, Revisit(place) PROVE RoutesLead'
    <3>1. place \in Places
      BY FoldersArePlaces
    <3> QED BY <2>6, <3>1, NavigateLeads DEF Revisit
  <2>7. ASSUME NEW p \in {"remotes", "outside"}, Leave(p) PROVE RoutesLead'
    <3>1. page' = p /\ p # "folder" /\ here' = NoFolder /\ meant' = Nowhere
      BY <2>7 DEF Leave, Goto
    <3> QED BY <3>1 DEF RoutesLead
  <2>8. CASE \/ \E v \in {"list", "table"} : SetListView(v)
             \/ \E field \in SortFields : ClickColumn(field)
             \/ \E kind \in open : PressEscape(kind)
             \/ Reload \/ ConfirmDelete \/ OpenCreateFolder \/ CancelCreateFolder
             \/ UploadNewFile \/ UploadNewFolder \/ ClickBesideViewer
             \/ UNCHANGED vars
    BY <2>1, <2>8 DEF SetListView, ClickColumn, PressEscape, Reload, ConfirmDelete, vars,
       OpenCreateFolder, CancelCreateFolder, UploadNewFile, UploadNewFolder, ClickBesideViewer
  <2>9. CASE \/ \E kind \in Kinds : Cancel(kind) \/ Dismiss(kind)
             \/ CloseViewer
             \/ \E text \in NewNames : ConfirmRename(text) \/ SubmitCreateFolder(text)
             \/ \E text \in Typed \cup {here.path} : ConfirmMove(text) \/ ConfirmCopy(text)
    BY <2>1, <2>3, <2>9 DEF Cancel, Dismiss, CloseViewer, ConfirmRename, SubmitCreateFolder,
       ConfirmMove, ConfirmCopy
  <2>10. ASSUME NEW kind \in Kinds, NEW item \in Touched,
                OpenFromTable(kind, item) \/ OpenFromCard(kind, item)
         PROVE  RoutesLead'
    BY <2>2, <2>10 DEF OpenFromTable, OpenFromCard
  <2> QED BY <2>4, <2>5, <2>6, <2>7, <2>8, <2>9, <2>10, CrumbLeads DEF Next
<1> QED BY <1>1, <1>2, PTL DEF Spec

-----------------------------------------------------------------------------
(* An open folder without an awkward name on the way is the one meant.      *)
LEMMA ArrivesThere ==
  ASSUME RoutesLead, page = "folder", ~Awkward(meant)
  PROVE  here = [remote |-> meant.remote, path |-> PathOf(meant)]
<1>1. meant \in Places /\ here = Decode(Encode(meant.remote, PathOf(meant)))
  BY DEF RoutesLead
<1>2. PICK path \in Texts : path = PathOf(meant)
  BY <1>1, PlacesAre, PathOfNames
<1>3. ~Has(path, Colon)
  <2>1. Has(path, Colon) => Colon = Slash \/ \E i \in DOMAIN meant.names : Has(meant.names[i], Colon)
    BY <1>1, <1>2, PlacesAre, PathOfNames
  <2> QED BY <2>1, TextsAre DEF Awkward
<1>4. meant.remote \in Tokens \ {Colon}
  BY <1>1, PlacesAre
<1> QED BY <1>1, <1>2, <1>3, <1>4, DecodeEncode

(* Whatever remotes, rows, breadcrumbs and pages of the history a user      *)
(* follows, however deep the folders, the page shows the folder he went to, *)
(* and under its name, unless a name on the way has a colon or breaks links.*)
THEOREM ArrivesWhereMeantCorrect == Spec => []ArrivesWhereMeant
<1>1. ASSUME RoutesLead PROVE ArrivesWhereMeant
  <2> SUFFICES ASSUME meant # Nowhere, ~Awkward(meant)
               PROVE  /\ page = "folder"
                      /\ here = [remote |-> meant.remote, path |-> PathOf(meant)]
                      /\ CurrentFolder(here) = IF meant.names = <<>> THEN <<meant.remote>>
                                                                     ELSE Last(meant.names)
    BY DEF ArrivesWhereMeant
  <2>1. page = "folder" /\ meant \in Places
    BY <1>1 DEF RoutesLead
  <2>2. here = [remote |-> meant.remote, path |-> PathOf(meant)]
    BY <1>1, <2>1, ArrivesThere
  <2>3. /\ PathOf(meant) = Empty <=> meant.names = <<>>
        /\ meant.names # <<>> => Split(PathOf(meant), Slash) = meant.names
    BY <2>1, PlacesAre, PathOfNames
  <2>4. CurrentFolder(here) = IF meant.names = <<>> THEN <<meant.remote>> ELSE Last(meant.names)
    BY <2>2, <2>3 DEF CurrentFolder
  <2> QED BY <2>1, <2>2, <2>4
<1> QED BY <1>1, RoutesLeadHolds, PTL

-----------------------------------------------------------------------------
(* What was asked for is an item of the folder that is open since, and the  *)
(* stack stays within its bound.                                            *)
AskedHere ==
  /\ Len(requests) <= MaxStack
  /\ \/ asked = Nothing
     \/ asked = [kind |-> "mkdir", item |-> Nothing]
     \/ asked \in Requests /\ asked.item \in Listing(here)

LEMMA StackLength ==
  ASSUME NEW stack \in Seq(Requests)
  PROVE  /\ Len(stack) \in Nat /\ Len(Pop(stack)) \in Nat /\ Len(Pop(stack)) <= Len(stack)
         /\ \A r \in Requests : Len(Push(stack, r)) = Len(stack) + 1
<1>1. Len(stack) \in Nat
  BY LenProperties
<1>2. \A r \in Requests : Len(Push(stack, r)) = Len(stack) + 1
  BY AppendProperties DEF Push
<1>3. CASE stack = <<>>
  BY <1>1, <1>2, <1>3 DEF Pop
<1>4. CASE stack # <<>>
  BY <1>1, <1>2, <1>4, FrontLast DEF Pop
<1> QED BY <1>3, <1>4

LEMMA AskedHereStays ==
  ASSUME AskedHere, Len(requests') <= MaxStack,
         asked' = Nothing \/ (asked' = asked /\ here' = here)
  PROVE  AskedHere'
<1>1. CASE asked' = Nothing
  BY <1>1 DEF AskedHere
<1>2. CASE asked' = asked /\ here' = here
  BY <1>2 DEF AskedHere, Listing
<1> QED BY <1>1, <1>2

LEMMA OpenDialogAsks ==
  ASSUME IInv, AskedHere, NEW kind \in Kinds, NEW item \in Items, OpenDialog(kind, item)
  PROVE  AskedHere'
<1> DEFINE r == [kind |-> kind, item |-> item]
<1>1. /\ item \in Listing(here) /\ here' = here /\ Len(requests) < MaxStack
      /\ requests' = Push(requests, r) /\ asked' = r
  BY DEF OpenDialog, Clickable, route
<1>2. r \in Requests /\ r.item = item
  BY DEF Requests
<1>3. Len(requests') <= MaxStack
  BY <1>1, <1>2, StackLength, ConstantsAssumption DEF IInv
<1>4. item \in Listing(here')
  BY <1>1
<1> QED BY <1>1, <1>2, <1>3, <1>4 DEF AskedHere, Listing

LEMMA PopKeepsAsked ==
  ASSUME IInv, AskedHere, requests' = Pop(requests) \/ requests' = Pop(Pop(requests)),
         asked' = Nothing
  PROVE  AskedHere'
<1>1. requests \in Seq(Requests) /\ Pop(requests) \in Seq(Requests)
  BY PushAndPop DEF IInv
<1>2. Len(requests') <= MaxStack
  BY <1>1, StackLength, ConstantsAssumption DEF AskedHere
<1> QED BY <1>2, AskedHereStays

LEMMA AskedHereHolds == Spec => []AskedHere
<1>1. Init => AskedHere
  <2>1. Init => requests = <<>> /\ asked = Nothing
    BY DEF Init
  <2>2. Len(<<>>) = 0
    BY EmptySeq
  <2> QED BY <2>1, <2>2, ConstantsAssumption DEF AskedHere
<1>2. IInv /\ AskedHere /\ [Next]_vars => AskedHere'
  <2> SUFFICES ASSUME IInv, AskedHere, [Next]_vars PROVE AskedHere'
    OBVIOUS
  <2>1. Touched \subseteq Items /\ Len(requests) <= MaxStack
    BY ConstantsAssumption DEF AskedHere
  <2>2. ASSUME UNCHANGED requests, asked' = Nothing \/ (asked' = asked /\ here' = here)
        PROVE  AskedHere'
    BY <2>1, <2>2, AskedHereStays
  <2>3. ASSUME NEW p, NEW h, NEW place, Goto(p, h, place) PROVE AskedHere'
    BY <2>2, <2>3 DEF Goto
  <2>4. ASSUME \/ \E code, place : Navigate(code, place) \/ FollowLink(code, place)
               \/ \E p \in {"remotes", "outside"} : Leave(p)
        PROVE  AskedHere'
    BY <2>3, <2>4 DEF Navigate, FollowLink, Leave
  <2>5. ASSUME NEW also, Close(also) PROVE AskedHere'
    BY <2>5, PopKeepsAsked DEF Close
  <2>6. CASE ClickBesideViewer
    BY <2>6, PopKeepsAsked DEF ClickBesideViewer
  <2>7. ASSUME NEW item \in Items, ClickRow(item) \/ ClickCard(item) PROVE AskedHere'
    BY <2>4, <2>7, OpenDialogAsks DEF ClickRow, ClickCard, ClickItem, Kinds
  <2>8. ASSUME NEW kind \in Kinds, NEW item \in Touched,
               OpenFromTable(kind, item) \/ OpenFromCard(kind, item)
        PROVE  AskedHere'
    BY <2>1, <2>8, OpenDialogAsks DEF OpenFromTable, OpenFromCard
  <2>9. CASE \/ \E remote \in Remotes : PickRemote(remote)
             \/ \E k \in DOMAIN here.path : FollowCrumb(k)
             \/ \E place \in Folders : Revisit(place)
    BY <2>4, <2>9 DEF PickRemote, FollowCrumb, Revisit
  <2>10. CASE \/ \E v \in {"list", "table"} : SetListView(v)
              \/ \E field \in SortFields : ClickColumn(field)
              \/ \E kind \in open : PressEscape(kind)
              \/ ConfirmDelete \/ CancelCreateFolder \/ UploadNewFile \/ UploadNewFolder
              \/ \E text \in NewNames : SubmitCreateFolder(text)
              \/ UNCHANGED vars
    BY <2>2, <2>10 DEF SetListView, ClickColumn, PressEscape, ConfirmDelete,
       CancelCreateFolder, UploadNewFile, UploadNewFolder, SubmitCreateFolder, vars, route
  <2>11. CASE \/ \E kind \in Kinds : Cancel(kind) \/ Dismiss(kind)
              \/ CloseViewer
              \/ \E text \in NewNames : ConfirmRename(text)
              \/ \E text \in Typed \cup {here.path} : ConfirmMove(text) \/ ConfirmCopy(text)
    BY <2>5, <2>11 DEF Cancel, Dismiss, CloseViewer, ConfirmRename, ConfirmMove, ConfirmCopy
  <2>12. CASE Reload
    <3>1. requests' = <<>> /\ asked' = Nothing /\ Len(<<>>) = 0
      BY <2>12, EmptySeq DEF Reload
    <3> QED BY <3>1, AskedHereStays, ConstantsAssumption
  <2>13. CASE OpenCreateFolder
    <3>1. requests' = requests /\ asked' = [kind |-> "mkdir", item |-> Nothing]
      BY <2>13 DEF OpenCreateFolder
    <3> QED BY <2>1, <3>1 DEF AskedHere
  <2> QED BY <2>4, <2>6, <2>7, <2>8, <2>9, <2>10, <2>11, <2>12, <2>13 DEF Next
<1> QED BY <1>1, <1>2, InvariantHolds, PTL DEF Spec

(* The state has its types: the page that is open, what it has of the       *)
(* route, the rows' view and sort, a stack of requests within its bound,    *)
(* and only dialogs of the page.                                            *)
THEOREM TypeCorrect == Spec => []TypeOK
<1>1. ASSUME RoutesLead, page = "folder" PROVE here \in [remote : Remotes, path : Texts]
  <2>1. meant \in Places /\ here = Decode(Encode(meant.remote, PathOf(meant)))
    BY <1>1 DEF RoutesLead
  <2>2. PICK path \in Texts : path = PathOf(meant)
    BY <2>1, PlacesAre, PathOfNames
  <2>3. meant.remote \in Tokens \ {Colon} /\ meant.remote \in Remotes
    BY <2>1, PlacesAre
  <2> QED BY <2>1, <2>2, <2>3, DecodeEncode
<1>2. RoutesLead => /\ here \in IF page = "folder" THEN [remote : Remotes, path : Texts]
                                                  ELSE {NoFolder}
                    /\ meant \in Places \cup {Nowhere}
  BY <1>1 DEF RoutesLead
<1>3. AskedHere =>
        \/ asked = Nothing
        \/ asked \in [kind : Kinds \cup {"mkdir"}, item : Items \cup {Nothing}]
  BY DEF AskedHere, Requests
<1>4. ASSUME IInv, RoutesLead, AskedHere, sort \in SortConfigs /\ view \in {"list", "table"}
      PROVE  TypeOK
  BY <1>2, <1>3, <1>4 DEF IInv, OneIsOpen, AskedHere, TypeOK
<1> QED BY <1>4, InvariantHolds, RoutesLeadHolds, AskedHereHolds, SortKept, PTL

-----------------------------------------------------------------------------
(* Jobs.  A row of the open folder is at a place its path leads to, and the *)
(* folder's path leads to where it is.                                      *)
LEMMA RowIsAt ==
  ASSUME NEW item \in Listing(here)
  PROVE  /\ item \in Items /\ item.isDir \in BOOLEAN
         /\ item.at \in Places /\ item.at.remote = here.remote
         /\ here.remote \in Tokens /\ here.path \in Texts
         /\ PathOf(item.at) \in Texts /\ Names(PathOf(item.at)) = item.at.names
         /\ item.name \in StorageNames /\ Names(here.path) = Front(item.at.names)
         /\ Front(item.at.names) \in Seq(StorageNames)
         /\ JoinRemotePath(here.path, item.name) = PathOf(item.at)
<1>1. /\ item \in Items /\ item.at \in Places /\ item.isDir \in BOOLEAN
      /\ item.at.remote = here.remote /\ here.path = PathOf(ParentOf(item.at))
      /\ item.at.names # <<>> /\ item.name = Last(item.at.names)
  BY ConstantsAssumption DEF Listing, IsRow
<1>2. PICK names \in Seq(StorageNames) : names = item.at.names
  BY <1>1, PlacesAre
<1>3. names # <<>> /\ item.name = Last(names) /\ here.remote \in Tokens
  BY <1>1, <1>2, PlacesAre
<1>4. ParentOf(item.at).names = Front(names)
  <2>1. item.at = [remote |-> item.at.remote, names |-> names]
    BY <1>1, <1>2, PlacesAre
  <2> QED BY <1>2, <2>1 DEF ParentOf
<1>5. PICK front \in Seq(StorageNames) : front = Front(names) /\ here.path = Join(front, Slash)
  BY <1>1, <1>3, <1>4, PathOfItem DEF PathOf
<1>6. Join(front, Slash) \in Texts /\ Names(Join(front, Slash)) = front
  BY PathOfNames, NamesOfPath
<1>7. Join(names, Slash) \in Texts /\ Names(Join(names, Slash)) = names
  BY PathOfNames, NamesOfPath
<1>8. /\ Last(names) \in StorageNames
      /\ JoinRemotePath(Join(front, Slash), Last(names)) = Join(names, Slash)
  BY <1>3, <1>5, PathOfItem
<1>9. PathOf(item.at) = Join(names, Slash)
  BY <1>2 DEF PathOf
<1> QED BY <1>1, <1>2, <1>3, <1>5, <1>6, <1>7, <1>8, <1>9

(* The item of the dialog a user asked for is a row of the folder that is   *)
(* open.                                                                    *)
LEMMA CurrentIsHere ==
  ASSUME IInv, AskedHere, NEW kind \in Kinds, Shows(kind), asked # Nothing
  PROVE  Current \in Listing(here)
<1>1. open = {asked.kind} /\ kind \in open
  BY DEF IInv, WhatWasAskedIsShown, Shows
<1>2. asked.kind = kind /\ kind # "mkdir"
  BY <1>1 DEF Kinds
<1>3. Top(requests) = asked
  BY <1>2 DEF IInv, WhatWasAskedIsShown
<1>4. asked # [kind |-> "mkdir", item |-> Nothing]
  BY <1>2
<1> QED BY <1>3, <1>4 DEF AskedHere, Current

-----------------------------------------------------------------------------
(* What rclone does with a call about a row.                                *)
LEMMA DeleteDeletes ==
  ASSUME NEW item \in Listing(here)
  PROVE  Effect(SubmitJob(Delete(here, item))) = Want("delete", item.isDir, item.at, Nowhere)
<1>1. PICK path \in Texts : path = PathOf(item.at) /\ Names(path) = item.at.names
  BY RowIsAt
<1>2. here.remote \in Tokens /\ item.at = [remote |-> here.remote, names |-> Names(path)]
  BY <1>1, RowIsAt, PlacesAre
<1>3. RclonePlace(<<Fs(here.remote, Empty), path>>) = item.at /\ RclonePlace(<<>>) = Nowhere
  BY <1>2, TextsAre, Leads
<1>4. CASE item.isDir = TRUE
  BY <1>1, <1>3, <1>4 DEF Delete, SubmitJob, DeleteFolderAsync, Effect, Verb, Want
<1>5. CASE item.isDir = FALSE
  BY <1>1, <1>3, <1>5 DEF Delete, SubmitJob, DeleteFileAsync, Effect, Verb, Want
<1> QED BY <1>4, <1>5, RowIsAt

LEMMA MoveAndCopy ==
  ASSUME NEW item \in Listing(here), NEW to \in Texts, NEW names, names = Names(to)
  PROVE  LET target == [remote |-> here.remote, names |-> names] IN
         /\ Effect(SubmitJob(Move(here, item, to))) = Want("move", item.isDir, item.at, target)
         /\ Effect(SubmitJob(Copy(here, item, to))) = Want("copy", item.isDir, item.at, target)
<1>1. PICK path \in Texts : path = PathOf(item.at) /\ Names(path) = item.at.names
  BY RowIsAt
<1>2. here.remote \in Tokens /\ item.at = [remote |-> here.remote, names |-> Names(path)]
  BY <1>1, RowIsAt, PlacesAre
<1>3. PICK target : target = [remote |-> here.remote, names |-> names]
  OBVIOUS
<1>4. /\ RclonePlace(<<Fs(here.remote, Empty), path>>) = item.at
      /\ RclonePlace(<<Fs(here.remote, path)>>) = item.at
      /\ RclonePlace(<<Fs(here.remote, Empty), to>>) = target
      /\ RclonePlace(<<Fs(here.remote, to)>>) = target
  <2>1. Empty \in Texts
    BY TextsAre
  <2> QED BY <1>2, <1>3, <2>1, Leads
<1>5. CASE item.isDir = TRUE
  BY <1>1, <1>3, <1>4, <1>5
  DEF Move, Copy, SubmitJob, MoveFolderAsync, CopyFolderAsync, Effect, Verb, Want
<1>6. CASE item.isDir = FALSE
  BY <1>1, <1>3, <1>4, <1>6
  DEF Move, Copy, SubmitJob, MoveFileAsync, CopyFileAsync, Effect, Verb, Want
<1> QED BY <1>5, <1>6, RowIsAt

LEMMA MkdirPuts ==
  ASSUME here.remote \in Tokens, NEW dir \in Texts, NEW names, names = Names(dir)
  PROVE  Effect(SubmitJob(Mkdir(here, dir)))
           = Want("put", TRUE, Nowhere, [remote |-> here.remote, names |-> names])
<1>1. /\ RclonePlace(<<>>) = Nowhere
      /\ RclonePlace(<<Fs(here.remote, Empty), dir>>)
           = [remote |-> here.remote, names |-> names]
  BY Leads
<1> QED BY <1>1 DEF Mkdir, SubmitJob, MkdirAsync, Effect, Verb, Want

LEMMA UploadPuts ==
  ASSUME here.remote \in Tokens, NEW dir \in Texts, NEW name \in Texts,
         NEW names, names = Names(dir) \o Names(name)
  PROVE  Effect(SubmitJob(Upload(here, dir, name)))
           = Want("put", FALSE, Nowhere, [remote |-> here.remote, names |-> names])
<1>1. /\ RclonePlace(<<>>) = Nowhere
      /\ RclonePlace(<<Fs(here.remote, Empty), dir, name>>)
           = [remote |-> here.remote, names |-> names]
  BY Leads
<1> QED BY <1>1 DEF Upload, SubmitJob, UploadFile, Effect, Verb, Want

(* A path ends as the name at its end does.                                 *)
LEMMA JoinedEnds ==
  ASSUME NEW base \in Texts, NEW name \in Texts, name # Empty, ~EndsBlank(name)
  PROVE  ~EndsBlank(JoinRemotePath(base, name))
<1>1. Len(name) \in Nat \ {0} /\ Last(name) = name[Len(name)] /\ Last(name) # Blank
  BY DEF Texts, Empty, EndsBlank, Last
<1>2. JoinRemotePath(base, name) = IF base = Empty THEN name ELSE base \o <<Slash>> \o name
  BY DEF JoinRemotePath
<1>3. CASE base = Empty
  BY <1>2, <1>3
<1>4. CASE base # Empty
  <2>1. PICK long : long = base \o <<Slash>> \o name
    OBVIOUS
  <2>2. /\ Len(long) = Len(base) + 1 + Len(name)
        /\ long[Len(long)] = name[Len(name)]
    BY <1>1, <2>1 DEF Texts, Slash
  <2>3. Last(long) # Blank
    BY <1>1, <2>2 DEF Last
  <2> QED BY <1>2, <1>4, <2>1, <2>3 DEF EndsBlank
<1> QED BY <1>3, <1>4

(* The viewer's URL brings through what has no mark of its own.             *)
LEMMA GetGets ==
  ASSUME NEW item \in Listing(here), ~BreaksUrl(item.at)
  PROVE  Effect(FetchFileContent(here.remote, here.path, item.name))
           = Want("get", FALSE, item.at, Nowhere)
<1>1. PICK path \in Texts : path = PathOf(item.at) /\ Names(path) = item.at.names
                            /\ JoinRemotePath(here.path, item.name) = path
  BY RowIsAt
<1>2. here.remote \in Tokens /\ item.at = [remote |-> here.remote, names |-> Names(path)]
  BY <1>1, RowIsAt, PlacesAre
<1>3. ~UrlBreaks(path)
  <2>1. \A mark : Has(path, mark) =>
          mark = Slash \/ \E i \in DOMAIN item.at.names : Has(item.at.names[i], mark)
    BY <1>1, RowIsAt, PlacesAre, PathOfNames
  <2>2. \A mark \in UrlMarks : ~Has(path, mark)
    BY <2>1 DEF BreaksUrl, UrlMarks, Slash
  <2>3. /\ here.path \in Texts /\ item.name \in Texts /\ item.name # Empty
        /\ item.name = Last(item.at.names)
    BY RowIsAt, ConstantsAssumption DEF StorageNames
  <2>4. ~EndsBlank(item.name)
    BY <2>3 DEF BreaksUrl
  <2>5. ~EndsBlank(JoinRemotePath(here.path, item.name))
    BY <2>3, <2>4, JoinedEnds
  <2> QED BY <1>1, <2>2, <2>5 DEF UrlBreaks
<1>4. RclonePlace(<<Fs(here.remote, Empty), path>>) = item.at /\ RclonePlace(<<>>) = Nowhere
  BY <1>2, TextsAre, Leads
<1>5. FetchFileContent(here.remote, here.path, item.name)
        = [cmd |-> "GET", to |-> <<>>, from |-> <<Fs(here.remote, Empty), path>>]
  BY <1>1, <1>3 DEF FetchFileContent
<1>6. PICK call : call = [cmd |-> "GET", to |-> <<>>, from |-> <<Fs(here.remote, Empty), path>>]
  OBVIOUS
<1>7. RclonePlace(call.from) = item.at /\ RclonePlace(call.to) = Nowhere /\ call.cmd = "GET"
  BY <1>4, <1>6
<1>8. Effect(call) = Want("get", FALSE, item.at, Nowhere)
  BY <1>7 DEF Effect, Verb, Want
<1> QED BY <1>5, <1>6, <1>8

-----------------------------------------------------------------------------
(* Jobs that a dialog about a row submits.                                  *)
LEMMA BelowIs ==
  ASSUME NEW remote, NEW names, NEW more, NEW all, all = names \o more
  PROVE  Below([remote |-> remote, names |-> names], more) = [remote |-> remote, names |-> all]
<1>1. PICK place : place = [remote |-> remote, names |-> names]
  OBVIOUS
<1>2. Below(place, more) = [place EXCEPT !.names = place.names \o more]
  BY DEF Below
<1>3. Below(place, more) = [place EXCEPT !.names = all]
  BY <1>1, <1>2
<1> QED BY <1>1, <1>3

LEMMA DeleteAsAsked ==
  ASSUME IInv, AskedHere, ConfirmDelete PROVE JobsDoWhatWasAsked'
<1> DEFINE wanted == Want("delete", Current.isDir, Current.at, Nowhere)
<1>1. /\ Shows("delete") /\ job'.does = Effect(SubmitJob(Delete(here, Current)))
      /\ job'.wanted = AsAsked(wanted)
  BY DEF ConfirmDelete, Submits
<1>2. ASSUME asked # Nothing PROVE job'.does = wanted
  <2>1. Current \in Listing(here)
    BY <1>1, <1>2, CurrentIsHere DEF Kinds
  <2> QED BY <1>1, <2>1, DeleteDeletes
<1> HIDE DEF wanted
<1> QED BY <1>1, <1>2 DEF JobsDoWhatWasAsked, AsAsked

LEMMA RenameAsAsked ==
  ASSUME IInv, AskedHere, NEW text \in NewNames, ConfirmRename(text)
  PROVE  JobsDoWhatWasAsked'
<1> DEFINE wanted == Want("move", Current.isDir, Current.at,
                          Below(ParentOf(Current.at), Names(Trim(text))))
<1>1. /\ Shows("rename")
      /\ job'.does = Effect(SubmitJob(Move(here, Current, RenameTarget(here.path, Trim(text)))))
      /\ job'.wanted = AsAsked(wanted)
  BY DEF ConfirmRename, Submits
<1>2. ASSUME asked # Nothing PROVE job'.does = wanted
  <2>1. PICK item \in Listing(here) : item = Current
    BY <1>1, <1>2, CurrentIsHere DEF Kinds
  <2>2. PICK name \in Texts : name = Trim(text)
    <3>1. text \in Texts
      BY ConstantsAssumption
    <3> QED BY <3>1, TrimType
  <2>3. here.path \in Texts /\ Names(here.path) = Front(item.at.names)
    BY RowIsAt
  <2>4. PICK to \in Texts : /\ to = RenameTarget(here.path, name)
                            /\ Names(to) = Front(item.at.names) \o Names(name)
    <3>1. PICK base \in Texts : base = here.path
      BY <2>3
    <3>2. /\ RenameTarget(base, name) \in Texts
          /\ Names(RenameTarget(base, name)) = Names(base) \o Names(name)
      BY NamesOfJoined
    <3> QED BY <2>3, <3>1, <3>2
  <2>5. Below(ParentOf(item.at), Names(name))
          = [remote |-> here.remote, names |-> Names(to)]
    <3>1. item.at = [remote |-> here.remote, names |-> item.at.names]
      BY RowIsAt, PlacesAre
    <3>2. ParentOf(item.at) = [remote |-> here.remote, names |-> Front(item.at.names)]
      BY <3>1 DEF ParentOf
    <3> QED BY <2>4, <3>2, BelowIs
  <2>6. Effect(SubmitJob(Move(here, item, to)))
          = Want("move", item.isDir, item.at, [remote |-> here.remote, names |-> Names(to)])
    BY MoveAndCopy
  <2> QED BY <1>1, <2>1, <2>2, <2>4, <2>5, <2>6
<1> HIDE DEF wanted
<1> QED BY <1>1, <1>2 DEF JobsDoWhatWasAsked, AsAsked

(* Where the destination of the move and of the copy dialog leads.          *)
LEMMA DestinationLeads ==
  ASSUME NEW item \in Listing(here), Current = item, NEW text \in Texts
  PROVE  \E to \in Texts : /\ to = Destination(text)
                           /\ WantedPlace(text) = [remote |-> here.remote, names |-> Names(to)]
<1>1. PICK typed \in Texts : typed = Trim(text)
  BY TrimType
<1>2. PICK dir \in Texts : dir = NormalizePath(text) /\ Names(dir) = Names(typed)
  <2>1. CutEnd(typed, Slash) \in Texts
    BY TextsAre, CutEndType
  <2> QED BY <1>1, <2>1, NamesOfCut DEF NormalizePath
<1>3. PICK name \in StorageNames : name = item.name /\ name \in Texts /\ Names(name) = <<name>>
  <2>1. item.name \in StorageNames
    BY RowIsAt
  <2> QED BY <2>1, TextsAre, NamesOfName
<1>4. PICK to \in Texts : to = JoinPath(dir, name) /\ Names(to) = Names(dir) \o Names(name)
  BY <1>3, NamesOfJoined
<1>5. PICK names \in Seq(Texts) : names = Names(typed)
  BY NamesType
<1>6. Append(names, name) = names \o <<name>> /\ Append(names, name) \in Seq(Texts)
  BY <1>3, AppendIsConcat, AppendProperties
<1>7. WantedPlace(text) = [remote |-> here.remote, names |-> Append(names, name)]
  <2>1. item.at.remote = here.remote
    BY RowIsAt
  <2>2. <<>> \o Append(names, name) = Append(names, name)
    BY <1>6, ConcatEmptySeq
  <2>3. WantedPlace(text) = Below(Root(here.remote), Append(names, name))
    BY <1>1, <1>3, <1>5, <2>1 DEF WantedPlace
  <2> QED BY <2>2, <2>3 DEF Below, Root
<1>8. Names(to) = Append(names, name)
  BY <1>2, <1>3, <1>4, <1>5, <1>6
<1>9. to = Destination(text)
  BY <1>2, <1>3, <1>4 DEF Destination
<1> QED BY <1>7, <1>8, <1>9

LEMMA MoveAsAsked ==
  ASSUME IInv, AskedHere, NEW text \in Typed \cup {here.path},
         ConfirmMove(text) \/ ConfirmCopy(text)
  PROVE  JobsDoWhatWasAsked'
<1>1. CASE asked = Nothing
  BY <1>1 DEF ConfirmMove, ConfirmCopy, Submits, AsAsked, JobsDoWhatWasAsked
<1>2. CASE asked # Nothing
  <2>1. PICK item \in Listing(here) : item = Current
    BY <1>2, CurrentIsHere DEF ConfirmMove, ConfirmCopy, Kinds
  <2>2. text \in Texts
    BY RowIsAt, ConstantsAssumption
  <2>3. PICK to \in Texts : /\ to = Destination(text)
                            /\ WantedPlace(text) = [remote |-> here.remote, names |-> Names(to)]
    BY <2>1, <2>2, DestinationLeads
  <2>4. /\ Effect(SubmitJob(Move(here, item, to)))
             = Want("move", item.isDir, item.at, WantedPlace(text))
        /\ Effect(SubmitJob(Copy(here, item, to)))
             = Want("copy", item.isDir, item.at, WantedPlace(text))
    BY <2>3, MoveAndCopy
  <2>5. CASE ConfirmMove(text)
    <3>1. /\ job'.does = Effect(SubmitJob(Move(here, item, to)))
          /\ job'.wanted = Want("move", item.isDir, item.at, WantedPlace(text))
      BY <1>2, <2>1, <2>3, <2>5 DEF ConfirmMove, Submits, AsAsked
    <3> QED BY <2>4, <3>1 DEF JobsDoWhatWasAsked
  <2>6. CASE ConfirmCopy(text)
    <3>1. /\ job'.does = Effect(SubmitJob(Copy(here, item, to)))
          /\ job'.wanted = Want("copy", item.isDir, item.at, WantedPlace(text))
      BY <1>2, <2>1, <2>3, <2>6 DEF ConfirmCopy, Submits, AsAsked
    <3> QED BY <2>4, <3>1 DEF JobsDoWhatWasAsked
  <2> QED BY <2>5, <2>6
<1> QED BY <1>1, <1>2

-----------------------------------------------------------------------------
(* Jobs that put something into the folder the user means.                  *)
LEMMA MeantIsHere ==
  ASSUME RoutesLead, page = "folder", ~Awkward(meant)
  PROVE  /\ here.remote \in Tokens /\ here.path \in Texts
         /\ Names(here.path) \in Seq(StorageNames)
         /\ meant = [remote |-> here.remote, names |-> Names(here.path)]
<1>1. meant \in Places /\ here = [remote |-> meant.remote, path |-> PathOf(meant)]
  BY ArrivesThere DEF RoutesLead
<1>2. PICK names \in Seq(StorageNames) : names = meant.names
  BY <1>1, PlacesAre
<1>3. PathOf(meant) = Join(names, Slash)
  BY <1>2 DEF PathOf
<1>4. Join(names, Slash) \in Texts /\ Names(Join(names, Slash)) = names
  BY PathOfNames, NamesOfPath
<1> QED BY <1>1, <1>2, <1>3, <1>4, PlacesAre

LEMMA NamesRegroup ==
  ASSUME NEW base \in Texts, NEW dir \in Texts, NEW name \in Texts
  PROVE  (Names(base) \o Names(dir)) \o <<name>> = Names(base) \o Append(Names(dir), name)
<1>1. PICK a \in Seq(Texts) : a = Names(base)
  BY NamesType
<1>2. PICK b \in Seq(Texts) : b = Names(dir)
  BY NamesType
<1>3. PICK c \in Seq(Texts) : c = <<name>>
  BY Single
<1>4. Append(b, name) = b \o c
  BY <1>3, AppendIsConcat
<1>5. (a \o b) \o c = a \o (b \o c)
  BY ConcatAssociative
<1> QED BY <1>1, <1>2, <1>3, <1>4, <1>5

LEMMA MkdirAsAsked ==
  ASSUME IInv, RoutesLead, NEW text \in NewNames, SubmitCreateFolder(text)
  PROVE  JobsDoWhatWasAsked'
<1>1. PICK name \in Texts : name = Trim(text)
  <2>1. text \in Texts
    BY ConstantsAssumption
  <2> QED BY <2>1, TrimType
<1>2. PICK base : base = here.path
  OBVIOUS
<1>3. PICK dir : dir = JoinRemotePath(base, name)
  OBVIOUS
<1>4. \/ job' = Nothing
      \/ /\ job'.does = Effect(SubmitJob(Mkdir(here, dir)))
         /\ job'.wanted = AsAsked(WantPut(TRUE, Names(name)))
  <2>1. CASE name = Empty
    BY <1>1, <2>1 DEF SubmitCreateFolder
  <2>2. CASE name # Empty
    <3>1. Submits(Mkdir(here, dir), AsAsked(WantPut(TRUE, Names(name))), meant)
      BY <1>1, <1>2, <1>3, <2>2 DEF SubmitCreateFolder
    <3> QED BY <3>1 DEF Submits
  <2> QED BY <2>1, <2>2
<1>5. ASSUME ~Awkward(meant)
      PROVE  Effect(SubmitJob(Mkdir(here, dir))) = WantPut(TRUE, Names(name))
  <2>1. page = "folder"
    BY DEF SubmitCreateFolder, IInv, OneIsOpen, Mounted, Kinds
  <2>2. /\ base \in Texts /\ here.remote \in Tokens
        /\ meant = [remote |-> here.remote, names |-> Names(base)]
    BY <1>2, <1>5, <2>1, MeantIsHere
  <2>3. dir \in Texts /\ Names(dir) = Names(base) \o Names(name)
    BY <1>3, <2>2, NamesOfJoined
  <2>4. PICK all : all = Names(base) \o Names(name)
    OBVIOUS
  <2>5. Below([remote |-> here.remote, names |-> Names(base)], Names(name))
          = [remote |-> here.remote, names |-> all]
    BY <2>4, BelowIs
  <2>6. Effect(SubmitJob(Mkdir(here, dir)))
          = Want("put", TRUE, Nowhere, [remote |-> here.remote, names |-> all])
    BY <2>2, <2>3, <2>4, MkdirPuts
  <2> QED BY <1>5, <2>2, <2>5, <2>6 DEF WantPut
<1> QED BY <1>4, <1>5 DEF JobsDoWhatWasAsked, AsAsked, WantPut

LEMMA UploadAsAsked ==
  ASSUME RoutesLead, UploadNewFile \/ UploadNewFolder
  PROVE  JobsDoWhatWasAsked'
<1>1. PICK base : base = here.path
  OBVIOUS
<1>2. PICK dir \in Texts : dir = TargetDirectory(Uploaded)
  BY NamesOfUpload, ConstantsAssumption
<1>3. PICK name \in StorageNames : /\ name = Last(Split(Uploaded, Slash))
                                   /\ name \in Texts /\ Names(name) = <<name>>
                                   /\ Names(Uploaded) = Append(Names(dir), name)
  <2>1. /\ Last(Split(Uploaded, Slash)) \in StorageNames
        /\ Names(Uploaded) = Append(Names(TargetDirectory(Uploaded)), Last(Split(Uploaded, Slash)))
    BY NamesOfUpload, ConstantsAssumption
  <2> QED BY <1>2, <2>1, NamesOfName, TextsAre
<1>4. page = "folder"
  BY DEF UploadNewFile, UploadNewFolder
<1>5. ASSUME ~Awkward(meant)
      PROVE  /\ base \in Texts /\ here.remote \in Tokens
             /\ meant = [remote |-> here.remote, names |-> Names(base)]
  BY <1>1, <1>4, <1>5, MeantIsHere
<1>6. name \in Texts
  BY <1>3
<1>7. CASE UploadNewFile
  <2>1. /\ job'.does = Effect(SubmitJob(Upload(here, base, name)))
        /\ job'.wanted = WantPut(FALSE, <<name>>)
    BY <1>1, <1>3, <1>7 DEF UploadNewFile, Submits
  <2>2. ASSUME ~Awkward(meant)
        PROVE  Effect(SubmitJob(Upload(here, base, name))) = WantPut(FALSE, <<name>>)
    <3>1. PICK all : all = Names(base) \o Names(name)
      OBVIOUS
    <3>2. Effect(SubmitJob(Upload(here, base, name)))
            = Want("put", FALSE, Nowhere, [remote |-> here.remote, names |-> all])
      <4>1. base \in Texts /\ here.remote \in Tokens
        BY <1>5, <2>2
      <4> QED BY <1>6, <3>1, <4>1, UploadPuts
    <3>3. Below([remote |-> here.remote, names |-> Names(base)], Names(name))
            = [remote |-> here.remote, names |-> all]
      BY <3>1, BelowIs
    <3> QED BY <1>3, <1>5, <2>2, <3>2, <3>3 DEF WantPut
  <2> QED BY <2>1, <2>2 DEF JobsDoWhatWasAsked, WantPut
<1>8. CASE UploadNewFolder
  <2>1. PICK target : target = JoinRemotePath(base, dir)
    OBVIOUS
  <2>2. /\ job'.does = Effect(SubmitJob(Upload(here, target, name)))
        /\ job'.wanted = WantPut(FALSE, Names(Uploaded))
    BY <1>1, <1>2, <1>3, <1>8, <2>1 DEF UploadNewFolder, Submits
  <2>3. ASSUME ~Awkward(meant)
        PROVE  Effect(SubmitJob(Upload(here, target, name))) = WantPut(FALSE, Names(Uploaded))
    <3>1. target \in Texts /\ Names(target) = Names(base) \o Names(dir)
      BY <1>5, <2>1, <2>3, NamesOfJoined
    <3>2. PICK all : all = Names(target) \o Names(name)
      OBVIOUS
    <3>3. Effect(SubmitJob(Upload(here, target, name)))
            = Want("put", FALSE, Nowhere, [remote |-> here.remote, names |-> all])
      <4>1. target \in Texts /\ here.remote \in Tokens
        BY <1>5, <2>3, <3>1
      <4> QED BY <1>6, <3>2, <4>1, UploadPuts
    <3>4. Names(target) \o <<name>> = Names(base) \o Append(Names(dir), name)
      <4>1. base \in Texts
        BY <1>5, <2>3
      <4>2. (Names(base) \o Names(dir)) \o <<name>> = Names(base) \o Append(Names(dir), name)
        BY <1>6, <4>1, NamesRegroup
      <4> QED BY <3>1, <4>2
    <3>5. all = Names(base) \o Names(Uploaded)
      BY <1>3, <3>2, <3>4
    <3>6. Below([remote |-> here.remote, names |-> Names(base)], Names(Uploaded))
            = [remote |-> here.remote, names |-> all]
      BY <3>5, BelowIs
    <3> QED BY <1>5, <2>3, <3>3, <3>6 DEF WantPut
  <2> QED BY <2>2, <2>3 DEF JobsDoWhatWasAsked, WantPut
<1> QED BY <1>7, <1>8

LEMMA ViewAsAsked ==
  ASSUME NEW item \in Items, ClickItem(item)
  PROVE  JobsDoWhatWasAsked'
<1>1. CASE item.isDir
  BY <1>1 DEF ClickItem, Navigate, Goto, JobsDoWhatWasAsked
<1>2. CASE ~item.isDir
  <2>1. item \in Listing(here)
    BY <1>2 DEF ClickItem, OpenDialog, Clickable
  <2>2. /\ job'.does = Effect(FetchFileContent(here.remote, here.path, item.name))
        /\ job'.wanted = IF BreaksUrl(item.at) THEN Nothing
                         ELSE Want("get", FALSE, item.at, Nowhere)
    <3>1. PICK get : get = Effect(FetchFileContent(here.remote, here.path, item.name))
      OBVIOUS
    <3>2. PICK want : want = Want("get", FALSE, item.at, Nowhere)
      OBVIOUS
    <3>3. job' = [does |-> get, wanted |-> IF BreaksUrl(item.at) THEN Nothing ELSE want,
                  of |-> item.at]
      BY <1>2, <3>1, <3>2 DEF ClickItem
    <3> QED BY <3>1, <3>2, <3>3
  <2> QED BY <2>1, <2>2, GetGets DEF JobsDoWhatWasAsked
<1> QED BY <1>1, <1>2

(* Every job is what the user asked for in the dialog that submitted it:    *)
(* that item, of that remote, to the place he gave, and into the folder he  *)
(* went to; for any depth of folders, and texts typed with blanks and       *)
(* slashes too many or not.  For any names, but in two cases: the viewer    *)
(* fetches files whose path its URL brings through, and what is put into a  *)
(* folder that is reached by a link is put there if the link can lead there *)
(* (BreaksUrl, Awkward).                                                    *)
THEOREM JobsDoWhatWasAskedCorrect == Spec => []JobsDoWhatWasAsked
<1>1. Init => JobsDoWhatWasAsked
  BY DEF Init, JobsDoWhatWasAsked
<1>2. IInv /\ RoutesLead /\ AskedHere /\ JobsDoWhatWasAsked /\ [Next]_vars
        => JobsDoWhatWasAsked'
  <2> SUFFICES ASSUME IInv, RoutesLead, AskedHere, JobsDoWhatWasAsked, [Next]_vars
               PROVE  JobsDoWhatWasAsked'
    OBVIOUS
  <2>1. CASE job' = Nothing \/ UNCHANGED vars
    BY <2>1 DEF vars, JobsDoWhatWasAsked
  <2>2. ASSUME NEW p, NEW h, NEW place, Goto(p, h, place) PROVE JobsDoWhatWasAsked'
    BY <2>1, <2>2 DEF Goto
  <2>3. ASSUME \/ \E code, place : Navigate(code, place) \/ FollowLink(code, place)
               \/ \E p \in {"remotes", "outside"} : Leave(p)
        PROVE  JobsDoWhatWasAsked'
    BY <2>2, <2>3 DEF Navigate, FollowLink, Leave
  <2>4. CASE \/ \E v \in {"list", "table"} : SetListView(v)
             \/ \E field \in SortFields : ClickColumn(field)
             \/ \E kind \in Kinds, item \in Touched :
                  OpenFromTable(kind, item) \/ OpenFromCard(kind, item)
             \/ \E kind \in Kinds : Cancel(kind) \/ Dismiss(kind)
             \/ CloseViewer \/ ClickBesideViewer
             \/ \E kind \in open : PressEscape(kind)
             \/ Reload \/ OpenCreateFolder \/ CancelCreateFolder
    BY <2>1, <2>4 DEF SetListView, ClickColumn, OpenFromTable, OpenFromCard, Cancel, Dismiss,
       CloseViewer, ClickBesideViewer, PressEscape, Reload, OpenCreateFolder,
       CancelCreateFolder
  <2>5. CASE \/ \E remote \in Remotes : PickRemote(remote)
             \/ \E k \in DOMAIN here.path : FollowCrumb(k)
             \/ \E place \in Folders : Revisit(place)
    BY <2>3, <2>5 DEF PickRemote, FollowCrumb, Revisit
  <2>6. ASSUME NEW item \in Items, ClickRow(item) \/ ClickCard(item)
        PROVE  JobsDoWhatWasAsked'
    BY <2>6, ViewAsAsked DEF ClickRow, ClickCard
  <2>7. ASSUME NEW text \in NewNames, ConfirmRename(text) \/ SubmitCreateFolder(text)
        PROVE  JobsDoWhatWasAsked'
    BY <2>7, RenameAsAsked, MkdirAsAsked
  <2>8. ASSUME NEW text \in Typed \cup {here.path}, ConfirmMove(text) \/ ConfirmCopy(text)
        PROVE  JobsDoWhatWasAsked'
    BY <2>8, MoveAsAsked
  <2> QED BY <2>1, <2>3, <2>4, <2>5, <2>6, <2>7, <2>8, DeleteAsAsked, UploadAsAsked DEF Next
<1> QED BY <1>1, <1>2, InvariantHolds, RoutesLeadHolds, AskedHereHolds, PTL DEF Spec
=============================================================================
