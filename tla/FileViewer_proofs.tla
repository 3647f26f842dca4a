--------------------------- MODULE FileViewer_proofs ---------------------------
(***************************************************************************)
(* The file viewer of FileViewer for any files, any stack of requests and  *)
(* any life of a cached answer.                                            *)
(***************************************************************************)
EXTENDS FileViewer, FiniteSetTheorems, TLAPS

Loads  == [file : Files, st : {"sent", "served"}, since : {None} \cup 0..Ttl]
Cached == [life : 1..Ttl, since : {None} \cup 0..Ttl]
Contents == {toPending, toFailure("error")} \cup {toSuccess(f) : f \in Files}
Stacks == {reqs \in Seq(Files \cup {Other}) : Len(reqs) <= MaxStack}

(* TypeOK, its bound on the loads without their number.                     *)
Types ==
  /\ mounted \in BOOLEAN /\ away \in BOOLEAN /\ open \in BOOLEAN
  /\ requests \in Stacks
  /\ current \in Files \cup {None} /\ content \in Contents
  /\ url \in UrlIds \cup {None} /\ live \subseteq UrlIds
  /\ loads \subseteq Loads /\ \A l, m \in loads : l = m
  /\ cache \in [Files -> {None} \cup Cached]

(* The viewer has heard of the top of the stack, and an open one shows it.  *)
FollowsTheTop ==
  /\ mounted => current = FileOn(requests)
  /\ ~mounted => current = None
  /\ open => mounted /\ current # None

(* While a file is asked for, the load under way is that file's; one that   *)
(* was begun for another has been given up.                                 *)
LoadsTheCurrent ==
  current # None => \A l \in loads : l.file = current

(* What the template has been given for the current file.                   *)
DetailsOfCurrent ==
  current # None /\ hasSucceed(details) =>
    details.data = Details(current, url, current) /\ url \in live

(* An answer on its way is out of date for less than a tick, and the life   *)
(* of a cached one and the time it is out of date add up to Ttl at most.    *)
StaleWithinLife ==
  /\ \A l \in loads : l.since \in {None, 0}
  /\ \A f \in Files : cache[f] # None /\ cache[f].since # None =>
                      cache[f].since + cache[f].life <= Ttl

IInv ==
  /\ Types /\ FollowsTheTop /\ LoadsTheCurrent /\ DetailsOfCurrent
  /\ NoUrlLeaks /\ StaleWithinLife

-----------------------------------------------------------------------------
(* The three results can be told apart.                                     *)
LEMMA ContentFacts ==
  /\ toPending \in Contents /\ ~hasSucceed(toPending)
  /\ toFailure("error") \in Contents /\ ~hasSucceed(toFailure("error"))
  /\ \A f \in Files : toSuccess(f) \in Contents /\ toSuccess(f).data = f
  /\ \A d : hasSucceed(toSuccess(d)) /\ toSuccess(d).data = d
BY ConstantsAssumption DEF Contents, toPending, toFailure, toSuccess, hasSucceed

(* The template gets details of the request, and the only URL that is alive *)
(* is the one the viewer knows of.                                          *)
LEMMA SetContentEffect ==
  ASSUME NEW res \in Contents, NEW request \in Files \cup {None},
         NEW u \in UrlIds \cup {None}, NEW urls \in SUBSET UrlIds, urls \subseteq {u},
         request # None /\ hasSucceed(res) => res.data = request,
         SetContent(res, request, u, urls)
  PROVE  /\ content' \in Contents /\ url' \in UrlIds \cup {None}
         /\ live' \subseteq UrlIds /\ live' \subseteq {url'}
         /\ request # None /\ hasSucceed(details') =>
              details'.data = Details(request, url', request) /\ url' \in live'
<1>1. CASE hasSucceed(res) /\ request # None
  <2> DEFINE new == CHOOSE n \in UrlIds : n \notin urls
  <2>1. new \in UrlIds
    <3>1. \E n \in UrlIds : n \notin urls
      BY ConstantsAssumption
    <3> QED BY <3>1
  <2>2. url' = new /\ live' = Revoke(u, urls) \cup {new} /\ content' = res
          /\ details' = toSuccess(Details(res.data, new, request))
    BY <1>1 DEF SetContent
  <2> HIDE DEF new
  <2> QED BY <1>1, <2>1, <2>2, ContentFacts DEF Revoke
<1>2. CASE ~(hasSucceed(res) /\ request # None)
  BY <1>2 DEF SetContent
<1> QED BY <1>1, <1>2

LEMMA InitHolds == Init => IInv
<1> SUFFICES ASSUME Init PROVE IInv
  OBVIOUS
<1>1. Types
  <2>1. <<>> \in Stacks
    BY ConstantsAssumption DEF Stacks
  <2> QED BY <2>1, ContentFacts DEF Init, Types
<1>2. FollowsTheTop /\ LoadsTheCurrent /\ DetailsOfCurrent
  BY DEF Init, FollowsTheTop, LoadsTheCurrent, DetailsOfCurrent, FileOn
<1>3. NoUrlLeaks /\ StaleWithinLife
  BY DEF Init, NoUrlLeaks, StaleWithinLife
<1> QED BY <1>1, <1>2, <1>3 DEF IInv

-----------------------------------------------------------------------------
(* The top of the stack is a file or no file.                               *)
LEMMA TopIsAFile ==
  ASSUME NEW reqs \in Stacks PROVE FileOn(reqs) \in Files \cup {None}
<1>1. reqs # <<>> => reqs[Len(reqs)] \in Files \cup {Other}
  BY DEF Stacks
<1> QED BY <1>1 DEF FileOn, Last

(* Another file is asked for.                                               *)
LEMMA LoadFileEffect ==
  ASSUME IInv, NEW f \in Files, NEW u \in UrlIds \cup {None}, NEW urls \in SUBSET UrlIds,
         urls \subseteq {u}, LoadFile(f, u, urls)
  PROVE  /\ content' \in Contents /\ url' \in UrlIds \cup {None}
         /\ live' \subseteq UrlIds /\ live' \subseteq {url'}
         /\ hasSucceed(details') => details'.data = Details(f, url', f) /\ url' \in live'
         /\ cache' = cache /\ loads' \in {{}, {Load(f)}}
<1>1. f # None
  BY ConstantsAssumption
<1>2. CASE cache[f] = None
  BY <1>1, <1>2, ContentFacts, SetContentEffect DEF LoadFile, Loading
<1>3. CASE cache[f] # None
  BY <1>1, <1>3, ContentFacts, SetContentEffect DEF LoadFile, Hit
<1> QED BY <1>2, <1>3

(* The viewer follows a change of the stack.                                *)
LEMMA FollowHolds ==
  ASSUME IInv, NEW reqs \in Stacks, NEW u \in UrlIds \cup {None}, NEW urls \in SUBSET UrlIds,
         urls \subseteq {u}, Follow(reqs, u, urls), mounted' = TRUE, away' \in BOOLEAN
  PROVE  IInv'
<1>1. /\ requests' = reqs /\ current' = FileOn(reqs) /\ open' = (FileOn(reqs) # None)
      /\ FileOn(reqs) \in Files \cup {None}
  BY TopIsAFile DEF Follow
<1>2. FollowsTheTop'
  BY <1>1 DEF FollowsTheTop, FileOn
<1>3. CASE FileOn(reqs) = None
  <2>1. url' = u /\ live' = urls /\ UNCHANGED <<content, details, loads, cache>>
    BY <1>3 DEF Follow
  <2>2. Types'
    BY <1>1, <2>1 DEF IInv, Types
  <2>3. LoadsTheCurrent' /\ DetailsOfCurrent' /\ NoUrlLeaks' /\ StaleWithinLife'
    BY <1>1, <1>3, <2>1
       DEF IInv, LoadsTheCurrent, DetailsOfCurrent, NoUrlLeaks, StaleWithinLife
  <2> QED BY <1>2, <2>2, <2>3 DEF IInv
<1>4. CASE FileOn(reqs) # None
  <2> DEFINE f == FileOn(reqs)
  <2>1. /\ f \in Files /\ current' = f
        /\ content' \in Contents /\ url' \in UrlIds \cup {None}
        /\ live' \subseteq UrlIds /\ live' \subseteq {url'}
        /\ hasSucceed(details') => details'.data = Details(f, url', f) /\ url' \in live'
        /\ cache' = cache /\ loads' \in {{}, {Load(f)}}
    BY <1>1, <1>4, LoadFileEffect DEF Follow
  <2>2. Load(f) \in Loads /\ Load(f).file = f /\ Load(f).since = None
    BY <2>1 DEF Load, Loads
  <2> HIDE DEF f
  <2>3. Types'
    BY <1>1, <2>1, <2>2 DEF IInv, Types
  <2>4. LoadsTheCurrent' /\ DetailsOfCurrent' /\ NoUrlLeaks' /\ StaleWithinLife'
    BY <2>1, <2>2 DEF IInv, LoadsTheCurrent, DetailsOfCurrent, NoUrlLeaks, StaleWithinLife
  <2> QED BY <1>2, <2>3, <2>4 DEF IInv
<1> QED BY <1>3, <1>4

(* The user opens and closes dialogs, and comes back to the page.           *)
LEMMA StackHolds ==
  ASSUME IInv,
         \/ \E f \in Files : View(f)
         \/ OpenOther \/ CloseOther \/ CloseViewer \/ Return
  PROVE  IInv'
<1>1. requests \in Stacks /\ live \subseteq {url} /\ live \subseteq UrlIds /\ away \in BOOLEAN
        /\ url \in UrlIds \cup {None}
  BY DEF IInv, Types, NoUrlLeaks
<1>2. ASSUME NEW x \in Files \cup {Other}, Len(requests) < MaxStack
      PROVE  Append(requests, x) \in Stacks
  BY <1>1, <1>2, ConstantsAssumption DEF Stacks
<1>3. ASSUME requests # <<>> PROVE Front(requests) \in Stacks
  BY <1>1, <1>3, ConstantsAssumption DEF Stacks, Front
<1>4. ASSUME NEW f \in Files, View(f) PROVE IInv'
  BY <1>1, <1>2, <1>4, FollowHolds DEF View, page
<1>5. CASE OpenOther
  BY <1>1, <1>2, <1>5, FollowHolds DEF OpenOther, page
<1>6. CASE CloseOther
  BY <1>1, <1>3, <1>6, FollowHolds DEF CloseOther, page
<1>7. CASE CloseViewer
  <2>1. requests # <<>>
    BY <1>7 DEF CloseViewer, IInv, FollowsTheTop, FileOn
  <2>2. live \ {url} = {}
    BY <1>1
  <2> QED BY <1>1, <1>3, <1>7, <2>1, <2>2, FollowHolds DEF CloseViewer, page
<1>8. CASE Return
  BY <1>1, <1>8, FollowHolds DEF Return
<1> QED BY <1>4, <1>5, <1>6, <1>7, <1>8

LEMMA LeaveHolds ==
  ASSUME IInv, Leave PROVE IInv'
<1>1. Types'
  BY ContentFacts DEF Leave, IInv, Types
<1>2. FollowsTheTop' /\ LoadsTheCurrent' /\ DetailsOfCurrent' /\ NoUrlLeaks'
  BY DEF Leave, IInv, FollowsTheTop, LoadsTheCurrent, DetailsOfCurrent, NoUrlLeaks
<1>3. StaleWithinLife'
  BY DEF Leave, IInv, StaleWithinLife
<1> QED BY <1>1, <1>2, <1>3 DEF IInv

LEMMA PressEscapeHolds ==
  ASSUME IInv, PressEscape PROVE IInv'
BY DEF PressEscape, page, viewer, shown, IInv, Types, FollowsTheTop, LoadsTheCurrent,
       DetailsOfCurrent, NoUrlLeaks, StaleWithinLife

-----------------------------------------------------------------------------
(* A load gets a result: the current file's, or nobody's.                   *)
LEMMA ResultHolds ==
  ASSUME IInv, NEW l \in loads, NEW res \in Contents, res = toSuccess(l.file) \/ ~hasSucceed(res),
         loads' = loads \ {l}, SetContent(res, current, url, live),
         cache' \in [Files -> {None} \cup Cached], UNCHANGED <<page, stack, current>>,
         \A f \in Files : cache'[f] # None /\ cache'[f].since # None =>
                           cache'[f].since + cache'[f].life <= Ttl
  PROVE  IInv'
<1>1. current # None /\ hasSucceed(res) => res.data = current
  BY ContentFacts DEF IInv, LoadsTheCurrent
<1>2. /\ current \in Files \cup {None} /\ url \in UrlIds \cup {None}
      /\ live \subseteq UrlIds /\ live \subseteq {url}
  BY DEF IInv, Types, NoUrlLeaks
<1>3. /\ content' \in Contents /\ url' \in UrlIds \cup {None}
      /\ live' \subseteq UrlIds /\ live' \subseteq {url'}
      /\ current # None /\ hasSucceed(details') =>
           details'.data = Details(current, url', current) /\ url' \in live'
  BY <1>1, <1>2, SetContentEffect
<1>4. Types'
  BY <1>3 DEF page, stack, IInv, Types
<1>5. FollowsTheTop' /\ LoadsTheCurrent' /\ DetailsOfCurrent' /\ NoUrlLeaks'
  BY <1>3 DEF page, stack, IInv, FollowsTheTop, LoadsTheCurrent, DetailsOfCurrent, NoUrlLeaks
<1>6. StaleWithinLife'
  BY DEF IInv, StaleWithinLife
<1> QED BY <1>4, <1>5, <1>6 DEF IInv

LEMMA AnswerHolds ==
  ASSUME IInv, Answer PROVE IInv'
<1>1. PICK l \in loads :
        /\ cache' = [cache EXCEPT ![l.file] = [life |-> Ttl, since |-> l.since]]
        /\ loads' = loads \ {l}
        /\ SetContent(toSuccess(l.file), current, url, live)
        /\ UNCHANGED <<page, stack, current>>
  BY DEF Answer
<1>2. l.file \in Files /\ l.since \in {None} \cup 0..Ttl /\ l.since \in {None, 0}
  BY DEF IInv, Types, Loads, StaleWithinLife
<1>3. [life |-> Ttl, since |-> l.since] \in Cached
  BY <1>2, ConstantsAssumption DEF Cached
<1>4. cache' \in [Files -> {None} \cup Cached]
  BY <1>1, <1>2, <1>3 DEF IInv, Types
<1>5. \A f \in Files : cache'[f] # None /\ cache'[f].since # None =>
                        cache'[f].since + cache'[f].life <= Ttl
  BY <1>1, <1>2, ConstantsAssumption DEF IInv, Types, StaleWithinLife
<1> QED BY <1>1, <1>2, <1>4, <1>5, ContentFacts, ResultHolds

LEMMA FailHolds ==
  ASSUME IInv, Fail PROVE IInv'
<1>1. PICK l \in loads :
        /\ loads' = loads \ {l}
        /\ SetContent(toFailure("error"), current, url, live)
        /\ UNCHANGED <<page, stack, current, cache>>
  BY DEF Fail
<1>2. /\ cache' \in [Files -> {None} \cup Cached]
      /\ \A f \in Files : cache'[f] # None /\ cache'[f].since # None =>
                           cache'[f].since + cache'[f].life <= Ttl
  BY <1>1 DEF IInv, Types, StaleWithinLife
<1> QED BY <1>1, <1>2, ContentFacts, ResultHolds

(* What leaves the viewer and its stack alone.                              *)
LEMMA BehindTheViewer ==
  ASSUME IInv, UNCHANGED <<mounted, stack, current, shown>>, away' \in BOOLEAN,
         loads' \subseteq Loads, \A l, m \in loads' : l = m,
         \A m \in loads' : m.since \in {None, 0} /\ \E l \in loads : m.file = l.file,
         cache' \in [Files -> {None} \cup Cached],
         \A f \in Files : cache'[f] # None /\ cache'[f].since # None =>
                           cache'[f].since + cache'[f].life <= Ttl
  PROVE  IInv'
<1>1. Types'
  BY DEF stack, shown, IInv, Types
<1>2. FollowsTheTop' /\ LoadsTheCurrent' /\ DetailsOfCurrent' /\ NoUrlLeaks'
  BY DEF stack, shown, IInv, FollowsTheTop, LoadsTheCurrent, DetailsOfCurrent, NoUrlLeaks
<1>3. StaleWithinLife'
  BY DEF IInv, StaleWithinLife
<1> QED BY <1>1, <1>2, <1>3 DEF IInv

LEMMA ServeHolds ==
  ASSUME IInv, Serve PROVE IInv'
<1>1. PICK l \in loads :
        /\ loads' = (loads \ {l}) \cup {[l EXCEPT !.st = "served"]}
        /\ UNCHANGED <<page, stack, current, shown, cache>>
  BY DEF Serve
<1>2. l \in Loads /\ loads = {l} /\ away \in BOOLEAN
  BY DEF IInv, Types
<1>3. /\ [l EXCEPT !.st = "served"] \in Loads
      /\ [l EXCEPT !.st = "served"].file = l.file /\ [l EXCEPT !.st = "served"].since = l.since
  BY <1>2 DEF Loads
<1>4. loads' = {[l EXCEPT !.st = "served"]}
  BY <1>1, <1>2
<1>5. /\ l.since \in {None, 0} /\ cache' \in [Files -> {None} \cup Cached]
      /\ \A f \in Files : cache'[f] # None /\ cache'[f].since # None =>
                           cache'[f].since + cache'[f].life <= Ttl
  BY <1>1 DEF IInv, Types, StaleWithinLife
<1> QED BY <1>1, <1>2, <1>3, <1>4, <1>5, BehindTheViewer DEF page

LEMMA RefuseHolds ==
  ASSUME IInv, Refuse PROVE IInv'
<1>1. loads' \subseteq loads /\ away' = TRUE /\ UNCHANGED <<mounted, stack, current, shown, cache>>
  BY DEF Refuse
<1>2. /\ loads \subseteq Loads /\ \A l, m \in loads : l = m
      /\ \A l \in loads : l.since \in {None, 0}
      /\ cache \in [Files -> {None} \cup Cached]
      /\ \A f \in Files : cache[f] # None /\ cache[f].since # None =>
                           cache[f].since + cache[f].life <= Ttl
  BY DEF IInv, Types, StaleWithinLife
<1> QED BY <1>1, <1>2, BehindTheViewer

(* A replaced version is out of date from now on.                           *)
LEMMA ReplaceHolds ==
  ASSUME IInv, NEW f \in Files, Replace(f) PROVE IInv'
<1> DEFINE Marked(l) == IF l.file = f /\ l.st = "served" THEN Outdated(l) ELSE l
<1>1. /\ loads' = {Marked(l) : l \in loads} /\ UNCHANGED <<page, stack, current, shown>>
      /\ cache' = [cache EXCEPT ![f] = IF cache[f] = None THEN None ELSE Outdated(cache[f])]
  BY DEF Replace
<1>2. ASSUME NEW l \in loads
      PROVE  /\ Marked(l) \in Loads /\ Marked(l).file = l.file
             /\ Marked(l).since \in {None, 0}
  <2>1. l \in Loads /\ l.since \in {None, 0} /\ 0 \in 0..Ttl
    BY ConstantsAssumption DEF IInv, Types, StaleWithinLife
  <2> QED BY <2>1 DEF Loads, Outdated
<1>3. \A l, m \in loads' : l = m
  BY <1>1 DEF IInv, Types
<1>4. ASSUME cache[f] # None
      PROVE  /\ Outdated(cache[f]) \in Cached
             /\ Outdated(cache[f]).since + Outdated(cache[f]).life <= Ttl
  <2> DEFINE since == IF cache[f].since = None THEN 0 ELSE cache[f].since
  <2>1. cache[f] \in Cached
    BY <1>4 DEF IInv, Types
  <2>2. cache[f].life \in 1..Ttl /\ cache[f].since \in {None} \cup 0..Ttl
    BY <2>1 DEF Cached
  <2>3. since \in 0..Ttl /\ since + cache[f].life <= Ttl
    BY <1>4, <2>2, ConstantsAssumption DEF IInv, StaleWithinLife
  <2>4. Outdated(cache[f]) = [life |-> cache[f].life, since |-> since]
    BY <2>1 DEF Outdated, Cached
  <2> HIDE DEF since
  <2> QED BY <2>2, <2>3, <2>4 DEF Cached
<1>5. cache' \in [Files -> {None} \cup Cached]
  BY <1>1, <1>4 DEF IInv, Types
<1>6. \A g \in Files : cache'[g] # None /\ cache'[g].since # None =>
                        cache'[g].since + cache'[g].life <= Ttl
  BY <1>1, <1>4 DEF IInv, Types, StaleWithinLife
<1>7. loads' \subseteq Loads /\ away' \in BOOLEAN
  BY <1>1, <1>2 DEF page, IInv, Types
<1>8. \A m \in loads' : m.since \in {None, 0} /\ \E l \in loads : m.file = l.file
  BY <1>1, <1>2
<1> QED BY <1>1, <1>3, <1>5, <1>6, <1>7, <1>8, BehindTheViewer DEF page

(* A tick takes from the life what it adds to the time out of date.         *)
LEMMA TickHolds ==
  ASSUME IInv, Tick PROVE IInv'
<1>1. UNCHANGED <<page, stack, viewer>>
  BY DEF Tick
<1>2. ASSUME NEW f \in Files
      PROVE  /\ cache'[f] \in {None} \cup Cached
             /\ cache'[f] # None /\ cache'[f].since # None =>
                  cache'[f].since + cache'[f].life <= Ttl
  <2>1. CASE cache[f] = None \/ cache[f].life = 1
    BY <2>1 DEF Tick
  <2>2. CASE cache[f] # None /\ cache[f].life # 1
    <3> DEFINE since == IF cache[f].since = None THEN None
                        ELSE IF cache[f].since = Ttl THEN Ttl ELSE cache[f].since + 1
    <3>1. cache'[f] = [life |-> cache[f].life - 1, since |-> since]
      BY <2>2 DEF Tick
    <3>2. cache[f].life \in 1..Ttl /\ cache[f].since \in {None} \cup 0..Ttl
      BY <2>2 DEF IInv, Types, Cached
    <3>3. cache[f].since # None => cache[f].since + cache[f].life <= Ttl
      BY <2>2 DEF IInv, StaleWithinLife
    <3>4. /\ cache[f].life - 1 \in 1..Ttl /\ since \in {None} \cup 0..Ttl
          /\ since # None => since + (cache[f].life - 1) <= Ttl
      BY <2>2, <3>2, <3>3, ConstantsAssumption
    <3> HIDE DEF since
    <3> QED BY <3>1, <3>4 DEF Cached
  <2> QED BY <2>1, <2>2
<1>3. cache' \in [Files -> {None} \cup Cached]
  <2>1. cache' = [f \in Files |-> cache'[f]]
    BY DEF Tick
  <2> QED BY <1>2, <2>1
<1>4. /\ loads \subseteq Loads /\ \A l, m \in loads : l = m
      /\ \A l \in loads : l.since \in {None, 0}
      /\ away \in BOOLEAN
  BY DEF IInv, Types, StaleWithinLife
<1> QED BY <1>1, <1>2, <1>3, <1>4, BehindTheViewer DEF page, viewer

-----------------------------------------------------------------------------
(* Every step keeps the invariant.                                          *)
LEMMA NextHolds == IInv /\ [Next]_vars => IInv'
<1> SUFFICES ASSUME IInv, [Next]_vars PROVE IInv'
  OBVIOUS
<1>1. CASE Next
  BY <1>1, StackHolds, ReplaceHolds, PressEscapeHolds, LeaveHolds, ServeHolds, AnswerHolds,
     FailHolds, RefuseHolds, TickHolds DEF Next
<1>2. CASE UNCHANGED vars
  BY <1>2 DEF vars, page, stack, viewer, shown, IInv, Types, FollowsTheTop, LoadsTheCurrent,
              DetailsOfCurrent, NoUrlLeaks, StaleWithinLife
<1> QED BY <1>1, <1>2

LEMMA InvariantHolds == Spec => []IInv
BY InitHolds, NextHolds, PTL DEF Spec

-----------------------------------------------------------------------------
(* The variables have their types, and there is one load at most.           *)
THEOREM ViewerTypeCorrect == Spec => []TypeOK
<1>1. ASSUME IInv PROVE Cardinality(loads) <= 1
  <2>1. CASE loads = {}
    BY <2>1, FS_EmptySet
  <2>2. ASSUME NEW l \in loads PROVE Cardinality(loads) <= 1
    <3>1. loads = {l}
      BY <1>1 DEF IInv, Types
    <3>2. Cardinality({l}) = 1
      BY FS_Singleton
    <3> QED BY <3>1, <3>2
  <2> QED BY <2>1, <2>2
<1>2. IInv => TypeOK
  BY <1>1 DEF IInv, Types, TypeOK, Stacks, Contents, Loads, Cached
<1> QED BY <1>2, InvariantHolds, PTL

(* An open viewer shows the file of the request on the top, under its name  *)
(* and with a URL that is alive.                                            *)
THEOREM ShowsTheFileCorrect == Spec => []ShowsTheFile
<1>1. ASSUME IInv, open, hasSucceed(details)
      PROVE  /\ current = FileOn(requests) /\ current \in Files
             /\ details.data = Details(current, url, current)
             /\ url \in live /\ url \in UrlIds
  BY <1>1 DEF IInv, Types, FollowsTheTop, DetailsOfCurrent
<1>2. ASSUME NEW f \in Files, NEW u \in UrlIds
      PROVE  /\ Details(f, u, f) \in FileDetails
             /\ Details(f, u, f).blob = f /\ Details(f, u, f).fileName = f
             /\ Details(f, u, f).blobUrl = u
  BY DEF Details, FileDetails
<1>3. IInv => ShowsTheFile
  BY <1>1, <1>2 DEF ShowsTheFile
<1> QED BY <1>3, InvariantHolds, PTL

(* Every blob but the one that is shown has been given back.                *)
THEOREM NoUrlLeaksCorrect == Spec => []NoUrlLeaks
<1>1. IInv => NoUrlLeaks
  BY DEF IInv
<1> QED BY <1>1, InvariantHolds, PTL

(* A cached answer has been out of date for less than its life.             *)
THEOREM StaleForLessThanTtlCorrect == Spec => []StaleForLessThanTtl
<1>1. ASSUME IInv, NEW f \in Files, cache[f] # None, cache[f].since # None
      PROVE  cache[f].since < Ttl
  <2>1. cache[f].life \in 1..Ttl /\ cache[f].since \in 0..Ttl
    BY <1>1 DEF IInv, Types, Cached
  <2>2. cache[f].since + cache[f].life <= Ttl
    BY <1>1 DEF IInv, StaleWithinLife
  <2> QED BY <2>1, <2>2, ConstantsAssumption
<1>2. IInv => StaleForLessThanTtl
  BY <1>1 DEF StaleForLessThanTtl
<1> QED BY <1>2, InvariantHolds, PTL
=============================================================================
