------------------------------ MODULE FileViewer ------------------------------
(***************************************************************************)
(* The file viewer of the Web UI and the cache its requests go through:    *)
(* src/apps/web-ui/src/app/content-page/file-viewer, interceptors.         *)
(*                                                                         *)
(* The viewer loads the file of the request on the top of the dialog stack *)
(* (see Dialogs), makes a blob URL of what arrives, and shows it.  A load  *)
(* goes through the interceptors: a 401 ends it without an answer and sends*)
(* the page to the login; a cached answer is given at once; any other goes *)
(* to the server and is cached for Ttl.  Meanwhile jobs replace the files. *)
(*                                                                         *)
(* Time is a number of ticks left of each cached answer's life, and of     *)
(* ticks since the version it holds was replaced.                          *)
(***************************************************************************)
EXTENDS Results, Naturals, FiniteSets, SequencesExt

CONSTANTS
  Files,     \* files the user views
  Other,     \* a request of another dialog
  Ttl,       \* what getTTLForUrl returns, in ticks
  UrlIds,    \* names for blob URLs
  MaxStack   \* bound: requests on the stack

(* An error is not undefined, and there is always another URL.              *)
ASSUME ConstantsAssumption ==
  /\ Other \notin Files /\ None \notin Files \cup UrlIds \cup {"error"}
  /\ \A u \in UrlIds \cup {None} : UrlIds \ {u} # {}
  /\ Ttl \in Nat \ {0} /\ MaxStack \in Nat

VARIABLES
  mounted,   \* the content page is there, and the viewer with it
  away,      \* a 401 has sent the page to the login
  requests,  \* the dialog stack
  open,      \* the viewer's <dialog> is open
  current,   \* currentRequest
  content,   \* FileViewerState.fileContentResult
  details,   \* fileDetailsResult as the template last read it
  url,       \* currentBlobUrl
  live,      \* blob URLs created and not revoked
  loads,     \* loads the viewer waits for
  cache      \* HttpCacheService.cache: answers by their file

page   == <<mounted, away>>
stack  == <<requests, open>>
shown  == <<content, details, url, live>>
viewer == <<current, shown, loads>>
vars   == <<page, stack, viewer, cache>>

Init ==
  /\ mounted = TRUE /\ away = FALSE /\ requests = <<>> /\ open = FALSE
  /\ current = None /\ content = toPending /\ details = toPending
  /\ url = None /\ live = {} /\ loads = {}
  /\ cache = [f \in Files |-> None]

-----------------------------------------------------------------------------
(* What the template reads.  The computed signal runs again when the        *)
(* content has changed, and only then: neither currentRequest nor           *)
(* currentBlobUrl is a signal.  The content of a file is the file itself.   *)

Details(blob, u, request) == [blob |-> blob, blobUrl |-> u, fileName |-> request]
FileDetails == {Details(b, u, f) : b \in Files, u \in UrlIds, f \in Files}

(* Mutant of Revoke: the previous URL is kept.                              *)
RevokeNothing(u, urls) == urls

Revoke(u, urls) == urls \ {u}

(* The content becomes result while request is the current one, u is        *)
(* currentBlobUrl and urls are alive: u is revoked and a new URL made.      *)
(* Without a request, or without success, the content itself is handed on.  *)
SetContent(result, request, u, urls) ==
  /\ content' = result
  /\ IF hasSucceed(result) /\ request # None
     THEN LET new == CHOOSE n \in UrlIds : n \notin urls IN
          /\ url' = new /\ live' = Revoke(u, urls) \cup {new}
          /\ details' = toSuccess(Details(result.data, new, request))
     ELSE details' = result /\ url' = u /\ live' = urls

-----------------------------------------------------------------------------
(* Loads.  since: for how many ticks the version of an answer is replaced,  *)
(* None if it is not.                                                       *)

Load(f) == [file |-> f, st |-> "sent", since |-> None]

(* Mutant of Loading: mergeMap, the last load goes on.                      *)
LoadingMerged(f) == loads \cup {Load(f)}

(* Mutant of Loading: exhaustMap, a load under way goes on instead.         *)
LoadingExhausted(f) == IF loads = {} THEN {Load(f)} ELSE loads

(* switchMap: the last load is given up.                                    *)
Loading(f) == {Load(f)}

(* Mutant of Hit: a hit renews the answer's life.                           *)
HitRenews(f) == [cache EXCEPT ![f].life = Ttl]

(* The cache after an answer was taken from it.                             *)
Hit(f) == cache

(* loadFile: the content is pending, and a cached answer arrives in the     *)
(* same task, before the template reads anything.                           *)
LoadFile(f, u, urls) ==
  IF cache[f] = None
  THEN SetContent(toPending, f, u, urls) /\ loads' = Loading(f) /\ UNCHANGED cache
  ELSE SetContent(toSuccess(f), f, u, urls) /\ loads' = {} /\ cache' = Hit(f)

FileOn(reqs) == IF reqs = <<>> \/ Last(reqs) = Other THEN None ELSE Last(reqs)

(* The viewer is told of the top of the changed stack: a file to show, or   *)
(* that there is none, which does not end a load.                           *)
Follow(reqs, u, urls) ==
  /\ requests' = reqs
  /\ current' = FileOn(reqs)
  /\ open' = (FileOn(reqs) # None)
  /\ IF FileOn(reqs) # None
     THEN LoadFile(FileOn(reqs), u, urls)
     ELSE url' = u /\ live' = urls /\ UNCHANGED <<content, details, loads, cache>>

-----------------------------------------------------------------------------
(* The user.  Requests of other dialogs come and go as well, and what was   *)
(* left on the stack comes to the top again (see Dialogs).                  *)

View(f) ==
  /\ mounted /\ ~open /\ Len(requests) < MaxStack
  /\ Follow(Append(requests, f), url, live)
  /\ UNCHANGED page

OpenOther ==
  /\ mounted /\ ~open /\ Len(requests) < MaxStack
  /\ Follow(Append(requests, Other), url, live)
  /\ UNCHANGED page

CloseOther ==
  /\ mounted /\ requests # <<>> /\ Last(requests) = Other
  /\ Follow(Front(requests), url, live)
  /\ UNCHANGED page

(* closeDialog revokes the URL before anyone hears of the new top.  A click *)
(* beside the viewer is two of these, or one and a CloseOther.              *)
CloseViewer ==
  /\ mounted /\ open
  /\ Follow(Front(requests), None, live \ {url})
  /\ UNCHANGED page

PressEscape ==
  /\ mounted /\ open
  /\ open' = FALSE
  /\ UNCHANGED <<page, requests, viewer, cache>>

(* ngOnDestroy: history, or the way to the login.  The stack and the cache  *)
(* stay.                                                                    *)
Leave ==
  /\ mounted
  /\ mounted' = FALSE /\ away' = FALSE /\ open' = FALSE
  /\ current' = None /\ content' = toPending /\ details' = toPending
  /\ url' = None /\ live' = live \ {url} /\ loads' = {}
  /\ UNCHANGED <<requests, cache>>

(* A new viewer is told of the top as it is.                                *)
Return ==
  /\ ~mounted
  /\ mounted' = TRUE
  /\ Follow(requests, url, live)
  /\ UNCHANGED away

-----------------------------------------------------------------------------
(* The network, the other users of the storage, and time.                   *)

Serve ==
  \E l \in loads :
    /\ l.st = "sent"
    /\ loads' = (loads \ {l}) \cup {[l EXCEPT !.st = "served"]}
    /\ UNCHANGED <<page, stack, current, shown, cache>>

(* An answer is cached, then handed to the viewer.                          *)
Answer ==
  \E l \in loads :
    /\ l.st = "served"
    /\ cache' = [cache EXCEPT ![l.file] = [life |-> Ttl, since |-> l.since]]
    /\ loads' = loads \ {l}
    /\ SetContent(toSuccess(l.file), current, url, live)
    /\ UNCHANGED <<page, stack, current>>

(* Any other error is the load's result.                                    *)
Fail ==
  \E l \in loads :
    /\ loads' = loads \ {l}
    /\ SetContent(toFailure("error"), current, url, live)
    /\ UNCHANGED <<page, stack, current, cache>>

(* Mutant of Refuse: nobody leads the page to the login.                    *)
RefuseStays ==
  \E l \in loads :
    /\ l.st = "sent"
    /\ loads' = loads \ {l}
    /\ UNCHANGED <<page, stack, current, shown, cache>>

(* A 401 ends the load without a result.                                    *)
Refuse ==
  \E l \in loads :
    /\ l.st = "sent"
    /\ loads' = loads \ {l}
    /\ away' = TRUE
    /\ UNCHANGED <<mounted, stack, current, shown, cache>>

(* A job replaces a file.                                                   *)
Outdated(answer) == [answer EXCEPT !.since = IF @ = None THEN 0 ELSE @]
Replace(f) ==
  /\ cache' = [cache EXCEPT ![f] = IF @ = None THEN None ELSE Outdated(@)]
  /\ loads' = {IF l.file = f /\ l.st = "served" THEN Outdated(l) ELSE l : l \in loads}
  /\ UNCHANGED <<page, stack, current, shown>>

(* Time passes, and answers whose life is over are forgotten.  An answer is *)
(* on its way for less than a tick.                                         *)
Tick ==
  /\ \A l \in loads : l.st = "sent"
  /\ cache' = [f \in Files |->
                IF cache[f] = None \/ cache[f].life = 1 THEN None
                ELSE [life  |-> cache[f].life - 1,
                      since |-> IF cache[f].since = None THEN None
                                ELSE IF cache[f].since = Ttl THEN Ttl
                                ELSE cache[f].since + 1]]
  /\ UNCHANGED <<page, stack, viewer>>

Next ==
  \/ \E f \in Files : View(f) \/ Replace(f)
  \/ OpenOther \/ CloseOther \/ CloseViewer \/ PressEscape
  \/ Leave \/ Return
  \/ Serve \/ Answer \/ Fail \/ Refuse
  \/ Tick

Spec == Init /\ [][Next]_vars

(* Requests are answered or fail, and the router arrives at the login.      *)
FairSpec == /\ Spec
            /\ WF_vars(Serve) /\ WF_vars(Answer)
            /\ WF_vars(away /\ Leave)

-----------------------------------------------------------------------------
(* The variables have their types; the viewer waits for one load at most.   *)
TypeOK ==
  /\ mounted \in BOOLEAN /\ away \in BOOLEAN /\ open \in BOOLEAN
  /\ requests \in Seq(Files \cup {Other}) /\ Len(requests) <= MaxStack
  /\ current \in Files \cup {None}
  /\ content \in {toPending, toFailure("error")} \cup {toSuccess(f) : f \in Files}
  /\ url \in UrlIds \cup {None} /\ live \subseteq UrlIds
  /\ Cardinality(loads) <= 1
  /\ loads \subseteq [file : Files, st : {"sent", "served"}, since : {None} \cup 0..Ttl]
  /\ cache \in [Files -> {None} \cup [life : 1..Ttl, since : {None} \cup 0..Ttl]]

(* What an open viewer shows as loaded is the file of the request on the    *)
(* top, under its name and with a URL that still leads to it, whichever     *)
(* loads were under way when it was asked for.                              *)
ShowsTheFile ==
  open /\ hasSucceed(details) =>
    /\ current = FileOn(requests)
    /\ details.data \in FileDetails
    /\ details.data.blob = current /\ details.data.fileName = current
    /\ details.data.blobUrl \in live

(* At most the URL the viewer knows of is alive: every other blob's memory  *)
(* has been given back.                                                     *)
NoUrlLeaks == live \subseteq {url}

(* A cached answer holds a version that was replaced less than Ttl ago, or  *)
(* the present one: jobs do not clear the cache, only its life does.        *)
StaleForLessThanTtl ==
  \A f \in Files : cache[f] # None /\ cache[f].since # None => cache[f].since < Ttl

(* An open viewer does not show its spinner forever: the load has a result, *)
(* or the viewer is closed, or the page is left for the login.              *)
LoadEnds == (open /\ isPending(details)) ~> ~(open /\ isPending(details))
=============================================================================
