------------------------------ MODULE Jobs_proofs ------------------------------
(***************************************************************************)
(* The jobs of Jobs for any set of requests, uploads and folders, any      *)
(* number of job ids and any number of restarts.                           *)
(***************************************************************************)
EXTENDS Jobs, TLAPS

Polls(r) == poll[r].st # "off"
KeyOf(r) == JobKey(id[r])

(* A submission that was answered has an id; one that is polled for is over *)
(* and its entry is somebody's.                                             *)
Submitted ==
  \A r \in Requests :
    /\ r \notin Uploads /\ sub[r] = "served" => id[r] \in Ids
    /\ Polls(r) => /\ r \notin Uploads /\ sub[r] = "over"
                   /\ id[r] \in Ids /\ req[KeyOf(r)] \in Requests

(* An upload has an entry of its own as long as its request is under way.   *)
UploadEntries ==
  \A r \in Uploads :
    /\ sub[r] = "new" => result[UploadKey(r)] = "none"
    /\ sub[r] \in {"sent", "served"} =>
         result[UploadKey(r)] = "pending" /\ req[UploadKey(r)] = r
    /\ sub[r] = "served" => r \in done

FailEntries == \A m \in Instants : result[FailKey(m)] \in {"none", "failure"}

(* What the server or an answer of it calls a success has taken effect.     *)
Reported ==
  /\ \A i \in Ids : job[i].st = "success" => job[i].of \in done \cup {Nothing}
  /\ \A r \in Requests : poll[r].ans = "success" => poll[r].of \in done \cup {Nothing}

(* Before the first restart an id is one request's: no other request has    *)
(* it, and neither the job, nor the entry, nor an answer is another's.      *)
IdsOnce ==
  restarts = 0 =>
    /\ \A r \in Requests :
         /\ id[r] <= nextId
         /\ id[r] \in Ids /\ job[id[r]].st # "none" => job[id[r]].of = r
         /\ Polls(r) => req[KeyOf(r)] = r
         /\ Polls(r) /\ poll[r].ans = "success" => poll[r].of = r
    /\ \A r, q \in Requests : id[r] \in Ids /\ id[q] = id[r] => q = r
    /\ \A i \in Ids : result[JobKey(i)] # "none" =>
         \E r \in Requests \ Uploads : id[r] = i /\ sub[r] = "over"

(* The entry of a polling is pending until the polling ends, unless it is   *)
(* another's or another had a part in it.                                   *)
PolledIsPending ==
  \A r \in Requests :
    Polls(r) /\ req[KeyOf(r)] = r => result[KeyOf(r)] = "pending" \/ r \in mixed

(* An open view remembers everything that is pending.                       *)
ViewFollows ==
  /\ folder = Nothing => list.st = "none"
  /\ folder # Nothing => PendingIn(result) \subseteq tracked

(* A listing has every success from the moment the server has read it.      *)
ServedShowsSuccesses ==
  list.st \in {"served", "shown"} =>
    \A k \in Keys : result[k] = "success" => req[k] \in list.shown \cup mixed

IInv ==
  /\ TypeOK /\ Submitted /\ UploadEntries /\ FailEntries
  /\ Reported /\ IdsOnce /\ PolledIsPending /\ ViewFollows
  /\ ServedShowsSuccesses /\ SuccessIsReal /\ PendingIsWatched

-----------------------------------------------------------------------------
(* Keys of different kinds, and of different ids, uploads and instants,     *)
(* differ.                                                                  *)
LEMMA KeysDiffer ==
  /\ \A i \in Ids : JobKey(i) \in Keys
  /\ \A r \in Uploads : UploadKey(r) \in Keys
  /\ \A m \in Instants : FailKey(m) \in Keys
  /\ \A i, j : JobKey(i) = JobKey(j) => i = j
  /\ \A r, q : UploadKey(r) = UploadKey(q) => r = q
  /\ \A i, r, m : JobKey(i) # UploadKey(r) /\ JobKey(i) # FailKey(m)
                                           /\ UploadKey(r) # FailKey(m)
BY DEF Keys, JobKey, UploadKey, FailKey

Lists == [st : {"none", "sent", "served", "shown", "failed", "stuck"}, shown : SUBSET Requests]

(* What a change of the store does, and that an open view hears of it: the  *)
(* success of what was pending asks for the listing again.                  *)
LEMMA SetEffect ==
  ASSUME TypeOK, ViewFollows,
         NEW k \in Keys, NEW r \in Owners, NEW v \in Results, Set(k, r, v)
  PROVE  /\ req' \in [Keys -> Owners] /\ result' \in [Keys -> Results]
         /\ tracked' \subseteq Keys /\ list' \in Lists /\ folder' = folder
         /\ req'[k] = r /\ result'[k] = v
         /\ \A j \in Keys \ {k} : req'[j] = req[j] /\ result'[j] = result[j]
         /\ list' \in {list, Asked}
         /\ v = "success" /\ result[k] = "pending" /\ folder # Nothing => list' = Asked
         /\ ViewFollows'
<1>1. /\ req' \in [Keys -> Owners] /\ result' \in [Keys -> Results]
      /\ req'[k] = r /\ result'[k] = v
      /\ \A j \in Keys \ {k} : req'[j] = req[j] /\ result'[j] = result[j]
      /\ Follow(result')
  BY DEF Set, TypeOK
<1>2. CASE folder = Nothing
  BY <1>1, <1>2 DEF Follow, view, ViewFollows, TypeOK, Lists
<1>3. CASE folder # Nothing
  <2> DEFINE news == {j \in tracked : result'[j] = "success"}
  <2>1. /\ folder' = folder /\ tracked' = (tracked \cup PendingIn(result')) \ news
        /\ list' = IF news # {} THEN Asked ELSE list
    BY <1>1, <1>3 DEF Follow
  <2>2. tracked' \subseteq Keys /\ list' \in Lists /\ list' \in {list, Asked}
    BY <2>1 DEF PendingIn, TypeOK, Lists, Asked
  <2>3. ASSUME v = "success", result[k] = "pending" PROVE list' = Asked
    BY <1>1, <1>3, <2>1, <2>3 DEF ViewFollows, PendingIn
  <2>4. ViewFollows'
    BY <1>3, <2>1 DEF ViewFollows, PendingIn
  <2> QED BY <1>1, <2>1, <2>2, <2>3, <2>4
<1> QED BY <1>2, <1>3

(* A change of the store keeps a listing that is shown true, if a success   *)
(* was pending before or is of a request that is mixed up.                  *)
LEMMA SetKeepsListing ==
  ASSUME TypeOK, ViewFollows, ServedShowsSuccesses,
         NEW k \in Keys, NEW r \in Owners, NEW v \in Results, Set(k, r, v),
         mixed \subseteq mixed',
         v = "success" => result[k] = "pending" \/ r \in mixed'
  PROVE  ServedShowsSuccesses'
<1>1. CASE list' = Asked
  BY <1>1 DEF ServedShowsSuccesses, Asked
<1>2. CASE list' = list /\ list' # Asked
  <2>1. SUFFICES ASSUME list.st \in {"served", "shown"}, NEW j \in Keys,
                        result'[j] = "success"
                 PROVE  req'[j] \in list.shown \cup mixed'
    BY <1>2 DEF ServedShowsSuccesses
  <2>2. folder # Nothing
    BY <2>1 DEF ViewFollows
  <2>3. CASE j = k
    BY <1>2, <2>1, <2>2, <2>3, SetEffect
  <2>4. CASE j # k
    BY <2>1, <2>4, SetEffect DEF ServedShowsSuccesses
  <2> QED BY <2>3, <2>4
<1> QED BY <1>1, <1>2, SetEffect

-----------------------------------------------------------------------------
LEMMA InitHolds == Init => IInv
<1> SUFFICES ASSUME Init PROVE IInv
  OBVIOUS
<1> USE ConstantsAssumption, KeysDiffer DEF Init
<1>1. TypeOK
  <2>1. NoJob \in [st : {"none", "running"} \cup Final, of : Owners]
    BY DEF NoJob, Owners
  <2>2. Off \in Polled
    BY DEF Off, Polled, Statuses, Owners
  <2>3. Closed \in Lists
    BY DEF Closed, Lists
  <2>4. 0 \in 0..MaxId /\ 0 \in 0..MaxRestarts
    OBVIOUS
  <2> QED BY <2>1, <2>2, <2>3, <2>4 DEF TypeOK, Owners, Results, Lists
<1>2. Submitted /\ UploadEntries /\ FailEntries
  BY DEF Submitted, UploadEntries, FailEntries, Polls, Off
<1>3. Reported /\ IdsOnce /\ PolledIsPending
  BY DEF Reported, IdsOnce, PolledIsPending, Polls, Off, NoJob, Ids
<1>4. ViewFollows /\ ServedShowsSuccesses /\ SuccessIsReal /\ PendingIsWatched
  BY DEF ViewFollows, ServedShowsSuccesses, SuccessIsReal, PendingIsWatched, Closed
<1> QED BY <1>1, <1>2, <1>3, <1>4 DEF IInv

-----------------------------------------------------------------------------
(* The view by itself.                                                      *)
LEMMA ViewingHolds ==
  ASSUME IInv, Viewing PROVE IInv'
<1>1. /\ UNCHANGED <<server, sub, id, poll, table, mixed>>
      /\ away' = away \/ away' = TRUE
  BY DEF Viewing, Open, Close, ServeList, ShowList, ListFails, ListRefused
<1>2. /\ folder' \in Folders \cup {Nothing} /\ tracked' \subseteq Keys
      /\ list' \in Lists /\ ViewFollows'
  <2>1. TypeOK /\ ViewFollows /\ Asked \in Lists /\ Closed \in Lists /\ list \in Lists
    BY DEF IInv, TypeOK, Asked, Closed, Lists
  <2>2. ASSUME NEW f \in Folders, Open(f) PROVE <1>2!:
    BY <2>1, <2>2, ConstantsAssumption DEF Open, table, ViewFollows, PendingIn
  <2>3. CASE Close
    BY <2>1, <2>3 DEF Close, ViewFollows, Closed
  <2>4. CASE ServeList \/ ShowList \/ ListFails \/ ListRefused
    <3>1. UNCHANGED <<folder, tracked, result>>
      BY <2>4 DEF ServeList, ShowList, ListFails, ListRefused, table
    <3>2. list' \in Lists /\ list.st # "none"
      <4>1. done \in SUBSET Requests
        BY <2>1 DEF TypeOK
      <4>2. CASE ServeList
        BY <4>1, <4>2 DEF ServeList, Lists
      <4>3. CASE ShowList
        BY <2>1, <4>3 DEF ShowList, Lists
      <4>4. CASE ListFails
        BY <4>4 DEF ListFails, Lists
      <4>5. CASE ListRefused
        BY <4>5 DEF ListRefused, Lists
      <4> QED BY <2>4, <4>2, <4>3, <4>4, <4>5
    <3> QED BY <2>1, <3>1, <3>2 DEF TypeOK, ViewFollows, PendingIn
  <2> QED BY <2>2, <2>3, <2>4 DEF Viewing
<1>3. TypeOK'
  BY <1>1, <1>2 DEF IInv, TypeOK, Lists, server, table
<1>4. ServedShowsSuccesses'
  <2>1. CASE list'.st \notin {"served", "shown"}
    BY <2>1 DEF ServedShowsSuccesses
  <2>2. CASE ServeList
    BY <1>1, <2>2 DEF ServeList, table, IInv, ServedShowsSuccesses, SuccessIsReal
  <2>3. CASE ShowList
    <3>1. list.st = "served" /\ list'.shown = list.shown
      BY <2>3 DEF ShowList, IInv, TypeOK
    <3> QED BY <1>1, <3>1 DEF table, IInv, ServedShowsSuccesses
  <2> QED BY <2>1, <2>2, <2>3
          DEF Viewing, Open, Close, ListFails, ListRefused, Asked, Closed
<1>5. Submitted' /\ UploadEntries' /\ FailEntries' /\ Reported' /\ IdsOnce'
        /\ PolledIsPending' /\ SuccessIsReal' /\ PendingIsWatched'
  BY <1>1 DEF IInv, Submitted, UploadEntries, FailEntries, Reported, IdsOnce,
              PolledIsPending, SuccessIsReal, PendingIsWatched, Polls, KeyOf, server, table
<1> QED BY <1>2, <1>3, <1>4, <1>5 DEF IInv

(* The page is loaded anew.                                                 *)
LEMMA ReloadHolds ==
  ASSUME IInv, Reload PROVE IInv'
<1>1. TypeOK'
  <2>1. Off \in Polled /\ Closed \in Lists
    BY DEF Off, Polled, Statuses, Owners, Closed, Lists
  <2>2. sub' \in [Requests -> {"new", "sent", "served", "orphan", "over"}]
    BY DEF Reload, IInv, TypeOK
  <2>3. poll' \in [Requests -> Polled] /\ req' \in [Keys -> Owners]
          /\ result' \in [Keys -> Results]
    BY <2>1 DEF Reload, Owners, Results
  <2>4. /\ folder' = Nothing /\ tracked' = {} /\ list' \in Lists /\ away' = FALSE
        /\ UNCHANGED <<nextId, job, done, restarts, id, mixed>>
    BY <2>1 DEF Reload, server
  <2> QED BY <2>2, <2>3, <2>4 DEF IInv, TypeOK, Lists
<1>2. Submitted' /\ UploadEntries' /\ FailEntries'
  <2>1. /\ \A r \in Requests : sub'[r] \notin {"sent", "served"}
        /\ \A r \in Requests : poll'[r].st = "off"
        /\ \A k \in Keys : result'[k] = "none"
    BY DEF Reload, Off, IInv, TypeOK
  <2> QED BY <2>1, KeysDiffer, ConstantsAssumption
          DEF Submitted, UploadEntries, FailEntries, Polls
<1>3. Reported' /\ IdsOnce' /\ PolledIsPending'
  BY KeysDiffer
     DEF Reload, server, IInv, Reported, IdsOnce, PolledIsPending, Polls, Off
<1>4. ViewFollows' /\ ServedShowsSuccesses' /\ SuccessIsReal' /\ PendingIsWatched'
  BY DEF Reload, server, IInv, ViewFollows, ServedShowsSuccesses, SuccessIsReal,
         PendingIsWatched, Closed
<1> QED BY <1>1, <1>2, <1>3, <1>4 DEF IInv

(* A step of the server alone, as far as it concerns the page.              *)
LEMMA ServerStepHolds ==
  ASSUME IInv, UNCHANGED <<sub, id, poll, table, view, away, mixed>>,
         nextId' \in 0..MaxId, restarts' \in 0..MaxRestarts,
         job' \in [Ids -> [st : {"none", "running"} \cup Final, of : Owners]],
         done \subseteq done', done' \subseteq Requests,
         restarts' = 0 => restarts = 0, Reported', IdsOnce'
  PROVE  IInv'
<1>1. TypeOK'
  BY DEF table, view, IInv, TypeOK
<1>2. Submitted' /\ UploadEntries' /\ FailEntries' /\ PolledIsPending'
        /\ ViewFollows' /\ ServedShowsSuccesses' /\ PendingIsWatched'
  BY DEF IInv, Submitted, UploadEntries, FailEntries, PolledIsPending, ViewFollows,
         ServedShowsSuccesses, PendingIsWatched, Polls, KeyOf, table, view
<1>3. SuccessIsReal'
  BY DEF IInv, SuccessIsReal, table
<1> QED BY <1>1, <1>2, <1>3 DEF IInv

LEMMA FinishJobHolds ==
  ASSUME IInv, NEW i \in Ids, FinishJob(i) PROVE IInv'
<1>1. PICK st \in Final :
        /\ job' = [job EXCEPT ![i] = [st |-> st, of |-> job[i].of]]
        /\ done' = IF st = "success" THEN done \cup ({job[i].of} \ {Nothing}) ELSE done
  BY DEF FinishJob
<1>2. /\ job[i].st = "running" /\ job[i].of \in Owners
      /\ UNCHANGED <<nextId, restarts, sub, id, poll, table, view, away, mixed>>
  BY DEF FinishJob, IInv, TypeOK
<1>3. job' \in [Ids -> [st : {"none", "running"} \cup Final, of : Owners]]
  BY <1>1, <1>2 DEF IInv, TypeOK
<1>4. done \subseteq done' /\ done' \subseteq Requests
  BY <1>1, <1>2 DEF Owners, IInv, TypeOK
<1>5. Reported'
  BY <1>1, <1>2, <1>4 DEF IInv, TypeOK, Reported
<1>6. IdsOnce'
  BY <1>1, <1>2 DEF IInv, TypeOK, IdsOnce, Polls, KeyOf, table
<1> QED BY <1>2, <1>3, <1>4, <1>5, <1>6, ServerStepHolds DEF IInv, TypeOK

LEMMA ExpireHolds ==
  ASSUME IInv, NEW i \in Ids, Expire(i) PROVE IInv'
<1>1. /\ job' = [job EXCEPT ![i] = NoJob]
      /\ UNCHANGED <<nextId, done, restarts, sub, id, poll, table, view, away, mixed>>
      /\ NoJob \in [st : {"none", "running"} \cup Final, of : Owners] /\ NoJob.st = "none"
  BY DEF Expire, NoJob, Owners
<1>2. job' \in [Ids -> [st : {"none", "running"} \cup Final, of : Owners]]
  BY <1>1 DEF IInv, TypeOK
<1>3. Reported'
  BY <1>1 DEF IInv, TypeOK, Reported
<1>4. IdsOnce'
  BY <1>1 DEF IInv, TypeOK, IdsOnce, Polls, KeyOf, table
<1> QED BY <1>1, <1>2, <1>3, <1>4, ServerStepHolds DEF IInv, TypeOK

(* No request has an id before it is given out.                             *)
LEMMA OtherCallHolds ==
  ASSUME IInv, OtherCall PROVE IInv'
<1> DEFINE new == [st |-> "running", of |-> Nothing]
<1>1. /\ nextId \in Nat /\ nextId' = nextId + 1 /\ nextId + 1 \in Ids /\ nextId' \in 0..MaxId
      /\ job' = [job EXCEPT ![nextId + 1] = new]
      /\ UNCHANGED <<done, restarts, sub, id, poll, table, view, away, mixed>>
  BY ConstantsAssumption DEF OtherCall, Ids, IInv, TypeOK
<1>2. job' \in [Ids -> [st : {"none", "running"} \cup Final, of : Owners]]
  BY <1>1 DEF IInv, TypeOK, Owners
<1>3. Reported'
  BY <1>1 DEF IInv, TypeOK, Reported
<1>4. IdsOnce'
  BY <1>1 DEF IInv, TypeOK, IdsOnce, Polls, KeyOf, table
<1> QED BY <1>1, <1>2, <1>3, <1>4, ServerStepHolds DEF IInv, TypeOK

LEMMA RestartHolds ==
  ASSUME IInv, Restart PROVE IInv'
<1>1. /\ restarts' \in 0..MaxRestarts /\ restarts' # 0 /\ nextId' = 0
      /\ job' = [i \in Ids |-> NoJob]
      /\ UNCHANGED <<done, sub, id, poll, table, view, away, mixed>>
      /\ NoJob \in [st : {"none", "running"} \cup Final, of : Owners] /\ NoJob.st = "none"
  BY ConstantsAssumption DEF Restart, IInv, TypeOK, NoJob, Owners
<1>2. nextId' \in 0..MaxId
        /\ job' \in [Ids -> [st : {"none", "running"} \cup Final, of : Owners]]
  BY <1>1, ConstantsAssumption
<1>3. Reported' /\ IdsOnce'
  BY <1>1 DEF IInv, Reported, IdsOnce
<1> QED BY <1>1, <1>2, <1>3, ServerStepHolds DEF IInv, TypeOK

-----------------------------------------------------------------------------
(* The server's part of a submission, and a refusal.                        *)
LEMMA StartJobHolds ==
  ASSUME IInv, NEW r \in Requests, StartJob(r) PROVE IInv'
<1> DEFINE new == [st |-> "running", of |-> r]
<1>1. /\ UNCHANGED <<done, restarts, poll, table, view, away, mixed>>
      /\ nextId \in Nat /\ nextId' = nextId + 1 /\ nextId + 1 \in Ids /\ nextId' \in 0..MaxId
      /\ job' = [job EXCEPT ![nextId + 1] = new]
      /\ r \notin Uploads /\ sub[r] \in {"sent", "orphan"} /\ ~Polls(r)
  BY ConstantsAssumption DEF StartJob, Ids, IInv, TypeOK, Submitted
<1>2. /\ sub' = [sub EXCEPT ![r] = IF sub[r] = "sent" THEN "served" ELSE "over"]
      /\ id' = [id EXCEPT ![r] = IF sub[r] = "sent" THEN nextId + 1 ELSE id[r]]
  BY DEF StartJob, IInv, TypeOK
<1>3. job' \in [Ids -> [st : {"none", "running"} \cup Final, of : Owners]]
  BY <1>1 DEF IInv, TypeOK, Owners
<1>4. TypeOK'
  BY <1>1, <1>2, <1>3 DEF Ids, table, view, IInv, TypeOK
<1>5. Submitted' /\ UploadEntries' /\ FailEntries'
  BY <1>1, <1>2 DEF table, IInv, TypeOK, Submitted, UploadEntries, FailEntries, Polls, KeyOf
<1>6. Reported'
  BY <1>1 DEF table, IInv, TypeOK, Reported
<1>7. PolledIsPending'
  BY <1>1, <1>2 DEF table, IInv, TypeOK, PolledIsPending, Polls, KeyOf
<1>8. IdsOnce'
  BY <1>1, <1>2 DEF table, IInv, TypeOK, Submitted, IdsOnce, Polls, KeyOf
<1>9. ViewFollows' /\ ServedShowsSuccesses' /\ SuccessIsReal'
  BY <1>1 DEF table, view, IInv, ViewFollows, ServedShowsSuccesses, SuccessIsReal
<1>10. PendingIsWatched'
  BY <1>1, <1>2 DEF table, IInv, TypeOK, PendingIsWatched, Polls
<1> QED BY <1>4, <1>5, <1>6, <1>7, <1>8, <1>9, <1>10 DEF IInv

LEMMA StoreUploadHolds ==
  ASSUME IInv, NEW r \in Requests, StoreUpload(r) PROVE IInv'
<1>1. /\ UNCHANGED <<nextId, job, restarts, id, poll, table, view, away, mixed>>
      /\ done' = done \cup {r}
  BY DEF StoreUpload
<1>2. TypeOK' /\ Submitted' /\ UploadEntries' /\ FailEntries'
  BY <1>1 DEF StoreUpload, table, view, IInv, TypeOK, Submitted, UploadEntries, FailEntries,
              Polls, KeyOf
<1>3. Reported' /\ IdsOnce' /\ PolledIsPending'
  BY <1>1 DEF StoreUpload, table, IInv, TypeOK, Submitted, Reported, IdsOnce,
              PolledIsPending, Polls, KeyOf
<1>4. ViewFollows' /\ ServedShowsSuccesses' /\ SuccessIsReal'
  BY <1>1 DEF table, view, IInv, ViewFollows, ServedShowsSuccesses, SuccessIsReal
<1>5. PendingIsWatched'
  BY <1>1 DEF StoreUpload, table, IInv, TypeOK, PendingIsWatched
<1> QED BY <1>2, <1>3, <1>4, <1>5 DEF IInv

LEMMA SubmitRefusedHolds ==
  ASSUME IInv, NEW r \in Requests, SubmitRefused(r) PROVE IInv'
<1>1. /\ UNCHANGED <<server, id, poll, table, view, mixed>>
      /\ sub[r] = "sent" /\ sub' = [sub EXCEPT ![r] = "over"] /\ away' = TRUE
  BY DEF SubmitRefused
<1>2. TypeOK' /\ Submitted' /\ UploadEntries' /\ FailEntries'
  BY <1>1 DEF server, table, view, IInv, TypeOK, Submitted, UploadEntries, FailEntries,
              Polls, KeyOf
<1>3. Reported' /\ IdsOnce' /\ PolledIsPending'
  BY <1>1 DEF server, table, IInv, TypeOK, Reported, IdsOnce, PolledIsPending, Polls, KeyOf
<1>4. ViewFollows' /\ ServedShowsSuccesses' /\ SuccessIsReal' /\ PendingIsWatched'
  BY <1>1 DEF server, table, view, IInv, ViewFollows, ServedShowsSuccesses, SuccessIsReal,
              PendingIsWatched
<1> QED BY <1>2, <1>3, <1>4 DEF IInv

(* A status request that the server answers, or refuses.                    *)
LEMMA ServeStatusHolds ==
  ASSUME IInv, NEW r \in Requests, ServeStatus(r) PROVE IInv'
<1>1. /\ UNCHANGED <<server, sub, id, table, view, away, mixed>>
      /\ Polls(r) /\ id[r] \in Ids
      /\ poll' = [poll EXCEPT ![r] = [st |-> "served", ans |-> Status(id[r]),
                                     of |-> job[id[r]].of]]
  BY DEF ServeStatus, IInv, Submitted, Polls
<1>2. /\ Status(id[r]) \in Statuses /\ job[id[r]].of \in Owners
      /\ Status(id[r]) = "success" => job[id[r]].st = "success"
  BY <1>1 DEF Status, Statuses, Final, IInv, TypeOK
<1>3. TypeOK' /\ Submitted' /\ UploadEntries' /\ FailEntries'
  BY <1>1, <1>2 DEF server, table, view, IInv, TypeOK, Polled, Submitted, UploadEntries,
                    FailEntries, Polls, KeyOf
<1>4. Reported' /\ IdsOnce' /\ PolledIsPending'
  BY <1>1, <1>2 DEF server, table, IInv, TypeOK, Reported, IdsOnce, PolledIsPending,
                    Polls, KeyOf
<1>5. ViewFollows' /\ ServedShowsSuccesses' /\ SuccessIsReal' /\ PendingIsWatched'
  BY <1>1 DEF server, table, view, IInv, TypeOK, ViewFollows, ServedShowsSuccesses,
              SuccessIsReal, PendingIsWatched
<1> QED BY <1>3, <1>4, <1>5 DEF IInv

LEMMA PollRefusedHolds ==
  ASSUME IInv, NEW r \in Requests, PollRefused(r) PROVE IInv'
<1>1. /\ UNCHANGED <<server, sub, id, table, view, mixed>>
      /\ Polls(r) /\ away' = TRUE /\ poll' = [poll EXCEPT ![r] = Timer]
      /\ Timer \in Polled /\ Timer.st # "off" /\ Timer.ans = "none"
  BY DEF PollRefused, Polls, Timer, Off, Polled, Statuses, Owners
<1>2. TypeOK' /\ Submitted' /\ UploadEntries' /\ FailEntries'
  BY <1>1 DEF server, table, view, IInv, TypeOK, Submitted, UploadEntries, FailEntries,
              Polls, KeyOf
<1>3. Reported' /\ IdsOnce' /\ PolledIsPending'
  BY <1>1 DEF server, table, IInv, TypeOK, Reported, IdsOnce, PolledIsPending, Polls, KeyOf
<1>4. ViewFollows' /\ ServedShowsSuccesses' /\ SuccessIsReal' /\ PendingIsWatched'
  BY <1>1 DEF server, table, view, IInv, ViewFollows, ServedShowsSuccesses, SuccessIsReal,
              PendingIsWatched
<1> QED BY <1>2, <1>3, <1>4 DEF IInv

-----------------------------------------------------------------------------
(* A polling changes the entry it looks after: it goes on with a pending    *)
(* one or ends with a final one.                                            *)
LEMMA SetPolledHolds ==
  ASSUME IInv, NEW r \in Requests, Polls(r),
         NEW v \in {"pending", "success", "failure"}, NEW of \in Owners, SetPolled(r, v, of),
         NEW p \in Polled, poll' = [poll EXCEPT ![r] = p],
         p.st # "off" <=> v = "pending", p.ans = "none",
         v = "success" => of \in done \cup {Nothing} /\ (restarts = 0 => of = r),
         UNCHANGED <<server, sub, id, away>>
  PROVE  IInv'
<1> DEFINE k == KeyOf(r)
           o == req[k]
<1>1. /\ k \in Keys /\ o \in Requests /\ r \notin Uploads /\ sub[r] = "over" /\ id[r] \in Ids
      /\ v \in Results /\ o \in Owners
  BY KeysDiffer DEF IInv, Submitted, KeyOf, Results, Final, Owners
<1>2. /\ Set(k, o, v)
      /\ mixed' = IF o = r /\ (v = "success" => of = r) THEN mixed ELSE mixed \cup {o}
  BY DEF SetPolled, KeyOf
<1>3. /\ req' = req /\ result' = [result EXCEPT ![k] = v]
      /\ mixed \subseteq mixed' /\ mixed' \subseteq Requests
  BY <1>1, <1>2 DEF Set, IInv, TypeOK
<1>4. /\ tracked' \subseteq Keys /\ list' \in Lists /\ folder' = folder /\ ViewFollows'
      /\ result' \in [Keys -> Results]
  BY <1>1, <1>2, SetEffect DEF IInv
<1>5. TypeOK'
  BY <1>3, <1>4 DEF server, IInv, TypeOK, Lists
<1>6. Submitted' /\ UploadEntries' /\ FailEntries'
  <2>1. \A u : UploadKey(u) # k /\ FailKey(u) # k
    BY KeysDiffer DEF KeyOf
  <2> QED BY <1>1, <1>3, <2>1
          DEF server, IInv, TypeOK, Submitted, UploadEntries, FailEntries, Polls, KeyOf
<1>7. Reported'
  BY DEF server, IInv, TypeOK, Reported
<1>8. IdsOnce'
  <2>1. \A i \in Ids : JobKey(i) = k => i = id[r]
    BY KeysDiffer DEF KeyOf
  <2>2. \A q \in Requests : Polls(q)' => Polls(q)
    BY DEF Polls, IInv, TypeOK
  <2>3. \A q \in Requests : poll'[q].ans = "success" => poll'[q] = poll[q]
    BY DEF IInv, TypeOK
  <2> QED BY <1>1, <1>3, <2>1, <2>2, <2>3, KeysDiffer DEF server, IInv, TypeOK, IdsOnce, KeyOf
<1>9. PolledIsPending'
  <2>1. SUFFICES ASSUME NEW q \in Requests, Polls(q)', req[KeyOf(q)] = q
                 PROVE  result'[KeyOf(q)] = "pending" \/ q \in mixed'
    BY <1>3 DEF PolledIsPending, KeyOf
  <2>2. CASE q = r
    BY <1>1, <1>3, <2>1, <2>2 DEF Polls, IInv, TypeOK
  <2>3. CASE q # r /\ KeyOf(q) = k
    BY <1>2, <2>1, <2>3
  <2>4. CASE KeyOf(q) # k
    BY <1>1, <1>3, <2>1, <2>4 DEF Polls, IInv, TypeOK, PolledIsPending, Submitted
  <2> QED BY <2>2, <2>3, <2>4
<1>10. ServedShowsSuccesses'
  <2>1. v = "success" => result[k] = "pending" \/ o \in mixed'
    BY <1>1, <1>2, <1>3 DEF IInv, PolledIsPending
  <2> QED BY <1>1, <1>2, <1>3, <2>1, SetKeepsListing DEF IInv
<1>11. SuccessIsReal'
  <2>1. ASSUME NEW j \in Keys, result'[j] = "success" PROVE req[j] \in done \cup mixed'
    <3>1. CASE j # k
      BY <1>3, <2>1, <3>1 DEF IInv, TypeOK, SuccessIsReal
    <3>2. CASE j = k
      <4>1. v = "success"
        BY <1>1, <1>3, <2>1, <3>2 DEF IInv, TypeOK
      <4> QED BY <1>1, <1>2, <3>2, <4>1, ConstantsAssumption
    <3> QED BY <3>1, <3>2
  <2>2. restarts = 0 => mixed' = mixed
    BY <1>2 DEF IInv, IdsOnce
  <2> QED BY <1>3, <2>1, <2>2 DEF server, IInv, SuccessIsReal
<1>12. PendingIsWatched'
  <2>1. SUFFICES ASSUME NEW j \in Keys, result'[j] = "pending", ~away
                 PROVE  \/ \E u \in Uploads : j = UploadKey(u) /\ sub[u] \in {"sent", "served"}
                        \/ \E q \in Requests \ Uploads : j = KeyOf(q) /\ Polls(q)'
    BY DEF PendingIsWatched, KeyOf, Polls
  <2>2. CASE j = k
    BY <1>1, <1>3, <2>1, <2>2 DEF Polls, IInv, TypeOK
  <2>3. CASE j # k
    BY <1>3, <2>1, <2>3 DEF Polls, KeyOf, IInv, TypeOK, PendingIsWatched
  <2> QED BY <2>2, <2>3
<1> QED BY <1>4, <1>5, <1>6, <1>7, <1>8, <1>9, <1>10, <1>11, <1>12 DEF IInv

(* The timer fires, an answer arrives, and a request fails.                 *)
LEMMA TickHolds ==
  ASSUME IInv, NEW r \in Requests, Tick(r) PROVE IInv'
<1> DEFINE p == [Off EXCEPT !.st = "sent"]
<1>1. p \in Polled /\ p.st = "sent" /\ p.ans = "none" /\ Nothing \in Owners
  BY DEF Off, Polled, Statuses, Owners
<1>2. /\ Polls(r) /\ poll' = [poll EXCEPT ![r] = p] /\ SetPolled(r, "pending", Nothing)
      /\ UNCHANGED <<server, sub, id, away>>
  BY DEF Tick, Polls
<1> QED BY <1>1, <1>2, SetPolledHolds

LEMMA AnswerStatusHolds ==
  ASSUME IInv, NEW r \in Requests, AnswerStatus(r) PROVE IInv'
<1> DEFINE v == Outcome(poll[r].ans)
           p == AfterAnswer(v)
<1>1. /\ Polls(r) /\ poll' = [poll EXCEPT ![r] = p] /\ SetPolled(r, v, poll[r].of)
      /\ UNCHANGED <<server, sub, id, away>>
  BY DEF AnswerStatus, Polls
<1>2. v \in {"pending", "success", "failure"} /\ (v = "success" => poll[r].ans = "success")
  BY DEF Outcome
<1>3. p \in Polled /\ (p.st # "off" <=> v = "pending") /\ p.ans = "none"
  BY <1>2 DEF AfterAnswer, Off, Timer, Final, Polled, Statuses, Owners
<1>4. poll[r].of \in Owners
  BY DEF IInv, TypeOK, Polled
<1>5. v = "success" => poll[r].of \in done \cup {Nothing} /\ (restarts = 0 => poll[r].of = r)
  BY <1>1, <1>2 DEF IInv, Reported, IdsOnce
<1> HIDE DEF v, p
<1> QED BY <1>1, <1>2, <1>3, <1>4, <1>5, SetPolledHolds

LEMMA PollFailsHolds ==
  ASSUME IInv, NEW r \in Requests, PollFails(r) PROVE IInv'
<1>1. Off \in Polled /\ Off.st = "off" /\ Off.ans = "none" /\ Nothing \in Owners
  BY DEF Off, Polled, Statuses, Owners
<1>2. /\ Polls(r) /\ poll' = [poll EXCEPT ![r] = Off] /\ SetPolled(r, "failure", Nothing)
      /\ UNCHANGED <<server, sub, id, away>>
  BY DEF PollFails, Polls
<1> QED BY <1>1, <1>2, SetPolledHolds

-----------------------------------------------------------------------------
(* A submission changes its own entry, that of an upload or of a failure.   *)
LEMMA EntryHolds ==
  ASSUME IInv, NEW r \in Requests, sub[r] # "over",
         NEW st \in {"sent", "orphan", "over"}, sub' = [sub EXCEPT ![r] = st],
         NEW k, NEW v \in {"pending", "success", "failure"}, Set(k, r, v),
         \/ r \in Uploads /\ k = UploadKey(r) /\ (v = "pending" <=> st = "sent")
         \/ /\ r \notin Uploads /\ v = "failure" /\ st # "sent"
            /\ \E m \in Instants : k = FailKey(m),
         v = "success" => result[k] = "pending" /\ r \in done,
         UNCHANGED <<server, id, poll, away, mixed>>
  PROVE  IInv'
<1>1. /\ k \in Keys /\ r \in Owners /\ v \in Results
      /\ \A i : JobKey(i) # k
      /\ \A u : UploadKey(u) = k => u = r /\ r \in Uploads
      /\ \A m \in Instants : FailKey(m) = k => v = "failure"
  BY KeysDiffer DEF Owners, Results, Final
<1>2. req' = [req EXCEPT ![k] = r] /\ result' = [result EXCEPT ![k] = v]
  BY DEF Set
<1>3. /\ req' \in [Keys -> Owners] /\ result' \in [Keys -> Results] /\ tracked' \subseteq Keys
      /\ list' \in Lists /\ folder' = folder /\ ViewFollows'
  BY <1>1, SetEffect DEF IInv
<1>4. TypeOK'
  BY <1>3 DEF server, IInv, TypeOK, Lists
<1>5. Submitted'
  BY <1>1, <1>2, KeysDiffer DEF server, IInv, TypeOK, Submitted, Polls, KeyOf
<1>6. UploadEntries'
  BY <1>1, <1>2, KeysDiffer, ConstantsAssumption DEF server, IInv, TypeOK, UploadEntries
<1>7. FailEntries'
  BY <1>1, <1>2, KeysDiffer DEF IInv, TypeOK, FailEntries
<1>8. Reported' /\ IdsOnce' /\ PolledIsPending'
  BY <1>1, <1>2, KeysDiffer DEF server, IInv, TypeOK, Submitted, Reported, IdsOnce,
                                PolledIsPending, Polls, KeyOf
<1>9. ServedShowsSuccesses'
  BY <1>1, SetKeepsListing DEF IInv
<1>10. SuccessIsReal'
  BY <1>1, <1>2 DEF server, IInv, TypeOK, SuccessIsReal
<1>11. PendingIsWatched'
  <2>1. SUFFICES ASSUME NEW j \in Keys, result'[j] = "pending", ~away
                 PROVE  \/ \E u \in Uploads : j = UploadKey(u) /\ sub'[u] \in {"sent", "served"}
                        \/ \E q \in Requests \ Uploads : j = KeyOf(q) /\ Polls(q)
    BY DEF PendingIsWatched, KeyOf, Polls
  <2>2. CASE j = k
    BY <1>1, <1>2, <2>1, <2>2 DEF IInv, TypeOK
  <2>3. CASE j # k
    BY <1>2, <2>1, <2>3, ConstantsAssumption
       DEF Polls, KeyOf, IInv, TypeOK, UploadEntries, PendingIsWatched
  <2> QED BY <2>2, <2>3
<1> QED BY <1>3, <1>4, <1>5, <1>6, <1>7, <1>8, <1>9, <1>10, <1>11 DEF IInv

LEMMA SubmitHolds ==
  ASSUME IInv, NEW r \in Requests, Submit(r) PROVE IInv'
<1>1. /\ sub[r] = "new" /\ sub' = [sub EXCEPT ![r] = "sent"]
      /\ UNCHANGED <<server, id, poll, away, mixed>>
  BY DEF Submit
<1>2. CASE r \in Uploads
  BY <1>1, <1>2, EntryHolds DEF Submit
<1>3. CASE r \notin Uploads
  <2>1. UNCHANGED <<table, view>>
    BY <1>3 DEF Submit
  <2>2. TypeOK' /\ Submitted' /\ UploadEntries' /\ FailEntries'
    BY <1>1, <1>3, <2>1 DEF server, table, view, IInv, TypeOK, Submitted, UploadEntries,
                            FailEntries, Polls, KeyOf
  <2>3. Reported' /\ IdsOnce' /\ PolledIsPending'
    BY <1>1, <2>1 DEF server, table, IInv, TypeOK, Reported, IdsOnce, PolledIsPending,
                      Polls, KeyOf
  <2>4. ViewFollows' /\ ServedShowsSuccesses' /\ SuccessIsReal' /\ PendingIsWatched'
    BY <1>1, <1>3, <2>1 DEF server, table, view, IInv, TypeOK, ViewFollows,
                            ServedShowsSuccesses, SuccessIsReal, PendingIsWatched
  <2> QED BY <2>2, <2>3, <2>4 DEF IInv
<1> QED BY <1>2, <1>3

LEMMA UploadDoneHolds ==
  ASSUME IInv, NEW r \in Requests, UploadDone(r) PROVE IInv'
<1>1. result[UploadKey(r)] = "pending" /\ r \in done
  BY DEF UploadDone, IInv, UploadEntries
<1> QED BY <1>1, EntryHolds DEF UploadDone

LEMMA SubmitFailsHolds ==
  ASSUME IInv, NEW r \in Requests, SubmitFails(r) PROVE IInv'
<1> DEFINE st == IF sub[r] = "sent" THEN "orphan" ELSE "over"
<1>1. /\ sub[r] # "over" /\ sub' = [sub EXCEPT ![r] = st] /\ st \in {"orphan", "over"}
      /\ UNCHANGED <<server, id, poll, away, mixed>>
  BY DEF SubmitFails
<1>2. CASE r \in Uploads
  BY <1>1, <1>2, EntryHolds DEF SubmitFails
<1>3. CASE r \notin Uploads
  <2>1. PICK m \in Instants : Set(FailKey(m), r, "failure")
    BY <1>3 DEF SubmitFails
  <2> QED BY <1>1, <1>3, <2>1, EntryHolds
<1> QED BY <1>2, <1>3

(* A submission is answered: its entry is that of its id, which may have    *)
(* been another's.                                                          *)
LEMMA AssignJobIdHolds ==
  ASSUME IInv, NEW r \in Requests, AssignJobId(r) PROVE IInv'
<1> DEFINE k == KeyOf(r)
<1>1. /\ r \notin Uploads /\ sub[r] = "served" /\ sub' = [sub EXCEPT ![r] = "over"]
      /\ poll' = [poll EXCEPT ![r] = Timer] /\ Set(k, r, "pending")
      /\ UNCHANGED <<server, id, away, mixed>>
  BY DEF AssignJobId, KeyOf
<1>2. /\ id[r] \in Ids /\ k \in Keys /\ r \in Owners /\ "pending" \in Results
      /\ \A u : UploadKey(u) # k /\ FailKey(u) # k
      /\ \A i \in Ids : JobKey(i) = k => i = id[r]
  BY <1>1, KeysDiffer DEF IInv, Submitted, KeyOf, Owners, Results
<1>3. Timer \in Polled /\ Timer.st = "idle" /\ Timer.ans = "none"
  BY DEF Timer, Off, Polled, Statuses, Owners
<1>4. req' = [req EXCEPT ![k] = r] /\ result' = [result EXCEPT ![k] = "pending"]
  BY <1>1 DEF Set
<1>5. /\ req' \in [Keys -> Owners] /\ result' \in [Keys -> Results] /\ tracked' \subseteq Keys
      /\ list' \in Lists /\ folder' = folder /\ ViewFollows'
  BY <1>1, <1>2, SetEffect DEF IInv
<1>6. TypeOK'
  BY <1>1, <1>3, <1>5 DEF server, IInv, TypeOK, Lists
<1>7. Submitted'
  BY <1>1, <1>2, <1>4, KeysDiffer DEF server, IInv, TypeOK, Submitted, Polls, KeyOf
<1>8. UploadEntries' /\ FailEntries'
  BY <1>1, <1>2, <1>4, KeysDiffer, ConstantsAssumption
     DEF server, IInv, TypeOK, UploadEntries, FailEntries
<1>9. Reported'
  BY <1>1, <1>3 DEF server, IInv, TypeOK, Reported
<1>10. IdsOnce'
  <2>1. \A q \in Requests : Polls(q) /\ q # r => poll'[q] = poll[q]
    BY <1>1 DEF IInv, TypeOK
  <2>2. restarts = 0 => \A q \in Requests : q # r /\ id[q] \in Ids => KeyOf(q) # k
    BY <1>2 DEF IInv, IdsOnce, KeyOf
  <2> QED BY <1>1, <1>2, <1>3, <1>4, <2>1, <2>2, KeysDiffer
          DEF server, IInv, TypeOK, Submitted, IdsOnce, Polls, KeyOf
<1>11. PolledIsPending'
  BY <1>1, <1>2, <1>4, KeysDiffer
     DEF IInv, TypeOK, Submitted, PolledIsPending, Polls, KeyOf
<1>12. ServedShowsSuccesses'
  BY <1>1, <1>2, SetKeepsListing DEF IInv
<1>13. SuccessIsReal'
  BY <1>1, <1>2, <1>4 DEF server, IInv, TypeOK, SuccessIsReal
<1>14. PendingIsWatched'
  BY <1>1, <1>2, <1>3, <1>4 DEF IInv, TypeOK, PendingIsWatched, KeyOf
<1> QED BY <1>5, <1>6, <1>7, <1>8, <1>9, <1>10, <1>11, <1>12, <1>13, <1>14 DEF IInv

-----------------------------------------------------------------------------
(* Every step keeps the invariant.                                          *)
LEMMA NextHolds == IInv /\ [Next]_vars => IInv'
<1> SUFFICES ASSUME IInv, [Next]_vars PROVE IInv'
  OBVIOUS
<1>1. ASSUME NEW r \in Requests, Submission(r) PROVE IInv'
  BY <1>1, SubmitHolds, StartJobHolds, StoreUploadHolds, AssignJobIdHolds, UploadDoneHolds,
     SubmitFailsHolds, SubmitRefusedHolds DEF Submission
<1>2. ASSUME NEW r \in Requests, Polling(r) PROVE IInv'
  BY <1>2, TickHolds, ServeStatusHolds, AnswerStatusHolds, PollFailsHolds, PollRefusedHolds
     DEF Polling
<1>3. CASE Viewing
  BY <1>3, ViewingHolds
<1>4. CASE Reload
  BY <1>4, ReloadHolds
<1>5. CASE Serving
  BY <1>5, FinishJobHolds, ExpireHolds, OtherCallHolds, RestartHolds DEF Serving
<1>6. CASE UNCHANGED vars
  BY <1>6 DEF vars, server, table, view, IInv, TypeOK, Submitted, UploadEntries, FailEntries,
              Reported, IdsOnce, PolledIsPending, ViewFollows, ServedShowsSuccesses,
              SuccessIsReal, PendingIsWatched, Polls, KeyOf
<1> QED BY <1>1, <1>2, <1>3, <1>4, <1>5, <1>6 DEF Next

LEMMA InvariantHolds == Spec => []IInv
BY InitHolds, NextHolds, PTL DEF Spec

-----------------------------------------------------------------------------
(* The variables have their types.                                          *)
THEOREM JobsTypeCorrect == Spec => []TypeOK
<1>1. IInv => TypeOK
  BY DEF IInv
<1> QED BY <1>1, InvariantHolds, PTL

(* What the page calls successful did happen, and before the first restart  *)
(* no entry is mixed up with another.                                       *)
THEOREM SuccessIsRealCorrect == Spec => []SuccessIsReal
<1>1. IInv => SuccessIsReal
  BY DEF IInv
<1> QED BY <1>1, InvariantHolds, PTL

(* A listing on the screen has the effect of every operation the page calls *)
(* successful.                                                              *)
THEOREM ListingCorrect == Spec => []ListingShowsSuccesses
<1>1. IInv => ListingShowsSuccesses
  BY DEF IInv, ServedShowsSuccesses, ListingShowsSuccesses
<1> QED BY <1>1, InvariantHolds, PTL

(* A pending entry has a request or a polling that will end it.             *)
THEOREM PendingIsWatchedCorrect == Spec => []PendingIsWatched
<1>1. IInv => PendingIsWatched
  BY DEF IInv
<1> QED BY <1>1, InvariantHolds, PTL

-----------------------------------------------------------------------------
FinalKept ==
  \A k \in Keys :
    result[k] \in Final /\ restarts = 0 => result'[k] \in {result[k], "none"}

(* The change of one entry that was not final, or stays what it was.        *)
LEMMA SetKeepsFinal ==
  ASSUME TypeOK, NEW k \in Keys, NEW r, NEW v, Set(k, r, v),
         restarts = 0 /\ result[k] \in Final => v = result[k]
  PROVE  FinalKept
BY DEF Set, FinalKept, TypeOK

(* A submission finds its entry new, its own and pending, or failed.        *)
LEMMA SubmissionKeepsFinal ==
  ASSUME IInv, NEW r \in Requests, Submission(r) PROVE FinalKept
<1>1. CASE UNCHANGED result
  BY <1>1 DEF FinalKept
<1>2. CASE Submit(r) /\ r \in Uploads
  BY <1>2, SetKeepsFinal, KeysDiffer DEF Submit, IInv, UploadEntries, Final
<1>3. CASE UploadDone(r)
  BY <1>3, SetKeepsFinal, KeysDiffer DEF UploadDone, IInv, UploadEntries, Final
<1>4. CASE SubmitFails(r) /\ r \in Uploads
  BY <1>4, SetKeepsFinal, KeysDiffer DEF SubmitFails, IInv, UploadEntries, Final
<1>5. CASE SubmitFails(r) /\ r \notin Uploads
  <2>1. PICK m \in Instants : Set(FailKey(m), r, "failure")
    BY <1>5 DEF SubmitFails
  <2> QED BY <2>1, SetKeepsFinal, KeysDiffer DEF IInv, FailEntries, Final
<1>6. CASE AssignJobId(r)
  <2>1. id[r] \in Ids /\ sub[r] = "served" /\ Set(KeyOf(r), r, "pending")
    BY <1>6 DEF AssignJobId, IInv, Submitted, KeyOf
  <2>2. restarts = 0 => result[KeyOf(r)] = "none"
    BY <2>1 DEF IInv, IdsOnce, KeyOf
  <2> QED BY <2>1, <2>2, SetKeepsFinal, KeysDiffer DEF IInv, KeyOf, Final
<1> QED BY <1>1, <1>2, <1>3, <1>4, <1>5, <1>6
        DEF Submission, Submit, StartJob, StoreUpload, SubmitRefused, table

(* Before a restart a polling finds its entry its own and pending.          *)
LEMMA PollingKeepsFinal ==
  ASSUME IInv, NEW r \in Requests, Polling(r) PROVE FinalKept
<1>1. CASE UNCHANGED result
  BY <1>1 DEF FinalKept
<1>2. ASSUME Polls(r), NEW v, NEW of, SetPolled(r, v, of) PROVE FinalKept
  <2>1. id[r] \in Ids /\ Set(KeyOf(r), req[KeyOf(r)], v)
    BY <1>2 DEF SetPolled, IInv, Submitted, KeyOf
  <2>2. restarts = 0 => result[KeyOf(r)] = "pending"
    BY <1>2 DEF IInv, IdsOnce, PolledIsPending, SuccessIsReal
  <2> QED BY <2>1, <2>2, SetKeepsFinal, KeysDiffer DEF IInv, KeyOf, Final
<1> QED BY <1>1, <1>2 DEF Polling, Tick, AnswerStatus, PollFails, ServeStatus, PollRefused,
                          Polls, table

(* A final result stays as long as the page, before the first restart.      *)
THEOREM FinalStaysCorrect == Spec => FinalStays
<1>1. ASSUME IInv, [Next]_vars PROVE [FinalKept]_vars
  <2>1. ASSUME NEW r \in Requests, Submission(r) \/ Polling(r) PROVE FinalKept
    BY <1>1, <2>1, SubmissionKeepsFinal, PollingKeepsFinal
  <2>2. CASE Viewing \/ Serving
    BY <2>2 DEF Viewing, Open, Close, ServeList, ShowList, ListFails, ListRefused,
                Serving, FinishJob, Expire, OtherCall, Restart, table, FinalKept
  <2>3. CASE Reload
    BY <2>3 DEF Reload, FinalKept
  <2> QED BY <1>1, <2>1, <2>2, <2>3 DEF Next
<1>2. [FinalKept]_vars =>
        [\A k \in Keys :
           result[k] \in Final /\ restarts = 0 => result'[k] \in {result[k], "none"}]_vars
  BY DEF FinalKept
<1> QED BY <1>1, <1>2, InvariantHolds, PTL DEF Spec, FinalStays
=============================================================================
