-------------------------------- MODULE Jobs --------------------------------
(***************************************************************************)
(* File operations submitted from the Web UI: the jobs store and its       *)
(* effects (src/apps/web-ui/src/app/content-page/store/jobs), the folder   *)
(* listing that is loaded again when one succeeds (folder-list-view), and  *)
(* the job table of the rclone process behind the Web API.                 *)
(*                                                                         *)
(* The page runs one JavaScript task at a time, so everything an answer    *)
(* sets off before the next await (reducer, effects, the listing's         *)
(* subscription) is one action.  What interleaves are the page's requests, *)
(* its timers, the jobs, and the server's restarts.  An HTTP request is    *)
(* "sent" until the server has acted on it, "served" while the answer is   *)
(* on its way; it may fail for the page in both states.                    *)
(***************************************************************************)
EXTENDS Naturals

CONSTANTS
  Requests,    \* the operations the user asks for
  Uploads,     \* those that upload a file: one long request, no job
  Folders,     \* folders the view may show
  Nothing,     \* "no request", "no folder"
  Instants,    \* values of Date.now() at which a submission may fail
  MaxId,       \* bounds on a behaviour: job ids of one server process,
  MaxRestarts  \*   and restarts of the server

ASSUME ConstantsAssumption ==
  /\ Uploads \subseteq Requests
  /\ Nothing \notin Requests \cup Folders
  /\ Instants \subseteq Nat
  /\ MaxId \in Nat /\ MaxRestarts \in Nat

Ids == 1..MaxId

(* Keys of the jobs store: the id rclone gave, upload-<counter>, and        *)
(* failed-job-<Date.now()>.                                                 *)
JobKey(i)    == <<"job", i>>
UploadKey(r) == <<"upload", r>>
FailKey(m)   == <<"failed-job", m>>
Keys == {JobKey(i) : i \in Ids} \cup {UploadKey(r) : r \in Uploads}
          \cup {FailKey(m) : m \in Instants}

VARIABLES
  (* the server *)
  nextId,     \* ids given out by this rclone process
  job,        \* its job table
  done,       \* requests whose effect is on the storage
  restarts,   \* restarts so far, for the bound
  (* requests of the page on their way *)
  sub,        \* the submission of a request
  id,         \* the job id the server answered it with
  poll,       \* the polling of a request's job
  (* the page *)
  req,        \* JobState.jobIdToRequest
  result,     \* JobState.jobIdToResult
  folder,     \* the folder the view shows, if it is open
  tracked,    \* pendingFiles of its subscription
  list,       \* the items of its store
  away,       \* a 401 has sent the page to the login
  mixed       \* history: requests whose entry another one's job or
              \*   polling had a part in

server == <<nextId, job, done, restarts>>
table  == <<req, result>>
view   == <<folder, tracked, list>>
vars   == <<server, sub, id, poll, table, view, away, mixed>>

Owners  == Requests \cup {Nothing}   \* Nothing: any other call of rclone
Final   == {"success", "failure"}
Results == {"none", "pending"} \cup Final

NoJob    == [st |-> "none", of |-> Nothing]
Statuses == {"none", "error", "running"} \cup Final
Polled   == [st : {"off", "idle", "sent", "served"}, ans : Statuses, of : Owners]
Off      == [st |-> "off", ans |-> "none", of |-> Nothing]
Timer    == [Off EXCEPT !.st = "idle"]

Closed == [st |-> "none", shown |-> {}]
Asked  == [st |-> "sent", shown |-> {}]

TypeOK ==
  /\ nextId \in 0..MaxId
  /\ job \in [Ids -> [st : {"none", "running"} \cup Final, of : Owners]]
  /\ done \subseteq Requests
  /\ restarts \in 0..MaxRestarts
  /\ sub \in [Requests -> {"new", "sent", "served", "orphan", "over"}]
  /\ id \in [Requests -> 0..MaxId]
  /\ poll \in [Requests -> Polled]
  /\ req \in [Keys -> Owners]
  /\ result \in [Keys -> Results]
  /\ folder \in Folders \cup {Nothing}
  /\ tracked \subseteq Keys
  /\ list \in [st : {"none", "sent", "served", "shown", "failed", "stuck"},
               shown : SUBSET Requests]
  /\ away \in BOOLEAN
  /\ mixed \subseteq Requests

Init ==
  /\ nextId = 0
  /\ job = [i \in Ids |-> NoJob]
  /\ done = {}
  /\ restarts = 0
  /\ sub = [r \in Requests |-> "new"]
  /\ id = [r \in Requests |-> 0]
  /\ poll = [r \in Requests |-> Off]
  /\ req = [k \in Keys |-> Nothing]
  /\ result = [k \in Keys |-> "none"]
  /\ folder = Nothing
  /\ tracked = {}
  /\ list = Closed
  /\ away = FALSE
  /\ mixed = {}

-----------------------------------------------------------------------------
(* The page: the store and the listing that follows it.                     *)

PendingIn(res) == {k \in Keys : res[k] = "pending"}

(* Mutant of Follow: a load that is under way is not replaced.              *)
FollowNoSwitch(res) ==
  LET news == {k \in tracked : res[k] = "success"} IN
  IF folder = Nothing THEN UNCHANGED view
  ELSE /\ tracked' = (tracked \cup PendingIn(res)) \ news
       /\ list' = IF news # {} /\ list.st \notin {"sent", "served"}
                  THEN Asked ELSE list
       /\ UNCHANGED folder

(* Every change of the store reaches the open view: it remembers what is    *)
(* pending, and a success of what it remembers loads the listing again in   *)
(* place of a load under way.                                               *)
Follow(res) ==
  LET news == {k \in tracked : res[k] = "success"} IN
  IF folder = Nothing THEN UNCHANGED view
  ELSE /\ tracked' = (tracked \cup PendingIn(res)) \ news
       /\ list' = IF news # {} THEN Asked ELSE list
       /\ UNCHANGED folder

(* The entry of k becomes r's with result v.                                *)
Set(k, r, v) ==
  /\ req' = [req EXCEPT ![k] = r]
  /\ result' = [result EXCEPT ![k] = v]
  /\ Follow([result EXCEPT ![k] = v])

(* Mutant of Open: the subscription starts from nothing.                    *)
OpenAfresh(f) ==
  /\ folder # f
  /\ folder' = f /\ tracked' = {} /\ list' = Asked
  /\ UNCHANGED <<server, sub, id, poll, table, away, mixed>>

(* A route to another folder: its listing is asked for and the subscription *)
(* starts again from the store as it is.                                    *)
Open(f) ==
  /\ folder # f
  /\ folder' = f
  /\ tracked' = PendingIn(result)
  /\ list' = Asked
  /\ UNCHANGED <<server, sub, id, poll, table, away, mixed>>

(* A route to another page: the view is destroyed, the store is not.        *)
Close ==
  /\ folder # Nothing
  /\ folder' = Nothing /\ tracked' = {} /\ list' = Closed
  /\ UNCHANGED <<server, sub, id, poll, table, away, mixed>>

(* The page is loaded anew, by the user or by the login: nothing of it is   *)
(* kept, and the server may still act on requests it had sent.              *)
Reload ==
  /\ sub' = [r \in Requests |-> CASE sub[r] = "sent" -> "orphan"
                                  [] sub[r] = "served" -> "over"
                                  [] OTHER -> sub[r]]
  /\ poll' = [r \in Requests |-> Off]
  /\ req' = [k \in Keys |-> Nothing]
  /\ result' = [k \in Keys |-> "none"]
  /\ folder' = Nothing /\ tracked' = {} /\ list' = Closed
  /\ away' = FALSE
  /\ UNCHANGED <<server, id, mixed>>

-----------------------------------------------------------------------------
(* The listing.                                                             *)

ServeList ==
  /\ list.st = "sent"
  /\ list' = [st |-> "served", shown |-> done]
  /\ UNCHANGED <<server, sub, id, poll, table, folder, tracked, away, mixed>>

ShowList ==
  /\ list.st = "served"
  /\ list' = [list EXCEPT !.st = "shown"]
  /\ UNCHANGED <<server, sub, id, poll, table, folder, tracked, away, mixed>>

ListFails ==
  /\ list.st \in {"sent", "served"}
  /\ list' = [st |-> "failed", shown |-> {}]
  /\ UNCHANGED <<server, sub, id, poll, table, folder, tracked, away, mixed>>

(* A 401 ends a request without an answer: the listing stays pending.       *)
ListRefused ==
  /\ list.st = "sent"
  /\ list' = [st |-> "stuck", shown |-> {}]
  /\ away' = TRUE
  /\ UNCHANGED <<server, sub, id, poll, table, folder, tracked, mixed>>

-----------------------------------------------------------------------------
(* Submitting.                                                              *)

(* An upload is in the store from the start (toResult begins with pending); *)
(* of the others only the answer is.                                        *)
Submit(r) ==
  /\ folder # Nothing /\ sub[r] = "new"
  /\ sub' = [sub EXCEPT ![r] = "sent"]
  /\ IF r \in Uploads THEN Set(UploadKey(r), r, "pending")
                      ELSE UNCHANGED <<table, view>>
  /\ UNCHANGED <<server, id, poll, away, mixed>>

(* jobs.NewJob with _async: the next id, and the call goes on by itself.    *)
(* The page may have given up on the request meanwhile.                     *)
StartJob(r) ==
  /\ r \notin Uploads /\ sub[r] \in {"sent", "orphan"} /\ nextId < MaxId
  /\ nextId' = nextId + 1
  /\ job' = [job EXCEPT ![nextId + 1] = [st |-> "running", of |-> r]]
  /\ IF sub[r] = "sent"
       THEN sub' = [sub EXCEPT ![r] = "served"] /\ id' = [id EXCEPT ![r] = nextId + 1]
       ELSE sub' = [sub EXCEPT ![r] = "over"] /\ UNCHANGED id
  /\ UNCHANGED <<done, restarts, poll, table, view, away, mixed>>

(* operations/uploadfile answers when the file is stored.                   *)
StoreUpload(r) ==
  /\ r \in Uploads /\ sub[r] \in {"sent", "orphan"}
  /\ done' = done \cup {r}
  /\ sub' = [sub EXCEPT ![r] = IF @ = "sent" THEN "served" ELSE "over"]
  /\ UNCHANGED <<nextId, job, restarts, id, poll, table, view, away, mixed>>

(* assignJobId, and startPolling in the same task.                          *)
AssignJobId(r) ==
  /\ r \notin Uploads /\ sub[r] = "served"
  /\ sub' = [sub EXCEPT ![r] = "over"]
  /\ poll' = [poll EXCEPT ![r] = Timer]
  /\ Set(JobKey(id[r]), r, "pending")
  /\ UNCHANGED <<server, id, away, mixed>>

UploadDone(r) ==
  /\ r \in Uploads /\ sub[r] = "served"
  /\ sub' = [sub EXCEPT ![r] = "over"]
  /\ Set(UploadKey(r), r, "success")
  /\ UNCHANGED <<server, id, poll, away, mixed>>

(* Mutant of SubmitFails: the result of an upload is not looked at.         *)
SubmitFailsUnseen(r) ==
  /\ r \in Uploads /\ sub[r] \in {"sent", "served"}
  /\ sub' = [sub EXCEPT ![r] = IF @ = "sent" THEN "orphan" ELSE "over"]
  /\ Set(UploadKey(r), r, "success")
  /\ UNCHANGED <<server, id, poll, away, mixed>>

(* A network error or an error answer.  The server may still act on what it *)
(* has not seen yet.  Two failures in one millisecond share their key.      *)
SubmitFails(r) ==
  /\ sub[r] \in {"sent", "served"}
  /\ sub' = [sub EXCEPT ![r] = IF @ = "sent" THEN "orphan" ELSE "over"]
  /\ IF r \in Uploads THEN Set(UploadKey(r), r, "failure")
     ELSE \E m \in Instants :
            /\ \A n \in Instants : result[FailKey(n)] # "none" => n <= m
            /\ Set(FailKey(m), r, "failure")
  /\ UNCHANGED <<server, id, poll, away, mixed>>

(* A 401: the effect ends without an action.                                *)
SubmitRefused(r) ==
  /\ sub[r] = "sent"
  /\ sub' = [sub EXCEPT ![r] = "over"]
  /\ away' = TRUE
  /\ UNCHANGED <<server, id, poll, table, view, mixed>>

-----------------------------------------------------------------------------
(* Polling.                                                                 *)

(* setJobResult from r's polling, which read the job of request of.         *)
SetPolled(r, v, of) ==
  LET k == JobKey(id[r]) IN
  /\ Set(k, req[k], v)
  /\ mixed' = IF req[k] = r /\ (v = "success" => of = r)
              THEN mixed ELSE mixed \cup {req[k]}

(* The timer fires while no request of this polling is under way; the       *)
(* request begins with a pending result.                                    *)
Tick(r) ==
  /\ poll[r].st = "idle"
  /\ poll' = [poll EXCEPT ![r] = [Off EXCEPT !.st = "sent"]]
  /\ SetPolled(r, "pending", Nothing)
  /\ UNCHANGED <<server, sub, id, away>>

(* job/status: an id the table does not have is an error.                   *)
Status(i) == IF job[i].st = "none" THEN "error" ELSE job[i].st

ServeStatus(r) ==
  /\ poll[r].st = "sent"
  /\ poll' = [poll EXCEPT ![r] = [st |-> "served", ans |-> Status(id[r]),
                                  of |-> job[id[r]].of]]
  /\ UNCHANGED <<server, sub, id, table, view, away, mixed>>

(* Mutant of Outcome: the status goes into the store as it is.              *)
OutcomeRaw(ans) == ans

(* Mutant of Outcome: an error answer is not looked at.                     *)
OutcomeNoError(ans) == IF ans \in Final THEN ans ELSE "pending"

(* Mutant of Outcome: what has no error is a success.                       *)
OutcomeOptimistic(ans) == IF ans \in {"error", "failure"} THEN "failure" ELSE "success"

(* What an answer makes of the entry.                                       *)
Outcome(ans) ==
  CASE ans \in {"error", "failure"} -> "failure"
    [] ans = "success" -> "success"
    [] OTHER -> "pending"

(* Mutant of AfterAnswer: the polling goes on after the final answer.       *)
AfterAnswerAlways(res) == Timer

(* Mutant of AfterAnswer: it ends with the first answer.                    *)
AfterAnswerNever(res) == Off

(* takeWhile, inclusive: the final answer ends the polling.                 *)
AfterAnswer(res) == IF res \in Final THEN Off ELSE Timer

AnswerStatus(r) ==
  /\ poll[r].st = "served"
  /\ poll' = [poll EXCEPT ![r] = AfterAnswer(Outcome(poll[r].ans))]
  /\ SetPolled(r, Outcome(poll[r].ans), poll[r].of)
  /\ UNCHANGED <<server, sub, id, away>>

(* A failed request is taken for a failed job.                              *)
PollFails(r) ==
  /\ poll[r].st \in {"sent", "served"}
  /\ poll' = [poll EXCEPT ![r] = Off]
  /\ SetPolled(r, "failure", Nothing)
  /\ UNCHANGED <<server, sub, id, away>>

(* A 401 gives no answer: the timer goes on.                                *)
PollRefused(r) ==
  /\ poll[r].st = "sent"
  /\ poll' = [poll EXCEPT ![r] = Timer]
  /\ away' = TRUE
  /\ UNCHANGED <<server, sub, id, table, view, mixed>>

-----------------------------------------------------------------------------
(* The server by itself.                                                    *)

(* A job succeeds with its effect on the storage, or fails.                 *)
FinishJob(i) ==
  /\ job[i].st = "running"
  /\ \E st \in Final :
       /\ job' = [job EXCEPT ![i] = [st |-> st, of |-> job[i].of]]
       /\ done' = IF st = "success" THEN done \cup ({job[i].of} \ {Nothing})
                                    ELSE done
  /\ UNCHANGED <<nextId, restarts, sub, id, poll, table, view, away, mixed>>

(* A finished job is forgotten after a minute.                              *)
Expire(i) ==
  /\ job[i].st \in Final
  /\ job' = [job EXCEPT ![i] = NoJob]
  /\ UNCHANGED <<nextId, done, restarts, sub, id, poll, table, view, away, mixed>>

(* Every other call, of this page or another, takes an id too.              *)
OtherCall ==
  /\ nextId < MaxId
  /\ nextId' = nextId + 1
  /\ job' = [job EXCEPT ![nextId + 1] = [st |-> "running", of |-> Nothing]]
  /\ UNCHANGED <<done, restarts, sub, id, poll, table, view, away, mixed>>

(* Jobs and the id counter live in memory.                                  *)
Restart ==
  /\ restarts < MaxRestarts
  /\ restarts' = restarts + 1
  /\ nextId' = 0
  /\ job' = [i \in Ids |-> NoJob]
  /\ UNCHANGED <<done, sub, id, poll, table, view, away, mixed>>

-----------------------------------------------------------------------------
Submission(r) ==
  \/ Submit(r) \/ StartJob(r) \/ StoreUpload(r)
  \/ AssignJobId(r) \/ UploadDone(r) \/ SubmitFails(r) \/ SubmitRefused(r)

Polling(r) ==
  \/ Tick(r) \/ ServeStatus(r)
  \/ AnswerStatus(r) \/ PollFails(r) \/ PollRefused(r)

Viewing ==
  \/ \E f \in Folders : Open(f)
  \/ Close \/ ServeList \/ ShowList \/ ListFails \/ ListRefused

Serving == (\E i \in Ids : FinishJob(i) \/ Expire(i)) \/ OtherCall \/ Restart

Next ==
  \/ \E r \in Requests : Submission(r) \/ Polling(r)
  \/ Viewing \/ Reload \/ Serving

Spec == Init /\ [][Next]_vars

(* Timers fire, the browser ends every request with an answer or an error,  *)
(* a job ends, and the login page that a 401 leads to leaves the page.      *)
Fairness ==
  /\ \A r \in Requests :
       /\ WF_vars(Tick(r))
       /\ WF_vars(AnswerStatus(r) \/ PollFails(r) \/ PollRefused(r))
       /\ WF_vars(AssignJobId(r) \/ UploadDone(r) \/ SubmitFails(r) \/ SubmitRefused(r))
  /\ \A i \in Ids : WF_vars(FinishJob(i))
  /\ WF_vars(away /\ Reload)

FairSpec == Spec /\ Fairness

-----------------------------------------------------------------------------
(* Properties.                                                              *)

(* A listing on the screen has the effect of every operation the page calls *)
(* successful, in whatever order job, status, navigation and earlier loads  *)
(* went; only an entry mixed up with another's is excepted.                 *)
ListingShowsSuccesses ==
  list.st = "shown" =>
    \A k \in Keys : result[k] = "success" => req[k] \in list.shown \cup mixed

(* What the page calls successful did happen, and while the server has not  *)
(* been restarted, no entry is mixed up with another.                       *)
SuccessIsReal ==
  /\ \A k \in Keys : result[k] = "success" => req[k] \in done \cup mixed
  /\ restarts = 0 => mixed = {}

(* An entry shown as pending has a request or a polling that will end it,   *)
(* unless the page is about to be left for the login.                       *)
PendingIsWatched ==
  \A k \in Keys : result[k] = "pending" =>
    \/ away
    \/ \E r \in Uploads : k = UploadKey(r) /\ sub[r] \in {"sent", "served"}
    \/ \E r \in Requests \ Uploads : k = JobKey(id[r]) /\ poll[r].st # "off"

(* A final result stays as long as the page, unless a restarted server      *)
(* gives the id out again.                                                  *)
FinalStays ==
  [][\A k \in Keys :
       result[k] \in Final /\ restarts = 0 => result'[k] \in {result[k], "none"}]_vars

(* No entry is pending for ever, whatever is lost, restarted or refused.    *)
PendingEnds ==
  \A k \in Keys : result[k] = "pending" ~> result[k] # "pending"
=============================================================================
