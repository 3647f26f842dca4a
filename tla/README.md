# RClone-on-Cloud: a TLA+ verification project

RClone-on-Cloud serves rclone to a browser: a Web API (Go) runs rclone and keeps
its configuration encrypted in MongoDB, a CLI (Go) runs rclone commands on the
same configuration, and a Web UI (Angular) browses remotes and submits jobs.
This directory models the parts of it that keep state and interact, checks them
with TLC on small instances, and proves the main safety properties with TLAPS
for every size.

1. [Inventory](#1-inventory) 2. [Modules and the code](#2-modules-and-the-code)
3. [Runs](#3-runs) 4. [Proofs](#4-proofs)
5. [Where code and documents disagree](#5-where-code-and-documents-disagree)
6. [What is not modelled](#6-what-is-not-modelled) 7. [Plan](#7-plan)

## 1. Inventory

Paths are relative to `src/apps`.

| component | state | operations | interacts with |
|---|---|---|---|
| config storage `web-api/rclone/configs/mongodb/mongoconfig.go` | decrypted copy `data` under an RWMutex, cancel function of the watcher; the collection itself; the change stream | Load, Save, SetValue, DeleteKey, DeleteSection, reads, StartWatching, StopWatching, the watcher goroutine | MongoDB, other processes through it, rclone's config package |
| Web API life cycle `web-api/main.go` | where main() is, the signal context | connect, load, watch, serve, drain, save, exit | config storage, all handlers |
| CLI `cli/cmd` | the same for a CLI run | initRuntime, atexit, migrate, dump | config storage |
| login and refresh `web-api/auth` | refresh tokens in memory; cookies in the browser | login, callback, refresh | Google, the Web UI |
| RC API `web-api/rclone/handler.go, proxy.go` | none of its own; reads the config copy and rclone's job table | validate, call, start a job, serve a file | rclone, config storage |
| rate limiter `web-api/shared/security` | one token bucket per address, forgotten after three idle minutes | request, clean-up | every request |
| Web UI auth `web-ui/src/app/auth` | access token in the NgRx store, PKCE cookie, saved path in localStorage | home, login and callback page | Web API, other tabs |
| Web UI HTTP `content-page/interceptors, services` | cached responses | request, answer, expiry, 401 | Web API |
| Web UI jobs `content-page/store/jobs` | the table of jobs and their results | submit, assign id, poll, finish | Web API |
| folder listing `content-page/folder-list-view` | route, listing, pending keys of its subscription, display option, sorting | load, reload when a job ends, navigate, sort | jobs, dialogs, Web API |
| dialogs `content-page/store/dialogs` and the dialog components | the stack of requests, the open `<dialog>` elements | open, close, confirm, Escape | jobs, browser history |
| file viewer `content-page/file-viewer` | current request, content, blob URL | load, show, close | dialogs, HTTP cache, Web API |
| results `shared/results` | values | pending, success, failure | everything above |
| themes, PWA, layout | small local state | | |

They interact in three places.  Processes (Web APIs and CLI runs) share one
collection and hear of each other's writes through the change stream.  The
browser talks to a Web API over HTTP, where requests are refused, lost, and
answered out of order.  In the browser, one JavaScript thread runs the stores
and components, which react to each other within one task and interleave only
at answers and timers.

Hard behaviour, in order of importance: processes that learn of each other's
writes late (lost updates, echoes, gaps, crashes in the middle of a Save); token
rotation with failures between its steps and races of one token; jobs that
finish, expire, are forgotten or change identity while a browser polls them; a
listing loaded by navigation and by several jobs at once; a dialog stack driven
from several places, that outlives the page it belongs to; logins of two tabs
through shared cookies; a bucket that is forgotten and made again.
`PROJECT.json` lists these hazards at their lines.

What makes each component correct:

- config storage: a copy that watches is the collection's latest state up to
  events on their way and own edits; a Save writes one consistent copy; a Save
  never undoes what its process has seen of others; a quiet system converges.
- auth: a refresh token is redeemed at most once, a session has one valid token
  at a time, and it ends only through a failure that can be named.
- jobs and listing: what the page calls successful did happen and is in the
  listing it shows; a final result stays; nothing is pending for ever.
- rate limiter: no window of time lets more through than burst plus refill.
- dialogs: what is shown is what was asked for last and not yet closed, and
  its job names the item and the place the user meant, in rclone's terms.
- folder pages: every way to a folder shows that folder, all of its rows, in the
  order asked for.
- file viewer: it shows the file asked for last, by a URL that is alive, and
  keeps no other blob.
- login: a login nothing came between is accepted and returns to where it left.

## 2. Modules and the code

| module | what it is |
|---|---|
| `MongoStorage` | the shared configuration: storage, change stream, life cycle of the processes |
| `Sessions` | abstract: one table of login sessions, each with one key at a time |
| `AuthSessions` | login grant, refresh, the in-memory token store of each instance; implements `Sessions` |
| `LoginFlow` | tabs of one browser on their way through login, Google and callback |
| `TokenBuckets` | abstract: one bucket per address, from the beginning |
| `RateLimiter` | the limiter with its map, mutex and cleaning goroutine; implements `TokenBuckets` |
| `Jobs` | jobs store and effects, folder listing, rclone's job table |
| `Paths` | operators: routes, breadcrumbs, joined and split paths |
| `WebApi` | operators: the calls of `web-api.service.ts`, and what rclone does with them |
| `FolderRows` | operators: the order of the rows |
| `Dialogs` | the folder pages and dialogs, on top of `Paths`, `WebApi`, `FolderRows` |
| `Results` | operators: pending, success, failure |
| `FileViewer` | the viewer, its store, blob URLs, the HTTP cache |
| `MongoStorage_proofs`, `AuthSessions_proofs`, `RateLimiter_proofs`, `Jobs_proofs`, `LoginFlow_proofs`, `Dialogs_proofs`, `FileViewer_proofs` | inductive invariants and theorems |
| `FolderPages_proofs` | what the operators of `Paths`, `WebApi` and `FolderRows` return, by induction over texts and lists |
| `MC...` | constants and symmetry of the instances TLC checks |

`PROJECT.json` ("map") names the source lines of every definition.  A definition
under "Mutant of ..." is a wrong variant that a property is tried against; no
specification uses it.

Where two modules meet: `Dialogs` turns a confirmed dialog into the request that
`Jobs` follows to its end; `FileViewer` sees the stack of `Dialogs` as requests
of its own and of others; `LoginFlow` ends with the verified user `AuthSessions`
starts from; the refusal (401) that takes a page away in `Jobs` and `FileViewer`
is where a login of `LoginFlow` begins.

### MongoStorage

State: `db` is the collection, one document or `Absent` per section; a document
maps keys to values together with the key they were encrypted under.  Per
process: `cache` is `MongoStorage.data`; `phase` is where `main()` or
`initRuntime` stands; `used` tells whether rclone has made its own first load of
the store (`config.SetData` makes it forget the one `main()` did); `watch` and
`stream` are the change-stream goroutine and the events it has not applied;
`waiting` has the processes whose goroutine has an event in hand and waits for
the write lock.
`save[t]` is the Save goroutine `t` is in.  `edited`, `missed` and the fields
`touched`, `failed`, `synced` of a Save are history variables: no guard reads
them.

Actions, one per operation, or one per driver call where an operation makes
several: `Load`, `FirstUse` (rclone's load), `StartWatching`, `StartUnwatched`
(the CLI only warns), `Signal`, `Die`; `SetValue`, `DeleteKey`, `DeleteSection`
under the write lock; `BeginSave` or `BeginExitSave` (the deferred one), then
`Upsert`, `DeleteStored`, `DeleteFails`, `EndSave`, `UpsertFails`;
`Receive`, `ApplyEvent`, `WatcherEnds`.  The RWMutex is two conditions.
`LockFree`: Saves of one process share the read lock and overlap, mutators and
the watcher wait for them.  `ReadFree`: a Save does not begin while the watcher
waits, because a waiting writer of a Go RWMutex keeps new readers out.  Only the
watcher waits in the model; an edit or a Load happens when the lock is free,
which includes those that asked before the watcher did.
`migrate` is `SetValue` and `BeginSave` of a CLI run that rclone has not made
load the store (`InUse`).

Abstractions.  Load's query, and the listing of ids in Save, are one read: the
collection fits one batch.  Nonces are left out, but an upsert of an unchanged
section still makes a new document and an event.  `UpsertFails` covers an error
before and after the write took effect, because `Upsert` may come first.  A
cursor error while ids are listed gives any subset of them.

### Sessions and AuthSessions

`Sessions` promises one table: per session the key that is valid (`key`), or the
account it is being turned for (`turning`), or neither, for good; `drawn` are the
keys there have been.  `Open` is a login, `Turn` and `Renew` the two halves of a
refresh, `EndSome` whatever ends sessions.  `AuthSessions` has what the code has.

State: `store[i]` is the `tokens` map of instance `i`, `allowed[i]` the accounts
its configuration admits, `req[r]` the handler that serves a request and how far
it is, `given` the tokens that reached the client.  The history variables are
`session` and `owner` (the login a token descends from, and whose it was),
`redeemed` and `disturbed` (sessions hit by a failure, a lost answer or a
restart).

Actions follow `handleCallback` from the verified user on (`LoginArrives`,
`GrantLogin`, `RefuseLogin`) and `handleRefresh` call by call (`RefreshArrives`,
`Redeem` or `RefuseRefresh`, `StoreRotated`, `SignRotated`), with `Fail` at each
step that can fail, `Deliver` or `Lose` for the answer, and `Restart`, which
empties the map and may bring another allow list.  A user stands for a pair of
subject and e-mail.  The access token's lifetime is left out here.

### LoginFlow

State: per tab, the page it is at, the place its content page shows, whether its
token is one the API accepts, its open requests, the login it is in and the
callback request it has posted; shared by the tabs, the cookies
`oauth_verifier` and `oauth_state` and `localStorage.auth_redirect_path`
(`saved`); at Google, the logins drawn and the codes used.  A login stands for
the state, the verifier and the code drawn for it.  `left`, `spoilt` and
`disturbed` are history.

A tab begins a login from the home page (`HomeLogin`), by a 401 (`Refused`), by
a 401 of the callback page (`ExchangeFails`), or anew (`StartOver`,
`LandOnLogin`).  `LeavePage` writes the verifier cookie when the digest is
there, `HandleLogin` is the API's redirect with the state cookie, `Consent` the
callback page up to its request, `Forbid`, `ExchangeFails`, `Disallow`,
`LandOn...` the handler's ways out in the order of its checks, with the page's
reaction.  The callback page deletes the verifier cookie without the path '/' it was
set with, so `Post` leaves it where it is, and a failed page that is loaded again
(`Reload`) posts it once more.  A request that is given up or whose answer is lost
may have been served all the same, its code spent and the state cookie cleared
(`MayBeServed`).  `RefusedLate` is the interceptor of a request that ends when the
route is the login already; `CookieExpires` may come at any time (`HandleLogin`
gives the state five minutes; the verifier's 300 are days).  The
router's second encoding of a saved path is `Target`: a place in `Odd` (one whose
URL the browser percent-encodes) becomes another, `Garbled`.

### TokenBuckets and RateLimiter

`TokenBuckets` promises a bucket of `Burst` tokens per address that is there
from the beginning and regains one token per tick.  `RateLimiter` has what the
code has: a map from addresses to limiters under a mutex (`Find`, `Make`), the
limiter asked after the mutex is released (`Allow`, `TooMany`), and a goroutine
that deletes what was not seen for `IdleLimit` (`Clean`).  A tick is the 200 ms in
which a limiter regains a token, so the code's values are `Burst` = 20 and
`IdleLimit` = 900; fractions of a token are left out.  `MaxHold` bounds the time
between a handler's `getVisitor` and its `Allow`, two calls in a row: the model
assumes it does not exceed `IdleLimit - Burst`, that is 176 seconds.  `debt` is
history: it grows with each request let through and falls by one per tick, so it
is the largest excess of any window that ends now.

### Jobs

State of the server: `nextId`, `job` (rclone's job table), `done` (what has
taken effect on the storage).  Requests on their way: `sub[r]` (a submission),
`poll[r]` (the polling `pollJobStatus$` runs for it).  State of the page: `req`
and `result` (`JobState`), `folder`, `tracked` (`pendingFiles` of the
subscription) and `list` (the items of `FolderListViewStore`), `away` (a 401 has
navigated to the login).  `mixed` is a history variable.

A JavaScript task is one action: `AssignJobId`, for instance, is the answer, the
reducer, `startPolling$` and the view's reaction (`Follow`).  An HTTP request
passes "sent" and "served"; it can fail in both, and a server may act on a
request its page has given up ("orphan").  A 401 is an answer that never comes
(`EMPTY` in the interceptor) followed by the login page, which leaves the page
(`Reload`).  Job ids start again at 1 after `Restart`; `OtherCall` is every
other call of rclone, which takes an id too.

Abstractions.  A listing is the set of operations whose effect was on the
storage when the server read it, so "the listing shows r" needs no paths.  A job
that fails has no effect.  A status request answered by another instance, which
does not know the job, gives the page what `PollFails` gives it.  After a 401
the server may accept later requests of the page; the real one refuses them
until the login.

### Dialogs, with Paths, WebApi and FolderRows

State: the page and its route (`here`, what `REMOTE_PATH$` emits), display option
and sort of the rows, `requests` (the stack of the dialogs store) and `open` (the
`<dialog>` elements that are open).  History: `meant` is the folder the user
went to, `asked` the dialog he opened and has before him, `job` what a step has
submitted beside what it should do.

The stack and the elements are two things.  A dialog opens when a request of its
kind comes to the top and closes when another takes its place (`Shown`); but
Escape, and the submission of a form with `method="dialog"`, close the element
and leave the stack alone, and the stack outlives the page (`Mounts`).  So
`Cancel`, `Dismiss`, `ConfirmDelete`, `PressEscape`, `CloseViewer` and
`ClickBesideViewer` (two pops) differ in what they take away.

A text is a sequence of tokens: the marks the code or a URL looks for (slash,
colon, blank; `UrlMarks`) and stretches of other characters.  `Paths` says what the code builds and
cuts; `WebApi` has an operator per method of the service and `Effect`, what
rclone does with such a call.  The property compares that with the place the user
means, a remote and a list of names, so a path that is joined, cut or encoded
wrongly on the way is seen as a job on another item.  `FolderRows` is the sort of
the table: a row's place is one more than the rows ahead of it, by the comparator
and, among equals, by the server's order; the cards take the server's order.

Base64 stands for its text, because it is read back as written; what matters
about it, that it may contain a slash, is the set `Slashed` (it takes certain
characters at certain offsets: a question mark as every third byte, or letters
outside ASCII).  The viewer puts a path into its URL as it is:
`SeenPath` is the path the server then sees, without what follows "#" or "?",
without tabs and a blank at the end, with `%XX` decoded and a backslash turned
into a slash, and `UrlRefused` the lone percent sign Go's parser rejects.  The constants say
what a storage can hold: the name of a remote is one token other than a slash or
a colon (rclone allows neither), an item of a listing has at least its own name,
names are not empty and contain no slash, and an uploaded file has a name.

### FileViewer, with Results

State: the dialog stack as the viewer sees it, `current`, `content`, what the
template last read (`details`, a computed signal that runs again only when the
content changes), `url` and `live` (blob URLs made and not revoked), `loads` and
the cache of `HttpCacheService` with the life left of each answer.  A load passes
the interceptors: a cached answer arrives within the task, a 401 sends the page
to the login and ends the load without a result, any other answer is cached for
`Ttl`.  `Replace` is a job that changes the file; `since` (history) counts how
long the version of an answer has been out of date.  A version is the one the
server had when it answered, and an answer is on its way for less than a tick:
what `StaleForLessThanTtl` says is the time in the cache, to which a slow download
adds its own.  The text viewer's `blob.text()` is left out: it is awaited without
regard to order, so of two files opened quickly after each other an older text
can stay under the newer name.

## 3. Runs

Every property of a passing run has a mutant in `PROJECT.json`: a plausible bug
in a mapped definition with which TLC finds the property violated.

| run | instance | what it shows |
|---|---|---|
| `config_two_processes` | `MCMongoStorage.cfg`: two processes, one goroutine each | watched copies, consistent Saves and caught-up Saves under every interleaving with the other process |
| `config_overlapping_saves` | `MCMongoGoroutines.cfg`: a Web API with two goroutines in Save and a CLI run with another encryption key, with fairness | Saves of one process overlap under the read lock without harm; Load is all or nothing; a watcher ends up with what the collection holds even if Saves never cease to overlap |
| `auth_two_instances` | `MCAuthSessions.cfg`: 2 instances, 2 users, 3 tokens, 2 requests | sessions never fork, end only for named reasons, and a dead token stays dead; the instances look like one table: the refinement of `Sessions` |
| `login_tabs` | `MCLoginFlow.cfg`: 2 tabs, 2 logins, 3 places, one of them in `Odd` | a login nothing came between is accepted, at the first try or after a reload, and returns to where it left |
| `rate_limiter` | `MCRateLimiter.cfg`: 2 addresses, 2 handlers, 3 limiters, burst 3 | forgetting buckets is not observable: the refinement of `TokenBuckets` |
| `jobs_two_jobs` | `MCJobs.cfg`: 2 jobs, 2 ids, 1 restart | no false success, no stale listing, and mix-ups only after a restart |
| `jobs_upload_two_folders` | `MCJobsUpload.cfg`: a job, an upload, 2 folders, 1 restart, with fairness | the same across navigation, and nothing is pending for ever |
| `dialogs` | `MCDialogs.cfg`: 2 remotes, 11 items, some with awkward names, 2 requests on the stack | one dialog at most, the one asked for; its job is what was asked; ways to folders and sorting |
| `file_viewer` | `MCFileViewer.cfg`: 2 files, 3 requests on the stack, life of 3 ticks, with fairness | the file asked for under a live URL, no leak, bounded staleness, no endless spinner |
| `finding_*` | three runs that each end in a violation | section 5 |

Bounds and why they are enough.

- The configuration hazards need two writers of one section, or one writer and a
  reader that lags: two processes, two sections (one where two goroutines save),
  one key and one value.  A section is there, is empty or is absent, and each
  behaviour starts from any of these, so one edit (`MaxEdits` = 1) tells a copy
  from the collection.  `MaxWrites` bounds the writes and the Saves under way at
  the time a Save begins: 2 let a Save of each process overlap, or one follow
  another, and 3 let both goroutines and the CLI do so.  Saves that write nothing
  (an empty store, an error at the first upsert) are not bounded: they may overlap
  without end, which is what `WatcherCatchesUp` needs.  The streams need no bound
  of their own, since only writes fill them.
- Token races need two requests with one token and a third token for what the
  winner gets; a second session of the same user needs no more.
- Two tabs share every cookie that more would share; two logins are one each, or
  two of one tab in a row.  `MaxOpen` = 1: a second request on its way only
  repeats what the first can do.  A login that could draw no new name stops
  there, but every other action goes on.
- A limiter that is forgotten while another handler holds it needs two handlers
  on one address; a third limiter is what `Make` takes.  `IdleLimit` = `Burst` +
  `MaxHold` is the tightest case the assumption admits.  The proof removes the
  bounds.
- A mix-up of jobs needs one id given twice, so two requests and one restart;
  three ids add no new kind of step.
- Dialogs come back from below the top, so the stack needs two requests
  (`MaxStack` = 2); dialogs are opened for three items (`Touched`): a file below a
  folder, a folder in the other remote below a name that breaks links, and a file
  whose name breaks its URL.  Clicks go to all eleven.  The viewer needs three: a
  file, another dialog's request, a file.
- Three blob URLs: one shown, one being made, one leaked by a mutant.  `Ttl` = 3
  ticks leaves room between a replacement, a hit and the expiry.

No run switches the deadlock check off: processes can always end and start, a
page can always be reloaded, an instance restarted.

Fairness.  `MongoStorage`: weak fairness for a goroutine inside Save (the driver
answers or fails within its context), for `Receive` and for `ApplyEvent`.  No
strong fairness is needed for the lock: `ReadFree` keeps new Saves out while the
watcher waits, those under way end, and then `ApplyEvent` stays enabled.  With
the mutant that lets Saves overtake the watcher the run ends in a violation.  `Jobs`: timers fire, the
browser ends each request with an answer or an error, a job of the server ends,
and the login page leaves the page.  `FileViewer`: weak fairness for `Serve` and
`Answer`, and for leaving the page once a 401 has sent it to the login (the
router's navigation).  Nothing is assumed of users, of signals, of the network
delivering, or of the server answering well.

## 4. Proofs

`tlapm` checks every theorem for all values of the constants, under the
assumption the module names (goroutines belong to processes, the special values
are none of the others, bounds are natural numbers).

**MongoStorage_proofs.**  The inductive invariant `IInv` consists of

- `TypeOK`;
- `LifeCycle`: a watcher exists only in a started process, a process that has
  not started has no Save and no events, and a store rclone has loaded has
  missed nothing;
- `Tracks`: for every section, the newest pending event announces what the
  collection holds, and with none pending the copy is what the collection
  decrypts to, unless edited here or written between Load and StartWatching.
  This is `WatchedCopyTracksDb` without its restriction to used stores:
  restricted, it is not inductive, because `FirstUse` would have to establish it
  from nothing while events are pending;
- `SaveShape`: what a Save still has to upsert is in memory, and an id that is
  both listed and in memory is still to be upserted, which is why a delete never
  hits a section of the copy;
- `SaveWritesTheCopy` and `CaughtUpSaveKeepsOthers` themselves.

Theorems: `TypeCorrect`, `WatchedCopyCorrect`, `SaveWritesTheCopyCorrect`,
`CaughtUpSaveCorrect` and `WholeCopyCorrect` (`StartsFromAWholeCopy`, inductive
on top of `TypeOK` and `LifeCycle`).

**AuthSessions_proofs.**  `IInv` is `TypeOK`, `Chains`,
`TokensOfAllowedUsers`, `NoTwoTokensOfASession` and `SessionSurvivesRaces`.
`Chains` says that a session is named by its first token, that only issued
tokens are stored, given or held by a handler, and that a handler which has
revoked a token holds the account that owns its session.  The argument:
redeeming removes the token under the store's lock, so of several handlers that
present it one gets past `Redeem`, and the session's only valid token is then
the one that handler stores.  Theorems: `SessionTypeCorrect`,
`SessionNeverForks`, `SessionSurvivesCorrect`, `AllowedCorrect`,
`RevokedForGoodCorrect` (an action property), `OneInstanceRefusesOnlyUsed`,
which assumes a single instance that is never restarted and does not hold
without this assumption, and `AuthImplementsSessions`, the refinement.  It maps
the key of a session to the tokens of it that some instance stores, with their
accounts, and `turning` to the accounts of the handlers that have revoked one of
its tokens and not stored the next.  `GrantLogin` is `Open`, `Redeem` is `Turn`,
`StoreRotated` is `Renew`; `Restart`, `Fail` between the two halves and the steps
that touch neither are `EndSome`, which may end nothing.  `IInv` is what makes
`Turn` possible: the token redeemed is the only one of its session.

**RateLimiter_proofs.**  `IInv` is `TypeOK`, `AsksTheCurrentLimiter` and

- `OneOwner`: two addresses never share a limiter;
- `Asking`: who asks saw its address at most `held` ticks ago.  With `held` at
  most `MaxHold` and `IdleLimit` beyond it, `Clean` spares every address that is
  being asked for, so the limiter found is still the one in the map;
- `Refilled`: the limiter of an address is full or has regained a token for
  every tick the address was not seen, but for the `MaxHold` ticks in which a
  handler may still have asked.  With `IdleLimit >= Burst + MaxHold`, what
  `Clean` forgets is full, and `Make` puts a full one in its place;
- `Owed`: `debt` and the level of the limiter add up to `Burst`.

Theorems: `LimiterTypeCorrect`, `CurrentLimiterCorrect`,
`NoStretchOverBurstCorrect` and `LimiterImplementsBuckets`, the refinement.  It
maps a bucket to the level of the address's limiter, or to a full one if it has
none, and a handler to its step and address: `Find` and `Make` are `Ask`,
`Clean` is a stutter, `Tick` is `Refill`, the rest keeps its name in substance.

**Jobs_proofs.**  `IInv` is `TypeOK`, `SuccessIsReal`, `PendingIsWatched` and

- `Submitted`, `UploadEntries`, `FailEntries`: where a request stands and what
  its entry may say then; a request that is polled has an id, and that entry is
  somebody's;
- `Reported`: what the server, or an answer on its way, calls a success has taken
  effect, or is another call's;
- `IdsOnce`: before the first restart an id is one request's, and the job, the
  entry and the answer under it are that request's.  This is what a restart
  breaks, and why `SuccessIsReal` speaks of mixed entries;
- `PolledIsPending`: an entry that is polled for is pending;
- `ViewFollows`: an open view remembers everything that is pending.  So no
  success passes it by unnoticed, and whichever success comes asks for the
  listing again, which gives up the listing under way;
- `ServedShowsSuccesses`: a listing the server has read already has every
  success the page knows, the inductive form of `ListingShowsSuccesses`.

Theorems: `JobsTypeCorrect`, `SuccessIsRealCorrect`, `ListingCorrect`,
`PendingIsWatchedCorrect`, and `FinalStaysCorrect` (an action property).

**LoginFlow_proofs.**  `IInv` is `TypeOK`, `OneTabEach` (a login is one tab's) and
per tab `OwnsItsLogin` (it has a login on its way and on the callback page only,
posts that login's code and state, and the code is unused until it is back),
`Undisturbed` (so long as nothing came between, the cookies and the posted
request are this login's at each of its pages, the error page included, and the
code is good) and `Unspoilt` (the saved path is the one the tab left, so long as
nothing else has written it; a tab on the error page still counts, since it can
be loaded again and succeed).  Theorems: `LoginTypeCorrect`,
`UndisturbedLoginIsAcceptedCorrect` and `ReturnsWhereItLeftCorrect`, an action
property.  The login and callback routes are assumed to be no places of content.

**FileViewer_proofs.**  `IInv` is `NoUrlLeaks` and

- `Types`: `TypeOK`, with the bound on loads as "no two differ" in place of a
  cardinality;
- `FollowsTheTop`: the viewer has heard of the top of the stack;
- `LoadsTheCurrent`: the load under way is for the current file, because a new
  request gives up the previous load (`switchMap`).  Without this an answer that
  comes late would be shown under the name of another file;
- `DetailsOfCurrent`: what the template has read is of the current file and names
  a URL that is alive;
- `StaleWithinLife`: the time an answer has been out of date and the life it has
  left add up to `Ttl` at most.

Theorems: `ViewerTypeCorrect`, `ShowsTheFileCorrect`, `NoUrlLeaksCorrect`,
`StaleForLessThanTtlCorrect`.  Assumed: `None` is no file and no URL, and there
is always a URL that is not in use by the page's one viewer.

**FolderPages_proofs.**  The operators of `Paths` walk over texts and lists of
any length, so what they return takes induction, and tlapm cannot use the
library's induction theorems, which take a predicate.  `NumberInduction` and
`ListInduction` have a set in its place; they rest on `LeastNumber`, which follows
from the strict subsets of a finite set being well-founded.  An operator that
recurses is first shown to do its steps (`SplitAppend`, `JoinAppend`,
`NonEmptyAppend`): the function it defines exists by induction, and any two that
take the same steps agree (`SameSteps`).  From that come the facts about texts:

- `SplitJoin`, `PathOfNames`: names joined to a path and split again are the same
  names;
- `DecodeEncode`: a route read back is its remote and its path up to the first
  colon of it;
- `CrumbsAreOfPlaces`: every breadcrumb links to the path of a place;
- `NamesOfJoined`, `NamesOfCut`, `NamesOfUpload`: where joined, trimmed and split
  paths lead;
- `Leads`: where rclone is led by the texts of a call.

`SortedRowsInOrder` says, for any rows without repetition and any ranks of names,
that `SortedRows` returns each row once, in the order of the comparator, and equal
rows in the order they came in.  It rests on `AheadIsTotal`: the comparator with
the positions as a tie-break is a strict total order, so the places (one more
than the number of rows ahead) are a permutation.

**Dialogs_proofs.**  Three invariants, each inductive:

- `IInv`: the types of `page` and `requests`, `WhatWasAskedIsShown`, and
  `OneIsOpen`: what is open belongs to the page that is mounted, is one dialog
  at most, and is the one for a new folder or that of the top request.  The new
  folder's dialog is on no stack, so "only the top is open" does not say this by
  itself;
- `RoutesLead`: on a folder page, what is open is the route of the place the user
  means, written and read back; on other pages he means nothing, or a link broke.
  It says so of awkward places too, where the route is read back as another:
  the breadcrumbs of such a page must still lead to places, and `ArrivesWhereMeant`,
  which excludes those pages, could not tell;
- `AskedHere` (on top of `IInv`): what was asked for is a row of the folder that is
  open since, and the stack stays within its bound.

A dialog the user has asked for is therefore about a row of the open folder, whose
path leads to it (`RowIsAt`); and an open folder without an awkward name on the
way is the one meant (`MeantIsHere`).  With where each call leads rclone
(`DeleteDeletes`, `MoveAndCopy`, `MkdirPuts`, `UploadPuts`, `GetGets`), each
submission does what was wanted.  Theorems: `TypeCorrect`,
`OnlyTheTopIsOpenCorrect`, `DialogsOfThePageCorrect` (no dialog of a page survives
it), `WhatWasAskedIsShownCorrect`, `RowsInOrderCorrect`,
`ArrivesWhereMeantCorrect`, `JobsDoWhatWasAskedCorrect`.

Only model-checked: the liveness properties `WatcherCatchesUp`, `PendingEnds` and
`LoadEnds`, which are out of the prover's reach.

## 5. Where code and documents disagree

Three runs end with a counterexample; `PROJECT.json` quotes the sentence.

- `finding_deletes_unseen_section`: Save deletes sections this process never had
  in memory, where the comment speaks of sections removed from memory.
- `finding_deletes_another_item`: "Yes" and Escape leave the request of the
  delete dialog on the stack.  When it comes up again on a folder of another
  remote, the dialog shows the old item, and its job takes the remote of the page
  that is open and the path of the item shown.  The dialog asks about "this
  file".  The other dialogs build their jobs the same way, but take their own
  request away when they are confirmed.
- `finding_redirect_encoded_twice`: the saved path is `location.pathname`, which
  the browser has percent-encoded, and `navigate([path])` encodes it again; the
  test says that the page navigates to the saved path.

Disagreements the modules state, without a run of their own:
`OnlyExternalChangesPropagate` (the watcher applies the process's own writes as
well and so takes back an edit made after a Save), `SuccessfulSaveDeletes` (a
failed `DeleteOne` is not reported, and the section comes back with the next
Load), `OnlyUsedTokensAreRefused` (a refresh token is good only at the instance
that issued it and until that restarts, where the README calls the service
stateless; rclone's job table has the same limits).

Seen while modelling, and excluded from a property by name:

- A path is cut at its second colon (`Decode`), so a folder with a colon in its
  name shows another folder, and uploads go there: `Awkward`.
- Breadcrumbs and remote cards give a link as one string; if the base64 of the
  path contains a slash, the link leads nowhere: `Awkward`, `LinkBreaks`.
- The path of a file goes into the URL of its content unescaped.  "#" or "?" ends
  it, `a%20b` fetches `a b`, a lone percent sign is a bad request, a backslash
  becomes a slash, a tab or a blank at the end is dropped: `BreaksUrl`.
- The callback page deletes the cookie `oauth_verifier` for its own path, while the
  login page sets it for '/': it stays, and is overwritten by the next login.  No
  property depends on the deletion.
- An answer that arrives after the viewer has closed makes `details` the raw
  blob, without name and URL, until the next file: `ShowsTheFile` is about an
  open viewer.
- A second 401 that arrives when the route is the login already saves the login
  page as the path to return to; the login then begins again at its end
  (`LandOnLogin`): `spoilt`.

## 6. What is not modelled

- JWT signing and verification, PEM parsing, CORS, health, telemetry: library
  calls or headers without state of their own.  That a token expires is in
  `LoginFlow`.
- `dump`, which only reads the store, and the file `migrate` reads.
- Validation of RC requests: checks of one request, without state.  Names
  and destinations are taken to be free of "." and ".." as parts: such a ".." is
  refused by `validateRemoteParam`, and rclone drops a ".".
- `combineResults`, `combineResults2`, `switchMapResultToResultRxJs`,
  `mapResultToResult`, `mapResultToResultRxJs` and `fromResult`: no other code
  uses them.  `HttpCacheService.invalidate` and `clear` are never called.
- The dropdown that sorts the cards: it sets a value the cards do not read.
- Viewers of single file types (and the race of `blob.text()` in the text viewer,
  section 2), menus, templates, themes, PWA update: rendering, or one setting.
- Cryptography: GCM is taken to authenticate, HMAC and PKCE to be unforgeable.
- MongoDB, rclone, Google and the browser: modelled only as far as the code uses
  them, and marked external in the map.

## 7. Plan

Done: every module of state has its inductive invariant; the safety and action
properties of all passing runs are proved; two refinements (`TokenBuckets`,
`Sessions`) are proved.  Left:

1. `ConfigSpec`: the shared configuration as one map that processes see late, and
   a refinement mapping from `MongoStorage` without concurrent writers.
2. `JobList`: what the jobs page promises of a submission, and a refinement mapping
   from `Jobs` up to the first restart.
