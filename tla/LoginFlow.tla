------------------------------ MODULE LoginFlow ------------------------------
(***************************************************************************)
(* Logging in from several tabs of one browser: the interceptor that sends *)
(* a refused page to the login, the login and the callback page            *)
(* (src/apps/web-ui/src/app/auth, content-page/interceptors), and          *)
(* handleLogin and handleCallback up to the verified user                  *)
(* (src/apps/web-api/auth/auth.go).  AuthSessions has what follows.        *)
(*                                                                         *)
(* The tabs share two cookies and one entry of localStorage.  A tab keeps  *)
(* its token in memory and loses it, with the requests on their way, when  *)
(* it leaves its document.  A login stands for the state, the verifier     *)
(* and the code drawn for it.                                              *)
(***************************************************************************)
EXTENDS Naturals, FiniteSets

CONSTANTS
  Tabs,
  Places,      \* paths of content pages
  Remotes,     \* '/remotes', one of them
  Odd,         \* those the browser shows with a percent sign: folders whose
               \*   base64 has a '+' or a '/'
  Logins,      \* a bound for TLC; drawn at random, so never twice
  None,
  MaxOpen      \* bound: requests of a tab on their way

LoginPath    == "/auth/v1/google/login"
CallbackPath == "/auth/v1/google/callback"
Garbled      == "/folders/%25"   \* what no page was left at
Locations    == Places \cup {Garbled}
Paths        == Locations \cup {LoginPath, CallbackPath}

(* What a callback request carries: a code and a state, the verifier, and   *)
(* the state cookie.                                                        *)
Posts == [login : Logins, verifier : Logins \cup {None}, cookie : Logins \cup {None}]

(* Neither page of the login is a content page.                             *)
ASSUME LoginConstants ==
  /\ Remotes \in Places \ Odd /\ Odd \subseteq Places
  /\ Places \cap {LoginPath, CallbackPath} = {}
  /\ None \notin Paths \cup Logins \cup Posts
  /\ MaxOpen \in Nat

VARIABLES
  at,         \* the page of a tab; "leaving": sent to the API's login, not yet
              \*   gone; "failed": the callback page shows an error
  place,      \* where the content page is, or was
  token,      \* AuthState.authToken is one the API accepts
  open,       \* requests of the page on their way
  login,      \* the login a tab is in
  post,       \* the callback request of a tab
  verifier,   \* cookie oauth_verifier
  state,      \* cookie oauth_state
  saved,      \* localStorage.auth_redirect_path
  drawn,      \* logins begun
  used,       \* codes Google has exchanged
  left,       \* history: where the login of a tab took it away from
  spoilt,     \* history: saved was written meanwhile
  disturbed   \* history: a cookie was touched meanwhile or has expired, or
              \*   the code is spent

tab     == <<at, place, token, open, login, post>>
browser == <<verifier, state, saved>>
google  == <<drawn, used>>
history == <<left, spoilt, disturbed>>
vars    == <<tab, browser, google, history>>

Pages == {"home", "content", "login", "leaving", "consent", "callback", "failed"}

TypeOK ==
  /\ at \in [Tabs -> Pages] /\ place \in [Tabs -> Locations]
  /\ token \in [Tabs -> BOOLEAN] /\ open \in [Tabs -> 0..MaxOpen]
  /\ login \in [Tabs -> Logins \cup {None}] /\ post \in [Tabs -> Posts \cup {None}]
  /\ {verifier, state} \subseteq Logins \cup {None} /\ saved \in Paths \cup {None}
  /\ used \subseteq drawn /\ drawn \subseteq Logins
  /\ left \in [Tabs -> Locations]
  /\ spoilt \in [Tabs -> BOOLEAN] /\ disturbed \in [Tabs -> BOOLEAN]
  /\ \A t \in Tabs : at[t] \in {"callback", "failed"} <=> post[t] # None

Init ==
  /\ at \in [Tabs -> {"home", "content"}] /\ place \in [Tabs -> Places]
  /\ token = [t \in Tabs |-> FALSE] /\ open = [t \in Tabs |-> 0]
  /\ login = [t \in Tabs |-> None] /\ post = [t \in Tabs |-> None]
  /\ verifier = None /\ state = None /\ saved = None
  /\ drawn = {} /\ used = {}
  /\ left = place
  /\ spoilt = [t \in Tabs |-> FALSE] /\ disturbed = [t \in Tabs |-> FALSE]

Set(f, t, v) == f' = [f EXCEPT ![t] = v]

(* A callback page that has failed can be loaded again.                     *)
LoggingIn(t) == at[t] \notin {"home", "content"}

(* saved changes under the logins of the tabs in ts.                        *)
Spoil(ts) == spoilt' = [t \in Tabs |-> spoilt[t] \/ (t \in ts /\ LoggingIn(t))]

(* Tab u touches a cookie the others may be about to use.                   *)
Disturb(u) ==
  disturbed' = [t \in Tabs |-> disturbed[t] \/ (t # u /\ LoggingIn(t))]

(* A tab that has left its document starts with an empty store.             *)
NewDocument(t) == Set(token, t, FALSE) /\ Set(open, t, 0)

(* Mutant of OpenLogin: a callback page that is left keeps its request.     *)
OpenLoginSubscribed(t, l) ==
  /\ l \notin drawn
  /\ drawn' = drawn \cup {l}
  /\ Set(at, t, "login") /\ Set(login, t, l) /\ UNCHANGED post

(* LoginPageComponent.ngOnInit up to its await.                             *)
OpenLogin(t, l) ==
  /\ l \notin drawn
  /\ drawn' = drawn \cup {l}
  /\ Set(at, t, "login") /\ Set(login, t, l) /\ Set(post, t, None)

-----------------------------------------------------------------------------
(* The content pages.                                                       *)

(* A link inside the application, or an address that is typed in.           *)
Visit(t, p) ==
  /\ at[t] = "content" /\ p # place[t]
  /\ Set(place, t, p)
  /\ UNCHANGED <<at, token, open, login, post, browser, google, history>>

OpenUrl(t, p) ==
  /\ at[t] # "content"
  /\ Set(at, t, "content") /\ Set(place, t, p) /\ NewDocument(t)
  /\ Set(login, t, None) /\ Set(post, t, None)
  /\ UNCHANGED <<browser, google, history>>

OpenHome(t) ==
  /\ at[t] # "home"
  /\ Set(at, t, "home") /\ NewDocument(t) /\ Set(login, t, None) /\ Set(post, t, None)
  /\ UNCHANGED <<place, browser, google, history>>

(* The status requests of the jobs go on when the route has changed.        *)
Running(t) == at[t] \in {"content", "login", "leaving"}

Request(t) ==
  /\ Running(t) /\ open[t] < MaxOpen
  /\ Set(open, t, open[t] + 1)
  /\ UNCHANGED <<at, place, token, login, post, browser, google, history>>

(* Answered, failed, or given up by its page.                               *)
Ends(t) ==
  /\ open[t] > 0
  /\ Set(open, t, open[t] - 1)
  /\ UNCHANGED <<at, place, token, login, post, browser, google, history>>

TokenExpires(t) ==
  /\ token[t]
  /\ Set(token, t, FALSE)
  /\ UNCHANGED <<at, place, open, login, post, browser, google, history>>

Pathname(t) == IF at[t] = "content" THEN place[t] ELSE LoginPath

(* A 401 takes a content page to the login.                                 *)
Refused(t, l) ==
  /\ at[t] = "content" /\ open[t] > 0 /\ ~token[t]
  /\ Set(open, t, open[t] - 1)
  /\ saved' = Pathname(t)
  /\ OpenLogin(t, l)
  /\ Set(left, t, place[t])
  /\ spoilt' = [u \in Tabs |-> u # t /\ (spoilt[u] \/ LoggingIn(u))]
  /\ Set(disturbed, t, FALSE)
  /\ UNCHANGED <<place, token, verifier, state, used>>

(* A 401 that finds the page at the login already.                          *)
RefusedLate(t) ==
  /\ at[t] \in {"login", "leaving"} /\ open[t] > 0 /\ ~token[t]
  /\ Set(open, t, open[t] - 1)
  /\ saved' = Pathname(t)
  /\ Spoil(Tabs)
  /\ UNCHANGED <<at, place, token, login, post, verifier, state, google, left, disturbed>>

-----------------------------------------------------------------------------
(* The way to Google and back.                                              *)

(* Mutant of HomeLogin: the path of an older refusal is kept.               *)
HomeLoginKeeps(t, l) ==
  /\ at[t] = "home"
  /\ OpenLogin(t, l)
  /\ Set(left, t, Remotes)
  /\ spoilt' = [u \in Tabs |-> u # t /\ (spoilt[u] \/ LoggingIn(u))]
  /\ Set(disturbed, t, FALSE)
  /\ UNCHANGED <<place, token, open, verifier, state, saved, used>>

(* HomePageComponent.login.                                                 *)
HomeLogin(t, l) ==
  /\ at[t] = "home"
  /\ saved' = None
  /\ OpenLogin(t, l)
  /\ Set(left, t, Remotes)
  /\ spoilt' = [u \in Tabs |-> u # t /\ (spoilt[u] \/ LoggingIn(u))]
  /\ Set(disturbed, t, FALSE)
  /\ UNCHANGED <<place, token, open, verifier, state, used>>

(* The digest is there: ngOnInit goes on.                                   *)
LeavePage(t) ==
  /\ at[t] = "login"
  /\ verifier' = login[t]
  /\ Set(at, t, "leaving")
  /\ Disturb(t)
  /\ UNCHANGED <<place, token, open, login, post, state, saved, google, left, spoilt>>

(* Mutant of HandleLogin: a state cookie that is there is kept.             *)
HandleLoginOnce(t) ==
  /\ at[t] = "leaving"
  /\ state' = IF state = None THEN login[t] ELSE state
  /\ Set(at, t, "consent") /\ NewDocument(t)
  /\ Disturb(t)
  /\ UNCHANGED <<place, login, post, verifier, saved, google, left, spoilt>>

HandleLogin(t) ==
  /\ at[t] = "leaving"
  /\ state' = login[t]
  /\ Set(at, t, "consent") /\ NewDocument(t)
  /\ Disturb(t)
  /\ UNCHANGED <<place, login, post, verifier, saved, google, left, spoilt>>

(* Back from Google's page to the login page, which begins anew.            *)
StartOver(t, l) ==
  /\ at[t] = "consent"
  /\ OpenLogin(t, l)
  /\ Set(disturbed, t, FALSE)
  /\ UNCHANGED <<place, token, open, browser, used, left, spoilt>>

(* verifyState.                                                             *)
StateHolds(t) == post[t].cookie = post[t].login

(* What Google demands of the exchange; it may fail all the same.           *)
Exchangeable(t) == post[t].verifier = post[t].login /\ post[t].login \notin used

(* A request whose answer the page does not see may have been served, to    *)
(* the end or to a failure of the server, and its answer clears the state.  *)
MayBeServed(t) ==
  /\ state' \in {state} \cup (IF StateHolds(t) THEN {None} ELSE {})
  /\ \/ used' = used
     \/ StateHolds(t) /\ Exchangeable(t) /\ used' = used \cup {login[t]}

(* The login is disturbed by that if its code is gone, and every login is   *)
(* if the state is.                                                         *)
DisturbIfServed(t) ==
  disturbed' = [u \in Tabs |-> \/ disturbed[u]
                               \/ u = t /\ used' # used
                               \/ state' # state /\ LoggingIn(u)]

(* The callback page asks the API for the token.  It deletes the verifier   *)
(* cookie of its own path, which there is none of: the login page has set   *)
(* it for '/', and there it stays.                                          *)
Post(t) ==
  /\ Set(at, t, "callback")
  /\ Set(post, t, [login |-> login[t], verifier |-> verifier, cookie |-> state'])
  /\ UNCHANGED verifier

(* Google sends the browser to the callback page with a code.               *)
Consent(t) ==
  /\ at[t] = "consent"
  /\ UNCHANGED state
  /\ Post(t)
  /\ UNCHANGED <<place, token, open, login, saved, google, history>>

(* Or without one, and the page goes on to the home page.                   *)
Deny(t) ==
  /\ at[t] = "consent"
  /\ Set(at, t, "home") /\ Set(login, t, None)
  /\ UNCHANGED <<place, token, open, post, browser, google, history>>

(* The page is loaded again with the same code.                             *)
Reload(t) ==
  /\ at[t] \in {"callback", "failed"}
  /\ MayBeServed(t)
  /\ Post(t)
  /\ DisturbIfServed(t)
  /\ UNCHANGED <<place, token, open, login, saved, drawn, left, spoilt>>

(* The state after five minutes; the verifier after 300 days, or with the   *)
(* browser's data.                                                          *)
CookieExpires ==
  /\ verifier # None \/ state # None
  /\ verifier' \in {verifier, None} /\ state' \in {state, None}
  /\ <<verifier', state'>> # <<verifier, state>>
  /\ disturbed' = [t \in Tabs |-> disturbed[t] \/ LoggingIn(t)]
  /\ UNCHANGED <<tab, saved, google, left, spoilt>>

-----------------------------------------------------------------------------
(* handleCallback and its answer, in the order of its checks.               *)

(* Once the state holds the answer clears the cookie, whosever it is now.   *)
ClearState(t) == at[t] = "callback" /\ StateHolds(t) /\ state' = None

Fail(t) == Set(at, t, "failed")

Forbid(t) ==
  /\ at[t] = "callback" /\ ~StateHolds(t)
  /\ Fail(t)
  /\ UNCHANGED <<place, token, open, login, post, browser, google, history>>

(* The request or its answer is lost, or the server fails.                  *)
Lose(t) ==
  /\ at[t] = "callback"
  /\ MayBeServed(t)
  /\ Fail(t)
  /\ DisturbIfServed(t)
  /\ UNCHANGED <<place, token, open, login, post, verifier, saved, drawn, left, spoilt>>

(* 401: the interceptor takes the callback page to the login.               *)
ExchangeFails(t, l) ==
  /\ ClearState(t)
  /\ saved' = CallbackPath
  /\ OpenLogin(t, l)
  /\ Spoil(Tabs)
  /\ disturbed' = [u \in Tabs |-> u # t /\ (disturbed[u] \/ LoggingIn(u))]
  /\ UNCHANGED <<place, token, open, verifier, used, left>>

(* The user is none of the allowed ones.                                    *)
Disallow(t) ==
  /\ ClearState(t) /\ Exchangeable(t)
  /\ used' = used \cup {login[t]}
  /\ Fail(t)
  /\ disturbed' = [u \in Tabs |-> disturbed[u] \/ LoggingIn(u)]
  /\ UNCHANGED <<place, token, open, login, post, verifier, saved, drawn, left, spoilt>>

(* Where the router goes.  It takes the saved path for text that is still   *)
(* to be encoded.                                                           *)
Target ==
  CASE saved = None   -> Remotes
    [] saved \in Odd  -> Garbled
    [] OTHER          -> saved

Accept(t) ==
  /\ ClearState(t) /\ Exchangeable(t)
  /\ used' = used \cup {login[t]}
  /\ Set(token, t, TRUE)
  /\ Disturb(t)

(* The token is stored and the page leaves: to a content page,              *)
LandOnContent(t) ==
  /\ Accept(t)
  /\ Target \in Locations
  /\ Set(at, t, "content") /\ Set(place, t, Target)
  /\ Set(login, t, None) /\ Set(post, t, None)
  /\ UNCHANGED <<open, verifier, saved, drawn, left, spoilt>>

(* to the callback page without a code, and from there to the home page,    *)
LandOnHome(t) ==
  /\ Accept(t)
  /\ Target = CallbackPath
  /\ Set(at, t, "home") /\ Set(login, t, None) /\ Set(post, t, None)
  /\ UNCHANGED <<place, open, verifier, saved, drawn, left, spoilt>>

(* or to the login page, which begins anew.                                 *)
LandOnLogin(t, l) ==
  /\ ClearState(t) /\ Exchangeable(t)
  /\ Target = LoginPath
  /\ used' = used \cup {login[t]}
  /\ Set(token, t, TRUE)
  /\ OpenLogin(t, l)
  /\ disturbed' = [u \in Tabs |-> u # t /\ (disturbed[u] \/ LoggingIn(u))]
  /\ UNCHANGED <<place, open, verifier, saved, left, spoilt>>

-----------------------------------------------------------------------------
Begin(t) ==
  \E l \in Logins : \/ Refused(t, l) \/ HomeLogin(t, l) \/ StartOver(t, l)
                    \/ ExchangeFails(t, l) \/ LandOnLogin(t, l)

Browse(t) ==
  \/ \E p \in Places : Visit(t, p) \/ OpenUrl(t, p)
  \/ OpenHome(t) \/ Request(t) \/ Ends(t) \/ TokenExpires(t) \/ RefusedLate(t)

GoOn(t) == LeavePage(t) \/ HandleLogin(t) \/ Consent(t) \/ Deny(t) \/ Reload(t)

Answer(t) == Forbid(t) \/ Lose(t) \/ Disallow(t) \/ LandOnContent(t) \/ LandOnHome(t)

Next == CookieExpires \/ \E t \in Tabs : Begin(t) \/ Browse(t) \/ GoOn(t) \/ Answer(t)

Spec == Init /\ [][Next]_vars

-----------------------------------------------------------------------------
(* A login no other tab and no expiry came between is accepted until its    *)
(* code is spent, however often the callback page is loaded after a request *)
(* that was lost: it posts its own verifier and its own state cookie,       *)
(* whatever older logins of this or another tab have left behind.           *)
UndisturbedLoginIsAccepted ==
  \A t \in Tabs :
    at[t] = "callback" /\ ~disturbed[t] => StateHolds(t) /\ Exchangeable(t)

(* A login takes its tab back to where it came from (to the remotes from    *)
(* the home page) if nothing wrote the saved path meanwhile and the router  *)
(* can read it: no other tab, no second 401, no failed exchange, then or    *)
(* while its callback page showed an error.                                 *)
ReturnsWhereItLeft ==
  [][\A t \in Tabs :
       /\ at[t] = "callback" /\ ~token[t] /\ token'[t]
       /\ ~spoilt[t] /\ left[t] \notin Odd
       => at'[t] = "content" /\ place'[t] = left[t]]_vars

(* callback-page.component.spec.ts: "should navigate to custom redirect     *)
(* path if set in localStorage".                                            *)
GoesToTheSavedPath ==
  [][\A t \in Tabs :
       at[t] = "callback" /\ ~token[t] /\ token'[t] /\ saved \in Places
       => at'[t] = "content" /\ place'[t] = saved]_vars
=============================================================================
