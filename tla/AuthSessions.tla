---------------------------- MODULE AuthSessions ----------------------------
(***************************************************************************)
(* Login sessions of the Web API: the tail of handleCallback and the whole *)
(* of handleRefresh (src/apps/web-api/auth/auth.go) on the refresh tokens  *)
(* each instance keeps in memory (auth/store.go).                          *)
(*                                                                         *)
(* A login issues a refresh token; every refresh revokes the token it is   *)
(* given and issues another, so the tokens of one login form a chain, its  *)
(* session, named here by the first of them.  Handlers run concurrently,   *)
(* may fail between two of their steps, and their answers may be lost.     *)
(* An instance that restarts forgets its tokens and may come back with     *)
(* another list of allowed Google ids.                                     *)
(***************************************************************************)
EXTENDS FiniteSets

CONSTANTS
  Instances,   \* Web API processes behind one address
  Unstable,    \* those that may be restarted
  Users,       \* Google accounts: the sub and email of a verified id token
  Tokens,      \* random refresh tokens, never drawn twice; a bound for TLC
  Requests,    \* handler goroutines
  Nobody, NoToken

ASSUME SessionConstants ==
  /\ Unstable \subseteq Instances
  /\ Nobody \notin Users
  /\ NoToken \notin Tokens

VARIABLES
  store,      \* InMemoryTokenStore.tokens of each instance
  allowed,    \* Handler.allowedGoogleIDs of each instance
  req,        \* what each handler goroutine is doing
  given,      \* tokens that reached the client
  session,    \* history: the login a token descends from
  owner,      \* history: who logged in
  redeemed,   \* history: tokens some refresh has revoked
  disturbed   \* history: sessions hit by a failed step, a lost answer or a
              \*   restart

vars == <<store, allowed, req, given, session, owner, redeemed, disturbed>>

(* Where a handler is: "login", the user is verified; "refresh", the body   *)
(* is parsed; "revoked", the old token is gone; "stored", the new one is    *)
(* there; then an answer is on its way: tokens, a 401 or 403, or a 500.     *)
Steps == {"idle", "login", "refresh", "revoked", "stored",
          "answered", "refused", "failed"}

(* token is the one presented up to "revoked", the new one from "stored".   *)
Request == [pc : Steps, inst : Instances, user : Users \cup {Nobody},
            token : Tokens \cup {NoToken}]

At(pc, i, u, t) == [pc |-> pc, inst |-> i, user |-> u, token |-> t]

TypeOK ==
  /\ store \in [Instances -> [Tokens -> Users \cup {Nobody}]]
  /\ allowed \in [Instances -> SUBSET Users]
  /\ req \in [Requests -> Request]
  /\ given \in SUBSET Tokens
  /\ session \in [Tokens -> Tokens \cup {NoToken}]
  /\ owner \in [Tokens -> Users \cup {Nobody}]
  /\ redeemed \in SUBSET Tokens
  /\ disturbed \in SUBSET Tokens

Live(i, t) == store[i][t] # Nobody
Issued(t)  == session[t] # NoToken

(* The session a handler holds between the revocation of the old token and  *)
(* the storing of the new one, and after it.                                *)
Rotating(r, s)  == req[r].pc = "revoked" /\ session[req[r].token] = s
Answering(r, t) == req[r].pc \in {"stored", "answered"} /\ req[r].token = t

-----------------------------------------------------------------------------
Init ==
  /\ store = [i \in Instances |-> [t \in Tokens |-> Nobody]]
  /\ allowed \in [Instances -> SUBSET Users]
  /\ req \in [Requests -> {At("idle", i, Nobody, NoToken) : i \in Instances}]
  /\ given = {}
  /\ session = [t \in Tokens |-> NoToken]
  /\ owner = [t \in Tokens |-> Nobody]
  /\ redeemed = {}
  /\ disturbed = {}

Begin(r, pc, i, u, t) ==
  /\ req[r].pc = "idle"
  /\ req' = [req EXCEPT ![r] = At(pc, i, u, t)]

Goto(r, pc, u, t) == req' = [req EXCEPT ![r] = At(pc, req[r].inst, u, t)]

(* A goroutine that is done keeps nothing.                                  *)
Done(r) == At("idle", req[r].inst, Nobody, NoToken)

(* TokenStore.Store.                                                        *)
Put(i, t, u) == store' = [store EXCEPT ![i] = [store[i] EXCEPT ![t] = u]]

(* handleCallback once Google has vouched for u.                            *)
LoginArrives(r, i, u) ==
  /\ Begin(r, "login", i, u, NoToken)
  /\ UNCHANGED <<store, allowed, given, session, owner, redeemed, disturbed>>

Welcome(r) == req[r].user \in allowed[req[r].inst]

(* Mutant of GrantLogin: a store that keeps one token per account.          *)
GrantLoginOnePerUser(r, t) ==
  LET i == req[r].inst
      u == req[r].user
  IN /\ req[r].pc = "login" /\ Welcome(r)
     /\ ~Issued(t)
     /\ store' = [store EXCEPT ![i] =
                    [v \in Tokens |-> IF v = t THEN u
                                      ELSE IF store[i][v] = u THEN Nobody
                                      ELSE store[i][v]]]
     /\ Goto(r, "answered", u, t)
     /\ session' = [session EXCEPT ![t] = t]
     /\ owner' = [owner EXCEPT ![t] = u]
     /\ UNCHANGED <<allowed, given, redeemed, disturbed>>

(* The allow list is checked, the JWT signed, a token drawn and stored.     *)
GrantLogin(r, t) ==
  /\ req[r].pc = "login" /\ Welcome(r)
  /\ ~Issued(t)
  /\ Put(req[r].inst, t, req[r].user)
  /\ Goto(r, "answered", req[r].user, t)
  /\ session' = [session EXCEPT ![t] = t]
  /\ owner' = [owner EXCEPT ![t] = req[r].user]
  /\ UNCHANGED <<allowed, given, redeemed, disturbed>>

RefuseLogin(r) ==
  /\ req[r].pc = "login" /\ ~Welcome(r)
  /\ Goto(r, "refused", req[r].user, req[r].token)
  /\ UNCHANGED <<store, allowed, given, session, owner, redeemed, disturbed>>

(* handleRefresh.  The client may present a token again: after a lost       *)
(* answer, from a second tab, at whichever instance it is routed to.        *)
RefreshArrives(r, i, t) ==
  /\ t \in given
  /\ Begin(r, "refresh", i, Nobody, t)
  /\ UNCHANGED <<store, allowed, given, session, owner, redeemed, disturbed>>

(* Mutant of Redeem: the token is looked up and left in place.              *)
RedeemKeeps(r) ==
  LET i == req[r].inst
      t == req[r].token
  IN /\ req[r].pc = "refresh" /\ Live(i, t)
     /\ Goto(r, "revoked", store[i][t], t)
     /\ redeemed' = redeemed \cup {t}
     /\ UNCHANGED <<store, allowed, given, session, owner, disturbed>>

(* ValidateAndRevoke, which knows the token: one critical section.          *)
Redeem(r) ==
  LET i == req[r].inst
      t == req[r].token
  IN /\ req[r].pc = "refresh" /\ Live(i, t)
     /\ Put(i, t, Nobody)
     /\ Goto(r, "revoked", store[i][t], t)
     /\ redeemed' = redeemed \cup {t}
     /\ UNCHANGED <<allowed, given, session, owner, disturbed>>

(* ... and which does not.                                                  *)
RefuseRefresh(r) ==
  /\ req[r].pc = "refresh" /\ ~Live(req[r].inst, req[r].token)
  /\ Goto(r, "refused", req[r].user, req[r].token)
  /\ UNCHANGED <<store, allowed, given, session, owner, redeemed, disturbed>>

(* Mutant of StoreRotated: the presented token is stored, not the new one.  *)
StoreOldToken(r, t) ==
  /\ req[r].pc = "revoked"
  /\ ~Issued(t)
  /\ Put(req[r].inst, req[r].token, req[r].user)
  /\ Goto(r, "stored", req[r].user, t)
  /\ session' = [session EXCEPT ![t] = session[req[r].token]]
  /\ UNCHANGED <<allowed, given, owner, redeemed, disturbed>>

(* A new token is drawn and stored for the user of the old one.             *)
StoreRotated(r, t) ==
  /\ req[r].pc = "revoked"
  /\ ~Issued(t)
  /\ Put(req[r].inst, t, req[r].user)
  /\ Goto(r, "stored", req[r].user, t)
  /\ session' = [session EXCEPT ![t] = session[req[r].token]]
  /\ UNCHANGED <<allowed, given, owner, redeemed, disturbed>>

SignRotated(r) ==
  /\ req[r].pc = "stored"
  /\ Goto(r, "answered", req[r].user, req[r].token)
  /\ UNCHANGED <<store, allowed, given, session, owner, redeemed, disturbed>>

(* Mutant of Fail: the token that was revoked is given back.                *)
FailGivesBack(r) ==
  /\ req[r].pc \in {"login", "revoked", "stored"}
  /\ IF req[r].pc = "revoked" THEN Put(req[r].inst, req[r].token, req[r].user)
                              ELSE UNCHANGED store
  /\ Goto(r, "failed", req[r].user, req[r].token)
  /\ disturbed' = IF req[r].pc = "login" THEN disturbed
                  ELSE disturbed \cup {session[req[r].token]}
  /\ UNCHANGED <<allowed, given, session, owner, redeemed>>

(* Drawing or storing a token or signing the JWT fails: an error goes out,  *)
(* what was done stays done.                                                *)
Fail(r) ==
  /\ req[r].pc \in {"login", "revoked", "stored"}
  /\ Goto(r, "failed", req[r].user, req[r].token)
  /\ disturbed' = IF req[r].pc = "login" THEN disturbed
                  ELSE disturbed \cup {session[req[r].token]}
  /\ UNCHANGED <<store, allowed, given, session, owner, redeemed>>

(* Mutant of Deliver: an error is answered like a success.                  *)
DeliverAlways(r) ==
  /\ req[r].pc \in {"answered", "refused", "failed"}
  /\ req' = [req EXCEPT ![r] = Done(r)]
  /\ given' = given \cup {req[r].token}
  /\ UNCHANGED <<store, allowed, session, owner, redeemed, disturbed>>

(* The answer arrives ...                                                   *)
Deliver(r) ==
  /\ req[r].pc \in {"answered", "refused", "failed"}
  /\ req' = [req EXCEPT ![r] = Done(r)]
  /\ given' = IF req[r].pc = "answered" THEN given \cup {req[r].token} ELSE given
  /\ UNCHANGED <<store, allowed, session, owner, redeemed, disturbed>>

(* ... or is lost on its way.                                               *)
Lose(r) ==
  /\ req[r].pc = "answered"
  /\ req' = [req EXCEPT ![r] = Done(r)]
  /\ disturbed' = disturbed \cup {session[req[r].token]}
  /\ UNCHANGED <<store, allowed, given, session, owner, redeemed>>

(* The sessions an instance knows: by a live token or in a handler.         *)
SessionsOf(i) ==
  {session[t] : t \in {u \in Tokens : Live(i, u)}}
    \cup {session[req[r].token] :
            r \in {q \in Requests :
                    /\ req[q].inst = i
                    /\ req[q].pc \in {"revoked", "stored", "answered"}}}

CutOff(i) ==
  [r \in Requests |-> IF req[r].inst = i THEN Done(r) ELSE req[r]]

(* Mutant of Restart: tokens that outlive the process.                      *)
RestartWithTokens(i, list) ==
  /\ i \in Unstable
  /\ req' = CutOff(i)
  /\ allowed' = [allowed EXCEPT ![i] = list]
  /\ disturbed' = disturbed \cup SessionsOf(i)
  /\ UNCHANGED <<store, given, session, owner, redeemed>>

(* A process ends, cutting off its handlers, and is started again with the  *)
(* allow list of its new environment and an empty token store.              *)
Restart(i, list) ==
  /\ i \in Unstable
  /\ store' = [store EXCEPT ![i] = [t \in Tokens |-> Nobody]]
  /\ req' = CutOff(i)
  /\ allowed' = [allowed EXCEPT ![i] = list]
  /\ disturbed' = disturbed \cup SessionsOf(i)
  /\ UNCHANGED <<given, session, owner, redeemed>>

Next ==
  \/ \E r \in Requests :
       \/ \E i \in Instances, u \in Users : LoginArrives(r, i, u)
       \/ \E i \in Instances, t \in Tokens : RefreshArrives(r, i, t)
       \/ \E t \in Tokens : GrantLogin(r, t) \/ StoreRotated(r, t)
       \/ RefuseLogin(r) \/ Redeem(r) \/ RefuseRefresh(r) \/ SignRotated(r)
       \/ Fail(r) \/ Deliver(r) \/ Lose(r)
  \/ \E i \in Instances, list \in SUBSET Users : Restart(i, list)

Spec == Init /\ [][Next]_vars

-----------------------------------------------------------------------------
(* A session is never forked: however refreshes of one token race, at most  *)
(* one token of it is valid anywhere, and none while a handler that revoked *)
(* the last one has still to store the next (handleRefresh, auth.go:313).   *)
NoTwoTokensOfASession ==
  /\ \A i, j \in Instances, t, u \in Tokens :
       Live(i, t) /\ Live(j, u) /\ session[t] = session[u] => i = j /\ t = u
  /\ \A r \in Requests, i \in Instances, t \in Tokens :
       Live(i, t) => ~Rotating(r, session[t])
  /\ \A r, q \in Requests : \A s \in Tokens :
       Rotating(r, s) /\ Rotating(q, s) => r = q

(* Only a failed step, a lost answer or a restart ends a session: otherwise *)
(* its client has, or is being sent, the token that is valid.  In           *)
(* particular a second request with the same token, refused or routed to    *)
(* another instance, does no harm to the first.                             *)
SessionSurvivesRaces ==
  \A s \in Tokens : Issued(s) /\ s \notin disturbed /\ session[s] = s =>
    \/ \E r \in Requests : Rotating(r, s)
    \/ \E i \in Instances, t \in Tokens :
         /\ Live(i, t) /\ session[t] = s
         /\ t \in given \/ \E r \in Requests : Answering(r, t)

(* A valid token stands for the account that logged in, and that account is *)
(* on the allow list of the running process: handleRefresh does not look at *)
(* the list again, so a token must not outlive it (auth.go:247, 313).       *)
TokensOfAllowedUsers ==
  \A i \in Instances, t \in Tokens : Live(i, t) =>
    /\ store[i][t] = owner[session[t]]
    /\ store[i][t] \in allowed[i]

(* "Revoke the token to prevent reuse" (store.go:45): a token that was      *)
(* issued and is not valid anywhere never becomes valid again.              *)
StaysRevoked(t) ==
  Issued(t) /\ (\A i \in Instances : ~Live(i, t))
    => \A i \in Instances : ~Live(i, t)'
RevokedForGood == [][\A t \in Tokens : StaysRevoked(t)]_vars

(* To the clients the token maps of all instances are one table of sessions *)
(* that hold a key, are being turned, or are over (handleRefresh,           *)
(* auth.go:313-376): a new key only ever replaces the one that was used, for *)
(* the account that logged in, and what has ended stays ended.              *)
Table == INSTANCE Sessions WITH
  key     <- [s \in Tokens |->
                {k \in Tokens \X Users :
                   /\ session[k[1]] = s
                   /\ \E i \in Instances : store[i][k[1]] = k[2]}],
  turning <- [s \in Tokens |->
                {u \in Users : \E r \in Requests :
                                 Rotating(r, s) /\ req[r].user = u}],
  drawn   <- {t \in Tokens : Issued(t)}

LooksLikeOneTable == Table!SessionsSpec

(* The README of the Web API calls it stateless, to be deployed as such     *)
(* (web-api/README.md:3, 186): then neither the instance a refresh is routed to nor *)
(* a restart can matter, and a token is refused only if it has been used.   *)
OnlyUsedTokensAreRefused ==
  \A r \in Requests :
    req[r].pc = "refused" /\ req[r].token # NoToken => req[r].token \in redeemed
=============================================================================
