------------------------- MODULE AuthSessions_proofs -------------------------
(***************************************************************************)
(* Proofs about AuthSessions for every set of instances, accounts, tokens  *)
(* and concurrent requests.                                                *)
(***************************************************************************)
EXTENDS AuthSessions, TLAPS

(* What a handler may assume about the token and the user it holds.         *)
RequestOK(r) ==
  /\ req[r].pc = "login" => req[r].user \in Users
  /\ req[r].pc = "refresh" => req[r].token \in given
  /\ req[r].pc \in {"revoked", "stored", "answered"} =>
       req[r].token \in Tokens /\ Issued(req[r].token)
  /\ req[r].pc = "revoked" =>
       /\ req[r].user = owner[session[req[r].token]]
       /\ req[r].user \in allowed[req[r].inst]

(* A session is named by its first token; only issued tokens are about.     *)
Chains ==
  /\ \A t \in Tokens : Issued(t) => session[session[t]] = session[t]
  /\ \A i \in Instances, t \in Tokens : Live(i, t) => Issued(t)
  /\ \A t \in given : Issued(t)
  /\ \A r \in Requests : RequestOK(r)

IInv == /\ TypeOK
        /\ Chains
        /\ TokensOfAllowedUsers
        /\ NoTwoTokensOfASession
        /\ SessionSurvivesRaces

-----------------------------------------------------------------------------
(* What each kind of step does, point by point.                             *)

(* Only the goroutine r moves, to the given place.                          *)
Moves(r, pc, i, u, t) ==
  /\ req' \in [Requests -> Request]
  /\ \A q \in Requests \ {r} : req'[q] = req[q]
  /\ req'[r].pc = pc /\ req'[r].inst = i
  /\ req'[r].user = u /\ req'[r].token = t

(* The token t of instance i now stands for u, everything else as before.   *)
Puts(i, t, u) ==
  /\ store' \in [Instances -> [Tokens -> Users \cup {Nobody}]]
  /\ store'[i][t] = u
  /\ \A j \in Instances, v \in Tokens :
       j # i \/ v # t => store'[j][v] = store[j][v]

(* The token t becomes the newest of session s.                             *)
Joins(t, s) ==
  /\ session' \in [Tokens -> Tokens \cup {NoToken}]
  /\ session'[t] = s
  /\ \A v \in Tokens \ {t} : session'[v] = session[v]

LEMMA MovesIntro ==
  ASSUME TypeOK, NEW r \in Requests, NEW pc \in Steps, NEW i \in Instances,
         NEW u \in Users \cup {Nobody}, NEW t \in Tokens \cup {NoToken},
         req' = [req EXCEPT ![r] = At(pc, i, u, t)]
  PROVE  Moves(r, pc, i, u, t)
<1>1. At(pc, i, u, t) \in Request
  BY DEF At, Request
<1>2. /\ At(pc, i, u, t).pc = pc /\ At(pc, i, u, t).inst = i
      /\ At(pc, i, u, t).user = u /\ At(pc, i, u, t).token = t
  BY DEF At
<1> QED
  BY <1>1, <1>2 DEF Moves, TypeOK

LEMMA GotoMoves ==
  ASSUME TypeOK, NEW r \in Requests, NEW pc \in Steps,
         NEW u \in Users \cup {Nobody}, NEW t \in Tokens \cup {NoToken},
         Goto(r, pc, u, t)
  PROVE  Moves(r, pc, req[r].inst, u, t)
<1>1. req[r].inst \in Instances
  BY DEF TypeOK, Request
<1> QED
  BY <1>1, MovesIntro DEF Goto

LEMMA DoneMoves ==
  ASSUME TypeOK, NEW r \in Requests, req' = [req EXCEPT ![r] = Done(r)]
  PROVE  Moves(r, "idle", req[r].inst, Nobody, NoToken)
<1>1. req[r].inst \in Instances
  BY DEF TypeOK, Request
<1> QED
  BY <1>1, MovesIntro DEF Done, Steps

LEMMA PutPuts ==
  ASSUME TypeOK, NEW i \in Instances, NEW t \in Tokens,
         NEW u \in Users \cup {Nobody}, Put(i, t, u)
  PROVE  Puts(i, t, u)
  BY DEF TypeOK, Put, Puts

LEMMA SessionJoins ==
  ASSUME TypeOK, NEW t \in Tokens, NEW s \in Tokens \cup {NoToken},
         session' = [session EXCEPT ![t] = s]
  PROVE  Joins(t, s)
  BY DEF TypeOK, Joins

-----------------------------------------------------------------------------
(* Steps that only move one goroutine, and possibly hand out a token or     *)
(* note a failure: the tokens, the lists and the sessions stay.             *)
Still == UNCHANGED <<store, allowed, session, owner>>

Quiet(r) ==
  /\ Still
  /\ \E i \in Instances :
       \/ \E u \in Users : Moves(r, "login", i, u, NoToken)
       \/ \E t \in given : Moves(r, "refresh", i, Nobody, t)
       \/ /\ req[r].pc = "stored"
          /\ Moves(r, "answered", i, req[r].user, req[r].token)
       \/ \E pc \in {"idle", "refused", "failed"} :
            \E u \in Users \cup {Nobody}, t \in Tokens \cup {NoToken} :
              Moves(r, pc, i, u, t)
  /\ \/ given' = given
     \/ req[r].pc = "answered" /\ given' = given \cup {req[r].token}
  /\ redeemed' = redeemed
  /\ disturbed \in SUBSET disturbed' /\ disturbed' \in SUBSET Tokens

LEMMA StepIsQuiet ==
  ASSUME IInv, NEW r \in Requests,
         \/ \E i \in Instances, u \in Users : LoginArrives(r, i, u)
         \/ \E i \in Instances, t \in Tokens : RefreshArrives(r, i, t)
         \/ RefuseLogin(r) \/ RefuseRefresh(r) \/ SignRotated(r)
         \/ Fail(r) \/ Deliver(r) \/ Lose(r)
  PROVE  Quiet(r)
<1> USE DEF IInv
<1>1. /\ req[r].inst \in Instances /\ req[r].user \in Users \cup {Nobody}
      /\ req[r].token \in Tokens \cup {NoToken}
  BY DEF TypeOK, Request
<1>2. CASE \E i \in Instances, u \in Users : LoginArrives(r, i, u)
  <2>1. PICK i \in Instances, u \in Users : LoginArrives(r, i, u)
    BY <1>2
  <2>2. Moves(r, "login", i, u, NoToken)
    BY <2>1, MovesIntro DEF LoginArrives, Begin, Steps
  <2> QED
    BY <2>1, <2>2 DEF LoginArrives, Quiet, Still, TypeOK
<1>3. CASE \E i \in Instances, t \in Tokens : RefreshArrives(r, i, t)
  <2>1. PICK i \in Instances, t \in Tokens : RefreshArrives(r, i, t)
    BY <1>3
  <2>2. Moves(r, "refresh", i, Nobody, t)
    BY <2>1, MovesIntro DEF RefreshArrives, Begin, Steps
  <2> QED
    BY <2>1, <2>2 DEF RefreshArrives, Quiet, Still, TypeOK
<1>4. CASE RefuseLogin(r) \/ RefuseRefresh(r)
  <2>1. Moves(r, "refused", req[r].inst, req[r].user, req[r].token)
    BY <1>1, <1>4, GotoMoves DEF RefuseLogin, RefuseRefresh, Steps
  <2> QED
    BY <1>1, <1>4, <2>1 DEF RefuseLogin, RefuseRefresh, Quiet, Still, TypeOK
<1>5. CASE SignRotated(r)
  <2>1. Moves(r, "answered", req[r].inst, req[r].user, req[r].token)
    BY <1>1, <1>5, GotoMoves DEF SignRotated, Steps
  <2> QED
    BY <1>1, <1>5, <2>1 DEF SignRotated, Quiet, Still, TypeOK
<1>6. CASE Fail(r)
  <2>1. Moves(r, "failed", req[r].inst, req[r].user, req[r].token)
    BY <1>1, <1>6, GotoMoves DEF Fail, Steps
  <2>2. req[r].pc # "login" => session[req[r].token] \in Tokens
    BY <1>6 DEF Fail, Chains, RequestOK, Issued, TypeOK
  <2> QED
    BY <1>1, <1>6, <2>1, <2>2 DEF Fail, Quiet, Still, TypeOK
<1>7. CASE Deliver(r)
  <2>1. Moves(r, "idle", req[r].inst, Nobody, NoToken)
    BY <1>7, DoneMoves DEF Deliver
  <2> QED
    BY <1>1, <1>7, <2>1 DEF Deliver, Quiet, Still, TypeOK
<1>8. CASE Lose(r)
  <2>1. Moves(r, "idle", req[r].inst, Nobody, NoToken)
    BY <1>8, DoneMoves DEF Lose
  <2>2. session[req[r].token] \in Tokens
    BY <1>8 DEF Lose, Chains, RequestOK, Issued, TypeOK
  <2> QED
    BY <1>1, <1>8, <2>1, <2>2 DEF Lose, Quiet, Still, TypeOK
<1> QED
  BY <1>2, <1>3, <1>4, <1>5, <1>6, <1>7, <1>8

(* The other steps, point by point.                                         *)
LEMMA GrantEffect ==
  ASSUME IInv, NEW r \in Requests, NEW t \in Tokens, GrantLogin(r, t)
  PROVE  /\ req[r].pc = "login" /\ req[r].inst \in Instances
         /\ req[r].user \in Users /\ req[r].user \in allowed[req[r].inst]
         /\ ~Issued(t)
         /\ Puts(req[r].inst, t, req[r].user)
         /\ Moves(r, "answered", req[r].inst, req[r].user, t)
         /\ Joins(t, t)
         /\ owner' \in [Tokens -> Users \cup {Nobody}]
         /\ owner'[t] = req[r].user
         /\ \A v \in Tokens \ {t} : owner'[v] = owner[v]
         /\ UNCHANGED <<allowed, given, redeemed, disturbed>>
<1>1. TypeOK /\ req[r].inst \in Instances /\ req[r].user \in Users
  BY DEF IInv, TypeOK, Request, Chains, RequestOK, GrantLogin
<1>2. Puts(req[r].inst, t, req[r].user)
  BY <1>1, PutPuts DEF GrantLogin
<1>3. Moves(r, "answered", req[r].inst, req[r].user, t)
  BY <1>1, GotoMoves DEF GrantLogin, Steps
<1>4. Joins(t, t)
  BY <1>1, SessionJoins DEF GrantLogin
<1> QED
  BY <1>1, <1>2, <1>3, <1>4 DEF GrantLogin, Welcome, TypeOK

LEMMA RedeemEffect ==
  ASSUME IInv, NEW r \in Requests, Redeem(r)
  PROVE  LET i == req[r].inst
             t == req[r].token
         IN /\ req[r].pc = "refresh" /\ i \in Instances /\ t \in Tokens
            /\ Live(i, t) /\ Issued(t)
            /\ store[i][t] = owner[session[t]] /\ store[i][t] \in allowed[i]
            /\ Puts(i, t, Nobody)
            /\ Moves(r, "revoked", i, store[i][t], t)
            /\ redeemed' = redeemed \cup {t}
            /\ UNCHANGED <<allowed, given, session, owner, disturbed>>
<1> DEFINE i == req[r].inst
           t == req[r].token
<1>1. TypeOK /\ i \in Instances /\ t \in Tokens /\ Live(i, t)
  BY DEF IInv, TypeOK, Request, Chains, RequestOK, Redeem
<1>2. /\ Issued(t) /\ store[i][t] = owner[session[t]]
      /\ store[i][t] \in allowed[i] /\ store[i][t] \in Users \cup {Nobody}
  BY <1>1 DEF IInv, Chains, TokensOfAllowedUsers, TypeOK
<1>3. Puts(i, t, Nobody)
  BY <1>1, PutPuts DEF Redeem
<1>4. Moves(r, "revoked", i, store[i][t], t)
  BY <1>1, <1>2, GotoMoves DEF Redeem, Steps
<1> QED
  BY <1>1, <1>2, <1>3, <1>4 DEF Redeem

LEMMA RotateEffect ==
  ASSUME IInv, NEW r \in Requests, NEW t \in Tokens, StoreRotated(r, t)
  PROVE  LET i == req[r].inst
             old == req[r].token
         IN /\ req[r].pc = "revoked" /\ i \in Instances /\ old \in Tokens
            /\ Issued(old) /\ ~Issued(t)
            /\ req[r].user = owner[session[old]] /\ req[r].user \in allowed[i]
            /\ req[r].user \in Users \cup {Nobody}
            /\ Puts(i, t, req[r].user)
            /\ Moves(r, "stored", i, req[r].user, t)
            /\ Joins(t, session[old])
            /\ UNCHANGED <<allowed, given, owner, redeemed, disturbed>>
<1> DEFINE i == req[r].inst
           old == req[r].token
<1>1. /\ TypeOK /\ i \in Instances /\ old \in Tokens
      /\ Issued(old) /\ req[r].user \in Users \cup {Nobody}
      /\ req[r].user = owner[session[old]] /\ req[r].user \in allowed[i]
  BY DEF IInv, TypeOK, Request, Chains, RequestOK, StoreRotated
<1>2. session[old] \in Tokens \cup {NoToken}
  BY <1>1 DEF TypeOK
<1>3. Puts(i, t, req[r].user)
  BY <1>1, PutPuts DEF StoreRotated
<1>4. Moves(r, "stored", i, req[r].user, t)
  BY <1>1, GotoMoves DEF StoreRotated, Steps
<1>5. Joins(t, session[old])
  BY <1>1, <1>2, SessionJoins DEF StoreRotated
<1> QED
  BY <1>1, <1>3, <1>4, <1>5 DEF StoreRotated

LEMMA RestartEffect ==
  ASSUME IInv, NEW i \in Instances, NEW list \in SUBSET Users, Restart(i, list)
  PROVE  /\ store' \in [Instances -> [Tokens -> Users \cup {Nobody}]]
         /\ \A t \in Tokens : store'[i][t] = Nobody
         /\ \A j \in Instances \ {i} : store'[j] = store[j]
         /\ allowed' \in [Instances -> SUBSET Users]
         /\ \A j \in Instances \ {i} : allowed'[j] = allowed[j]
         /\ req' \in [Requests -> Request]
         /\ \A r \in Requests : req[r].inst = i =>
              req'[r].pc = "idle" /\ req'[r].inst = i
         /\ \A r \in Requests : req[r].inst # i => req'[r] = req[r]
         /\ disturbed' = disturbed \cup SessionsOf(i)
         /\ disturbed' \in SUBSET Tokens
         /\ UNCHANGED <<given, session, owner, redeemed>>
<1> USE DEF IInv
<1>1. \A r \in Requests : /\ Done(r) \in Request /\ Done(r).pc = "idle"
                           /\ Done(r).inst = req[r].inst
  BY DEF Done, At, TypeOK, Request, Steps
<1>2. /\ req' = [r \in Requests |-> IF req[r].inst = i THEN Done(r) ELSE req[r]]
  BY DEF Restart, CutOff
<1>3. /\ req' \in [Requests -> Request]
      /\ \A r \in Requests : req[r].inst = i =>
           req'[r].pc = "idle" /\ req'[r].inst = i
      /\ \A r \in Requests : req[r].inst # i => req'[r] = req[r]
  BY <1>1, <1>2 DEF TypeOK
<1>4. SessionsOf(i) \subseteq Tokens
  BY DEF SessionsOf, Chains, RequestOK, Issued, TypeOK
<1>5. disturbed' \in SUBSET Tokens
  BY <1>4 DEF Restart, TypeOK
<1>6. /\ store' \in [Instances -> [Tokens -> Users \cup {Nobody}]]
      /\ \A t \in Tokens : store'[i][t] = Nobody
      /\ \A j \in Instances \ {i} : store'[j] = store[j]
  BY DEF Restart, TypeOK
<1>7. /\ allowed' \in [Instances -> SUBSET Users]
      /\ \A j \in Instances \ {i} : allowed'[j] = allowed[j]
  BY DEF Restart, TypeOK
<1> QED
  BY <1>3, <1>5, <1>6, <1>7 DEF Restart

(* A handler that stops holding a session has handed out its token or       *)
(* noted the failure.                                                       *)
KeepsSessions(r) ==
  /\ \A s : Rotating(r, s) => Rotating(r, s)' \/ s \in disturbed'
  /\ \A t : Answering(r, t) =>
       Answering(r, t)' \/ t \in given' \/ session[t] \in disturbed'

LEMMA StepKeepsSessions ==
  ASSUME IInv, NEW r \in Requests,
         \/ \E i \in Instances, u \in Users : LoginArrives(r, i, u)
         \/ \E i \in Instances, t \in Tokens : RefreshArrives(r, i, t)
         \/ RefuseLogin(r) \/ RefuseRefresh(r) \/ SignRotated(r)
         \/ Fail(r) \/ Deliver(r) \/ Lose(r)
  PROVE  KeepsSessions(r)
<1> USE DEF KeepsSessions, Rotating, Answering
<1>1. CASE \/ \E i \in Instances, u \in Users : LoginArrives(r, i, u)
           \/ \E i \in Instances, t \in Tokens : RefreshArrives(r, i, t)
           \/ RefuseLogin(r) \/ RefuseRefresh(r)
  BY <1>1 DEF LoginArrives, RefreshArrives, Begin, RefuseLogin, RefuseRefresh
<1>2. CASE SignRotated(r)
  <2>1. Moves(r, "answered", req[r].inst, req[r].user, req[r].token)
    BY <1>2, GotoMoves DEF SignRotated, Steps, IInv, TypeOK, Request
  <2> QED
    BY <1>2, <2>1 DEF SignRotated, Moves
<1>3. CASE Fail(r)
  BY <1>3 DEF Fail
<1>4. CASE Deliver(r)
  BY <1>4 DEF Deliver
<1>5. CASE Lose(r)
  BY <1>5 DEF Lose
<1> QED
  BY <1>1, <1>2, <1>3, <1>4, <1>5

(* Every step is of one of these kinds.                                     *)
LEMMA NextCases ==
  ASSUME IInv, Next
  PROVE  \/ \E r \in Requests : Quiet(r) /\ KeepsSessions(r)
         \/ \E r \in Requests : Redeem(r)
         \/ \E r \in Requests, t \in Tokens :
              GrantLogin(r, t) \/ StoreRotated(r, t)
         \/ \E i \in Instances, list \in SUBSET Users : Restart(i, list)
  BY StepIsQuiet, StepKeepsSessions DEF Next

-----------------------------------------------------------------------------
(* Each conjunct of the invariant is kept.                                  *)
LEMMA TypeKept ==
  ASSUME IInv, Next
  PROVE  TypeOK'
<1>1. CASE \E r \in Requests : Quiet(r)
  <2>1. PICK r \in Requests : Quiet(r)
    BY <1>1
  <2>2. req' \in [Requests -> Request]
    BY <2>1 DEF Quiet, Moves
  <2>3. given' \in SUBSET Tokens
    BY <2>1 DEF Quiet, IInv, TypeOK, Chains, RequestOK
  <2> QED
    BY <2>1, <2>2, <2>3 DEF Quiet, Still, IInv, TypeOK
<1>2. CASE \E r \in Requests : Redeem(r)
  <2>1. PICK r \in Requests : Redeem(r)
    BY <1>2
  <2> QED
    BY <2>1, RedeemEffect DEF Puts, Moves, IInv, TypeOK
<1>3. CASE \E r \in Requests, t \in Tokens : GrantLogin(r, t)
  <2>1. PICK r \in Requests, t \in Tokens : GrantLogin(r, t)
    BY <1>3
  <2> QED
    BY <2>1, GrantEffect DEF Puts, Moves, Joins, IInv, TypeOK
<1>4. CASE \E r \in Requests, t \in Tokens : StoreRotated(r, t)
  <2>1. PICK r \in Requests, t \in Tokens : StoreRotated(r, t)
    BY <1>4
  <2> QED
    BY <2>1, RotateEffect DEF Puts, Moves, Joins, IInv, TypeOK
<1>5. CASE \E i \in Instances, list \in SUBSET Users : Restart(i, list)
  BY <1>5, RestartEffect DEF IInv, TypeOK
<1> QED
  BY <1>1, <1>2, <1>3, <1>4, <1>5, NextCases

LEMMA ChainsKept ==
  ASSUME IInv, Next
  PROVE  Chains'
<1> USE DEF IInv
<1>1. CASE \E r \in Requests : Quiet(r)
  <2>1. PICK r \in Requests : Quiet(r)
    BY <1>1
  <2>2. UNCHANGED <<store, allowed, session, owner>>
    BY <2>1 DEF Quiet, Still
  <2>3. \A t \in given' : Issued(t)
    BY <2>1 DEF Quiet, Chains, RequestOK
  <2>4. given \subseteq given'
    BY <2>1 DEF Quiet
  <2>5. ASSUME NEW q \in Requests \ {r} PROVE RequestOK(q)'
    <3>1. req'[q] = req[q]
      BY <2>1 DEF Quiet, Moves
    <3> QED
      BY <2>2, <2>4, <3>1 DEF Chains, RequestOK, Issued
  <2>6. RequestOK(r)'
    BY <2>1, <2>2, <2>4 DEF Quiet, Moves, Chains, RequestOK, Issued
  <2> QED
    BY <2>2, <2>3, <2>5, <2>6 DEF Chains, Live, Issued
<1>2. CASE \E r \in Requests : Redeem(r)
  <2>1. PICK r \in Requests : Redeem(r)
    BY <1>2
  <2>2. UNCHANGED <<allowed, given, session, owner>>
    BY <2>1, RedeemEffect
  <2>3. \A i \in Instances, t \in Tokens : Live(i, t)' => Live(i, t)
    BY <2>1, RedeemEffect DEF Puts, Live
  <2>4. ASSUME NEW q \in Requests \ {r} PROVE RequestOK(q)'
    <3>1. req'[q] = req[q]
      BY <2>1, RedeemEffect DEF Moves
    <3> QED
      BY <2>2, <3>1 DEF Chains, RequestOK, Issued
  <2>5. RequestOK(r)'
    BY <2>1, <2>2, RedeemEffect DEF Moves, RequestOK, Issued
  <2> QED
    BY <2>2, <2>3, <2>4, <2>5 DEF Chains, Issued
<1>3. CASE \E r \in Requests, t \in Tokens : GrantLogin(r, t)
  <2>1. PICK r \in Requests, t \in Tokens : GrantLogin(r, t)
    BY <1>3
  <2>2. t # NoToken /\ ~Issued(t) /\ UNCHANGED <<allowed, given>>
    BY <2>1, GrantEffect, SessionConstants
  <2>3. /\ session'[t] = t
        /\ \A v \in Tokens \ {t} : session'[v] = session[v]
    BY <2>1, GrantEffect DEF Joins
  <2>4. \A v \in Tokens \ {t} : owner'[v] = owner[v]
    BY <2>1, GrantEffect
  <2>5. \A v \in Tokens : Issued(v) => Issued(v)' /\ session'[v] = session[v]
    BY <2>2, <2>3 DEF Issued
  <2>6. \A v \in Tokens : Issued(v) => session[v] \in Tokens /\ session[v] # t
    BY <2>2 DEF Chains, Issued, TypeOK
  <2>7. \A v \in Tokens : Issued(v)' => session'[session'[v]] = session'[v]
    BY <2>2, <2>3, <2>6 DEF Chains, Issued
  <2>8. \A i \in Instances, v \in Tokens : Live(i, v)' => Issued(v)'
    BY <2>1, <2>2, <2>3, <2>5, GrantEffect DEF Puts, Live, Chains, Issued
  <2>9. ASSUME NEW q \in Requests \ {r} PROVE RequestOK(q)'
    <3>1. req'[q] = req[q]
      BY <2>1, GrantEffect DEF Moves
    <3> QED
      BY <2>2, <2>4, <2>5, <2>6, <3>1 DEF Chains, RequestOK
  <2>10. RequestOK(r)'
    BY <2>1, <2>2, <2>3, GrantEffect DEF Moves, RequestOK, Issued
  <2>11. \A v \in given' : Issued(v)'
    BY <2>2, <2>5 DEF Chains, TypeOK
  <2> QED
    BY <2>7, <2>8, <2>9, <2>10, <2>11 DEF Chains
<1>4. CASE \E r \in Requests, t \in Tokens : StoreRotated(r, t)
  <2>1. PICK r \in Requests, t \in Tokens : StoreRotated(r, t)
    BY <1>4
  <2> DEFINE s == session[req[r].token]
  <2>2. ~Issued(t) /\ UNCHANGED <<allowed, given, owner>>
    BY <2>1, RotateEffect
  <2>3. /\ session'[t] = s
        /\ \A v \in Tokens \ {t} : session'[v] = session[v]
    BY <2>1, RotateEffect DEF Joins
  <2>4. s \in Tokens /\ s # NoToken /\ session[s] = s /\ s # t
    BY <2>1, <2>2, RotateEffect DEF Chains, Issued, TypeOK
  <2> HIDE DEF s
  <2>5. \A v \in Tokens : Issued(v) => Issued(v)' /\ session'[v] = session[v]
    BY <2>2, <2>3 DEF Issued
  <2>6. \A v \in Tokens : Issued(v) => session[v] \in Tokens /\ session[v] # t
    BY <2>2 DEF Chains, Issued, TypeOK
  <2>7. \A v \in Tokens : Issued(v)' => session'[session'[v]] = session'[v]
    BY <2>2, <2>3, <2>4, <2>6 DEF Chains, Issued
  <2>8. \A i \in Instances, v \in Tokens : Live(i, v)' => Issued(v)'
    BY <2>1, <2>2, <2>3, <2>4, <2>5, RotateEffect DEF Puts, Live, Chains, Issued
  <2>9. ASSUME NEW q \in Requests \ {r} PROVE RequestOK(q)'
    <3>1. req'[q] = req[q]
      BY <2>1, RotateEffect DEF Moves
    <3> QED
      BY <2>2, <2>5, <3>1 DEF Chains, RequestOK
  <2>10. RequestOK(r)'
    BY <2>1, <2>2, <2>3, <2>4, RotateEffect DEF Moves, RequestOK, Issued
  <2>11. \A v \in given' : Issued(v)'
    BY <2>2, <2>5 DEF Chains, TypeOK
  <2> QED
    BY <2>7, <2>8, <2>9, <2>10, <2>11 DEF Chains
<1>5. CASE \E i \in Instances, list \in SUBSET Users : Restart(i, list)
  <2>1. PICK i \in Instances, list \in SUBSET Users : Restart(i, list)
    BY <1>5
  <2>2. \A j \in Instances, t \in Tokens : Live(j, t)' => Live(j, t)
    BY <2>1, RestartEffect DEF Live
  <2>3. ASSUME NEW q \in Requests PROVE RequestOK(q)'
    <3>1. UNCHANGED <<given, session, owner>>
      BY <2>1, RestartEffect
    <3>2. CASE req[q].inst = i
      BY <2>1, <3>2, RestartEffect DEF RequestOK
    <3>3. CASE req[q].inst # i
      <4>1. req'[q] = req[q] /\ allowed'[req[q].inst] = allowed[req[q].inst]
        BY <2>1, <3>3, RestartEffect DEF TypeOK, Request
      <4> QED
        BY <3>1, <4>1 DEF Chains, RequestOK, Issued
    <3> QED
      BY <3>2, <3>3
  <2> QED
    BY <2>1, <2>2, <2>3, RestartEffect DEF Chains, Issued
<1> QED
  BY <1>1, <1>2, <1>3, <1>4, <1>5, NextCases

LEMMA AllowedKept ==
  ASSUME IInv, Next
  PROVE  TokensOfAllowedUsers'
<1> USE DEF IInv
<1>1. CASE \E r \in Requests : Quiet(r)
  BY <1>1 DEF Quiet, Still, TokensOfAllowedUsers, Live
<1>2. CASE \E r \in Requests : Redeem(r)
  BY <1>2, RedeemEffect DEF Puts, TokensOfAllowedUsers, Live
<1>3. CASE \E r \in Requests, t \in Tokens : GrantLogin(r, t)
  <2>1. PICK r \in Requests, t \in Tokens : GrantLogin(r, t)
    BY <1>3
  <2>2. \A v \in Tokens : Issued(v) => v # t /\ session[v] \in Tokens \ {t}
    BY <2>1, GrantEffect DEF Chains, Issued, TypeOK
  <2>3. ASSUME NEW i \in Instances, NEW v \in Tokens, Live(i, v)'
        PROVE  store'[i][v] = owner'[session'[v]] /\ store'[i][v] \in allowed'[i]
    <3>1. CASE i = req[r].inst /\ v = t
      BY <2>1, <3>1, GrantEffect DEF Puts, Joins
    <3>2. CASE i # req[r].inst \/ v # t
      <4>1. store'[i][v] = store[i][v] /\ Live(i, v) /\ Issued(v)
        BY <2>1, <2>3, <3>2, GrantEffect DEF Puts, Live, Chains
      <4>2. session'[v] = session[v] /\ owner'[session[v]] = owner[session[v]]
        BY <2>1, <2>2, <4>1, GrantEffect DEF Joins
      <4> QED
        BY <2>1, <4>1, <4>2, GrantEffect DEF TokensOfAllowedUsers
    <3> QED
      BY <3>1, <3>2
  <2> QED
    BY <2>3 DEF TokensOfAllowedUsers
<1>4. CASE \E r \in Requests, t \in Tokens : StoreRotated(r, t)
  <2>1. PICK r \in Requests, t \in Tokens : StoreRotated(r, t)
    BY <1>4
  <2>2. ASSUME NEW i \in Instances, NEW v \in Tokens, Live(i, v)'
        PROVE  store'[i][v] = owner'[session'[v]] /\ store'[i][v] \in allowed'[i]
    <3>1. CASE i = req[r].inst /\ v = t
      BY <2>1, <3>1, RotateEffect DEF Puts, Joins
    <3>2. CASE i # req[r].inst \/ v # t
      <4>1. store'[i][v] = store[i][v] /\ Live(i, v) /\ Issued(v)
        BY <2>1, <2>2, <3>2, RotateEffect DEF Puts, Live, Chains
      <4>2. session'[v] = session[v] /\ UNCHANGED <<owner, allowed>>
        BY <2>1, <4>1, RotateEffect DEF Joins
      <4> QED
        BY <4>1, <4>2 DEF TokensOfAllowedUsers
    <3> QED
      BY <3>1, <3>2
  <2> QED
    BY <2>2 DEF TokensOfAllowedUsers
<1>5. CASE \E i \in Instances, list \in SUBSET Users : Restart(i, list)
  BY <1>5, RestartEffect DEF TokensOfAllowedUsers, Live
<1> QED
  BY <1>1, <1>2, <1>3, <1>4, <1>5, NextCases

(* The three parts of NoTwoTokensOfASession.                                *)
OneLive ==
  \A i, j \in Instances, t, u \in Tokens :
    Live(i, t) /\ Live(j, u) /\ session[t] = session[u] => i = j /\ t = u
LiveOrRotating ==
  \A r \in Requests, i \in Instances, t \in Tokens :
    Live(i, t) => ~Rotating(r, session[t])
OneRotating ==
  \A r, q \in Requests : \A s \in Tokens :
    Rotating(r, s) /\ Rotating(q, s) => r = q

LEMMA NoTwoKept ==
  ASSUME IInv, Next
  PROVE  NoTwoTokensOfASession'
<1> USE DEF IInv
<1>1. OneLive /\ LiveOrRotating /\ OneRotating
  BY DEF NoTwoTokensOfASession, OneLive, LiveOrRotating, OneRotating
<1> SUFFICES OneLive' /\ LiveOrRotating' /\ OneRotating'
  BY DEF NoTwoTokensOfASession, OneLive, LiveOrRotating, OneRotating
<1>2. CASE \E r \in Requests : Quiet(r)
  <2>1. PICK r \in Requests : Quiet(r)
    BY <1>2
  <2>2. \A q \in Requests : \A s : Rotating(q, s)' => Rotating(q, s)
    BY <2>1 DEF Quiet, Still, Moves, Rotating
  <2> QED
    BY <1>1, <2>1, <2>2
    DEF Quiet, Still, Live, OneLive, LiveOrRotating, OneRotating
<1>3. CASE \E r \in Requests : Redeem(r)
  <2>1. PICK r \in Requests : Redeem(r)
    BY <1>3
  <2> DEFINE i == req[r].inst
             t == req[r].token
  <2>2. /\ i \in Instances /\ t \in Tokens /\ Live(i, t)
        /\ Puts(i, t, Nobody) /\ session' = session
        /\ Moves(r, "revoked", i, store[i][t], t)
    BY <2>1, RedeemEffect
  <2> HIDE DEF i, t
  <2>3. \A j \in Instances, v \in Tokens :
          Live(j, v)' => Live(j, v) /\ session[v] # session[t]
    BY <1>1, <2>2 DEF Puts, Live, OneLive
  <2>4. \A s : Rotating(r, s)' <=> s = session[t]
    BY <2>2 DEF Moves, Rotating
  <2>5. \A q \in Requests \ {r} : \A s : Rotating(q, s)' <=> Rotating(q, s)
    BY <2>2 DEF Moves, Rotating
  <2>6. OneLive'
    BY <1>1, <2>2, <2>3 DEF OneLive
  <2>7. LiveOrRotating'
    BY <1>1, <2>2, <2>3, <2>4, <2>5 DEF LiveOrRotating
  <2>8. OneRotating'
    BY <1>1, <2>2, <2>4, <2>5 DEF OneRotating, LiveOrRotating
  <2> QED
    BY <2>6, <2>7, <2>8
<1>4. CASE \E r \in Requests, t \in Tokens : GrantLogin(r, t)
  <2>1. PICK r \in Requests, t \in Tokens : GrantLogin(r, t)
    BY <1>4
  <2> DEFINE i == req[r].inst
  <2>2. /\ i \in Instances /\ ~Issued(t) /\ Joins(t, t)
        /\ Puts(i, t, req[r].user)
        /\ Moves(r, "answered", i, req[r].user, t)
    BY <2>1, GrantEffect
  <2> HIDE DEF i
  <2>3. \A v \in Tokens : Issued(v) =>
          session'[v] = session[v] /\ session[v] # t /\ v # t
    BY <2>2 DEF Joins, Chains, Issued, TypeOK
  <2>4. \A j \in Instances, v \in Tokens : Live(j, v)' =>
          \/ j = i /\ v = t
          \/ Live(j, v) /\ session'[v] = session[v] /\ session[v] # t
    BY <2>2, <2>3 DEF Puts, Live, Chains
  <2>5. session'[t] = t
    BY <2>2 DEF Joins
  <2>6. \A q \in Requests : \A s : Rotating(q, s)' => Rotating(q, s) /\ s # t
    <3> SUFFICES ASSUME NEW q \in Requests, NEW s, Rotating(q, s)'
                 PROVE  Rotating(q, s) /\ s # t
      OBVIOUS
    <3>1. req'[q] = req[q] /\ req[q].pc = "revoked"
      BY <2>2 DEF Moves, Rotating
    <3>2. req[q].token \in Tokens /\ Issued(req[q].token)
      BY <3>1 DEF Chains, RequestOK
    <3> QED
      BY <2>3, <3>1, <3>2 DEF Rotating
  <2>7. OneLive'
    BY <1>1, <2>4, <2>5 DEF OneLive
  <2>8. LiveOrRotating'
    BY <1>1, <2>4, <2>5, <2>6 DEF LiveOrRotating
  <2>9. OneRotating'
    BY <1>1, <2>6 DEF OneRotating
  <2> QED
    BY <2>7, <2>8, <2>9
<1>5. CASE \E r \in Requests, t \in Tokens : StoreRotated(r, t)
  <2>1. PICK r \in Requests, t \in Tokens : StoreRotated(r, t)
    BY <1>5
  <2> DEFINE i == req[r].inst
             s0 == session[req[r].token]
  <2>2. /\ i \in Instances /\ ~Issued(t) /\ Joins(t, s0)
        /\ Puts(i, t, req[r].user)
        /\ Moves(r, "stored", i, req[r].user, t)
        /\ s0 \in Tokens /\ Rotating(r, s0)
    BY <2>1, RotateEffect DEF Rotating, Issued, TypeOK
  <2> HIDE DEF i, s0
  <2>3. \A v \in Tokens : Issued(v) => session'[v] = session[v] /\ v # t
    BY <2>2 DEF Joins
  <2>4. \A j \in Instances, v \in Tokens : Live(j, v)' =>
          \/ j = i /\ v = t
          \/ Live(j, v) /\ session'[v] = session[v] /\ session[v] # s0
    BY <1>1, <2>2, <2>3 DEF Puts, Live, Chains, LiveOrRotating
  <2>5. session'[t] = s0
    BY <2>2 DEF Joins
  <2>6. \A q \in Requests : \A s : Rotating(q, s)' =>
          Rotating(q, s) /\ q # r /\ s \in Tokens
    <3> SUFFICES ASSUME NEW q \in Requests, NEW s, Rotating(q, s)'
                 PROVE  Rotating(q, s) /\ q # r /\ s \in Tokens
      OBVIOUS
    <3>1. q # r /\ req'[q] = req[q] /\ req[q].pc = "revoked"
      BY <2>2 DEF Moves, Rotating
    <3>2. req[q].token \in Tokens /\ Issued(req[q].token)
      BY <3>1 DEF Chains, RequestOK
    <3> QED
      BY <2>3, <3>1, <3>2 DEF Rotating, Issued, TypeOK
  <2>7. OneLive'
    BY <1>1, <2>4, <2>5 DEF OneLive
  <2>8. LiveOrRotating'
    BY <1>1, <2>2, <2>4, <2>5, <2>6 DEF LiveOrRotating, OneRotating
  <2>9. OneRotating'
    BY <1>1, <2>6 DEF OneRotating
  <2> QED
    BY <2>7, <2>8, <2>9
<1>6. CASE \E i \in Instances, list \in SUBSET Users : Restart(i, list)
  <2>1. PICK i \in Instances, list \in SUBSET Users : Restart(i, list)
    BY <1>6
  <2>2. \A j \in Instances, t \in Tokens : Live(j, t)' => Live(j, t)
    BY <2>1, RestartEffect DEF Live
  <2>3. \A q \in Requests : \A s : Rotating(q, s)' => Rotating(q, s)
    BY <2>1, RestartEffect DEF Rotating
  <2>4. session' = session
    BY <2>1, RestartEffect
  <2> QED
    BY <1>1, <2>2, <2>3, <2>4 DEF OneLive, LiveOrRotating, OneRotating
<1> QED
  BY <1>2, <1>3, <1>4, <1>5, <1>6, NextCases

(* How a session s survives: a handler is rotating it, or it has a valid    *)
(* token the client has or is being sent.                                   *)
Reaches(t) == t \in given \/ \E r \in Requests : Answering(r, t)
Survives(s) ==
  \/ \E r \in Requests : Rotating(r, s)
  \/ \E i \in Instances, t \in Tokens :
       Live(i, t) /\ session[t] = s /\ Reaches(t)

LEMMA SurvivesKept ==
  ASSUME IInv, Next
  PROVE  SessionSurvivesRaces'
<1> USE DEF IInv
<1> SUFFICES ASSUME NEW s \in Tokens, Issued(s)', s \notin disturbed',
                    session'[s] = s
             PROVE  Survives(s)'
  BY DEF SessionSurvivesRaces, Survives, Reaches
<1>1. Issued(s) /\ s \notin disturbed /\ session[s] = s => Survives(s)
  BY DEF SessionSurvivesRaces, Survives, Reaches
<1>2. CASE \E r \in Requests : Quiet(r) /\ KeepsSessions(r)
  <2>1. PICK r \in Requests : Quiet(r) /\ KeepsSessions(r)
    BY <1>2
  <2>2. /\ UNCHANGED <<store, session>> /\ given \subseteq given'
        /\ disturbed \subseteq disturbed'
        /\ \A q \in Requests \ {r} : req'[q] = req[q]
    BY <2>1 DEF Quiet, Still, Moves
  <2>3. Survives(s)
    BY <1>1, <2>2 DEF Issued
  <2>4. CASE \E q \in Requests : Rotating(q, s)
    BY <2>1, <2>2, <2>4 DEF KeepsSessions, Survives, Rotating
  <2>5. CASE \E i \in Instances, t \in Tokens :
               Live(i, t) /\ session[t] = s /\ Reaches(t)
    <3>1. PICK i \in Instances, t \in Tokens :
            Live(i, t) /\ session[t] = s /\ Reaches(t)
      BY <2>5
    <3>2. Live(i, t)' /\ session'[t] = s
      BY <2>2, <3>1 DEF Live
    <3>3. Reaches(t)'
      BY <2>1, <2>2, <3>1 DEF KeepsSessions, Reaches, Answering
    <3> QED
      BY <3>2, <3>3 DEF Survives
  <2> QED
    BY <2>3, <2>4, <2>5 DEF Survives
<1>3. CASE \E r \in Requests : Redeem(r)
  <2>1. PICK r \in Requests : Redeem(r)
    BY <1>3
  <2>a. PICK i0 \in Instances, t0 \in Tokens :
           i0 = req[r].inst /\ t0 = req[r].token
    BY <2>1, RedeemEffect
  <2>2. /\ i0 \in Instances /\ t0 \in Tokens /\ req[r].pc = "refresh"
        /\ Puts(i0, t0, Nobody) /\ UNCHANGED <<session, given, disturbed>>
        /\ Moves(r, "revoked", i0, store[i0][t0], t0)
    BY <2>1, <2>a, RedeemEffect
  <2>3. \A v : v = session[t0] => Rotating(r, v)'
    BY <2>2 DEF Moves, Rotating
  <2>4. \A q \in Requests : \A v :
          /\ Rotating(q, v) => Rotating(q, v)'
          /\ Answering(q, v) => Answering(q, v)'
    <3>1. \A q \in Requests \ {r} : req'[q] = req[q]
      BY <2>2 DEF Moves
    <3>2. \A v : ~Rotating(r, v) /\ ~Answering(r, v)
      <4>1. req[r].pc = "refresh"
        BY <2>2
      <4> QED
        BY <4>1 DEF Rotating, Answering
    <3> QED
      BY <2>2, <3>1, <3>2 DEF Rotating, Answering
  <2>5. Survives(s)
    BY <1>1, <2>2 DEF Issued
  <2>6. CASE s = session[t0]
    BY <2>3, <2>6 DEF Survives
  <2>7. CASE s # session[t0]
    <3>1. \A i \in Instances, t \in Tokens :
            Live(i, t) /\ session[t] = s => Live(i, t)'
      BY <2>2, <2>7 DEF Puts, Live
    <3>2. \A t \in Tokens : Reaches(t) => Reaches(t)'
      <4>1. given' = given
        BY <2>2
      <4>2. \A q \in Requests : \A v : Answering(q, v) => Answering(q, v)'
        BY <2>4
      <4> QED
        BY <4>1, <4>2 DEF Reaches
    <3>3. CASE \E q \in Requests : Rotating(q, s)
      BY <2>4, <3>3 DEF Survives
    <3>4. CASE \E i \in Instances, t \in Tokens :
                 Live(i, t) /\ session[t] = s /\ Reaches(t)
      BY <2>2, <3>1, <3>2, <3>4 DEF Survives
    <3> QED
      BY <2>5, <3>3, <3>4 DEF Survives
  <2> QED
    BY <2>6, <2>7
<1>4. CASE \E r \in Requests, t \in Tokens : GrantLogin(r, t)
  <2>1. PICK r \in Requests, t0 \in Tokens : GrantLogin(r, t0)
    BY <1>4
  <2>a. PICK i0 \in Instances : i0 = req[r].inst
    BY <2>1, GrantEffect
  <2>2. /\ i0 \in Instances /\ ~Issued(t0) /\ Joins(t0, t0)
        /\ Puts(i0, t0, req[r].user) /\ req[r].user \in Users
        /\ req[r].pc = "login"
        /\ Moves(r, "answered", i0, req[r].user, t0)
        /\ UNCHANGED <<given, disturbed>>
    BY <2>1, <2>a, GrantEffect
  <2>3. \A v \in Tokens : Issued(v) => session'[v] = session[v] /\ v # t0
    BY <2>2 DEF Joins
  <2>4. \A q \in Requests \ {r} : req'[q] = req[q]
    BY <2>2 DEF Moves
  <2>5. CASE s = t0
    <3>1. Live(i0, t0)'
      BY <2>2, SessionConstants DEF Puts, Live
    <3>2. Reaches(t0)'
      BY <2>2 DEF Moves, Reaches, Answering
    <3> QED
      BY <2>2, <2>5, <3>1, <3>2 DEF Survives
  <2>6. CASE s # t0
    <3>1. Issued(s) /\ session[s] = s
      BY <2>2, <2>6 DEF Joins, Issued
    <3>2. Survives(s)
      BY <1>1, <2>2, <3>1
    <3>3. CASE \E q \in Requests : Rotating(q, s)
      <4>1. PICK q \in Requests : Rotating(q, s)
        BY <3>3
      <4>2. q # r /\ req[q].token \in Tokens /\ Issued(req[q].token)
        BY <2>2, <4>1 DEF Rotating, Chains, RequestOK
      <4>3. Rotating(q, s)'
        BY <2>3, <2>4, <4>1, <4>2 DEF Rotating
      <4> QED
        BY <4>3 DEF Survives
    <3>4. CASE \E i \in Instances, t \in Tokens :
                 Live(i, t) /\ session[t] = s /\ Reaches(t)
      <4>1. PICK i \in Instances, t \in Tokens :
              Live(i, t) /\ session[t] = s /\ Reaches(t)
        BY <3>4
      <4>2. t # t0 /\ session'[t] = s
        BY <2>3, <4>1 DEF Chains
      <4>3. Live(i, t)'
        BY <2>2, <4>1, <4>2 DEF Puts, Live
      <4>4. \A q \in Requests : Answering(q, t) => Answering(q, t)'
        <5>1. ~Answering(r, t)
          BY <2>2 DEF Answering
        <5> QED
          BY <2>4, <5>1 DEF Answering
      <4>5. Reaches(t)'
        BY <2>2, <4>1, <4>4 DEF Reaches
      <4> QED
        BY <4>2, <4>3, <4>5 DEF Survives
    <3> QED
      BY <3>2, <3>3, <3>4 DEF Survives
  <2> QED
    BY <2>5, <2>6
<1>5. CASE \E r \in Requests, t \in Tokens : StoreRotated(r, t)
  <2>1. PICK r \in Requests, t0 \in Tokens : StoreRotated(r, t0)
    BY <1>5
  <2>a. PICK i0 \in Instances, s0 \in Tokens :
           i0 = req[r].inst /\ s0 = session[req[r].token]
    BY <2>1, RotateEffect DEF Issued, TypeOK
  <2>2. /\ i0 \in Instances /\ ~Issued(t0) /\ Joins(t0, s0)
        /\ Puts(i0, t0, req[r].user) /\ req[r].user # Nobody
        /\ req[r].pc = "revoked"
        /\ Moves(r, "stored", i0, req[r].user, t0)
        /\ UNCHANGED <<given, disturbed>>
        /\ s0 \in Tokens /\ session[s0] = s0 /\ s0 # t0
    <3>1. req[r].user \in allowed[i0] /\ allowed[i0] \in SUBSET Users
      BY <2>1, <2>a, RotateEffect DEF TypeOK
    <3>2. s0 \in Tokens /\ session[s0] = s0 /\ s0 # t0
      BY <2>1, <2>a, RotateEffect DEF Chains, Issued, TypeOK
    <3> QED
      BY <2>1, <2>a, <3>1, <3>2, RotateEffect, SessionConstants
  <2>3. \A q \in Requests : \A v : q # r /\ Rotating(q, v) => Rotating(q, v)'
    <3> SUFFICES ASSUME NEW q \in Requests, NEW v, q # r, Rotating(q, v)
                 PROVE  Rotating(q, v)'
      OBVIOUS
    <3>1. req'[q] = req[q] /\ req[q].token \in Tokens \ {t0}
      BY <2>2 DEF Moves, Rotating, Chains, RequestOK
    <3> QED
      BY <2>2, <3>1 DEF Rotating, Joins
  <2>4. \A v : Rotating(r, v) => v = s0
    BY <2>a DEF Rotating
  <2>5. CASE s = s0
    <3>1. Live(i0, t0)' /\ session'[t0] = s0
      BY <2>2 DEF Puts, Live, Joins
    <3>2. Reaches(t0)'
      BY <2>2 DEF Moves, Reaches, Answering
    <3> QED
      BY <2>2, <2>5, <3>1, <3>2 DEF Survives
  <2>6. CASE s # s0
    <3>1. Issued(s) /\ session[s] = s /\ s # t0
      BY <2>2, <2>6 DEF Joins, Issued
    <3>2. Survives(s)
      BY <1>1, <2>2, <3>1
    <3>3. CASE \E q \in Requests : Rotating(q, s)
      BY <2>3, <2>4, <2>6, <3>3 DEF Survives
    <3>4. CASE \E i \in Instances, t \in Tokens :
                 Live(i, t) /\ session[t] = s /\ Reaches(t)
      <4>1. PICK i \in Instances, t \in Tokens :
              Live(i, t) /\ session[t] = s /\ Reaches(t)
        BY <3>4
      <4>2. t # t0 /\ session'[t] = s
        BY <2>2, <4>1 DEF Chains, Joins
      <4>3. Live(i, t)'
        BY <2>2, <4>1, <4>2 DEF Puts, Live
      <4>4. \A q \in Requests : Answering(q, t) => Answering(q, t)'
        <5>1. ~Answering(r, t)
          BY <2>2 DEF Answering
        <5> QED
          BY <2>2, <5>1 DEF Answering, Moves
      <4>5. Reaches(t)'
        BY <2>2, <4>1, <4>4 DEF Reaches
      <4> QED
        BY <4>2, <4>3, <4>5 DEF Survives
    <3> QED
      BY <3>2, <3>3, <3>4 DEF Survives
  <2> QED
    BY <2>5, <2>6
<1>6. CASE \E i \in Instances, list \in SUBSET Users : Restart(i, list)
  <2>1. PICK i0 \in Instances, list \in SUBSET Users : Restart(i0, list)
    BY <1>6
  <2>2. /\ UNCHANGED <<given, session>> /\ s \notin SessionsOf(i0)
        /\ s \notin disturbed
        /\ \A j \in Instances \ {i0} : store'[j] = store[j]
        /\ \A q \in Requests : req[q].inst # i0 => req'[q] = req[q]
    BY <2>1, RestartEffect
  <2>3. Survives(s)
    BY <1>1, <2>2 DEF Issued
  <2>4. \A t \in Tokens : Live(i0, t) => session[t] # s
    BY <2>2 DEF SessionsOf
  <2>5. \A q \in Requests : /\ req[q].inst = i0
                             /\ req[q].pc \in {"revoked", "stored", "answered"}
                             => session[req[q].token] # s
    BY <2>2 DEF SessionsOf
  <2>6. \A q \in Requests : Rotating(q, s) => Rotating(q, s)'
    BY <2>2, <2>5 DEF Rotating
  <2>7. \A q \in Requests, t \in Tokens :
          session[t] = s /\ Answering(q, t) => Answering(q, t)'
    BY <2>2, <2>5 DEF Answering
  <2>8. \A i \in Instances, t \in Tokens :
          Live(i, t) /\ session[t] = s => Live(i, t)'
    BY <2>2, <2>4 DEF Live
  <2> QED
    BY <2>2, <2>3, <2>6, <2>7, <2>8 DEF Survives, Reaches
<1> QED
  BY <1>2, <1>3, <1>4, <1>5, <1>6, NextCases

-----------------------------------------------------------------------------
LEMMA InitIInv == Init => IInv
<1> SUFFICES ASSUME Init PROVE IInv
  OBVIOUS
<1>1. \A i \in Instances :
        /\ At("idle", i, Nobody, NoToken) \in Request
        /\ At("idle", i, Nobody, NoToken).pc = "idle"
  BY DEF At, Request, Steps
<1>2. \A r \in Requests : req[r].pc = "idle" /\ req[r] \in Request
  BY <1>1 DEF Init
<1>3. req \in [Requests -> Request]
  BY <1>2 DEF Init
<1>4. TypeOK
  BY <1>3 DEF Init, TypeOK
<1>5. \A i \in Instances, t \in Tokens : ~Live(i, t)
  BY DEF Init, Live
<1>6. \A t \in Tokens : ~Issued(t)
  BY DEF Init, Issued
<1>7. \A r \in Requests : \A s : ~Rotating(r, s)
  BY <1>2 DEF Rotating
<1>8. Chains
  BY <1>2, <1>5, <1>6 DEF Init, Chains, RequestOK
<1> QED
  BY <1>4, <1>5, <1>6, <1>7, <1>8
  DEF IInv, TokensOfAllowedUsers, NoTwoTokensOfASession, SessionSurvivesRaces

LEMMA NextIInv == IInv /\ [Next]_vars => IInv'
<1> SUFFICES ASSUME IInv, [Next]_vars PROVE IInv'
  OBVIOUS
<1>1. CASE Next
  BY <1>1, TypeKept, ChainsKept, AllowedKept, NoTwoKept, SurvivesKept DEF IInv
<1>2. CASE UNCHANGED vars
  BY <1>2 DEF vars, IInv, TypeOK, Chains, RequestOK, TokensOfAllowedUsers,
              NoTwoTokensOfASession, SessionSurvivesRaces, Live, Issued,
              Rotating, Answering
<1> QED
  BY <1>1, <1>2

LEMMA Invariance == Spec => []IInv
<1> QED
  BY InitIInv, NextIInv, PTL DEF Spec

(* The variables keep their types.                                          *)
THEOREM SessionTypeCorrect == Spec => []TypeOK
<1>1. IInv => TypeOK
  BY DEF IInv
<1> QED
  BY <1>1, Invariance, PTL

(* No race of refreshes forks a session.                                    *)
THEOREM SessionNeverForks == Spec => []NoTwoTokensOfASession
<1>1. IInv => NoTwoTokensOfASession
  BY DEF IInv
<1> QED
  BY <1>1, Invariance, PTL

(* Only a failed step, a lost answer or a restart ends a session.           *)
THEOREM SessionSurvivesCorrect == Spec => []SessionSurvivesRaces
<1>1. IInv => SessionSurvivesRaces
  BY DEF IInv
<1> QED
  BY <1>1, Invariance, PTL

(* A valid token stands for an account that logged in and is still allowed. *)
THEOREM AllowedCorrect == Spec => []TokensOfAllowedUsers
<1>1. IInv => TokensOfAllowedUsers
  BY DEF IInv
<1> QED
  BY <1>1, Invariance, PTL

(* A token that was redeemed, or forgotten, is never valid again.           *)
THEOREM RevokedForGoodCorrect == Spec => RevokedForGood
<1>1. IInv /\ [Next]_vars => [\A t \in Tokens : StaysRevoked(t)]_vars
  <2> SUFFICES ASSUME IInv, Next, NEW t \in Tokens PROVE StaysRevoked(t)
    OBVIOUS
  <2> SUFFICES ASSUME Issued(t), \A j \in Instances : ~Live(j, t),
                      NEW i \in Instances
               PROVE  ~Live(i, t)'
    BY DEF StaysRevoked
  <2>1. CASE \E r \in Requests : Quiet(r)
    BY <2>1 DEF Quiet, Still, Live
  <2>2. CASE \E r \in Requests : Redeem(r)
    BY <2>2, RedeemEffect DEF Puts, Live
  <2>3. CASE \E r \in Requests, v \in Tokens : GrantLogin(r, v)
    BY <2>3, GrantEffect DEF Puts, Live
  <2>4. CASE \E r \in Requests, v \in Tokens : StoreRotated(r, v)
    BY <2>4, RotateEffect DEF Puts, Live
  <2>5. CASE \E j \in Instances, list \in SUBSET Users : Restart(j, list)
    BY <2>5, RestartEffect DEF Live
  <2> QED
    BY <2>1, <2>2, <2>3, <2>4, <2>5, NextCases
<1> QED
  BY <1>1, Invariance, PTL DEF Spec, RevokedForGood

-----------------------------------------------------------------------------
(* One instance that is never restarted accounts for every token.           *)
Accounted(i) ==
  /\ \A t \in Tokens : Issued(t) => Live(i, t) \/ t \in redeemed
  /\ \A r \in Requests : req[r].pc = "login" => req[r].token = NoToken
  /\ OnlyUsedTokensAreRefused

LEMMA AccountedKept ==
  ASSUME NEW i, Instances = {i}, Unstable = {}, IInv, Next, Accounted(i)
  PROVE  Accounted(i)'
<1> USE DEF IInv
<1>1. ~ \E j \in Instances, list \in SUBSET Users : Restart(j, list)
  BY DEF Restart
<1>2. ASSUME NEW r \in Requests,
             \A q \in Requests \ {r} : req'[q] = req[q],
             redeemed \subseteq redeemed',
             req'[r].pc # "login" \/ req'[r].token = NoToken,
             req'[r].pc = "refused" /\ req'[r].token # NoToken =>
               req'[r].token \in redeemed'
      PROVE  /\ \A q \in Requests : req'[q].pc = "login" =>
                  req'[q].token = NoToken
             /\ OnlyUsedTokensAreRefused'
  BY <1>2 DEF Accounted, OnlyUsedTokensAreRefused
<1>3. CASE \E r \in Requests, u \in Users : LoginArrives(r, i, u)
  <2>1. PICK r \in Requests, u \in Users : LoginArrives(r, i, u)
    BY <1>3
  <2>2. Moves(r, "login", i, u, NoToken)
    BY <2>1, MovesIntro DEF LoginArrives, Begin, Steps
  <2> QED
    BY <1>2, <2>1, <2>2 DEF LoginArrives, Moves, Accounted, Live, Issued
<1>4. CASE \E r \in Requests, t \in Tokens : RefreshArrives(r, i, t)
  <2>1. PICK r \in Requests, t \in Tokens : RefreshArrives(r, i, t)
    BY <1>4
  <2>2. Moves(r, "refresh", i, Nobody, t)
    BY <2>1, MovesIntro DEF RefreshArrives, Begin, Steps
  <2> QED
    BY <1>2, <2>1, <2>2 DEF RefreshArrives, Moves, Accounted, Live, Issued
<1>5. CASE \E r \in Requests : RefuseLogin(r)
  <2>1. PICK r \in Requests : RefuseLogin(r)
    BY <1>5
  <2>2. Moves(r, "refused", req[r].inst, req[r].user, req[r].token)
    BY <2>1, GotoMoves DEF RefuseLogin, Steps, TypeOK, Request
  <2>3. req[r].token = NoToken
    BY <2>1 DEF RefuseLogin, Accounted
  <2> QED
    BY <1>2, <2>1, <2>2, <2>3 DEF RefuseLogin, Moves, Accounted, Live, Issued
<1>6. CASE \E r \in Requests : RefuseRefresh(r)
  <2>1. PICK r \in Requests : RefuseRefresh(r)
    BY <1>6
  <2>2. Moves(r, "refused", req[r].inst, req[r].user, req[r].token)
    BY <2>1, GotoMoves DEF RefuseRefresh, Steps, TypeOK, Request
  <2>3. /\ req[r].token \in Tokens /\ Issued(req[r].token)
        /\ req[r].inst = i
    BY <2>1 DEF RefuseRefresh, Chains, RequestOK, TypeOK, Request
  <2>4. req[r].token \in redeemed
    BY <2>1, <2>3 DEF RefuseRefresh, Accounted
  <2> QED
    BY <1>2, <2>1, <2>2, <2>4 DEF RefuseRefresh, Moves, Accounted, Live, Issued
<1>7. CASE \E r \in Requests : SignRotated(r) \/ Fail(r)
  <2>1. PICK r \in Requests : SignRotated(r) \/ Fail(r)
    BY <1>7
  <2>2. PICK pc \in {"answered", "failed"} :
          Moves(r, pc, req[r].inst, req[r].user, req[r].token)
    BY <2>1, GotoMoves DEF SignRotated, Fail, Steps, TypeOK, Request
  <2> QED
    BY <1>2, <2>1, <2>2 DEF SignRotated, Fail, Moves, Accounted, Live, Issued
<1>8. CASE \E r \in Requests : Deliver(r) \/ Lose(r)
  <2>1. PICK r \in Requests : Deliver(r) \/ Lose(r)
    BY <1>8
  <2>2. Moves(r, "idle", req[r].inst, Nobody, NoToken)
    BY <2>1, DoneMoves DEF Deliver, Lose
  <2> QED
    BY <1>2, <2>1, <2>2 DEF Deliver, Lose, Moves, Accounted, Live, Issued
<1>9. CASE \E r \in Requests : Redeem(r)
  <2>1. PICK r \in Requests : Redeem(r)
    BY <1>9
  <2>2. \A t \in Tokens : Issued(t)' => Live(i, t)' \/ t \in redeemed'
    BY <2>1, RedeemEffect DEF Puts, Accounted, Live, Issued
  <2>3. /\ \A q \in Requests \ {r} : req'[q] = req[q]
        /\ redeemed \subseteq redeemed' /\ req'[r].pc = "revoked"
    BY <2>1, RedeemEffect DEF Moves
  <2> QED
    BY <1>2, <2>2, <2>3 DEF Accounted
<1>10. CASE \E r \in Requests, t \in Tokens : GrantLogin(r, t)
  <2>1. PICK r \in Requests, t \in Tokens : GrantLogin(r, t)
    BY <1>10
  <2>2. Live(i, t)'
    BY <2>1, GrantEffect, SessionConstants DEF Puts, Live
  <2>3. \A v \in Tokens \ {t} : Issued(v)' => Live(i, v)' \/ v \in redeemed'
    BY <2>1, GrantEffect DEF Puts, Joins, Accounted, Live, Issued
  <2>4. /\ \A q \in Requests \ {r} : req'[q] = req[q]
        /\ redeemed \subseteq redeemed' /\ req'[r].pc = "answered"
    BY <2>1, GrantEffect DEF Moves
  <2> QED
    BY <1>2, <2>2, <2>3, <2>4 DEF Accounted
<1>11. CASE \E r \in Requests, t \in Tokens : StoreRotated(r, t)
  <2>1. PICK r \in Requests, t \in Tokens : StoreRotated(r, t)
    BY <1>11
  <2>2. Live(i, t)'
    <3>1. req[r].user \in Users /\ req[r].inst = i
      BY <2>1, RotateEffect DEF TypeOK
    <3> QED
      BY <2>1, <3>1, RotateEffect, SessionConstants DEF Puts, Live
  <2>3. \A v \in Tokens \ {t} : Issued(v)' => Live(i, v)' \/ v \in redeemed'
    BY <2>1, RotateEffect DEF Puts, Joins, Accounted, Live, Issued
  <2>4. /\ \A q \in Requests \ {r} : req'[q] = req[q]
        /\ redeemed \subseteq redeemed' /\ req'[r].pc = "stored"
    BY <2>1, RotateEffect DEF Moves
  <2> QED
    BY <1>2, <2>2, <2>3, <2>4 DEF Accounted
<1> QED
  BY <1>1, <1>3, <1>4, <1>5, <1>6, <1>7, <1>8, <1>9, <1>10, <1>11 DEF Next

(* With a single instance that stays up, what the README promises holds: a  *)
(* refresh token is refused only after it has been used.                    *)
THEOREM OneInstanceRefusesOnlyUsed ==
  ASSUME NEW CONSTANT i, Instances = {i}, Unstable = {}
  PROVE  Spec => []OnlyUsedTokensAreRefused
<1>1. Init => Accounted(i)
  BY DEF Init, At, Accounted, OnlyUsedTokensAreRefused, Issued
<1>2. IInv /\ [Next]_vars /\ Accounted(i) => Accounted(i)'
  <2>1. CASE Next
    BY <2>1, AccountedKept
  <2>2. CASE UNCHANGED vars
    BY <2>2 DEF vars, Accounted, OnlyUsedTokensAreRefused, Live, Issued
  <2> QED
    BY <2>1, <2>2
<1>3. Accounted(i) => OnlyUsedTokensAreRefused
  BY DEF Accounted
<1> QED
  BY <1>1, <1>2, <1>3, Invariance, PTL DEF Spec

-----------------------------------------------------------------------------
(* The refinement.  Keys, Turns and Drawn are the table the token maps and  *)
(* handlers of all instances amount to, Valid and Turned what it holds.     *)
Keys == [s \in Tokens |->
           {k \in Tokens \X Users :
              /\ session[k[1]] = s
              /\ \E i \in Instances : store[i][k[1]] = k[2]}]
Turns == [s \in Tokens |->
            {u \in Users : \E r \in Requests :
                             Rotating(r, s) /\ req[r].user = u}]
Drawn == {t \in Tokens : Issued(t)}

Valid(s, t, u)  == session[t] = s /\ \E i \in Instances : store[i][t] = u
Turned(s, u)    == \E r \in Requests : Rotating(r, s) /\ req[r].user = u

(* A set of pairs is known by its pairs.                                    *)
LEMMA SamePairs ==
  ASSUME NEW K \in SUBSET (Tokens \X Users), NEW L \in SUBSET (Tokens \X Users),
         \A t \in Tokens, u \in Users : <<t, u>> \in K <=> <<t, u>> \in L
  PROVE  K = L
  OBVIOUS

LEMMA KeysHold ==
  /\ Keys \in [Tokens -> SUBSET (Tokens \X Users)]
  /\ \A s, t \in Tokens, u \in Users : <<t, u>> \in Keys[s] <=> Valid(s, t, u)
  /\ Keys' \in [Tokens -> SUBSET (Tokens \X Users)]
  /\ \A s, t \in Tokens, u \in Users : <<t, u>> \in Keys'[s] <=> Valid(s, t, u)'
BY DEF Keys, Valid

LEMMA TurnsHold ==
  /\ Turns \in [Tokens -> SUBSET Users]
  /\ \A s \in Tokens, u \in Users : u \in Turns[s] <=> Turned(s, u)
  /\ Turns' \in [Tokens -> SUBSET Users]
  /\ \A s \in Tokens, u \in Users : u \in Turns'[s] <=> Turned(s, u)'
BY DEF Turns, Turned

(* What holds of a session determines its row.                              *)
LEMMA RowIsKey ==
  ASSUME NEW K \in SUBSET (Tokens \X Users), NEW t \in Tokens, NEW u \in Users,
         \A v \in Tokens, w \in Users : <<v, w>> \in K <=> v = t /\ w = u
  PROVE  K = {<<t, u>>}
<1>1. {<<t, u>>} \in SUBSET (Tokens \X Users)
  OBVIOUS
<1>2. \A v \in Tokens, w \in Users : <<v, w>> \in {<<t, u>>} <=> v = t /\ w = u
  OBVIOUS
<1> QED BY <1>1, <1>2, SamePairs

SameRow(s) ==
  /\ \A t \in Tokens, u \in Users : Valid(s, t, u)' <=> Valid(s, t, u)
  /\ \A u \in Users : Turned(s, u)' <=> Turned(s, u)

EmptyRow(s) ==
  /\ \A t \in Tokens, u \in Users : ~Valid(s, t, u)
  /\ \A u \in Users : ~Turned(s, u)

LEMMA SameRowStays ==
  ASSUME NEW s \in Tokens, SameRow(s)
  PROVE  Keys'[s] = Keys[s] /\ Turns'[s] = Turns[s]
<1>1. Keys'[s] \in SUBSET (Tokens \X Users) /\ Keys[s] \in SUBSET (Tokens \X Users)
  BY KeysHold
<1>2. \A t \in Tokens, u \in Users : <<t, u>> \in Keys'[s] <=> <<t, u>> \in Keys[s]
  BY KeysHold DEF SameRow
<1>3. Keys'[s] = Keys[s]
  BY <1>1, <1>2, SamePairs
<1>4. Turns'[s] \subseteq Users /\ Turns[s] \subseteq Users
  BY TurnsHold
<1>5. \A u \in Users : u \in Turns'[s] <=> u \in Turns[s]
  BY TurnsHold DEF SameRow
<1> QED BY <1>3, <1>4, <1>5

LEMMA EmptyRowIs ==
  ASSUME NEW s \in Tokens
  PROVE  /\ EmptyRow(s) => Keys[s] = {} /\ Turns[s] = {}
         /\ EmptyRow(s)' => Keys'[s] = {} /\ Turns'[s] = {}
<1>1. /\ \A K \in SUBSET (Tokens \X Users) :
           (\A t \in Tokens, u \in Users : <<t, u>> \notin K) => K = {}
      /\ \A U \in SUBSET Users : (\A u \in Users : u \notin U) => U = {}
  OBVIOUS
<1>2. EmptyRow(s) => Keys[s] = {} /\ Turns[s] = {}
  <2>1. Keys[s] \in SUBSET (Tokens \X Users) /\ Turns[s] \in SUBSET Users
    BY KeysHold, TurnsHold
  <2> QED BY <1>1, <2>1, KeysHold, TurnsHold DEF EmptyRow
<1>3. EmptyRow(s)' => Keys'[s] = {} /\ Turns'[s] = {}
  <2>1. Keys'[s] \in SUBSET (Tokens \X Users) /\ Turns'[s] \in SUBSET Users
    BY KeysHold, TurnsHold
  <2> QED BY <1>1, <2>1, KeysHold, TurnsHold DEF EmptyRow
<1> QED BY <1>2, <1>3

(* A step that draws no token and leaves each row as it is, or empties it.  *)
LEMMA EndsMaps ==
  ASSUME Drawn' = Drawn, \A s \in Tokens : SameRow(s) \/ EmptyRow(s)'
  PROVE  Table!EndSome
<1>1. \A s \in Tokens :
        \/ Keys'[s] = {} /\ Turns'[s] = {}
        \/ Keys'[s] = Keys[s] /\ Turns'[s] = Turns[s]
  BY SameRowStays, EmptyRowIs
<1>2. \A s \in Tokens : Table!Ends(s)
  BY <1>1 DEF Table!Ends, Keys, Turns
<1>3. Keys' \in [Tokens -> SUBSET (Tokens \X Users)] /\ Turns' \in [Tokens -> SUBSET Users]
  BY KeysHold, TurnsHold
<1> QED BY <1>2, <1>3 DEF Table!EndSome, Keys, Turns, Drawn

(* A session has one token or one handler that turns it.                    *)
LEMMA RowIsUnique ==
  ASSUME IInv, NEW s \in Tokens
  PROVE  /\ \A i \in Instances, t \in Tokens : Live(i, t) /\ session[t] = s =>
              /\ \A r \in Requests : ~Rotating(r, s)
              /\ \A j \in Instances, v \in Tokens :
                   Live(j, v) /\ session[v] = s => j = i /\ v = t
         /\ \A r \in Requests : Rotating(r, s) =>
              /\ \A i \in Instances, t \in Tokens : Live(i, t) => session[t] # s
              /\ \A q \in Requests : Rotating(q, s) => q = r
BY DEF IInv, NoTwoTokensOfASession

(* A goroutine that moves without touching the tokens.                      *)
LEMMA QuietMaps ==
  ASSUME IInv, NEW r \in Requests, Quiet(r)
  PROVE  Table!EndSome
<1>1. UNCHANGED <<store, session>> /\ (\A q \in Requests \ {r} : req'[q] = req[q])
      /\ req'[r].pc # "revoked"
  BY DEF Quiet, Still, Moves
<1>2. Drawn' = Drawn
  BY <1>1 DEF Drawn, Issued
<1>3. ASSUME NEW s \in Tokens PROVE SameRow(s) \/ EmptyRow(s)'
  <2>1. \A t \in Tokens, u \in Users : Valid(s, t, u)' <=> Valid(s, t, u)
    BY <1>1 DEF Valid
  <2>2. \A q \in Requests \ {r} : Rotating(q, s)' <=> Rotating(q, s)
    BY <1>1 DEF Rotating
  <2>3. ~Rotating(r, s)'
    BY <1>1 DEF Rotating
  <2>4. CASE Rotating(r, s)
    <3>1. \A t \in Tokens, u \in Users : ~Valid(s, t, u)
      BY <2>4, RowIsUnique, SessionConstants DEF Valid, Live
    <3>2. \A q \in Requests : ~Rotating(q, s)'
      BY <2>2, <2>3, <2>4, RowIsUnique
    <3> QED BY <2>1, <3>1, <3>2 DEF EmptyRow, Turned
  <2>5. CASE ~Rotating(r, s)
    <3>1. \A u \in Users : Turned(s, u)' <=> Turned(s, u)
      BY <1>1, <2>2, <2>3, <2>5 DEF Turned
    <3> QED BY <2>1, <3>1 DEF SameRow
  <2> QED BY <2>4, <2>5
<1> QED BY <1>2, <1>3, EndsMaps

(* A restart empties the rows whose token or handler the instance held.     *)
LEMMA RestartMaps ==
  ASSUME IInv, NEW i \in Instances, NEW list \in SUBSET Users, Restart(i, list)
  PROVE  Table!EndSome
<1>1. /\ \A t \in Tokens : store'[i][t] = Nobody
      /\ \A j \in Instances \ {i} : store'[j] = store[j]
      /\ \A r \in Requests : req[r].inst = i => req'[r].pc = "idle"
      /\ \A r \in Requests : req[r].inst # i => req'[r] = req[r]
      /\ session' = session
  BY RestartEffect
<1>2. Drawn' = Drawn
  BY <1>1 DEF Drawn, Issued
<1>3. ASSUME NEW s \in Tokens PROVE SameRow(s) \/ EmptyRow(s)'
  <2>1. /\ \A t \in Tokens : ~Live(i, t)'
        /\ \A j \in Instances \ {i}, t \in Tokens : store'[j][t] = store[j][t]
        /\ \A r \in Requests : req[r].inst = i => ~Rotating(r, s)'
        /\ \A r \in Requests : req[r].inst # i =>
             (Rotating(r, s)' <=> Rotating(r, s)) /\ req'[r].user = req[r].user
    BY <1>1 DEF Live, Rotating
  <2>2. CASE \E t \in Tokens : Live(i, t) /\ session[t] = s
    <3>1. PICK t \in Tokens : Live(i, t) /\ session[t] = s
      BY <2>2
    <3>2. \A r \in Requests : ~Rotating(r, s)'
      BY <2>1, <3>1, RowIsUnique
    <3>3. \A j \in Instances, v \in Tokens : Live(j, v)' => session'[v] # s
      BY <1>1, <2>1, <3>1, RowIsUnique DEF Live
    <3> QED BY <3>2, <3>3, SessionConstants DEF EmptyRow, Valid, Turned, Live
  <2>3. CASE \E r \in Requests : Rotating(r, s) /\ req[r].inst = i
    <3>1. PICK r \in Requests : Rotating(r, s) /\ req[r].inst = i
      BY <2>3
    <3>2. \A q \in Requests : ~Rotating(q, s)'
      BY <2>1, <3>1, RowIsUnique
    <3>3. \A j \in Instances, v \in Tokens : Live(j, v)' => session'[v] # s
      BY <1>1, <2>1, <3>1, RowIsUnique DEF Live
    <3> QED BY <3>2, <3>3, SessionConstants DEF EmptyRow, Valid, Turned, Live
  <2>4. CASE /\ \A t \in Tokens : Live(i, t) => session[t] # s
             /\ \A r \in Requests : Rotating(r, s) => req[r].inst # i
    <3>1. \A t \in Tokens, u \in Users : Valid(s, t, u)' <=> Valid(s, t, u)
      BY <1>1, <2>1, <2>4, SessionConstants DEF Valid, Live
    <3>2. \A u \in Users : Turned(s, u)' <=> Turned(s, u)
      BY <2>1, <2>4 DEF Turned
    <3> QED BY <3>1, <3>2 DEF SameRow
  <2> QED BY <2>2, <2>3, <2>4
<1> QED BY <1>2, <1>3, EndsMaps

-----------------------------------------------------------------------------
(* The steps that change one row.                                           *)
LEMMA TurnMaps ==
  ASSUME IInv, NEW r \in Requests, Redeem(r),
         NEW i, NEW t, NEW s, NEW u,
         i = req[r].inst, t = req[r].token, s = session[t], u = store[i][t]
  PROVE  s \in Tokens /\ t \in Tokens /\ u \in Users /\ Table!Turn(s, t, u)
<1>1. /\ i \in Instances /\ t \in Tokens /\ Live(i, t) /\ Issued(t)
      /\ Puts(i, t, Nobody) /\ Moves(r, "revoked", i, u, t)
      /\ session' = session /\ req[r].pc = "refresh"
  BY RedeemEffect
<1>2. s \in Tokens /\ u \in Users
  BY <1>1 DEF IInv, TypeOK, Issued, Live
<1>3. /\ \A j \in Instances, v \in Tokens : Live(j, v) /\ session[v] = s => j = i /\ v = t
      /\ \A q \in Requests : ~Rotating(q, s)
  BY <1>1, <1>2, RowIsUnique
<1>4. /\ \A v \in Tokens, w \in Users : Valid(s, v, w) <=> v = t /\ w = u
      /\ \A w \in Users : ~Turned(s, w)
  BY <1>1, <1>2, <1>3, SessionConstants DEF Valid, Turned, Live
<1>5. /\ \A v \in Tokens, w \in Users : ~Valid(s, v, w)'
      /\ \A w \in Users : Turned(s, w)' <=> w = u
  <2>1. \A v \in Tokens, w \in Users : ~Valid(s, v, w)'
    BY <1>1, <1>3, SessionConstants DEF Valid, Live, Puts
  <2>2. /\ Rotating(r, s)' /\ req'[r].user = u
        /\ \A q \in Requests \ {r} : Rotating(q, s)' <=> Rotating(q, s)
    BY <1>1 DEF Rotating, Moves
  <2> QED BY <1>3, <2>1, <2>2 DEF Turned
<1>6. ASSUME NEW z \in Tokens, z # s PROVE SameRow(z)
  <2>1. \A v \in Tokens, w \in Users : Valid(z, v, w)' <=> Valid(z, v, w)
    BY <1>1, <1>6 DEF Valid, Puts
  <2>2. \A q \in Requests \ {r} :
          (Rotating(q, z)' <=> Rotating(q, z)) /\ req'[q].user = req[q].user
    BY <1>1 DEF Rotating, Moves
  <2>3. ~Rotating(r, z) /\ ~Rotating(r, z)'
    BY <1>1, <1>6 DEF Rotating, Moves
  <2> QED BY <2>1, <2>2, <2>3 DEF SameRow, Turned
<1>7. Keys[s] = {<<t, u>>} /\ Turns[s] = {}
  <2>1. Keys[s] \in SUBSET (Tokens \X Users) /\ Turns[s] \in SUBSET Users
    BY <1>2, KeysHold, TurnsHold
  <2>2. Keys[s] = {<<t, u>>}
    BY <1>1, <1>2, <1>4, <2>1, KeysHold, RowIsKey
  <2>3. Turns[s] = {}
    BY <1>2, <1>4, <2>1, TurnsHold
  <2> QED BY <2>2, <2>3
<1>8. Keys'[s] = {} /\ Turns'[s] = {u}
  <2>1. Keys'[s] \in SUBSET (Tokens \X Users) /\ Turns'[s] \in SUBSET Users
    BY <1>2, KeysHold, TurnsHold
  <2>2. \A v \in Tokens, w \in Users : <<v, w>> \notin Keys'[s]
    BY <1>2, <1>5, KeysHold
  <2>3. Turns'[s] = {u}
    BY <1>2, <1>5, <2>1, TurnsHold
  <2> QED BY <2>1, <2>2, <2>3
<1>9. Keys' = [Keys EXCEPT ![s] = {}] /\ Turns' = [Turns EXCEPT ![s] = {u}]
  BY <1>2, <1>6, <1>8, SameRowStays, KeysHold, TurnsHold
<1>10. Drawn' = Drawn
  BY <1>1 DEF Drawn, Issued
<1> QED BY <1>1, <1>2, <1>7, <1>9, <1>10 DEF Table!Turn, Keys, Turns, Drawn

(* A row that gets the token t: no row had it before.                       *)
LEMMA RowGets ==
  ASSUME IInv, NEW s \in Tokens, NEW t \in Tokens, NEW u \in Users,
         NEW i \in Instances, ~Issued(t), Puts(i, t, u), Joins(t, s),
         \A j \in Instances, v \in Tokens : Live(j, v) => session[v] # s
  PROVE  /\ Keys' = [Keys EXCEPT ![s] = {<<t, u>>}]
         /\ Drawn' = Drawn \cup {t}
         /\ t \notin Drawn /\ Keys[s] = {}
<1>1. \A j \in Instances : store[j][t] = Nobody /\ session[t] = NoToken
  BY DEF IInv, Chains, Live, Issued
<1>2. Drawn' = Drawn \cup {t} /\ t \notin Drawn
  BY SessionConstants DEF Drawn, Issued, Joins
<1>3. /\ Keys[s] \in SUBSET (Tokens \X Users) /\ Keys'[s] \in SUBSET (Tokens \X Users)
      /\ \A v \in Tokens, w \in Users : ~Valid(s, v, w)
  BY KeysHold, SessionConstants DEF Valid, Live
<1>4. Keys[s] = {}
  <2>1. \A v \in Tokens, w \in Users : <<v, w>> \notin Keys[s]
    BY <1>3, KeysHold
  <2> QED BY <1>3, <2>1
<1>5. \A v \in Tokens, w \in Users : Valid(s, v, w)' <=> v = t /\ w = u
  <2>1. \A j \in Instances, v \in Tokens : v # t =>
          store'[j][v] = store[j][v] /\ session'[v] = session[v]
    BY DEF Puts, Joins
  <2>2. /\ store'[i][t] = u /\ session'[t] = s
        /\ \A j \in Instances : j # i => store'[j][t] = Nobody
    BY <1>1 DEF Puts, Joins
  <2>3. ASSUME NEW v \in Tokens, NEW w \in Users, v # t PROVE ~Valid(s, v, w)'
    BY <1>3, <2>1, <2>3 DEF Valid
  <2>4. ASSUME NEW w \in Users PROVE Valid(s, t, w)' <=> w = u
    BY <2>2, SessionConstants DEF Valid
  <2> QED BY <2>3, <2>4
<1>6. Keys'[s] = {<<t, u>>}
  BY <1>3, <1>5, KeysHold, RowIsKey
<1>7. ASSUME NEW z \in Tokens, z # s PROVE Keys'[z] = Keys[z]
  <2>1. \A v \in Tokens, w \in Users : Valid(z, v, w)' <=> Valid(z, v, w)
    BY <1>1, <1>7, SessionConstants DEF Valid, Puts, Joins
  <2>2. Keys'[z] \in SUBSET (Tokens \X Users) /\ Keys[z] \in SUBSET (Tokens \X Users)
    BY KeysHold
  <2> QED BY <2>1, <2>2, KeysHold, SamePairs
<1>8. Keys' = [Keys EXCEPT ![s] = {<<t, u>>}]
  BY <1>6, <1>7, KeysHold
<1> QED BY <1>2, <1>4, <1>8

(* A login opens the session of the token it draws.                         *)
LEMMA OpenMaps ==
  ASSUME IInv, NEW r \in Requests, NEW t \in Tokens, GrantLogin(r, t),
         NEW i, NEW u, i = req[r].inst, u = req[r].user
  PROVE  u \in Users /\ Table!Open(t, u)
<1>1. /\ i \in Instances /\ u \in Users /\ ~Issued(t) /\ req[r].pc = "login"
      /\ Puts(i, t, u) /\ Moves(r, "answered", i, u, t) /\ Joins(t, t)
  BY GrantEffect
<1>2. \A v \in Tokens : session[v] # t
  BY <1>1, SessionConstants DEF IInv, Chains, Issued
<1>3. /\ Keys' = [Keys EXCEPT ![t] = {<<t, u>>}]
      /\ Drawn' = Drawn \cup {t} /\ t \notin Drawn
  BY <1>1, <1>2, RowGets
<1>4. ASSUME NEW z \in Tokens, NEW q \in Requests PROVE
        (Rotating(q, z)' <=> Rotating(q, z)) /\ (Rotating(q, z) => req'[q].user = req[q].user)
  <2>1. CASE q = r
    BY <1>1, <2>1 DEF Rotating, Moves
  <2>2. CASE q # r
    <3>1. req[q].pc = "revoked" => req[q].token \in Tokens /\ req[q].token # t
      BY <1>1 DEF IInv, Chains, RequestOK
    <3> QED BY <1>1, <2>2, <3>1 DEF Rotating, Moves, Joins
  <2> QED BY <2>1, <2>2
<1>5. Turns' = Turns
  <2>1. \A z \in Tokens : Turns'[z] \in SUBSET Users /\ Turns[z] \in SUBSET Users
    BY TurnsHold
  <2>2. \A z \in Tokens, w \in Users : w \in Turns'[z] <=> w \in Turns[z]
    BY <1>4, TurnsHold DEF Turned
  <2>3. \A z \in Tokens : Turns'[z] = Turns[z]
    BY <2>1, <2>2
  <2> QED BY <2>3, TurnsHold
<1> QED BY <1>1, <1>3, <1>5 DEF Table!Open, Keys, Turns, Drawn

(* A handler that has revoked a token renews the session it is turning.     *)
LEMMA RenewMaps ==
  ASSUME IInv, NEW r \in Requests, NEW t \in Tokens, StoreRotated(r, t),
         NEW i, NEW s, NEW u,
         i = req[r].inst, s = session[req[r].token], u = req[r].user
  PROVE  s \in Tokens /\ u \in Users /\ Table!Renew(s, t, u)
<1>1. /\ i \in Instances /\ ~Issued(t) /\ req[r].pc = "revoked"
      /\ Issued(req[r].token) /\ req[r].token \in Tokens /\ u \in allowed[i]
      /\ Puts(i, t, u) /\ Moves(r, "stored", i, u, t) /\ Joins(t, s)
  BY RotateEffect
<1>2. s \in Tokens /\ u \in Users /\ Rotating(r, s)
  BY <1>1 DEF IInv, TypeOK, Issued, Rotating
<1>3. /\ \A j \in Instances, v \in Tokens : Live(j, v) => session[v] # s
      /\ \A q \in Requests : Rotating(q, s) => q = r
  BY <1>2, RowIsUnique
<1>4. /\ Keys' = [Keys EXCEPT ![s] = {<<t, u>>}] /\ Keys[s] = {}
      /\ Drawn' = Drawn \cup {t} /\ t \notin Drawn
  BY <1>1, <1>2, <1>3, RowGets
<1>5. /\ \A z \in Tokens : ~Rotating(r, z)'
      /\ \A z \in Tokens : z # s => ~Rotating(r, z)
  BY <1>1 DEF Rotating, Moves
<1>6. ASSUME NEW z \in Tokens, NEW q \in Requests, q # r PROVE
        (Rotating(q, z)' <=> Rotating(q, z)) /\ req'[q].user = req[q].user
  <2>1. req[q].pc = "revoked" => req[q].token \in Tokens /\ req[q].token # t
    BY <1>1 DEF IInv, Chains, RequestOK
  <2> QED BY <1>1, <1>6, <2>1 DEF Rotating, Moves, Joins
<1>7. Turns[s] = {u} /\ Turns'[s] = {}
  <2>1. Turns[s] \in SUBSET Users /\ Turns'[s] \in SUBSET Users
    BY <1>2, TurnsHold
  <2>2. /\ \A w \in Users : Turned(s, w) <=> w = u
        /\ \A w \in Users : ~Turned(s, w)'
    BY <1>2, <1>3, <1>5, <1>6 DEF Turned
  <2> QED BY <1>2, <2>1, <2>2, TurnsHold
<1>8. ASSUME NEW z \in Tokens, z # s PROVE Turns'[z] = Turns[z]
  <2>1. Turns[z] \in SUBSET Users /\ Turns'[z] \in SUBSET Users
    BY TurnsHold
  <2>2. \A w \in Users : Turned(z, w)' <=> Turned(z, w)
    BY <1>5, <1>6, <1>8 DEF Turned
  <2> QED BY <2>1, <2>2, TurnsHold
<1>9. Turns' = [Turns EXCEPT ![s] = {}]
  BY <1>2, <1>7, <1>8, TurnsHold
<1> QED BY <1>2, <1>4, <1>7, <1>9 DEF Table!Renew, Keys, Turns, Drawn

LEMMA StepMaps ==
  IInv /\ [Next]_vars => [Table!SessionsNext]_(Table!sessionVars)
<1> SUFFICES ASSUME IInv, [Next]_vars
             PROVE  [Table!SessionsNext]_(Table!sessionVars)
  OBVIOUS
<1>1. CASE \E r \in Requests : Quiet(r)
  BY <1>1, QuietMaps DEF Table!SessionsNext
<1>2. CASE \E r \in Requests : Redeem(r)
  BY <1>2, TurnMaps DEF Table!SessionsNext
<1>3. CASE \E r \in Requests, t \in Tokens : GrantLogin(r, t)
  BY <1>3, OpenMaps DEF Table!SessionsNext
<1>4. CASE \E r \in Requests, t \in Tokens : StoreRotated(r, t)
  BY <1>4, RenewMaps DEF Table!SessionsNext
<1>5. CASE \E i \in Instances, list \in SUBSET Users : Restart(i, list)
  BY <1>5, RestartMaps DEF Table!SessionsNext
<1>6. CASE UNCHANGED vars
  <2>1. /\ \A s \in Tokens, t \in Tokens, u \in Users : Valid(s, t, u)' <=> Valid(s, t, u)
        /\ \A s \in Tokens, u \in Users : Turned(s, u)' <=> Turned(s, u)
        /\ Drawn' = Drawn
    BY <1>6 DEF vars, Valid, Turned, Rotating, Drawn, Issued
  <2>2. Table!EndSome
    BY <2>1, EndsMaps DEF SameRow
  <2> QED BY <2>2 DEF Table!SessionsNext
<1> QED BY <1>1, <1>2, <1>3, <1>4, <1>5, <1>6, NextCases

(* The token maps and handlers of all instances implement one table of      *)
(* sessions: each change of a key is a login, the turn of a session, its    *)
(* renewal for the same account, or an end that nothing takes back.         *)
THEOREM AuthImplementsSessions == Spec => LooksLikeOneTable
<1>1. Init => Table!SessionsInit
  <2> SUFFICES ASSUME Init PROVE Table!SessionsInit
    OBVIOUS
  <2>1. /\ \A s \in Tokens : EmptyRow(s)
        /\ Drawn = {}
    BY SessionConstants DEF Init, EmptyRow, Valid, Turned, Rotating, At, Drawn, Issued
  <2>2. Keys = [s \in Tokens |-> {}] /\ Turns = [s \in Tokens |-> {}]
    BY <2>1, EmptyRowIs, KeysHold, TurnsHold
  <2> QED BY <2>1, <2>2 DEF Table!SessionsInit, Keys, Turns, Drawn
<1>2. Spec => Table!SessionsSpec
  BY <1>1, StepMaps, Invariance, PTL DEF Spec, Table!SessionsSpec
<1> QED BY <1>2 DEF LooksLikeOneTable
=============================================================================
