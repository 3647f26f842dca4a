--------------------------- MODULE LoginFlow_proofs ---------------------------
(***************************************************************************)
(* The logins of LoginFlow for any number of tabs, any pages, and any      *)
(* supply of logins.                                                       *)
(***************************************************************************)
EXTENDS LoginFlow, TLAPS

(* Before the callback page, and from there on.                             *)
Outward(t) == at[t] \in {"login", "leaving", "consent"}
Back(t)    == at[t] \in {"callback", "failed"}

(* A login belongs to one tab.                                              *)
OneTabEach ==
  \A t, u \in Tabs : t # u /\ login[t] # None => login[t] # login[u]

(* A tab has a login on its way and on the callback page only, posts its    *)
(* own code and state, and spends nothing of it before it is back.          *)
OwnsItsLogin(t) ==
  /\ login[t] \in IF Outward(t) \/ Back(t) THEN drawn ELSE {None}
  /\ Outward(t) => login[t] \notin used
  /\ Back(t) => post[t].login = login[t]

(* What a tab has put into the cookies is there until it takes it out, if   *)
(* nobody touched them, and then its code is good: the page can be loaded   *)
(* again.                                                                   *)
Undisturbed(t) ==
  ~disturbed[t] =>
    /\ at[t] \in {"leaving", "consent"} \/ Back(t) => verifier = login[t]
    /\ at[t] = "consent" \/ Back(t) => state = login[t]
    /\ Back(t) => login[t] \notin used
    /\ at[t] = "callback" => post[t].verifier = login[t] /\ post[t].cookie = login[t]

(* The saved path is where a tab was, while its login can still succeed.    *)
Unspoilt(t) ==
  ~spoilt[t] /\ (Outward(t) \/ Back(t))
  => saved = left[t] \/ (saved = None /\ left[t] = Remotes)

TabInv(t) == OwnsItsLogin(t) /\ Undisturbed(t) /\ Unspoilt(t)

IInv == TypeOK /\ OneTabEach /\ \A t \in Tabs : TabInv(t)

-----------------------------------------------------------------------------
LEMMA InitHolds == Init => IInv
<1> SUFFICES ASSUME Init PROVE IInv
  OBVIOUS
<1>1. TypeOK
  BY LoginConstants DEF Init, TypeOK, Locations, Paths, Pages
<1>2. OneTabEach
  BY DEF Init, OneTabEach
<1>3. ASSUME NEW t \in Tabs PROVE TabInv(t)
  <2>1. at[t] \in {"home", "content"} /\ login[t] = None
    BY <1>3 DEF Init
  <2> QED BY <2>1 DEF TabInv, Outward, Back, OwnsItsLogin, Undisturbed, Unspoilt
<1> QED BY <1>1, <1>2, <1>3 DEF IInv

(* A login that is drawn is not None, and no two tabs have the same.        *)
LEMMA OwnLogin ==
  ASSUME IInv, NEW t \in Tabs, Outward(t) \/ Back(t)
  PROVE  /\ login[t] \in drawn /\ login[t] \in Logins /\ login[t] # None
         /\ \A u \in Tabs \ {t} : login[u] # login[t]
BY LoginConstants DEF IInv, TypeOK, TabInv, OwnsItsLogin, OneTabEach

(* The other tabs after a step of tab t, or of the clock.                   *)
OthersStay(t) ==
  \A u \in Tabs \ {t} :
    /\ at'[u] = at[u] /\ login'[u] = login[u]
    /\ post'[u] = post[u] /\ left'[u] = left[u]
    /\ disturbed[u] => disturbed'[u]
    /\ spoilt[u] => spoilt'[u]
    /\ disturbed'[u] \/ ~LoggingIn(u) \/ (verifier' = verifier /\ state' = state)
    /\ spoilt'[u] \/ ~LoggingIn(u) \/ saved' = saved

(* That, and what t may do to the cookies and the codes, keeps theirs.      *)
LEMMA OthersHold ==
  ASSUME IInv, NEW t, OthersStay(t),
         drawn \subseteq drawn', used' \subseteq used \cup {login[t]},
         t \in Tabs \/ used' = used
  PROVE  \A u \in Tabs \ {t} : TabInv(u)'
<1> SUFFICES ASSUME NEW u \in Tabs \ {t} PROVE TabInv(u)'
  OBVIOUS
<1>1. TabInv(u) /\ u \in Tabs
  BY DEF IInv
<1>2. ASSUME Outward(u) \/ Back(u)
      PROVE  /\ login[u] # None /\ login[u] \in drawn
             /\ t \in Tabs => login[t] # login[u]
  BY <1>2, OwnLogin
<1>3. OwnsItsLogin(u)'
  BY <1>1, <1>2 DEF TabInv, OwnsItsLogin, Outward, Back, OthersStay
<1>4. Outward(u) \/ Back(u) => LoggingIn(u)
  BY DEF Outward, Back, LoggingIn
<1>5. Undisturbed(u)'
  BY <1>1, <1>2, <1>4 DEF TabInv, OwnsItsLogin, Undisturbed, Outward, Back, OthersStay
<1>6. Unspoilt(u)'
  BY <1>1, <1>4 DEF TabInv, Unspoilt, Outward, Back, OthersStay
<1> QED BY <1>3, <1>5, <1>6 DEF TabInv

-----------------------------------------------------------------------------
(* Steps that no login notices.                                             *)
LEMMA BrowsingHolds ==
  ASSUME IInv, UNCHANGED <<at, login, post, browser, google, history>>,
         place' \in [Tabs -> Locations], token' \in [Tabs -> BOOLEAN],
         open' \in [Tabs -> 0..MaxOpen]
  PROVE  IInv'
BY DEF browser, google, history, IInv, TypeOK, OneTabEach, TabInv,
       OwnsItsLogin, Undisturbed, Unspoilt, Outward, Back

(* Tab t is at no login any more, and may have succeeded with the last.     *)
LEMMA EndsHolds ==
  ASSUME IInv, NEW t \in Tabs, NEW p \in {"home", "content"},
         Set(at, t, p), Set(login, t, None), Set(post, t, None),
         place' \in [Tabs -> Locations], token' \in [Tabs -> BOOLEAN],
         open' \in [Tabs -> 0..MaxOpen],
         UNCHANGED <<verifier, saved, drawn, left, spoilt>>,
         \/ UNCHANGED <<state, used, disturbed>>
         \/ /\ Back(t) /\ used' = used \cup {login[t]}
            /\ state' = None /\ Disturb(t)
  PROVE  IInv'
<1>1. TypeOK
  BY DEF IInv
<1>2. used' \subseteq used \cup {login[t]} /\ used' \subseteq drawn
  BY <1>1, OwnLogin DEF TypeOK
<1>3. TypeOK'
  <2>1. /\ at' \in [Tabs -> Pages] /\ login' \in [Tabs -> Logins \cup {None}]
        /\ post' \in [Tabs -> Posts \cup {None}]
        /\ \A u \in Tabs : at'[u] \in {"callback", "failed"} <=> post'[u] # None
    BY <1>1 DEF TypeOK, Set, Pages
  <2>2. state' \in Logins \cup {None} /\ disturbed' \in [Tabs -> BOOLEAN]
    BY <1>1 DEF TypeOK, Disturb
  <2> QED BY <1>1, <1>2, <2>1, <2>2 DEF TypeOK
<1>4. OneTabEach'
  BY <1>1 DEF TypeOK, Set, IInv, OneTabEach
<1>5. at'[t] \in {"home", "content"} /\ login'[t] = None
  BY <1>1 DEF TypeOK, Set
<1>6. TabInv(t)'
  BY <1>5 DEF TabInv, Outward, Back, OwnsItsLogin, Undisturbed, Unspoilt
<1>7. OthersStay(t)
  BY <1>1 DEF TypeOK, Set, OthersStay, Disturb
<1>8. ASSUME NEW u \in Tabs \ {t} PROVE TabInv(u)'
  BY <1>2, <1>7, OthersHold
<1> QED BY <1>3, <1>4, <1>6, <1>8 DEF IInv

(* Tab t begins a new login, l.  It has its saved path, or shares another.  *)
LEMMA BeginsHolds ==
  ASSUME IInv, NEW t \in Tabs, NEW l \in Logins, OpenLogin(t, l),
         token' \in [Tabs -> BOOLEAN], open' \in [Tabs -> 0..MaxOpen],
         UNCHANGED <<place, verifier>>,
         state' \in {state, None}, saved' \in Paths \cup {None},
         used' = used \/ (Back(t) /\ used' = used \cup {login[t]}),
         left' \in [Tabs -> Locations], spoilt' \in [Tabs -> BOOLEAN],
         disturbed' \in [Tabs -> BOOLEAN],
         spoilt'[t] \/ saved' = left'[t] \/ (saved' = None /\ left'[t] = Remotes),
         OthersStay(t)
  PROVE  IInv'
<1>1. TypeOK
  BY DEF IInv
<1>2. used' \subseteq used \cup {login[t]} /\ used' \subseteq drawn
  BY <1>1, OwnLogin DEF TypeOK
<1>3. /\ at' = [at EXCEPT ![t] = "login"] /\ login' = [login EXCEPT ![t] = l]
      /\ post' = [post EXCEPT ![t] = None] /\ drawn' = drawn \cup {l} /\ l \notin drawn
  BY DEF OpenLogin, Set
<1>4. TypeOK'
  <2>1. /\ at' \in [Tabs -> Pages] /\ login' \in [Tabs -> Logins \cup {None}]
        /\ post' \in [Tabs -> Posts \cup {None}]
        /\ \A u \in Tabs : at'[u] \in {"callback", "failed"} <=> post'[u] # None
    BY <1>1, <1>3 DEF TypeOK, Pages
  <2>2. used' \subseteq drawn' /\ drawn' \subseteq Logins
    BY <1>1, <1>2, <1>3 DEF TypeOK
  <2> QED BY <1>1, <2>1, <2>2 DEF TypeOK
<1>5. OneTabEach'
  <2>1. \A u \in Tabs : login[u] \in drawn \cup {None}
    BY DEF IInv, TabInv, OwnsItsLogin
  <2> QED BY <1>1, <1>3, <2>1, LoginConstants DEF TypeOK, IInv, OneTabEach
<1>6. TabInv(t)'
  <2>1. at'[t] = "login" /\ login'[t] = l
    BY <1>1, <1>3 DEF TypeOK
  <2>2. l \in drawn' /\ l \notin used'
    BY <1>1, <1>2, <1>3 DEF TypeOK
  <2>3. OwnsItsLogin(t)' /\ Undisturbed(t)' /\ Unspoilt(t)'
    BY <2>1, <2>2 DEF OwnsItsLogin, Undisturbed, Unspoilt, Outward, Back
  <2> QED BY <2>3 DEF TabInv
<1>7. ASSUME NEW u \in Tabs \ {t} PROVE TabInv(u)'
  BY <1>2, <1>3, OthersHold
<1> QED BY <1>4, <1>5, <1>6, <1>7 DEF IInv

-----------------------------------------------------------------------------
(* A request of tab t may have been served: whom that touches knows it.     *)
Noticed(t) ==
  /\ state' \in {state, None} /\ used' \in {used, used \cup {login[t]}}
  /\ used' = used \/ disturbed'[t]
  /\ disturbed' \in [Tabs -> BOOLEAN]
  /\ \A u \in Tabs : /\ disturbed[u] => disturbed'[u]
                     /\ state' = state \/ ~LoggingIn(u) \/ disturbed'[u]

LEMMA ServedIsNoticed ==
  ASSUME TypeOK, NEW t \in Tabs,
         \/ MayBeServed(t) /\ DisturbIfServed(t)
         \/ UNCHANGED <<state, used, disturbed>>
  PROVE  Noticed(t)
BY DEF TypeOK, MayBeServed, DisturbIfServed, Noticed

(* The callback page fails, and may be loaded again.                        *)
LEMMA FailsHolds ==
  ASSUME IInv, NEW t \in Tabs, Back(t), Fail(t), Noticed(t),
         UNCHANGED <<place, token, open, login, post, verifier, saved, drawn, left, spoilt>>
  PROVE  IInv'
<1>1. TypeOK /\ TabInv(t)
  BY DEF IInv
<1>2. used' \subseteq used \cup {login[t]} /\ used' \subseteq drawn
  BY <1>1, OwnLogin DEF TypeOK, Noticed
<1>3. TypeOK'
  <2>1. state' \in Logins \cup {None} /\ disturbed' \in [Tabs -> BOOLEAN]
    BY <1>1 DEF TypeOK, Noticed
  <2>2. /\ at' \in [Tabs -> Pages]
        /\ \A u \in Tabs : at'[u] \in {"callback", "failed"} <=> post'[u] # None
    BY <1>1 DEF TypeOK, Fail, Set, Back, Pages
  <2> QED BY <1>1, <1>2, <2>1, <2>2 DEF TypeOK
<1>4. OneTabEach'
  BY DEF IInv, OneTabEach
<1>5. TabInv(t)'
  <2>1. at'[t] = "failed" /\ LoggingIn(t)
    BY <1>1 DEF TypeOK, Fail, Set, Back, LoggingIn
  <2>2. OwnsItsLogin(t)' /\ Unspoilt(t)'
    BY <1>1, <2>1 DEF TabInv, OwnsItsLogin, Unspoilt, Outward, Back
  <2>3. Undisturbed(t)'
    BY <1>1, <2>1 DEF TabInv, Undisturbed, Noticed, Back
  <2> QED BY <2>2, <2>3 DEF TabInv
<1>6. OthersStay(t)
  BY <1>1 DEF TypeOK, Fail, Set, OthersStay, Noticed
<1>7. ASSUME NEW u \in Tabs \ {t} PROVE TabInv(u)'
  BY <1>2, <1>6, OthersHold
<1> QED BY <1>3, <1>4, <1>5, <1>7 DEF IInv

LEMMA RefusedLateHolds ==
  ASSUME IInv, NEW t \in Tabs, RefusedLate(t) PROVE IInv'
<1>1. TypeOK /\ TabInv(t)
  BY DEF IInv
<1>2. /\ saved' = LoginPath
      /\ spoilt' = [u \in Tabs |-> spoilt[u] \/ LoggingIn(u)]
      /\ UNCHANGED <<at, place, token, login, post, verifier, state, drawn, used, left,
                     disturbed>>
  BY DEF RefusedLate, Pathname, Spoil, google
<1>3. open' \in [Tabs -> 0..MaxOpen]
  BY <1>1, LoginConstants DEF RefusedLate, Set, TypeOK
<1>4. TypeOK'
  BY <1>1, <1>2, <1>3 DEF TypeOK, Paths
<1>5. OneTabEach'
  BY <1>2 DEF IInv, OneTabEach
<1>6. TabInv(t)'
  <2>1. spoilt'[t]
    BY <1>1, <1>2 DEF RefusedLate, LoggingIn
  <2> QED BY <1>1, <1>2, <2>1 DEF TabInv, OwnsItsLogin, Undisturbed, Unspoilt,
                                  Outward, Back
<1>7. OthersStay(t)
  BY <1>1, <1>2 DEF TypeOK, OthersStay
<1>8. ASSUME NEW u \in Tabs \ {t} PROVE TabInv(u)'
  BY <1>2, <1>7, OthersHold
<1> QED BY <1>4, <1>5, <1>6, <1>8 DEF IInv

(* The page posts what the cookies hold, when Google sends the browser      *)
(* there and when it is loaded again.                                       *)
LEMMA PostHolds ==
  ASSUME IInv, NEW t \in Tabs, Post(t), Noticed(t),
         UNCHANGED <<place, token, open, login, saved, drawn, left, spoilt>>,
         Back(t) \/ (at[t] = "consent" /\ UNCHANGED <<state, used, disturbed>>)
  PROVE  IInv'
<1> DEFINE new == [login |-> login[t], verifier |-> verifier, cookie |-> state']
<1>1. TypeOK /\ TabInv(t)
  BY DEF IInv
<1>2. /\ at' = [at EXCEPT ![t] = "callback"] /\ post' = [post EXCEPT ![t] = new]
      /\ verifier' = verifier
  BY DEF Post, Set
<1>3. login[t] \in drawn /\ login[t] \in Logins /\ login[t] # None
  BY OwnLogin DEF Outward
<1>4. used' \subseteq used \cup {login[t]} /\ used' \subseteq drawn
  BY <1>1, <1>3 DEF Noticed, TypeOK
<1>5. state' \in Logins \cup {None} /\ disturbed' \in [Tabs -> BOOLEAN]
  BY <1>1 DEF TypeOK, Noticed
<1>6. new \in Posts /\ new # None
  BY <1>1, <1>3, <1>5, LoginConstants DEF Posts, TypeOK
<1>7. TypeOK'
  <2>1. /\ at' \in [Tabs -> Pages] /\ post' \in [Tabs -> Posts \cup {None}]
        /\ \A u \in Tabs : at'[u] \in {"callback", "failed"} <=> post'[u] # None
    <3> HIDE DEF new
    <3> QED BY <1>1, <1>2, <1>6 DEF TypeOK, Pages
  <2> QED BY <1>1, <1>2, <1>4, <1>5, <2>1 DEF TypeOK
<1>8. OneTabEach'
  BY DEF IInv, OneTabEach
<1>9. TabInv(t)'
  <2>1. /\ at'[t] = "callback" /\ post'[t].login = login[t]
        /\ post'[t].verifier = verifier /\ post'[t].cookie = state' /\ LoggingIn(t)
    BY <1>1, <1>2 DEF TypeOK, LoggingIn, Back
  <2>2. OwnsItsLogin(t)' /\ Unspoilt(t)'
    BY <1>1, <1>3, <2>1 DEF TabInv, OwnsItsLogin, Unspoilt, Outward, Back
  <2>3. Undisturbed(t)'
    BY <1>1, <1>2, <2>1 DEF TabInv, OwnsItsLogin, Undisturbed, Noticed, Outward, Back
  <2> QED BY <2>2, <2>3 DEF TabInv
<1>10. OthersStay(t)
  BY <1>1, <1>2 DEF TypeOK, OthersStay, Noticed
<1>11. ASSUME NEW u \in Tabs \ {t} PROVE TabInv(u)'
  BY <1>4, <1>10, OthersHold
<1> QED BY <1>7, <1>8, <1>9, <1>11 DEF IInv

LEMMA LeavePageHolds ==
  ASSUME IInv, NEW t \in Tabs, LeavePage(t) PROVE IInv'
<1>1. TypeOK /\ TabInv(t)
  BY DEF IInv
<1>2. /\ at[t] = "login" /\ at' = [at EXCEPT ![t] = "leaving"] /\ verifier' = login[t]
      /\ Disturb(t)
      /\ UNCHANGED <<place, token, open, login, post, state, saved, drawn, used, left, spoilt>>
  BY DEF LeavePage, Set, google
<1>3. login[t] \in drawn /\ login[t] \in Logins /\ login[t] # None
  BY <1>2, OwnLogin DEF Outward
<1>4. TypeOK'
  <2>1. /\ at' \in [Tabs -> Pages] /\ disturbed' \in [Tabs -> BOOLEAN]
        /\ \A u \in Tabs : at'[u] \in {"callback", "failed"} <=> post'[u] # None
    BY <1>1, <1>2 DEF TypeOK, Pages, Disturb
  <2> QED BY <1>1, <1>2, <1>3, <2>1 DEF TypeOK
<1>5. OneTabEach'
  BY <1>2 DEF IInv, OneTabEach
<1>6. TabInv(t)'
  <2>1. at'[t] = "leaving"
    BY <1>1, <1>2 DEF TypeOK
  <2> QED BY <1>1, <1>2, <2>1 DEF TabInv, OwnsItsLogin, Undisturbed, Unspoilt,
                                  Outward, Back
<1>7. OthersStay(t)
  BY <1>1, <1>2 DEF TypeOK, OthersStay, Disturb
<1>8. ASSUME NEW u \in Tabs \ {t} PROVE TabInv(u)'
  BY <1>2, <1>7, OthersHold
<1> QED BY <1>4, <1>5, <1>6, <1>8 DEF IInv

LEMMA HandleLoginHolds ==
  ASSUME IInv, NEW t \in Tabs, HandleLogin(t) PROVE IInv'
<1>1. TypeOK /\ TabInv(t)
  BY DEF IInv
<1>2. /\ at[t] = "leaving" /\ at' = [at EXCEPT ![t] = "consent"] /\ state' = login[t]
      /\ Disturb(t) /\ NewDocument(t)
      /\ UNCHANGED <<place, login, post, verifier, saved, drawn, used, left, spoilt>>
  BY DEF HandleLogin, Set, google
<1>3. login[t] \in drawn /\ login[t] \in Logins
  BY <1>2, OwnLogin DEF Outward
<1>4. TypeOK'
  <2>1. token' \in [Tabs -> BOOLEAN] /\ open' \in [Tabs -> 0..MaxOpen]
    BY <1>1, <1>2, LoginConstants DEF NewDocument, Set, TypeOK
  <2> QED BY <1>1, <1>2, <1>3, <2>1 DEF TypeOK, Pages, Disturb
<1>5. OneTabEach'
  BY <1>2 DEF IInv, OneTabEach
<1>6. TabInv(t)'
  <2>1. at'[t] = "consent" /\ (disturbed'[t] <=> disturbed[t])
    BY <1>1, <1>2 DEF TypeOK, Disturb
  <2> QED BY <1>1, <1>2, <2>1 DEF TabInv, OwnsItsLogin, Undisturbed, Unspoilt,
                                  Outward, Back
<1>7. OthersStay(t)
  BY <1>1, <1>2 DEF TypeOK, OthersStay, Disturb
<1>8. ASSUME NEW u \in Tabs \ {t} PROVE TabInv(u)'
  BY <1>2, <1>7, OthersHold
<1> QED BY <1>4, <1>5, <1>6, <1>8 DEF IInv

(* No tab acts: what holds of the others then holds of all.                 *)
LEMMA CookieExpiresHolds ==
  ASSUME IInv, CookieExpires PROVE IInv'
<1>1. TypeOK
  BY DEF IInv
<1>2. /\ verifier' \in {verifier, None} /\ state' \in {state, None}
      /\ disturbed' = [t \in Tabs |-> disturbed[t] \/ LoggingIn(t)]
      /\ UNCHANGED <<at, place, token, open, login, post, saved, drawn, used, left, spoilt>>
  BY DEF CookieExpires, tab, google
<1>3. TypeOK'
  BY <1>1, <1>2 DEF TypeOK
<1>4. OneTabEach'
  BY <1>1, <1>2, LoginConstants DEF TypeOK, IInv, OneTabEach
<1>5. ASSUME NEW u \in Tabs PROVE TabInv(u)'
  <2> DEFINE t == CHOOSE x : x \notin Tabs
  <2>1. \E x : x \notin Tabs
    BY NoSetContainsEverything
  <2>2. u \in Tabs \ {t}
    BY <2>1
  <2> HIDE DEF t
  <2>3. OthersStay(t)
    BY <1>1, <1>2 DEF TypeOK, OthersStay
  <2> QED BY <1>2, <2>2, <2>3, OthersHold
<1> QED BY <1>3, <1>4, <1>5 DEF IInv

-----------------------------------------------------------------------------
(* The steps that begin a login.                                            *)
LEMMA BeginHolds ==
  ASSUME IInv, NEW t \in Tabs, Begin(t) PROVE IInv'
<1>1. TypeOK
  BY DEF IInv
<1>2. PICK l \in Logins : \/ Refused(t, l) \/ HomeLogin(t, l) \/ StartOver(t, l)
                          \/ ExchangeFails(t, l) \/ LandOnLogin(t, l)
  BY DEF Begin
<1>3. /\ Remotes \in Locations /\ Locations \subseteq Paths /\ CallbackPath \in Paths
  BY LoginConstants DEF Locations, Paths
<1>4. OpenLogin(t, l)
  BY <1>2 DEF Refused, HomeLogin, StartOver, ExchangeFails, LandOnLogin
<1>5. \A u \in Tabs \ {t} : at'[u] = at[u] /\ login'[u] = login[u] /\ post'[u] = post[u]
  BY <1>1, <1>4 DEF TypeOK, OpenLogin, Set
<1>6. CASE Refused(t, l)
  <2>1. /\ UNCHANGED <<place, token, verifier, state, used>>
        /\ saved' = place[t] /\ left' = [left EXCEPT ![t] = place[t]]
        /\ spoilt' = [u \in Tabs |-> u # t /\ (spoilt[u] \/ LoggingIn(u))]
        /\ disturbed' = [disturbed EXCEPT ![t] = FALSE]
        /\ open[t] > 0 /\ open' = [open EXCEPT ![t] = open[t] - 1]
    BY <1>6 DEF Refused, Set, Pathname
  <2>2. /\ saved' \in Paths \cup {None} /\ left' \in [Tabs -> Locations]
        /\ spoilt' \in [Tabs -> BOOLEAN] /\ disturbed' \in [Tabs -> BOOLEAN]
        /\ saved' = left'[t]
    BY <1>1, <1>3, <2>1 DEF TypeOK
  <2>3. token' \in [Tabs -> BOOLEAN] /\ open' \in [Tabs -> 0..MaxOpen]
    BY <1>1, <2>1, LoginConstants DEF TypeOK
  <2>4. OthersStay(t)
    BY <1>1, <1>5, <2>1 DEF TypeOK, OthersStay
  <2> QED BY <1>4, <2>1, <2>2, <2>3, <2>4, BeginsHolds
<1>7. CASE HomeLogin(t, l)
  <2>1. /\ UNCHANGED <<place, token, open, verifier, state, used>>
        /\ saved' = None /\ left' = [left EXCEPT ![t] = Remotes]
        /\ spoilt' = [u \in Tabs |-> u # t /\ (spoilt[u] \/ LoggingIn(u))]
        /\ disturbed' = [disturbed EXCEPT ![t] = FALSE]
    BY <1>7 DEF HomeLogin, Set
  <2>2. /\ left' \in [Tabs -> Locations] /\ left'[t] = Remotes
        /\ spoilt' \in [Tabs -> BOOLEAN] /\ disturbed' \in [Tabs -> BOOLEAN]
        /\ token' \in [Tabs -> BOOLEAN] /\ open' \in [Tabs -> 0..MaxOpen]
    BY <1>1, <1>3, <2>1 DEF TypeOK
  <2>3. OthersStay(t)
    BY <1>1, <1>5, <2>1 DEF TypeOK, OthersStay
  <2> QED BY <1>4, <2>1, <2>2, <2>3, BeginsHolds
<1>8. CASE StartOver(t, l)
  <2>1. /\ UNCHANGED <<place, token, open, verifier, state, saved, used, left, spoilt>>
        /\ disturbed' = [disturbed EXCEPT ![t] = FALSE] /\ at[t] = "consent"
    BY <1>8 DEF StartOver, Set, browser
  <2>2. /\ saved' \in Paths \cup {None} /\ left' \in [Tabs -> Locations]
        /\ spoilt' \in [Tabs -> BOOLEAN] /\ disturbed' \in [Tabs -> BOOLEAN]
        /\ token' \in [Tabs -> BOOLEAN] /\ open' \in [Tabs -> 0..MaxOpen]
    BY <1>1, <2>1 DEF TypeOK
  <2>3. spoilt'[t] \/ saved' = left'[t] \/ (saved' = None /\ left'[t] = Remotes)
    BY <2>1 DEF IInv, TabInv, Unspoilt, Outward
  <2>4. OthersStay(t)
    BY <1>1, <1>5, <2>1 DEF TypeOK, OthersStay
  <2> QED BY <1>4, <2>1, <2>2, <2>3, <2>4, BeginsHolds
<1>9. CASE ExchangeFails(t, l)
  <2>1. /\ UNCHANGED <<place, token, open, verifier, used, left>>
        /\ state' = None /\ saved' = CallbackPath /\ at[t] = "callback"
        /\ spoilt' = [u \in Tabs |-> spoilt[u] \/ LoggingIn(u)]
        /\ disturbed' = [u \in Tabs |-> u # t /\ (disturbed[u] \/ LoggingIn(u))]
    BY <1>9 DEF ExchangeFails, ClearState, Spoil
  <2>2. /\ left' \in [Tabs -> Locations]
        /\ spoilt' \in [Tabs -> BOOLEAN] /\ disturbed' \in [Tabs -> BOOLEAN] /\ spoilt'[t]
        /\ token' \in [Tabs -> BOOLEAN] /\ open' \in [Tabs -> 0..MaxOpen]
    BY <1>1, <2>1 DEF TypeOK, LoggingIn
  <2>3. OthersStay(t)
    BY <1>1, <1>5, <2>1 DEF TypeOK, OthersStay
  <2> QED BY <1>3, <1>4, <2>1, <2>2, <2>3, BeginsHolds
<1>10. CASE LandOnLogin(t, l)
  <2>1. /\ UNCHANGED <<place, open, verifier, saved, left, spoilt>>
        /\ state' = None /\ at[t] = "callback" /\ used' = used \cup {login[t]}
        /\ Exchangeable(t) /\ Target = LoginPath /\ token' = [token EXCEPT ![t] = TRUE]
        /\ disturbed' = [u \in Tabs |-> u # t /\ (disturbed[u] \/ LoggingIn(u))]
    BY <1>10 DEF LandOnLogin, ClearState, Set
  <2>2. /\ left' \in [Tabs -> Locations] /\ saved' \in Paths \cup {None}
        /\ spoilt' \in [Tabs -> BOOLEAN] /\ disturbed' \in [Tabs -> BOOLEAN] /\ Back(t)
        /\ token' \in [Tabs -> BOOLEAN] /\ open' \in [Tabs -> 0..MaxOpen]
    BY <1>1, <2>1 DEF TypeOK, Back
  <2>3. spoilt'[t] \/ saved' = left'[t] \/ (saved' = None /\ left'[t] = Remotes)
    BY <2>1 DEF IInv, TabInv, Unspoilt, Back
  <2>4. OthersStay(t)
    BY <1>1, <1>5, <2>1 DEF TypeOK, OthersStay
  <2> QED BY <1>4, <2>1, <2>2, <2>3, <2>4, BeginsHolds
<1> QED BY <1>2, <1>6, <1>7, <1>8, <1>9, <1>10

LEMMA BrowseHolds ==
  ASSUME IInv, NEW t \in Tabs, Browse(t) PROVE IInv'
<1>1. TypeOK
  BY DEF IInv
<1>2. ASSUME NEW p \in Places, Visit(t, p) PROVE IInv'
  <2>1. /\ place' = [place EXCEPT ![t] = p]
        /\ UNCHANGED <<at, token, open, login, post, browser, google, history>>
    BY <1>2 DEF Visit, Set
  <2>2. place' \in [Tabs -> Locations]
    BY <1>1, <2>1 DEF TypeOK, Locations
  <2> QED BY <1>1, <2>1, <2>2, BrowsingHolds DEF TypeOK
<1>3. CASE Request(t) \/ Ends(t)
  <2>1. UNCHANGED <<at, place, token, login, post, browser, google, history>>
    BY <1>3 DEF Request, Ends
  <2>2. open' \in [Tabs -> 0..MaxOpen]
    BY <1>1, <1>3, LoginConstants DEF TypeOK, Request, Ends, Set
  <2> QED BY <1>1, <2>1, <2>2, BrowsingHolds DEF TypeOK
<1>4. CASE TokenExpires(t)
  <2>1. UNCHANGED <<at, place, open, login, post, browser, google, history>>
    BY <1>4 DEF TokenExpires
  <2>2. token' \in [Tabs -> BOOLEAN]
    BY <1>1, <1>4 DEF TypeOK, TokenExpires, Set
  <2> QED BY <1>1, <2>1, <2>2, BrowsingHolds DEF TypeOK
<1>5. ASSUME NEW p \in Places, OpenUrl(t, p) PROVE IInv'
  <2>1. /\ place' \in [Tabs -> Locations] /\ token' \in [Tabs -> BOOLEAN]
        /\ open' \in [Tabs -> 0..MaxOpen]
    BY <1>1, <1>5, LoginConstants DEF TypeOK, OpenUrl, NewDocument, Set, Locations
  <2> QED BY <1>5, <2>1, EndsHolds DEF OpenUrl, browser, google, history
<1>6. CASE OpenHome(t)
  <2>1. /\ place' \in [Tabs -> Locations] /\ token' \in [Tabs -> BOOLEAN]
        /\ open' \in [Tabs -> 0..MaxOpen]
    BY <1>1, <1>6, LoginConstants DEF TypeOK, OpenHome, NewDocument, Set
  <2> QED BY <1>6, <2>1, EndsHolds DEF OpenHome, browser, google, history
<1> QED BY <1>2, <1>3, <1>4, <1>5, <1>6, RefusedLateHolds DEF Browse

LEMMA GoOnHolds ==
  ASSUME IInv, NEW t \in Tabs, GoOn(t) PROVE IInv'
<1>1. TypeOK
  BY DEF IInv
<1>2. CASE Consent(t)
  <2>1. Noticed(t)
    BY <1>1, <1>2, ServedIsNoticed DEF Consent, google, history
  <2> QED BY <1>2, <2>1, PostHolds DEF Consent, google, history
<1>3. CASE Reload(t)
  <2>1. Noticed(t)
    BY <1>1, <1>3, ServedIsNoticed DEF Reload
  <2> QED BY <1>3, <2>1, PostHolds DEF Reload, Back
<1>4. CASE Deny(t)
  <2>1. Set(post, t, None)
    BY <1>1, <1>4 DEF TypeOK, Deny, Set
  <2> QED BY <1>1, <1>4, <2>1, EndsHolds DEF TypeOK, Deny, browser, google, history
<1> QED BY <1>2, <1>3, <1>4, LeavePageHolds, HandleLoginHolds DEF GoOn

LEMMA AnswerHolds ==
  ASSUME IInv, NEW t \in Tabs, Answer(t) PROVE IInv'
<1>1. TypeOK
  BY DEF IInv
<1>2. CASE Forbid(t)
  <2>1. Noticed(t)
    BY <1>1, <1>2, ServedIsNoticed DEF Forbid, browser, google, history
  <2> QED BY <1>2, <2>1, FailsHolds DEF Forbid, Back, browser, google, history
<1>3. CASE Lose(t)
  <2>1. Noticed(t)
    BY <1>1, <1>3, ServedIsNoticed DEF Lose
  <2> QED BY <1>3, <2>1, FailsHolds DEF Lose, Back
<1>4. CASE Disallow(t)
  <2>1. LoggingIn(t)
    BY <1>4 DEF Disallow, ClearState, LoggingIn
  <2>2. Noticed(t)
    BY <1>1, <1>4, <2>1 DEF TypeOK, Disallow, ClearState, Noticed
  <2> QED BY <1>4, <2>2, FailsHolds DEF Disallow, ClearState, Back
<1>5. CASE LandOnContent(t)
  <2>1. place' \in [Tabs -> Locations] /\ token' \in [Tabs -> BOOLEAN]
    BY <1>1, <1>5 DEF TypeOK, LandOnContent, Accept, Set
  <2> QED BY <1>1, <1>5, <2>1, EndsHolds DEF TypeOK, LandOnContent, Accept, ClearState, Back
<1>6. CASE LandOnHome(t)
  <2>1. token' \in [Tabs -> BOOLEAN]
    BY <1>1, <1>6 DEF TypeOK, LandOnHome, Accept, Set
  <2> QED BY <1>1, <1>6, <2>1, EndsHolds DEF TypeOK, LandOnHome, Accept, ClearState, Back
<1> QED BY <1>2, <1>3, <1>4, <1>5, <1>6 DEF Answer

-----------------------------------------------------------------------------
(* Every step keeps the invariant.                                          *)
LEMMA NextHolds == IInv /\ [Next]_vars => IInv'
<1> SUFFICES ASSUME IInv, [Next]_vars PROVE IInv'
  OBVIOUS
<1>1. CASE UNCHANGED vars
  BY <1>1, BrowsingHolds DEF vars, tab, IInv, TypeOK
<1>2. CASE Next
  BY <1>2, CookieExpiresHolds, BeginHolds, BrowseHolds, GoOnHolds, AnswerHolds DEF Next
<1> QED BY <1>1, <1>2

LEMMA InvariantHolds == Spec => []IInv
BY InitHolds, NextHolds, PTL DEF Spec

-----------------------------------------------------------------------------
(* The variables of the logins have their types.                            *)
THEOREM LoginTypeCorrect == Spec => []TypeOK
<1>1. IInv => TypeOK
  BY DEF IInv
<1> QED BY <1>1, InvariantHolds, PTL

(* handleCallback accepts a login that nobody came between, in however many *)
(* tabs others go on.                                                       *)
THEOREM UndisturbedLoginIsAcceptedCorrect == Spec => []UndisturbedLoginIsAccepted
<1>1. IInv => UndisturbedLoginIsAccepted
  <2> SUFFICES ASSUME IInv, NEW t \in Tabs, at[t] = "callback", ~disturbed[t]
               PROVE  StateHolds(t) /\ Exchangeable(t)
    BY DEF UndisturbedLoginIsAccepted
  <2> QED BY DEF IInv, TabInv, OwnsItsLogin, Undisturbed, Back, StateHolds, Exchangeable
<1> QED BY <1>1, InvariantHolds, PTL

(* A login that gets its token while nobody wrote the saved path shows the  *)
(* page it was begun at.                                                    *)
THEOREM ReturnsWhereItLeftCorrect == Spec => ReturnsWhereItLeft
<1>1. IInv /\ [Next]_vars =>
        \A t \in Tabs :
          /\ at[t] = "callback" /\ ~token[t] /\ token'[t]
          /\ ~spoilt[t] /\ left[t] \notin Odd
          => at'[t] = "content" /\ place'[t] = left[t]
  <2> SUFFICES ASSUME IInv, Next, NEW u \in Tabs,
                      at[u] = "callback", ~token[u], token'[u], ~spoilt[u], left[u] \notin Odd
               PROVE  at'[u] = "content" /\ place'[u] = left[u]
    BY DEF vars, tab
  <2>1. TypeOK
    BY DEF IInv
  <2>2. ASSUME Exchangeable(u) PROVE Target = left[u] /\ left[u] \in Locations
    <3>1. saved = left[u] \/ (saved = None /\ left[u] = Remotes)
      BY <2>2 DEF IInv, TabInv, Unspoilt, Back
    <3>2. /\ left[u] \in Locations /\ Remotes \in Locations
          /\ None \notin Locations /\ None \notin Odd
      BY <2>1, LoginConstants DEF TypeOK, Paths, Locations
    <3>3. CASE saved = None
      BY <3>1, <3>2, <3>3 DEF Target
    <3>4. CASE saved # None
      BY <3>1, <3>2, <3>4 DEF Target
    <3> QED BY <3>3, <3>4
  <2>3. LoginPath \notin Locations /\ CallbackPath \notin Locations
    BY LoginConstants DEF Locations, LoginPath, CallbackPath, Garbled
  <2>4. ASSUME NEW t \in Tabs, token' = token \/ Set(token, t, FALSE) PROVE FALSE
    BY <2>1, <2>4 DEF TypeOK, Set
  <2>5. ASSUME NEW t \in Tabs, Set(token, t, TRUE) PROVE t = u
    BY <2>1, <2>5 DEF TypeOK, Set
  <2>6. ASSUME NEW t \in Tabs, Browse(t) \/ GoOn(t) PROVE FALSE
    <3>1. token' = token \/ Set(token, t, FALSE)
      BY <2>6 DEF Browse, Visit, OpenUrl, OpenHome, Request, Ends, TokenExpires, RefusedLate,
                  NewDocument, GoOn, LeavePage, HandleLogin, Consent, Deny, Reload
    <3> QED BY <2>4, <3>1
  <2>7. ASSUME NEW t \in Tabs, Begin(t) PROVE FALSE
    <3>1. PICK l \in Logins : \/ Refused(t, l) \/ HomeLogin(t, l) \/ StartOver(t, l)
                              \/ ExchangeFails(t, l) \/ LandOnLogin(t, l)
      BY <2>7 DEF Begin
    <3>2. CASE LandOnLogin(t, l)
      <4>1. t = u /\ Exchangeable(t) /\ Target = LoginPath
        BY <2>5, <3>2 DEF LandOnLogin
      <4> QED BY <2>2, <2>3, <4>1
    <3>3. CASE Refused(t, l) \/ HomeLogin(t, l) \/ StartOver(t, l) \/ ExchangeFails(t, l)
      BY <2>4, <3>3 DEF Refused, HomeLogin, StartOver, ExchangeFails
    <3> QED BY <3>1, <3>2, <3>3
  <2>8. ASSUME NEW t \in Tabs, Answer(t) PROVE at'[u] = "content" /\ place'[u] = left[u]
    <3>1. CASE LandOnContent(t)
      <4>1. t = u /\ Exchangeable(t)
        BY <2>5, <3>1 DEF LandOnContent, Accept
      <4> QED BY <2>1, <2>2, <3>1, <4>1 DEF TypeOK, LandOnContent, Set
    <3>2. CASE LandOnHome(t)
      <4>1. t = u /\ Exchangeable(t) /\ Target = CallbackPath
        BY <2>5, <3>2 DEF LandOnHome, Accept
      <4> QED BY <2>2, <2>3, <4>1
    <3>3. CASE Forbid(t) \/ Lose(t) \/ Disallow(t)
      BY <2>4, <3>3 DEF Forbid, Lose, Disallow
    <3> QED BY <2>8, <3>1, <3>2, <3>3 DEF Answer
  <2>9. CASE CookieExpires
    BY <2>9 DEF CookieExpires, tab
  <2> QED BY <2>6, <2>7, <2>8, <2>9 DEF Next
<1> QED BY <1>1, InvariantHolds, PTL DEF Spec, ReturnsWhereItLeft
=============================================================================
