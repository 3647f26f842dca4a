------------------------------- MODULE Sessions -------------------------------
(***************************************************************************)
(* What refresh tokens promise, whatever instances, handlers and failures  *)
(* there are: a session holds one valid key, or is being turned from one   *)
(* key to the next for the account that opened it, or is empty for good.   *)
(* AuthSessions implements it.                                             *)
(***************************************************************************)
CONSTANTS Users, Tokens

VARIABLES
  key,      \* per session, named by its first key: its valid key and account
  turning,  \* the account a session is being turned for
  drawn     \* keys that exist or have existed

sessionVars == <<key, turning, drawn>>

SessionsInit ==
  /\ key = [s \in Tokens |-> {}]
  /\ turning = [s \in Tokens |-> {}]
  /\ drawn = {}

(* A login.                                                                 *)
Open(s, u) ==
  /\ s \notin drawn
  /\ key' = [key EXCEPT ![s] = {<<s, u>>}]
  /\ drawn' = drawn \cup {s}
  /\ UNCHANGED turning

(* A refresh takes the key ...                                              *)
Turn(s, t, u) ==
  /\ key[s] = {<<t, u>>} /\ turning[s] = {}
  /\ key' = [key EXCEPT ![s] = {}]
  /\ turning' = [turning EXCEPT ![s] = {u}]
  /\ UNCHANGED drawn

(* ... and puts a new one in its place.                                     *)
Renew(s, t, u) ==
  /\ turning[s] = {u} /\ key[s] = {}
  /\ t \notin drawn
  /\ key' = [key EXCEPT ![s] = {<<t, u>>}]
  /\ turning' = [turning EXCEPT ![s] = {}]
  /\ drawn' = drawn \cup {t}

(* Sessions may end, some or all at once; nothing brings them back.         *)
Ends(s) ==
  \/ key'[s] = {} /\ turning'[s] = {}
  \/ key'[s] = key[s] /\ turning'[s] = turning[s]

EndSome ==
  /\ UNCHANGED drawn
  /\ key' \in [Tokens -> SUBSET (Tokens \X Users)]
  /\ turning' \in [Tokens -> SUBSET Users]
  /\ \A s \in Tokens : Ends(s)

SessionsNext ==
  \/ EndSome
  \/ \E s \in Tokens, u \in Users :
       \/ Open(s, u)
       \/ \E t \in Tokens : Turn(s, t, u) \/ Renew(s, t, u)

SessionsSpec == SessionsInit /\ [][SessionsNext]_sessionVars
=============================================================================
