--------------------------- MODULE RateLimiter_proofs ---------------------------
(***************************************************************************)
(* The rate limiter of RateLimiter for any number of addresses, handlers   *)
(* and limiters, any burst and any idle limit that lets a bucket refill.   *)
(***************************************************************************)
EXTENDS RateLimiter, TLAPS

Known(a) == visitors[a] # None

(* Two addresses never share a limiter.                                     *)
OneOwner ==
  \A a, c \in Addrs : Known(a) /\ visitors[a] = visitors[c] => a = c

(* Who asks has an address and a limiter, and saw the address a short time  *)
(* ago: too short for it to be forgotten.                                   *)
Asking ==
  \A h \in Handlers :
    handler[h].pc = "asked" =>
      /\ handler[h].addr \in Addrs /\ handler[h].lim \in Limiters
      /\ unseen[handler[h].addr] <= held[h]

(* An address that was not seen for a while has refilled for as long.       *)
Refilled ==
  \A a \in Addrs :
    Known(a) => level[visitors[a]] = Burst \/ level[visitors[a]] + MaxHold >= unseen[a]

(* What an address has had is what its limiter lacks.                       *)
Owed ==
  \A a \in Addrs :
    IF Known(a) THEN debt[a] + level[visitors[a]] = Burst ELSE debt[a] = 0

IInv == TypeOK /\ OneOwner /\ AsksTheCurrentLimiter /\ Asking /\ Refilled /\ Owed

-----------------------------------------------------------------------------
(* The initial state satisfies the invariant.                               *)
LEMMA InitHolds == Init => IInv
BY LimiterConstants
DEF Init, IInv, TypeOK, OneOwner, AsksTheCurrentLimiter, Asking, Refilled, Owed, Known, Phases

(* getVisitor of a known address.                                           *)
LEMMA FindHolds ==
  ASSUME IInv, NEW h \in Handlers, NEW a \in Addrs, Find(h, a) PROVE IInv'
<1> USE DEF IInv, Find, Goto, Seen
<1>1. TypeOK'
  BY LimiterConstants DEF TypeOK, Phases
<1>2. OneOwner'
  BY DEF OneOwner, Known
<1>3. AsksTheCurrentLimiter'
  BY DEF AsksTheCurrentLimiter, TypeOK
<1>4. Asking'
  BY DEF Asking, TypeOK
<1>5. Refilled'
  BY LimiterConstants DEF Refilled, Known, TypeOK
<1>6. Owed'
  BY DEF Owed, Known
<1> QED BY <1>1, <1>2, <1>3, <1>4, <1>5, <1>6

(* getVisitor of an address it does not know: the limiter it makes is       *)
(* nobody else's.                                                           *)
LEMMA MakeHolds ==
  ASSUME IInv, NEW h \in Handlers, NEW a \in Addrs, NEW b \in Limiters, Make(h, a, b)
  PROVE  IInv'
<1> USE DEF IInv, Make, Goto, Seen
<1>1. /\ \A c \in Addrs : visitors[c] # b
      /\ \A g \in Handlers : handler[g].lim # b
  BY DEF InUse
<1>2. TypeOK'
  BY LimiterConstants DEF TypeOK, Phases
<1>3. OneOwner'
  BY <1>1, LimiterConstants DEF OneOwner, Known, TypeOK
<1>4. AsksTheCurrentLimiter'
  BY <1>1, LimiterConstants DEF AsksTheCurrentLimiter, Asking, TypeOK
<1>5. Asking'
  BY DEF Asking, TypeOK
<1>6. Refilled'
  BY <1>1, LimiterConstants DEF Refilled, Known, TypeOK
<1>7. Owed'
  BY <1>1, LimiterConstants DEF Owed, Known, TypeOK
<1> QED BY <1>2, <1>3, <1>4, <1>5, <1>6, <1>7

(* Limiter.Allow takes a token: of its own address only, which was seen     *)
(* within MaxHold.                                                          *)
LEMMA AllowHolds ==
  ASSUME IInv, NEW h \in Handlers, Allow(h) PROVE IInv'
<1> DEFINE a == handler[h].addr
           b == handler[h].lim
<1> USE DEF IInv, Allow, Goto, Available
<1>1. /\ a \in Addrs /\ b \in Limiters /\ visitors[a] = b /\ b # None
      /\ unseen[a] <= MaxHold /\ unseen[a] \in Nat
      /\ level[b] \in 1..Burst /\ level' = [level EXCEPT ![b] = level[b] - 1]
      /\ debt' = [debt EXCEPT ![a] = debt[a] + 1]
      /\ UNCHANGED <<visitors, unseen, held>>
  BY LimiterConstants DEF Asking, AsksTheCurrentLimiter, TypeOK
<1>2. \A c \in Addrs : visitors[c] = b => c = a
  BY <1>1 DEF OneOwner, Known
<1>3. TypeOK'
  BY <1>1, LimiterConstants DEF TypeOK, Phases
<1>4. OneOwner'
  BY <1>1 DEF OneOwner, Known
<1>5. AsksTheCurrentLimiter'
  BY DEF AsksTheCurrentLimiter, TypeOK
<1>6. Asking'
  BY DEF Asking, TypeOK
<1>7. Refilled'
  BY <1>1, <1>2, LimiterConstants DEF Refilled, Known, TypeOK
<1>8. ASSUME NEW c \in Addrs
      PROVE  IF Known(c) THEN debt'[c] + level'[visitors[c]] = Burst ELSE debt'[c] = 0
  <2>1. /\ IF Known(c) THEN debt[c] + level[visitors[c]] = Burst ELSE debt[c] = 0
        /\ debt \in [Addrs -> Nat] /\ level \in [Limiters -> 0..Burst]
        /\ visitors \in [Addrs -> Limiters \cup {None}] /\ Burst \in Nat
    BY LimiterConstants DEF Owed, TypeOK
  <2>2. CASE c = a
    BY <1>1, <2>1, <2>2 DEF Known
  <2>3. CASE c # a
    BY <1>1, <1>2, <2>1, <2>3 DEF Known
  <2> QED BY <2>2, <2>3
<1>9. Owed'
  BY <1>1, <1>8 DEF Owed, Known
<1> QED BY <1>3, <1>4, <1>5, <1>6, <1>7, <1>9

(* A refusal and the end of a handler.                                      *)
LEMMA ReturnHolds ==
  ASSUME IInv, NEW h \in Handlers, TooMany(h) \/ Return(h) PROVE IInv'
<1> USE DEF IInv, TooMany, Return, Goto
<1>1. UNCHANGED <<visitors, unseen, level, held, debt>>
  OBVIOUS
<1>2. TypeOK'
  BY LimiterConstants DEF TypeOK, Phases
<1>3. OneOwner' /\ Refilled' /\ Owed'
  BY <1>1 DEF OneOwner, Refilled, Owed, Known
<1>4. AsksTheCurrentLimiter' /\ Asking'
  BY DEF AsksTheCurrentLimiter, Asking, TypeOK
<1> QED BY <1>2, <1>3, <1>4

(* The clean-up: what it forgets is full and asked by nobody.               *)
LEMMA CleanHolds ==
  ASSUME IInv, Clean PROVE IInv'
<1> USE DEF IInv, Clean, Forgotten
<1>1. TypeOK'
  BY DEF TypeOK
<1>2. OneOwner'
  BY DEF OneOwner, Known
<1>3. ASSUME NEW h \in Handlers, handler[h].pc = "asked"
      PROVE  ~Forgotten(handler[h].addr)
  BY <1>3, LimiterConstants DEF Asking, TypeOK
<1>4. AsksTheCurrentLimiter' /\ Asking'
  BY <1>3 DEF AsksTheCurrentLimiter, Asking
<1>5. Refilled'
  BY DEF Refilled, Known
<1>6. ASSUME NEW a \in Addrs, Known(a), Forgotten(a) PROVE debt[a] = 0
  BY <1>6, LimiterConstants DEF Refilled, Owed, Known, TypeOK
<1>7. Owed'
  BY <1>6 DEF Owed, Known
<1> QED BY <1>1, <1>2, <1>4, <1>5, <1>7

(* Time: tokens come back as fast as addresses age and debts are paid.      *)
LEMMA TickHolds ==
  ASSUME IInv, Tick PROVE IInv'
<1> USE DEF IInv, Tick, Gained
<1>1. TypeOK'
  BY LimiterConstants DEF TypeOK
<1>2. OneOwner'
  BY DEF OneOwner, Known
<1>3. AsksTheCurrentLimiter'
  BY DEF AsksTheCurrentLimiter
<1>4. Asking'
  BY DEF Asking, TypeOK
<1>5. ASSUME NEW a \in Addrs, Known(a)
      PROVE  /\ level'[visitors[a]] = Burst \/ level'[visitors[a]] + MaxHold >= unseen'[a]
             /\ debt'[a] + level'[visitors[a]] = Burst
  BY <1>5, LimiterConstants DEF Refilled, Owed, Known, TypeOK
<1>6. Refilled'
  BY <1>5 DEF Refilled, Known
<1>7. Owed'
  BY <1>5 DEF Owed, Known
<1> QED BY <1>1, <1>2, <1>3, <1>4, <1>6, <1>7

(* Every step preserves the invariant.                                      *)
LEMMA NextHolds == IInv /\ [Next]_vars => IInv'
<1> SUFFICES ASSUME IInv, [Next]_vars PROVE IInv'
  OBVIOUS
<1>1. CASE Clean
  BY <1>1, CleanHolds
<1>2. CASE Tick
  BY <1>2, TickHolds
<1>3. ASSUME NEW h \in Handlers, Handle(h) PROVE IInv'
  BY <1>3, FindHolds, MakeHolds, AllowHolds, ReturnHolds DEF Handle
<1>4. CASE UNCHANGED vars
  BY <1>4 DEF vars, IInv, TypeOK, OneOwner, AsksTheCurrentLimiter, Asking, Refilled,
              Owed, Known
<1> QED BY <1>1, <1>2, <1>3, <1>4 DEF Next

(* IInv is an invariant.                                                    *)
LEMMA InvariantHolds == Spec => []IInv
BY InitHolds, NextHolds, PTL DEF Spec

-----------------------------------------------------------------------------
(* Type correctness.                                                        *)
THEOREM LimiterTypeCorrect == Spec => []TypeOK
<1>1. IInv => TypeOK
  BY DEF IInv
<1> QED BY <1>1, InvariantHolds, PTL

(* However often buckets are forgotten and made again, no stretch of time   *)
(* lets more than Burst and one per tick of an address through.             *)
THEOREM NoStretchOverBurstCorrect == Spec => []NoStretchOverBurst
<1>1. ASSUME IInv, NEW a \in Addrs PROVE debt[a] <= Burst
  <2>1. debt[a] \in Nat /\ Burst \in Nat
    BY <1>1, LimiterConstants DEF IInv, TypeOK
  <2>2. CASE Known(a)
    <3>1. level[visitors[a]] \in 0..Burst
      BY <1>1, <2>2 DEF IInv, TypeOK, Known
    <3>2. debt[a] + level[visitors[a]] = Burst
      BY <1>1, <2>2 DEF IInv, Owed
    <3> QED BY <2>1, <3>1, <3>2
  <2>3. CASE ~Known(a)
    BY <1>1, <2>1, <2>3 DEF IInv, Owed
  <2> QED BY <2>2, <2>3
<1>2. IInv => NoStretchOverBurst
  BY <1>1 DEF NoStretchOverBurst
<1> QED BY <1>2, InvariantHolds, PTL

(* No handler asks a forgotten limiter, although it asks without the mutex. *)
THEOREM CurrentLimiterCorrect == Spec => []AsksTheCurrentLimiter
<1>1. IInv => AsksTheCurrentLimiter
  BY DEF IInv
<1> QED BY <1>1, InvariantHolds, PTL

-----------------------------------------------------------------------------
(* The refinement.                                                          *)

Tokens == [a \in Addrs |-> IF visitors[a] = None THEN Burst ELSE level[visitors[a]]]
Reqs   == [h \in Handlers |-> [pc |-> handler[h].pc, addr |-> handler[h].addr]]

(* What a handler's step does to the request the abstract bucket sees.      *)
LEMMA GotoMaps ==
  ASSUME TypeOK, NEW h \in Handlers, NEW pc, NEW a, NEW b, Goto(h, pc, a, b)
  PROVE  Reqs' = [Reqs EXCEPT ![h] = [pc |-> pc, addr |-> a]]
BY DEF Reqs, Goto, TypeOK

(* A known address keeps its bucket, and an unknown one is given a full     *)
(* one, which is what the abstract bucket had all the time.                 *)
LEMMA AskMaps ==
  ASSUME IInv, NEW h \in Handlers, NEW a \in Addrs,
         Find(h, a) \/ \E b \in Limiters : Make(h, a, b)
  PROVE  Buckets!Ask(h, a)
<1>1. CASE Find(h, a)
  <2>1. Tokens' = Tokens
    BY <1>1 DEF Find, Tokens
  <2>2. Reqs' = [Reqs EXCEPT ![h] = [pc |-> "asked", addr |-> a]] /\ Reqs[h].pc = "idle"
    BY <1>1, GotoMaps DEF Find, Reqs, IInv
  <2> QED BY <2>1, <2>2 DEF Buckets!Ask, Buckets!At, Tokens, Reqs
<1>2. ASSUME NEW b \in Limiters, Make(h, a, b) PROVE Buckets!Ask(h, a)
  <2>1. \A c \in Addrs : visitors[c] # b
    BY <1>2 DEF Make, InUse
  <2>2. Tokens' = Tokens
    BY <1>2, <2>1, LimiterConstants DEF Make, Tokens, IInv, TypeOK
  <2>3. Reqs' = [Reqs EXCEPT ![h] = [pc |-> "asked", addr |-> a]] /\ Reqs[h].pc = "idle"
    BY <1>2, GotoMaps DEF Make, Reqs, IInv
  <2> QED BY <2>2, <2>3 DEF Buckets!Ask, Buckets!At, Tokens, Reqs
<1> QED BY <1>1, <1>2

(* A token of the address is taken.                                         *)
LEMMA ServeMaps ==
  ASSUME IInv, NEW h \in Handlers, Allow(h) PROVE Buckets!Serve(h)
<1> DEFINE a == handler[h].addr
           b == handler[h].lim
<1>1. /\ a \in Addrs /\ b \in Limiters /\ visitors[a] = b /\ b # None /\ level[b] > 0
      /\ level' = [level EXCEPT ![b] = level[b] - 1] /\ visitors' = visitors
      /\ level \in [Limiters -> 0..Burst]
  BY LimiterConstants DEF IInv, Asking, AsksTheCurrentLimiter, TypeOK, Allow, Available
<1>2. \A c \in Addrs : visitors[c] = b => c = a
  BY <1>1 DEF IInv, OneOwner, Known
<1>3. Tokens' = [Tokens EXCEPT ![a] = Tokens[a] - 1] /\ Tokens[a] > 0
  BY <1>1, <1>2, LimiterConstants DEF Tokens, IInv, TypeOK
<1>4. /\ Reqs' = [Reqs EXCEPT ![h] = [pc |-> "served", addr |-> a]]
      /\ Reqs[h].pc = "asked" /\ Reqs[h].addr = a
  BY GotoMaps DEF Allow, Reqs, IInv
<1> QED BY <1>3, <1>4 DEF Buckets!Serve, Buckets!At, Tokens, Reqs

(* A refusal finds the bucket of the address empty.                         *)
LEMMA RefuseMaps ==
  ASSUME IInv, NEW h \in Handlers, TooMany(h) PROVE Buckets!Refuse(h)
<1> DEFINE a == handler[h].addr
<1>1. /\ a \in Addrs /\ visitors[a] = handler[h].lim /\ handler[h].lim \in Limiters
      /\ handler[h].lim # None /\ level[handler[h].lim] = 0
      /\ UNCHANGED <<visitors, level>>
  BY LimiterConstants DEF IInv, Asking, AsksTheCurrentLimiter, TypeOK, TooMany, Available
<1>2. Tokens' = Tokens /\ Tokens[a] = 0
  BY <1>1 DEF Tokens
<1>3. /\ Reqs' = [Reqs EXCEPT ![h] = [pc |-> "refused", addr |-> a]]
      /\ Reqs[h].pc = "asked" /\ Reqs[h].addr = a
  BY GotoMaps DEF TooMany, Reqs, IInv
<1> QED BY <1>2, <1>3 DEF Buckets!Refuse, Buckets!At, Tokens, Reqs

(* The end of a handler.                                                    *)
LEMMA FinishMaps ==
  ASSUME IInv, NEW h \in Handlers, Return(h) PROVE Buckets!Finish(h)
<1>1. Tokens' = Tokens
  BY DEF Return, Tokens
<1>2. /\ Reqs' = [Reqs EXCEPT ![h] = [pc |-> "idle", addr |-> None]]
      /\ Reqs[h].pc \in {"served", "refused"}
  BY GotoMaps DEF Return, Reqs, IInv
<1> QED BY <1>1, <1>2 DEF Buckets!Finish, Buckets!At, Tokens, Reqs

(* A tick refills both.                                                     *)
LEMMA RefillMaps ==
  ASSUME IInv, Tick PROVE Buckets!Refill
BY LimiterConstants DEF IInv, TypeOK, Tick, Gained, Buckets!Refill

(* The clean-up is not seen: what it forgets is full.                       *)
LEMMA CleanMaps ==
  ASSUME IInv, Clean PROVE Tokens' = Tokens /\ Reqs' = Reqs
<1>1. ASSUME NEW a \in Addrs, Known(a), Forgotten(a) PROVE level[visitors[a]] = Burst
  BY <1>1, LimiterConstants DEF IInv, Refilled, Known, Forgotten, TypeOK
<1> QED BY <1>1 DEF Clean, Tokens, Reqs, Known

(* Every step is a step of the abstract buckets or leaves them alone.       *)
LEMMA StepMaps ==
  IInv /\ [Next]_vars => [Buckets!BucketNext]_(Buckets!bucketVars)
<1> SUFFICES ASSUME IInv, [Next]_vars PROVE [Buckets!BucketNext]_(Buckets!bucketVars)
  OBVIOUS
<1>1. CASE Clean
  BY <1>1, CleanMaps DEF Buckets!bucketVars, Tokens, Reqs
<1>2. CASE Tick
  BY <1>2, RefillMaps DEF Buckets!BucketNext
<1>3. ASSUME NEW h \in Handlers, Handle(h) PROVE Buckets!BucketNext
  BY <1>3, AskMaps, ServeMaps, RefuseMaps, FinishMaps DEF Handle, Buckets!BucketNext
<1>4. CASE UNCHANGED vars
  BY <1>4 DEF vars, Buckets!bucketVars
<1> QED BY <1>1, <1>2, <1>3, <1>4 DEF Next

(* The limiter implements one bucket per address that is never forgotten.   *)
THEOREM LimiterImplementsBuckets == Spec => LooksLikeOneBucket
<1>1. Init => Buckets!BucketInit
  BY LimiterConstants DEF Init, Buckets!BucketInit
<1>2. Spec => Buckets!BucketSpec
  BY <1>1, StepMaps, InvariantHolds, PTL DEF Spec, Buckets!BucketSpec
<1> QED BY <1>2 DEF LooksLikeOneBucket
=============================================================================
