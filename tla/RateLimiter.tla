------------------------------ MODULE RateLimiter ------------------------------
(***************************************************************************)
(* The rate limiter of the Web API                                         *)
(* (src/apps/web-api/shared/security/ratelimit.go).                        *)
(*                                                                         *)
(* A handler looks the limiter of its address up, or makes it, under the   *)
(* mutex; it asks the limiter after the mutex is released.  A goroutine    *)
(* deletes the addresses that were not seen for IdleLimit.                 *)
(*                                                                         *)
(* A tick is the time in which a limiter gains one token (200 ms), so      *)
(* Burst is 20 and IdleLimit 900.  Fractions of a token are left out.      *)
(***************************************************************************)
EXTENDS Naturals

CONSTANTS
  Addrs, Handlers,
  Limiters,    \* rate.Limiter objects
  None,
  Burst, IdleLimit,
  MaxHold      \* bound: ticks between getVisitor and Allow in one handler

(* A forgotten bucket is full, whatever happened since it was last seen.    *)
ASSUME LimiterConstants ==
  /\ None \notin Limiters \cup Addrs
  /\ Burst \in Nat /\ IdleLimit \in Nat /\ MaxHold \in Nat
  /\ IdleLimit >= Burst + MaxHold

VARIABLES
  visitors,  \* the limiter of an address, None if the map has no entry
  unseen,    \* ticks since lastSeen, counted up to IdleLimit + 1
  level,     \* tokens of a limiter
  handler,   \* what each handler does, and with which limiter
  held,      \* ticks since the handler's getVisitor
  debt       \* history: the most that any stretch of time up to now has let
             \*   through of an address beyond one request per tick

vars == <<visitors, unseen, level, handler, held, debt>>

Phases == {"idle", "asked", "served", "refused"}

TypeOK ==
  /\ visitors \in [Addrs -> Limiters \cup {None}]
  /\ unseen \in [Addrs -> 0..(IdleLimit + 1)]
  /\ level \in [Limiters -> 0..Burst]
  /\ handler \in [Handlers -> [pc : Phases, addr : Addrs \cup {None},
                               lim : Limiters \cup {None}]]
  /\ held \in [Handlers -> 0..MaxHold]
  /\ debt \in [Addrs -> Nat]

Init ==
  /\ visitors = [a \in Addrs |-> None]
  /\ unseen = [a \in Addrs |-> 0]
  /\ level = [b \in Limiters |-> Burst]
  /\ handler = [h \in Handlers |-> [pc |-> "idle", addr |-> None, lim |-> None]]
  /\ held = [h \in Handlers |-> 0]
  /\ debt = [a \in Addrs |-> 0]

InUse == {visitors[a] : a \in Addrs} \cup {handler[h].lim : h \in Handlers}

Goto(h, pc, a, b) ==
  handler' = [handler EXCEPT ![h] = [pc |-> pc, addr |-> a, lim |-> b]]

(* Mutant of Seen: only a new visitor is given the time.                    *)
SeenOnce(a) ==
  unseen' = IF visitors[a] = None THEN [unseen EXCEPT ![a] = 0] ELSE unseen

Seen(a) == unseen' = [unseen EXCEPT ![a] = 0]

(* getVisitor of an address it knows, and of another.                       *)
Find(h, a) ==
  /\ handler[h].pc = "idle" /\ visitors[a] # None
  /\ Seen(a)
  /\ Goto(h, "asked", a, visitors[a])
  /\ held' = [held EXCEPT ![h] = 0]
  /\ UNCHANGED <<visitors, level, debt>>

Make(h, a, b) ==
  /\ handler[h].pc = "idle" /\ visitors[a] = None
  /\ b \in Limiters \ InUse
  /\ visitors' = [visitors EXCEPT ![a] = b]
  /\ level' = [level EXCEPT ![b] = Burst]
  /\ Seen(a)
  /\ Goto(h, "asked", a, b)
  /\ held' = [held EXCEPT ![h] = 0]
  /\ UNCHANGED debt

(* Mutant of Available: the last token is never given away.                 *)
AvailableButOne(b) == level[b] > 1

Available(b) == level[b] > 0

(* Limiter.Allow, and the handler's way on: to next or to a 429.            *)
Allow(h) ==
  LET a == handler[h].addr
      b == handler[h].lim
  IN /\ handler[h].pc = "asked" /\ Available(b)
     /\ level' = [level EXCEPT ![b] = @ - 1]
     /\ Goto(h, "served", a, None)
     /\ debt' = [debt EXCEPT ![a] = @ + 1]
     /\ UNCHANGED <<visitors, unseen, held>>

TooMany(h) ==
  /\ handler[h].pc = "asked" /\ ~Available(handler[h].lim)
  /\ Goto(h, "refused", handler[h].addr, None)
  /\ UNCHANGED <<visitors, unseen, level, held, debt>>

Return(h) ==
  /\ handler[h].pc \in {"served", "refused"}
  /\ Goto(h, "idle", None, None)
  /\ UNCHANGED <<visitors, unseen, level, held, debt>>

(* Mutant of Forgotten: visitors are forgotten while they refill.           *)
ForgottenEarly(a) == unseen[a] > MaxHold

Forgotten(a) == unseen[a] > IdleLimit

(* The cleaning goroutine, at any minute; it keeps the mutex for its loop.  *)
Clean ==
  /\ visitors' = [a \in Addrs |-> IF Forgotten(a) THEN None ELSE visitors[a]]
  /\ UNCHANGED <<unseen, level, handler, held, debt>>

(* Mutant of Gained: tokens beyond the burst.                               *)
GainedAlways(n) == n + 1

Gained(n) == IF n < Burst THEN n + 1 ELSE Burst

Tick ==
  /\ \A h \in Handlers : handler[h].pc = "asked" => held[h] < MaxHold
  /\ level' = [b \in Limiters |-> Gained(level[b])]
  /\ unseen' = [a \in Addrs |-> IF unseen[a] > IdleLimit THEN unseen[a] ELSE unseen[a] + 1]
  /\ held' = [h \in Handlers |-> IF handler[h].pc = "asked" THEN held[h] + 1 ELSE held[h]]
  /\ debt' = [a \in Addrs |-> IF debt[a] > 0 THEN debt[a] - 1 ELSE 0]
  /\ UNCHANGED <<visitors, handler>>

Handle(h) ==
  \/ \E a \in Addrs : Find(h, a) \/ \E b \in Limiters : Make(h, a, b)
  \/ Allow(h) \/ TooMany(h) \/ Return(h)

Next == Clean \/ Tick \/ \E h \in Handlers : Handle(h)

Spec == Init /\ [][Next]_vars

-----------------------------------------------------------------------------
(* In no stretch of time more requests of an address get through than Burst *)
(* and one per tick, although its bucket is forgotten and made again full.  *)
NoStretchOverBurst == \A a \in Addrs : debt[a] <= Burst

(* The limiter a handler asks after the mutex is released is the one of its *)
(* address: no handler takes from a forgotten bucket beside the new one.    *)
AsksTheCurrentLimiter ==
  \A h \in Handlers :
    handler[h].pc = "asked" => visitors[handler[h].addr] = handler[h].lim

(* Forgetting makes no difference: to those who ask, the limiter is one     *)
(* bucket per address that was there from the beginning.                    *)
Buckets == INSTANCE TokenBuckets WITH
  tokens <- [a \in Addrs |-> IF visitors[a] = None THEN Burst ELSE level[visitors[a]]],
  req    <- [h \in Handlers |-> [pc |-> handler[h].pc, addr |-> handler[h].addr]]

LooksLikeOneBucket == Buckets!BucketSpec
=============================================================================
