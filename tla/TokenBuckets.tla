----------------------------- MODULE TokenBuckets -----------------------------
(***************************************************************************)
(* What the rate limiter promises: every address has a bucket of Burst     *)
(* tokens from the beginning, one comes back per tick, a request takes one *)
(* or is refused.  RateLimiter implements it with buckets that are made    *)
(* at need and forgotten.                                                  *)
(***************************************************************************)
EXTENDS Naturals

CONSTANTS Addrs, Handlers, Burst, None

VARIABLES tokens, req

bucketVars == <<tokens, req>>

BucketInit ==
  /\ tokens = [a \in Addrs |-> Burst]
  /\ req = [h \in Handlers |-> [pc |-> "idle", addr |-> None]]

At(h, pc, a) == req' = [req EXCEPT ![h] = [pc |-> pc, addr |-> a]]

Ask(h, a) == req[h].pc = "idle" /\ At(h, "asked", a) /\ UNCHANGED tokens

Serve(h) ==
  LET a == req[h].addr IN
  /\ req[h].pc = "asked" /\ tokens[a] > 0
  /\ tokens' = [tokens EXCEPT ![a] = @ - 1]
  /\ At(h, "served", a)

Refuse(h) ==
  LET a == req[h].addr IN
  /\ req[h].pc = "asked" /\ tokens[a] = 0
  /\ At(h, "refused", a)
  /\ UNCHANGED tokens

Finish(h) ==
  /\ req[h].pc \in {"served", "refused"}
  /\ At(h, "idle", None)
  /\ UNCHANGED tokens

Refill ==
  /\ tokens' = [a \in Addrs |-> IF tokens[a] < Burst THEN tokens[a] + 1 ELSE Burst]
  /\ UNCHANGED req

BucketNext ==
  \/ Refill
  \/ \E h \in Handlers :
       (\E a \in Addrs : Ask(h, a)) \/ Serve(h) \/ Refuse(h) \/ Finish(h)

BucketSpec == BucketInit /\ [][BucketNext]_bucketVars
=============================================================================
