------------------------------ MODULE RateLimit ------------------------------
(***************************************************************************)
(* The rate limiter (core/rate_limit.py): a token bucket per layer and     *)
(* subject in a Redis script, which is atomic, and the guard that decides  *)
(* what a request may do when Redis does not answer.                       *)
(*                                                                         *)
(* One client is looked at: his address, his user and his costly actions   *)
(* each have a bucket.  Time is an integer, and so are the tokens, counted *)
(* in fractions 1/Window, so that a refill is exact.  The script may have  *)
(* run although its answer is lost.                                        *)
(*                                                                         *)
(* Definitions named Bug_X are plausible mistakes in the definition that   *)
(* follows; the specification never uses them.                             *)
(***************************************************************************)
EXTENDS Naturals

CONSTANTS Capacity,  \* per layer: requests per window
          Window,    \* the length of a window
          MaxTime    \* bound: of the clock

Layers == {"ip", "user", "costly"}

ASSUME LimitAssumption ==
  /\ Capacity \in [Layers -> Nat \ {0}]
  /\ Window \in Nat \ {0} /\ MaxTime \in Nat

VARIABLES
  now,      \* the clock of Redis
  bucket,   \* per layer: tokens and updated_at, or NoBucket
  layer,    \* the layer the request is at
  passed    \* history: costly actions let through at or after each time

limitVars == <<now, bucket, layer, passed>>

NoBucket == [tokens |-> 0, updated |-> 0, there |-> FALSE]

Full(l) == Capacity[l] * Window

LimitInit ==
  /\ now = 0
  /\ bucket = [l \in Layers |-> NoBucket]
  /\ layer = "ip"
  /\ passed = [t \in 0 .. MaxTime |-> 0]
-----------------------------------------------------------------------------
(***************************************************************************)
(* The script: refill by the time that passed, then take one token.  A key *)
(* that was not used for two windows has expired.                          *)
(***************************************************************************)
Expired(l) == ~bucket[l].there \/ now >= bucket[l].updated + 2 * Window

Refill(l) == bucket[l].tokens + (now - bucket[l].updated) * Capacity[l]

Bug_Uncapped(l) == IF Expired(l) THEN Full(l) ELSE Refill(l)

Tokens(l) == IF Expired(l) \/ Refill(l) > Full(l) THEN Full(l) ELSE Refill(l)

Bug_AnyTokenLeft(l) == Tokens(l) > 0

Allowed(l) == Tokens(l) >= Window

Acquire(l) ==
  bucket' = [bucket EXCEPT ![l] =
    [tokens  |-> IF Allowed(l) THEN Tokens(l) - Window ELSE Tokens(l),
     updated |-> now, there |-> TRUE]]
-----------------------------------------------------------------------------
(***************************************************************************)
(* A request passes the router, the user's check and, if it is costly, the *)
(* endpoint's; the next one starts at the router.                          *)
(***************************************************************************)
Pass(l) ==
  /\ layer' \in CASE l = "ip"     -> {"user", "ip"}
                  [] l = "user"   -> {"costly", "ip"}
                  [] l = "costly" -> {"ip"}
  /\ passed' = IF l = "costly"
                 THEN [t \in 0 .. MaxTime |-> IF t <= now THEN passed[t] + 1 ELSE passed[t]]
                 ELSE passed

Deny == layer' = "ip" /\ UNCHANGED passed

Ask(l) ==
  /\ layer = l
  /\ Acquire(l)
  /\ IF Allowed(l) THEN Pass(l) ELSE Deny
  /\ UNCHANGED now

(***************************************************************************)
(* Redis does not answer, before or after the script ran.  Costly actions  *)
(* are refused then, everything else goes on.                              *)
(***************************************************************************)
FailsClosed(l) == l = "costly"

AskInVain(l) ==
  /\ layer = l
  /\ Acquire(l) \/ UNCHANGED bucket
  /\ IF FailsClosed(l) THEN Deny ELSE Pass(l)
  /\ UNCHANGED now

Tick ==
  /\ now < MaxTime
  /\ now' = now + 1
  /\ UNCHANGED <<bucket, layer, passed>>

LimitNext == Tick \/ \E l \in Layers : Ask(l) \/ AskInVain(l)

LimitSpec == LimitInit /\ [][LimitNext]_limitVars
-----------------------------------------------------------------------------
LimitTypeOK ==
  /\ now \in 0 .. MaxTime
  /\ bucket \in [Layers -> [tokens : Nat, updated : 0 .. MaxTime, there : BOOLEAN]]
  /\ \A l \in Layers : bucket[l].tokens <= Full(l) /\ bucket[l].updated <= now
  /\ layer \in Layers
  /\ passed \in [0 .. MaxTime -> Nat]

(***************************************************************************)
(* However requests are spread over the ends of windows, idle times and    *)
(* outages of Redis: since any time, no more costly actions got through    *)
(* than a full bucket and what has flowed into it.                         *)
(***************************************************************************)
CostlyLimit ==
  \A t \in 0 .. now :
    passed[t] * Window <= Full("costly") + (now - t) * Capacity["costly"]
=============================================================================
