-------------------------- MODULE RateLimitProofs --------------------------
(***************************************************************************)
(* Theorems about RateLimit, for every capacity, window and length of a    *)
(* run.                                                                    *)
(***************************************************************************)
EXTENDS RateLimit, Integers, TLAPS

LEMMA ProductIsNat ==
  ASSUME NEW a \in Nat, NEW b \in Nat
  PROVE  a * b \in Nat
OBVIOUS

LEMMA Distribute ==
  ASSUME NEW a \in Int, NEW b \in Int, NEW c \in Int
  PROVE  (a + b) * c = a * c + b * c
OBVIOUS

LEMMA TypeFacts ==
  ASSUME LimitTypeOK
  PROVE  /\ now \in Nat /\ MaxTime \in Nat /\ Window \in Nat \ {0} /\ "costly" \in Layers
         /\ now \in 0 .. MaxTime /\ passed \in [0 .. MaxTime -> Nat]
         /\ \A t \in 0 .. now : t \in 0 .. MaxTime /\ passed[t] \in Nat
<1>1. /\ now \in 0 .. MaxTime /\ passed \in [0 .. MaxTime -> Nat]
      /\ MaxTime \in Nat /\ Window \in Nat \ {0}
  BY LimitAssumption DEF LimitTypeOK
<1>2. "costly" \in Layers
  BY DEF Layers
<1>3. QED
  BY <1>1, <1>2

LEMMA FullIsNat ==
  ASSUME NEW l \in Layers
  PROVE  Capacity[l] \in Nat \ {0} /\ Full(l) \in Nat
<1>1. Capacity[l] \in Nat \ {0} /\ Window \in Nat
  BY LimitAssumption
<1>2. QED
  BY <1>1, ProductIsNat DEF Full

-----------------------------------------------------------------------------
(***************************************************************************)
(* What the script finds in a bucket never exceeds a full one, and grows   *)
(* by at most the capacity while the clock advances by one.  A bucket that *)
(* expires would have been full anyway.                                    *)
(***************************************************************************)
LEMMA RefillIsNat ==
  ASSUME LimitTypeOK, NEW l \in Layers
  PROVE  Refill(l) \in Nat
<1>1. now - bucket[l].updated \in Nat /\ bucket[l].tokens \in Nat /\ Capacity[l] \in Nat
  BY FullIsNat, LimitAssumption DEF LimitTypeOK
<1>2. (now - bucket[l].updated) * Capacity[l] \in Nat
  BY <1>1, ProductIsNat
<1>3. QED
  BY <1>1, <1>2 DEF Refill

LEMMA TokensBounded ==
  ASSUME LimitTypeOK, NEW l \in Layers
  PROVE  Tokens(l) \in Nat /\ Tokens(l) <= Full(l)
BY RefillIsNat, FullIsNat DEF Tokens

LEMMA TickTokens ==
  ASSUME LimitTypeOK, Tick, NEW l \in Layers
  PROVE  /\ Tokens(l)' \in Nat
         /\ Tokens(l)' <= Full(l)
         /\ Tokens(l)' <= Tokens(l) + Capacity[l]
<1> DEFINE age == now - bucket[l].updated
           cap == Capacity[l]
<1>1. /\ age \in Nat /\ now \in Nat /\ bucket[l].updated \in Nat /\ cap \in Nat \ {0}
      /\ Window \in Nat \ {0} /\ bucket[l].tokens \in Nat
  BY FullIsNat, LimitAssumption DEF LimitTypeOK
<1>2. bucket' = bucket /\ now' = now + 1
  BY DEF Tick
<1>3. Refill(l)' = Refill(l) + cap
  <2>1. (age + 1) * cap = age * cap + 1 * cap
    BY <1>1, Distribute
  <2>2. now' - bucket'[l].updated = age + 1
    BY <1>1, <1>2
  <2>3. Refill(l)' = bucket[l].tokens + (age + 1) * cap
    BY <1>2, <2>2 DEF Refill
  <2>4. age * cap \in Nat
    BY <1>1, ProductIsNat
  <2> HIDE DEF age
  <2>5. Refill(l) = bucket[l].tokens + age * cap
    BY DEF Refill, age
  <2>6. QED
    BY <1>1, <2>1, <2>3, <2>4, <2>5
<1>4. Refill(l) \in Nat /\ Full(l) \in Nat /\ Tokens(l) \in Nat /\ Tokens(l) <= Full(l)
  BY RefillIsNat, FullIsNat, TokensBounded
<1>5. ASSUME ~Expired(l), Expired(l)'
      PROVE  Tokens(l) = Full(l)
  <2>1. age = 2 * Window - 1
    BY <1>1, <1>2, <1>5 DEF Expired
  <2>2. age = Window + (Window - 1)
    BY <1>1, <2>1
  <2>3. age * cap = Window * cap + (Window - 1) * cap
    <3>1. Window \in Int /\ Window - 1 \in Int /\ cap \in Int
      BY <1>1
    <3>2. (Window + (Window - 1)) * cap = Window * cap + (Window - 1) * cap
      BY <3>1, Distribute
    <3>3. QED
      BY <2>2, <3>2
  <2>4. Window - 1 \in Nat /\ (Window - 1) * cap \in Nat
    <3>1. Window - 1 \in Nat
      BY <1>1
    <3>2. QED
      BY <3>1, <1>1, ProductIsNat
  <2>5. Window * cap = Full(l)
    BY <1>1 DEF Full
  <2>6. Refill(l) = bucket[l].tokens + age * cap
    BY DEF Refill
  <2> HIDE DEF age, cap
  <2>7. Refill(l) >= Full(l)
    BY <1>1, <1>4, <2>3, <2>4, <2>5, <2>6
  <2>8. QED
    BY <1>4, <2>7 DEF Tokens
<1>6. Full(l)' = Full(l)
  BY DEF Full
<1>7. Expired(l) => Expired(l)'
  BY <1>1, <1>2 DEF Expired
<1> HIDE DEF age, cap
<1>8. Tokens(l)' = IF Expired(l)' \/ Refill(l)' > Full(l) THEN Full(l) ELSE Refill(l)'
  BY <1>6 DEF Tokens
<1>9. Tokens(l)' \in Nat /\ Tokens(l)' <= Full(l)
  BY <1>1, <1>3, <1>4, <1>8
<1>10. Tokens(l)' <= Tokens(l) + cap
  <2>1. CASE Expired(l)'
    <3>1. Tokens(l) = Full(l)
      BY <1>5, <2>1 DEF Tokens
    <3>2. QED
      BY <3>1, <1>1, <1>4, <1>9
  <2>2. CASE ~Expired(l)'
    BY <2>2, <1>1, <1>3, <1>4, <1>7, <1>8 DEF Tokens
  <2>3. QED
    BY <2>1, <2>2
<1>11. QED
  BY <1>9, <1>10 DEF cap

-----------------------------------------------------------------------------
(***************************************************************************)
(* What the script leaves in a bucket.                                     *)
(***************************************************************************)
LEMMA AcquireTokens ==
  ASSUME LimitTypeOK, NEW l \in Layers, Acquire(l), now' = now
  PROVE  /\ bucket' \in [Layers -> [tokens : Nat, updated : 0 .. MaxTime, there : BOOLEAN]]
         /\ \A k \in Layers : bucket'[k].tokens <= Full(k) /\ bucket'[k].updated <= now
         /\ \A k \in Layers \ {l} : Tokens(k)' = Tokens(k)
         /\ Tokens(l)' = IF Allowed(l) THEN Tokens(l) - Window ELSE Tokens(l)
<1> DEFINE left == IF Allowed(l) THEN Tokens(l) - Window ELSE Tokens(l)
<1>1. Tokens(l) \in Nat /\ Tokens(l) <= Full(l) /\ Full(l) \in Nat /\ Window \in Nat \ {0}
  BY TokensBounded, FullIsNat, LimitAssumption
<1>2. left \in Nat /\ left <= Full(l)
  BY <1>1 DEF Allowed
<1>3. /\ now \in 0 .. MaxTime /\ now \in Nat
      /\ bucket \in [Layers -> [tokens : Nat, updated : 0 .. MaxTime, there : BOOLEAN]]
      /\ \A k \in Layers : bucket[k].tokens <= Full(k) /\ bucket[k].updated <= now
  BY LimitAssumption DEF LimitTypeOK
<1>4. bucket' = [bucket EXCEPT ![l] = [tokens |-> left, updated |-> now, there |-> TRUE]]
  BY DEF Acquire
<1> HIDE DEF left
<1>5. /\ bucket' \in [Layers -> [tokens : Nat, updated : 0 .. MaxTime, there : BOOLEAN]]
      /\ \A k \in Layers \ {l} : bucket'[k] = bucket[k]
      /\ bucket'[l] = [tokens |-> left, updated |-> now, there |-> TRUE]
  BY <1>2, <1>3, <1>4
<1>6. \A k \in Layers : bucket'[k].tokens <= Full(k) /\ bucket'[k].updated <= now
  BY <1>2, <1>3, <1>5
<1>7. ASSUME NEW k \in Layers \ {l}
      PROVE  Tokens(k)' = Tokens(k)
  <2>1. bucket'[k] = bucket[k]
    BY <1>5
  <2>2. QED
    BY <2>1 DEF Tokens, Expired, Refill, Full
<1>8. Tokens(l)' = left
  <2>1. bucket'[l].tokens = left /\ bucket'[l].updated = now /\ bucket'[l].there
    BY <1>5
  <2>2. ~Expired(l)'
    BY <1>1, <1>3, <2>1 DEF Expired
  <2>3. Refill(l)' = left
    <3>1. now' - bucket'[l].updated = 0
      BY <1>3, <2>1
    <3>2. Refill(l)' = left + 0 * Capacity[l]
      BY <2>1, <3>1 DEF Refill
    <3>3. QED
      BY <3>2, <1>2, FullIsNat
  <2>4. QED
    BY <1>1, <1>2, <2>2, <2>3 DEF Tokens, Full
<1>9. QED
  BY <1>5, <1>6, <1>7, <1>8 DEF left

-----------------------------------------------------------------------------
LEMMA AskType ==
  ASSUME LimitTypeOK, NEW l \in Layers,
         Acquire(l) \/ UNCHANGED bucket, Pass(l) \/ Deny, now' = now
  PROVE  LimitTypeOK'
<1>1. /\ bucket' \in [Layers -> [tokens : Nat, updated : 0 .. MaxTime, there : BOOLEAN]]
      /\ \A k \in Layers : bucket'[k].tokens <= Full(k) /\ bucket'[k].updated <= now
  <2>1. CASE Acquire(l)
    BY <2>1, AcquireTokens
  <2>2. CASE UNCHANGED bucket
    BY <2>2 DEF LimitTypeOK
  <2>3. QED
    BY <2>1, <2>2
<1>2. layer' \in Layers
  BY DEF Pass, Deny, Layers
<1>3. passed' \in [0 .. MaxTime -> Nat]
  <2>1. CASE l = "costly" /\ Pass(l)
    <3>1. passed' = [t \in 0 .. MaxTime |-> IF t <= now THEN passed[t] + 1 ELSE passed[t]]
      BY <2>1 DEF Pass
    <3>2. QED
      BY <3>1 DEF LimitTypeOK
  <2>2. CASE ~(l = "costly" /\ Pass(l))
    BY <2>2 DEF Pass, Deny, LimitTypeOK
  <2>3. QED
    BY <2>1, <2>2
<1>4. QED
  BY <1>1, <1>2, <1>3 DEF LimitTypeOK, Full

LEMMA NextType ==
  ASSUME LimitTypeOK, [LimitNext]_limitVars
  PROVE  LimitTypeOK'
<1>1. CASE UNCHANGED limitVars
  BY <1>1 DEF limitVars, LimitTypeOK, Full
<1>2. CASE Tick
  BY <1>2, LimitAssumption DEF Tick, LimitTypeOK, Full
<1>3. ASSUME NEW l \in Layers, Ask(l) \/ AskInVain(l)
      PROVE  LimitTypeOK'
  BY <1>3, AskType DEF Ask, AskInVain
<1>4. QED
  BY <1>1, <1>2, <1>3 DEF LimitNext

(***************************************************************************)
(* The clock, the buckets and the history stay in their types: no bucket   *)
(* holds more than its capacity or was used after now.                     *)
(***************************************************************************)
THEOREM TypeCorrect == LimitSpec => []LimitTypeOK
<1>1. LimitInit => LimitTypeOK
  <2>1. ASSUME LimitInit
        PROVE  LimitTypeOK
    <3>1. \A l \in Layers : Full(l) \in Nat
      BY FullIsNat
    <3>2. QED
      BY <2>1, <3>1, LimitAssumption DEF LimitInit, LimitTypeOK, NoBucket, Layers
  <2>2. QED
    BY <2>1
<1>2. QED
  BY <1>1, NextType, PTL DEF LimitSpec

-----------------------------------------------------------------------------
(***************************************************************************)
(* CostlyLimit is not inductive: the bucket must be known to hold no more  *)
(* than what those that got through have left of it.                       *)
(***************************************************************************)
Inflow(t) == Full("costly") + (now - t) * Capacity["costly"]

Spent ==
  /\ LimitTypeOK
  /\ \A t \in 0 .. MaxTime : t > now => passed[t] = 0
  /\ \A t \in 0 .. now : passed[t] * Window + Tokens("costly") <= Inflow(t)

LEMMA InitSpent ==
  ASSUME LimitInit
  PROVE  Spent
<1>1. "costly" \in Layers
  BY DEF Layers
<1>2. LimitTypeOK
  <2>1. \A l \in Layers : Full(l) \in Nat
    BY FullIsNat
  <2>2. QED
    BY <2>1, LimitAssumption DEF LimitInit, LimitTypeOK, NoBucket, Layers
<1>3. \A t \in 0 .. MaxTime : t > now => passed[t] = 0
  BY DEF LimitInit
<1>4. ASSUME NEW t \in 0 .. now
      PROVE  passed[t] * Window + Tokens("costly") <= Inflow(t)
  <2>1. t = 0 /\ now = 0 /\ passed[t] = 0
    BY LimitAssumption DEF LimitInit
  <2>2. Inflow(t) = Full("costly") + 0 * Capacity["costly"]
    BY <2>1 DEF Inflow
  <2>3. Inflow(t) = Full("costly")
    BY <1>1, <2>2, FullIsNat
  <2>4. passed[t] * Window = 0
    BY <2>1, LimitAssumption
  <2>5. QED
    BY <1>1, <1>2, <2>3, <2>4, TokensBounded, FullIsNat
<1>5. QED
  BY <1>2, <1>3, <1>4 DEF Spent

LEMMA InflowIsNat ==
  ASSUME LimitTypeOK, NEW t \in 0 .. now
  PROVE  Inflow(t) \in Nat
<1>1. now - t \in Nat /\ "costly" \in Layers
  BY LimitAssumption DEF LimitTypeOK, Layers
<1>2. (now - t) * Capacity["costly"] \in Nat
  BY <1>1, FullIsNat, ProductIsNat
<1>3. QED
  BY <1>1, <1>2, FullIsNat DEF Inflow

LEMMA TickSpent ==
  ASSUME Spent, Tick
  PROVE  Spent'
<1> DEFINE cap == Capacity["costly"]
<1>0. /\ "costly" \in Layers /\ LimitTypeOK /\ now \in Nat /\ now' = now + 1
      /\ now' \in 0 .. MaxTime /\ passed' = passed /\ passed \in [0 .. MaxTime -> Nat]
      /\ cap \in Nat /\ Window \in Nat
  <2>1. LimitTypeOK
    BY DEF Spent
  <2>2. now < MaxTime /\ now' = now + 1 /\ passed' = passed
    BY DEF Tick
  <2>3. "costly" \in Layers
    BY DEF Layers
  <2>4. QED
    BY <2>1, <2>2, <2>3, FullIsNat, LimitAssumption DEF LimitTypeOK
<1>1. LimitTypeOK'
  BY NextType DEF LimitNext, Spent
<1>2. \A t \in 0 .. MaxTime : t > now' => passed'[t] = 0
  BY <1>0 DEF Spent
<1>3. /\ Tokens("costly")' \in Nat /\ Tokens("costly")' <= Full("costly")
      /\ Tokens("costly")' <= Tokens("costly") + cap
      /\ Tokens("costly") \in Nat /\ Full("costly") \in Nat
  BY <1>0, TickTokens, TokensBounded, FullIsNat
<1>4. ASSUME NEW t \in 0 .. now'
      PROVE  passed'[t] * Window + Tokens("costly")' <= Inflow(t)'
  <2>1. Inflow(t)' = Full("costly") + (now + 1 - t) * cap
    BY <1>0 DEF Inflow, Full
  <2>2. CASE t = now'
    <3>1. passed'[t] = 0 /\ now + 1 - t = 0
      BY <1>0, <2>2 DEF Spent
    <3>2. passed'[t] * Window = 0 /\ (now + 1 - t) * cap = 0
      BY <1>0, <3>1
    <3>3. QED
      BY <1>3, <2>1, <3>2
  <2>3. CASE t # now'
    <3>1. t \in 0 .. now /\ passed'[t] = passed[t] /\ passed[t] \in Nat
      <4>1. t \in 0 .. now
        BY <1>0, <2>3
      <4>2. QED
        BY <1>0, <4>1, TypeFacts
    <3>2. (now + 1 - t) * cap = (now - t) * cap + cap
      <4>1. now - t \in Int /\ cap \in Int /\ now + 1 - t = (now - t) + 1
        BY <1>0, <3>1
      <4> DEFINE age == now - t
      <4>2. age \in Int /\ cap \in Int /\ 1 \in Int
        BY <4>1
      <4> HIDE DEF age, cap
      <4>3. (age + 1) * cap = age * cap + 1 * cap
        BY <4>2, Distribute, Zenon
      <4>4. 1 * cap = cap
        BY <4>2
      <4>5. now + 1 - t = age + 1
        BY <4>1 DEF age
      <4>6. QED
        BY <4>3, <4>4, <4>5 DEF age
    <3>3. passed[t] * Window + Tokens("costly") <= Inflow(t)
      BY <3>1 DEF Spent
    <3>4. passed[t] * Window \in Nat /\ (now - t) * cap \in Nat
      <4>1. now - t \in Nat
        BY <1>0, <3>1
      <4>2. QED
        BY <4>1, <3>1, <1>0, ProductIsNat
    <3>5. Inflow(t) = Full("costly") + (now - t) * cap
      BY DEF Inflow
    <3> DEFINE p == passed[t] * Window
               a == (now - t) * cap
    <3>6. /\ p + Tokens("costly") <= Full("costly") + a /\ p \in Nat /\ a \in Nat
          /\ Inflow(t)' = Full("costly") + (a + cap)
      BY <2>1, <3>2, <3>3, <3>4, <3>5
    <3>7. passed'[t] * Window = p
      BY <3>1
    <3> HIDE DEF cap, p, a
    <3>8. p + Tokens("costly")' <= Full("costly") + (a + cap)
      BY <1>0, <1>3, <3>6
    <3>9. QED
      BY <3>6, <3>7, <3>8
  <2>4. QED
    BY <2>2, <2>3
<1>5. QED
  BY <1>1, <1>2, <1>4 DEF Spent

(***************************************************************************)
(* The steps of a request: the bucket can only lose tokens, and a costly   *)
(* action gets through only for a whole one.                               *)
(***************************************************************************)
LEMMA AskSpent ==
  ASSUME Spent, NEW l \in Layers, Ask(l) \/ AskInVain(l)
  PROVE  Spent'
<1>0. /\ "costly" \in Layers /\ LimitTypeOK /\ now \in Nat /\ now \in 0 .. MaxTime
      /\ now' = now /\ passed \in [0 .. MaxTime -> Nat] /\ Window \in Nat \ {0}
  <2>1. LimitTypeOK
    BY DEF Spent
  <2>2. now' = now
    BY DEF Ask, AskInVain
  <2>3. QED
    BY <2>1, <2>2, TypeFacts
<1>1. LimitTypeOK'
  BY NextType DEF LimitNext, Spent
<1>2. Tokens("costly") \in Nat /\ Tokens("costly")' \in Nat
  <2>1. Tokens("costly") \in Nat
    BY <1>0, TokensBounded
  <2>2. CASE UNCHANGED bucket
    BY <2>1, <2>2, <1>0 DEF Tokens, Expired, Refill, Full
  <2>3. CASE Acquire(l)
    <3>1. Allowed(l) => Tokens(l) - Window \in Nat
      BY <1>0, TokensBounded DEF Allowed
    <3>2. QED
      BY <2>1, <2>3, <3>1, <1>0, AcquireTokens
  <2>4. QED
    BY <2>1, <2>2, <2>3 DEF Ask, AskInVain
<1>3. Tokens("costly")' <= Tokens("costly")
  <2>1. CASE Acquire(l)
    BY <2>1, <1>0, <1>2, AcquireTokens
  <2>2. CASE UNCHANGED bucket
    BY <2>2, <1>0, <1>2 DEF Tokens, Expired, Refill, Full
  <2>3. QED
    BY <2>1, <2>2 DEF Ask, AskInVain
<1>4. \A t \in 0 .. now : Inflow(t)' = Inflow(t) /\ Inflow(t) \in Nat
  BY <1>0, InflowIsNat DEF Inflow, Full
<1>5. CASE passed' = passed
  <2>1. \A t \in 0 .. MaxTime : t > now' => passed'[t] = 0
    BY <1>0, <1>5 DEF Spent
  <2>2. ASSUME NEW t \in 0 .. now
        PROVE  passed'[t] * Window + Tokens("costly")' <= Inflow(t)'
    <3>1. passed[t] * Window \in Nat /\ passed'[t] = passed[t]
      BY <1>0, <1>5, ProductIsNat, TypeFacts
    <3>2. passed[t] * Window + Tokens("costly") <= Inflow(t)
      BY DEF Spent
    <3>3. QED
      BY <1>2, <1>3, <1>4, <3>1, <3>2
  <2>3. QED
    BY <1>0, <1>1, <2>1, <2>2 DEF Spent
<1>6. CASE passed' # passed
  <2>1. l = "costly" /\ Ask(l) /\ Allowed(l) /\ Pass(l)
    BY <1>6 DEF Ask, AskInVain, Pass, Deny, FailsClosed
  <2>2. passed' = [t \in 0 .. MaxTime |-> IF t <= now THEN passed[t] + 1 ELSE passed[t]]
    BY <2>1 DEF Pass
  <2>3. Tokens("costly")' = Tokens("costly") - Window
    BY <2>1, <1>0, AcquireTokens DEF Ask
  <2>4. \A t \in 0 .. MaxTime : t > now' => passed'[t] = 0
    BY <1>0, <2>2 DEF Spent
  <2>5. ASSUME NEW t \in 0 .. now
        PROVE  passed'[t] * Window + Tokens("costly")' <= Inflow(t)'
    <3>1. passed'[t] = passed[t] + 1 /\ passed[t] \in Nat
      <4>1. t \in 0 .. MaxTime /\ passed[t] \in Nat /\ t <= now
        BY <1>0, TypeFacts
      <4>2. QED
        BY <2>2, <4>1
    <3>2. (passed[t] + 1) * Window = passed[t] * Window + Window
      BY <1>0, <3>1, Distribute
    <3>3. passed[t] * Window \in Nat
      BY <1>0, <3>1, ProductIsNat
    <3>4. passed[t] * Window + Tokens("costly") <= Inflow(t)
      BY DEF Spent
    <3>5. passed'[t] * Window = passed[t] * Window + Window
      BY <3>1, <3>2
    <3>6. QED
      BY <1>0, <1>2, <1>4, <2>3, <3>3, <3>4, <3>5
  <2>6. QED
    BY <1>0, <1>1, <2>4, <2>5 DEF Spent
<1>7. QED
  BY <1>5, <1>6

LEMMA NextSpent ==
  ASSUME Spent, [LimitNext]_limitVars
  PROVE  Spent'
<1>1. CASE UNCHANGED limitVars
  BY <1>1, NextType DEF limitVars, Spent, Tokens, Expired, Refill, Full, Inflow
<1>2. CASE LimitNext
  BY <1>2, TickSpent, AskSpent DEF LimitNext
<1>3. QED
  BY <1>1, <1>2

LEMMA SpentLimits ==
  ASSUME Spent
  PROVE  CostlyLimit
<1>1. "costly" \in Layers /\ LimitTypeOK
  BY DEF Layers, Spent
<1>2. Tokens("costly") \in Nat
  BY <1>1, TokensBounded
<1>3. ASSUME NEW t \in 0 .. now
      PROVE  passed[t] * Window <= Inflow(t)
  <2>1. passed[t] \in Nat /\ Window \in Nat
    BY <1>1, LimitAssumption DEF LimitTypeOK
  <2>2. passed[t] * Window \in Nat /\ Inflow(t) \in Nat
    BY <1>1, <2>1, ProductIsNat, InflowIsNat
  <2>3. passed[t] * Window + Tokens("costly") <= Inflow(t)
    BY DEF Spent
  <2>4. QED
    BY <1>2, <2>2, <2>3
<1>4. QED
  BY <1>3 DEF CostlyLimit, Inflow

(***************************************************************************)
(* However requests are spread over the ends of windows, idle times and    *)
(* outages of Redis: since any time, no more costly actions got through    *)
(* than a full bucket and what has flowed into it.                         *)
(***************************************************************************)
THEOREM CostlyLimited == LimitSpec => []CostlyLimit
<1>1. LimitInit => Spent
  BY InitSpent
<1>2. Spent /\ [LimitNext]_limitVars => Spent'
  BY NextSpent
<1>3. Spent => CostlyLimit
  BY SpentLimits
<1>4. QED
  BY <1>1, <1>2, <1>3, PTL DEF LimitSpec
=============================================================================
