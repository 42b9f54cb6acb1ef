------------------------------ MODULE Erasure ------------------------------
(***************************************************************************)
(* What deletion promises, whatever requests, workers and retries do       *)
(* underneath:                                                             *)
(*                                                                         *)
(*   - nothing is removed, object or row, that nobody asked to delete;     *)
(*   - what was asked for disappears from the database in one step, and    *)
(*     what is erased stays erased;                                        *)
(*   - by then every object that the erased rows named has been removed    *)
(*     from COS; only a PUT after that can bring one back.                 *)
(***************************************************************************)
CONSTANTS Assets, NoAsset, SourceOf, Account

VARIABLES rows,    \* per asset: "none", "live" or "erased"
          object,  \* "none", "stored", "wiped" or "rewritten"
          asked    \* targets of the deletions that were accepted

promiseVars == <<rows, object, asked>>

(***************************************************************************)
(* A photo takes with it what was made from it, and what was made of that. *)
(***************************************************************************)
MadeFrom(a) == IF a \in Assets THEN SourceOf[a] ELSE NoAsset

Closure(t) == IF t = Account THEN Assets
              ELSE {a \in Assets : t \in {a, MadeFrom(a), MadeFrom(MadeFrom(a))}}

Init ==
  /\ rows = [a \in Assets |-> "none"]
  /\ object = [a \in Assets |-> "none"]
  /\ asked = {}

(***************************************************************************)
(* A row appears, with its image or before it.                             *)
(***************************************************************************)
Add(a) ==
  /\ rows[a] = "none"
  /\ rows' = [rows EXCEPT ![a] = "live"]
  /\ object' \in {object, [object EXCEPT ![a] = "stored"]}
  /\ UNCHANGED asked

Put(a) ==
  /\ rows[a] # "none"
  /\ object' = [object EXCEPT ![a] = IF @ = "wiped" THEN "rewritten" ELSE "stored"]
  /\ object[a] # "rewritten"
  /\ UNCHANGED <<rows, asked>>

Ask(t) ==
  /\ asked' = asked \cup {t}
  /\ UNCHANGED <<rows, object>>

Wipe(a) ==
  /\ \E t \in asked : a \in Closure(t)
  /\ object' = [object EXCEPT ![a] = "wiped"]
  /\ UNCHANGED <<rows, asked>>

Erase(t) ==
  /\ t \in asked
  /\ \A a \in Closure(t) : rows[a] = "live" => object[a] # "stored"
  /\ rows' = [a \in Assets |-> IF a \in Closure(t) /\ rows[a] = "live"
                                 THEN "erased" ELSE rows[a]]
  /\ UNCHANGED <<object, asked>>

Next ==
  \/ \E a \in Assets : Add(a) \/ Put(a) \/ Wipe(a)
  \/ \E t \in Assets \cup {Account} : Ask(t) \/ Erase(t)

Spec == Init /\ [][Next]_promiseVars
=============================================================================
