----------------------------- MODULE OncePerKey -----------------------------
(***************************************************************************)
(* What the idempotency keys promise to a client: a key gets one outcome,  *)
(* the first request that succeeds decides it, and every later success     *)
(* under the key is that outcome, until the key is forgotten.              *)
(***************************************************************************)
EXTENDS Naturals

CONSTANTS Keys, Outcomes, NoRecord

VARIABLES
    outcome,  \* the outcome of a key, or NoRecord
    answers,  \* the successes that clients have seen, as <<key, outcome>>
    forgotten \* how often a key has been forgotten

vars == <<outcome, answers, forgotten>>

Init ==
    /\ outcome = [k \in Keys |-> NoRecord]
    /\ answers = {}
    /\ forgotten = 0

Decide(k) ==
    /\ outcome[k] = NoRecord
    /\ outcome'[k] \in Outcomes
    /\ outcome' = [outcome EXCEPT ![k] = outcome'[k]]
    /\ answers' = answers \cup {<<k, outcome'[k]>>}
    /\ UNCHANGED forgotten

Repeat(k) ==
    /\ outcome[k] # NoRecord
    /\ answers' = answers \cup {<<k, outcome[k]>>}
    /\ UNCHANGED <<outcome, forgotten>>

Forget(k) ==
    /\ outcome[k] # NoRecord
    /\ outcome' = [outcome EXCEPT ![k] = NoRecord]
    /\ forgotten' = forgotten + 1
    /\ UNCHANGED answers

Next == \E k \in Keys : Decide(k) \/ Repeat(k) \/ Forget(k)

Spec == Init /\ [][Next]_vars
=============================================================================
