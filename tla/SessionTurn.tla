---------------------------- MODULE SessionTurn -----------------------------
(***************************************************************************)
(* What the gateway promises about turns: a session is held by at most one *)
(* run at a time, a run chooses its execution target before it takes the   *)
(* session and keeps it, and its tools execute there and nowhere else.     *)
(***************************************************************************)
CONSTANTS Runs, Sessions, Kinds, NoRun, NoKind

VARIABLES
    holder,  \* the run whose turn a session is executing
    target,  \* the kind of target a run has selected
    ranOn    \* the kinds its tools have executed on

vars == <<holder, target, ranOn>>

Holds(r) == \E s \in Sessions : holder[s] = r
Fresh(r) == target' = [target EXCEPT ![r] = NoKind] /\ ranOn' = [ranOn EXCEPT ![r] = {}]

Init ==
    /\ holder = [s \in Sessions |-> NoRun]
    /\ target = [r \in Runs |-> NoKind]
    /\ ranOn = [r \in Runs |-> {}]

Select(r) ==
    /\ ~Holds(r)
    /\ target[r] = NoKind
    /\ \E k \in Kinds : target' = [target EXCEPT ![r] = k]
    /\ UNCHANGED <<holder, ranOn>>

Take(r, s) ==
    /\ holder[s] = NoRun
    /\ ~Holds(r)
    /\ target[r] # NoKind
    /\ ranOn[r] = {}
    /\ holder' = [holder EXCEPT ![s] = r]
    /\ UNCHANGED <<target, ranOn>>

UseTool(r) ==
    /\ Holds(r)
    /\ ranOn' = [ranOn EXCEPT ![r] = @ \cup {target[r]}]
    /\ UNCHANGED <<holder, target>>

\* The turn ends; its outcome is still to be recorded.
Release(r, s) ==
    /\ holder[s] = r
    /\ holder' = [holder EXCEPT ![s] = NoRun]
    /\ UNCHANGED <<target, ranOn>>

\* The request is answered, refused or has failed.
Forget(r) ==
    /\ ~Holds(r)
    /\ Fresh(r)
    /\ UNCHANGED holder

\* The turn throws.
Abandon(r, s) ==
    /\ holder[s] = r
    /\ holder' = [holder EXCEPT ![s] = NoRun]
    /\ Fresh(r)

Next ==
    \E r \in Runs :
        \/ Select(r) \/ UseTool(r) \/ Forget(r)
        \/ \E s \in Sessions : Take(r, s) \/ Release(r, s) \/ Abandon(r, s)

Spec == Init /\ [][Next]_vars
=============================================================================
