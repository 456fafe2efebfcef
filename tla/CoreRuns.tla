------------------------------ MODULE CoreRuns ------------------------------
(***************************************************************************)
(* The legacy core service, the default engine, driven over WebSockets:    *)
(* run and abort, the tool loop with its abort checks, the map of run      *)
(* states and the set of detached aborts.  Frames of one socket are        *)
(* handled one after the other, so an abort waits behind the run that the  *)
(* same socket is executing.  Run ids are numbers of a counter that starts *)
(* over with the process, and agent.abort takes any id: one of a run that  *)
(* ended, one that the process before this one handed out, one that no run *)
(* has yet.                                                                *)
(*                                                                         *)
(* Abstracted: a run is a number of tool calls, the tool's result is a     *)
(* choice, the awaits of the gateway before and after the core's stream    *)
(* are part of StartRun and CloseRun.                                      *)
(***************************************************************************)
EXTENDS Naturals, Sequences, FiniteSets

CONSTANTS
    Sockets,
    RunSlots,     \* slots for agent.run requests
    Aborts,       \* slots for agent.abort requests
    MaxTools,     \* bound on the tool calls of a run
    MaxIds,       \* bound on the runs of one process
    MaxRestarts   \* bound on the restarts of the process

ASSUME CoreRunsAssumption ==
    /\ IsFiniteSet(RunSlots) /\ RunSlots \cap Aborts = {}
    /\ MaxTools \in Nat /\ MaxIds \in Nat /\ MaxRestarts \in Nat

VARIABLES
    inbox,       \* the frames of a socket, the first one in progress
    pc,          \* where each run stands
    id,          \* the number in its runId
    left,        \* directives of its input still to be executed
    outcome,     \* the terminal event its tool loop has produced
    names,       \* the number in the runId an abort names, 0 between aborts
    process,     \* restarts of the gateway so far
    coreRunCounter,
    runStates,   \* "none", or the state of a run in the map: "live", "aborted"
    detached,    \* detachedAborts
    abortedRuns, \* history: the runs of this process that failed with ABORTED
    asked,       \* history: the ids that aborts have named in this process
    ahead        \* history: those of them that no run had when they were named

runVars == <<pc, id, left, outcome>>
stateVars == <<coreRunCounter, runStates, detached>>
historyVars == <<abortedRuns, asked, ahead>>
coreVars == <<inbox, runVars, names, process, stateVars, historyVars>>

Ids == 1..MaxIds
Steps == {"idle", "queued", "accepting", "looping", "tool", "yielding"}
Outcomes == {"none", "completed", "failed", "aborted"}

InCore(r) == pc[r] \in {"accepting", "looping", "tool", "yielding"}
Deciding(r) == pc[r] \in {"accepting", "looping", "tool"}
Flagged(r) == runStates[id[r]] = "aborted"
AtHead(x, c) == inbox[c] # <<>> /\ Head(inbox[c]) = x
Queued == {r \in RunSlots : pc[r] = "queued"}

\* The type of every variable.
CoreTypeOK ==
    /\ inbox \in [Sockets -> Seq(RunSlots \cup Aborts)]
    /\ pc \in [RunSlots -> Steps]
    /\ id \in [RunSlots -> 0..MaxIds]
    /\ left \in [RunSlots -> 0..MaxTools]
    /\ outcome \in [RunSlots -> Outcomes]
    /\ names \in [Aborts -> 0..MaxIds]
    /\ process \in 0..MaxRestarts
    /\ coreRunCounter \in 0..MaxIds
    /\ runStates \in [Ids -> {"none", "live", "aborted"}]
    /\ detached \subseteq Ids
    /\ \A h \in {abortedRuns, asked, ahead} : h \subseteq Ids

CoreInit ==
    /\ inbox = [c \in Sockets |-> <<>>]
    /\ pc = [r \in RunSlots |-> "idle"]
    /\ id = [r \in RunSlots |-> 0]
    /\ left = [r \in RunSlots |-> 0]
    /\ outcome = [r \in RunSlots |-> "none"]
    /\ names = [x \in Aborts |-> 0]
    /\ process = 0
    /\ coreRunCounter = 0
    /\ runStates = [i \in Ids |-> "none"]
    /\ detached = {}
    /\ abortedRuns = {} /\ asked = {} /\ ahead = {}

-----------------------------------------------------------------------------
Go(r, step) == pc' = [pc EXCEPT ![r] = step]
Enqueue(c, x) == inbox' = [inbox EXCEPT ![c] = Append(@, x)]
Dequeue(c) == inbox' = [inbox EXCEPT ![c] = Tail(@)]

SendRun(r, c) ==
    /\ pc[r] = "idle"
    /\ coreRunCounter + Cardinality(Queued) < MaxIds
    /\ Go(r, "queued")
    /\ Enqueue(c, r)
    /\ UNCHANGED <<id, left, outcome, names, process, stateVars, historyVars>>

\* A client aborts a run by its id: nothing checks that a run has it, had it
\* or was the client's.
SendAbort(x, c, n) ==
    /\ names[x] = 0
    /\ names' = [names EXCEPT ![x] = n]
    /\ Enqueue(c, x)
    /\ asked' = asked \cup {n}
    /\ ahead' = IF n > coreRunCounter THEN ahead \cup {n} ELSE ahead
    /\ UNCHANGED <<runVars, process, stateVars, abortedRuns>>

\* createRunState: a run that was aborted before it started is born aborted.
StartRun(r, c) ==
    /\ pc[r] = "queued"
    /\ AtHead(r, c)
    /\ LET n == coreRunCounter + 1
       IN  /\ coreRunCounter' = n
           /\ id' = [id EXCEPT ![r] = n]
           /\ runStates' = [runStates EXCEPT ![n] =
                              IF @ # "none" THEN @
                              ELSE IF n \in detached THEN "aborted" ELSE "live"]
           /\ detached' = IF runStates[n] # "none" THEN detached ELSE detached \ {n}
    /\ Go(r, "accepting")
    /\ \E n \in 0..MaxTools : left' = [left EXCEPT ![r] = n]
    /\ UNCHANGED <<inbox, outcome, names, process, historyVars>>

\* The tool loop has produced its terminal event; the events it collected are
\* only yielded from now on.
Decide(r, o) ==
    /\ Go(r, "yielding")
    /\ outcome' = [outcome EXCEPT ![r] = o]
    /\ abortedRuns' = IF o = "aborted" THEN abortedRuns \cup {id[r]} ELSE abortedRuns
    /\ UNCHANGED <<inbox, id, left, names, process, stateVars, asked, ahead>>

\* "accepted" is emitted; an input that does not parse fails the run.
AcceptRun(r) ==
    /\ pc[r] = "accepting"
    /\ \/ Decide(r, "failed")
       \/ /\ Go(r, "looping")
          /\ UNCHANGED <<inbox, id, left, outcome, names, process, stateVars, historyVars>>

StartTool(r) ==
    /\ pc[r] = "looping" /\ left[r] > 0
    /\ ~Flagged(r)
    /\ Go(r, "tool")
    /\ UNCHANGED <<inbox, id, left, outcome, names, process, stateVars, historyVars>>

\* The executor throws, the run was aborted meanwhile, the result is not ok,
\* or the loop goes on.
FinishTool(r) ==
    /\ pc[r] = "tool"
    /\ \/ Decide(r, "failed")
       \/ Flagged(r) /\ Decide(r, "aborted")
       \/ /\ ~Flagged(r)
          /\ Go(r, "looping")
          /\ left' = [left EXCEPT ![r] = @ - 1]
          /\ UNCHANGED <<inbox, id, outcome, names, process, stateVars, historyVars>>

\* The checks before a directive and after the last one.
StopAborted(r) ==
    /\ pc[r] = "looping"
    /\ Flagged(r)
    /\ Decide(r, "aborted")

\* Mutation: the check after the last directive is missing.
CompleteRunUnchecked(r) ==
    /\ pc[r] = "looping" /\ left[r] = 0
    /\ Decide(r, "completed")

CompleteRun(r) ==
    /\ pc[r] = "looping" /\ left[r] = 0
    /\ ~Flagged(r)
    /\ Decide(r, "completed")

\* Mutation: the stream ends without its finally block.
CloseRunKeepingState(r, c) ==
    /\ pc[r] = "yielding"
    /\ AtHead(r, c)
    /\ Dequeue(c)
    /\ Go(r, "idle")
    /\ outcome' = [outcome EXCEPT ![r] = "none"]
    /\ left' = [left EXCEPT ![r] = 0]
    /\ UNCHANGED <<id, names, process, stateVars, historyVars>>

\* The stream ends: the finally block, then the reply and the next frame.
CloseRun(r, c) ==
    /\ pc[r] = "yielding"
    /\ AtHead(r, c)
    /\ Dequeue(c)
    /\ Go(r, "idle")
    /\ outcome' = [outcome EXCEPT ![r] = "none"]
    /\ left' = [left EXCEPT ![r] = 0]
    /\ runStates' = [runStates EXCEPT ![id[r]] = "none"]
    /\ UNCHANGED <<id, names, process, coreRunCounter, detached, historyVars>>

\* Mutation: the run in progress is flagged, whichever it is.
HandleAbortOfAny(x, c) ==
    /\ AtHead(x, c)
    /\ LET n == names[x]
       IN  IF \E i \in Ids : runStates[i] # "none"
           THEN /\ \E i \in Ids : /\ runStates[i] # "none"
                                  /\ runStates' = [runStates EXCEPT ![i] = "aborted"]
                /\ UNCHANGED detached
           ELSE /\ detached' = detached \cup {n}
                /\ UNCHANGED runStates
    /\ Dequeue(c)
    /\ names' = [names EXCEPT ![x] = 0]
    /\ UNCHANGED <<runVars, process, coreRunCounter, historyVars>>

\* Mutation: the abort of a run that is not in the map is put off.
HandleAbortLater(x, c) ==
    /\ AtHead(x, c)
    /\ LET n == names[x]
       IN  IF runStates[n] # "none"
           THEN /\ runStates' = [runStates EXCEPT ![n] = "aborted"]
                /\ names' = [names EXCEPT ![x] = 0]
                /\ Dequeue(c)
           ELSE /\ inbox' = [inbox EXCEPT ![c] = Append(Tail(@), x)]
                /\ UNCHANGED <<runStates, names>>
    /\ UNCHANGED <<runVars, process, coreRunCounter, detached, historyVars>>

\* A run in the map is flagged, any other id is remembered; the answer is
\* "aborted" in both cases.
HandleAbort(x, c) ==
    /\ AtHead(x, c)
    /\ LET n == names[x]
       IN  IF runStates[n] # "none"
           THEN /\ runStates' = [runStates EXCEPT ![n] = "aborted"]
                /\ UNCHANGED detached
           ELSE /\ detached' = detached \cup {n}
                /\ UNCHANGED runStates
    /\ Dequeue(c)
    /\ names' = [names EXCEPT ![x] = 0]
    /\ UNCHANGED <<runVars, process, coreRunCounter, historyVars>>

\* The process ends and a new one starts: sockets, states and counter are gone.
Restart ==
    /\ process < MaxRestarts
    /\ process' = process + 1
    /\ inbox' = [c \in Sockets |-> <<>>]
    /\ pc' = [r \in RunSlots |-> "idle"]
    /\ id' = [r \in RunSlots |-> 0]
    /\ left' = [r \in RunSlots |-> 0]
    /\ outcome' = [r \in RunSlots |-> "none"]
    /\ names' = [x \in Aborts |-> 0]
    /\ coreRunCounter' = 0
    /\ runStates' = [i \in Ids |-> "none"]
    /\ detached' = {}
    /\ abortedRuns' = {} /\ asked' = {} /\ ahead' = {}

RunStep(r) ==
    \/ \E c \in Sockets : StartRun(r, c) \/ CloseRun(r, c)
    \/ AcceptRun(r) \/ StartTool(r) \/ FinishTool(r) \/ StopAborted(r) \/ CompleteRun(r)

AbortStep(x) == \E c \in Sockets : HandleAbort(x, c)

CoreNext ==
    \/ \E r \in RunSlots :
         \/ \E c \in Sockets : SendRun(r, c)
         \/ RunStep(r)
    \/ \E x \in Aborts :
         \/ \E c \in Sockets, n \in Ids : SendAbort(x, c, n)
         \/ AbortStep(x)
    \/ Restart

CoreSpec == CoreInit /\ [][CoreNext]_coreVars

\* The event loop resumes settled awaits, and every tool call ends (the
\* executors have timeouts).
FairCoreSpec ==
    /\ CoreSpec
    /\ \A r \in RunSlots : WF_coreVars(RunStep(r))
    /\ \A x \in Aborts : WF_coreVars(AbortStep(x))
-----------------------------------------------------------------------------
\* Once a run is flagged it starts no further tool and does not complete,
\* wherever in its loop the abort finds it.
AbortStopsRun ==
    [][\A r \in RunSlots :
         Deciding(r) /\ Flagged(r) =>
             /\ pc'[r] = "tool" => pc[r] = "tool"
             /\ outcome'[r] # "completed"]_coreVars

\* A run fails with ABORTED only when an abort that this process received
\* named its id.
AbortHitsItsId == abortedRuns \subseteq asked

\* The map of run states holds exactly the runs in the core: nothing stays
\* behind when a run ends, however it ended.
StatesAreOfRuns ==
    \A i \in Ids : runStates[i] # "none" <=> \E r \in RunSlots : InCore(r) /\ id[r] = i

\* A detached abort is of a run that ended, and meets no other since an id is
\* handed out once, unless the id was named before any run had it.  Either
\* kind is remembered until a run takes it away or the process ends.
DetachedAreOver ==
    \A i \in detached :
        /\ runStates[i] = "none"
        /\ i <= coreRunCounter \/ i \in ahead

\* What the core keeps per run goes with the run, and what it remembers of
\* aborts meets no run but one whose id was named ahead of it.
NothingStaysBehind == StatesAreOfRuns /\ DetachedAreOver

CoreRunEnds == \A r \in RunSlots : pc[r] = "queued" ~> pc[r] = "idle"
AbortIsAnswered == \A x \in Aborts : names[x] # 0 ~> names[x] = 0

\* Every run ends and every abort is answered, although they wait for each
\* other in the inbox of a socket.
FramesAreAnswered == CoreRunEnds /\ AbortIsAnswered
=============================================================================
