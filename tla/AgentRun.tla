------------------------------ MODULE AgentRun ------------------------------
(***************************************************************************)
(* The turn lifecycle of the gateway: handleAgentRun, from the busy check  *)
(* to the reply, interleaved with runtime.setMode at every await, over the *)
(* state the two handlers share.  A connection keeps its own running set   *)
(* and queue of mode changes; the router keeps one map from session to the *)
(* execution target and tool scope of "the" run of that session; the       *)
(* session repository keeps the stored row.                                *)
(*                                                                         *)
(* Each action below is the code between two awaits.  Abstracted: which    *)
(* execution target is found and whether the budget allows the run (a      *)
(* choice), the row of a session (its runtimeMode), the core's events (a   *)
(* turn makes tool calls and ends).                                        *)
(***************************************************************************)
EXTENDS Naturals

CONSTANTS
    Conns,            \* client connections, one ConnectionState each
    WsConns,          \* those served by handleUpgrade, one request at a time
    Sessions,         \* session ids
    ForeignSessions,  \* stored sessions that belong to a user other than the callers
    Runs,             \* agent.run requests
    ModeReqs,         \* runtime.setMode requests
    Routes,           \* the <<connection, session>> pairs that clients use
    MaxFaults,        \* bound on the awaits that reject (storage, tool or model errors)
    NoRun

ASSUME AgentRunAssumption ==
    /\ WsConns \subseteq Conns
    /\ ForeignSessions \subseteq Sessions
    /\ Routes \subseteq Conns \X Sessions
    /\ Runs \cap ModeReqs = {}
    /\ NoRun \notin Runs
    /\ MaxFaults \in Nat

VARIABLES
    pc,       \* where each request stands
    conn,     \* the connection a request arrived on
    sess,     \* the session a request names
    ask,      \* its runtimeMode parameter
    target,   \* handleAgentRun's selectedTarget: the kind of the chosen target
    view,     \* handleAgentRun's local copy of the session row
    taken,    \* the queued mode change a finished turn is writing
    running,  \* ConnectionState.runningSessionIds
    queued,   \* ConnectionState.queuedModeChanges
    slot,     \* sessionExecutionTargets and sessionToolScopes: whose entry is stored
    met,      \* history: executing runs that another turn of their session overlapped
    mode,     \* the runtimeMode column of the stored sessions
    faults,   \* rejected awaits so far
    ranOn,    \* history: the kinds of target each run's tools executed on
    intent    \* history: the last mode the gateway accepted for a session

requestVars == <<conn, sess, ask>>
localVars == <<target, view, taken>>
sharedVars == <<running, queued, slot, met>>
historyVars == <<ranOn, intent>>
vars == <<pc, requestVars, localVars, sharedVars, mode, faults, historyVars>>

Calls == Runs \cup ModeReqs
Modes == {"local", "cloud"}
Kinds == {"local-host", "docker-runner"}
NoMode == "none"
NoKind == "none"
MaybeMode == Modes \cup {NoMode}

\* A request that is not in flight has been answered or is yet to come.
Idle == "idle"
Steps == {"targeting", "gating", "loading", "rechecking", "creating", "moding",
          "preparing", "saving", "entering", "running", "draining", "setting",
          "replying"}

InFlight(x) == pc[x] \in Steps
Executing(r, s) == pc[r] = "running" /\ sess[r] = s

Targeted == Steps \ {"targeting", "setting"}
Viewing == {"creating", "moding", "preparing", "saving"}

\* Which locals of handleAgentRun are set at which point of it.
StageOK(r) ==
    /\ pc[r] # "setting"
    /\ pc[r] \in Targeted => target[r] \in Kinds
    /\ pc[r] \in Viewing => view[r] \in Modes
    /\ pc[r] = "draining" => taken[r] \in Modes
    /\ pc[r] \in Viewing \ {"creating"} => mode[sess[r]] \in Modes

ModeStageOK(x) ==
    InFlight(x) => pc[x] \in {"setting", "replying"} /\ ask[x] \in Modes

VarsTyped ==
    /\ pc \in [Calls -> Steps \cup {Idle}]
    /\ conn \in [Calls -> Conns]
    /\ sess \in [Calls -> Sessions]
    /\ ask \in [Calls -> MaybeMode]
    /\ target \in [Runs -> Kinds \cup {NoKind}]
    /\ view \in [Runs -> MaybeMode]
    /\ taken \in [Runs -> MaybeMode]
    /\ running \in [Conns -> SUBSET Sessions]
    /\ queued \in [Conns -> [Sessions -> MaybeMode]]
    /\ slot \in [Sessions -> Runs \cup {NoRun}]
    /\ met \subseteq Runs
    /\ mode \in [Sessions -> MaybeMode]
    /\ faults \in Nat
    /\ ranOn \in [Runs -> SUBSET Kinds]
    /\ intent \in [Sessions -> MaybeMode]

\* The type of every variable, and that a mode is only written to a row that
\* exists, from a local that has been set.
TypeOK ==
    /\ VarsTyped
    /\ \A r \in Runs : StageOK(r)
    /\ \A x \in ModeReqs : ModeStageOK(x)

\* A session may already be stored when the gateway starts; a foreign one is.
Init ==
    /\ pc = [x \in Calls |-> Idle]
    /\ conn \in {[x \in Calls |-> c] : c \in Conns}
    /\ sess \in {[x \in Calls |-> s] : s \in Sessions}
    /\ ask = [x \in Calls |-> NoMode]
    /\ target = [r \in Runs |-> NoKind]
    /\ view = [r \in Runs |-> NoMode]
    /\ taken = [r \in Runs |-> NoMode]
    /\ running = [c \in Conns |-> {}]
    /\ queued = [c \in Conns |-> [s \in Sessions |-> NoMode]]
    /\ slot = [s \in Sessions |-> NoRun]
    /\ met = {}
    /\ mode \in [Sessions -> MaybeMode]
    /\ \A s \in ForeignSessions : mode[s] # NoMode
    /\ faults = 0
    /\ ranOn = [r \in Runs |-> {}]
    /\ intent = mode

-----------------------------------------------------------------------------
\* Mutation: the frames of a socket are handled as they come.
MayArriveUnchained(c, s) == <<c, s>> \in Routes

\* handleUpgrade chains the frames of one socket: the next request is handled
\* when the previous one has been answered.  HTTP requests that name the same
\* connection are handled as they come.
MayArrive(c, s) ==
    /\ <<c, s>> \in Routes
    /\ c \in WsConns => \A y \in Calls : conn[y] = c => ~InFlight(y)

Go(x, step) == pc' = [pc EXCEPT ![x] = step]

\* A handler returns or throws: its locals are gone.
FinishRun(r) ==
    /\ Go(r, Idle)
    /\ ask' = [ask EXCEPT ![r] = NoMode]
    /\ target' = [target EXCEPT ![r] = NoKind]
    /\ view' = [view EXCEPT ![r] = NoMode]
    /\ taken' = [taken EXCEPT ![r] = NoMode]
    /\ ranOn' = [ranOn EXCEPT ![r] = {}]
    /\ UNCHANGED <<conn, sess>>

FinishSetMode(x) ==
    /\ Go(x, Idle)
    /\ ask' = [ask EXCEPT ![x] = NoMode]
    /\ UNCHANGED <<conn, sess, localVars, ranOn>>

Arrive(x, c, s, m) ==
    /\ pc[x] = Idle
    /\ MayArrive(c, s)
    /\ conn' = [conn EXCEPT ![x] = c]
    /\ sess' = [sess EXCEPT ![x] = s]
    /\ ask' = [ask EXCEPT ![x] = m]

\* The busy check: synchronous with the arrival, long before the session is
\* put into the running set.  A busy session refuses (SESSION_BUSY) without
\* any effect, a stuttering step.
StartRun(r, c, s, m) ==
    /\ Arrive(r, c, s, m)
    /\ s \notin running[c]
    /\ Go(r, "targeting")
    /\ UNCHANGED <<localVars, sharedVars, mode, faults, historyVars>>

\* Not found, disabled, or unreachable under the policy "deny": the request is
\* refused.  An unreachable docker-runner under "fallback_local" is replaced
\* by a local target, the choice "local-host".
SelectTarget(r) ==
    /\ pc[r] = "targeting"
    /\ \/ FinishRun(r)
       \/ /\ Go(r, "gating")
          /\ \E k \in Kinds : target' = [target EXCEPT ![r] = k]
          /\ UNCHANGED <<requestVars, view, taken, ranOn>>
    /\ UNCHANGED <<sharedVars, mode, faults, intent>>

CheckBudget(r) ==
    /\ pc[r] = "gating"
    /\ \/ FinishRun(r)
       \/ /\ Go(r, "loading")
          /\ UNCHANGED <<requestVars, localVars, ranOn>>
    /\ UNCHANGED <<sharedVars, mode, faults, intent>>

\* The first lookup is restricted to the caller's own sessions.
LoadSession(r) ==
    /\ pc[r] = "loading"
    /\ IF mode[sess[r]] = NoMode \/ sess[r] \in ForeignSessions
       THEN /\ Go(r, "rechecking")
            /\ UNCHANGED view
       ELSE /\ Go(r, "moding")
            /\ view' = [view EXCEPT ![r] = mode[sess[r]]]
    /\ UNCHANGED <<requestVars, target, taken, sharedVars, mode, faults, historyVars>>

\* The second lookup is not: whatever it finds is taken for someone else's.
RecheckSession(r) ==
    /\ pc[r] = "rechecking"
    /\ IF mode[sess[r]] # NoMode
       THEN FinishRun(r)
       ELSE /\ Go(r, "creating")
            /\ view' = [view EXCEPT ![r] = IF ask[r] = NoMode THEN "local" ELSE ask[r]]
            /\ UNCHANGED <<requestVars, target, taken, ranOn>>
    /\ UNCHANGED <<sharedVars, mode, faults, intent>>

CreateSession(r) ==
    /\ pc[r] = "creating"
    /\ Go(r, "moding")
    /\ mode' = [mode EXCEPT ![sess[r]] = view[r]]
    /\ intent' = [intent EXCEPT ![sess[r]] = view[r]]
    /\ UNCHANGED <<requestVars, localVars, sharedVars, faults, ranOn>>

\* A run that names a mode other than the row's writes it first.
ApplyAskedMode(r) ==
    /\ pc[r] = "moding"
    /\ Go(r, "preparing")
    /\ IF ask[r] \notin {NoMode, view[r]}
       THEN /\ mode' = [mode EXCEPT ![sess[r]] = ask[r]]
            /\ view' = [view EXCEPT ![r] = ask[r]]
            /\ intent' = [intent EXCEPT ![sess[r]] = ask[r]]
       ELSE UNCHANGED <<mode, view, intent>>
    /\ UNCHANGED <<requestVars, target, taken, sharedVars, faults, ranOn>>

\* prepareSessionForRun writes the usage columns and returns the row it reads back.
PrepareSession(r) ==
    /\ pc[r] = "preparing"
    /\ Go(r, "saving")
    /\ view' = [view EXCEPT ![r] = mode[sess[r]]]
    /\ UNCHANGED <<requestVars, target, taken, sharedVars, mode, faults, historyVars>>

\* When the input changes the title or the preview, the whole row is written
\* back from the copy read before the transcript was appended.
SaveInput(r) ==
    /\ pc[r] = "saving"
    /\ Go(r, "entering")
    /\ \/ mode' = [mode EXCEPT ![sess[r]] = view[r]]
       \/ UNCHANGED mode
    /\ UNCHANGED <<requestVars, localVars, sharedVars, faults, historyVars>>

\* The runs whose turns of a session overlap when one more run enters.
Meeting(r) ==
    LET others == {q \in Runs : Executing(q, sess[r])}
    IN  IF others = {} THEN {} ELSE others \cup {r}

\* Only here does the session become busy, and its tools get their target.
EnterTurn(r) ==
    /\ pc[r] = "entering"
    /\ Go(r, "running")
    /\ running' = [running EXCEPT ![conn[r]] = @ \cup {sess[r]}]
    /\ slot' = [slot EXCEPT ![sess[r]] = r]
    /\ met' = met \cup Meeting(r)
    /\ UNCHANGED <<requestVars, localVars, queued, mode, faults, historyVars>>

\* Mutation: the docker-runner is never used.
ToolPlaceLocal(s) == "local-host"

\* createExecutionTargetToolExecutor looks the target up by session id and
\* executes locally when it finds none.
ToolPlace(s) == IF slot[s] = NoRun THEN "local-host" ELSE target[slot[s]]

CallTool(r) ==
    /\ pc[r] = "running"
    /\ ranOn' = [ranOn EXCEPT ![r] = @ \cup {ToolPlace(sess[r])}]
    /\ UNCHANGED <<pc, requestVars, localVars, sharedVars, mode, faults, intent>>

\* Mutation: the finally block forgets the session maps.
LeaveKeepingTarget(r) ==
    /\ running' = [running EXCEPT ![conn[r]] = @ \ {sess[r]}]
    /\ met' = met \ {r}
    /\ UNCHANGED slot

\* The finally block of the core loop.
LeaveTurn(r) ==
    /\ running' = [running EXCEPT ![conn[r]] = @ \ {sess[r]}]
    /\ slot' = [slot EXCEPT ![sess[r]] = NoRun]
    /\ met' = met \ {r}

\* Mutation: the queued change is read and not deleted.
EndKeepingQueue(r) ==
    /\ pc[r] = "running"
    /\ LeaveTurn(r)
    /\ LET q == queued[conn[r]][sess[r]]
       IN  /\ taken' = [taken EXCEPT ![r] = q]
           /\ Go(r, IF q = NoMode THEN "replying" ELSE "draining")
    /\ UNCHANGED <<requestVars, target, view, queued, mode, faults, historyVars>>

\* The core's event stream ends; the queued change is taken in the same tick.
EndTurn(r) ==
    /\ pc[r] = "running"
    /\ LeaveTurn(r)
    /\ LET q == queued[conn[r]][sess[r]]
       IN  /\ taken' = [taken EXCEPT ![r] = q]
           /\ Go(r, IF q = NoMode THEN "replying" ELSE "draining")
    /\ queued' = [queued EXCEPT ![conn[r]][sess[r]] = NoMode]
    /\ UNCHANGED <<requestVars, target, view, mode, faults, historyVars>>

ApplyQueuedMode(r) ==
    /\ pc[r] = "draining"
    /\ Go(r, "replying")
    /\ mode' = [mode EXCEPT ![sess[r]] = taken[r]]
    /\ UNCHANGED <<requestVars, localVars, sharedVars, faults, historyVars>>

-----------------------------------------------------------------------------
\* runtime.setMode on a session this connection has marked busy is queued.
StartSetMode(x, c, s, m) ==
    /\ Arrive(x, c, s, m)
    /\ IF s \in running[c]
       THEN /\ queued' = [queued EXCEPT ![c][s] = m]
            /\ intent' = [intent EXCEPT ![s] = m]
            /\ Go(x, "replying")
       ELSE /\ Go(x, "setting")
            /\ UNCHANGED <<queued, intent>>
    /\ UNCHANGED <<localVars, running, slot, met, mode, faults, ranOn>>

\* Otherwise the row is written, and the request refused when there is none
\* in the caller's scope.
ApplySetMode(x) ==
    /\ pc[x] = "setting"
    /\ IF mode[sess[x]] = NoMode \/ sess[x] \in ForeignSessions
       THEN /\ FinishSetMode(x)
            /\ UNCHANGED <<mode, intent>>
       ELSE /\ Go(x, "replying")
            /\ mode' = [mode EXCEPT ![sess[x]] = ask[x]]
            /\ intent' = [intent EXCEPT ![sess[x]] = ask[x]]
            /\ UNCHANGED <<requestVars, localVars, ranOn>>
    /\ UNCHANGED <<sharedVars, faults>>

-----------------------------------------------------------------------------
\* Metrics, budget, audit and transcript are written, then the reply is sent.
ReplyToRun(r) ==
    /\ pc[r] = "replying"
    /\ FinishRun(r)
    /\ UNCHANGED <<sharedVars, mode, faults, intent>>

ReplyToSetMode(x) ==
    /\ pc[x] = "replying"
    /\ FinishSetMode(x)
    /\ UNCHANGED <<sharedVars, mode, faults, intent>>

\* Mutation: the core loop has no finally block.
FailWithoutFinally(r) ==
    /\ InFlight(r)
    /\ faults < MaxFaults
    /\ faults' = faults + 1
    /\ FinishRun(r)
    /\ UNCHANGED <<sharedVars, mode, intent>>

\* Mutation: the finally block is around the whole handler.
FailClearingSession(r) ==
    /\ InFlight(r)
    /\ faults < MaxFaults
    /\ faults' = faults + 1
    /\ LeaveTurn(r)
    /\ FinishRun(r)
    /\ UNCHANGED <<queued, mode, intent>>

\* An await rejects.  Only the core loop has a finally block; everywhere else
\* the handler just stops.
FailRun(r) ==
    /\ InFlight(r)
    /\ faults < MaxFaults
    /\ faults' = faults + 1
    /\ IF pc[r] = "running" THEN LeaveTurn(r) ELSE UNCHANGED <<running, slot, met>>
    /\ FinishRun(r)
    /\ UNCHANGED <<queued, mode, intent>>

FailSetMode(x) ==
    /\ InFlight(x)
    /\ faults < MaxFaults
    /\ faults' = faults + 1
    /\ FinishSetMode(x)
    /\ UNCHANGED <<sharedVars, mode, intent>>

RunStep(r) ==
    \/ SelectTarget(r) \/ CheckBudget(r) \/ LoadSession(r) \/ RecheckSession(r)
    \/ CreateSession(r) \/ ApplyAskedMode(r) \/ PrepareSession(r) \/ SaveInput(r)
    \/ EnterTurn(r) \/ EndTurn(r) \/ ApplyQueuedMode(r) \/ ReplyToRun(r)

ModeStep(x) == ApplySetMode(x) \/ ReplyToSetMode(x)

Next ==
    \/ \E r \in Runs :
         \/ \E c \in Conns, s \in Sessions, m \in MaybeMode : StartRun(r, c, s, m)
         \/ RunStep(r)
         \/ CallTool(r)
         \/ FailRun(r)
    \/ \E x \in ModeReqs :
         \/ \E c \in Conns, s \in Sessions, m \in Modes : StartSetMode(x, c, s, m)
         \/ ModeStep(x)
         \/ FailSetMode(x)

Spec == Init /\ [][Next]_vars

\* The event loop resumes every settled await, and the core's tool loop and
\* model calls are bounded; clients need not send anything.
Fairness ==
    /\ \A r \in Runs : WF_vars(RunStep(r))
    /\ \A x \in ModeReqs : WF_vars(ModeStep(x))

FairSpec == Spec /\ Fairness
-----------------------------------------------------------------------------
\* Requests for one session are handled one after the other: every session is
\* used from one connection, and that connection is a WebSocket.
SerialAccess ==
    /\ Conns \subseteq WsConns
    /\ \A c, d \in Conns, s \in Sessions : <<c, s>> \in Routes /\ <<d, s>> \in Routes => c = d

\* A session marked busy on a connection has a turn of that connection, also
\* after turns that overlapped or threw: SESSION_BUSY is never answered for an
\* idle session.
BusyMarkerHasTurn ==
    \A c \in Conns : \A s \in running[c] : \E r \in Runs : Executing(r, s) /\ conn[r] = c

\* The target and tool scope stored for a session are those of a turn it is
\* executing, so no tool runs with what an ended run left behind.
SlotHasTurn == \A s \in Sessions : slot[s] # NoRun => Executing(slot[s], s)

\* What is kept for a turn, in the running sets and in the target map, is gone
\* when no turn is left to use it: overlapped, thrown or not.
MarkersHaveTurns == BusyMarkerHasTurn /\ SlotHasTurn

\* A turn that no other turn of its session overlaps keeps its guard to the end,
\* over HTTP and when connections share the session: its connection refuses
\* runs and queues mode changes, and its tools execute on its own target,
\* whatever requests for the session are admitted, wait, fail or end meanwhile.
LoneTurnIsGuarded ==
    \A r \in Runs, s \in Sessions :
        Executing(r, s) /\ r \notin met =>
            s \in running[conn[r]] /\ slot[s] = r /\ ranOn[r] \subseteq {target[r]}

\* As long as no turn throws, the turn a change was queued behind is still
\* executing and will take it, also when turns overlap.
QueuedBehindTurn ==
    faults = 0 =>
        \A c \in Conns, s \in Sessions :
            queued[c][s] # NoMode => \E r \in Runs : Executing(r, s) /\ conn[r] = c

\* Between requests a session is stored with the last mode the gateway
\* accepted for it, by an "applied", by a "queued-change" or by a run.
LastAcceptedModeWins ==
    \A s \in Sessions :
        (\A x \in Calls : InFlight(x) => sess[x] # s) => mode[s] = intent[s]

\* A busy session becomes free again, although any await may reject.
BusyIsReleased ==
    \A c \in Conns, s \in Sessions : s \in running[c] ~> s \notin running[c]

\* The handlers implement the promise of SessionTurn: the target map names the
\* holder of a session.
Turn == INSTANCE SessionTurn WITH holder <- slot
ImplementsTurns == Turn!Spec
=============================================================================
