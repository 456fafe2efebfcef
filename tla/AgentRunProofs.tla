--------------------------- MODULE AgentRunProofs ---------------------------
(***************************************************************************)
(* Theorems about AgentRun for every set of connections, sessions and      *)
(* requests.                                                               *)
(***************************************************************************)
EXTENDS AgentRun, TLAPS

USE AgentRunAssumption

\* What every step preserves without any assumption on the clients.  The
\* target map has to be part of it: a tool's place is a kind of target only
\* because the map names an executing run, which has selected one.
IInv == TypeOK /\ SlotHasTurn /\ BusyMarkerHasTurn

\* The types of what a handler owns, and of what it shares.
PcValues == Steps \cup {Idle}

LocalsTyped ==
    /\ pc \in [Calls -> PcValues]
    /\ conn \in [Calls -> Conns]
    /\ sess \in [Calls -> Sessions]
    /\ ask \in [Calls -> MaybeMode]
    /\ target \in [Runs -> Kinds \cup {NoKind}]
    /\ view \in [Runs -> MaybeMode]
    /\ taken \in [Runs -> MaybeMode]
    /\ ranOn \in [Runs -> SUBSET Kinds]

SharedTyped ==
    /\ running \in [Conns -> SUBSET Sessions]
    /\ queued \in [Conns -> [Sessions -> MaybeMode]]
    /\ slot \in [Sessions -> Runs \cup {NoRun}]
    /\ met \subseteq Runs
    /\ mode \in [Sessions -> MaybeMode]
    /\ faults \in Nat
    /\ intent \in [Sessions -> MaybeMode]

LEMMA TypedInParts == VarsTyped <=> LocalsTyped /\ SharedTyped
  BY DEF VarsTyped, LocalsTyped, SharedTyped, PcValues

\* The members of the value sets that the steps write; with these facts the
\* sets themselves need not be expanded.
Values ==
    /\ Runs \subseteq Calls /\ ModeReqs \subseteq Calls
    /\ PcValues = Steps \cup {Idle}
    /\ Idle \in PcValues
    /\ "targeting" \in PcValues /\ "gating" \in PcValues /\ "loading" \in PcValues
    /\ "rechecking" \in PcValues /\ "creating" \in PcValues /\ "moding" \in PcValues
    /\ "preparing" \in PcValues /\ "saving" \in PcValues /\ "entering" \in PcValues
    /\ "running" \in PcValues /\ "draining" \in PcValues /\ "setting" \in PcValues
    /\ "replying" \in PcValues
    /\ NoMode \in MaybeMode /\ "local" \in MaybeMode /\ Modes \subseteq MaybeMode
    /\ NoKind \notin Kinds

LEMMA ValuesHold == Values
  BY DEF Values, PcValues, Calls, Steps, Idle, NoMode, MaybeMode, Modes, NoKind, Kinds

\* A handler that ends leaves well-typed locals.
LEMMA FinishKeepsLocalsTyped ==
    ASSUME LocalsTyped
    PROVE  /\ \A r \in Runs : FinishRun(r) => LocalsTyped'
           /\ \A x \in ModeReqs : FinishSetMode(x) => LocalsTyped'
<1>1. ASSUME NEW r \in Runs, FinishRun(r) PROVE LocalsTyped'
  BY <1>1, ValuesHold DEF FinishRun, LocalsTyped, Go, Values
<1>2. ASSUME NEW x \in ModeReqs, FinishSetMode(x) PROVE LocalsTyped'
  BY <1>2, ValuesHold DEF FinishSetMode, LocalsTyped, Go, Values, localVars
<1>. QED  BY <1>1, <1>2

\* Each step keeps every variable in its type.
LEMMA StepKeepsVarsTyped ==
    ASSUME IInv, [Next]_vars
    PROVE  VarsTyped'
<1>0. SUFFICES LocalsTyped' /\ SharedTyped'
  BY TypedInParts, PTL
<1>t. LocalsTyped /\ SharedTyped
  BY TypedInParts DEF IInv, TypeOK
<1>f. /\ \A r \in Runs : FinishRun(r) => LocalsTyped'
      /\ \A x \in ModeReqs : FinishSetMode(x) => LocalsTyped'
  BY <1>t, FinishKeepsLocalsTyped
<1>l. \A r \in Runs : LeaveTurn(r) =>
        running' \in [Conns -> SUBSET Sessions] /\ slot' \in [Sessions -> Runs \cup {NoRun}] /\ met' \subseteq Runs
  <2> SUFFICES ASSUME NEW r \in Runs, LeaveTurn(r)
               PROVE  /\ running' \in [Conns -> SUBSET Sessions] /\ slot' \in [Sessions -> Runs \cup {NoRun}]
                      /\ met' \subseteq Runs
    OBVIOUS
  <2>1. running[conn[r]] \ {sess[r]} \in SUBSET Sessions
    BY <1>t, ValuesHold DEF LocalsTyped, SharedTyped, Values
  <2>. QED  BY <1>t, <2>1 DEF SharedTyped, LeaveTurn
<1>s. UNCHANGED <<sharedVars, mode, faults, intent>> => SharedTyped'
  BY <1>t DEF SharedTyped, sharedVars
<1> USE <1>t, ValuesHold DEF Values, requestVars, localVars, sharedVars, historyVars, Go
<1>1. ASSUME NEW r \in Runs, NEW c \in Conns, NEW s \in Sessions, NEW m \in MaybeMode,
             StartRun(r, c, s, m)
      PROVE  LocalsTyped' /\ SharedTyped'
  BY <1>1 DEF StartRun, Arrive, LocalsTyped, SharedTyped
<1>2. ASSUME NEW r \in Runs, RunStep(r)
      PROVE  LocalsTyped' /\ SharedTyped'
  <2>1. CASE SelectTarget(r)
    <3>1. SharedTyped'
      BY <2>1, <1>s DEF SelectTarget
    <3>2. CASE FinishRun(r)
      BY <3>1, <3>2, <1>f
    <3>3. CASE ~FinishRun(r)
      BY <2>1, <3>1, <3>3 DEF SelectTarget, LocalsTyped
    <3>. QED  BY <3>2, <3>3
  <2>2. CASE CheckBudget(r)
    <3>1. SharedTyped'
      BY <2>2, <1>s DEF CheckBudget
    <3>2. CASE FinishRun(r)
      BY <3>1, <3>2, <1>f
    <3>3. CASE ~FinishRun(r)
      BY <2>2, <3>1, <3>3 DEF CheckBudget, LocalsTyped
    <3>. QED  BY <3>2, <3>3
  <2>3. CASE LoadSession(r)
    <3>1. SharedTyped'
      BY <2>3, <1>s DEF LoadSession
    <3>2. mode[sess[r]] \in MaybeMode
      BY DEF LocalsTyped, SharedTyped
    <3>3. LocalsTyped'
      BY <2>3, <3>2 DEF LoadSession, LocalsTyped
    <3>. QED  BY <3>1, <3>3
  <2>4. CASE RecheckSession(r)
    <3>1. SharedTyped'
      BY <2>4, <1>s DEF RecheckSession
    <3>2. CASE FinishRun(r)
      BY <3>1, <3>2, <1>f
    <3>3. CASE ~FinishRun(r)
      BY <2>4, <3>1, <3>3 DEF RecheckSession, LocalsTyped
    <3>. QED  BY <3>2, <3>3
  <2>5. CASE CreateSession(r)
    <3>1. view[r] \in MaybeMode
      BY DEF LocalsTyped
    <3>. QED  BY <2>5, <3>1 DEF CreateSession, LocalsTyped, SharedTyped
  <2>6. CASE ApplyAskedMode(r)
    <3>1. ask[r] \in MaybeMode
      BY DEF LocalsTyped
    <3>2. CASE ask[r] \in {NoMode, view[r]}
      BY <2>6, <3>2 DEF ApplyAskedMode, LocalsTyped, SharedTyped
    <3>3. CASE ask[r] \notin {NoMode, view[r]}
      <4>1. LocalsTyped'
        BY <2>6, <3>1, <3>3 DEF ApplyAskedMode, LocalsTyped
      <4>2. SharedTyped'
        BY <2>6, <3>1, <3>3 DEF ApplyAskedMode, SharedTyped
      <4>. QED  BY <4>1, <4>2
    <3>. QED  BY <3>2, <3>3
  <2>7. CASE PrepareSession(r)
    BY <2>7 DEF PrepareSession, LocalsTyped, SharedTyped
  <2>8. CASE SaveInput(r)
    BY <2>8 DEF SaveInput, LocalsTyped, SharedTyped
  <2>9. CASE EnterTurn(r)
    <3>1. running[conn[r]] \cup {sess[r]} \in SUBSET Sessions
      BY DEF LocalsTyped, SharedTyped
    <3>2. LocalsTyped'
      BY <2>9 DEF EnterTurn, LocalsTyped
    <3>3. met' \subseteq Runs
      <4>1. Meeting(r) \subseteq Runs
        BY DEF Meeting
      <4>. QED  BY <2>9, <4>1 DEF EnterTurn, SharedTyped
    <3>4. SharedTyped'
      BY <2>9, <3>1, <3>3 DEF EnterTurn, SharedTyped
    <3>. QED  BY <3>2, <3>4
  <2>10. CASE EndTurn(r)
    <3>1. queued[conn[r]][sess[r]] \in MaybeMode
      BY DEF LocalsTyped, SharedTyped
    <3>2. LocalsTyped'
      BY <2>10, <3>1 DEF EndTurn, LocalsTyped
    <3>3. queued' \in [Conns -> [Sessions -> MaybeMode]]
      BY <2>10 DEF EndTurn, SharedTyped
    <3>. QED  BY <2>10, <3>2, <3>3, <1>l DEF EndTurn, SharedTyped
  <2>11. CASE ApplyQueuedMode(r)
    BY <2>11 DEF ApplyQueuedMode, LocalsTyped, SharedTyped
  <2>12. CASE ReplyToRun(r)
    BY <2>12, <1>f, <1>s DEF ReplyToRun
  <2>. QED
    BY <1>2, <2>1, <2>2, <2>3, <2>4, <2>5, <2>6, <2>7, <2>8, <2>9, <2>10, <2>11, <2>12 DEF RunStep
<1>3. ASSUME NEW r \in Runs, CallTool(r)
      PROVE  LocalsTyped' /\ SharedTyped'
  <2>1. ToolPlace(sess[r]) \in Kinds
    BY DEF IInv, TypeOK, ToolPlace, SlotHasTurn, Executing, StageOK, Targeted, LocalsTyped,
           SharedTyped, Steps, Kinds
  <2>. QED  BY <1>3, <2>1 DEF CallTool, LocalsTyped, SharedTyped
<1>4. ASSUME NEW r \in Runs, FailRun(r)
      PROVE  LocalsTyped' /\ SharedTyped'
  <2>1. LocalsTyped'
    BY <1>4, <1>f DEF FailRun
  <2>2. SharedTyped'
    BY <1>4, <1>l DEF FailRun, SharedTyped
  <2>. QED  BY <2>1, <2>2
<1>5. ASSUME NEW x \in ModeReqs, NEW c \in Conns, NEW s \in Sessions, NEW m \in Modes,
             StartSetMode(x, c, s, m)
      PROVE  LocalsTyped' /\ SharedTyped'
  <2>1. LocalsTyped'
    BY <1>5 DEF StartSetMode, Arrive, LocalsTyped
  <2>2. SharedTyped'
    <3>1. CASE s \in running[c]
      <4>0. queued' = [queued EXCEPT ![c][s] = m]
        BY <1>5, <3>1 DEF StartSetMode
      <4>1. queued' \in [Conns -> [Sessions -> MaybeMode]]
        BY <4>0 DEF SharedTyped
      <4>2. intent' \in [Sessions -> MaybeMode]
        BY <1>5, <3>1 DEF StartSetMode, SharedTyped
      <4>. QED  BY <1>5, <4>1, <4>2 DEF StartSetMode, SharedTyped
    <3>2. CASE s \notin running[c]
      BY <1>5, <3>2 DEF StartSetMode, SharedTyped
    <3>. QED  BY <3>1, <3>2
  <2>. QED  BY <2>1, <2>2
<1>6. ASSUME NEW x \in ModeReqs, ModeStep(x) \/ FailSetMode(x)
      PROVE  LocalsTyped' /\ SharedTyped'
  <2>1. CASE ApplySetMode(x)
    <3>1. CASE FinishSetMode(x) /\ UNCHANGED <<mode, intent>>
      BY <2>1, <3>1, <1>f, <1>s DEF ApplySetMode
    <3>2. CASE ~(FinishSetMode(x) /\ UNCHANGED <<mode, intent>>)
      <4>1. ask[x] \in MaybeMode
        BY DEF LocalsTyped
      <4>2. LocalsTyped'
        BY <2>1, <3>2 DEF ApplySetMode, LocalsTyped
      <4>3. SharedTyped'
        BY <2>1, <3>2, <4>1 DEF ApplySetMode, SharedTyped
      <4>. QED  BY <4>2, <4>3
    <3>. QED  BY <3>1, <3>2
  <2>2. CASE ReplyToSetMode(x)
    BY <2>2, <1>f, <1>s DEF ReplyToSetMode
  <2>3. CASE FailSetMode(x)
    BY <2>3, <1>f DEF FailSetMode, SharedTyped
  <2>. QED  BY <1>6, <2>1, <2>2, <2>3 DEF ModeStep
<1>7. CASE UNCHANGED vars
  BY <1>7 DEF vars, LocalsTyped, SharedTyped
<1>. QED  BY <1>1, <1>2, <1>3, <1>4, <1>5, <1>6, <1>7 DEF Next

-----------------------------------------------------------------------------
\* The steps of one request.
RunActs(r) ==
    \/ \E c \in Conns, s \in Sessions, m \in MaybeMode : StartRun(r, c, s, m)
    \/ RunStep(r) \/ CallTool(r) \/ FailRun(r)

ModeActs(x) ==
    \/ \E c \in Conns, s \in Sessions, m \in Modes : StartSetMode(x, c, s, m)
    \/ ModeStep(x) \/ FailSetMode(x)

\* What a step of one request leaves alone: the locals of every other one.
Untouched(y) ==
    /\ pc'[y] = pc[y] /\ conn'[y] = conn[y] /\ sess'[y] = sess[y] /\ ask'[y] = ask[y]
    /\ y \in Runs => /\ target'[y] = target[y] /\ view'[y] = view[y]
                     /\ taken'[y] = taken[y] /\ ranOn'[y] = ranOn[y]

LEMMA NextByRequest == Next <=> (\E r \in Runs : RunActs(r)) \/ (\E x \in ModeReqs : ModeActs(x))
  BY DEF Next, RunActs, ModeActs

LEMMA RunLeavesOthersAlone ==
    ASSUME IInv, NEW r \in Runs, RunActs(r), NEW y \in Calls \ {r}
    PROVE  Untouched(y)
<1>1. LocalsTyped /\ Runs \subseteq Calls
  BY TypedInParts DEF IInv, TypeOK, Calls
<1> USE <1>1 DEF LocalsTyped, Untouched, Go, FinishRun, requestVars, localVars, sharedVars, historyVars
<1>2. CASE \E c \in Conns, s \in Sessions, m \in MaybeMode : StartRun(r, c, s, m)
  BY <1>2 DEF StartRun, Arrive
<1>3. CASE SelectTarget(r) \/ CheckBudget(r)
  BY <1>3 DEF SelectTarget, CheckBudget
<1>4. CASE LoadSession(r) \/ RecheckSession(r) \/ CreateSession(r)
  BY <1>4 DEF LoadSession, RecheckSession, CreateSession
<1>5. CASE ApplyAskedMode(r) \/ PrepareSession(r) \/ SaveInput(r)
  BY <1>5 DEF ApplyAskedMode, PrepareSession, SaveInput
<1>6. CASE EnterTurn(r) \/ EndTurn(r) \/ ApplyQueuedMode(r)
  BY <1>6 DEF EnterTurn, EndTurn, ApplyQueuedMode
<1>7. CASE ReplyToRun(r) \/ CallTool(r) \/ FailRun(r)
  BY <1>7 DEF ReplyToRun, CallTool, FailRun
<1> HIDE DEF LocalsTyped, Untouched, Go, FinishRun, requestVars, localVars, sharedVars, historyVars
<1>. QED  BY <1>2, <1>3, <1>4, <1>5, <1>6, <1>7 DEF RunActs, RunStep

LEMMA ModeLeavesOthersAlone ==
    ASSUME IInv, NEW x \in ModeReqs, ModeActs(x), NEW y \in Calls \ {x}
    PROVE  Untouched(y)
<1>1. LocalsTyped /\ ModeReqs \subseteq Calls
  BY TypedInParts DEF IInv, TypeOK, Calls
<1> USE <1>1 DEF LocalsTyped, Untouched, Go, FinishSetMode, requestVars, localVars, sharedVars, historyVars
<1>2. CASE \E c \in Conns, s \in Sessions, m \in Modes : StartSetMode(x, c, s, m)
  BY <1>2 DEF StartSetMode, Arrive
<1>3. CASE ApplySetMode(x) \/ ReplyToSetMode(x) \/ FailSetMode(x)
  BY <1>3 DEF ApplySetMode, ReplyToSetMode, FailSetMode
<1> HIDE DEF LocalsTyped, Untouched, Go, FinishSetMode, requestVars, localVars, sharedVars, historyVars
<1>. QED  BY <1>2, <1>3 DEF ModeActs, ModeStep

\* A setMode request changes no run.
LEMMA ModeLeavesRunsAlone ==
    ASSUME IInv, NEW x \in ModeReqs, ModeActs(x), NEW r \in Runs
    PROVE  Untouched(r)
  BY ModeLeavesOthersAlone DEF Calls

\* A stored row keeps having a mode.
LEMMA StoredRowsStay ==
    ASSUME IInv, [Next]_vars, NEW s \in Sessions, mode[s] \in Modes
    PROVE  mode'[s] \in Modes
<1>1. LocalsTyped /\ SharedTyped /\ \A r \in Runs : StageOK(r)
  BY TypedInParts DEF IInv, TypeOK
<1>2. \A x \in ModeReqs : ModeStageOK(x)
  BY DEF IInv, TypeOK
<1>3. ASSUME NEW r \in Runs, RunActs(r) PROVE mode'[s] \in Modes
  <2>1. CASE CreateSession(r) \/ SaveInput(r)
    BY <2>1, <1>1 DEF CreateSession, SaveInput, StageOK, Viewing, SharedTyped
  <2>2. CASE ApplyAskedMode(r)
    <3>1. ask[r] \in MaybeMode /\ Modes = MaybeMode \ {NoMode}
      BY <1>1 DEF LocalsTyped, Calls, Modes, MaybeMode, NoMode
    <3>. QED  BY <2>2, <1>1, <3>1 DEF ApplyAskedMode, SharedTyped
  <2>3. CASE ApplyQueuedMode(r)
    BY <2>3, <1>1 DEF ApplyQueuedMode, StageOK, SharedTyped
  <2>4. ASSUME UNCHANGED mode PROVE mode'[s] \in Modes
    BY <2>4
  <2>5. RunActs(r) => \/ CreateSession(r) \/ SaveInput(r) \/ ApplyAskedMode(r)
                      \/ ApplyQueuedMode(r) \/ UNCHANGED mode
    BY DEF RunActs, RunStep, StartRun, SelectTarget, CheckBudget, LoadSession, RecheckSession,
           PrepareSession, EnterTurn, EndTurn, ReplyToRun, CallTool, FailRun
  <2>. QED  BY <1>3, <2>1, <2>2, <2>3, <2>4, <2>5
<1>4. ASSUME NEW x \in ModeReqs, ModeActs(x) PROVE mode'[s] \in Modes
  <2>1. CASE ApplySetMode(x)
    <3>1. ask[x] \in Modes
      BY <2>1, <1>2 DEF ApplySetMode, ModeStageOK, InFlight, Steps
    <3>. QED  BY <2>1, <3>1, <1>1 DEF ApplySetMode, SharedTyped
  <2>2. ModeActs(x) => ApplySetMode(x) \/ UNCHANGED mode
    BY DEF ModeActs, ModeStep, StartSetMode, ReplyToSetMode, FailSetMode
  <2>. QED  BY <1>4, <2>1, <2>2
<1>5. CASE UNCHANGED vars
  BY <1>5 DEF vars
<1>. QED  BY <1>3, <1>4, <1>5, NextByRequest

\* A run that acts is left at a stage whose locals are set.
LEMMA RunKeepsOwnStage ==
    ASSUME IInv, NEW r \in Runs, RunActs(r), VarsTyped'
    PROVE  StageOK(r)'
<1>1. LocalsTyped /\ SharedTyped /\ StageOK(r) /\ r \in Calls
  BY TypedInParts DEF IInv, TypeOK, Calls
<1>2. \A s \in Sessions : mode[s] \in Modes => mode'[s] \in Modes
  <2>1. Next
    BY NextByRequest
  <2>. QED  BY <2>1, StoredRowsStay
<1>3. MaybeMode = Modes \cup {NoMode} /\ NoMode \notin Modes /\ "local" \in Modes
  BY DEF MaybeMode, Modes, NoMode
<1>4. pc'[r] = Idle => StageOK(r)'
  BY DEF StageOK, Targeted, Viewing, Steps, Idle
<1>5. FinishRun(r) => pc'[r] = Idle
  BY <1>1 DEF FinishRun, Go, LocalsTyped
<1> USE <1>1, <1>2, <1>3 DEF LocalsTyped, SharedTyped, Go, StageOK, Targeted, Viewing, Steps, Idle,
                             requestVars, localVars, sharedVars, historyVars
<1>6. CASE \E c \in Conns, s \in Sessions, m \in MaybeMode : StartRun(r, c, s, m)
  BY <1>6 DEF StartRun, Arrive
<1>7. CASE SelectTarget(r)
  BY <1>7, <1>4, <1>5 DEF SelectTarget
<1>8. CASE CheckBudget(r)
  BY <1>8, <1>4, <1>5 DEF CheckBudget
<1>9. CASE LoadSession(r)
  BY <1>9 DEF LoadSession
<1>10. CASE RecheckSession(r)
  BY <1>10, <1>4, <1>5 DEF RecheckSession
<1>11. CASE CreateSession(r)
  BY <1>11 DEF CreateSession
<1>12. CASE ApplyAskedMode(r)
  <2>1. ask[r] \in MaybeMode
    BY DEF LocalsTyped
  <2>2. CASE ask[r] \in {NoMode, view[r]}
    BY <1>12, <2>2 DEF ApplyAskedMode
  <2>3. CASE ask[r] \notin {NoMode, view[r]}
    BY <1>12, <2>1, <2>3 DEF ApplyAskedMode
  <2>. QED  BY <2>2, <2>3
<1>13. CASE PrepareSession(r)
  BY <1>13 DEF PrepareSession
<1>14. CASE SaveInput(r)
  BY <1>14 DEF SaveInput
<1>15. CASE EnterTurn(r) \/ ApplyQueuedMode(r)
  BY <1>15 DEF EnterTurn, ApplyQueuedMode
<1>16. CASE EndTurn(r)
  BY <1>16 DEF EndTurn
<1>17. CASE ReplyToRun(r) \/ FailRun(r)
  BY <1>17, <1>4, <1>5 DEF ReplyToRun, FailRun
<1>18. CASE CallTool(r)
  BY <1>18 DEF CallTool
<1> HIDE DEF LocalsTyped, SharedTyped, Go, StageOK, Targeted, Viewing, Steps, Idle,
             requestVars, localVars, sharedVars, historyVars
<1>. QED
  BY <1>6, <1>7, <1>8, <1>9, <1>10, <1>11, <1>12, <1>13, <1>14, <1>15, <1>16, <1>17, <1>18
     DEF RunActs, RunStep

LEMMA ModeKeepsOwnStage ==
    ASSUME IInv, NEW x \in ModeReqs, ModeActs(x)
    PROVE  ModeStageOK(x)'
<1>1. LocalsTyped /\ ModeStageOK(x) /\ x \in Calls
  BY TypedInParts DEF IInv, TypeOK, Calls
<1> USE <1>1 DEF LocalsTyped, Go, ModeStageOK, InFlight, Steps, Idle, FinishSetMode,
                 requestVars, localVars, historyVars
<1>2. CASE \E c \in Conns, s \in Sessions, m \in Modes : StartSetMode(x, c, s, m)
  BY <1>2 DEF StartSetMode, Arrive
<1>3. CASE ApplySetMode(x)
  BY <1>3 DEF ApplySetMode
<1>4. CASE ReplyToSetMode(x) \/ FailSetMode(x)
  BY <1>4 DEF ReplyToSetMode, FailSetMode
<1>. QED  BY <1>2, <1>3, <1>4 DEF ModeActs, ModeStep

\* Whoever acts, everyone stays at a stage whose locals are set.
LEMMA StepKeepsStages ==
    ASSUME IInv, [Next]_vars
    PROVE  (\A r \in Runs : StageOK(r))' /\ (\A x \in ModeReqs : ModeStageOK(x))'
<1>1. VarsTyped'
  BY StepKeepsVarsTyped
<1>2. \A s \in Sessions : mode[s] \in Modes => mode'[s] \in Modes
  BY StoredRowsStay
<1>3. LocalsTyped /\ (\A r \in Runs : StageOK(r)) /\ (\A x \in ModeReqs : ModeStageOK(x))
  BY TypedInParts DEF IInv, TypeOK
<1>4. ASSUME NEW r \in Runs, Untouched(r) PROVE StageOK(r)'
  BY <1>2, <1>3, <1>4 DEF StageOK, Untouched, LocalsTyped, Calls
<1>5. ASSUME NEW x \in ModeReqs, Untouched(x) PROVE ModeStageOK(x)'
  BY <1>3, <1>5 DEF ModeStageOK, Untouched, InFlight
<1>6. ASSUME NEW q \in Runs, RunActs(q)
      PROVE  (\A r \in Runs : StageOK(r))' /\ (\A x \in ModeReqs : ModeStageOK(x))'
  <2>1. \A y \in Calls \ {q} : Untouched(y)
    BY <1>6, RunLeavesOthersAlone
  <2>2. StageOK(q)'
    BY <1>1, <1>6, RunKeepsOwnStage
  <2>3. ModeReqs \subseteq Calls \ {q} /\ Runs \subseteq Calls
    BY AgentRunAssumption DEF Calls
  <2>. QED  BY <1>4, <1>5, <2>1, <2>2, <2>3
<1>7. ASSUME NEW z \in ModeReqs, ModeActs(z)
      PROVE  (\A r \in Runs : StageOK(r))' /\ (\A x \in ModeReqs : ModeStageOK(x))'
  <2>1. \A y \in Calls \ {z} : Untouched(y)
    BY <1>7, ModeLeavesOthersAlone
  <2>2. ModeStageOK(z)'
    BY <1>7, ModeKeepsOwnStage
  <2>3. Runs \subseteq Calls \ {z} /\ ModeReqs \subseteq Calls
    BY AgentRunAssumption DEF Calls
  <2>. QED  BY <1>4, <1>5, <2>1, <2>2, <2>3
<1>8. CASE UNCHANGED vars
  <2>1. \A y \in Calls : Untouched(y)
    BY <1>8 DEF vars, Untouched, requestVars, localVars, historyVars
  <2>. QED  BY <1>4, <1>5, <2>1 DEF Calls
<1>. QED  BY <1>6, <1>7, <1>8, NextByRequest

-----------------------------------------------------------------------------
\* What a step of a run can do to the running set and to the target map: enter
\* the turn, act inside it, leave it, or nothing.
LEMMA RunTurnEffect ==
    ASSUME IInv, NEW r \in Runs, RunActs(r)
    PROVE  \/ EnterTurn(r)
           \/ CallTool(r)
           \/ pc[r] = "running" /\ LeaveTurn(r) /\ pc'[r] # "running"
           \/ pc[r] # "running" /\ pc'[r] # "running" /\ UNCHANGED <<running, slot, met>>
<1>1. LocalsTyped /\ r \in Calls
  BY TypedInParts DEF IInv, TypeOK, Calls
<1> DEFINE Still == pc[r] # "running" /\ pc'[r] # "running" /\ UNCHANGED <<running, slot, met>>
           Leaves == pc[r] = "running" /\ LeaveTurn(r) /\ pc'[r] # "running"
<1> USE <1>1 DEF LocalsTyped, Go, FinishRun, Idle, sharedVars
<1>2. CASE \E c \in Conns, s \in Sessions, m \in MaybeMode : StartRun(r, c, s, m)
  <2>1. Still
    BY <1>2 DEF StartRun, Arrive
  <2>. QED  BY <2>1
<1>3. CASE SelectTarget(r) \/ CheckBudget(r)
  <2>1. Still
    BY <1>3 DEF SelectTarget, CheckBudget
  <2>. QED  BY <2>1
<1>4. CASE LoadSession(r) \/ RecheckSession(r) \/ CreateSession(r)
  <2>1. Still
    BY <1>4 DEF LoadSession, RecheckSession, CreateSession
  <2>. QED  BY <2>1
<1>5. CASE ApplyAskedMode(r) \/ PrepareSession(r) \/ SaveInput(r)
  <2>1. Still
    BY <1>5 DEF ApplyAskedMode, PrepareSession, SaveInput
  <2>. QED  BY <2>1
<1>6. CASE ApplyQueuedMode(r) \/ ReplyToRun(r)
  <2>1. Still
    BY <1>6 DEF ApplyQueuedMode, ReplyToRun
  <2>. QED  BY <2>1
<1>7. CASE EndTurn(r)
  <2>1. Leaves
    BY <1>7 DEF EndTurn
  <2>. QED  BY <2>1
<1>8. CASE FailRun(r)
  <2>1. Leaves \/ Still
    BY <1>8 DEF FailRun
  <2>. QED  BY <2>1
<1> HIDE DEF LocalsTyped, Go, FinishRun, Idle, sharedVars
<1>. QED  BY <1>2, <1>3, <1>4, <1>5, <1>6, <1>7, <1>8 DEF RunActs, RunStep

LEMMA ModeTurnEffect ==
    ASSUME IInv, NEW x \in ModeReqs, ModeActs(x)
    PROVE  UNCHANGED <<running, slot, met>>
  BY DEF ModeActs, ModeStep, StartSetMode, ApplySetMode, ReplyToSetMode, FailSetMode, sharedVars

\* An entry of the target map stays with a run that executes its session.
LEMMA StepKeepsSlots ==
    ASSUME IInv, [Next]_vars
    PROVE  SlotHasTurn'
<1>1. LocalsTyped /\ SharedTyped /\ SlotHasTurn
  BY TypedInParts DEF IInv, TypeOK
<1>2. ASSUME UNCHANGED <<running, slot>>, \A r \in Runs : Executing(r, sess[r]) => Untouched(r)
      PROVE  SlotHasTurn'
  BY <1>1, <1>2 DEF SlotHasTurn, Executing, Untouched, SharedTyped, LocalsTyped
<1>3. ASSUME NEW q \in Runs, RunActs(q)
      PROVE  SlotHasTurn'
  <2>1. \A y \in Calls \ {q} : Untouched(y)
    BY <1>3, RunLeavesOthersAlone
  <2>2. Runs \subseteq Calls
    BY DEF Calls
  <2>3. CASE EnterTurn(q)
    BY <1>1, <2>1, <2>2, <2>3 DEF EnterTurn, SlotHasTurn, Executing, Untouched, SharedTyped,
                                  LocalsTyped, Go, requestVars
  <2>4. CASE CallTool(q)
    BY <1>1, <2>4 DEF CallTool, SlotHasTurn, Executing, requestVars, sharedVars
  <2>5. CASE pc[q] = "running" /\ LeaveTurn(q) /\ pc'[q] # "running"
    BY <1>1, <2>1, <2>2, <2>5 DEF LeaveTurn, SlotHasTurn, Executing, Untouched, SharedTyped, LocalsTyped
  <2>6. CASE pc[q] # "running" /\ pc'[q] # "running" /\ UNCHANGED <<running, slot, met>>
    BY <1>2, <2>1, <2>2, <2>6 DEF Executing
  <2>. QED  BY <1>3, <2>3, <2>4, <2>5, <2>6, RunTurnEffect
<1>4. ASSUME NEW x \in ModeReqs, ModeActs(x)
      PROVE  SlotHasTurn'
  BY <1>2, <1>4, ModeTurnEffect, ModeLeavesRunsAlone
<1>5. CASE UNCHANGED vars
  BY <1>1, <1>5 DEF vars, SlotHasTurn, Executing, requestVars, sharedVars
<1>. QED  BY <1>3, <1>4, <1>5, NextByRequest

\* A busy mark stays with a turn of its own connection.
LEMMA StepKeepsMarkers ==
    ASSUME IInv, [Next]_vars
    PROVE  BusyMarkerHasTurn'
<1>1. LocalsTyped /\ SharedTyped /\ BusyMarkerHasTurn
  BY TypedInParts DEF IInv, TypeOK
<1>2. ASSUME UNCHANGED <<running, slot>>, \A r \in Runs : Executing(r, sess[r]) => Untouched(r)
      PROVE  BusyMarkerHasTurn'
  BY <1>1, <1>2 DEF BusyMarkerHasTurn, Executing, Untouched
<1>3. ASSUME NEW q \in Runs, RunActs(q)
      PROVE  BusyMarkerHasTurn'
  <2>1. \A y \in Calls \ {q} : Untouched(y)
    BY <1>3, RunLeavesOthersAlone
  <2>2. Runs \subseteq Calls
    BY DEF Calls
  <2>3. CASE EnterTurn(q)
    BY <1>1, <2>1, <2>2, <2>3 DEF EnterTurn, BusyMarkerHasTurn, Executing, Untouched, SharedTyped,
                                  LocalsTyped, Go, requestVars
  <2>4. CASE CallTool(q)
    BY <1>1, <2>4 DEF CallTool, BusyMarkerHasTurn, Executing, requestVars, sharedVars
  <2>5. CASE pc[q] = "running" /\ LeaveTurn(q) /\ pc'[q] # "running"
    <3>1. running' = [running EXCEPT ![conn[q]] = @ \ {sess[q]}]
      BY <2>5 DEF LeaveTurn
    <3>2. ASSUME NEW c \in Conns, NEW s \in running'[c]
          PROVE  \E r \in Runs : Executing(r, s)' /\ conn'[r] = c
      <4>1. s \in running[c] /\ (c = conn[q] => s # sess[q])
        BY <1>1, <2>2, <3>1, <3>2 DEF SharedTyped, LocalsTyped
      <4>2. PICK r \in Runs : pc[r] = "running" /\ sess[r] = s /\ conn[r] = c
        BY <1>1, <4>1 DEF BusyMarkerHasTurn, Executing
      <4>3. Untouched(r)
        BY <2>1, <2>2, <4>1, <4>2
      <4>. QED  BY <4>2, <4>3 DEF Executing, Untouched
    <3>. QED  BY <3>2 DEF BusyMarkerHasTurn
  <2>6. CASE pc[q] # "running" /\ pc'[q] # "running" /\ UNCHANGED <<running, slot, met>>
    BY <1>2, <2>1, <2>2, <2>6 DEF Executing
  <2>. QED  BY <1>3, <2>3, <2>4, <2>5, <2>6, RunTurnEffect
<1>4. ASSUME NEW x \in ModeReqs, ModeActs(x)
      PROVE  BusyMarkerHasTurn'
  BY <1>2, <1>4, ModeTurnEffect, ModeLeavesRunsAlone
<1>5. CASE UNCHANGED vars
  BY <1>1, <1>5 DEF vars, BusyMarkerHasTurn, Executing, requestVars, sharedVars
<1>. QED  BY <1>3, <1>4, <1>5, NextByRequest

LEMMA InitEstablishesIInv == Init => IInv
<1> SUFFICES ASSUME Init PROVE IInv
  OBVIOUS
<1>1. VarsTyped
  BY DEF Init, VarsTyped, Calls, Idle, NoKind, NoMode, MaybeMode
<1>2. (\A r \in Runs : StageOK(r)) /\ (\A x \in ModeReqs : ModeStageOK(x))
  BY DEF Init, StageOK, ModeStageOK, InFlight, Calls, Steps, Idle, Targeted, Viewing
<1>3. SlotHasTurn /\ BusyMarkerHasTurn
  BY DEF Init, SlotHasTurn, BusyMarkerHasTurn
<1>. QED  BY <1>1, <1>2, <1>3 DEF IInv, TypeOK

\* Whatever the clients do and whichever await rejects, every variable keeps
\* its type, a busy mark belongs to a turn of its connection, and the target
\* and tool scope stored for a session belong to a turn it is executing.
THEOREM InvariantHolds == Spec => []IInv
<1>1. Init => IInv
  BY InitEstablishesIInv
<1>2. IInv /\ [Next]_vars => IInv'
  BY StepKeepsVarsTyped, StepKeepsStages, StepKeepsSlots, StepKeepsMarkers DEF IInv, TypeOK
<1>. QED  BY <1>1, <1>2, PTL DEF Spec

\* The type invariant of AgentRun.
THEOREM TypeCorrect == Spec => []TypeOK
  BY InvariantHolds, PTL DEF IInv

\* No tool finds a target that an ended run left behind, and SESSION_BUSY is
\* never answered for an idle session: over HTTP as well, where turns overlap.
THEOREM MarkersStayWithTurns == Spec => []MarkersHaveTurns
<1>1. IInv => MarkersHaveTurns
  BY DEF IInv, MarkersHaveTurns
<1>. QED  BY <1>1, InvariantHolds, PTL

-----------------------------------------------------------------------------
\* A change is queued behind a busy mark, which has a turn; a turn that ends
\* takes it along, and only a turn that throws does not.
LEMMA StepKeepsQueues ==
    ASSUME IInv, QueuedBehindTurn, [Next]_vars
    PROVE  QueuedBehindTurn'
<1>1. LocalsTyped /\ SharedTyped /\ BusyMarkerHasTurn /\ Runs \subseteq Calls
  BY TypedInParts DEF IInv, TypeOK, Calls
<1>2. ASSUME UNCHANGED <<queued, faults>>, \A r \in Runs : pc[r] = "running" => Untouched(r)
      PROVE  QueuedBehindTurn'
  BY <1>2 DEF QueuedBehindTurn, Executing, Untouched
<1>3. ASSUME NEW r \in Runs, RunActs(r)
      PROVE  QueuedBehindTurn'
  <2>1. \A y \in Calls \ {r} : Untouched(y)
    BY <1>3, RunLeavesOthersAlone
  <2>2. CASE EndTurn(r)
    <3>1. ASSUME NEW c \in Conns, NEW s \in Sessions, queued'[c][s] # NoMode, faults = 0
          PROVE  \E q \in Runs : Executing(q, s)' /\ conn'[q] = c
      <4>1. queued[c][s] # NoMode /\ ~(c = conn[r] /\ s = sess[r])
        BY <1>1, <2>2, <3>1 DEF EndTurn, SharedTyped, LocalsTyped
      <4>2. PICK q \in Runs : pc[q] = "running" /\ sess[q] = s /\ conn[q] = c
        BY <3>1, <4>1 DEF QueuedBehindTurn, Executing
      <4>3. Untouched(q)
        BY <1>1, <2>1, <4>1, <4>2
      <4>. QED  BY <4>2, <4>3 DEF Executing, Untouched
    <3>2. faults' = faults
      BY <2>2 DEF EndTurn
    <3>. QED  BY <3>1, <3>2 DEF QueuedBehindTurn
  <2>3. CASE FailRun(r)
    <3>1. faults' # 0
      BY <1>1, <2>3 DEF FailRun, SharedTyped
    <3>. QED  BY <3>1 DEF QueuedBehindTurn
  <2>4. CASE CallTool(r)
    BY <2>4 DEF CallTool, QueuedBehindTurn, Executing, requestVars, sharedVars
  <2>5. CASE pc[r] # "running" /\ UNCHANGED <<queued, faults>>
    BY <1>1, <1>2, <2>1, <2>5
  <2>6. RunActs(r) => \/ EndTurn(r) \/ FailRun(r) \/ CallTool(r)
                      \/ pc[r] # "running" /\ UNCHANGED <<queued, faults>>
    BY DEF RunActs, RunStep, StartRun, Arrive, SelectTarget, CheckBudget, LoadSession, RecheckSession,
           CreateSession, ApplyAskedMode, PrepareSession, SaveInput, EnterTurn, ApplyQueuedMode,
           ReplyToRun, sharedVars, Idle
  <2>. QED  BY <1>3, <2>2, <2>3, <2>4, <2>5, <2>6
<1>4. ASSUME NEW x \in ModeReqs, ModeActs(x)
      PROVE  QueuedBehindTurn'
  <2>1. \A r \in Runs : Untouched(r)
    BY <1>4, ModeLeavesRunsAlone
  <2>2. ASSUME NEW c \in Conns, NEW s \in Sessions, NEW m \in Modes, StartSetMode(x, c, s, m)
        PROVE  QueuedBehindTurn'
    <3>1. CASE s \notin running[c]
      <4>1. UNCHANGED <<queued, faults>>
        BY <2>2, <3>1 DEF StartSetMode
      <4>. QED  BY <1>2, <2>1, <4>1
    <3>2. CASE s \in running[c]
      <4>1. queued' = [queued EXCEPT ![c][s] = m] /\ faults' = faults
        BY <2>2, <3>2 DEF StartSetMode
      <4>2. ASSUME NEW d \in Conns, NEW t \in Sessions, queued'[d][t] # NoMode, faults = 0
            PROVE  \E q \in Runs : Executing(q, t) /\ conn[q] = d
        <5>1. CASE d = c /\ t = s
          BY <1>1, <3>2, <5>1 DEF BusyMarkerHasTurn
        <5>2. CASE ~(d = c /\ t = s)
          <6>1. queued'[d][t] = queued[d][t]
            BY <1>1, <4>1, <5>2 DEF SharedTyped
          <6>. QED  BY <4>2, <6>1 DEF QueuedBehindTurn
        <5>. QED  BY <5>1, <5>2
      <4>. QED  BY <2>1, <4>1, <4>2 DEF QueuedBehindTurn, Executing, Untouched
    <3>. QED  BY <3>1, <3>2
  <2>3. CASE ModeStep(x)
    <3>1. UNCHANGED <<queued, faults>>
      BY <2>3 DEF ModeStep, ApplySetMode, ReplyToSetMode, sharedVars
    <3>. QED  BY <1>2, <2>1, <3>1
  <2>4. CASE FailSetMode(x)
    <3>1. faults' # 0
      BY <1>1, <2>4 DEF FailSetMode, SharedTyped
    <3>. QED  BY <3>1 DEF QueuedBehindTurn
  <2>. QED  BY <1>4, <2>2, <2>3, <2>4 DEF ModeActs
<1>5. CASE UNCHANGED vars
  BY <1>5 DEF vars, QueuedBehindTurn, Executing, requestVars, sharedVars
<1>. QED  BY <1>3, <1>4, <1>5, NextByRequest

\* Without failures no accepted change is left behind, whichever turns overlap.
THEOREM QueuedChangesAreTaken == Spec => []QueuedBehindTurn
<1>1. Init => QueuedBehindTurn
  BY DEF Init, QueuedBehindTurn
<1>2. IInv /\ QueuedBehindTurn /\ [Next]_vars => QueuedBehindTurn'
  BY StepKeepsQueues
<1>. QED  BY <1>1, <1>2, InvariantHolds, PTL DEF Spec

-----------------------------------------------------------------------------
\* Without any assumption on the clients: turns of one session that overlap
\* have met, and the only thing that takes the guard of a turn away, its mark
\* and its entry in the target map, is such an overlap.
ToolsInside(r) == ranOn[r] # {} => pc[r] \in {"running", "draining", "replying"}

OverlapsAreMet ==
    \A r, q \in Runs :
        pc[r] = "running" /\ pc[q] = "running" /\ sess[r] = sess[q] /\ r # q => r \in met
MetExecute == \A r \in met : pc[r] = "running"

Guarded(r) ==
    pc[r] = "running" /\ r \notin met =>
        sess[r] \in running[conn[r]] /\ slot[sess[r]] = r /\ ranOn[r] \subseteq {target[r]}

GuardInv ==
    /\ OverlapsAreMet /\ MetExecute
    /\ \A r \in Runs : ToolsInside(r) /\ Guarded(r)

LEMMA RunKeepsToolsInside ==
    ASSUME IInv, NEW r \in Runs, ToolsInside(r), RunActs(r)
    PROVE  ToolsInside(r)'
<1>1. LocalsTyped /\ r \in Calls
  BY TypedInParts DEF IInv, TypeOK, Calls
<1> USE <1>1 DEF LocalsTyped, ToolsInside, Go, FinishRun, Idle, requestVars, localVars, historyVars
<1>2. CASE \E c \in Conns, s \in Sessions, m \in MaybeMode : StartRun(r, c, s, m)
  BY <1>2 DEF StartRun, Arrive
<1>3. CASE SelectTarget(r) \/ CheckBudget(r) \/ LoadSession(r) \/ RecheckSession(r) \/ CreateSession(r)
  BY <1>3 DEF SelectTarget, CheckBudget, LoadSession, RecheckSession, CreateSession
<1>4. CASE ApplyAskedMode(r) \/ PrepareSession(r) \/ SaveInput(r) \/ EnterTurn(r)
  BY <1>4 DEF ApplyAskedMode, PrepareSession, SaveInput, EnterTurn
<1>5. CASE CallTool(r) \/ EndTurn(r) \/ ApplyQueuedMode(r)
  BY <1>5 DEF CallTool, EndTurn, ApplyQueuedMode
<1>6. CASE ReplyToRun(r) \/ FailRun(r)
  BY <1>6 DEF ReplyToRun, FailRun
<1> HIDE DEF LocalsTyped, ToolsInside, Go, FinishRun, Idle, requestVars, localVars, historyVars
<1>. QED  BY <1>2, <1>3, <1>4, <1>5, <1>6 DEF RunActs, RunStep

LEMMA RunKeepsGuard ==
    ASSUME IInv, GuardInv, NEW q \in Runs, RunActs(q)
    PROVE  GuardInv'
<1>1. /\ LocalsTyped /\ SharedTyped /\ OverlapsAreMet /\ MetExecute /\ Runs \subseteq Calls
      /\ \A r \in Runs : ToolsInside(r) /\ Guarded(r)
  BY TypedInParts DEF IInv, TypeOK, Calls, GuardInv
<1>2. \A r \in Runs \ {q} : Untouched(r)
  BY <1>1, RunLeavesOthersAlone
<1>3. \A r \in Runs : ToolsInside(r)'
  <2>1. ToolsInside(q)'
    BY <1>1, RunKeepsToolsInside
  <2>2. \A r \in Runs \ {q} : ToolsInside(r)'
    BY <1>1, <1>2 DEF ToolsInside, Untouched
  <2>. QED  BY <2>1, <2>2
<1>4. CASE EnterTurn(q)
  <2>1. /\ pc[q] = "entering" /\ pc'[q] = "running" /\ met' = met \cup Meeting(q)
        /\ conn'[q] = conn[q] /\ sess'[q] = sess[q] /\ ranOn'[q] = ranOn[q]
        /\ running' = [running EXCEPT ![conn[q]] = @ \cup {sess[q]}]
        /\ slot' = [slot EXCEPT ![sess[q]] = q]
        /\ conn[q] \in Conns /\ sess[q] \in Sessions
    BY <1>1, <1>4 DEF EnterTurn, LocalsTyped, Go, requestVars, historyVars
  <2>2. ranOn[q] = {} /\ q \notin met
    BY <1>1, <2>1 DEF ToolsInside, MetExecute
  <2>3. \A r \in Runs : pc[r] = "running" /\ sess[r] = sess[q] => r \in Meeting(q) /\ q \in Meeting(q)
    BY DEF Meeting, Executing
  <2>4. \A r \in Meeting(q) : r = q \/ (r \in Runs /\ pc[r] = "running")
    BY DEF Meeting, Executing
  <2>5. OverlapsAreMet'
    BY <1>1, <1>2, <2>1, <2>3 DEF OverlapsAreMet, Untouched
  <2>6. MetExecute'
    <3>1. \A r \in met : r \in Runs /\ pc[r] = "running"
      BY <1>1 DEF MetExecute, SharedTyped
    <3>. QED  BY <1>2, <2>1, <2>4, <3>1 DEF MetExecute, Untouched
  <2>7. Guarded(q)'
    BY <1>1, <2>1, <2>2 DEF Guarded, SharedTyped
  <2>8. ASSUME NEW r \in Runs \ {q} PROVE Guarded(r)'
    <3>1. SUFFICES ASSUME pc[r] = "running", r \notin met' PROVE Guarded(r)'
      BY <1>2 DEF Guarded, Untouched
    <3>2. sess[r] # sess[q] /\ r \notin met
      BY <2>1, <2>3, <3>1
    <3>3. sess[r] \in Sessions /\ conn[r] \in Conns
      BY <1>1 DEF LocalsTyped
    <3>4. slot'[sess[r]] = slot[sess[r]] /\ running[conn[r]] \subseteq running'[conn[r]]
      BY <1>1, <2>1, <3>2, <3>3 DEF SharedTyped
    <3>. QED  BY <1>1, <1>2, <3>1, <3>2, <3>4 DEF Guarded, Untouched
  <2>. QED  BY <1>3, <2>5, <2>6, <2>7, <2>8 DEF GuardInv
<1>5. CASE CallTool(q)
  <2>1. /\ UNCHANGED <<pc, conn, sess, target, running, slot, met>> /\ pc[q] = "running"
        /\ ranOn' = [ranOn EXCEPT ![q] = @ \cup {ToolPlace(sess[q])}]
    BY <1>5 DEF CallTool, requestVars, localVars, sharedVars
  <2>2. q \notin met => ToolPlace(sess[q]) = target[q]
    BY <1>1, <2>1 DEF Guarded, ToolPlace
  <2>3. \A r \in Runs : Guarded(r)'
    BY <1>1, <2>1, <2>2 DEF Guarded, LocalsTyped
  <2>4. OverlapsAreMet' /\ MetExecute'
    BY <1>1, <2>1 DEF OverlapsAreMet, MetExecute
  <2>. QED  BY <1>3, <2>3, <2>4 DEF GuardInv
<1>6. CASE pc[q] = "running" /\ LeaveTurn(q) /\ pc'[q] # "running"
  <2>1. /\ running' = [running EXCEPT ![conn[q]] = @ \ {sess[q]}]
        /\ slot' = [slot EXCEPT ![sess[q]] = NoRun]
        /\ met' = met \ {q}
        /\ conn[q] \in Conns /\ sess[q] \in Sessions
    BY <1>1, <1>6 DEF LeaveTurn, LocalsTyped
  <2>2. OverlapsAreMet'
    BY <1>1, <1>2, <1>6, <2>1 DEF OverlapsAreMet, Untouched
  <2>3. MetExecute'
    BY <1>1, <1>2, <2>1 DEF MetExecute, Untouched, SharedTyped
  <2>4. ASSUME NEW r \in Runs \ {q} PROVE Guarded(r)'
    <3>1. SUFFICES ASSUME pc[r] = "running", r \notin met' PROVE Guarded(r)'
      BY <1>2 DEF Guarded, Untouched
    <3>2. sess[r] # sess[q] /\ r \notin met
      BY <1>1, <1>6, <2>1, <3>1 DEF OverlapsAreMet
    <3>3. sess[r] \in Sessions /\ conn[r] \in Conns
      BY <1>1 DEF LocalsTyped
    <3>4. slot'[sess[r]] = slot[sess[r]] /\ (sess[r] \in running[conn[r]] => sess[r] \in running'[conn[r]])
      BY <1>1, <2>1, <3>2, <3>3 DEF SharedTyped
    <3>. QED  BY <1>1, <1>2, <3>1, <3>2, <3>4 DEF Guarded, Untouched
  <2>5. Guarded(q)'
    BY <1>6 DEF Guarded
  <2>. QED  BY <1>3, <2>2, <2>3, <2>4, <2>5 DEF GuardInv
<1>7. CASE pc[q] # "running" /\ pc'[q] # "running" /\ UNCHANGED <<running, slot, met>>
  <2>1. OverlapsAreMet' /\ MetExecute'
    BY <1>1, <1>2, <1>7 DEF OverlapsAreMet, MetExecute, Untouched, SharedTyped
  <2>2. \A r \in Runs : Guarded(r)'
    BY <1>1, <1>2, <1>7 DEF Guarded, Untouched
  <2>. QED  BY <1>3, <2>1, <2>2 DEF GuardInv
<1>. QED  BY <1>4, <1>5, <1>6, <1>7, RunTurnEffect

LEMMA StepKeepsGuard ==
    ASSUME IInv, GuardInv, [Next]_vars
    PROVE  GuardInv'
<1>1. ASSUME UNCHANGED <<running, slot, met>>, \A r \in Runs : Untouched(r)
      PROVE  GuardInv'
  <2>1. met \subseteq Runs
    BY TypedInParts DEF IInv, TypeOK, SharedTyped
  <2>. QED  BY <1>1, <2>1 DEF GuardInv, OverlapsAreMet, MetExecute, ToolsInside, Guarded, Untouched
<1>2. ASSUME NEW x \in ModeReqs, ModeActs(x) PROVE GuardInv'
  BY <1>1, <1>2, ModeTurnEffect, ModeLeavesRunsAlone
<1>3. CASE UNCHANGED vars
  BY <1>1, <1>3 DEF vars, requestVars, localVars, sharedVars, historyVars, Untouched
<1>. QED  BY <1>2, <1>3, RunKeepsGuard, NextByRequest

\* A turn that no other turn of its session overlaps keeps its busy mark and
\* has its tools on its own target, for any number of connections that share
\* the session, over HTTP or not, and whatever fails.
THEOREM LoneTurnsAreGuarded == Spec => []LoneTurnIsGuarded
<1>1. Init => GuardInv
  BY DEF Init, GuardInv, OverlapsAreMet, MetExecute, ToolsInside, Guarded, Calls, Idle
<1>2. IInv /\ GuardInv /\ [Next]_vars => GuardInv'
  BY StepKeepsGuard
<1>3. GuardInv => LoneTurnIsGuarded
  BY DEF GuardInv, Guarded, LoneTurnIsGuarded, Executing
<1>. QED  BY <1>1, <1>2, <1>3, InvariantHolds, PTL DEF Spec

-----------------------------------------------------------------------------
\* Under SerialAccess the chain of a socket is the session lock: a connection
\* has one request in flight, and it names one of its own sessions.
Chained ==
    /\ \A x \in Calls : InFlight(x) => <<conn[x], sess[x]>> \in Routes
    /\ \A x, y \in Calls : InFlight(x) /\ InFlight(y) /\ conn[x] = conn[y] => x = y

\* A request that acts arrives or is in flight, and only then names its session.
Continues(x) == InFlight(x) /\ conn'[x] = conn[x] /\ sess'[x] = sess[x]
Arrives(x) ==
    \E c \in Conns, s \in Sessions :
        /\ pc[x] = Idle
        /\ MayArrive(c, s)
        /\ conn'[x] = c
        /\ sess'[x] = s

\* Every step is a step of one request.
Actor(x) ==
    /\ \A y \in Calls \ {x} : Untouched(y)
    /\ Arrives(x) \/ Continues(x)

LEMMA RunIsActor ==
    ASSUME IInv, NEW r \in Runs, RunActs(r)
    PROVE  Actor(r)
<1>1. LocalsTyped /\ r \in Calls
  BY TypedInParts DEF IInv, TypeOK, Calls
<1>2. CASE \E c \in Conns, s \in Sessions, m \in MaybeMode : StartRun(r, c, s, m)
  <2>1. Arrives(r)
    BY <1>1, <1>2 DEF StartRun, Arrive, Arrives, LocalsTyped
  <2>. QED  BY <2>1, RunLeavesOthersAlone DEF Actor
<1>3. CASE RunStep(r) \/ CallTool(r) \/ FailRun(r)
  <2>1. UNCHANGED <<conn, sess>>
    BY <1>3 DEF RunStep, SelectTarget, CheckBudget, LoadSession, RecheckSession, CreateSession,
           ApplyAskedMode, PrepareSession, SaveInput, EnterTurn, EndTurn, ApplyQueuedMode,
           ReplyToRun, CallTool, FailRun, FinishRun, requestVars
  <2>2. InFlight(r)
    BY <1>3 DEF RunStep, SelectTarget, CheckBudget, LoadSession, RecheckSession, CreateSession,
           ApplyAskedMode, PrepareSession, SaveInput, EnterTurn, EndTurn, ApplyQueuedMode,
           ReplyToRun, CallTool, FailRun, InFlight, Steps
  <2>. QED  BY <2>1, <2>2, RunLeavesOthersAlone DEF Actor, Continues
<1>. QED  BY <1>2, <1>3 DEF RunActs

LEMMA ModeIsActor ==
    ASSUME IInv, NEW x \in ModeReqs, ModeActs(x)
    PROVE  Actor(x)
<1>1. LocalsTyped /\ x \in Calls
  BY TypedInParts DEF IInv, TypeOK, Calls
<1>2. CASE \E c \in Conns, s \in Sessions, m \in Modes : StartSetMode(x, c, s, m)
  <2>1. Arrives(x)
    BY <1>1, <1>2 DEF StartSetMode, Arrive, Arrives, LocalsTyped
  <2>. QED  BY <2>1, ModeLeavesOthersAlone DEF Actor
<1>3. CASE ModeStep(x) \/ FailSetMode(x)
  <2>1. UNCHANGED <<conn, sess>>
    BY <1>3 DEF ModeStep, ApplySetMode, ReplyToSetMode, FailSetMode, FinishSetMode, requestVars
  <2>2. InFlight(x)
    BY <1>3 DEF ModeStep, ApplySetMode, ReplyToSetMode, FailSetMode, InFlight, Steps
  <2>. QED  BY <2>1, <2>2, ModeLeavesOthersAlone DEF Actor, Continues
<1>. QED  BY <1>2, <1>3 DEF ModeActs

LEMMA StepKeepsChained ==
    ASSUME SerialAccess, IInv, Chained, [Next]_vars
    PROVE  Chained'
<1>1. ASSUME NEW x \in Calls, Actor(x)
      PROVE  Chained'
  <2>1. \A y \in Calls \ {x} : (InFlight(y)' <=> InFlight(y)) /\ conn'[y] = conn[y] /\ sess'[y] = sess[y]
    BY <1>1 DEF Actor, Untouched, InFlight
  <2>2. CASE Continues(x)
    BY <2>1, <2>2 DEF Continues, Chained
  <2>3. CASE Arrives(x)
    <3>1. PICK c \in Conns, s \in Sessions : MayArrive(c, s) /\ conn'[x] = c /\ sess'[x] = s
      BY <2>3 DEF Arrives
    <3>2. <<c, s>> \in Routes /\ \A y \in Calls : conn[y] = c => ~InFlight(y)
      BY <3>1 DEF MayArrive, SerialAccess
    <3>. QED  BY <2>1, <3>1, <3>2 DEF Chained
  <2>. QED  BY <1>1, <2>2, <2>3 DEF Actor
<1>2. CASE UNCHANGED vars
  BY <1>2 DEF vars, requestVars, Chained, InFlight
<1>. QED  BY <1>1, <1>2, NextByRequest, RunIsActor, ModeIsActor DEF Calls

\* Two requests in flight for one session are one request.
LEMMA ChainIsLock ==
    ASSUME SerialAccess, LocalsTyped, Chained,
           NEW x \in Calls, NEW y \in Calls, InFlight(x), InFlight(y), sess[x] = sess[y]
    PROVE  x = y
  BY DEF SerialAccess, Chained, LocalsTyped

LEMMA InitIsChained == Init => Chained
  BY DEF Init, Chained, InFlight, Steps, Idle

LEMMA SerialInvariant ==
    ASSUME SerialAccess
    PROVE  Spec => [](IInv /\ Chained)
<1>1. IInv /\ Chained /\ [Next]_vars => Chained'
  BY StepKeepsChained
<1>. QED  BY <1>1, InitIsChained, InvariantHolds, PTL DEF Spec

-----------------------------------------------------------------------------
\* What the refinement of SessionTurn needs besides: a turn finds its own entry
\* in the target map, tools have only executed inside a turn (ToolsInside), and a run that
\* has not passed SelectTarget has no target.
RunMarked(r) == pc[r] = "running" => slot[sess[r]] = r
TargetLater(r) == pc[r] \in {Idle, "targeting"} => target[r] = NoKind

RunOK(r) == RunMarked(r) /\ ToolsInside(r) /\ TargetLater(r)
SerialInv == IInv /\ Chained /\ \A r \in Runs : RunOK(r)

\* A step of another request leaves a run as it is, also its entry.
LEMMA OthersKeepRunOK ==
    ASSUME SerialAccess, SerialInv, NEW x \in Calls, NEW r \in Runs, r # x,
           Actor(x), (x \in Runs /\ RunActs(x)) \/ UNCHANGED slot
    PROVE  RunOK(r)'
<1>1. LocalsTyped /\ SharedTyped /\ RunOK(r) /\ r \in Calls /\ Chained /\ IInv
  BY TypedInParts DEF SerialInv, IInv, TypeOK, Calls
<1>2. Untouched(r)
  BY <1>1 DEF Actor
<1>3. ToolsInside(r)' /\ TargetLater(r)'
  BY <1>1, <1>2 DEF RunOK, ToolsInside, TargetLater, Untouched
<1>4. ASSUME pc[r] = "running" PROVE slot'[sess[r]] = slot[sess[r]]
  <2>1. InFlight(r)
    BY <1>4 DEF InFlight, Steps
  <2>2. CASE UNCHANGED slot
    BY <2>2
  <2>3. CASE x \in Runs /\ RunActs(x) /\ InFlight(x)
    <3>1. sess[x] # sess[r]
      BY <1>1, <2>1, <2>3, ChainIsLock
    <3>2. slot' = slot \/ \E q \in Runs \cup {NoRun} : slot' = [slot EXCEPT ![sess[x]] = q]
      BY <1>1, <2>3, RunTurnEffect DEF EnterTurn, CallTool, LeaveTurn, sharedVars
    <3>. QED  BY <1>1, <3>1, <3>2 DEF SharedTyped, LocalsTyped
  <2>4. CASE x \in Runs /\ RunActs(x) /\ ~InFlight(x)
    <3>1. pc[x] # "running" /\ pc[x] # "entering"
      BY <2>4 DEF InFlight, Steps
    <3>2. UNCHANGED slot
      BY <1>1, <2>4, <3>1, RunTurnEffect DEF EnterTurn, CallTool
    <3>. QED  BY <3>2
  <2>. QED  BY <2>2, <2>3, <2>4
<1>5. RunMarked(r)'
  BY <1>1, <1>2, <1>4 DEF RunOK, RunMarked, Untouched
<1>. QED  BY <1>3, <1>5 DEF RunOK

\* A run keeps itself so.
LEMMA RunKeepsRunOK ==
    ASSUME SerialInv, NEW r \in Runs, RunActs(r)
    PROVE  RunOK(r)'
<1>1. LocalsTyped /\ SharedTyped /\ RunOK(r) /\ r \in Calls
  BY TypedInParts DEF SerialInv, IInv, TypeOK, Calls
<1> USE <1>1 DEF RunOK, LocalsTyped, Go, FinishRun, Idle, requestVars, localVars, historyVars, sharedVars,
                 RunMarked, ToolsInside, TargetLater
<1>2. CASE \E c \in Conns, s \in Sessions, m \in MaybeMode : StartRun(r, c, s, m)
  BY <1>2 DEF StartRun, Arrive
<1>3. CASE SelectTarget(r) \/ CheckBudget(r)
  BY <1>3 DEF SelectTarget, CheckBudget
<1>4. CASE LoadSession(r) \/ RecheckSession(r) \/ CreateSession(r)
  BY <1>4 DEF LoadSession, RecheckSession, CreateSession
<1>5. CASE ApplyAskedMode(r) \/ PrepareSession(r) \/ SaveInput(r)
  BY <1>5 DEF ApplyAskedMode, PrepareSession, SaveInput
<1>6. CASE EnterTurn(r)
  BY <1>6 DEF EnterTurn, SharedTyped
<1>7. CASE CallTool(r)
  BY <1>7 DEF CallTool
<1>8. CASE EndTurn(r)
  BY <1>8 DEF EndTurn
<1>9. CASE ApplyQueuedMode(r) \/ ReplyToRun(r) \/ FailRun(r)
  BY <1>9 DEF ApplyQueuedMode, ReplyToRun, FailRun
<1> HIDE DEF RunOK, LocalsTyped, Go, FinishRun, Idle, requestVars, localVars, historyVars, sharedVars,
             RunMarked, ToolsInside, TargetLater
<1>. QED  BY <1>2, <1>3, <1>4, <1>5, <1>6, <1>7, <1>8, <1>9 DEF RunActs, RunStep

LEMMA StepKeepsSerialInv ==
    ASSUME SerialAccess, SerialInv, [Next]_vars, IInv'
    PROVE  SerialInv'
<1>1. Chained'
  BY StepKeepsChained DEF SerialInv
<1>2. ASSUME NEW r \in Runs PROVE RunOK(r)'
  <2>1. ASSUME NEW q \in Runs, RunActs(q) PROVE RunOK(r)'
    BY <2>1, RunKeepsRunOK, OthersKeepRunOK, RunIsActor DEF SerialInv, Calls
  <2>2. ASSUME NEW x \in ModeReqs, ModeActs(x) PROVE RunOK(r)'
    <3>1. UNCHANGED slot /\ Actor(x) /\ x \in Calls /\ r # x
      BY <2>2, ModeTurnEffect, ModeIsActor, AgentRunAssumption DEF SerialInv, Calls
    <3>. QED  BY <3>1, OthersKeepRunOK
  <2>3. CASE UNCHANGED vars
    BY <2>3 DEF vars, requestVars, localVars, sharedVars, historyVars, SerialInv, RunOK, RunMarked,
                ToolsInside, TargetLater
  <2>. QED  BY <2>1, <2>2, <2>3, NextByRequest
<1>. QED  BY <1>1, <1>2 DEF SerialInv

\* Every step of a run is a step of SessionTurn or changes nothing it sees.
LEMMA RunImplementsTurn ==
    ASSUME SerialAccess, SerialInv, NEW r \in Runs, RunActs(r)
    PROVE  Turn!Next \/ UNCHANGED Turn!vars
<1>1. LocalsTyped /\ SharedTyped /\ RunOK(r) /\ r \in Calls /\ Chained /\ IInv /\ SlotHasTurn /\ StageOK(r)
  BY TypedInParts DEF SerialInv, IInv, TypeOK, Calls
<1>2. ~(pc[r] = "running") => ~Turn!Holds(r)
  BY <1>1 DEF Turn!Holds, SlotHasTurn, Executing
<1>3. pc[r] = "running" => Turn!Holds(r) /\ slot[sess[r]] = r /\ sess[r] \in Sessions
  BY <1>1 DEF Turn!Holds, RunOK, RunMarked, LocalsTyped
<1> DEFINE Stays == UNCHANGED Turn!vars
           Forgets == Turn!Forget(r)
           Steps1 == Turn!Next \/ UNCHANGED Turn!vars
<1>4. Forgets => Turn!Next
  BY DEF Turn!Next
<1>5. FinishRun(r) => Turn!Fresh(r)
  BY DEF FinishRun, Turn!Fresh
<1>6. CASE \E c \in Conns, s \in Sessions, m \in MaybeMode : StartRun(r, c, s, m)
  <2>1. Stays
    BY <1>6 DEF StartRun, Turn!vars, localVars, sharedVars, historyVars
  <2>. QED  BY <2>1
<1>7. CASE SelectTarget(r)
  <2>1. CASE FinishRun(r)
    BY <1>2, <1>4, <1>5, <1>7, <2>1 DEF SelectTarget, Turn!Forget, sharedVars
  <2>2. CASE \E k \in Kinds : target' = [target EXCEPT ![r] = k] /\ UNCHANGED ranOn
    <3>1. target[r] = NoKind /\ ~Turn!Holds(r) /\ UNCHANGED slot
      BY <1>1, <1>2, <1>7 DEF SelectTarget, RunOK, TargetLater, sharedVars
    <3>2. Turn!Select(r)
      BY <2>2, <3>1 DEF Turn!Select
    <3>. QED  BY <3>2 DEF Turn!Next
  <2>. QED  BY <1>7, <2>1, <2>2 DEF SelectTarget
<1>8. CASE CheckBudget(r) \/ RecheckSession(r) \/ ReplyToRun(r)
  <2>1. UNCHANGED slot /\ ~Turn!Holds(r)
    BY <1>2, <1>8 DEF CheckBudget, RecheckSession, ReplyToRun, sharedVars
  <2>2. FinishRun(r) \/ UNCHANGED <<target, ranOn>>
    BY <1>8 DEF CheckBudget, RecheckSession, ReplyToRun, localVars
  <2>. QED  BY <1>4, <1>5, <2>1, <2>2 DEF Turn!Forget, Turn!vars
<1>9. CASE LoadSession(r) \/ CreateSession(r) \/ ApplyAskedMode(r) \/ PrepareSession(r) \/ SaveInput(r)
           \/ ApplyQueuedMode(r)
  <2>1. Stays
    BY <1>9 DEF LoadSession, CreateSession, ApplyAskedMode, PrepareSession, SaveInput, ApplyQueuedMode,
                Turn!vars, localVars, sharedVars, historyVars
  <2>. QED  BY <2>1
<1>10. CASE EnterTurn(r)
  <2>1. InFlight(r) /\ ~Turn!Holds(r) /\ target[r] # NoKind /\ ranOn[r] = {}
    BY <1>1, <1>2, <1>10 DEF EnterTurn, InFlight, Steps, StageOK, Targeted, Kinds, NoKind, RunOK, ToolsInside
  <2>2. slot[sess[r]] = NoRun
    <3>1. SUFFICES ASSUME slot[sess[r]] # NoRun PROVE FALSE
      OBVIOUS
    <3>2. Executing(slot[sess[r]], sess[r]) /\ slot[sess[r]] \in Runs
      BY <1>1, <3>1 DEF SlotHasTurn, SharedTyped, LocalsTyped
    <3>3. InFlight(slot[sess[r]]) /\ sess[slot[sess[r]]] = sess[r] /\ slot[sess[r]] \in Calls
      BY <3>2 DEF Executing, InFlight, Steps, Calls
    <3>4. slot[sess[r]] = r
      BY <1>1, <2>1, <3>3, ChainIsLock
    <3>. QED  BY <1>10, <3>2, <3>4 DEF EnterTurn, Executing
  <2>3. Turn!Take(r, sess[r])
    BY <1>10, <2>1, <2>2 DEF EnterTurn, Turn!Take, localVars, historyVars
  <2>4. sess[r] \in Sessions
    BY <1>1 DEF LocalsTyped
  <2>. QED  BY <2>3, <2>4 DEF Turn!Next
<1>11. CASE CallTool(r)
  <2>1. ToolPlace(sess[r]) = target[r] /\ Turn!Holds(r)
    BY <1>3, <1>11, AgentRunAssumption DEF CallTool, ToolPlace
  <2>2. Turn!UseTool(r)
    BY <1>11, <2>1 DEF CallTool, Turn!UseTool, localVars, sharedVars
  <2>. QED  BY <2>2 DEF Turn!Next
<1>12. CASE EndTurn(r)
  <2>1. Turn!Release(r, sess[r]) /\ sess[r] \in Sessions
    BY <1>3, <1>12 DEF EndTurn, LeaveTurn, Turn!Release, historyVars
  <2>. QED  BY <2>1 DEF Turn!Next
<1>13. CASE FailRun(r)
  <2>1. CASE pc[r] = "running"
    <3>1. Turn!Abandon(r, sess[r]) /\ sess[r] \in Sessions
      BY <1>3, <1>5, <1>13, <2>1 DEF FailRun, LeaveTurn, Turn!Abandon
    <3>. QED  BY <3>1 DEF Turn!Next
  <2>2. CASE pc[r] # "running"
    BY <1>2, <1>4, <1>5, <1>13, <2>2 DEF FailRun, Turn!Forget
  <2>. QED  BY <2>1, <2>2
<1>. QED  BY <1>6, <1>7, <1>8, <1>9, <1>10, <1>11, <1>12, <1>13 DEF RunActs, RunStep

LEMMA StepImplementsTurn ==
    ASSUME SerialAccess, SerialInv, [Next]_vars
    PROVE  [Turn!Next]_(Turn!vars)
<1>1. ASSUME NEW x \in ModeReqs, ModeActs(x) PROVE UNCHANGED Turn!vars
  BY <1>1 DEF ModeActs, ModeStep, StartSetMode, ApplySetMode, ReplyToSetMode, FailSetMode, FinishSetMode,
              Turn!vars, sharedVars, localVars
<1>2. CASE UNCHANGED vars
  BY <1>2 DEF vars, localVars, sharedVars, historyVars, Turn!vars
<1>. QED  BY <1>1, <1>2, NextByRequest, RunImplementsTurn

LEMMA InitMeetsSerialInv == Init => SerialInv /\ Turn!Init
<1> SUFFICES ASSUME Init PROVE SerialInv /\ Turn!Init
  OBVIOUS
<1>1. \A r \in Runs : RunOK(r)
  BY DEF Init, RunOK, RunMarked, ToolsInside, TargetLater, Calls, Idle
<1>2. Turn!Init
  BY DEF Init, Turn!Init
<1>. QED  BY <1>1, <1>2, InitEstablishesIInv, InitIsChained DEF SerialInv

\* Where each session is used from one WebSocket the handlers keep the promise
\* of SessionTurn: a turn holds its session alone and its tools execute on the
\* target its run selected, whatever fails and however many there are.
THEOREM SerialTurnsKeepPromise ==
    ASSUME SerialAccess
    PROVE  Spec => ImplementsTurns
<1>1. Init => SerialInv /\ Turn!Init
  BY InitMeetsSerialInv
<1>2. SerialInv /\ [Next]_vars /\ IInv' => SerialInv'
  BY StepKeepsSerialInv
<1>3. SerialInv /\ [Next]_vars => [Turn!Next]_(Turn!vars)
  BY StepImplementsTurn
<1>. QED  BY <1>1, <1>2, <1>3, InvariantHolds, PTL DEF Spec, ImplementsTurns, Turn!Spec

-----------------------------------------------------------------------------
\* Behind the chain of a socket no change is ever queued, the copy of the row a
\* run writes back is fresh, and a row has the mode that was accepted last.
FreshCopy(r) == pc[r] = "saving" => view[r] = mode[sess[r]]
NothingQueued == \A c \in Conns, s \in Sessions : queued[c][s] = NoMode
ModeInv ==
    /\ NothingQueued
    /\ \A r \in Runs : pc[r] # "draining" /\ FreshCopy(r)
    /\ \A s \in Sessions : mode[s] = intent[s]

LEMMA RunKeepsModeInv ==
    ASSUME SerialAccess, IInv, Chained, ModeInv, NEW r \in Runs, RunActs(r)
    PROVE  ModeInv'
<1>1. LocalsTyped /\ SharedTyped /\ r \in Calls /\ Runs \subseteq Calls
  BY TypedInParts DEF IInv, TypeOK, Calls
<1>2. Actor(r)
  BY RunIsActor
<1>3. NothingQueued'
  <2>1. CASE EndTurn(r)
    BY <1>1, <2>1 DEF EndTurn, ModeInv, NothingQueued, SharedTyped, LocalsTyped
  <2>2. RunActs(r) => EndTurn(r) \/ UNCHANGED queued
    BY DEF RunActs, RunStep, StartRun, Arrive, SelectTarget, CheckBudget, LoadSession, RecheckSession,
           CreateSession, ApplyAskedMode, PrepareSession, SaveInput, EnterTurn, ApplyQueuedMode,
           ReplyToRun, CallTool, FailRun, sharedVars
  <2>. QED  BY <2>1, <2>2 DEF ModeInv, NothingQueued
<1>4. pc'[r] # "draining"
  <2>1. CASE EndTurn(r)
    <3>1. queued[conn[r]][sess[r]] = NoMode
      BY <1>1 DEF ModeInv, NothingQueued, LocalsTyped
    <3>. QED  BY <1>1, <2>1, <3>1 DEF EndTurn, Go, LocalsTyped
  <2>2. RunActs(r) => EndTurn(r) \/ pc'[r] # "draining"
    BY <1>1 DEF RunActs, RunStep, StartRun, Arrive, SelectTarget, CheckBudget, LoadSession, RecheckSession,
           CreateSession, ApplyAskedMode, PrepareSession, SaveInput, EnterTurn, ApplyQueuedMode,
           ReplyToRun, CallTool, FailRun, FinishRun, Go, LocalsTyped, Idle, requestVars, ModeInv
  <2>. QED  BY <2>1, <2>2
<1>5. \/ mode' = mode /\ intent' = intent
      \/ \E m \in Modes : mode' = [mode EXCEPT ![sess[r]] = m] /\ intent' = [intent EXCEPT ![sess[r]] = m]
  <2>1. CASE CreateSession(r)
    BY <2>1 DEF CreateSession, IInv, TypeOK, StageOK, Viewing
  <2>2. CASE ApplyAskedMode(r)
    <3>1. ask[r] \notin {NoMode, view[r]} => ask[r] \in Modes
      BY <1>1 DEF LocalsTyped, MaybeMode
    <3>. QED  BY <2>2, <3>1 DEF ApplyAskedMode
  <2>3. CASE SaveInput(r)
    <3>1. view[r] = mode[sess[r]]
      BY <2>3 DEF SaveInput, ModeInv, FreshCopy
    <3>2. mode' = mode
      BY <1>1, <2>3, <3>1 DEF SaveInput, SharedTyped
    <3>. QED  BY <2>3, <3>2 DEF SaveInput, historyVars
  <2>4. CASE ApplyQueuedMode(r)
    BY <2>4 DEF ApplyQueuedMode, ModeInv
  <2>5. RunActs(r) => \/ CreateSession(r) \/ ApplyAskedMode(r) \/ SaveInput(r) \/ ApplyQueuedMode(r)
                      \/ UNCHANGED <<mode, intent>>
    BY DEF RunActs, RunStep, StartRun, SelectTarget, CheckBudget, LoadSession, RecheckSession,
           PrepareSession, EnterTurn, EndTurn, ReplyToRun, CallTool, FailRun, historyVars
  <2>. QED  BY <2>1, <2>2, <2>3, <2>4, <2>5
<1>6. \A s \in Sessions : mode'[s] = intent'[s]
  BY <1>1, <1>5 DEF ModeInv, SharedTyped
<1>7. FreshCopy(r)'
  <2>1. CASE PrepareSession(r)
    BY <1>1, <2>1 DEF PrepareSession, FreshCopy, LocalsTyped, requestVars
  <2>2. RunActs(r) => PrepareSession(r) \/ pc'[r] # "saving" \/ UNCHANGED <<pc, sess, view, mode>>
    BY <1>1 DEF RunActs, RunStep, StartRun, Arrive, SelectTarget, CheckBudget, LoadSession, RecheckSession,
           CreateSession, ApplyAskedMode, SaveInput, EnterTurn, EndTurn, ApplyQueuedMode,
           ReplyToRun, CallTool, FailRun, FinishRun, Go, LocalsTyped, Idle, requestVars, localVars
  <2>. QED  BY <2>1, <2>2 DEF FreshCopy, ModeInv
<1>8. ASSUME NEW q \in Runs, q # r PROVE pc'[q] # "draining" /\ FreshCopy(q)'
  <2>1. Untouched(q) /\ q \in Calls
    BY <1>1, <1>2, <1>8 DEF Actor
  <2>2. ASSUME pc[q] = "saving" PROVE mode'[sess[q]] = mode[sess[q]]
    <3>1. InFlight(q)
      BY <2>2 DEF InFlight, Steps
    <3>2. CASE InFlight(r)
      <4>1. sess[r] # sess[q]
        BY <1>1, <1>8, <2>1, <3>1, <3>2, ChainIsLock
      <4>. QED  BY <1>1, <1>5, <4>1 DEF SharedTyped, LocalsTyped
    <3>3. CASE ~InFlight(r)
      <4>1. UNCHANGED mode
        BY <3>3 DEF RunActs, RunStep, StartRun, SelectTarget, CheckBudget, LoadSession, RecheckSession,
               CreateSession, ApplyAskedMode, PrepareSession, SaveInput, EnterTurn, EndTurn,
               ApplyQueuedMode, ReplyToRun, CallTool, FailRun, InFlight, Steps
      <4>. QED  BY <4>1
    <3>. QED  BY <3>2, <3>3
  <2>. QED  BY <2>1, <2>2 DEF Untouched, FreshCopy, ModeInv
<1>. QED  BY <1>3, <1>4, <1>6, <1>7, <1>8 DEF ModeInv

LEMMA ModeReqKeepsModeInv ==
    ASSUME SerialAccess, IInv, Chained, ModeInv, NEW x \in ModeReqs, ModeActs(x)
    PROVE  ModeInv'
<1>1. LocalsTyped /\ SharedTyped /\ x \in Calls /\ Runs \subseteq Calls /\ BusyMarkerHasTurn
  BY TypedInParts DEF IInv, TypeOK, Calls
<1>2. Actor(x) /\ \A r \in Runs : Untouched(r)
  BY ModeIsActor, ModeLeavesRunsAlone
<1>3. CASE \E c \in Conns, s \in Sessions, m \in Modes : StartSetMode(x, c, s, m)
  <2>1. PICK c \in Conns, s \in Sessions, m \in Modes : StartSetMode(x, c, s, m)
    BY <1>3
  <2>2. s \notin running[c]
    <3>1. \A y \in Calls : conn[y] = c => ~InFlight(y)
      BY <2>1 DEF StartSetMode, Arrive, MayArrive, SerialAccess
    <3>2. ASSUME s \in running[c] PROVE FALSE
      <4>1. PICK r \in Runs : Executing(r, s) /\ conn[r] = c
        BY <1>1, <3>2 DEF BusyMarkerHasTurn
      <4>. QED  BY <1>1, <3>1, <4>1 DEF Executing, InFlight, Steps
    <3>. QED  BY <3>2
  <2>3. UNCHANGED <<queued, mode, intent>>
    BY <2>1, <2>2 DEF StartSetMode
  <2>. QED  BY <1>2, <2>3 DEF ModeInv, NothingQueued, FreshCopy, Untouched
<1>4. CASE ApplySetMode(x)
  <2>1. UNCHANGED queued
    BY <1>4 DEF ApplySetMode, sharedVars
  <2>2. \A s \in Sessions : mode'[s] = intent'[s]
    BY <1>1, <1>4 DEF ApplySetMode, ModeInv, SharedTyped
  <2>3. ASSUME NEW r \in Runs PROVE pc'[r] # "draining" /\ FreshCopy(r)'
    <3>1. ASSUME pc[r] = "saving" PROVE mode'[sess[r]] = mode[sess[r]]
      <4>1. InFlight(r) /\ InFlight(x) /\ r # x /\ r \in Calls
        BY <1>1, <1>4, <3>1, AgentRunAssumption DEF ApplySetMode, InFlight, Steps
      <4>2. sess[x] # sess[r]
        BY <1>1, <4>1, ChainIsLock
      <4>. QED  BY <1>1, <1>4, <4>2 DEF ApplySetMode, SharedTyped, LocalsTyped
    <3>. QED  BY <1>2, <3>1 DEF Untouched, FreshCopy, ModeInv
  <2>. QED  BY <2>1, <2>2, <2>3 DEF ModeInv, NothingQueued
<1>5. CASE ReplyToSetMode(x) \/ FailSetMode(x)
  <2>1. UNCHANGED <<queued, mode, intent>>
    BY <1>5 DEF ReplyToSetMode, FailSetMode, sharedVars
  <2>. QED  BY <1>2, <2>1 DEF ModeInv, NothingQueued, FreshCopy, Untouched
<1>. QED  BY <1>3, <1>4, <1>5 DEF ModeActs, ModeStep

\* Where each session is used from one WebSocket the stored mode is the one
\* accepted last, although runs write whole rows back and may fail anywhere.
THEOREM SerialModesAreKept ==
    ASSUME SerialAccess
    PROVE  Spec => []LastAcceptedModeWins
<1>1. Init => ModeInv
  BY DEF Init, ModeInv, NothingQueued, FreshCopy, Calls, Idle
<1>2. IInv /\ Chained /\ ModeInv /\ [Next]_vars => ModeInv'
  <2>1. ASSUME ModeInv, UNCHANGED vars PROVE ModeInv'
    BY <2>1 DEF vars, requestVars, localVars, sharedVars, historyVars, ModeInv, NothingQueued, FreshCopy
  <2>. QED  BY <2>1, RunKeepsModeInv, ModeReqKeepsModeInv, NextByRequest
<1>3. ModeInv => LastAcceptedModeWins
  BY DEF ModeInv, LastAcceptedModeWins
<1>. QED  BY <1>1, <1>2, <1>3, SerialInvariant, PTL DEF Spec
=============================================================================
