------------------------------- MODULE PiCore --------------------------------
(***************************************************************************)
(* The core service over the agent library: an agent works in a promise of *)
(* its own and pushes events into a queue; the generator that the gateway  *)
(* consumes takes them out.  Either may be ahead of the other, the         *)
(* consumer may give up in the middle, and runs of one session may overlap.*)
(*                                                                         *)
(* Abstracted: the messages of a turn are the turn; every event that is    *)
(* neither "accepted" nor the last one is "progress".  The agent library   *)
(* is external: its prompt may report an error or its abort once, and ends *)
(* by resolving or rejecting, whether or not it heard of an abort.         *)
(***************************************************************************)
EXTENDS Naturals, Sequences, FiniteSets

CONSTANTS
    Sessions,
    KeepTurns,    \* MAX_SESSION_CONTEXT_MESSAGES
    MaxRuns,      \* bound on runs
    MaxAtOnce,    \* bound on the runs that are consumed at once
    MaxQueue,     \* bound on the events that wait in one queue
    None

ASSUME PiCoreAssumption ==
    /\ KeepTurns \in Nat /\ MaxRuns \in Nat /\ MaxAtOnce \in Nat /\ MaxQueue \in Nat
    /\ None \notin Sessions

Runs == 1 .. MaxRuns
Terminal == {"completed", "failed"}

VARIABLES
    runCounter,
    running,     \* the keys of the map
    aborted,     \* activeRun.aborted
    session,     \* the session of a run
    gen,         \* the generator: "none", "accepted", "refused", "unfit",
                 \* "waiting" for or "handing" over an event, "done",
                 \* "threw" before it had an agent, "left" by its consumer
    agent,       \* "none", "working", "stopped" after its failed message, "over"
    told,        \* the runs whose agent.abort() has been called
    queue, closed,
    base,        \* the messages an agent was created with
    history,     \* sessionMessageHistory
    heard,       \* history: what the consumer has had, "nothing", "events",
                 \* an "outcome" as the last one, or "more" behind an outcome
    finished,    \* history: the turns of a session in the order they ended
    overlapped,  \* history: sessions that two agents worked for at once
    leaked       \* history: runs left where no finally block guards the map

agentVars == <<agent, told, queue, closed, base, history, finished, overlapped>>
vars == <<runCounter, running, aborted, session, gen, heard, leaked, agentVars>>

Init ==
    /\ runCounter = 0 /\ running = {} /\ aborted = {} /\ told = {} /\ closed = {}
    /\ session = [r \in Runs |-> None]
    /\ gen = [r \in Runs |-> "none"] /\ agent = [r \in Runs |-> "none"]
    /\ queue = [r \in Runs |-> <<>>] /\ base = [r \in Runs |-> <<>>]
    /\ heard = [r \in Runs |-> "nothing"]
    /\ history = [s \in Sessions |-> <<>>] /\ finished = history
    /\ overlapped = {} /\ leaked = {}

-----------------------------------------------------------------------------
Hands(r, e) ==
    heard' = [heard EXCEPT ![r] = IF @ \in {"outcome", "more"} THEN "more"
                                  ELSE IF e \in Terminal THEN "outcome" ELSE "events"]
Moves(r, to) == gen' = [gen EXCEPT ![r] = to]

\* run: the first event is handed over outside the try block.
Run(s) ==
    /\ runCounter < MaxRuns /\ runCounter' = runCounter + 1
    /\ Cardinality({r \in Runs : gen[r] \notin {"none", "done", "threw", "left"}}) < MaxAtOnce
    /\ running' = running \cup {runCounter'}
    /\ session' = [session EXCEPT ![runCounter'] = s]
    /\ Moves(runCounter', "accepted") /\ Hands(runCounter', "accepted")
    /\ UNCHANGED <<aborted, leaked, agentVars>>

\* An abort that came before the agent: its refusal is no longer in a try either.
Refuse(r) ==
    /\ gen[r] = "accepted" /\ r \in aborted
    /\ Moves(r, "refused") /\ Hands(r, "failed")
    /\ UNCHANGED <<runCounter, running, aborted, session, leaked, agentVars>>

\* No model or no key.
Unfit(r) ==
    /\ gen[r] = "accepted" /\ r \notin aborted
    /\ Moves(r, "unfit") /\ Hands(r, "failed")
    /\ UNCHANGED <<runCounter, running, aborted, session, leaked, agentVars>>

\* The try block has no catch: the settings cannot be read (no JSON, a variable
\* that is not set) or the files of the workspace cannot be written, and the
\* consumer gets an exception in place of the next event.
Throws(r) ==
    /\ gen[r] = "accepted" /\ r \notin aborted
    /\ running' = running \ {r}
    /\ Moves(r, "threw")
    /\ UNCHANGED <<runCounter, aborted, session, heard, leaked, agentVars>>

Peers(r) == {o \in Runs \ {r} : session[o] = session[r] /\ agent[o] \in {"working", "stopped"}}

Created(r) ==
    /\ base' = [base EXCEPT ![r] = history[session[r]]]
    /\ agent' = [agent EXCEPT ![r] = "working"]
    /\ overlapped' = IF Peers(r) = {} THEN overlapped ELSE overlapped \cup {session[r]}
    /\ Moves(r, "waiting")
    /\ UNCHANGED <<runCounter, running, aborted, session, heard, leaked,
                   told, queue, closed, history, finished>>

\* Mutation: nobody looks at the flag before the agent is created.
StartUnasked(r) == gen[r] = "accepted" /\ Created(r)

\* The agent is created over a copy of the session's messages and prompted.
Start(r) ==
    /\ gen[r] = "accepted" /\ r \notin aborted
    /\ Created(r)

\* The loop of the generator takes the next event.
Take(r) ==
    /\ gen[r] \in {"waiting", "handing"} /\ queue[r] # <<>>
    /\ Moves(r, "handing") /\ Hands(r, Head(queue[r]))
    /\ queue' = [queue EXCEPT ![r] = Tail(@)]
    /\ UNCHANGED <<runCounter, running, aborted, session, leaked,
                   agent, told, closed, base, history, finished, overlapped>>

\* It ends with the queue, or after one of the early refusals.
End(r) ==
    /\ \/ gen[r] \in {"waiting", "handing"} /\ queue[r] = <<>> /\ r \in closed
       \/ gen[r] \in {"refused", "unfit"}
    /\ running' = running \ {r} /\ aborted' = aborted \ {r}
    /\ Moves(r, "done")
    /\ UNCHANGED <<runCounter, session, heard, leaked, agentVars>>

\* Mutation: the generator has no finally block.
GiveUpDirty(r) ==
    /\ gen[r] \in {"accepted", "refused", "unfit", "handing"}
    /\ leaked' = IF gen[r] \in {"accepted", "refused"} THEN leaked \cup {r} ELSE leaked
    /\ Moves(r, "left")
    /\ UNCHANGED <<runCounter, running, aborted, session, heard, agentVars>>

\* The consumer throws over the event it was handed, which returns the
\* generator: its finally block removes the entry, unless it is not in the try
\* block.  An agent that is at work goes on.
GiveUp(r) ==
    /\ gen[r] \in {"accepted", "refused", "unfit", "handing"}
    /\ IF gen[r] \in {"accepted", "refused"}
       THEN leaked' = leaked \cup {r} /\ UNCHANGED running
       ELSE running' = running \ {r} /\ UNCHANGED leaked
    /\ Moves(r, "left")
    /\ queue' = [queue EXCEPT ![r] = <<>>] /\ aborted' = aborted \ {r}
    /\ UNCHANGED <<runCounter, session, heard,
                   agent, told, closed, base, history, finished, overlapped>>

\* abort: nothing happens to a run that is not in the map.
Abort(r) ==
    /\ r \in running
    /\ aborted' = aborted \cup {r}
    /\ told' = IF agent[r] \in {"working", "stopped"} THEN told \cup {r} ELSE told
    /\ UNCHANGED <<runCounter, running, session, gen, heard, leaked,
                   agent, queue, closed, base, history, finished, overlapped>>

-----------------------------------------------------------------------------
\* Nobody takes what is pushed for a consumer that has left.
Push(r, events) == queue' = IF gen[r] = "left" THEN queue ELSE [queue EXCEPT ![r] = @ \o events]

Progress(r) ==
    /\ agent[r] = "working" /\ Len(queue[r]) < MaxQueue
    /\ Push(r, <<"progress">>)
    /\ UNCHANGED <<runCounter, running, aborted, session, gen, heard, leaked,
                   agent, told, closed, base, history, finished, overlapped>>

\* mapPiEvent of a message_end whose stopReason is an error or the abort.
Stop(r) ==
    /\ agent[r] = "working"
    /\ Push(r, <<"failed">>)
    /\ agent' = [agent EXCEPT ![r] = "stopped"]
    /\ UNCHANGED <<runCounter, running, aborted, session, gen, heard, leaked,
                   told, closed, base, history, finished, overlapped>>

\* Mutation: the oldest messages are the ones that stay.
TrimmedToOldest(turns) == IF Len(turns) <= KeepTurns THEN turns ELSE SubSeq(turns, 1, KeepTurns)

\* trimSessionMessages
Trimmed(turns) == IF Len(turns) <= KeepTurns THEN turns
                  ELSE SubSeq(turns, Len(turns) - KeepTurns + 1, Len(turns))

Over(r) ==
    /\ history' = [history EXCEPT ![session[r]] = Trimmed(Append(base[r], r))]
    /\ finished' = [finished EXCEPT ![session[r]] = Append(@, r)]
    /\ agent' = [agent EXCEPT ![r] = "over"] /\ base' = [base EXCEPT ![r] = <<>>]
    /\ running' = running \ {r} /\ told' = told \ {r}
    /\ UNCHANGED <<runCounter, aborted, session, gen, heard, leaked, overlapped>>

\* Mutation: the queue stays open.
PromptEndsOpen(r) ==
    /\ agent[r] \in {"working", "stopped"}
    /\ \E e \in Terminal : Push(r, IF agent[r] = "stopped" THEN <<>> ELSE <<e>>)
    /\ Over(r) /\ UNCHANGED closed

\* Mutation: a failure that was reported does not keep the outcome back.
PromptEndsTwice(r) ==
    /\ agent[r] \in {"working", "stopped"}
    /\ \E e \in Terminal : Push(r, <<e>>)
    /\ Over(r) /\ closed' = closed \cup {r}

\* promptTask: agent.prompt resolves or rejects; the outcome is pushed unless
\* a failure has been; then the messages are stored and the queue is closed.
PromptEnds(r) ==
    /\ agent[r] \in {"working", "stopped"}
    /\ \E e \in Terminal : Push(r, IF agent[r] = "stopped" THEN <<>> ELSE <<e>>)
    /\ Over(r) /\ closed' = closed \cup {r}

Consume(r) == Refuse(r) \/ Unfit(r) \/ Throws(r) \/ Start(r) \/ Take(r) \/ End(r)

Next ==
    \/ \E s \in Sessions : Run(s)
    \/ \E r \in Runs : \/ Consume(r) \/ GiveUp(r) \/ Abort(r)
                       \/ Progress(r) \/ Stop(r) \/ PromptEnds(r)

Spec == Init /\ [][Next]_vars

\* The gateway's loop asks for the next event, and the agent's prompt settles.
FairSpec == Spec /\ \A r \in Runs : WF_vars(Consume(r)) /\ WF_vars(PromptEnds(r))
-----------------------------------------------------------------------------
TypeOK ==
    /\ runCounter \in 0 .. MaxRuns
    /\ running \cup aborted \cup told \cup closed \cup leaked \subseteq Runs
    /\ session \in [Runs -> Sessions \cup {None}]
    /\ heard \in [Runs -> {"nothing", "events", "outcome", "more"}]
    /\ queue \in [Runs -> Seq(Terminal \cup {"progress"})]
    /\ gen \in [Runs -> {"none", "accepted", "refused", "unfit", "waiting", "handing", "done", "threw", "left"}]
    /\ agent \in [Runs -> {"none", "working", "stopped", "over"}]
    /\ base \in [Runs -> Seq(Runs)]
    /\ history \in [Sessions -> Seq(Runs)] /\ finished \in [Sessions -> Seq(Runs)]
    /\ overlapped \subseteq Sessions

\* A consumer is told the outcome of its run once and as the last event, and
\* sees the stream end without it only in an exception that came before the
\* agent: no agent ever works for a run whose stream has thrown.
OneOutcome ==
    \A r \in Runs :
        /\ heard[r] # "more"
        /\ gen[r] = "done" => heard[r] = "outcome"
        /\ gen[r] = "threw" => heard[r] = "events" /\ agent[r] = "none"

\* The messages of a session are those of its latest turns, in the order they
\* ended, as long as no two agents worked for the session at once; a consumer
\* that gives up is enough for that.
HistoryIsKept ==
    \A s \in Sessions \ overlapped :
        LET n == Len(finished[s])
            k == IF n < KeepTurns THEN n ELSE KeepTurns
        IN  history[s] = SubSeq(finished[s], n - k + 1, n)

\* An entry of the map is a run that is not over, so that an abort reaches
\* something, and a run whose agent works for a consumer has one; only a
\* consumer that gives up on the first or on the refusing event leaves one.
RunningIsLive ==
    \A r \in Runs :
        /\ r \in running \ leaked => gen[r] \notin {"none", "done", "threw", "left"}
        /\ agent[r] \in {"working", "stopped"} /\ gen[r] # "left" => r \in running

\* An abort that found its run has stopped it before the agent or has been
\* passed to the agent.
AbortReaches == \A r \in aborted : agent[r] \in {"working", "stopped"} => r \in told

\* A run that is consumed comes to its end.
RunEnds == \A r \in Runs : gen[r] = "accepted" ~> gen[r] \in {"done", "threw", "left"}
=============================================================================
