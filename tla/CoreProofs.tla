----------------------------- MODULE CoreProofs ------------------------------
(***************************************************************************)
(* What holds of the core service over the agent library for any number of *)
(* sessions, runs and queued events and any length of the kept history,    *)
(* and of the legacy core for any number of sockets, runs, aborts and ids. *)
(***************************************************************************)
EXTENDS PiCore, CoreRuns, FiniteSetTheorems, SequenceTheorems, TLAPS

-----------------------------------------------------------------------------
(* The core service over the agent library.                               *)

Event == Terminal \cup {"progress"}
Active == {"working", "stopped"}

\* A queue to which the outcome has not been pushed, and one that ends with it.
OnlyProgress(q) == \A i \in 1 .. Len(q) : q[i] = "progress"
Concluded(q) ==
    /\ Len(q) > 0 /\ q[Len(q)] \in Terminal
    /\ \A i \in 1 .. Len(q) : i # Len(q) => q[i] = "progress"

\* The generator, the agent and the queue of a run keep in step: what the
\* consumer has had and what waits for it is never more than one outcome.
InStep(r) ==
    /\ gen[r] = "none" <=> r > runCounter
    /\ gen[r] # "none" => session[r] \in Sessions
    /\ agent[r] = "none" => queue[r] = <<>> /\ gen[r] \notin {"waiting", "handing"}
    /\ agent[r] # "none" => gen[r] \in {"waiting", "handing", "done", "left"}
    /\ gen[r] = "done" => agent[r] \notin Active
    /\ r \in closed <=> agent[r] = "over"

Delivered(r) ==
    /\ gen[r] = "none" => heard[r] = "nothing"
    /\ gen[r] = "accepted" => heard[r] = "events"
    /\ gen[r] \in {"refused", "unfit", "done"} => heard[r] = "outcome"
    /\ gen[r] = "threw" => heard[r] = "events"
    /\ gen[r] \in {"waiting", "handing"} =>
          \/ agent[r] = "working" /\ heard[r] = "events" /\ OnlyProgress(queue[r])
          \/ agent[r] # "working" /\ heard[r] = "events" /\ Concluded(queue[r])
          \/ agent[r] # "working" /\ heard[r] = "outcome" /\ queue[r] = <<>>
    /\ gen[r] = "left" => heard[r] # "more" /\ queue[r] = <<>>

\* The entry of a run in the map, and the abort that found it there.
Entered(r) ==
    /\ r \in running \ leaked => gen[r] \notin {"none", "done", "threw", "left"}
    /\ agent[r] \in Active /\ gen[r] # "left" => r \in running
    /\ gen[r] = "accepted" => r \in running
    /\ r \in aborted /\ agent[r] \in Active => r \in told

RunInv(r) == InStep(r) /\ Delivered(r) /\ Entered(r)

\* The last KeepTurns of a sequence.
Lasts(turns) ==
    IF Len(turns) <= KeepTurns THEN turns
    ELSE SubSeq(turns, Len(turns) - KeepTurns + 1, Len(turns))

\* The only agent of a session works with what is stored for it.
Kept(s) ==
    /\ history[s] = Lasts(finished[s])
    /\ \A r \in Runs : session[r] = s /\ agent[r] \in Active =>
          /\ base[r] = history[s]
          /\ \A o \in Runs : session[o] = s /\ agent[o] \in Active => o = r

IInv ==
    /\ TypeOK
    /\ \A r \in Runs : RunInv(r)
    /\ \A s \in Sessions \ overlapped : Kept(s)
-----------------------------------------------------------------------------
\* What a push and a take do to a queue.
LEMMA Pushed ==
    ASSUME NEW q \in Seq(Event)
    PROVE  /\ q \o <<>> = q
           /\ q \o <<"progress">> \in Seq(Event)
           /\ OnlyProgress(q) => OnlyProgress(q \o <<"progress">>)
           /\ \A e \in Terminal : /\ q \o <<e>> \in Seq(Event)
                                  /\ OnlyProgress(q) => Concluded(q \o <<e>>)
<1>1. \A e \in Event : /\ q \o <<e>> \in Seq(Event) /\ Len(q \o <<e>>) = Len(q) + 1
                       /\ (q \o <<e>>)[Len(q) + 1] = e
                       /\ \A i \in 1 .. Len(q) : (q \o <<e>>)[i] = q[i]
  OBVIOUS
<1>2. q \o <<>> = q
  OBVIOUS
<1>3. Len(q) \in Nat /\ "progress" \in Event /\ Terminal \subseteq Event
  BY DEF Event
<1>4. OnlyProgress(q) => OnlyProgress(q \o <<"progress">>)
  BY <1>1, <1>3 DEF OnlyProgress
<1>5. \A e \in Terminal : OnlyProgress(q) => Concluded(q \o <<e>>)
  BY <1>1, <1>3 DEF OnlyProgress, Concluded
<1>. QED  BY <1>1, <1>2, <1>3, <1>4, <1>5

LEMMA Taken ==
    ASSUME NEW q \in Seq(Event), q # <<>>
    PROVE  /\ Head(q) \in Event /\ Tail(q) \in Seq(Event)
           /\ OnlyProgress(q) => Head(q) = "progress" /\ OnlyProgress(Tail(q))
           /\ Concluded(q) => \/ Head(q) = "progress" /\ Concluded(Tail(q))
                              \/ Head(q) \in Terminal /\ Tail(q) = <<>>
<1>1. /\ Head(q) = q[1] /\ q[1] \in Event /\ Tail(q) \in Seq(Event) /\ Len(q) \in Nat /\ Len(q) > 0
      /\ Len(Tail(q)) = Len(q) - 1 /\ \A i \in 1 .. Len(q) - 1 : Tail(q)[i] = q[i + 1]
  OBVIOUS
<1>2. OnlyProgress(q) => Head(q) = "progress" /\ OnlyProgress(Tail(q))
  BY <1>1 DEF OnlyProgress
<1>3. CASE Len(q) = 1
  <2>1. Tail(q) = <<>>
    <3>1. Tail(q) \in Seq(Event) /\ Len(Tail(q)) = 0
      BY <1>1, <1>3
    <3>2. \A t \in Seq(Event) : Len(t) = 0 => t = <<>>
      BY EmptySeq
    <3>. QED  BY <3>1, <3>2, Zenon
  <2>2. Concluded(q) => q[1] \in Terminal
    BY <1>3 DEF Concluded
  <2>. QED  BY <1>1, <1>2, <2>1, <2>2
<1>4. CASE Len(q) # 1
  <2>. SUFFICES ASSUME Concluded(q) PROVE Head(q) = "progress" /\ Concluded(Tail(q))
    BY <1>1, <1>2
  <2>. DEFINE m == Len(q)
              t == Tail(q)
  <2>1. m \in Nat /\ m > 1 /\ Len(t) = m - 1 /\ \A i \in 1 .. m - 1 : t[i] = q[i + 1]
    BY <1>1, <1>4
  <2>2. q[m] \in Terminal /\ \A i \in 1 .. m : i # m => q[i] = "progress"
    BY DEF Concluded
  <2>. HIDE DEF m, t
  <2>3. q[1] = "progress" /\ t[m - 1] = q[m]
    BY <2>1, <2>2
  <2>4. \A i \in 1 .. m - 1 : i # m - 1 => t[i] = "progress"
    BY <2>1, <2>2
  <2>5. Len(t) > 0 /\ t[Len(t)] \in Terminal /\ \A i \in 1 .. Len(t) : i # Len(t) => t[i] = "progress"
    BY <2>1, <2>2, <2>3, <2>4
  <2>. QED  BY <1>1, <2>3, <2>5 DEF Concluded, t
<1>. QED  BY <1>3, <1>4

\* Appending to the kept turns and trimming them again keeps the last ones.
LEMMA LastsOfAppend ==
    ASSUME NEW turns \in Seq(Runs), NEW r \in Runs
    PROVE  /\ Lasts(turns) \in Seq(Runs)
           /\ Trimmed(Append(Lasts(turns), r)) = Lasts(Append(turns, r))
<1>. DEFINE n == Len(turns)
<1>1. n \in Nat /\ KeepTurns \in Nat
  BY PiCoreAssumption
<1>2. /\ Append(turns, r) \in Seq(Runs) /\ Len(Append(turns, r)) = n + 1
      /\ \A i \in 1 .. n : Append(turns, r)[i] = turns[i]
      /\ Append(turns, r)[n + 1] = r
  OBVIOUS
<1>3. CASE n <= KeepTurns
  BY <1>1, <1>2, <1>3 DEF Lasts, Trimmed
<1>4. CASE n > KeepTurns
  <2>. DEFINE k == Lasts(turns)
              a == Append(k, r)
              b == SubSeq(Append(turns, r), n + 2 - KeepTurns, n + 1)
              c == SubSeq(a, 2, KeepTurns + 1)
  <2>1. /\ k \in Seq(Runs) /\ Len(k) = KeepTurns
        /\ \A i \in 1 .. KeepTurns : k[i] = turns[n - KeepTurns + i]
    BY <1>1, <1>4 DEF Lasts
  <2>2. /\ a \in Seq(Runs) /\ Len(a) = KeepTurns + 1
        /\ \A i \in 1 .. KeepTurns : a[i] = k[i]
        /\ a[KeepTurns + 1] = r
    BY <2>1, <1>1
  <2>3. Lasts(Append(turns, r)) = b
    <3>1. ~(n + 1 <= KeepTurns) /\ (n + 1) - KeepTurns + 1 = n + 2 - KeepTurns
      BY <1>1, <1>4
    <3>2. Len(Append(turns, r)) = n + 1
      BY <1>2
    <3>. QED  BY <3>1, <3>2, Zenon DEF Lasts
  <2>4. Trimmed(a) = c
    BY <1>1, <2>2 DEF Trimmed
  <2>5. /\ b \in Seq(Runs) /\ Len(b) = KeepTurns
        /\ \A i \in 1 .. KeepTurns : b[i] = Append(turns, r)[n + 1 - KeepTurns + i]
    BY <1>1, <1>2, <1>4
  <2>6. /\ c \in Seq(Runs) /\ Len(c) = KeepTurns
        /\ \A i \in 1 .. KeepTurns : c[i] = a[i + 1]
    BY <1>1, <2>2
  <2>7. ASSUME NEW i \in 1 .. KeepTurns PROVE b[i] = c[i]
    <3>1. CASE i = KeepTurns
      BY <1>1, <1>2, <1>4, <2>2, <2>5, <2>6, <3>1
    <3>2. CASE i # KeepTurns
      BY <1>1, <1>2, <1>4, <2>1, <2>2, <2>5, <2>6, <3>2
    <3>. QED  BY <3>1, <3>2
  <2>8. b = c
    BY <1>1, <2>5, <2>6, <2>7, SeqEqual
  <2>. QED  BY <2>1, <2>3, <2>4, <2>8
<1>. QED  BY <1>1, <1>3, <1>4
-----------------------------------------------------------------------------
LEMMA InitEstablishesIInv == Init => IInv
<1> SUFFICES ASSUME Init PROVE IInv
  OBVIOUS
<1>1. TypeOK
  BY PiCoreAssumption DEF Init, TypeOK, Runs
<1>2. ASSUME NEW r \in Runs PROVE RunInv(r)
  BY <1>2, PiCoreAssumption DEF Init, RunInv, InStep, Delivered, Entered, Active, Runs
<1>3. ASSUME NEW s \in Sessions PROVE Kept(s)
  <2>1. history[s] = <<>> /\ finished[s] = <<>> /\ Len(<<>>) = 0
    BY DEF Init
  <2>2. Lasts(<<>>) = <<>>
    BY PiCoreAssumption DEF Lasts
  <2>3. \A r \in Runs : agent[r] \notin Active
    BY DEF Init, Active
  <2>. QED  BY <2>1, <2>2, <2>3 DEF Kept
<1>. QED  BY <1>1, <1>2, <1>3 DEF IInv
-----------------------------------------------------------------------------
\* A step leaves run o alone.
Untouched(o) ==
    /\ o > runCounter' <=> o > runCounter
    /\ gen'[o] = gen[o] /\ agent'[o] = agent[o] /\ queue'[o] = queue[o]
    /\ heard'[o] = heard[o] /\ session'[o] = session[o]
    /\ o \in running' <=> o \in running
    /\ o \in aborted' <=> o \in aborted
    /\ o \in told' <=> o \in told
    /\ o \in closed' <=> o \in closed
    /\ o \in leaked' <=> o \in leaked

LEMMA Frame ==
    ASSUME NEW o \in Runs, RunInv(o), Untouched(o)
    PROVE  RunInv(o)'
<1>1. InStep(o)'
  BY DEF RunInv, Untouched, InStep
<1>2. Delivered(o)'
  BY DEF RunInv, Untouched, Delivered
<1>3. Entered(o)'
  BY DEF RunInv, Untouched, Entered
<1>. QED  BY <1>1, <1>2, <1>3 DEF RunInv

\* A step by which no agent comes to work and none ends.
Calm ==
    /\ UNCHANGED <<base, history, finished, overlapped>>
    /\ \A r \in Runs : agent'[r] \in Active => agent[r] \in Active /\ session'[r] = session[r]

LEMMA KeptFrame ==
    ASSUME IInv, Calm, NEW s \in Sessions \ overlapped'
    PROVE  Kept(s)'
  BY DEF IInv, Calm, Kept

LEMMA Combine ==
    ASSUME IInv, NEW r \in Runs, TypeOK', RunInv(r)',
           \A o \in Runs \ {r} : Untouched(o),
           \A s \in Sessions \ overlapped' : Kept(s)'
    PROVE  IInv'
  BY Frame DEF IInv

-----------------------------------------------------------------------------
LEMMA RunKeepsIInv ==
    ASSUME IInv, NEW s \in Sessions, Run(s)
    PROVE  IInv'
<1>0. TypeOK /\ runCounter \in Nat /\ runCounter + 1 \in Runs /\ runCounter' = runCounter + 1
  BY PiCoreAssumption DEF IInv, TypeOK, Run, Runs
<1>. PICK r \in Runs : r = runCounter + 1
  BY <1>0
<1>1. TypeOK /\ RunInv(r) /\ r = runCounter + 1 /\ r = runCounter' /\ runCounter \in Nat
  BY <1>0 DEF IInv
<1>2. gen[r] = "none" /\ agent[r] = "none" /\ heard[r] = "nothing"
  BY <1>1 DEF RunInv, InStep, Delivered
<1>3. /\ gen' = [gen EXCEPT ![r] = "accepted"] /\ heard' = [heard EXCEPT ![r] = "events"]
      /\ session' = [session EXCEPT ![r] = s] /\ running' = running \cup {r}
      /\ UNCHANGED <<aborted, leaked, agent, told, queue, closed, base, history, finished, overlapped>>
  BY <1>1, <1>2 DEF Run, Moves, Hands, agentVars, Terminal, TypeOK
<1>4. TypeOK'
  BY <1>1, <1>3, PiCoreAssumption DEF TypeOK, Run, Runs
<1>5. \A o \in Runs \ {r} : Untouched(o)
  BY <1>1, <1>3 DEF Untouched, TypeOK, Runs
<1>6. RunInv(r)'
  BY <1>1, <1>2, <1>3 DEF RunInv, InStep, Delivered, Entered, TypeOK, Active, Runs
<1>7. Calm
  BY <1>1, <1>2, <1>3 DEF Calm, TypeOK, Active
<1>. QED  BY <1>1, <1>4, <1>5, <1>6, <1>7, KeptFrame, Combine

\* The steps of a generator that change nothing of the agent.
LEMMA RefuseKeepsIInv ==
    ASSUME IInv, NEW r \in Runs, Refuse(r) \/ Unfit(r)
    PROVE  IInv'
<1>1. TypeOK /\ RunInv(r)
  BY DEF IInv
<1>2. /\ gen[r] = "accepted" /\ heard[r] = "events" /\ agent[r] = "none"
      /\ \E to \in {"refused", "unfit"} : gen' = [gen EXCEPT ![r] = to]
      /\ heard' = [heard EXCEPT ![r] = "outcome"]
      /\ UNCHANGED <<runCounter, running, aborted, session, leaked, agent, told, queue, closed,
                     base, history, finished, overlapped>>
  BY <1>1 DEF Refuse, Unfit, Moves, Hands, Terminal, agentVars, RunInv, InStep, Delivered, TypeOK
<1>3. TypeOK'
  BY <1>1, <1>2 DEF TypeOK
<1>4. \A o \in Runs \ {r} : Untouched(o)
  BY <1>1, <1>2 DEF Untouched, TypeOK
<1>5. RunInv(r)'
  BY <1>1, <1>2 DEF RunInv, InStep, Delivered, Entered, TypeOK, Active
<1>6. Calm
  BY <1>2 DEF Calm
<1>. QED  BY <1>3, <1>4, <1>5, <1>6, KeptFrame, Combine

LEMMA ThrowsKeepsIInv ==
    ASSUME IInv, NEW r \in Runs, Throws(r)
    PROVE  IInv'
<1>1. TypeOK /\ RunInv(r)
  BY DEF IInv
<1>2. /\ gen[r] = "accepted" /\ heard[r] = "events" /\ agent[r] = "none" /\ queue[r] = <<>>
      /\ gen' = [gen EXCEPT ![r] = "threw"] /\ running' = running \ {r}
      /\ UNCHANGED <<runCounter, aborted, session, heard, leaked, agent, told, queue, closed,
                     base, history, finished, overlapped>>
  BY <1>1 DEF Throws, Moves, agentVars, RunInv, InStep, Delivered
<1>3. TypeOK'
  BY <1>1, <1>2 DEF TypeOK
<1>4. \A o \in Runs \ {r} : Untouched(o)
  BY <1>1, <1>2 DEF Untouched, TypeOK
<1>5. RunInv(r)'
  BY <1>1, <1>2 DEF RunInv, InStep, Delivered, Entered, TypeOK, Active
<1>6. Calm
  BY <1>2 DEF Calm
<1>. QED  BY <1>3, <1>4, <1>5, <1>6, KeptFrame, Combine

LEMMA TakeKeepsIInv ==
    ASSUME IInv, NEW r \in Runs, Take(r)
    PROVE  IInv'
<1>. DEFINE q == queue[r]
<1>1. TypeOK /\ RunInv(r) /\ q \in Seq(Event) /\ q # <<>>
  BY DEF IInv, Take, TypeOK, Event
<1>2. /\ gen[r] \in {"waiting", "handing"} /\ gen' = [gen EXCEPT ![r] = "handing"]
      /\ heard[r] = "events" /\ queue' = [queue EXCEPT ![r] = Tail(q)]
      /\ heard' = [heard EXCEPT ![r] = IF Head(q) \in Terminal THEN "outcome" ELSE "events"]
      /\ UNCHANGED <<runCounter, running, aborted, session, leaked, agent, told, closed,
                     base, history, finished, overlapped>>
      /\ IF agent[r] = "working" THEN OnlyProgress(q) ELSE Concluded(q)
  <2>1. gen[r] \in {"waiting", "handing"} /\ queue[r] # <<>>
    BY DEF Take
  <2>2. /\ heard[r] = "events"
        /\ IF agent[r] = "working" THEN OnlyProgress(q) ELSE Concluded(q)
    BY <1>1, <2>1 DEF RunInv, Delivered
  <2>. QED  BY <1>1, <2>1, <2>2 DEF Take, Moves, Hands, TypeOK
<1>3. /\ Tail(q) \in Seq(Event)
      /\ OnlyProgress(q) => Head(q) \notin Terminal /\ OnlyProgress(Tail(q))
      /\ Concluded(q) => \/ Head(q) \notin Terminal /\ Concluded(Tail(q))
                         \/ Head(q) \in Terminal /\ Tail(q) = <<>>
  BY <1>1, Taken DEF Terminal
<1>. HIDE DEF q
<1>4. TypeOK'
  <2>1. queue' \in [Runs -> Seq(Event)]
    BY <1>1, <1>2, <1>3 DEF TypeOK, Event
  <2>. QED  BY <1>1, <1>2, <2>1 DEF TypeOK, Event
<1>5. \A o \in Runs \ {r} : Untouched(o)
  BY <1>1, <1>2 DEF Untouched, TypeOK
<1>6. RunInv(r)'
  <2>1. /\ gen'[r] = "handing" /\ queue'[r] = Tail(q) /\ agent[r] # "none"
        /\ heard'[r] = IF Head(q) \in Terminal THEN "outcome" ELSE "events"
    BY <1>1, <1>2 DEF TypeOK, RunInv, InStep
  <2>2. IF agent[r] = "working" THEN OnlyProgress(q) ELSE Concluded(q)
    BY <1>2
  <2>3. Delivered(r)'
    BY <1>2, <1>3, <2>1, <2>2 DEF Delivered
  <2>4. InStep(r)' /\ Entered(r)'
    BY <1>1, <1>2, <2>1 DEF RunInv, InStep, Entered
  <2>. QED  BY <2>3, <2>4 DEF RunInv
<1>7. Calm
  BY <1>2 DEF Calm
<1>. QED  BY <1>4, <1>5, <1>6, <1>7, KeptFrame, Combine

LEMMA EndKeepsIInv ==
    ASSUME IInv, NEW r \in Runs, End(r)
    PROVE  IInv'
<1>1. TypeOK /\ RunInv(r)
  BY DEF IInv
<1>2. /\ gen' = [gen EXCEPT ![r] = "done"] /\ heard[r] = "outcome" /\ agent[r] \notin Active
      /\ gen[r] # "none" /\ running' = running \ {r} /\ aborted' = aborted \ {r}
      /\ UNCHANGED <<runCounter, session, heard, leaked, agent, told, queue, closed,
                     base, history, finished, overlapped>>
  <2>1. ~Concluded(<<>>)
    BY DEF Concluded
  <2>. QED  BY <1>1, <2>1 DEF End, Moves, agentVars, RunInv, InStep, Delivered, Active
<1>3. TypeOK'
  BY <1>1, <1>2 DEF TypeOK
<1>4. \A o \in Runs \ {r} : Untouched(o)
  BY <1>1, <1>2 DEF Untouched, TypeOK
<1>5. RunInv(r)'
  BY <1>1, <1>2 DEF RunInv, InStep, Delivered, Entered, TypeOK
<1>6. Calm
  BY <1>2 DEF Calm
<1>. QED  BY <1>3, <1>4, <1>5, <1>6, KeptFrame, Combine

LEMMA GiveUpKeepsIInv ==
    ASSUME IInv, NEW r \in Runs, GiveUp(r)
    PROVE  IInv'
<1>1. TypeOK /\ RunInv(r)
  BY DEF IInv
<1>2. /\ gen[r] # "none" /\ heard[r] # "more" /\ gen' = [gen EXCEPT ![r] = "left"]
      /\ r \in running' => r \in leaked'
      /\ queue' = [queue EXCEPT ![r] = <<>>]
      /\ running' \subseteq running /\ \A o \in Runs \ {r} : o \in running' <=> o \in running
      /\ leaked' \subseteq Runs /\ \A o \in Runs \ {r} : o \in leaked' <=> o \in leaked
      /\ aborted' = aborted \ {r}
      /\ UNCHANGED <<runCounter, session, heard, agent, told, closed,
                     base, history, finished, overlapped>>
  BY <1>1 DEF GiveUp, Moves, RunInv, Delivered, TypeOK
<1>3. TypeOK'
  <2>1. <<>> \in Seq(Terminal \cup {"progress"})
    OBVIOUS
  <2>. QED  BY <1>1, <1>2, <2>1 DEF TypeOK
<1>4. \A o \in Runs \ {r} : Untouched(o)
  BY <1>1, <1>2 DEF Untouched, TypeOK
<1>5. RunInv(r)'
  <2>1. gen'[r] = "left" /\ queue'[r] = <<>>
    BY <1>1, <1>2 DEF TypeOK
  <2>. QED  BY <1>1, <1>2, <2>1 DEF RunInv, InStep, Delivered, Entered
<1>6. Calm
  BY <1>2 DEF Calm
<1>. QED  BY <1>3, <1>4, <1>5, <1>6, KeptFrame, Combine

LEMMA AbortKeepsIInv ==
    ASSUME IInv, NEW r \in Runs, Abort(r)
    PROVE  IInv'
<1>1. TypeOK /\ RunInv(r)
  BY DEF IInv
<1>2. TypeOK'
  BY <1>1 DEF TypeOK, Abort
<1>3. \A o \in Runs \ {r} : Untouched(o)
  BY DEF Untouched, Abort
<1>4. RunInv(r)'
  BY <1>1 DEF Abort, RunInv, InStep, Delivered, Entered, Active
<1>5. Calm
  BY DEF Abort, Calm
<1>. QED  BY <1>2, <1>3, <1>4, <1>5, KeptFrame, Combine

\* An agent begins: alone, or its session is one that two have worked for.
LEMMA StartKeepsIInv ==
    ASSUME IInv, NEW r \in Runs, Start(r)
    PROVE  IInv'
<1>1. TypeOK /\ RunInv(r)
  BY DEF IInv
<1>2. /\ gen[r] = "accepted" /\ agent[r] = "none" /\ queue[r] = <<>> /\ heard[r] = "events"
      /\ session[r] \in Sessions /\ r \notin closed /\ r \in running /\ r \notin aborted
  BY <1>1 DEF Start, RunInv, InStep, Delivered, Entered
<1>3. /\ gen' = [gen EXCEPT ![r] = "waiting"] /\ agent' = [agent EXCEPT ![r] = "working"]
      /\ base' = [base EXCEPT ![r] = history[session[r]]]
      /\ overlapped \subseteq overlapped' /\ overlapped' \subseteq Sessions
      /\ UNCHANGED <<runCounter, running, aborted, session, heard, leaked, told, queue, closed,
                     history, finished>>
  BY <1>1, <1>2 DEF Start, Created, Moves, TypeOK
<1>4. TypeOK'
  BY <1>1, <1>2, <1>3 DEF TypeOK
<1>5. \A o \in Runs \ {r} : Untouched(o)
  BY <1>1, <1>3 DEF Untouched, TypeOK
<1>6. RunInv(r)'
  <2>1. gen'[r] = "waiting" /\ agent'[r] = "working" /\ queue'[r] = <<>> /\ OnlyProgress(<<>>)
    BY <1>1, <1>2, <1>3 DEF TypeOK, OnlyProgress
  <2>. QED  BY <1>1, <1>2, <1>3, <2>1 DEF RunInv, InStep, Delivered, Entered, Active
<1>7. ASSUME NEW s \in Sessions \ overlapped' PROVE Kept(s)'
  <2>1. Kept(s)
    BY <1>3 DEF IInv
  <2>2. /\ \A o \in Runs \ {r} : agent'[o] = agent[o] /\ base'[o] = base[o]
        /\ base'[r] = history[session[r]]
    BY <1>1, <1>3 DEF TypeOK
  <2>3. session[r] = s => \A o \in Runs : session[o] = s /\ agent[o] \in Active => o = r
    BY <1>2 DEF Start, Created, Peers, Active
  <2>. QED  BY <1>3, <2>1, <2>2, <2>3 DEF Kept
<1>. QED  BY <1>4, <1>5, <1>6, <1>7, Combine

-----------------------------------------------------------------------------
\* The queue after a push: nothing is kept for a consumer that has left.
LEMMA PushedQueue ==
    ASSUME IInv, NEW r \in Runs, agent[r] \in Active,
           NEW events, Push(r, events), queue[r] \o events \in Seq(Event)
    PROVE  /\ queue' \in [Runs -> Seq(Event)]
           /\ \A o \in Runs \ {r} : queue'[o] = queue[o]
           /\ gen[r] = "left" => queue'[r] = <<>>
           /\ gen[r] # "left" => gen[r] \in {"waiting", "handing"} /\ queue'[r] = queue[r] \o events
  BY DEF IInv, TypeOK, Push, Event, RunInv, InStep, Delivered, Active

LEMMA ProgressKeepsIInv ==
    ASSUME IInv, NEW r \in Runs, Progress(r)
    PROVE  IInv'
<1>1. TypeOK /\ RunInv(r) /\ queue[r] \in Seq(Event) /\ agent[r] = "working" /\ agent[r] \in Active
  BY DEF IInv, TypeOK, Event, Progress, Active
<1>2. Push(r, <<"progress">>) /\ queue[r] \o <<"progress">> \in Seq(Event)
  BY <1>1, Pushed DEF Progress
<1>3. /\ queue' \in [Runs -> Seq(Event)]
      /\ \A o \in Runs \ {r} : queue'[o] = queue[o]
      /\ gen[r] = "left" => queue'[r] = <<>>
      /\ gen[r] # "left" => gen[r] \in {"waiting", "handing"} /\ queue'[r] = queue[r] \o <<"progress">>
  BY <1>1, <1>2, PushedQueue
<1>4. UNCHANGED <<runCounter, running, aborted, session, gen, heard, leaked, agent, told, closed,
                  base, history, finished, overlapped>>
  BY DEF Progress
<1>5. TypeOK'
  BY <1>1, <1>3, <1>4 DEF TypeOK, Event
<1>6. \A o \in Runs \ {r} : Untouched(o)
  BY <1>3, <1>4 DEF Untouched
<1>7. RunInv(r)'
  <2>1. gen[r] # "left" => heard[r] = "events" /\ OnlyProgress(queue[r])
    BY <1>1, <1>3 DEF RunInv, Delivered
  <2>2. gen[r] # "left" => OnlyProgress(queue'[r])
    BY <1>1, <1>3, <2>1, Pushed
  <2>. QED  BY <1>1, <1>3, <1>4, <2>1, <2>2 DEF RunInv, InStep, Delivered, Entered
<1>8. Calm
  BY <1>4 DEF Calm
<1>. QED  BY <1>5, <1>6, <1>7, <1>8, KeptFrame, Combine

LEMMA StopKeepsIInv ==
    ASSUME IInv, NEW r \in Runs, Stop(r)
    PROVE  IInv'
<1>1. TypeOK /\ RunInv(r) /\ queue[r] \in Seq(Event) /\ agent[r] = "working" /\ agent[r] \in Active
      /\ "failed" \in Terminal
  BY DEF IInv, TypeOK, Event, Stop, Active, Terminal
<1>2. Push(r, <<"failed">>) /\ queue[r] \o <<"failed">> \in Seq(Event)
  BY <1>1, Pushed DEF Stop
<1>3. /\ queue' \in [Runs -> Seq(Event)]
      /\ \A o \in Runs \ {r} : queue'[o] = queue[o]
      /\ gen[r] = "left" => queue'[r] = <<>>
      /\ gen[r] # "left" => gen[r] \in {"waiting", "handing"} /\ queue'[r] = queue[r] \o <<"failed">>
  BY <1>1, <1>2, PushedQueue
<1>4. /\ agent' = [agent EXCEPT ![r] = "stopped"]
      /\ UNCHANGED <<runCounter, running, aborted, session, gen, heard, leaked, told, closed,
                     base, history, finished, overlapped>>
  BY DEF Stop
<1>5. TypeOK'
  BY <1>1, <1>3, <1>4 DEF TypeOK, Event
<1>6. \A o \in Runs \ {r} : Untouched(o)
  BY <1>1, <1>3, <1>4 DEF Untouched, TypeOK
<1>7. RunInv(r)'
  <2>1. gen[r] # "left" => heard[r] = "events" /\ OnlyProgress(queue[r])
    BY <1>1, <1>3 DEF RunInv, Delivered
  <2>2. gen[r] # "left" => Concluded(queue'[r])
    BY <1>1, <1>3, <2>1, Pushed
  <2>3. agent'[r] = "stopped"
    BY <1>1, <1>4 DEF TypeOK
  <2>. QED  BY <1>1, <1>3, <1>4, <2>1, <2>2, <2>3 DEF RunInv, InStep, Delivered, Entered, Active
<1>8. Calm
  BY <1>1, <1>4 DEF Calm, TypeOK, Active
<1>. QED  BY <1>5, <1>6, <1>7, <1>8, KeptFrame, Combine

LEMMA PromptEndsKeepsIInv ==
    ASSUME IInv, NEW r \in Runs, PromptEnds(r)
    PROVE  IInv'
<1>1. TypeOK /\ RunInv(r) /\ queue[r] \in Seq(Event) /\ agent[r] \in Active
      /\ gen[r] # "none" /\ session[r] \in Sessions
  BY DEF IInv, TypeOK, Event, PromptEnds, Active, RunInv, InStep
<1>2. PICK e \in Terminal : Push(r, IF agent[r] = "stopped" THEN <<>> ELSE <<e>>)
  BY DEF PromptEnds
<1>. DEFINE events == IF agent[r] = "stopped" THEN <<>> ELSE <<e>>
<1>3. Push(r, events) /\ queue[r] \o events \in Seq(Event)
  BY <1>1, <1>2, Pushed
<1>. HIDE DEF events
<1>4. /\ queue' \in [Runs -> Seq(Event)]
      /\ \A o \in Runs \ {r} : queue'[o] = queue[o]
      /\ gen[r] = "left" => queue'[r] = <<>>
      /\ gen[r] # "left" => gen[r] \in {"waiting", "handing"} /\ queue'[r] = queue[r] \o events
  BY <1>1, <1>3, PushedQueue
<1>. DEFINE s == session[r]
            kept == Trimmed(Append(base[r], r))
<1>5. /\ agent' = [agent EXCEPT ![r] = "over"] /\ base' = [base EXCEPT ![r] = <<>>]
      /\ history' = [history EXCEPT ![s] = kept]
      /\ finished' = [finished EXCEPT ![s] = Append(finished[s], r)]
      /\ running' = running \ {r} /\ told' = told \ {r} /\ closed' = closed \cup {r}
      /\ UNCHANGED <<runCounter, aborted, session, gen, heard, leaked, overlapped>>
  BY DEF PromptEnds, Over
<1>6. kept \in Seq(Runs) /\ Append(finished[s], r) \in Seq(Runs)
  <2>1. base[r] \in Seq(Runs) /\ finished[s] \in Seq(Runs)
    BY <1>1 DEF TypeOK
  <2>. DEFINE a == Append(base[r], r)
  <2>2. a \in Seq(Runs) /\ Append(finished[s], r) \in Seq(Runs) /\ Len(a) \in Nat /\ KeepTurns \in Nat
    BY <2>1, PiCoreAssumption
  <2>3. CASE Len(a) <= KeepTurns
    BY <2>2, <2>3 DEF Trimmed
  <2>4. CASE Len(a) > KeepTurns
    <3>1. \A i \in Len(a) - KeepTurns + 1 .. Len(a) : a[i] \in Runs
      BY <2>2, <2>4
    <3>2. SubSeq(a, Len(a) - KeepTurns + 1, Len(a)) \in Seq(Runs)
      <4>1. Len(a) - KeepTurns + 1 \in Int /\ Len(a) \in Int
        BY <2>2
      <4>. QED  BY <3>1, <4>1, SubSeqProperties
    <3>. QED  BY <2>2, <2>4, <3>2 DEF Trimmed
  <2>. QED  BY <2>2, <2>3, <2>4
<1>7. TypeOK'
  <2>1. /\ base' \in [Runs -> Seq(Runs)]
        /\ history' \in [Sessions -> Seq(Runs)] /\ finished' \in [Sessions -> Seq(Runs)]
    BY <1>1, <1>5, <1>6 DEF TypeOK
  <2>. QED  BY <1>1, <1>4, <1>5, <2>1 DEF TypeOK, Event
<1>8. \A o \in Runs \ {r} : Untouched(o)
  BY <1>1, <1>4, <1>5 DEF Untouched, TypeOK
<1>9. RunInv(r)'
  <2>1. gen[r] # "left" => \/ heard[r] = "events" /\ Concluded(queue'[r])
                           \/ heard[r] = "outcome" /\ queue'[r] = <<>>
    <3>1. CASE agent[r] = "stopped"
      BY <1>1, <1>4, <3>1, Pushed DEF RunInv, Delivered, events
    <3>2. CASE agent[r] = "working"
      BY <1>1, <1>4, <3>2, Pushed DEF RunInv, Delivered, events
    <3>. QED  BY <1>1, <3>1, <3>2 DEF Active
  <2>2. agent'[r] = "over"
    BY <1>1, <1>5 DEF TypeOK
  <2>. QED  BY <1>1, <1>4, <1>5, <2>1, <2>2 DEF RunInv, InStep, Delivered, Entered, Active
<1>10. ASSUME NEW u \in Sessions \ overlapped' PROVE Kept(u)'
  <2>1. Kept(u)
    BY <1>5 DEF IInv
  <2>2. /\ \A o \in Runs \ {r} : agent'[o] = agent[o] /\ base'[o] = base[o]
        /\ agent'[r] \notin Active
    BY <1>1, <1>5 DEF TypeOK, Active
  <2>3. CASE u = s
    <3>1. base[r] = Lasts(finished[s]) /\ finished[s] \in Seq(Runs)
          /\ \A o \in Runs : session[o] = u /\ agent[o] \in Active => o = r
      BY <1>1, <2>1, <2>3 DEF Kept, TypeOK
    <3>2. kept = Lasts(Append(finished[s], r))
      BY <3>1, LastsOfAppend
    <3>3. history'[u] = kept /\ finished'[u] = Append(finished[s], r)
      BY <1>1, <1>5, <2>3 DEF TypeOK
    <3>. HIDE DEF kept
    <3>. QED  BY <1>5, <2>2, <3>1, <3>2, <3>3 DEF Kept
  <2>4. CASE u # s
    <3>1. history'[u] = history[u] /\ finished'[u] = finished[u]
      BY <1>1, <1>5, <2>4 DEF TypeOK
    <3>. QED  BY <1>5, <2>1, <2>2, <2>4, <3>1 DEF Kept
  <2>. QED  BY <2>3, <2>4
<1>. QED  BY <1>7, <1>8, <1>9, <1>10, Combine
-----------------------------------------------------------------------------
\* The steps of Next are those of the lemmas above.
LEMMA NextKeepsIInv == IInv /\ [Next]_vars => IInv'
<1> SUFFICES ASSUME IInv, [Next]_vars PROVE IInv'
  OBVIOUS
<1>1. CASE \E s \in Sessions : Run(s)
  BY <1>1, RunKeepsIInv
<1>2. ASSUME NEW r \in Runs, Consume(r) PROVE IInv'
  BY <1>2, RefuseKeepsIInv, ThrowsKeepsIInv, StartKeepsIInv, TakeKeepsIInv, EndKeepsIInv DEF Consume
<1>3. ASSUME NEW r \in Runs, GiveUp(r) \/ Abort(r) PROVE IInv'
  BY <1>3, GiveUpKeepsIInv, AbortKeepsIInv
<1>4. ASSUME NEW r \in Runs, Progress(r) \/ Stop(r) \/ PromptEnds(r) PROVE IInv'
  BY <1>4, ProgressKeepsIInv, StopKeepsIInv, PromptEndsKeepsIInv
<1>5. CASE UNCHANGED vars
  <2>1. /\ UNCHANGED <<runCounter, running, aborted, session, gen, heard, leaked, agent, told,
                       queue, closed, base, history, finished, overlapped>>
    BY <1>5 DEF vars, agentVars
  <2>2. TypeOK'
    BY <2>1 DEF IInv, TypeOK
  <2>3. \A o \in Runs : RunInv(o)'
    BY <2>1, Frame DEF IInv, Untouched
  <2>4. \A s \in Sessions \ overlapped' : Kept(s)'
    BY <2>1 DEF IInv, Kept
  <2>. QED  BY <2>2, <2>3, <2>4 DEF IInv
<1>. QED  BY <1>1, <1>2, <1>3, <1>4, <1>5 DEF Next

\* The inductive invariant: types, the step in which generator, agent and
\* queue of each run are, its entry in the map, and the kept turns of a session
\* that no two agents have worked for at once.
THEOREM PiInvariant == Spec => []IInv
<1>. QED  BY InitEstablishesIInv, NextKeepsIInv, PTL DEF Spec

\* Every variable of the core service keeps its type.
THEOREM PiTypeCorrect == Spec => []TypeOK
<1>1. IInv => TypeOK
  BY DEF IInv
<1>. QED  BY <1>1, PiInvariant, PTL

\* A consumer has the outcome of its run once, as the last event, and the
\* stream ends without it only by throwing before the agent: promptTask and
\* mapPiEvent between them push one of completed and failed, for queues of any
\* length.
THEOREM OutcomeComesOnce == Spec => []OneOutcome
<1>1. IInv => OneOutcome
  <2> SUFFICES ASSUME IInv, NEW r \in Runs
               PROVE  /\ heard[r] # "more"
                      /\ gen[r] = "done" => heard[r] = "outcome"
                      /\ gen[r] = "threw" => heard[r] = "events" /\ agent[r] = "none"
    BY DEF OneOutcome
  <2>1. /\ RunInv(r)
        /\ gen[r] \in {"none", "accepted", "refused", "unfit", "waiting", "handing", "done", "threw", "left"}
    BY DEF IInv, TypeOK
  <2>. QED  BY <2>1 DEF RunInv, InStep, Delivered
<1>. QED  BY <1>1, PiInvariant, PTL

\* The map of running runs has the entry of every run whose agent works for a
\* consumer, and no other but those that were left outside the try block.
THEOREM MapIsOfLiveRuns == Spec => []RunningIsLive
<1>1. IInv => RunningIsLive
  BY DEF IInv, RunInv, Entered, RunningIsLive, Active
<1>. QED  BY <1>1, PiInvariant, PTL

\* An abort that was answered with success stops the run before its agent is
\* made or reaches the agent, however the two interleave.
THEOREM AbortsReach == Spec => []AbortReaches
<1>1. IInv => AbortReaches
  BY DEF IInv, TypeOK, RunInv, Entered, AbortReaches, Active
<1>. QED  BY <1>1, PiInvariant, PTL

\* What is kept of a session are its latest turns in the order they ended, for
\* any number of turns and of kept messages, while its agents do not overlap.
THEOREM LatestTurnsAreKept == Spec => []HistoryIsKept
<1>1. IInv => HistoryIsKept
  <2>1. ASSUME IInv, NEW s \in Sessions \ overlapped,
               NEW n, n = Len(finished[s]),
               NEW k, k = IF n < KeepTurns THEN n ELSE KeepTurns
        PROVE  history[s] = SubSeq(finished[s], n - k + 1, n)
    <3>1. /\ finished[s] \in Seq(Runs) /\ n \in Nat /\ KeepTurns \in Nat
          /\ history[s] = Lasts(finished[s])
      BY <2>1, PiCoreAssumption DEF IInv, TypeOK, Kept
    <3>2. CASE n <= KeepTurns
      <4>1. n - k + 1 = 1 /\ history[s] = finished[s]
        BY <2>1, <3>1, <3>2 DEF Lasts
      <4>2. SubSeq(finished[s], 1, n) = finished[s]
        BY <2>1, <3>1, SubSeqFull
      <4>. QED  BY <4>1, <4>2
    <3>3. CASE ~(n <= KeepTurns)
      <4>1. k = KeepTurns
        BY <2>1, <3>1, <3>3
      <4>. QED  BY <2>1, <3>1, <3>3, <4>1, Zenon DEF Lasts
    <3>. QED  BY <3>2, <3>3
  <2>. QED  BY <2>1 DEF HistoryIsKept
<1>. QED  BY <1>1, PiInvariant, PTL

-----------------------------------------------------------------------------
(* The legacy core.  Its inductive invariant: ids are handed out once, an  *)
(* abort stands in one inbox, and whatever is named, flagged or remembered *)
(* was asked for.                                                          *)

CoreStep(r) == AcceptRun(r) \/ StartTool(r) \/ FinishTool(r) \/ StopAborted(r) \/ CompleteRun(r)

IdsAreOwn ==
    /\ coreRunCounter + Cardinality(Queued) <= MaxIds
    /\ \A r \in RunSlots : InCore(r) => id[r] \in 1..coreRunCounter
    /\ \A r, q \in RunSlots : InCore(r) /\ InCore(q) /\ id[r] = id[q] => r = q

\* An abort names an id that a run has had, or that it named ahead of the run.
NamesWereAsked ==
    \A x \in Aborts : names[x] # 0 =>
        /\ names[x] \in asked
        /\ names[x] <= coreRunCounter \/ names[x] \in ahead

\* An abort is in one place of one inbox.
FramesAreOwn ==
    /\ \A c \in Sockets : \A i \in 1..Len(inbox[c]) :
          inbox[c][i] \in Aborts => names[inbox[c][i]] # 0
    /\ \A c, d \in Sockets : \A i \in 1..Len(inbox[c]), j \in 1..Len(inbox[d]) :
          inbox[c][i] \in Aborts /\ inbox[c][i] = inbox[d][j] => c = d /\ i = j

FlagsWereAsked ==
    \A i \in Ids : runStates[i] = "aborted" \/ i \in detached => i \in asked

OutcomesAwaitYield ==
    \A r \in RunSlots : /\ pc[r] # "yielding" => outcome[r] = "none"
                        /\ pc[r] = "tool" => left[r] > 0

CoreInv ==
    /\ CoreTypeOK
    /\ IdsAreOwn /\ NamesWereAsked /\ FramesAreOwn
    /\ FlagsWereAsked /\ OutcomesAwaitYield
    /\ NothingStaysBehind /\ AbortHitsItsId

-----------------------------------------------------------------------------
(* Inboxes.                                                                *)

InboxFrame == RunSlots \cup Aborts

LEMMA AppendFacts ==
    ASSUME NEW S, NEW s \in Seq(S), NEW x \in S
    PROVE  /\ Append(s, x) \in Seq(S) /\ Len(s) \in Nat /\ Len(Append(s, x)) = Len(s) + 1
           /\ \A i \in 1..Len(s) : Append(s, x)[i] = s[i]
           /\ Append(s, x)[Len(s) + 1] = x
  OBVIOUS

LEMMA TailFacts ==
    ASSUME NEW S, NEW s \in Seq(S), s # <<>>
    PROVE  /\ Tail(s) \in Seq(S) /\ Len(s) \in Nat /\ Len(s) >= 1 /\ Len(Tail(s)) = Len(s) - 1
           /\ \A i \in 1..Len(s) - 1 : Tail(s)[i] = s[i + 1]
           /\ Head(s) = s[1] /\ s[1] \in S
  OBVIOUS

LEMMA QueuedCounted == IsFiniteSet(Queued) /\ Cardinality(Queued) \in Nat
<1>1. Queued \in SUBSET RunSlots
  BY DEF Queued
<1>. QED  BY <1>1, FS_Subset, FS_CardinalityType, CoreRunsAssumption

LEMMA RefsTyped ==
    ASSUME CoreTypeOK
    PROVE  /\ \A n \in Ids : n \in 0..MaxIds /\ n # 0 /\ n \in Nat
           /\ \A x \in Aborts : names[x] # 0 => names[x] \in Ids
           /\ process \in Nat /\ coreRunCounter \in Nat /\ coreRunCounter <= MaxIds
  BY CoreRunsAssumption DEF CoreTypeOK, Ids

\* A frame that is put behind the others of a socket.
LEMMA EnqueueKeepsFrames ==
    ASSUME CoreTypeOK, FramesAreOwn, NEW c \in Sockets, NEW x \in InboxFrame, Enqueue(c, x),
           names' \in [Aborts -> 0..MaxIds],
           x \in Aborts => names[x] = 0 /\ names'[x] # 0,
           \A y \in Aborts : y # x => names'[y] = names[y]
    PROVE  inbox' \in [Sockets -> Seq(InboxFrame)] /\ FramesAreOwn'
<1>1. /\ inbox \in [Sockets -> Seq(InboxFrame)] /\ inbox[c] \in Seq(InboxFrame)
      /\ inbox' = [inbox EXCEPT ![c] = Append(inbox[c], x)]
  BY DEF CoreTypeOK, Enqueue, InboxFrame
<1>2. inbox'[c] = Append(inbox[c], x) /\ \A d \in Sockets : d # c => inbox'[d] = inbox[d]
  BY <1>1
<1>3. inbox' \in [Sockets -> Seq(InboxFrame)]
  BY <1>1, AppendFacts
<1>4. \A d \in Sockets, i \in Nat : i \in 1..Len(inbox'[d]) =>
        \/ i \in 1..Len(inbox[d]) /\ inbox'[d][i] = inbox[d][i]
        \/ d = c /\ i = Len(inbox[c]) + 1 /\ inbox'[d][i] = x
  BY <1>1, <1>2, AppendFacts
<1>5. ASSUME x \in Aborts, NEW d \in Sockets, NEW i \in 1..Len(inbox[d])
      PROVE  inbox[d][i] # x
  BY <1>5 DEF FramesAreOwn
<1>6. ASSUME NEW d \in Sockets, NEW i \in 1..Len(inbox'[d]), inbox'[d][i] \in Aborts
      PROVE  names'[inbox'[d][i]] # 0
  <2>1. \A z \in Aborts : names[z] # 0 => names'[z] # 0
    OBVIOUS
  <2>2. CASE i \in 1..Len(inbox[d]) /\ inbox'[d][i] = inbox[d][i]
    BY <1>6, <2>1, <2>2 DEF FramesAreOwn
  <2>3. CASE inbox'[d][i] = x
    BY <1>6, <2>3
  <2>. QED  BY <1>4, <2>2, <2>3
<1>7. ASSUME NEW d \in Sockets, NEW e \in Sockets, NEW i \in 1..Len(inbox'[d]),
             NEW j \in 1..Len(inbox'[e]), inbox'[d][i] \in Aborts, inbox'[d][i] = inbox'[e][j]
      PROVE  d = e /\ i = j
  <2>0. \A k \in 1..Len(inbox[d]), l \in 1..Len(inbox[e]) :
          inbox[d][k] \in Aborts /\ inbox[d][k] = inbox[e][l] => d = e /\ k = l
    BY DEF FramesAreOwn
  <2>1. CASE /\ i \in 1..Len(inbox[d]) /\ inbox'[d][i] = inbox[d][i]
             /\ j \in 1..Len(inbox[e]) /\ inbox'[e][j] = inbox[e][j]
    <3>1. inbox[d][i] \in Aborts /\ inbox[d][i] = inbox[e][j]
      BY <1>7, <2>1
    <3>. QED  BY <2>0, <2>1, <3>1
  <2>2. CASE d = c /\ i = Len(inbox[c]) + 1 /\ inbox'[d][i] = x
    <3>1. x \in Aborts /\ inbox'[e][j] = x
      BY <1>7, <2>2
    <3>2. ~(j \in 1..Len(inbox[e]) /\ inbox'[e][j] = inbox[e][j])
      BY <1>5, <3>1
    <3>. QED  BY <1>4, <2>2, <3>2
  <2>3. CASE e = c /\ j = Len(inbox[c]) + 1 /\ inbox'[e][j] = x
    <3>1. x \in Aborts /\ inbox'[d][i] = x
      BY <1>7, <2>3
    <3>2. ~(i \in 1..Len(inbox[d]) /\ inbox'[d][i] = inbox[d][i])
      BY <1>5, <3>1
    <3>. QED  BY <1>4, <2>3, <3>2
  <2>. QED  BY <1>4, <2>1, <2>2, <2>3
<1>. QED  BY <1>3, <1>6, <1>7 DEF FramesAreOwn

\* The first frame of a socket is taken out.
LEMMA DequeueKeepsFrames ==
    ASSUME CoreTypeOK, FramesAreOwn, NEW c \in Sockets, NEW x \in InboxFrame, AtHead(x, c), Dequeue(c),
           \A y \in Aborts : y # x => names'[y] = names[y],
           x \notin Aborts => names' = names
    PROVE  inbox' \in [Sockets -> Seq(InboxFrame)] /\ FramesAreOwn'
<1>1. /\ inbox \in [Sockets -> Seq(InboxFrame)] /\ inbox[c] \in Seq(InboxFrame) /\ inbox[c] # <<>>
      /\ Head(inbox[c]) = x
      /\ inbox' = [inbox EXCEPT ![c] = Tail(inbox[c])]
  BY DEF CoreTypeOK, Dequeue, InboxFrame, AtHead
<1>2. inbox'[c] = Tail(inbox[c]) /\ \A d \in Sockets : d # c => inbox'[d] = inbox[d]
  BY <1>1
<1>3. inbox' \in [Sockets -> Seq(InboxFrame)]
  BY <1>1, TailFacts
<1>4. 1 \in 1..Len(inbox[c]) /\ inbox[c][1] = x
  BY <1>1, TailFacts
<1>5. \A d \in Sockets, i \in Nat : i \in 1..Len(inbox'[d]) =>
        \/ d # c /\ i \in 1..Len(inbox[d]) /\ inbox'[d][i] = inbox[d][i]
        \/ d = c /\ i + 1 \in 1..Len(inbox[d]) /\ i + 1 # 1 /\ inbox'[d][i] = inbox[d][i + 1]
  BY <1>1, <1>2, TailFacts
<1>6. ASSUME NEW d \in Sockets, NEW i \in 1..Len(inbox'[d]), inbox'[d][i] \in Aborts
      PROVE  names'[inbox'[d][i]] # 0
  <2>1. PICK k \in 1..Len(inbox[d]) : inbox'[d][i] = inbox[d][k] /\ (d = c => k # 1)
    BY <1>5
  <2>2. inbox[d][k] # x
    BY <1>4, <1>6, <2>1 DEF FramesAreOwn
  <2>. QED  BY <1>6, <2>1, <2>2 DEF FramesAreOwn
<1>7. ASSUME NEW d \in Sockets, NEW e \in Sockets, NEW i \in 1..Len(inbox'[d]),
             NEW j \in 1..Len(inbox'[e]), inbox'[d][i] \in Aborts, inbox'[d][i] = inbox'[e][j]
      PROVE  d = e /\ i = j
  <2>1. PICK k \in 1..Len(inbox[d]) : inbox'[d][i] = inbox[d][k] /\ k = IF d = c THEN i + 1 ELSE i
    BY <1>5
  <2>2. PICK l \in 1..Len(inbox[e]) : inbox'[e][j] = inbox[e][l] /\ l = IF e = c THEN j + 1 ELSE j
    BY <1>5
  <2>3. d = e /\ k = l
    <3>1. inbox[d][k] \in Aborts /\ inbox[d][k] = inbox[e][l]
      BY <1>7, <2>1, <2>2
    <3>2. \A m \in 1..Len(inbox[d]), n \in 1..Len(inbox[e]) :
            inbox[d][m] \in Aborts /\ inbox[d][m] = inbox[e][n] => d = e /\ m = n
      BY DEF FramesAreOwn
    <3>. QED  BY <3>1, <3>2
  <2>. QED  BY <2>1, <2>2, <2>3
<1>. QED  BY <1>3, <1>6, <1>7 DEF FramesAreOwn
-----------------------------------------------------------------------------
(* The steps of the legacy core.                                           *)

\* What the steps of the tool loop have in common.
LEMMA LoopFrame ==
    ASSUME CoreTypeOK, OutcomesAwaitYield, NEW r \in RunSlots, CoreStep(r)
    PROVE  /\ UNCHANGED <<inbox, id, names, process, stateVars, asked, ahead>>
           /\ Deciding(r) /\ pc'[r] \in {"looping", "tool", "yielding"}
           /\ pc' \in [RunSlots -> Steps] /\ left' \in [RunSlots -> 0..MaxTools]
           /\ outcome' \in [RunSlots -> Outcomes]
           /\ \A q \in RunSlots : q # r => pc'[q] = pc[q] /\ outcome'[q] = outcome[q]
           /\ pc'[r] # "yielding" => outcome'[r] = outcome[r]
           /\ pc'[r] = "tool" => left'[r] > 0
           /\ \A q \in RunSlots : q # r => left'[q] = left[q]
           /\ abortedRuns' = abortedRuns \/ (Flagged(r) /\ abortedRuns' = abortedRuns \cup {id[r]})
           /\ Flagged(r) => outcome'[r] # "completed" /\ (pc'[r] = "tool" => pc[r] = "tool")
<1>0. /\ pc \in [RunSlots -> Steps] /\ left \in [RunSlots -> 0..MaxTools]
      /\ outcome \in [RunSlots -> Outcomes]
      /\ pc[r] # "yielding" => outcome[r] = "none"
      /\ pc[r] = "tool" => left[r] > 0
  BY DEF CoreTypeOK, OutcomesAwaitYield
<1> DEFINE Frame1 == UNCHANGED <<inbox, id, names, process, stateVars, asked, ahead>>
           Moved == /\ pc'[r] \in {"looping", "tool", "yielding"}
                    /\ pc' \in [RunSlots -> Steps] /\ left' \in [RunSlots -> 0..MaxTools]
                    /\ outcome' \in [RunSlots -> Outcomes]
                    /\ \A q \in RunSlots : q # r => pc'[q] = pc[q] /\ outcome'[q] = outcome[q]
                    /\ pc'[r] # "yielding" => outcome'[r] = outcome[r]
                    /\ pc'[r] = "tool" => left'[r] > 0
                    /\ \A q \in RunSlots : q # r => left'[q] = left[q]
           Told == abortedRuns' = abortedRuns \/ (Flagged(r) /\ abortedRuns' = abortedRuns \cup {id[r]})
           Stopped == Flagged(r) => outcome'[r] # "completed" /\ (pc'[r] = "tool" => pc[r] = "tool")
<1>1. ASSUME NEW o \in Outcomes, Decide(r, o), o = "aborted" => Flagged(r), o = "completed" => ~Flagged(r)
      PROVE  Frame1 /\ Moved /\ Told /\ Stopped
  <2>1. Frame1 /\ pc' = [pc EXCEPT ![r] = "yielding"] /\ outcome' = [outcome EXCEPT ![r] = o]
        /\ left' = left /\ abortedRuns' = IF o = "aborted" THEN abortedRuns \cup {id[r]} ELSE abortedRuns
    BY <1>1 DEF Decide, Go
  <2>2. pc'[r] = "yielding" /\ outcome'[r] = o
    BY <1>0, <2>1
  <2>3. Moved
    BY <1>0, <2>1, <2>2 DEF Steps
  <2>4. Told
    BY <1>1, <2>1
  <2>5. Stopped
    BY <1>1, <2>2
  <2>. QED  BY <2>1, <2>3, <2>4, <2>5
<1>2. ASSUME Deciding(r), Go(r, "looping") \/ (Go(r, "tool") /\ left[r] > 0 /\ ~Flagged(r)), outcome' = outcome,
             left' = left \/ (pc[r] = "tool" /\ left' = [left EXCEPT ![r] = @ - 1] /\ Go(r, "looping")),
             abortedRuns' = abortedRuns
      PROVE  Moved /\ Told /\ Stopped
  <2>1. pc' = [pc EXCEPT ![r] = "looping"] \/ pc' = [pc EXCEPT ![r] = "tool"]
    BY <1>2 DEF Go
  <2>2. pc' \in [RunSlots -> Steps] /\ pc'[r] \in {"looping", "tool"}
        /\ \A q \in RunSlots : q # r => pc'[q] = pc[q]
    BY <1>0, <2>1 DEF Steps
  <2>3. left' \in [RunSlots -> 0..MaxTools] /\ \A q \in RunSlots : q # r => left'[q] = left[q]
    <3>1. CASE left' = left
      BY <1>0, <3>1
    <3>2. CASE pc[r] = "tool" /\ left' = [left EXCEPT ![r] = @ - 1]
      <4>1. left[r] - 1 \in 0..MaxTools
        BY <1>0, <3>2, CoreRunsAssumption
      <4>. QED  BY <1>0, <3>2, <4>1
    <3>. QED  BY <1>2, <3>1, <3>2
  <2>4. pc'[r] = "tool" => left'[r] > 0 /\ ~Flagged(r)
    BY <1>0, <1>2 DEF Go
  <2>5. outcome'[r] # "completed"
    BY <1>0, <1>2 DEF Deciding
  <2>6. Moved
    BY <1>0, <1>2, <2>2, <2>3, <2>4
  <2>7. Stopped
    BY <2>4, <2>5
  <2>. QED  BY <1>2, <2>6, <2>7
<1>3. CASE AcceptRun(r)
  <2>1. Deciding(r)
    BY <1>3 DEF AcceptRun, Deciding
  <2>2. Frame1 /\ Moved /\ Told /\ Stopped
    <3>1. CASE Decide(r, "failed")
      BY <1>1, <3>1 DEF Outcomes
    <3>2. CASE /\ Go(r, "looping")
               /\ UNCHANGED <<inbox, id, left, outcome, names, process, stateVars, historyVars>>
      BY <1>2, <2>1, <3>2 DEF historyVars
    <3>. QED  BY <1>3, <3>1, <3>2 DEF AcceptRun
  <2>. QED  BY <2>1, <2>2
<1>4. CASE StartTool(r)
  <2>1. Deciding(r) /\ Frame1
    BY <1>4 DEF StartTool, Deciding, historyVars
  <2>2. Moved /\ Told /\ Stopped
    BY <1>2, <1>4, <2>1 DEF StartTool, historyVars
  <2>. QED  BY <2>1, <2>2
<1>5. CASE FinishTool(r)
  <2>1. Deciding(r) /\ pc[r] = "tool"
    BY <1>5 DEF FinishTool, Deciding, historyVars
  <2>2. Frame1 /\ Moved /\ Told /\ Stopped
    <3>1. CASE Decide(r, "failed")
      BY <1>1, <3>1 DEF Outcomes
    <3>2. CASE Flagged(r) /\ Decide(r, "aborted")
      BY <1>1, <3>2 DEF Outcomes
    <3>3. CASE /\ ~Flagged(r) /\ Go(r, "looping") /\ left' = [left EXCEPT ![r] = @ - 1]
               /\ UNCHANGED <<inbox, id, outcome, names, process, stateVars, historyVars>>
      BY <1>2, <2>1, <3>3 DEF historyVars
    <3>. QED  BY <1>5, <3>1, <3>2, <3>3 DEF FinishTool
  <2>. QED  BY <2>1, <2>2
<1>6. CASE StopAborted(r)
  <2>1. Deciding(r) /\ Flagged(r) /\ Decide(r, "aborted")
    BY <1>6 DEF StopAborted, Deciding
  <2>. QED  BY <1>1, <2>1 DEF Outcomes
<1>7. CASE CompleteRun(r)
  <2>1. Deciding(r) /\ ~Flagged(r) /\ Decide(r, "completed")
    BY <1>7 DEF CompleteRun, Deciding
  <2>. QED  BY <1>1, <2>1 DEF Outcomes
<1>. QED  BY <1>3, <1>4, <1>5, <1>6, <1>7 DEF CoreStep

LEMMA CoreIds ==
    ASSUME CoreTypeOK, IdsAreOwn, NEW r \in RunSlots, InCore(r)
    PROVE  id[r] \in Ids /\ id[r] <= coreRunCounter
<1>1. id[r] \in 1..coreRunCounter /\ coreRunCounter \in Nat /\ coreRunCounter <= MaxIds
  BY RefsTyped DEF IdsAreOwn
<1>. QED  BY <1>1, CoreRunsAssumption DEF Ids

\* The core holds the same runs as before.
LEMMA SameRunsKeepIds ==
    ASSUME UNCHANGED <<id, coreRunCounter, runStates>>,
           \A q \in RunSlots : (InCore(q)' <=> InCore(q)) /\ (pc'[q] = "queued" <=> pc[q] = "queued")
    PROVE  /\ IdsAreOwn => IdsAreOwn'
           /\ StatesAreOfRuns => StatesAreOfRuns'
<1>1. Queued' = Queued
  BY DEF Queued
<1>2. IdsAreOwn => IdsAreOwn'
  BY <1>1 DEF IdsAreOwn
<1>3. StatesAreOfRuns => StatesAreOfRuns'
  BY DEF StatesAreOfRuns
<1>. QED  BY <1>2, <1>3

LEMMA LoopKeepsInv ==
    ASSUME CoreInv, NEW r \in RunSlots, CoreStep(r)
    PROVE  CoreInv'
<1>0. /\ CoreTypeOK /\ IdsAreOwn /\ NamesWereAsked /\ FramesAreOwn /\ FlagsWereAsked
      /\ OutcomesAwaitYield /\ StatesAreOfRuns /\ DetachedAreOver /\ AbortHitsItsId
  BY DEF CoreInv, NothingStaysBehind
<1>1. /\ UNCHANGED <<inbox, id, names, process, coreRunCounter, runStates, detached, asked, ahead>>
      /\ Deciding(r) /\ pc'[r] \in {"looping", "tool", "yielding"}
      /\ pc' \in [RunSlots -> Steps] /\ left' \in [RunSlots -> 0..MaxTools]
      /\ outcome' \in [RunSlots -> Outcomes]
      /\ \A q \in RunSlots : q # r => /\ pc'[q] = pc[q] /\ outcome'[q] = outcome[q]
                                      /\ left'[q] = left[q]
      /\ pc'[r] # "yielding" => outcome'[r] = outcome[r]
      /\ pc'[r] = "tool" => left'[r] > 0
      /\ abortedRuns' = abortedRuns \/ (Flagged(r) /\ abortedRuns' = abortedRuns \cup {id[r]})
  BY <1>0, LoopFrame DEF stateVars
<1>2. InCore(r) /\ pc[r] # "yielding" /\ pc[r] # "queued"
  BY <1>1 DEF Deciding, InCore
<1>3. id[r] \in Ids
  BY <1>0, <1>2, CoreIds
<1>4. CoreTypeOK'
  BY <1>0, <1>1, <1>3 DEF CoreTypeOK
<1>5. \A q \in RunSlots : (InCore(q)' <=> InCore(q)) /\ (pc'[q] = "queued" <=> pc[q] = "queued")
  BY <1>1, <1>2 DEF InCore
<1>6. IdsAreOwn' /\ StatesAreOfRuns'
  BY <1>0, <1>1, <1>5, SameRunsKeepIds
<1>7. NamesWereAsked'
  BY <1>0, <1>1 DEF NamesWereAsked
<1>8. FramesAreOwn' /\ FlagsWereAsked' /\ DetachedAreOver'
  BY <1>0, <1>1 DEF FramesAreOwn, FlagsWereAsked, DetachedAreOver
<1>9. OutcomesAwaitYield'
  BY <1>0, <1>1, <1>2 DEF OutcomesAwaitYield
<1>10. AbortHitsItsId'
  <2>1. CASE abortedRuns' = abortedRuns
    BY <1>0, <1>1, <2>1 DEF AbortHitsItsId
  <2>2. CASE Flagged(r) /\ abortedRuns' = abortedRuns \cup {id[r]}
    <3>1. id[r] \in asked
      BY <1>0, <1>3, <2>2 DEF FlagsWereAsked, Flagged
    <3>. QED  BY <1>0, <1>1, <2>2, <3>1 DEF AbortHitsItsId
  <2>. QED  BY <1>1, <2>1, <2>2
<1>. QED  BY <1>4, <1>6, <1>7, <1>8, <1>9, <1>10 DEF CoreInv, NothingStaysBehind

LEMMA SendRunKeepsInv ==
    ASSUME CoreInv, NEW r \in RunSlots, NEW c \in Sockets, SendRun(r, c)
    PROVE  CoreInv'
<1>0. /\ CoreTypeOK /\ IdsAreOwn /\ NamesWereAsked /\ FramesAreOwn /\ FlagsWereAsked
      /\ OutcomesAwaitYield /\ StatesAreOfRuns /\ DetachedAreOver /\ AbortHitsItsId
  BY DEF CoreInv, NothingStaysBehind
<1>1. /\ UNCHANGED <<id, left, outcome, names, process, coreRunCounter, runStates, detached,
                     abortedRuns, asked, ahead>>
      /\ pc[r] = "idle" /\ Enqueue(c, r) /\ pc' = [pc EXCEPT ![r] = "queued"]
      /\ coreRunCounter + Cardinality(Queued) < MaxIds
  BY DEF SendRun, Go, stateVars, historyVars
<1>2. /\ pc' \in [RunSlots -> Steps] /\ pc'[r] = "queued"
      /\ \A q \in RunSlots : q # r => pc'[q] = pc[q]
  BY <1>0, <1>1 DEF CoreTypeOK, Steps
<1>3. inbox' \in [Sockets -> Seq(InboxFrame)] /\ FramesAreOwn'
  <2>1. r \in InboxFrame /\ r \notin Aborts /\ names' \in [Aborts -> 0..MaxIds]
    BY <1>0, <1>1, CoreRunsAssumption DEF InboxFrame, CoreTypeOK
  <2>. QED  BY <1>0, <1>1, <2>1, EnqueueKeepsFrames
<1>4. CoreTypeOK'
  BY <1>0, <1>1, <1>2, <1>3 DEF CoreTypeOK, InboxFrame
<1>5. \A q \in RunSlots : InCore(q)' <=> InCore(q)
  BY <1>1, <1>2 DEF InCore
<1>6. IdsAreOwn'
  <2>1. Queued' = Queued \cup {r} /\ r \notin Queued
    BY <1>1, <1>2 DEF Queued
  <2>2. Cardinality(Queued') = Cardinality(Queued) + 1
    BY <2>1, QueuedCounted, FS_AddElement
  <2>3. coreRunCounter' + Cardinality(Queued') <= MaxIds
    BY <1>0, <1>1, <2>2, QueuedCounted, RefsTyped, CoreRunsAssumption
  <2>. QED  BY <1>0, <1>1, <1>5, <2>3 DEF IdsAreOwn
<1>7. StatesAreOfRuns'
  BY <1>0, <1>1, <1>5 DEF StatesAreOfRuns
<1>8. NamesWereAsked' /\ FlagsWereAsked' /\ DetachedAreOver' /\ AbortHitsItsId'
  BY <1>0, <1>1 DEF NamesWereAsked, FlagsWereAsked, DetachedAreOver, AbortHitsItsId
<1>9. OutcomesAwaitYield'
  BY <1>0, <1>1, <1>2 DEF OutcomesAwaitYield
<1>. QED  BY <1>3, <1>4, <1>6, <1>7, <1>8, <1>9 DEF CoreInv, NothingStaysBehind

LEMMA SendAbortKeepsInv ==
    ASSUME CoreInv, NEW x \in Aborts, NEW c \in Sockets, NEW n \in Ids, SendAbort(x, c, n)
    PROVE  CoreInv'
<1>0. /\ CoreTypeOK /\ IdsAreOwn /\ NamesWereAsked /\ FramesAreOwn /\ FlagsWereAsked
      /\ OutcomesAwaitYield /\ StatesAreOfRuns /\ DetachedAreOver /\ AbortHitsItsId
  BY DEF CoreInv, NothingStaysBehind
<1>1. /\ UNCHANGED <<pc, id, left, outcome, process, coreRunCounter, runStates, detached,
                     abortedRuns>>
      /\ names[x] = 0 /\ Enqueue(c, x)
      /\ names' = [names EXCEPT ![x] = n] /\ asked' = asked \cup {n}
      /\ ahead' = IF n > coreRunCounter THEN ahead \cup {n} ELSE ahead
  BY DEF SendAbort, stateVars, runVars
<1>2. /\ names' \in [Aborts -> 0..MaxIds] /\ names'[x] = n /\ n # 0
      /\ \A y \in Aborts : y # x => names'[y] = names[y]
  BY <1>0, <1>1, RefsTyped DEF CoreTypeOK
<1>3. inbox' \in [Sockets -> Seq(InboxFrame)] /\ FramesAreOwn'
  BY <1>0, <1>1, <1>2, EnqueueKeepsFrames DEF InboxFrame
<1>4. CoreTypeOK'
  BY <1>0, <1>1, <1>2, <1>3 DEF CoreTypeOK, InboxFrame
<1>5. IdsAreOwn' /\ StatesAreOfRuns'
  BY <1>0, <1>1, SameRunsKeepIds DEF InCore
<1>6. NamesWereAsked'
  <2>1. n <= coreRunCounter \/ n \in ahead'
    BY <1>0, <1>1, RefsTyped
  <2>. QED  BY <1>0, <1>1, <1>2, <2>1 DEF NamesWereAsked
<1>7. FlagsWereAsked' /\ DetachedAreOver' /\ AbortHitsItsId'
  BY <1>0, <1>1 DEF FlagsWereAsked, DetachedAreOver, AbortHitsItsId
<1>8. OutcomesAwaitYield'
  BY <1>0, <1>1 DEF OutcomesAwaitYield
<1>. QED  BY <1>3, <1>4, <1>5, <1>6, <1>7, <1>8 DEF CoreInv, NothingStaysBehind

LEMMA StartRunKeepsInv ==
    ASSUME CoreInv, NEW r \in RunSlots, NEW c \in Sockets, StartRun(r, c)
    PROVE  CoreInv'
<1>0. /\ CoreTypeOK /\ IdsAreOwn /\ NamesWereAsked /\ FramesAreOwn /\ FlagsWereAsked
      /\ OutcomesAwaitYield /\ StatesAreOfRuns /\ DetachedAreOver /\ AbortHitsItsId
  BY DEF CoreInv, NothingStaysBehind
<1> DEFINE n == coreRunCounter + 1
<1>1. /\ UNCHANGED <<inbox, outcome, names, process, abortedRuns, asked, ahead>>
      /\ pc[r] = "queued" /\ pc' = [pc EXCEPT ![r] = "accepting"]
      /\ coreRunCounter' = n /\ id' = [id EXCEPT ![r] = n]
      /\ runStates' = [runStates EXCEPT ![n] = IF @ # "none" THEN @
                                               ELSE IF n \in detached THEN "aborted" ELSE "live"]
      /\ detached' = IF runStates[n] # "none" THEN detached ELSE detached \ {n}
      /\ \E k \in 0..MaxTools : left' = [left EXCEPT ![r] = k]
  BY DEF StartRun, Go, historyVars
<1>2. Queued' = Queued \ {r} /\ r \in Queued
  BY <1>0, <1>1 DEF Queued, CoreTypeOK
<1>3. Cardinality(Queued') = Cardinality(Queued) - 1 /\ Cardinality(Queued') \in Nat
  BY <1>2, QueuedCounted, FS_RemoveElement, FS_CardinalityType
<1>4. n \in Ids /\ n \in Nat /\ n > coreRunCounter /\ coreRunCounter \in Nat
      /\ n + Cardinality(Queued') <= MaxIds
  BY <1>0, <1>3, QueuedCounted, RefsTyped, CoreRunsAssumption DEF IdsAreOwn, Ids
<1> HIDE DEF n
<1>5. runStates[n] = "none"
  BY <1>0, <1>4 DEF StatesAreOfRuns, IdsAreOwn
<1>6. /\ runStates' = [runStates EXCEPT ![n] = IF n \in detached THEN "aborted" ELSE "live"]
      /\ detached' = detached \ {n}
      /\ runStates \in [Ids -> {"none", "live", "aborted"}]
      /\ runStates'[n] # "none" /\ (runStates'[n] = "aborted" => n \in detached)
      /\ \A i \in Ids : i # n => runStates'[i] = runStates[i]
  BY <1>0, <1>1, <1>4, <1>5 DEF CoreTypeOK
<1>7. /\ pc' \in [RunSlots -> Steps] /\ pc'[r] = "accepting"
      /\ \A q \in RunSlots : q # r => pc'[q] = pc[q] /\ id'[q] = id[q] /\ left'[q] = left[q]
      /\ id' \in [RunSlots -> 0..MaxIds] /\ id'[r] = n /\ left' \in [RunSlots -> 0..MaxTools]
  BY <1>0, <1>1, <1>4 DEF CoreTypeOK, Steps, Ids
<1>8. CoreTypeOK'
  BY <1>0, <1>1, <1>4, <1>6, <1>7, CoreRunsAssumption DEF CoreTypeOK, Ids
<1>9. /\ InCore(r)' /\ ~InCore(r)
      /\ \A q \in RunSlots : q # r => (InCore(q)' <=> InCore(q))
  BY <1>1, <1>7 DEF InCore
<1>10. \A q \in RunSlots : InCore(q) => id[q] \in 1..coreRunCounter /\ id[q] # n
  BY <1>0, <1>4 DEF IdsAreOwn
<1>11. IdsAreOwn'
  <2>1. \A q \in RunSlots : InCore(q)' => id'[q] \in 1..coreRunCounter'
    BY <1>1, <1>4, <1>7, <1>9, <1>10
  <2>2. \A q, p \in RunSlots : InCore(q)' /\ InCore(p)' /\ id'[q] = id'[p] => q = p
    BY <1>0, <1>7, <1>9, <1>10 DEF IdsAreOwn
  <2>. QED  BY <1>1, <1>4, <2>1, <2>2 DEF IdsAreOwn
<1>12. StatesAreOfRuns'
  <2> SUFFICES ASSUME NEW i \in Ids
               PROVE  runStates'[i] # "none" <=> \E q \in RunSlots : InCore(q)' /\ id'[q] = i
    BY DEF StatesAreOfRuns
  <2>1. CASE i = n
    BY <1>6, <1>7, <1>9, <2>1
  <2>2. CASE i # n
    <3>1. runStates[i] # "none" <=> \E q \in RunSlots : InCore(q) /\ id[q] = i
      BY <1>0 DEF StatesAreOfRuns
    <3>2. (\E q \in RunSlots : InCore(q)' /\ id'[q] = i) <=> \E q \in RunSlots : InCore(q) /\ id[q] = i
      BY <1>7, <1>9, <2>2
    <3>. QED  BY <1>6, <2>2, <3>1, <3>2
  <2>. QED  BY <2>1, <2>2
<1>13. NamesWereAsked'
  BY <1>0, <1>1, <1>4, RefsTyped DEF NamesWereAsked
<1>14. FramesAreOwn' /\ AbortHitsItsId'
  BY <1>0, <1>1 DEF FramesAreOwn, AbortHitsItsId
<1>15. FlagsWereAsked'
  BY <1>0, <1>1, <1>6 DEF FlagsWereAsked
<1>16. OutcomesAwaitYield'
  BY <1>0, <1>1, <1>7 DEF OutcomesAwaitYield
<1>17. DetachedAreOver'
  <2> SUFFICES ASSUME NEW i \in detached'
               PROVE  runStates'[i] = "none" /\ (i <= coreRunCounter' \/ i \in ahead')
    BY DEF DetachedAreOver
  <2>1. i \in detached /\ i # n /\ i \in Ids /\ i \in Nat
    BY <1>0, <1>6 DEF CoreTypeOK, Ids
  <2>. QED  BY <1>0, <1>1, <1>4, <1>6, <2>1 DEF DetachedAreOver
<1>. QED  BY <1>8, <1>11, <1>12, <1>13, <1>14, <1>15, <1>16, <1>17 DEF CoreInv, NothingStaysBehind

LEMMA CloseRunKeepsInv ==
    ASSUME CoreInv, NEW r \in RunSlots, NEW c \in Sockets, CloseRun(r, c)
    PROVE  CoreInv'
<1>0. /\ CoreTypeOK /\ IdsAreOwn /\ NamesWereAsked /\ FramesAreOwn /\ FlagsWereAsked
      /\ OutcomesAwaitYield /\ StatesAreOfRuns /\ DetachedAreOver /\ AbortHitsItsId
  BY DEF CoreInv, NothingStaysBehind
<1>1. /\ UNCHANGED <<id, names, process, coreRunCounter, detached, abortedRuns, asked, ahead>>
      /\ pc[r] = "yielding" /\ AtHead(r, c) /\ Dequeue(c) /\ pc' = [pc EXCEPT ![r] = "idle"]
      /\ outcome' = [outcome EXCEPT ![r] = "none"] /\ left' = [left EXCEPT ![r] = 0]
      /\ runStates' = [runStates EXCEPT ![id[r]] = "none"]
  BY DEF CloseRun, Go, historyVars
<1>2. InCore(r) /\ id[r] \in Ids
  BY <1>0, <1>1, CoreIds DEF InCore
<1>3. /\ pc' \in [RunSlots -> Steps] /\ pc'[r] = "idle" /\ ~InCore(r)'
      /\ outcome' \in [RunSlots -> Outcomes] /\ left' \in [RunSlots -> 0..MaxTools]
      /\ \A q \in RunSlots : q # r => /\ pc'[q] = pc[q] /\ outcome'[q] = outcome[q]
                                      /\ left'[q] = left[q] /\ (InCore(q)' <=> InCore(q))
      /\ outcome'[r] = "none"
  BY <1>0, <1>1, CoreRunsAssumption DEF CoreTypeOK, Steps, Outcomes, InCore
<1>4. /\ runStates' \in [Ids -> {"none", "live", "aborted"}] /\ runStates'[id[r]] = "none"
      /\ \A i \in Ids : i # id[r] => runStates'[i] = runStates[i]
  BY <1>0, <1>1, <1>2 DEF CoreTypeOK
<1>5. inbox' \in [Sockets -> Seq(InboxFrame)] /\ FramesAreOwn'
  <2>1. r \in InboxFrame /\ r \notin Aborts
    BY CoreRunsAssumption DEF InboxFrame
  <2>. QED  BY <1>0, <1>1, <2>1, DequeueKeepsFrames
<1>6. CoreTypeOK'
  BY <1>0, <1>1, <1>3, <1>4, <1>5 DEF CoreTypeOK, InboxFrame
<1>7. IdsAreOwn'
  <2>1. Queued' = Queued
    BY <1>1, <1>3 DEF Queued
  <2>. QED  BY <1>0, <1>1, <1>3, <2>1 DEF IdsAreOwn
<1>8. StatesAreOfRuns'
  <2> SUFFICES ASSUME NEW i \in Ids
               PROVE  runStates'[i] # "none" <=> \E q \in RunSlots : InCore(q)' /\ id'[q] = i
    BY DEF StatesAreOfRuns
  <2>1. CASE i = id[r]
    BY <1>0, <1>1, <1>2, <1>3, <1>4, <2>1 DEF IdsAreOwn
  <2>2. CASE i # id[r]
    <3>1. runStates[i] # "none" <=> \E q \in RunSlots : InCore(q) /\ id[q] = i
      BY <1>0 DEF StatesAreOfRuns
    <3>. QED  BY <1>1, <1>3, <1>4, <2>2, <3>1
  <2>. QED  BY <2>1, <2>2
<1>9. NamesWereAsked' /\ AbortHitsItsId'
  BY <1>0, <1>1 DEF NamesWereAsked, AbortHitsItsId
<1>10. FlagsWereAsked'
  BY <1>0, <1>1, <1>4 DEF FlagsWereAsked
<1>11. OutcomesAwaitYield'
  BY <1>0, <1>3 DEF OutcomesAwaitYield
<1>12. DetachedAreOver'
  <2>1. detached \subseteq Ids
    BY <1>0 DEF CoreTypeOK
  <2>. QED  BY <1>0, <1>1, <1>4, <2>1 DEF DetachedAreOver
<1>. QED  BY <1>5, <1>6, <1>7, <1>8, <1>9, <1>10, <1>11, <1>12 DEF CoreInv, NothingStaysBehind

LEMMA HandleAbortKeepsInv ==
    ASSUME CoreInv, NEW x \in Aborts, NEW c \in Sockets, HandleAbort(x, c)
    PROVE  CoreInv'
<1>0. /\ CoreTypeOK /\ IdsAreOwn /\ NamesWereAsked /\ FramesAreOwn /\ FlagsWereAsked
      /\ OutcomesAwaitYield /\ StatesAreOfRuns /\ DetachedAreOver /\ AbortHitsItsId
  BY DEF CoreInv, NothingStaysBehind
<1> DEFINE n == names[x]
<1>1. /\ UNCHANGED <<pc, id, left, outcome, process, coreRunCounter, abortedRuns, asked, ahead>>
      /\ AtHead(x, c) /\ Dequeue(c) /\ names' = [names EXCEPT ![x] = 0]
      /\ \/ /\ runStates[n] # "none" /\ runStates' = [runStates EXCEPT ![n] = "aborted"]
            /\ detached' = detached
         \/ runStates[n] = "none" /\ detached' = detached \cup {n} /\ runStates' = runStates
  BY DEF HandleAbort, runVars, historyVars
<1>2. names[x] # 0
  <2>1. inbox[c] \in Seq(InboxFrame) /\ inbox[c] # <<>> /\ Head(inbox[c]) = x
    BY <1>0, <1>1 DEF CoreTypeOK, InboxFrame, AtHead
  <2>2. 1 \in 1..Len(inbox[c]) /\ inbox[c][1] = x
    BY <2>1, TailFacts
  <2>. QED  BY <1>0, <2>2 DEF FramesAreOwn
<1>3. /\ n \in asked /\ n \in Ids /\ n \in Nat
      /\ n <= coreRunCounter \/ n \in ahead
  BY <1>0, <1>2, RefsTyped DEF NamesWereAsked
<1>5. /\ names' \in [Aborts -> 0..MaxIds] /\ names'[x] = 0
      /\ \A y \in Aborts : y # x => names'[y] = names[y]
  BY <1>0, <1>1, CoreRunsAssumption DEF CoreTypeOK
<1>6. inbox' \in [Sockets -> Seq(InboxFrame)] /\ FramesAreOwn'
  <2>1. x \in InboxFrame
    BY DEF InboxFrame
  <2>. QED  BY <1>0, <1>1, <1>5, <2>1, DequeueKeepsFrames
<1> HIDE DEF n
<1>8. /\ runStates' \in [Ids -> {"none", "live", "aborted"}] /\ detached' \subseteq Ids
      /\ \A i \in Ids : runStates'[i] # "none" <=> runStates[i] # "none"
      /\ \A i \in Ids : runStates'[i] = "aborted" => runStates[i] = "aborted" \/ i = n
      /\ \A i \in detached' : i \in detached \/ (i = n /\ runStates'[i] = "none")
  BY <1>0, <1>1, <1>3 DEF CoreTypeOK
<1>9. CoreTypeOK'
  BY <1>0, <1>1, <1>5, <1>6, <1>8 DEF CoreTypeOK, InboxFrame
<1>10. IdsAreOwn' /\ StatesAreOfRuns'
  <2>1. Queued' = Queued /\ \A q \in RunSlots : InCore(q)' <=> InCore(q)
    BY <1>1 DEF Queued, InCore
  <2>2. IdsAreOwn'
    BY <1>0, <1>1, <2>1 DEF IdsAreOwn
  <2>3. StatesAreOfRuns'
    BY <1>0, <1>1, <1>8, <2>1 DEF StatesAreOfRuns
  <2>. QED  BY <2>2, <2>3
<1>11. NamesWereAsked' /\ AbortHitsItsId' /\ OutcomesAwaitYield'
  <2>1. \A y \in Aborts : names'[y] # 0 => names'[y] = names[y] /\ names[y] # 0
    BY <1>5
  <2>. QED  BY <1>0, <1>1, <2>1 DEF NamesWereAsked, AbortHitsItsId, OutcomesAwaitYield
<1>12. FlagsWereAsked'
  <2> SUFFICES ASSUME NEW i \in Ids, runStates'[i] = "aborted" \/ i \in detached'
               PROVE  i \in asked
    BY <1>1 DEF FlagsWereAsked
  <2>1. CASE i = n
    BY <1>3, <2>1
  <2>2. CASE i # n
    BY <1>0, <1>8, <2>2 DEF FlagsWereAsked
  <2>. QED  BY <2>1, <2>2
<1>13. DetachedAreOver'
  <2> SUFFICES ASSUME NEW i \in detached'
               PROVE  /\ runStates'[i] = "none"
                      /\ i <= coreRunCounter \/ i \in ahead
    BY <1>1 DEF DetachedAreOver
  <2>1. CASE i \in detached
    <3>1. i \in Ids
      BY <1>0, <2>1 DEF CoreTypeOK
    <3>. QED  BY <1>0, <1>8, <2>1, <3>1 DEF DetachedAreOver
  <2>2. CASE i = n /\ runStates'[i] = "none"
    BY <1>3, <2>2
  <2>. QED  BY <1>8, <2>1, <2>2
<1>. QED  BY <1>6, <1>9, <1>10, <1>11, <1>12, <1>13 DEF CoreInv, NothingStaysBehind

LEMMA CoreRestartKeepsInv ==
    ASSUME CoreInv, Restart
    PROVE  CoreInv'
<1>0. /\ CoreTypeOK /\ NamesWereAsked /\ AbortHitsItsId
  BY DEF CoreInv
<1>1. /\ process < MaxRestarts /\ process' = process + 1
      /\ inbox' = [c \in Sockets |-> <<>>] /\ pc' = [r \in RunSlots |-> "idle"]
      /\ id' = [r \in RunSlots |-> 0] /\ left' = [r \in RunSlots |-> 0]
      /\ outcome' = [r \in RunSlots |-> "none"] /\ names' = [x \in Aborts |-> 0]
      /\ coreRunCounter' = 0 /\ runStates' = [i \in Ids |-> "none"] /\ detached' = {}
      /\ abortedRuns' = {} /\ asked' = {} /\ ahead' = {}
  BY DEF Restart, historyVars
<1>2. process' \in 0..MaxRestarts /\ process \in Nat
  BY <1>0, <1>1, CoreRunsAssumption DEF CoreTypeOK
<1>3. CoreTypeOK'
  <2>1. <<>> \in Seq(RunSlots \cup Aborts)
    OBVIOUS
  <2>. QED  BY <1>0, <1>1, <1>2, <2>1, CoreRunsAssumption DEF CoreTypeOK, Steps, Outcomes
<1>4. Queued' = {} /\ \A q \in RunSlots : ~InCore(q)'
  BY <1>1 DEF Queued, InCore
<1>5. IdsAreOwn'
  BY <1>1, <1>4, FS_EmptySet, CoreRunsAssumption DEF IdsAreOwn
<1>6. StatesAreOfRuns' /\ DetachedAreOver' /\ OutcomesAwaitYield'
  BY <1>1, <1>4 DEF StatesAreOfRuns, DetachedAreOver, OutcomesAwaitYield
<1>7. NamesWereAsked'
  BY <1>0, <1>1, <1>2, RefsTyped DEF NamesWereAsked
<1>8. FramesAreOwn'
  <2>1. \A c \in Sockets : Len(inbox'[c]) = 0
    BY <1>1
  <2>. QED  BY <2>1 DEF FramesAreOwn
<1>9. FlagsWereAsked' /\ AbortHitsItsId'
  BY <1>0, <1>1 DEF FlagsWereAsked, AbortHitsItsId
<1>. QED  BY <1>3, <1>5, <1>6, <1>7, <1>8, <1>9 DEF CoreInv, NothingStaysBehind

LEMMA CoreInitInv == CoreInit => CoreInv
<1> SUFFICES ASSUME CoreInit PROVE CoreInv
  OBVIOUS
<1>1. CoreTypeOK
  <2>1. <<>> \in Seq(RunSlots \cup Aborts)
    OBVIOUS
  <2>. QED  BY <2>1, CoreRunsAssumption DEF CoreInit, CoreTypeOK, Steps, Outcomes
<1>2. Queued = {} /\ \A q \in RunSlots : ~InCore(q)
  BY DEF CoreInit, Queued, InCore
<1>3. IdsAreOwn
  BY <1>2, FS_EmptySet, CoreRunsAssumption DEF CoreInit, IdsAreOwn
<1>4. StatesAreOfRuns /\ DetachedAreOver /\ OutcomesAwaitYield
  BY <1>2 DEF CoreInit, StatesAreOfRuns, DetachedAreOver, OutcomesAwaitYield
<1>5. NamesWereAsked /\ FlagsWereAsked /\ AbortHitsItsId
  BY DEF CoreInit, NamesWereAsked, FlagsWereAsked, AbortHitsItsId
<1>6. FramesAreOwn
  <2>1. \A c \in Sockets : Len(inbox[c]) = 0
    BY DEF CoreInit
  <2>. QED  BY <2>1 DEF FramesAreOwn
<1>. QED  BY <1>1, <1>3, <1>4, <1>5, <1>6 DEF CoreInv, NothingStaysBehind

LEMMA CoreStutterKeepsInv ==
    ASSUME CoreInv, UNCHANGED coreVars
    PROVE  CoreInv'
<1>1. UNCHANGED <<inbox, pc, id, left, outcome, names, process, coreRunCounter, runStates, detached,
                  abortedRuns, asked, ahead>>
  BY DEF coreVars, runVars, stateVars, historyVars
<1>. QED  BY <1>1 DEF CoreInv, CoreTypeOK, IdsAreOwn, NamesWereAsked, FramesAreOwn, FlagsWereAsked,
              OutcomesAwaitYield, NothingStaysBehind, StatesAreOfRuns, DetachedAreOver, AbortHitsItsId,
              Queued, InCore

LEMMA CoreNextKeepsInv ==
    ASSUME CoreInv, [CoreNext]_coreVars
    PROVE  CoreInv'
<1>1. ASSUME NEW r \in RunSlots, CoreStep(r) \/ \E c \in Sockets : SendRun(r, c) \/ StartRun(r, c) \/ CloseRun(r, c)
      PROVE  CoreInv'
  BY <1>1, LoopKeepsInv, SendRunKeepsInv, StartRunKeepsInv, CloseRunKeepsInv
<1>2. ASSUME NEW x \in Aborts,
             (\E c \in Sockets, n \in Ids : SendAbort(x, c, n)) \/ AbortStep(x)
      PROVE  CoreInv'
  BY <1>2, SendAbortKeepsInv, HandleAbortKeepsInv DEF AbortStep
<1>. QED  BY <1>1, <1>2, CoreRestartKeepsInv, CoreStutterKeepsInv DEF CoreNext, RunStep, CoreStep

\* For any number of sockets, runs, aborts and restarts.
THEOREM CoreInvariant == CoreSpec => []CoreInv
<1>. QED  BY CoreInitInv, CoreNextKeepsInv, PTL DEF CoreSpec

\* A run fails with ABORTED only when an abort that this process received
\* named its id, whatever ids the aborts name.
THEOREM AbortsHitTheirId == CoreSpec => []AbortHitsItsId
<1>1. CoreInv => AbortHitsItsId
  BY DEF CoreInv
<1>. QED  BY <1>1, CoreInvariant, PTL

\* The map of run states is exactly that of the runs in the core, and a
\* remembered abort is of a run that is over or was named ahead of any run.
THEOREM NothingIsLeftBehind == CoreSpec => []NothingStaysBehind
<1>1. CoreInv => NothingStaysBehind
  BY DEF CoreInv
<1>. QED  BY <1>1, CoreInvariant, PTL

\* A flagged run starts no further tool and does not complete.
THEOREM AbortsStopRuns == CoreSpec => AbortStopsRun
<1>1. CoreInv /\ [CoreNext]_coreVars =>
        [\A r \in RunSlots : Deciding(r) /\ Flagged(r) =>
             /\ pc'[r] = "tool" => pc[r] = "tool"
             /\ outcome'[r] # "completed"]_coreVars
  <2> SUFFICES ASSUME CoreInv, CoreNext, NEW r \in RunSlots, Deciding(r), Flagged(r)
               PROVE  (pc'[r] = "tool" => pc[r] = "tool") /\ outcome'[r] # "completed"
    OBVIOUS
  <2>0. CoreTypeOK /\ OutcomesAwaitYield /\ outcome[r] = "none" /\ pc[r] \in {"accepting", "looping", "tool"}
    BY DEF CoreInv, OutcomesAwaitYield, Deciding
  <2>1. ASSUME pc'[r] = pc[r], outcome'[r] = outcome[r]
        PROVE  (pc'[r] = "tool" => pc[r] = "tool") /\ outcome'[r] # "completed"
    BY <2>0, <2>1
  <2>2. ASSUME NEW q \in RunSlots, CoreStep(q)
        PROVE  (pc'[r] = "tool" => pc[r] = "tool") /\ outcome'[r] # "completed"
    <3>1. CASE q = r
      BY <2>0, <2>2, <3>1, LoopFrame
    <3>2. CASE q # r
      BY <2>0, <2>1, <2>2, <3>2, LoopFrame
    <3>. QED  BY <3>1, <3>2
  <2>3. ASSUME NEW q \in RunSlots, NEW c \in Sockets, SendRun(q, c) \/ StartRun(q, c) \/ CloseRun(q, c)
        PROVE  (pc'[r] = "tool" => pc[r] = "tool") /\ outcome'[r] # "completed"
    <3>1. q # r
      BY <2>0, <2>3 DEF SendRun, StartRun, CloseRun
    <3>. QED  BY <2>0, <2>1, <2>3, <3>1 DEF SendRun, StartRun, CloseRun, Go, CoreTypeOK
  <2>4. ASSUME NEW x \in Aborts,
               (\E c \in Sockets, n \in Ids : SendAbort(x, c, n)) \/ AbortStep(x)
        PROVE  (pc'[r] = "tool" => pc[r] = "tool") /\ outcome'[r] # "completed"
    BY <2>1, <2>4 DEF SendAbort, AbortStep, HandleAbort, runVars
  <2>5. CASE Restart
    BY <2>5 DEF Restart
  <2>. QED  BY <2>2, <2>3, <2>4, <2>5 DEF CoreNext, RunStep, CoreStep
<1>. QED  BY <1>1, CoreInvariant, PTL DEF CoreSpec, AbortStopsRun
=============================================================================
