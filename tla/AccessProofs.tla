---------------------------- MODULE AccessProofs -----------------------------
(***************************************************************************)
(* What holds of the choice of a target and of the policy gate for any     *)
(* number of targets, tools, administrators, requests and runs, and of the *)
(* accounts and their tokens for any number of users, calls and faults.    *)
(***************************************************************************)
EXTENDS ToolGate, Accounts, SequenceTheorems, TLAPS

Written(a) == stage[a] \in {"clearing", "upserted"}

\* What a request carries while it is on its way.
Carried ==
    \A a \in Admins : /\ a \in Upserting => subject[a] \in Targets /\ input[a] \in Settings
                      /\ a \in Updating => input[a] \in Patches
                      /\ stage[a] = "merging" => copy[a] \in Policies

-----------------------------------------------------------------------------
\* A target that counts as disabled is, and nobody is about to change it.
OffStays ==
    /\ \A r \in Runs : avoid[r] \subseteq off
    /\ \A t \in off : /\ rows[t] # None /\ ~rows[t].enabled
                      /\ \A a \in Upserting : subject[a] # t

\* Only upserts that overlapped another one of their target have lost theirs.
WrittenStays ==
    /\ \A a, b \in Upserting : subject[a] = subject[b] /\ a # b => subject[a] \in tangled
    /\ \A a \in Admins : Written(a) /\ subject[a] \notin tangled =>
          rows[subject[a]] # None /\ rows[subject[a]].enabled = input[a].enabled

\* The default of a home as the rows have it, but for target t.
Sole(t) == {t} \ {None}
Matches(h, t) == Defaults(h) \ {t} = Sole(chosen[h]) \ {t}

\* How far one upsert, alone in flight, has taken the rows from what was chosen.
Underway(a) ==
    LET t == subject[a]
    IN  /\ stage[a] = "writing" => \A h \in Homes : Defaults(h) = Sole(chosen[h])
        /\ Written(a) => rows[t] = input[a]
        /\ stage[a] = "clearing" => input[a].default /\ \A h \in Homes : Matches(h, t)
        /\ stage[a] = "upserted" =>
              \A h \in Homes : IF input[a].default /\ h = input[a].home
                               THEN Defaults(h) \ {t} = {} ELSE Matches(h, t)

DefaultsMatch ==
    ~crossed =>
        /\ \A a, b \in Upserting : a = b
        /\ Upserting = {} => \A h \in Homes : Defaults(h) = Sole(chosen[h])
        /\ \A a \in Upserting : Underway(a)

\* A calm run finds the rows as they were chosen.
Pending(r) == pc[r] = "fetching" \/ Placed(r)
Expected == IF chosen["workspace"] # None THEN chosen["workspace"]
            ELSE IF chosen["tenant"] # None THEN chosen["tenant"] ELSE Local
ChoosesWell(r) ==
    /\ pc[r] = "tenant" => chosen["workspace"] = None
    /\ Pending(r) /\ pick[r] # None /\ from[r] \notin {"run", "agent"} => pick[r] = Expected
CalmRuns ==
    /\ calm # {} => ~crossed /\ Upserting = {}
    /\ \A r \in calm : ChoosesWell(r)

TargetInv == OffStays /\ WrittenStays /\ DefaultsMatch /\ CalmRuns /\ DisabledStayUnused

-----------------------------------------------------------------------------
\* What counts as denied is denied by the policy, by every copy of it and by
\* whatever an update on its way makes of either.
DeniedStays ==
    /\ \A r \in Runs : barred[r] \subseteq denied
    /\ \A x \in denied :
          /\ x \in Denies(policy)
          /\ \A a \in Updating : x \notin Frees(input[a])
          /\ \A a \in Admins : stage[a] = "merging" => x \in Denies(copy[a])

PolicyInv == DeniedStays /\ DenialsHold

IInv == TypeOK /\ Carried /\ TargetInv /\ PolicyInv
-----------------------------------------------------------------------------
LEMMA NoneIsNoRow == None \notin Rows /\ None \notin Targets
  BY ToolGateAssumption

LEMMA InitEstablishesIInv == Init => IInv
<1> SUFFICES ASSUME Init PROVE IInv
  OBVIOUS
<1>1. TypeOK
  <2>1. rows \in [Targets -> Rows \cup {None}] /\ chosen \in [Homes -> Targets \cup {None}]
    BY ToolGateAssumption DEF Init, Rows, Homes
  <2>2. input = [a \in Admins |-> input[a]] /\ 0 \in 0 .. MaxRequests
    BY ToolGateAssumption DEF Init
  <2>. QED  BY <2>1, <2>2, ToolGateAssumption DEF Init, TypeOK
<1>2. Upserting = {} /\ Updating = {} /\ \A a \in Admins : stage[a] = "idle"
  BY DEF Init, Upserting, Updating
<1>3. Carried
  BY <1>2 DEF Carried
<1>4. OffStays /\ WrittenStays /\ CalmRuns /\ DisabledStayUnused
  BY <1>2 DEF Init, OffStays, WrittenStays, CalmRuns, DisabledStayUnused, Written, Placed
<1>5. ASSUME NEW h \in Homes PROVE Defaults(h) = Sole(chosen[h])
  <2>1. chosen[h] = IF h = "workspace" THEN Local ELSE None
    BY DEF Init
  <2>2. ASSUME NEW t \in Targets PROVE t \in Defaults(h) <=> t = Local /\ h = "workspace"
    <3>. DEFINE first == [home |-> "workspace", default |-> TRUE, enabled |-> TRUE]
    <3>1. rows[t] = IF t = Local THEN first ELSE None
      BY DEF Init
    <3>2. first \in Rows
      BY DEF Rows, Homes
    <3>3. first # None
      BY <3>2, NoneIsNoRow
    <3>. QED  BY <3>1, <3>3 DEF Defaults
  <2>. QED  BY <2>1, <2>2, ToolGateAssumption DEF Sole, Defaults
<1>6. DefaultsMatch
  BY <1>2, <1>5 DEF DefaultsMatch
<1>7. PolicyInv
  BY DEF Init, PolicyInv, DeniedStays, DenialsHold
<1>. QED  BY <1>1, <1>3, <1>4, <1>6, <1>7 DEF IInv, TargetInv

-----------------------------------------------------------------------------
\* A step leaves the upserts, or the updates, of the administrators alone.
SameUpserts ==
    /\ Upserting' = Upserting
    /\ \A a \in Upserting : stage'[a] = stage[a] /\ subject'[a] = subject[a] /\ input'[a] = input[a]
SameUpdates ==
    /\ Updating' = Updating
    /\ \A a \in Updating : stage'[a] = stage[a] /\ input'[a] = input[a] /\ copy'[a] = copy[a]

LEMMA TargetsFrame ==
    ASSUME IInv, SameUpserts, UNCHANGED <<rows, off, chosen, crossed, tangled>>,
           \A r \in Runs : avoid'[r] \subseteq off
    PROVE  OffStays' /\ WrittenStays' /\ DefaultsMatch'
<1>1. \A a \in Admins : Written(a)' => a \in Upserting /\ Written(a)
  BY DEF SameUpserts, Written, Upserting
<1>2. OffStays'
  BY DEF IInv, TargetInv, OffStays, SameUpserts
<1>3. WrittenStays'
  BY <1>1 DEF IInv, TargetInv, WrittenStays, SameUpserts
<1>4. \A h \in Homes : Defaults(h)' = Defaults(h)
  BY DEF Defaults
<1>5. \A a \in Upserting : Underway(a) => Underway(a)'
  BY <1>4 DEF Underway, SameUpserts, Written, Matches
<1>6. DefaultsMatch'
  BY <1>4, <1>5 DEF IInv, TargetInv, DefaultsMatch, SameUpserts
<1>. QED  BY <1>2, <1>3, <1>6

LEMMA RunsFrame ==
    ASSUME IInv, SameUpserts, UNCHANGED <<calm, chosen, crossed, avoid>>,
           \A r \in Runs : /\ pc'[r] = "tenant" => pc[r] = "tenant"
                           /\ Placed(r)' => Placed(r)
                           /\ Pending(r)' => Pending(r) /\ pick'[r] = pick[r] /\ from'[r] = from[r]
    PROVE  CalmRuns' /\ DisabledStayUnused'
<1>1. calm \subseteq Runs
  BY DEF IInv, TypeOK
<1>2. CalmRuns'
  BY <1>1 DEF IInv, TargetInv, CalmRuns, ChoosesWell, Expected, SameUpserts
<1>3. DisabledStayUnused'
  BY DEF IInv, TargetInv, DisabledStayUnused, Pending
<1>. QED  BY <1>2, <1>3

LEMMA PolicyFrame ==
    ASSUME IInv, SameUpdates, UNCHANGED <<policy, denied, barred>>,
           \A r \in Runs : pc'[r] = "executing" => pc[r] = "executing" /\ tool'[r] = tool[r]
    PROVE  PolicyInv'
<1>1. \A a \in Admins : stage'[a] = "merging" => a \in Updating
  BY DEF SameUpdates, Updating
<1>2. \A a \in Admins : stage'[a] = "merging" => stage[a] = "merging" /\ copy'[a] = copy[a]
  BY <1>1 DEF SameUpdates
<1>3. Denies(policy)' = Denies(policy) /\ \A a \in Updating : Frees(input'[a]) = Frees(input[a])
  BY DEF SameUpdates
<1>4. DeniedStays'
  BY <1>2, <1>3 DEF IInv, PolicyInv, DeniedStays, SameUpdates
<1>5. DenialsHold'
  BY DEF IInv, PolicyInv, DenialsHold
<1>. QED  BY <1>4, <1>5 DEF PolicyInv

-----------------------------------------------------------------------------
\* The upserts of targets.
LEMMA StartUpsertKeepsIInv ==
    ASSUME IInv, NEW a \in Admins, NEW t \in Targets, NEW row \in Settings, StartUpsert(a, t, row)
    PROVE  IInv'
<1>1. /\ TypeOK /\ stage[a] = "idle" /\ stage' = [stage EXCEPT ![a] = "writing"]
      /\ subject' = [subject EXCEPT ![a] = t] /\ input' = [input EXCEPT ![a] = row]
      /\ off' = off \ {t} /\ avoid' = [r \in Runs |-> avoid[r] \ {t}]
      /\ crossed' = (crossed \/ Upserting # {})
      /\ tangled' = IF \E b \in Upserting : subject[b] = t THEN tangled \cup {t} ELSE tangled
      /\ calm' = {} /\ requests' = requests + 1 /\ requests < MaxRequests
      /\ UNCHANGED <<rows, agent, policy, copy, pc, pick, from, tool, chosen, denied, barred>>
  BY DEF IInv, StartUpsert, MayAsk, Forward, runVars, policyHistory
<1>2. TypeOK'
  <2>1. /\ stage' \in [Admins -> {"idle", "writing", "clearing", "upserted", "reading", "merging", "updated"}]
        /\ subject' \in [Admins -> Targets \cup {None}] /\ input' = [b \in Admins |-> input'[b]]
    BY <1>1 DEF TypeOK
  <2>2. /\ requests' \in 0 .. MaxRequests /\ crossed' \in BOOLEAN /\ calm' \subseteq Runs
        /\ off' \cup tangled' \subseteq Targets /\ avoid' \in [Runs -> SUBSET Targets]
    BY <1>1, ToolGateAssumption DEF TypeOK
  <2>. QED  BY <1>1, <2>1, <2>2 DEF TypeOK
<1>3. /\ a \notin Upserting /\ a \notin Updating /\ Upserting' = Upserting \cup {a}
      /\ stage'[a] = "writing" /\ subject'[a] = t /\ input'[a] = row
      /\ \A b \in Admins \ {a} : stage'[b] = stage[b] /\ subject'[b] = subject[b] /\ input'[b] = input[b]
  BY <1>1 DEF TypeOK, Upserting, Updating
<1>4. SameUpdates
  BY <1>1, <1>3 DEF SameUpdates, Updating
<1>5. Carried'
  BY <1>1, <1>3, <1>4 DEF IInv, Carried, SameUpdates, Updating
<1>6. OffStays'
  BY <1>1, <1>3 DEF IInv, TargetInv, OffStays
<1>7. WrittenStays'
  <2>1. Upserting \subseteq Admins /\ tangled \subseteq tangled'
    BY <1>1 DEF Upserting
  <2>2. \A b, c \in Upserting' : subject'[b] = subject'[c] /\ b # c => subject'[b] \in tangled'
    BY <1>1, <1>3, <2>1 DEF IInv, TargetInv, WrittenStays
  <2>3. \A b \in Admins : Written(b)' => b # a /\ Written(b)
    BY <1>3 DEF Written
  <2>. QED  BY <1>1, <1>3, <2>1, <2>2, <2>3 DEF IInv, TargetInv, WrittenStays
<1>8. DefaultsMatch'
  <2>. SUFFICES ASSUME ~crossed' PROVE /\ \A b, c \in Upserting' : b = c
                                       /\ Upserting' = {} => \A h \in Homes : Defaults(h)' = Sole(chosen[h])'
                                       /\ \A b \in Upserting' : Underway(b)'
    BY DEF DefaultsMatch
  <2>1. ~crossed /\ Upserting' = {a} /\ \A h \in Homes : Defaults(h) = Sole(chosen[h])
    BY <1>1, <1>3 DEF IInv, TypeOK, TargetInv, DefaultsMatch
  <2>2. \A h \in Homes : Defaults(h)' = Defaults(h) /\ Sole(chosen[h])' = Sole(chosen[h])
    BY <1>1 DEF Defaults, Sole
  <2>3. Underway(a)'
    BY <1>3, <2>1, <2>2 DEF Underway, Written
  <2>. QED  BY <2>1, <2>3
<1>9. CalmRuns' /\ DisabledStayUnused'
  BY <1>1 DEF IInv, TargetInv, CalmRuns, DisabledStayUnused, Placed
<1>10. PolicyInv'
  BY <1>1, <1>4, PolicyFrame
<1>. QED  BY <1>2, <1>5, <1>6, <1>7, <1>8, <1>9, <1>10 DEF IInv, TargetInv

\* The steps of an upsert behind its first leave no calm run, no run is placed
\* by them and no policy is touched.
LEMMA UpsertSteps ==
    ASSUME IInv, NEW a \in Upserting, UNCHANGED <<calm, avoid, policy, denied, barred, pc, pick, tool>>,
           SameUpdates
    PROVE  CalmRuns' /\ DisabledStayUnused' /\ PolicyInv'
<1>1. calm = {}
  BY DEF IInv, TargetInv, CalmRuns
<1>2. CalmRuns' /\ DisabledStayUnused'
  BY <1>1 DEF IInv, TargetInv, CalmRuns, DisabledStayUnused, Placed
<1>. QED  BY <1>2, PolicyFrame

LEMMA WriteTargetKeepsIInv ==
    ASSUME IInv, NEW a \in Admins, WriteTarget(a)
    PROVE  IInv'
<1>0. stage[a] = "writing" /\ a \in Upserting /\ subject[a] \in Targets /\ input[a] \in Settings
  BY DEF IInv, Carried, WriteTarget, Upserting
<1>. PICK t \in Targets, row \in Settings : t = subject[a] /\ row = input[a]
  BY <1>0
<1>1. /\ TypeOK /\ stage[a] = "writing" /\ a \in Upserting /\ t = subject[a] /\ row = input[a]
      /\ row \in Rows /\ row # None
  BY <1>0, ToolGateAssumption DEF IInv
<1>2. /\ rows' = [rows EXCEPT ![t] = row]
      /\ stage' = [stage EXCEPT ![a] = IF row.default THEN "clearing" ELSE "upserted"]
      /\ UNCHANGED <<agent, policy, subject, input, copy, requests, pc, pick, from, tool,
                     off, avoid, chosen, crossed, tangled, calm, denied, barred>>
  BY <1>1 DEF WriteTarget, Forward, runVars, targetHistory, policyHistory
<1>3. TypeOK'
  BY <1>1, <1>2 DEF TypeOK
<1>4. /\ Upserting' = Upserting /\ SameUpdates
      /\ stage'[a] = IF row.default THEN "clearing" ELSE "upserted"
      /\ \A b \in Admins \ {a} : stage'[b] = stage[b]
      /\ rows'[t] = row /\ \A u \in Targets \ {t} : rows'[u] = rows[u]
  BY <1>1, <1>2 DEF TypeOK, Upserting, SameUpdates, Updating
<1>5. Carried'
  BY <1>2, <1>4 DEF IInv, Carried, SameUpdates, Updating
<1>6. OffStays'
  <2>1. t \notin off /\ off \subseteq Targets
    BY <1>1 DEF IInv, TargetInv, OffStays, TypeOK
  <2>. QED  BY <1>2, <1>4, <2>1 DEF IInv, TargetInv, OffStays
<1>7. WrittenStays'
  <2>1. ASSUME NEW b \in Admins, Written(b)', subject[b] \notin tangled
        PROVE  rows'[subject[b]] # None /\ rows'[subject[b]].enabled = input[b].enabled
    <3>1. CASE b = a
      BY <1>1, <1>4, <3>1
    <3>2. CASE b # a
      <4>1. Written(b) /\ b \in Upserting
        BY <1>4, <2>1, <3>2 DEF Written, Upserting
      <4>2. subject[b] # t /\ subject[b] \in Targets
        BY <1>1, <2>1, <3>2, <4>1 DEF IInv, TargetInv, WrittenStays, Carried
      <4>. QED  BY <1>4, <2>1, <4>1, <4>2 DEF IInv, TargetInv, WrittenStays
    <3>. QED  BY <3>1, <3>2
  <2>2. \A b, c \in Upserting' : subject'[b] = subject'[c] /\ b # c => subject'[b] \in tangled'
    BY <1>2, <1>4 DEF IInv, TargetInv, WrittenStays
  <2>. QED  BY <1>2, <2>1, <2>2 DEF WrittenStays
<1>8. DefaultsMatch'
  <2>. SUFFICES ASSUME ~crossed PROVE /\ \A b, c \in Upserting : b = c
                                      /\ \A b \in Upserting : Underway(b)'
    BY <1>1, <1>2, <1>4 DEF DefaultsMatch
  <2>1. (\A b, c \in Upserting : b = c) /\ Underway(a)
    BY <1>1 DEF IInv, TargetInv, DefaultsMatch
  <2>2. \A h \in Homes : Defaults(h) = Sole(chosen[h])
    BY <1>1, <2>1 DEF Underway
  <2>3. \A h \in Homes : Defaults(h)' \ {t} = Defaults(h) \ {t}
    BY <1>4 DEF Defaults
  <2>4. \A h \in Homes : Matches(h, t)'
    BY <1>2, <2>2, <2>3 DEF Matches, Sole
  <2>5. subject'[a] = t /\ input'[a] = row /\ row.default \in BOOLEAN
    BY <1>1, <1>2 DEF Rows
  <2>6. Underway(a)'
    BY <1>4, <2>4, <2>5 DEF Underway
  <2>. QED  BY <1>1, <2>1, <2>6
<1>9. CalmRuns' /\ DisabledStayUnused' /\ PolicyInv'
  BY <1>1, <1>2, <1>4, UpsertSteps
<1>. QED  BY <1>3, <1>5, <1>6, <1>7, <1>8, <1>9 DEF IInv, TargetInv

LEMMA ClearOthersKeepsIInv ==
    ASSUME IInv, NEW a \in Admins, ClearOthers(a)
    PROVE  IInv'
<1>0. stage[a] = "clearing" /\ a \in Upserting /\ subject[a] \in Targets /\ input[a] \in Settings
  BY DEF IInv, Carried, ClearOthers, Upserting
<1>. PICK t \in Targets, row \in Settings : t = subject[a] /\ row = input[a]
  BY <1>0
<1>1. /\ TypeOK /\ stage[a] = "clearing" /\ a \in Upserting /\ t = subject[a] /\ row = input[a]
      /\ row \in Rows
  BY <1>0, ToolGateAssumption DEF IInv
<1>2. /\ rows' = [u \in Targets |-> IF u # t /\ rows[u] # None /\ rows[u].home = row.home
                                    THEN [rows[u] EXCEPT !.default = FALSE] ELSE rows[u]]
      /\ stage' = [stage EXCEPT ![a] = "upserted"]
      /\ UNCHANGED <<agent, policy, subject, input, copy, requests, pc, pick, from, tool,
                     off, avoid, chosen, crossed, tangled, calm, denied, barred>>
  BY <1>1 DEF ClearOthers, Forward, runVars, targetHistory, policyHistory
<1>3. ASSUME NEW u \in Targets
      PROVE  /\ rows'[u] \in Rows \cup {None}
             /\ rows'[u] = None <=> rows[u] = None
             /\ rows[u] # None => rows'[u].enabled = rows[u].enabled /\ rows'[u].home = rows[u].home
             /\ rows[u] # None => rows'[u].default = (IF u # t /\ rows[u].home = row.home
                                                      THEN FALSE ELSE rows[u].default)
  <2>1. CASE rows[u] = None
    BY <1>2, <2>1
  <2>2. CASE rows[u] # None
    <3>1. rows[u] \in Rows
      BY <1>1, <2>2 DEF TypeOK
    <3>2. rows'[u] \in Rows
      BY <1>2, <3>1 DEF Rows
    <3>3. rows'[u] # None
      BY <3>2, NoneIsNoRow
    <3>. QED  BY <1>2, <2>2, <3>1, <3>2, <3>3 DEF Rows
  <2>. QED  BY <2>1, <2>2
<1>4. rows'[t] = rows[t]
  BY <1>2
<1>5. TypeOK'
  <2>1. rows' \in [Targets -> Rows \cup {None}]
    BY <1>2, <1>3
  <2>. QED  BY <1>1, <1>2, <2>1 DEF TypeOK
<1>6. /\ Upserting' = Upserting /\ SameUpdates /\ stage'[a] = "upserted"
      /\ \A b \in Admins \ {a} : stage'[b] = stage[b]
  BY <1>1, <1>2 DEF TypeOK, Upserting, SameUpdates, Updating
<1>7. Carried'
  BY <1>2, <1>6 DEF IInv, Carried, SameUpdates, Updating
<1>8. OffStays'
  BY <1>1, <1>2, <1>3, <1>6 DEF IInv, TargetInv, OffStays, TypeOK
<1>9. WrittenStays'
  <2>1. ASSUME NEW b \in Admins, Written(b)', subject[b] \notin tangled
        PROVE  rows'[subject[b]] # None /\ rows'[subject[b]].enabled = input[b].enabled
    <3>1. Written(b) /\ b \in Upserting
      BY <1>1, <1>6, <2>1 DEF Written, Upserting
    <3>2. subject[b] \in Targets
      BY <3>1 DEF IInv, Carried
    <3>. QED  BY <1>3, <2>1, <3>1, <3>2 DEF IInv, TargetInv, WrittenStays
  <2>2. \A b, c \in Upserting' : subject'[b] = subject'[c] /\ b # c => subject'[b] \in tangled'
    BY <1>2, <1>6 DEF IInv, TargetInv, WrittenStays
  <2>. QED  BY <1>2, <2>1, <2>2 DEF WrittenStays
<1>10. DefaultsMatch'
  <2>. SUFFICES ASSUME ~crossed PROVE /\ \A b, c \in Upserting : b = c
                                      /\ \A b \in Upserting : Underway(b)'
    BY <1>1, <1>2, <1>6 DEF DefaultsMatch
  <2>1. (\A b, c \in Upserting : b = c) /\ Underway(a)
    BY <1>1 DEF IInv, TargetInv, DefaultsMatch
  <2>2. row.default /\ rows[t] = row /\ \A h \in Homes : Matches(h, t)
    BY <1>1, <2>1 DEF Underway, Written
  <2>3. ASSUME NEW h \in Homes, h # row.home PROVE Matches(h, t)'
    <3>1. Defaults(h)' = Defaults(h)
      BY <1>3, <2>3 DEF Defaults
    <3>. QED  BY <1>2, <2>2, <3>1 DEF Matches, Sole
  <2>4. ASSUME NEW h \in Homes, h = row.home, NEW u \in Defaults(h)' PROVE u = t
    BY <1>3, <2>4 DEF Defaults
  <2>5. subject'[a] = t /\ input'[a] = row /\ rows'[t] = row
    BY <1>1, <1>2, <1>4, <2>2
  <2>6. \A h \in Homes : IF input'[a].default /\ h = input'[a].home
                         THEN Defaults(h)' \ {t} = {} ELSE Matches(h, t)'
    BY <2>2, <2>3, <2>4, <2>5
  <2>7. Underway(a)'
    BY <1>6, <2>5, <2>6 DEF Underway
  <2>. QED  BY <1>1, <2>1, <2>7
<1>11. CalmRuns' /\ DisabledStayUnused' /\ PolicyInv'
  BY <1>1, <1>2, <1>6, UpsertSteps
<1>. QED  BY <1>5, <1>7, <1>8, <1>9, <1>10, <1>11 DEF IInv, TargetInv

LEMMA ReplyToUpsertKeepsIInv ==
    ASSUME IInv, NEW a \in Admins, ReplyToUpsert(a)
    PROVE  IInv'
<1>0. stage[a] = "upserted" /\ a \in Upserting /\ subject[a] \in Targets /\ input[a] \in Settings
  BY DEF IInv, Carried, ReplyToUpsert, Upserting
<1>. PICK t \in Targets, row \in Settings : t = subject[a] /\ row = input[a]
  BY <1>0
<1>1. /\ TypeOK /\ stage[a] = "upserted" /\ a \in Upserting /\ t = subject[a] /\ row = input[a]
      /\ row \in Rows /\ row.home \in Homes
  BY <1>0, ToolGateAssumption DEF IInv, Rows
<1>. DEFINE left == [h \in Homes |-> IF chosen[h] = t THEN None ELSE chosen[h]]
<1>2. /\ chosen' = IF row.default THEN [left EXCEPT ![row.home] = IF row.enabled THEN t ELSE None]
                                  ELSE left
      /\ off' = IF row.enabled \/ t \in tangled THEN off ELSE off \cup {t}
      /\ stage' = [stage EXCEPT ![a] = "idle"] /\ subject' = [subject EXCEPT ![a] = None]
      /\ input' = [input EXCEPT ![a] = None] /\ copy' = [copy EXCEPT ![a] = None]
      /\ UNCHANGED <<rows, agent, policy, requests, pc, pick, from, tool,
                     avoid, crossed, tangled, calm, denied, barred>>
  BY <1>1 DEF ReplyToUpsert, Done, Forward, runVars, policyHistory
<1>3. \A h \in Homes : chosen'[h] = IF row.default /\ h = row.home THEN IF row.enabled THEN t ELSE None
                                    ELSE IF chosen[h] = t THEN None ELSE chosen[h]
  BY <1>1, <1>2
<1>4. TypeOK'
  <2>1. chosen' \in [Homes -> Targets \cup {None}]
    BY <1>1, <1>2 DEF TypeOK
  <2>2. /\ stage' \in [Admins -> {"idle", "writing", "clearing", "upserted", "reading", "merging", "updated"}]
        /\ subject' \in [Admins -> Targets \cup {None}] /\ input' = [b \in Admins |-> input'[b]]
        /\ copy' \in [Admins -> Policies \cup {None}] /\ off' \cup tangled' \subseteq Targets
    BY <1>1, <1>2 DEF TypeOK
  <2>. QED  BY <1>1, <1>2, <2>1, <2>2 DEF TypeOK
<1>5. /\ Upserting' = Upserting \ {a} /\ stage'[a] = "idle"
      /\ \A b \in Admins \ {a} : /\ stage'[b] = stage[b] /\ subject'[b] = subject[b]
                                 /\ input'[b] = input[b] /\ copy'[b] = copy[b]
  BY <1>1, <1>2 DEF TypeOK, Upserting
<1>6. SameUpdates
  BY <1>1, <1>5 DEF SameUpdates, Updating
<1>7. Carried'
  BY <1>5 DEF IInv, Carried, Upserting, Updating
<1>8. OffStays'
  <2>1. t \notin tangled => /\ rows[t] # None /\ rows[t].enabled = row.enabled
                            /\ \A b \in Upserting \ {a} : subject[b] # t
    BY <1>1 DEF IInv, TargetInv, WrittenStays, Written, Upserting
  <2>2. \A b \in Upserting' : subject'[b] = subject[b]
    BY <1>5 DEF Upserting
  <2>. QED  BY <1>1, <1>2, <1>5, <2>1, <2>2 DEF IInv, TargetInv, OffStays
<1>9. WrittenStays'
  BY <1>2, <1>5 DEF IInv, TargetInv, WrittenStays, Written, Upserting
<1>10. DefaultsMatch'
  <2>. SUFFICES ASSUME ~crossed PROVE /\ Upserting' = {}
                                      /\ \A h \in Homes : Defaults(h)' = Sole(chosen'[h])
    BY <1>1, <1>2, <1>5 DEF DefaultsMatch, Sole
  <2>1. (\A b, c \in Upserting : b = c) /\ Underway(a)
    BY <1>1 DEF IInv, TargetInv, DefaultsMatch
  <2>2. rows[t] = row /\ \A h \in Homes : IF row.default /\ h = row.home
                                          THEN Defaults(h) \ {t} = {} ELSE Matches(h, t)
    BY <1>1, <2>1 DEF Underway, Written
  <2>3. row # None /\ t # None
    BY <1>1, NoneIsNoRow
  <2>4. ASSUME NEW h \in Homes PROVE Defaults(h) = Sole(chosen'[h])
    <3>1. t \in Defaults(h) <=> row.home = h /\ row.default /\ row.enabled
      BY <2>2, <2>3 DEF Defaults
    <3>2. CASE row.default /\ h = row.home
      BY <1>3, <2>2, <2>3, <3>1, <3>2 DEF Sole
    <3>3. CASE ~(row.default /\ h = row.home)
      <4>1. t \notin Defaults(h) /\ Defaults(h) = Sole(chosen[h]) \ {t}
        BY <2>2, <3>1, <3>3 DEF Matches
      <4>2. Sole(chosen'[h]) = Sole(chosen[h]) \ {t}
        BY <1>3, <2>3, <3>3 DEF Sole
      <4>. QED  BY <4>1, <4>2
    <3>. QED  BY <3>2, <3>3
  <2>5. \A h \in Homes : Defaults(h)' = Defaults(h)
    BY <1>2 DEF Defaults
  <2>. QED  BY <1>1, <1>5, <2>1, <2>4, <2>5
<1>11. CalmRuns' /\ DisabledStayUnused' /\ PolicyInv'
  BY <1>1, <1>2, <1>6, UpsertSteps
<1>. QED  BY <1>4, <1>7, <1>8, <1>9, <1>10, <1>11 DEF IInv, TargetInv

LEMMA UpsertAgentKeepsIInv ==
    ASSUME IInv, NEW a \in Admins, NEW t \in Targets \cup {None}, UpsertAgent(a, t)
    PROVE  IInv'
<1>1. /\ agent' = t /\ calm' = {} /\ requests < MaxRequests /\ requests' = requests + 1
      /\ UNCHANGED <<rows, policy, stage, subject, input, copy, pc, pick, from, tool,
                     off, avoid, chosen, crossed, tangled, denied, barred>>
  BY DEF UpsertAgent, MayAsk, runVars, policyHistory
<1>2. TypeOK' /\ Carried'
  BY <1>1, ToolGateAssumption DEF IInv, TypeOK, Carried, Upserting, Updating
<1>3. SameUpserts /\ SameUpdates
  BY <1>1 DEF SameUpserts, SameUpdates, Upserting, Updating
<1>4. OffStays' /\ WrittenStays' /\ DefaultsMatch'
  <2>1. \A r \in Runs : avoid'[r] \subseteq off
    BY <1>1 DEF IInv, TargetInv, OffStays
  <2>. QED  BY <1>1, <1>3, <2>1, TargetsFrame
<1>5. CalmRuns' /\ DisabledStayUnused'
  BY <1>1 DEF IInv, TargetInv, CalmRuns, DisabledStayUnused, Placed
<1>6. PolicyInv'
  BY <1>1, <1>3, PolicyFrame
<1>. QED  BY <1>2, <1>4, <1>5, <1>6 DEF IInv, TargetInv

-----------------------------------------------------------------------------
\* The updates of the policy.
LEMMA MergeKeepsDenial ==
    ASSUME NEW p \in Policies, NEW patch \in Policies, NEW x \in Tools,
           x \in Denies(p), x \notin Frees(patch)
    PROVE  x \in Denies(Merged(p, patch))
<1>1. x \in Fields /\ Class(x) \in Fields
  BY DEF Fields, Class
<1>2. /\ patch[x] \in {"deny", None} /\ patch[Class(x)] \in {"deny", None}
      /\ p[x] = "deny" \/ (p[x] = None /\ p[Class(x)] = "deny")
  BY <1>1 DEF Policies, Frees, Denies
<1>3. /\ Merged(p, patch)[x] = IF patch[x] = None THEN p[x] ELSE patch[x]
      /\ Merged(p, patch)[Class(x)] = IF patch[Class(x)] = None THEN p[Class(x)] ELSE patch[Class(x)]
  BY <1>1 DEF Merged
<1>. QED  BY <1>2, <1>3 DEF Denies

LEMMA MergeIsPolicy ==
    ASSUME NEW p \in Policies, NEW patch \in Policies
    PROVE  Merged(p, patch) \in Policies
  BY DEF Merged, Policies

\* A step of an update disturbs no target and no run.
LEMMA UpdateSteps ==
    ASSUME IInv, NEW a \in Admins, stage' = [stage EXCEPT ![a] = stage'[a]],
           a \notin Upserting, stage'[a] \in {"idle", "reading", "merging", "updated"},
           \A b \in Admins \ {a} : subject'[b] = subject[b] /\ input'[b] = input[b],
           UNCHANGED <<rows, pc, pick, from, off, avoid, chosen, crossed, tangled, calm>>
    PROVE  TargetInv'
<1>1. SameUpserts
  BY DEF IInv, TypeOK, SameUpserts, Upserting
<1>2. \A r \in Runs : avoid'[r] \subseteq off
  BY DEF IInv, TargetInv, OffStays
<1>3. OffStays' /\ WrittenStays' /\ DefaultsMatch'
  BY <1>1, <1>2, TargetsFrame
<1>4. CalmRuns' /\ DisabledStayUnused'
  BY <1>1, RunsFrame DEF Placed, Pending
<1>. QED  BY <1>3, <1>4 DEF TargetInv

LEMMA StartUpdateKeepsIInv ==
    ASSUME IInv, NEW a \in Admins, NEW patch \in Patches, StartUpdate(a, patch)
    PROVE  IInv'
<1>1. /\ TypeOK /\ stage[a] = "idle" /\ stage' = [stage EXCEPT ![a] = "reading"]
      /\ input' = [input EXCEPT ![a] = patch] /\ requests < MaxRequests /\ requests' = requests + 1
      /\ denied' = denied \ Frees(patch) /\ barred' = [r \in Runs |-> barred[r] \ Frees(patch)]
      /\ UNCHANGED <<rows, agent, policy, subject, copy, pc, pick, from, tool,
                     off, avoid, chosen, crossed, tangled, calm>>
  BY DEF IInv, StartUpdate, MayAsk, Forward, runVars, targetHistory
<1>2. TypeOK'
  <2>1. /\ stage' \in [Admins -> {"idle", "writing", "clearing", "upserted", "reading", "merging", "updated"}]
        /\ input' = [b \in Admins |-> input'[b]]
    BY <1>1 DEF TypeOK
  <2>2. requests' \in 0 .. MaxRequests
    BY <1>1, ToolGateAssumption DEF TypeOK
  <2>3. denied' \subseteq Tools /\ barred' \in [Runs -> SUBSET Tools]
    BY <1>1 DEF TypeOK
  <2>. QED  BY <1>1, <2>1, <2>2, <2>3 DEF TypeOK
<1>3. /\ stage'[a] = "reading" /\ input'[a] = patch /\ a \notin Upserting /\ Updating' = Updating \cup {a}
      /\ \A b \in Admins \ {a} : stage'[b] = stage[b] /\ input'[b] = input[b]
  BY <1>1 DEF TypeOK, Updating, Upserting
<1>4. Carried'
  BY <1>1, <1>3 DEF IInv, Carried, Upserting, Updating
<1>5. TargetInv'
  BY <1>1, <1>3, UpdateSteps
<1>6. PolicyInv'
  <2>1. \A b \in Updating : b \in Admins /\ (b # a => input'[b] = input[b])
    BY <1>3 DEF Updating
  <2>2. DeniedStays'
    BY <1>1, <1>3, <2>1 DEF IInv, PolicyInv, DeniedStays, Updating
  <2>3. DenialsHold'
    BY <1>1 DEF IInv, PolicyInv, DenialsHold
  <2>. QED  BY <2>2, <2>3 DEF PolicyInv
<1>. QED  BY <1>2, <1>4, <1>5, <1>6 DEF IInv

LEMMA ReadPolicyKeepsIInv ==
    ASSUME IInv, NEW a \in Admins, ReadPolicy(a)
    PROVE  IInv'
<1>1. /\ TypeOK /\ stage[a] = "reading" /\ stage' = [stage EXCEPT ![a] = "merging"]
      /\ copy' = [copy EXCEPT ![a] = policy]
      /\ UNCHANGED <<rows, agent, policy, subject, input, requests, pc, pick, from, tool,
                     off, avoid, chosen, crossed, tangled, calm, denied, barred>>
  BY DEF IInv, ReadPolicy, Forward, runVars, targetHistory, policyHistory
<1>2. TypeOK'
  BY <1>1 DEF TypeOK
<1>3. /\ stage'[a] = "merging" /\ copy'[a] = policy /\ a \notin Upserting /\ Updating' = Updating
      /\ \A b \in Admins \ {a} : stage'[b] = stage[b] /\ copy'[b] = copy[b]
  BY <1>1 DEF TypeOK, Updating, Upserting
<1>4. Carried'
  BY <1>1, <1>3 DEF IInv, Carried, Upserting, Updating, TypeOK
<1>5. TargetInv'
  BY <1>1, <1>3, UpdateSteps
<1>6. PolicyInv'
  <2>1. \A b \in Admins : stage'[b] = "merging" => b = a \/ (stage[b] = "merging" /\ copy'[b] = copy[b])
    BY <1>3
  <2>2. \A x \in denied : x \in Denies(policy) /\ \A b \in Admins : stage'[b] = "merging" => x \in Denies(copy'[b])
    BY <1>3, <2>1 DEF IInv, PolicyInv, DeniedStays
  <2>3. DeniedStays'
    BY <1>1, <1>3, <2>2 DEF IInv, PolicyInv, DeniedStays
  <2>4. DenialsHold'
    BY <1>1 DEF IInv, PolicyInv, DenialsHold
  <2>. QED  BY <2>3, <2>4 DEF PolicyInv
<1>. QED  BY <1>2, <1>4, <1>5, <1>6 DEF IInv

LEMMA WritePolicyKeepsIInv ==
    ASSUME IInv, NEW a \in Admins, WritePolicy(a)
    PROVE  IInv'
<1>1. /\ TypeOK /\ stage[a] = "merging" /\ stage' = [stage EXCEPT ![a] = "updated"]
      /\ policy' = Merged(copy[a], input[a])
      /\ UNCHANGED <<rows, agent, subject, input, copy, requests, pc, pick, from, tool,
                     off, avoid, chosen, crossed, tangled, calm, denied, barred>>
  BY DEF IInv, WritePolicy, Forward, runVars, targetHistory, policyHistory
<1>2. a \in Updating /\ copy[a] \in Policies /\ input[a] \in Policies
  BY <1>1, ToolGateAssumption DEF IInv, Carried, Updating
<1>3. TypeOK'
  <2>1. policy' \in Policies
    BY <1>1, <1>2, MergeIsPolicy
  <2>. QED  BY <1>1, <2>1 DEF TypeOK
<1>4. /\ stage'[a] = "updated" /\ a \notin Upserting /\ Updating' = Updating
      /\ \A b \in Admins \ {a} : stage'[b] = stage[b]
  BY <1>1 DEF TypeOK, Updating, Upserting
<1>5. Carried'
  BY <1>1, <1>4 DEF IInv, Carried, Upserting, Updating
<1>6. TargetInv'
  BY <1>1, <1>4, UpdateSteps
<1>7. PolicyInv'
  <2>1. ASSUME NEW x \in denied PROVE x \in Denies(policy')
    <3>1. x \in Denies(copy[a]) /\ x \notin Frees(input[a]) /\ x \in Tools
      BY <1>1, <1>2 DEF IInv, PolicyInv, DeniedStays, TypeOK
    <3>. QED  BY <1>1, <1>2, <3>1, MergeKeepsDenial
  <2>2. \A b \in Admins : stage'[b] = "merging" => stage[b] = "merging"
    BY <1>4
  <2>3. DeniedStays'
    BY <1>1, <1>4, <2>1, <2>2 DEF IInv, PolicyInv, DeniedStays
  <2>4. DenialsHold'
    BY <1>1 DEF IInv, PolicyInv, DenialsHold
  <2>. QED  BY <2>3, <2>4 DEF PolicyInv
<1>. QED  BY <1>3, <1>5, <1>6, <1>7 DEF IInv

LEMMA ReplyToUpdateKeepsIInv ==
    ASSUME IInv, NEW a \in Admins, ReplyToUpdate(a)
    PROVE  IInv'
<1>1. /\ TypeOK /\ stage[a] = "updated" /\ stage' = [stage EXCEPT ![a] = "idle"]
      /\ subject' = [subject EXCEPT ![a] = None] /\ input' = [input EXCEPT ![a] = None]
      /\ copy' = [copy EXCEPT ![a] = None]
      /\ denied' = IF Updating = {a} THEN Denies(policy) ELSE denied
      /\ UNCHANGED <<rows, agent, policy, requests, pc, pick, from, tool,
                     off, avoid, chosen, crossed, tangled, calm, barred>>
  BY DEF IInv, ReplyToUpdate, Done, Forward, runVars, targetHistory
<1>2. denied \subseteq denied' /\ denied' \subseteq Tools
  BY <1>1 DEF IInv, PolicyInv, DeniedStays, TypeOK, Denies
<1>3. TypeOK'
  <2>1. /\ stage' \in [Admins -> {"idle", "writing", "clearing", "upserted", "reading", "merging", "updated"}]
        /\ subject' \in [Admins -> Targets \cup {None}] /\ input' = [b \in Admins |-> input'[b]]
        /\ copy' \in [Admins -> Policies \cup {None}]
    BY <1>1 DEF TypeOK
  <2>. QED  BY <1>1, <1>2, <2>1 DEF TypeOK
<1>4. /\ stage'[a] = "idle" /\ a \notin Upserting /\ a \in Updating /\ Updating' = Updating \ {a}
      /\ \A b \in Admins \ {a} : /\ stage'[b] = stage[b] /\ subject'[b] = subject[b]
                                 /\ input'[b] = input[b] /\ copy'[b] = copy[b]
  BY <1>1 DEF TypeOK, Updating, Upserting
<1>5. Carried'
  BY <1>1, <1>4 DEF IInv, Carried, Upserting, Updating
<1>6. TargetInv'
  BY <1>1, <1>4, UpdateSteps
<1>7. PolicyInv'
  <2>1. \A b \in Admins : stage'[b] = "merging" => b \in Updating' /\ b # a
    BY <1>4 DEF Updating
  <2>2. \A b \in Updating' : b \in Admins \ {a} /\ b \in Updating
    BY <1>4 DEF Updating
  <2>3. CASE Updating = {a}
    <3>1. Updating' = {} /\ denied' = Denies(policy) /\ \A b \in Admins : stage'[b] # "merging"
      BY <1>1, <1>4, <2>1, <2>3
    <3>2. DeniedStays'
      BY <1>1, <1>2, <3>1 DEF IInv, PolicyInv, DeniedStays
    <3>. QED  BY <1>1, <3>2 DEF IInv, PolicyInv, DenialsHold
  <2>4. CASE Updating # {a}
    <3>1. denied' = denied
      BY <1>1, <2>4
    <3>2. DeniedStays'
      BY <1>1, <1>4, <2>1, <2>2, <3>1 DEF IInv, PolicyInv, DeniedStays
    <3>. QED  BY <1>1, <3>2 DEF IInv, PolicyInv, DenialsHold
  <2>. QED  BY <2>3, <2>4
<1>. QED  BY <1>3, <1>5, <1>6, <1>7 DEF IInv

-----------------------------------------------------------------------------
\* A step of a run changes nothing but what is kept of that run.
LEMMA RunStep ==
    ASSUME IInv, NEW r \in Runs, TypeOK',
           UNCHANGED <<rows, agent, policy, stage, subject, input, copy, off, chosen, crossed,
                       tangled, denied>>,
           \A o \in Runs \ {r} : /\ pc'[o] = pc[o] /\ pick'[o] = pick[o] /\ from'[o] = from[o]
                                 /\ tool'[o] = tool[o] /\ avoid'[o] = avoid[o] /\ barred'[o] = barred[o]
                                 /\ o \in calm' => o \in calm,
           avoid'[r] \subseteq off, barred'[r] \subseteq denied,
           r \in calm' => ~crossed /\ Upserting = {} /\ ChoosesWell(r)',
           Placed(r)' => pick'[r] \notin avoid'[r],
           pc'[r] = "executing" => tool'[r] \notin barred'[r]
    PROVE  IInv'
<1>1. SameUpserts /\ SameUpdates /\ Upserting' = Upserting /\ Updating' = Updating
  BY DEF SameUpserts, SameUpdates, Upserting, Updating
<1>2. Carried'
  BY <1>1 DEF IInv, Carried
<1>3. OffStays' /\ WrittenStays' /\ DefaultsMatch'
  <2>1. \A o \in Runs : avoid'[o] \subseteq off
    BY DEF IInv, TargetInv, OffStays
  <2>. QED  BY <1>1, <2>1, TargetsFrame
<1>4. CalmRuns'
  <2>1. \A o \in calm' : o \in Runs
    BY DEF TypeOK
  <2>2. ASSUME NEW o \in calm', o # r PROVE o \in calm /\ ChoosesWell(o)'
    <3>1. o \in calm /\ ChoosesWell(o)
      BY <2>1, <2>2 DEF IInv, TargetInv, CalmRuns
    <3>. QED  BY <2>1, <2>2, <3>1 DEF ChoosesWell, Expected, Pending, Placed
  <2>3. calm' # {} => ~crossed /\ Upserting = {}
    BY <2>2 DEF IInv, TargetInv, CalmRuns
  <2>. QED  BY <1>1, <2>2, <2>3 DEF CalmRuns
<1>5. DisabledStayUnused'
  BY DEF IInv, TargetInv, DisabledStayUnused, Placed
<1>6. DeniedStays'
  BY <1>1 DEF IInv, PolicyInv, DeniedStays
<1>7. DenialsHold'
  BY DEF IInv, PolicyInv, DenialsHold
<1>. QED  BY <1>2, <1>3, <1>4, <1>5, <1>6, <1>7 DEF IInv, TargetInv, PolicyInv

\* What the invariant says of a run.
LEMMA AtRun ==
    ASSUME IInv, NEW r \in Runs
    PROVE  /\ TypeOK /\ avoid[r] \subseteq off /\ barred[r] \subseteq denied /\ off \subseteq Targets
           /\ r \in calm => ~crossed /\ Upserting = {} /\ ChoosesWell(r)
           /\ Placed(r) => pick[r] \notin avoid[r]
           /\ pc[r] = "executing" => tool[r] \notin barred[r]
  BY DEF IInv, TypeOK, TargetInv, PolicyInv, OffStays, DeniedStays, CalmRuns, DisabledStayUnused,
         DenialsHold

LEMMA StartRunKeepsIInv ==
    ASSUME IInv, NEW r \in Runs, NEW t \in Targets \cup {None}, StartRun(r, t)
    PROVE  IInv'
<1>1. /\ pc[r] = "idle" /\ avoid' = [avoid EXCEPT ![r] = off]
      /\ calm' = IF Upserting = {} /\ ~crossed THEN calm \cup {r} ELSE calm \ {r}
      /\ UNCHANGED <<rows, agent, policy, stage, subject, input, copy, requests, tool, off, chosen,
                     crossed, tangled, denied, barred>>
      /\ \/ t = None /\ pc' = [pc EXCEPT ![r] = "agent"] /\ UNCHANGED <<pick, from>>
         \/ /\ t # None /\ pc' = [pc EXCEPT ![r] = "fetching"] /\ pick' = [pick EXCEPT ![r] = t]
            /\ from' = [from EXCEPT ![r] = "run"]
  BY DEF StartRun, Go, Seek, adminVars, policyHistory
<1>2. TypeOK /\ barred[r] \subseteq denied /\ off \subseteq Targets
  BY AtRun
<1>3. TypeOK'
  BY <1>1, <1>2 DEF TypeOK
<1>4. pc'[r] = "agent" \/ (pc'[r] = "fetching" /\ from'[r] = "run")
  BY <1>1, <1>2 DEF TypeOK
<1>5. avoid'[r] = off /\ ChoosesWell(r)' /\ ~Placed(r)'
  BY <1>1, <1>2, <1>4 DEF TypeOK, ChoosesWell, Pending, Placed
<1>. QED  BY <1>1, <1>2, <1>3, <1>4, <1>5, RunStep DEF TypeOK

\* The steps that only move a run and its pick.
LEMMA MoveStep ==
    ASSUME IInv, NEW r \in Runs,
           UNCHANGED <<rows, agent, policy, stage, subject, input, copy, requests, tool, off, avoid,
                       chosen, crossed, tangled, calm, denied, barred>>,
           NEW step \in {"idle", "agent", "workspace", "tenant", "fetching", "placed"},
           NEW t \in Targets \cup {None},
           NEW source \in {"run", "agent", "workspace", "tenant", "local", None},
           pc' = [pc EXCEPT ![r] = step], pick' = [pick EXCEPT ![r] = t],
           from' = [from EXCEPT ![r] = source],
           r \in calm => /\ step = "tenant" => chosen["workspace"] = None
                         /\ step \in {"fetching", "placed"} /\ t # None /\ source \notin {"run", "agent"} =>
                               t = Expected,
           step = "placed" => t \notin avoid[r]
    PROVE  IInv'
<1>1. /\ TypeOK /\ avoid[r] \subseteq off /\ barred[r] \subseteq denied
      /\ r \in calm => ~crossed /\ Upserting = {}
  BY AtRun
<1>2. TypeOK'
  BY <1>1 DEF TypeOK
<1>3. /\ pc'[r] = step /\ pick'[r] = t /\ from'[r] = source
      /\ \A o \in Runs \ {r} : pc'[o] = pc[o] /\ pick'[o] = pick[o] /\ from'[o] = from[o]
  BY <1>1 DEF TypeOK
<1>4. Expected' = Expected
  BY DEF Expected
<1>5. r \in calm' => ~crossed /\ Upserting = {} /\ ChoosesWell(r)'
  BY <1>1, <1>3, <1>4 DEF ChoosesWell, Pending, Placed
<1>6. Placed(r)' => pick'[r] \notin avoid'[r]
  BY <1>3 DEF Placed
<1>. QED  BY <1>1, <1>2, <1>3, <1>5, <1>6, RunStep

LEMMA Unmoved ==
    ASSUME IInv, NEW r \in Runs
    PROVE  /\ pick = [pick EXCEPT ![r] = pick[r]] /\ from = [from EXCEPT ![r] = from[r]]
           /\ pick[r] \in Targets \cup {None}
           /\ from[r] \in {"run", "agent", "workspace", "tenant", "local", None}
  BY DEF IInv, TypeOK

LEMMA AskAgentKeepsIInv ==
    ASSUME IInv, NEW r \in Runs, AskAgent(r)
    PROVE  IInv'
<1>1. UNCHANGED <<rows, agent, policy, stage, subject, input, copy, requests, tool, off, avoid,
                  chosen, crossed, tangled, calm, denied, barred>>
  BY DEF AskAgent, adminVars, targetHistory, policyHistory
<1>2. CASE agent = None
  <2>1. /\ pc' = [pc EXCEPT ![r] = "workspace"] /\ pick' = [pick EXCEPT ![r] = pick[r]]
        /\ from' = [from EXCEPT ![r] = from[r]]
    BY <1>2, Unmoved DEF AskAgent, Go
  <2>. QED  BY <1>1, <2>1, Unmoved, MoveStep
<1>3. CASE agent # None
  <2>1. /\ pc' = [pc EXCEPT ![r] = "fetching"] /\ pick' = [pick EXCEPT ![r] = agent]
        /\ from' = [from EXCEPT ![r] = "agent"] /\ agent \in Targets \cup {None}
    BY <1>3 DEF AskAgent, Go, Seek, IInv, TypeOK
  <2>. QED  BY <1>1, <2>1, MoveStep
<1>. QED  BY <1>2, <1>3

\* What a calm run finds when it asks for the default of a home.
LEMMA CalmDefaults ==
    ASSUME IInv, NEW r \in calm, NEW h \in Homes
    PROVE  Defaults(h) = Sole(chosen[h])
  BY DEF IInv, TargetInv, CalmRuns, DefaultsMatch

LEMMA FindDefaultKeepsIInv ==
    ASSUME IInv, NEW r \in Runs, NEW h \in Homes, FindDefault(r, h)
    PROVE  IInv'
<1>1. /\ pc[r] = h
      /\ UNCHANGED <<rows, agent, policy, stage, subject, input, copy, requests, tool, off, avoid,
                     chosen, crossed, tangled, calm, denied, barred>>
  BY DEF FindDefault, adminVars, targetHistory, policyHistory
<1>2. r \in calm => /\ Defaults(h) = Sole(chosen[h])
                    /\ h = "tenant" => chosen["workspace"] = None
  BY <1>1, CalmDefaults, AtRun DEF ChoosesWell
<1>3. h \in {"workspace", "tenant"}
  BY DEF Homes
<1>4. ASSUME NEW t \in Defaults(h), Seek(r, t, h) PROVE IInv'
  <2>1. t \in Targets
    BY DEF Defaults
  <2>2. r \in calm => t = chosen[h] /\ t # None
    BY <1>2, <2>1, NoneIsNoRow DEF Sole
  <2>3. r \in calm => t = Expected
    BY <1>2, <1>3, <2>2 DEF Expected
  <2>. QED  BY <1>1, <1>3, <1>4, <2>1, <2>3, MoveStep DEF Seek, Go
<1>5. CASE Defaults(h) = {} /\ h = "workspace" /\ Go(r, "tenant") /\ UNCHANGED <<pick, from>>
  <2>1. r \in calm => chosen["workspace"] = None
    BY <1>2, <1>5 DEF Sole
  <2>2. /\ pc' = [pc EXCEPT ![r] = "tenant"] /\ pick' = [pick EXCEPT ![r] = pick[r]]
        /\ from' = [from EXCEPT ![r] = from[r]]
    BY <1>5, Unmoved DEF Go
  <2>. QED  BY <1>1, <2>1, <2>2, Unmoved, MoveStep
<1>6. CASE Defaults(h) = {} /\ h = "tenant" /\ Seek(r, Local, "local")
  <2>1. r \in calm => Expected = Local
    BY <1>2, <1>6 DEF Sole, Expected
  <2>. QED  BY <1>1, <1>6, <2>1, ToolGateAssumption, MoveStep DEF Seek, Go
<1>. QED  BY <1>4, <1>5, <1>6 DEF FindDefault

LEMMA FetchTargetKeepsIInv ==
    ASSUME IInv, NEW r \in Runs, FetchTarget(r)
    PROVE  IInv'
<1>. DEFINE row == rows[pick[r]]
<1>1. /\ pc[r] = "fetching"
      /\ UNCHANGED <<rows, agent, policy, stage, subject, input, copy, requests, tool, off, avoid,
                     chosen, crossed, tangled, calm, denied, barred>>
      /\ \/ row = None /\ from[r] = "run" /\ Go(r, "agent") /\ UNCHANGED <<pick, from>>
         \/ row = None /\ from[r] = "agent" /\ Go(r, "workspace") /\ UNCHANGED <<pick, from>>
         \/ row # None /\ row.enabled /\ Go(r, "placed") /\ UNCHANGED <<pick, from>>
         \/ row # None /\ row.enabled /\ Go(r, "placed") /\ pick' = [pick EXCEPT ![r] = None] /\ UNCHANGED from
         \/ Stop(r)
  BY DEF FetchTarget, adminVars, targetHistory, policyHistory
<1>2. /\ avoid[r] \subseteq off /\ off \subseteq Targets
      /\ r \in calm => (pick[r] # None /\ from[r] \notin {"run", "agent"} => pick[r] = Expected)
  BY <1>1, AtRun DEF ChoosesWell, Pending
<1>. DEFINE Moved(step) == /\ pc' = [pc EXCEPT ![r] = step] /\ pick' = [pick EXCEPT ![r] = pick[r]]
                           /\ from' = [from EXCEPT ![r] = from[r]]
<1>3. CASE row = None /\ from[r] \in {"run", "agent"} /\ UNCHANGED <<pick, from>>
           /\ (Go(r, "agent") \/ Go(r, "workspace"))
  <2>1. Moved("agent") \/ Moved("workspace")
    BY <1>3, Unmoved DEF Go
  <2>. QED  BY <1>1, <2>1, Unmoved, MoveStep
<1>4. CASE row # None /\ row.enabled /\ Go(r, "placed") /\ UNCHANGED <<pick, from>>
  <2>1. Moved("placed")
    BY <1>4, Unmoved DEF Go
  <2>2. pick[r] \notin avoid[r]
    BY <1>2, <1>4 DEF IInv, TargetInv, OffStays
  <2>. QED  BY <1>1, <1>2, <2>1, <2>2, Unmoved, MoveStep
<1>5. CASE Go(r, "placed") /\ pick' = [pick EXCEPT ![r] = None] /\ UNCHANGED from
  <2>1. pc' = [pc EXCEPT ![r] = "placed"] /\ from' = [from EXCEPT ![r] = from[r]]
    BY <1>5, Unmoved DEF Go
  <2>2. None \notin avoid[r]
    BY <1>2, NoneIsNoRow
  <2>. QED  BY <1>1, <1>5, <2>1, <2>2, Unmoved, MoveStep
<1>6. CASE Stop(r)
  BY <1>1, <1>6, MoveStep DEF Stop, Go
<1>. QED  BY <1>1, <1>3, <1>4, <1>5, <1>6

LEMMA EndRunKeepsIInv ==
    ASSUME IInv, NEW r \in Runs, EndRun(r)
    PROVE  IInv'
<1>1. /\ UNCHANGED <<rows, agent, policy, stage, subject, input, copy, requests, tool, off, avoid,
                     chosen, crossed, tangled, calm, denied, barred>>
      /\ pc' = [pc EXCEPT ![r] = "idle"] /\ pick' = [pick EXCEPT ![r] = None]
      /\ from' = [from EXCEPT ![r] = None]
  BY DEF EndRun, Stop, Go, adminVars, targetHistory, policyHistory
<1>. QED  BY <1>1, MoveStep

\* A tool call moves a placed run between its three steps.
LEMMA ToolStep ==
    ASSUME IInv, NEW r \in Runs, Placed(r),
           UNCHANGED <<rows, agent, policy, stage, subject, input, copy, requests, pick, from, off,
                       avoid, chosen, crossed, tangled, calm, denied>>,
           NEW step \in {"placed", "gating", "executing"}, NEW x \in Tools \cup {None},
           NEW bars \in SUBSET denied,
           pc' = [pc EXCEPT ![r] = step], tool' = [tool EXCEPT ![r] = x],
           barred' = [barred EXCEPT ![r] = bars],
           step = "executing" => x \notin bars
    PROVE  IInv'
<1>1. /\ TypeOK /\ avoid[r] \subseteq off /\ pick[r] \notin avoid[r]
      /\ r \in calm => ~crossed /\ Upserting = {} /\ ChoosesWell(r)
  BY AtRun
<1>2. TypeOK'
  BY <1>1 DEF TypeOK
<1>3. /\ pc'[r] = step /\ tool'[r] = x /\ barred'[r] = bars
      /\ \A o \in Runs \ {r} : pc'[o] = pc[o] /\ tool'[o] = tool[o] /\ barred'[o] = barred[o]
  BY <1>1 DEF TypeOK
<1>4. Expected' = Expected
  BY DEF Expected
<1>5. ChoosesWell(r) => ChoosesWell(r)'
  BY <1>3, <1>4 DEF ChoosesWell, Pending, Placed
<1>. QED  BY <1>1, <1>2, <1>3, <1>5, RunStep

LEMMA ToolStepsKeepIInv ==
    ASSUME IInv, NEW r \in Runs, (\E x \in Tools : CallTool(r, x)) \/ PassGate(r) \/ EndTool(r)
    PROVE  IInv'
<1>1. /\ TypeOK /\ barred[r] \subseteq denied /\ tool[r] \in Tools \cup {None}
      /\ barred = [barred EXCEPT ![r] = barred[r]] /\ tool = [tool EXCEPT ![r] = tool[r]]
  BY AtRun DEF TypeOK
<1>2. ASSUME NEW x \in Tools, CallTool(r, x) PROVE IInv'
  <2>1. /\ Placed(r) /\ pc' = [pc EXCEPT ![r] = "gating"] /\ tool' = [tool EXCEPT ![r] = x]
        /\ barred' = [barred EXCEPT ![r] = denied]
        /\ UNCHANGED <<rows, agent, policy, stage, subject, input, copy, requests, pick, from, off,
                       avoid, chosen, crossed, tangled, calm, denied>>
    BY <1>2 DEF CallTool, Placed, Go, adminVars, targetHistory
  <2>. QED  BY <2>1, ToolStep
<1>3. CASE PassGate(r)
  <2>1. /\ Placed(r) /\ barred' = [barred EXCEPT ![r] = barred[r]]
        /\ UNCHANGED <<rows, agent, policy, stage, subject, input, copy, requests, pick, from, off,
                       avoid, chosen, crossed, tangled, calm, denied>>
    BY <1>1, <1>3 DEF PassGate, Placed, adminVars, targetHistory, policyHistory
  <2>2. CASE Decision(policy, tool[r]) = "deny"
    <3>1. pc' = [pc EXCEPT ![r] = "placed"] /\ tool' = [tool EXCEPT ![r] = None]
      BY <1>3, <2>2 DEF PassGate, Go
    <3>. QED  BY <1>1, <2>1, <3>1, ToolStep
  <2>3. CASE Decision(policy, tool[r]) # "deny"
    <3>1. pc' = [pc EXCEPT ![r] = "executing"] /\ tool' = [tool EXCEPT ![r] = tool[r]]
      BY <1>1, <1>3, <2>3 DEF PassGate, Go
    <3>2. tool[r] \notin Denies(policy)
      BY <2>3, ToolGateAssumption DEF Decision, Denies, Class
    <3>3. tool[r] \notin barred[r]
      BY <1>1, <3>2 DEF IInv, PolicyInv, DeniedStays
    <3>. QED  BY <1>1, <2>1, <3>1, <3>3, ToolStep
  <2>. QED  BY <2>2, <2>3
<1>4. CASE EndTool(r)
  <2>1. /\ Placed(r) /\ pc' = [pc EXCEPT ![r] = "placed"] /\ tool' = [tool EXCEPT ![r] = None]
        /\ barred' = [barred EXCEPT ![r] = barred[r]]
        /\ UNCHANGED <<rows, agent, policy, stage, subject, input, copy, requests, pick, from, off,
                       avoid, chosen, crossed, tangled, calm, denied>>
    BY <1>1, <1>4 DEF EndTool, Placed, Go, adminVars, targetHistory, policyHistory
  <2>. QED  BY <1>1, <2>1, ToolStep
<1>. QED  BY <1>2, <1>3, <1>4
-----------------------------------------------------------------------------
LEMMA NextKeepsIInv == IInv /\ [Next]_vars => IInv'
<1> SUFFICES ASSUME IInv, [Next]_vars PROVE IInv'
  OBVIOUS
<1>1. ASSUME NEW a \in Admins,
             \/ \E t \in Targets, row \in Settings : StartUpsert(a, t, row)
             \/ WriteTarget(a) \/ ClearOthers(a) \/ ReplyToUpsert(a)
             \/ \E t \in Targets \cup {None} : UpsertAgent(a, t)
      PROVE  IInv'
  BY <1>1, StartUpsertKeepsIInv, WriteTargetKeepsIInv, ClearOthersKeepsIInv,
     ReplyToUpsertKeepsIInv, UpsertAgentKeepsIInv
<1>2. ASSUME NEW a \in Admins,
             (\E patch \in Patches : StartUpdate(a, patch)) \/ ReadPolicy(a) \/ WritePolicy(a) \/ ReplyToUpdate(a)
      PROVE  IInv'
  BY <1>2, StartUpdateKeepsIInv, ReadPolicyKeepsIInv, WritePolicyKeepsIInv, ReplyToUpdateKeepsIInv
<1>3. ASSUME NEW r \in Runs,
             \/ \E t \in Targets \cup {None} : StartRun(r, t)
             \/ AskAgent(r) \/ FetchTarget(r) \/ EndRun(r)
             \/ \E h \in Homes : FindDefault(r, h)
      PROVE  IInv'
  BY <1>3, StartRunKeepsIInv, AskAgentKeepsIInv, FetchTargetKeepsIInv, EndRunKeepsIInv,
     FindDefaultKeepsIInv
<1>4. ASSUME NEW r \in Runs, (\E x \in Tools : CallTool(r, x)) \/ PassGate(r) \/ EndTool(r)
      PROVE  IInv'
  BY <1>4, ToolStepsKeepIInv
<1>5. CASE UNCHANGED vars
  <2>1. /\ UNCHANGED <<rows, agent, policy, stage, subject, input, copy, requests, pc, pick, from, tool>>
        /\ UNCHANGED <<off, avoid, chosen, crossed, tangled, calm, denied, barred>>
    BY <1>5 DEF vars, adminVars, runVars, targetHistory, policyHistory
  <2>2. TypeOK' /\ Carried' /\ SameUpserts /\ SameUpdates
    BY <2>1 DEF IInv, TypeOK, Carried, SameUpserts, SameUpdates, Upserting, Updating
  <2>3. OffStays' /\ WrittenStays' /\ DefaultsMatch'
    <3>1. \A r \in Runs : avoid'[r] \subseteq off
      BY <2>1 DEF IInv, TargetInv, OffStays
    <3>. QED  BY <2>1, <2>2, <3>1, TargetsFrame
  <2>4. CalmRuns' /\ DisabledStayUnused'
    BY <2>1, <2>2, RunsFrame DEF Placed, Pending
  <2>5. PolicyInv'
    BY <2>1, <2>2, PolicyFrame
  <2>. QED  BY <2>2, <2>3, <2>4, <2>5 DEF IInv, TargetInv
<1>. QED  BY <1>1, <1>2, <1>3, <1>4, <1>5 DEF Next

\* The inductive invariant: types, how far each request has come, agreement of
\* the rows with what was chosen while no two upserts have overlapped, and of
\* every copy of the policy with what counts as denied.
THEOREM GateInvariant == Spec => []IInv
<1>. QED  BY InitEstablishesIInv, NextKeepsIInv, PTL DEF Spec

\* Every variable of the gate keeps its type.
THEOREM GateTypeCorrect == Spec => []TypeOK
<1>1. IInv => TypeOK
  BY DEF IInv
<1>. QED  BY <1>1, GateInvariant, PTL

\* No run is placed on a target that was disabled all the time since it began,
\* and one that is left to the defaults gets the acknowledged one, however many
\* administrators change targets between the lookups of resolveExecutionTarget.
THEOREM PlacementsHold == Spec => []PlacementHolds
<1>1. IInv => PlacementHolds
  <2> SUFFICES ASSUME IInv PROVE PlacementHolds
    OBVIOUS
  <2>1. DisabledStayUnused
    BY DEF IInv, TargetInv
  <2>2. DefaultIsUsed
    BY DEF IInv, TargetInv, CalmRuns, ChoosesWell, Expected, Pending, DefaultIsUsed
  <2>. QED  BY <2>1, <2>2 DEF PlacementHolds
<1>. QED  BY <1>1, GateInvariant, PTL

\* What an acknowledged policy denies is not executed until an update that may
\* allow it is asked for, however the updates of the policy overlap and lose
\* each other's patches.
THEOREM DenialsSurvive == Spec => []DenialsHold
<1>1. IInv => DenialsHold
  BY DEF IInv, PolicyInv
<1>. QED  BY <1>1, GateInvariant, PTL
-----------------------------------------------------------------------------
(* The accounts.  Their inductive invariant: what each request carries,    *)
(* which names and families overlap, what rows and tokens are, and how far *)
(* the tables are from what was last acknowledged.                         *)

\* The calls that each operation makes of the store.
Path(op, c) ==
    /\ op = "idle" => c = "idle"
    /\ op = "create" => c \in {"look", "find", "insert", "link", "member", "wipe", "grant",
                               "relink", "status", "reply"}
    /\ op = "members" => c \in {"wipe", "grant", "relink", "reply"}
    /\ op = "status" => c \in {"status", "reply"}
    /\ op = "reset" => c \in {"reset", "reply"}
    /\ op = "login" => c \in {"find", "insert", "link", "member", "login", "bind", "list",
                              "default", "issue"}
    /\ op = "refresh" => c \in {"find", "insert", "link", "member", "refresh", "user", "bind",
                                "revoke", "issue"}
    /\ op = "logout" => c = "revoke"

\* Where a request has no account in its hands, and where no list.
Loose(op, c) == op = "logout" \/ c \in {"idle", "look", "find", "login", "refresh", "user"}
Listed(c) == c \in {"relink", "status", "reply"}

\* What a request carries while it is on its way.
Carries(q) ==
    /\ Path(q.op, q.pc)
    /\ q.id = Null <=> Loose(q.op, q.pc)
    /\ q.op \in Changing \cup {"login"} => q.name # Null
    /\ q.op = "create" => q.name # Admin
    /\ q.op \in {"create", "reset"} => q.password # Null
    /\ q.op \in {"refresh", "logout"} => q.token # Null /\ q.family # Null
    /\ q.op \in {"create", "members"} => q.list # <<>> \/ Listed(q.pc)
    /\ q.op = "members" => q.status = "active"

CarryInv == \A r \in Requests : Carries(req[r])

-----------------------------------------------------------------------------
\* Two requests that write one name, or use one family, were seen to.
OverlapInv ==
    \A r, o \in Requests : r # o =>
        /\ Writes(req[r]) \cap Writes(req[o]) \subseteq disputed
        /\ Uses(req[r]) \cap Uses(req[o]) \subseteq raced

-----------------------------------------------------------------------------
\* The name of the account that a request has taken hold of.
Named(q) == q.op # "refresh" \/ q.pc \in {"insert", "link", "member"}
HeldName(q) == IF q.pc \in {"insert", "link", "member"} THEN NameOf(q) ELSE q.name

\* An update of memberships that has yet to link an account of another tenant.
Adopting(q, d) == q.op = "members" /\ q.pc \in {"wipe", "grant", "relink"} /\ q.name \in d

\* The account that a request holds, where d are the disputed names.
Holds(q, d) ==
    /\ (q.op = "create" /\ q.pc \in {"insert", "link"}) \/ Adopting(q, d) \/ link[q.id] # "none"
    /\ users[q.id] = Null => q.pc = "insert" /\ q.op = "create"
    /\ q.pc = "insert" /\ users[q.id] # Null => link[q.id] # "none"
    /\ Named(q) /\ users[q.id] # Null => users[q.id].name = HeldName(q)

\* A creation that has found nobody of its name is the first to link one.
FirstOfName(q) ==
    q.op = "create" /\ q.name \notin disputed /\ q.pc \in {"find", "insert", "link"}
        => Found(q.name) = {}

RowInv ==
    /\ link[AdminId] # "none" /\ users[AdminId] # Null /\ users[AdminId].name = Admin
    /\ \A u \in Ids : link[u] # "none" => users[u] # Null
    /\ \A u \in Ids : granted[u] # Null => link[u] # "none"
    /\ \A t \in Tokens : tokens[t] # Null => link[tokens[t].user] # "none"
    /\ \A u \in misdealt : link[u] # "none"
    /\ \A r \in Requests : req[r].id # Null => Holds(req[r], disputed)
    /\ \A r, o \in Requests : r # o /\ req[r].id # Null /\ req[r].id = req[o].id
                                => users[req[r].id] # Null
    /\ \A r \in Requests : FirstOfName(req[r])
    /\ OneAccountPerName

-----------------------------------------------------------------------------
Unrevoked(f) == {t \in Tokens : tokens[t] # Null /\ tokens[t].family = f /\ tokens[t].state # "revoked"}

HeadInv ==
    /\ \A t \in Tokens : tokens[t] # Null => tokens[tokens[t].family] # Null
    /\ \A f \in out : tokens[f] # Null
    /\ \A r \in Requests : req[r].op \in {"refresh", "logout"} =>
          tokens[req[r].token] # Null /\ tokens[req[r].token].family = req[r].family
    /\ \A f \in Tokens \ raced :
          /\ \A s, t \in Unrevoked(f) : s = t
          /\ f \in out => Unrevoked(f) = {}
    /\ \A r \in Requests : req[r].op = "refresh" /\ req[r].family \notin raced =>
          /\ req[r].pc \in {"user", "bind", "revoke"} =>
                req[r].family \notin out /\ Unrevoked(req[r].family) \subseteq {req[r].token}
          /\ req[r].pc = "issue" => req[r].family \notin out /\ Unrevoked(req[r].family) = {}

-----------------------------------------------------------------------------
HalfActive(u) == users[u].status = "active" /\ link[u] = "disabled"

ActiveInv ==
    /\ \A u \in Ids : users[u] # Null /\ HalfActive(u) =>
          \/ users[u].name \in disputed
          \/ \E o \in Requests : req[o].pc = "link" /\ req[o].id = u
    /\ \A r \in Requests :
          /\ req[r].pc = "bind" /\ req[r].status = "active" =>
                r \in met \/ users[req[r].id].name \in disputed \/ HalfActive(req[r].id)
          /\ req[r].op \in {"login", "refresh"} /\ req[r].pc \in {"list", "default", "revoke", "issue"} =>
                r \in met \/ users[req[r].id].name \in disputed
    /\ TokensOfActive

-----------------------------------------------------------------------------
\* The tables as the last answer has them.
StatusStands(u) == users[u].status = Last(u).status /\ link[u] = Last(u).link
PasswordStands(u) == Last(u).password # Null => users[u].password = Last(u).password
PlacesStand(u) == Last(u).want # {} => members[u] = Last(u).want
Stands(u) == StatusStands(u) /\ PasswordStands(u) /\ PlacesStand(u)

\* How far a request has taken them.
StatusOnTheWay(q) ==
    IF q.op \in {"create", "status"} /\ q.pc = "reply"
    THEN users[q.id].status = q.status /\ link[q.id] = q.status
    ELSE IF q.op = "create"
    THEN users[q.id].status = "active" /\ (q.pc # "link" => link[q.id] = "active")
    ELSE IF q.op = "members" /\ q.pc = "reply"
    THEN users[q.id].status = Last(q.id).status /\ link[q.id] = "active"
    ELSE StatusStands(q.id)
PasswordOnTheWay(q) ==
    IF q.op = "create" \/ (q.op = "reset" /\ q.pc = "reply")
    THEN users[q.id].password = q.password
    ELSE PasswordStands(q.id)
PlacesOnTheWay(q) ==
    IF q.op \in {"create", "members"}
    THEN /\ q.pc = "grant" => members[q.id] \cup Entries(q.list) = q.want
         /\ q.pc \in {"relink", "status", "reply"} => members[q.id] = q.want
    ELSE IF q.pc = "default" THEN Last(q.id).want = {}
    ELSE PlacesStand(q.id)
OnTheWay(q) == StatusOnTheWay(q) /\ PasswordOnTheWay(q) /\ PlacesOnTheWay(q)

Undisputed(n) == n \notin disputed \cup {Admin}
Begun(q) == q.pc \notin {"idle", "look", "find", "insert"}

AnswerInv ==
    /\ \A u \in Ids :
          /\ link[u] # "none" /\ Undisputed(users[u].name)
          /\ \A r \in Requests : users[u].name \in Writes(req[r]) => req[r].pc = "look"
          => Stands(u)
    /\ \A r \in Requests : \A n \in Writes(req[r]) :
          Undisputed(n) /\ Begun(req[r]) => OnTheWay(req[r])
    /\ \A r \in Requests :
          /\ req[r].op \in {"create", "members"}
          /\ req[r].pc \in {"look", "find", "insert", "link", "member", "wipe"}
          => req[r].want = Entries(req[r].list)

-----------------------------------------------------------------------------
\* What a step of request r may do to the records of the requests.
Moved(r) ==
    /\ req' \in [Requests -> Request] /\ Carries(req'[r])
    /\ \A o \in Requests \ {r} : req'[o] = req[o]
    /\ disputed \subseteq disputed' /\ disputed' \subseteq Names
    /\ raced \subseteq raced' /\ raced' \subseteq Tokens
    /\ \A o \in Requests \ {r} : /\ Writes(req'[r]) \cap Writes(req[o]) \subseteq disputed'
                                 /\ Uses(req'[r]) \cap Uses(req[o]) \subseteq raced'
    /\ met' \subseteq Requests
    /\ \A o \in Requests \ {r} : o \in met /\ req[o].id # Null => o \in met'

\* What Goto adds to it: the history of active users.
Remembered(r) ==
    /\ r \in met /\ req'[r].id # Null => r \in met'
    /\ \A o \in Requests : req'[o].id # Null /\ ActiveNext(req'[o].id) => o \in met'

Alike(p, q) ==
    /\ q.op = p.op /\ q.name = p.name /\ q.password = p.password /\ q.want = p.want
    /\ q.token = p.token /\ q.family = p.family
Same(p, q) == Alike(p, q) /\ q.id = p.id /\ q.list = p.list /\ q.status = p.status

LEMMA WritesAreNames ==
    ASSUME NEW q \in Request, Carries(q)
    PROVE  Writes(q) \subseteq Names /\ Uses(q) \subseteq Tokens
    BY AccountsAssumption DEF Request, Carries, Path, Writes, Uses, Changing, Ops

LEMMA GotoFacts ==
    ASSUME AccountsTypeOK, NEW r \in Requests, NEW q \in Request, Carries(q), Goto(r, q)
    PROVE  Moved(r) /\ Remembered(r) /\ req'[r] = q /\ Brings(q) \subseteq disputed'
<1>1. /\ req' \in [Requests -> Request] /\ req'[r] = q
      /\ \A o \in Requests \ {r} : req'[o] = req[o]
    BY DEF AccountsTypeOK, Goto
<1>2. Writes(q) \subseteq Names /\ Uses(q) \subseteq Tokens /\ Brings(q) \subseteq Names
    <2>1. Brings(q) \subseteq Writes(q)
        BY DEF Brings, Writes, Changing
    <2> QED
        BY <2>1, WritesAreNames
<1>3. /\ Brings(q) \subseteq disputed'
      /\ disputed \subseteq disputed' /\ disputed' \subseteq Names
      /\ raced \subseteq raced' /\ raced' \subseteq Tokens
    BY <1>2 DEF AccountsTypeOK, Goto
<1>4. \A o \in Requests \ {r} : /\ Writes(q) \cap Writes(req[o]) \subseteq disputed'
                                /\ Uses(q) \cap Uses(req[o]) \subseteq raced'
    BY DEF Goto
<1>5. met' = {o \in Requests : req'[o].id # Null /\ (o \in met \/ ActiveNext(req'[o].id))}
    BY DEF Goto
<1>6. Remembered(r) /\ met' \subseteq Requests
      /\ \A o \in Requests \ {r} : o \in met /\ req[o].id # Null => o \in met'
    BY <1>1, <1>5 DEF Remembered
<1> QED
    BY <1>1, <1>3, <1>4, <1>6 DEF Moved

LEMMA IdleRequest == Idle \in Request /\ Carries(Idle)
    BY DEF Idle, Request, Carries, Path, Loose, Ops, Pcs, Statuses, Changing

LEMMA RefusedFacts ==
    ASSUME AccountsTypeOK, NEW r \in Requests, Refused(r)
    PROVE  Moved(r) /\ Remembered(r) /\ req'[r] = Idle
    BY IdleRequest, GotoFacts DEF Refused

LEMMA ToFacts ==
    ASSUME AccountsTypeOK, CarryInv, NEW r \in Requests, NEW c \in Pcs, To(r, c),
           Path(req[r].op, c), Loose(req[r].op, c) <=> Loose(req[r].op, req[r].pc),
           Listed(req[r].pc) => Listed(c)
    PROVE  Moved(r) /\ Remembered(r) /\ Same(req[r], req'[r]) /\ req'[r].pc = c
<1> DEFINE q == [req[r] EXCEPT !.pc = c]
<1>1. req[r] \in Request /\ Carries(req[r])
    BY DEF AccountsTypeOK, CarryInv
<1>2. q \in Request /\ q.pc = c /\ Same(req[r], q)
    BY <1>1 DEF Request, Same, Alike
<1>3. Goto(r, q)
    BY DEF To
<1> HIDE DEF q
<1>4. Carries(q)
    BY <1>1, <1>2 DEF Carries, Same, Alike
<1> QED
    BY <1>2, <1>3, <1>4, GotoFacts

-----------------------------------------------------------------------------
Still == UNCHANGED <<users, link, members, tokens, faults, granted, out, misdealt>>

LEMMA ArriveFacts ==
    ASSUME AccountsTypeOK, RowInv, NEW r \in Requests, Arrive(r)
    PROVE  /\ Moved(r) /\ Remembered(r) /\ Still /\ count' \in 0 .. MaxCalls
           /\ req[r].pc = "idle"
           /\ req'[r].op \in {"create", "members"} => req'[r].want = Entries(req'[r].list)
           /\ LET q == req'[r]
              IN  \/ q.op = "create" /\ q.pc = "look"
                  \/ /\ <<q.op, q.pc>> \in {<<"members", "wipe">>, <<"status", "status">>,
                                            <<"reset", "reset">>}
                     /\ users[q.id] # Null /\ q.name = users[q.id].name
                     /\ link[q.id] # "none" \/ (q.op = "members" /\ q.name \in disputed')
                  \/ q.op = "login" /\ q.pc = "find"
                  \/ /\ <<q.op, q.pc>> \in {<<"refresh", "find">>, <<"logout", "revoke">>}
                     /\ tokens[q.token] # Null /\ q.family = tokens[q.token].family
<1>1. Idle \in Request
    BY IdleRequest
<1>2. \A l \in Lists : l \in Seq(Workspaces) /\ l # <<>> /\ Entries(l) \in SUBSET Workspaces
    BY AccountsAssumption DEF Entries
<1>3. \A q : Start(r, q) => /\ Still /\ count' \in 0 .. MaxCalls /\ req[r].pc = "idle"
                            /\ Goto(r, q)
    BY AccountsAssumption DEF Start, Still, At, AccountsTypeOK, tableVars
<1>4. CASE \E n \in Names \ {Admin}, p \in Passwords, l \in Lists, s \in Statuses :
             Start(r, [Idle EXCEPT !.op = "create", !.pc = "look", !.name = n, !.password = p,
                                   !.list = l, !.want = Entries(l), !.status = s])
    <2>1. PICK n \in Names \ {Admin}, p \in Passwords, l \in Lists, s \in Statuses :
             Start(r, [Idle EXCEPT !.op = "create", !.pc = "look", !.name = n, !.password = p,
                                   !.list = l, !.want = Entries(l), !.status = s])
        BY <1>4
    <2> DEFINE q == [Idle EXCEPT !.op = "create", !.pc = "look", !.name = n, !.password = p,
                                 !.list = l, !.want = Entries(l), !.status = s]
    <2>2. q \in Request
        BY <1>1, <1>2 DEF Request, Ops, Pcs
    <2>3. /\ q.op = "create" /\ q.pc = "look" /\ q.name = n /\ q.password = p /\ q.id = Null
          /\ q.list = l /\ q.want = Entries(l)
        BY DEF Idle
    <2>4. Start(r, q)
        BY <2>1
    <2> HIDE DEF q
    <2>5. Carries(q)
        BY <1>2, <2>3, AccountsAssumption DEF Carries, Path, Loose, Listed, Changing
    <2> QED
        BY <1>3, <2>2, <2>3, <2>4, <2>5, GotoFacts
<1>5. ASSUME NEW u \in Ids, users[u] # Null
      PROVE  users[u].name \in Names /\ users[u].name # Null
    BY <1>5, AccountsAssumption DEF AccountsTypeOK, UserRows
<1>13. \A u \in Ids : link[u] # "none" => users[u] # Null
    BY DEF RowInv
<1>6. CASE \E u \in {v \in Ids : users[v] # Null}, l \in Lists :
             Start(r, [Idle EXCEPT !.op = "members", !.pc = "wipe", !.id = u,
                                   !.name = users[u].name, !.list = l, !.want = Entries(l)])
    <2>1. PICK u \in {v \in Ids : users[v] # Null}, l \in Lists :
             Start(r, [Idle EXCEPT !.op = "members", !.pc = "wipe", !.id = u,
                                   !.name = users[u].name, !.list = l, !.want = Entries(l)])
        BY <1>6
    <2> DEFINE q == [Idle EXCEPT !.op = "members", !.pc = "wipe", !.id = u,
                                 !.name = users[u].name, !.list = l, !.want = Entries(l)]
    <2>2. q \in Request
        BY <1>1, <1>2, <1>5 DEF Request, Ops, Pcs
    <2>3. /\ q.op = "members" /\ q.pc = "wipe" /\ q.name = users[u].name /\ q.id = u
          /\ q.list = l /\ q.want = Entries(l) /\ q.status = "active"
        BY DEF Idle
    <2>4. Start(r, q)
        BY <2>1
    <2> HIDE DEF q
    <2>5. Carries(q)
        BY <1>2, <1>5, <2>3, AccountsAssumption DEF Carries, Path, Loose, Listed, Changing
    <2>6. link[q.id] = "none" => q.name \in Brings(q)
        BY <2>3 DEF Brings
    <2> QED
        BY <1>3, <2>2, <2>3, <2>4, <2>5, <2>6, GotoFacts
<1>7. CASE \E u \in {v \in Ids : link[v] # "none"}, s \in Statuses :
             Start(r, [Idle EXCEPT !.op = "status", !.pc = "status", !.id = u,
                                   !.name = users[u].name, !.status = s])
    <2>1. PICK u \in {v \in Ids : link[v] # "none"}, s \in Statuses :
             Start(r, [Idle EXCEPT !.op = "status", !.pc = "status", !.id = u,
                                   !.name = users[u].name, !.status = s])
        BY <1>7
    <2> DEFINE q == [Idle EXCEPT !.op = "status", !.pc = "status", !.id = u,
                                 !.name = users[u].name, !.status = s]
    <2>2. q \in Request
        BY <1>1, <1>2, <1>5, <1>13 DEF Request, Ops, Pcs
    <2>3. q.op = "status" /\ q.pc = "status" /\ q.name = users[u].name /\ q.id = u
        BY DEF Idle
    <2>4. Start(r, q)
        BY <2>1
    <2> HIDE DEF q
    <2>5. Carries(q)
        BY <1>5, <1>13, <2>3, AccountsAssumption DEF Carries, Path, Loose, Listed, Changing
    <2> QED
        BY <1>3, <1>13, <2>2, <2>3, <2>4, <2>5, GotoFacts
<1>8. CASE \E u \in {v \in Ids : link[v] # "none"}, p \in Passwords :
             Start(r, [Idle EXCEPT !.op = "reset", !.pc = "reset", !.id = u,
                                   !.name = users[u].name, !.password = p])
    <2>1. PICK u \in {v \in Ids : link[v] # "none"}, p \in Passwords :
             Start(r, [Idle EXCEPT !.op = "reset", !.pc = "reset", !.id = u,
                                   !.name = users[u].name, !.password = p])
        BY <1>8
    <2> DEFINE q == [Idle EXCEPT !.op = "reset", !.pc = "reset", !.id = u,
                                 !.name = users[u].name, !.password = p]
    <2>2. q \in Request
        BY <1>1, <1>2, <1>5, <1>13 DEF Request, Ops, Pcs
    <2>3. /\ q.op = "reset" /\ q.pc = "reset" /\ q.name = users[u].name /\ q.id = u
          /\ q.password = p
        BY DEF Idle
    <2>4. Start(r, q)
        BY <2>1
    <2> HIDE DEF q
    <2>5. Carries(q)
        BY <1>5, <1>13, <2>3, AccountsAssumption DEF Carries, Path, Loose, Listed, Changing
    <2> QED
        BY <1>3, <1>13, <2>2, <2>3, <2>4, <2>5, GotoFacts
<1>9. CASE \E n \in Names, p \in Passwords :
             Start(r, [Idle EXCEPT !.op = "login", !.pc = "find", !.name = n, !.password = p])
    <2>1. PICK n \in Names, p \in Passwords :
             Start(r, [Idle EXCEPT !.op = "login", !.pc = "find", !.name = n, !.password = p])
        BY <1>9
    <2> DEFINE q == [Idle EXCEPT !.op = "login", !.pc = "find", !.name = n, !.password = p]
    <2>2. q \in Request
        BY <1>1 DEF Request, Ops, Pcs
    <2>3. q.op = "login" /\ q.pc = "find" /\ q.name = n /\ q.id = Null
        BY DEF Idle
    <2>4. Start(r, q)
        BY <2>1
    <2> HIDE DEF q
    <2>5. Carries(q)
        BY <2>3, AccountsAssumption DEF Carries, Path, Loose, Listed, Changing
    <2> QED
        BY <1>3, <2>2, <2>3, <2>4, <2>5, GotoFacts
<1>10. ASSUME NEW t \in Tokens, tokens[t] # Null
       PROVE  tokens[t].family \in Tokens /\ tokens[t].family # Null /\ t # Null
    BY <1>10, AccountsAssumption DEF AccountsTypeOK, TokenRows
<1>11. CASE \E t \in {s \in Tokens : tokens[s] # Null} :
              Start(r, [Idle EXCEPT !.op = "refresh", !.pc = "find", !.token = t,
                                    !.family = tokens[t].family])
    <2>1. PICK t \in {s \in Tokens : tokens[s] # Null} :
              Start(r, [Idle EXCEPT !.op = "refresh", !.pc = "find", !.token = t,
                                    !.family = tokens[t].family])
        BY <1>11
    <2> DEFINE q == [Idle EXCEPT !.op = "refresh", !.pc = "find", !.token = t,
                                 !.family = tokens[t].family]
    <2>2. q \in Request
        BY <1>1, <1>10 DEF Request, Ops, Pcs
    <2>3. q.op = "refresh" /\ q.pc = "find" /\ q.token = t /\ q.family = tokens[t].family /\ q.id = Null
        BY DEF Idle
    <2>4. Start(r, q)
        BY <2>1
    <2> HIDE DEF q
    <2>5. Carries(q)
        BY <1>10, <2>3, AccountsAssumption DEF Carries, Path, Loose, Listed, Changing
    <2> QED
        BY <1>3, <2>2, <2>3, <2>4, <2>5, GotoFacts
<1>12. CASE \E t \in {s \in Tokens : tokens[s] # Null} :
              Start(r, [Idle EXCEPT !.op = "logout", !.pc = "revoke", !.token = t,
                                    !.family = tokens[t].family])
    <2>1. PICK t \in {s \in Tokens : tokens[s] # Null} :
              Start(r, [Idle EXCEPT !.op = "logout", !.pc = "revoke", !.token = t,
                                    !.family = tokens[t].family])
        BY <1>12
    <2> DEFINE q == [Idle EXCEPT !.op = "logout", !.pc = "revoke", !.token = t,
                                 !.family = tokens[t].family]
    <2>2. q \in Request
        BY <1>1, <1>10 DEF Request, Ops, Pcs
    <2>3. q.op = "logout" /\ q.pc = "revoke" /\ q.token = t /\ q.family = tokens[t].family /\ q.id = Null
        BY DEF Idle
    <2>4. Start(r, q)
        BY <2>1
    <2> HIDE DEF q
    <2>5. Carries(q)
        BY <1>10, <2>3, AccountsAssumption DEF Carries, Path, Loose, Listed, Changing
    <2> QED
        BY <1>3, <2>2, <2>3, <2>4, <2>5, GotoFacts
<1> QED
    BY <1>4, <1>6, <1>7, <1>8, <1>9, <1>11, <1>12 DEF Arrive

\* The other actions, and what they make of the record of their request.
LEMMA Records ==
    ASSUME AccountsTypeOK, CarryInv, NEW r \in Requests
    PROVE  /\ req[r] \in Request /\ Carries(req[r]) /\ Path(req[r].op, req[r].pc)
           /\ req[r].op \in Ops
           /\ ~Loose(req[r].op, req[r].pc) => req[r].id \in Ids
           /\ req[r].op \in {"refresh", "logout"} => req[r].token \in Tokens /\ req[r].family \in Tokens
           /\ req[r].op \in Changing \cup {"login"} => req[r].name \in Names
           /\ req[r].op \in {"create", "reset"} => req[r].password \in Passwords
    BY DEF AccountsTypeOK, CarryInv, Carries, Request

LEMMA LookFacts ==
    ASSUME AccountsTypeOK, CarryInv, NEW r \in Requests, Look(r)
    PROVE  /\ Moved(r) /\ Remembered(r) /\ Still /\ count' = count
           /\ req[r].op = "create" /\ req[r].pc = "look"
           /\ \/ req'[r] = Idle
              \/ Found(req[r].name) = {} /\ Same(req[r], req'[r]) /\ req'[r].pc = "find"
<1>1. req[r].op = "create" /\ req[r].pc = "look"
    BY Records DEF Look, At, Path, Ops
<1>2. Still /\ count' = count
    BY DEF Look, Refused, Quietly, Still, tableVars
<1>3. CASE Found(req[r].name) # {}
    BY <1>1, <1>2, <1>3, RefusedFacts DEF Look
<1>4. CASE Found(req[r].name) = {}
    <2>1. To(r, "find")
        BY <1>4 DEF Look
    <2> QED
        BY <1>1, <1>2, <1>4, <2>1, ToFacts DEF Path, Loose, Listed, Pcs
<1> QED
    BY <1>3, <1>4

LEMMA FindFacts ==
    ASSUME AccountsTypeOK, CarryInv, NEW r \in Requests, Find(r)
    PROVE  /\ Moved(r) /\ Remembered(r) /\ Still /\ count' = count
           /\ req[r].op \in {"create", "login", "refresh"} /\ req[r].pc = "find"
           /\ Alike(req[r], req'[r]) /\ req'[r].list = req[r].list /\ req'[r].status = req[r].status
           /\ req'[r].pc = "insert" /\ req'[r].id \in Ids
           /\ \/ req'[r].id \in Found(NameOf(req[r]))
              \/ /\ Found(NameOf(req[r])) = {} /\ users[req'[r].id] = Null
                 /\ \A o \in Requests : req[o].id # req'[r].id
<1>1. req[r].op \in {"create", "login", "refresh"} /\ req[r].pc = "find"
    BY Records DEF Find, At, Path, Ops
<1>2. Still /\ count' = count
    BY DEF Find, Quietly, Still, tableVars
<1>3. PICK u \in Ids :
         /\ Goto(r, [req[r] EXCEPT !.id = u, !.pc = "insert"])
         /\ \/ u \in Found(NameOf(req[r]))
            \/ /\ Found(NameOf(req[r])) = {} /\ users[u] = Null
               /\ \A o \in Requests : req[o].id # u
    BY DEF Find, Found
<1> DEFINE q == [req[r] EXCEPT !.id = u, !.pc = "insert"]
<1>4. /\ q \in Request /\ Alike(req[r], q) /\ q.list = req[r].list /\ q.status = req[r].status
      /\ q.pc = "insert" /\ q.id = u
    BY Records DEF Alike, Request, Pcs
<1>5. Goto(r, q)
    BY <1>3
<1> HIDE DEF q
<1>6. Carries(q)
    BY <1>1, <1>4, Records, AccountsAssumption DEF Carries, Path, Loose, Listed, Alike, Changing
<1> QED
    BY <1>1, <1>2, <1>3, <1>4, <1>5, <1>6, GotoFacts

LEMMA InsertFacts ==
    ASSUME AccountsTypeOK, CarryInv, NEW r \in Requests, Insert(r)
    PROVE  /\ Moved(r) /\ Remembered(r)
           /\ req[r].op \in {"create", "login", "refresh"} /\ req[r].pc = "insert"
           /\ Same(req[r], req'[r]) /\ req'[r].pc = "link" /\ req[r].id \in Ids
<1>1. req[r].op \in {"create", "login", "refresh"} /\ req[r].pc = "insert"
    BY Records DEF Insert, At, Path, Ops
<1>2. To(r, "link")
    BY DEF Insert
<1> QED
    BY <1>1, <1>2, ToFacts, Records DEF Path, Loose, Listed, Pcs

LEMMA LinkFacts ==
    ASSUME AccountsTypeOK, CarryInv, NEW r \in Requests, Link(r)
    PROVE  /\ Moved(r) /\ Remembered(r) /\ Same(req[r], req'[r]) /\ req[r].id \in Ids
           /\ \/ /\ req[r].op \in {"create", "login", "refresh"}
                 /\ req[r].pc = "link" /\ req'[r].pc = "member"
              \/ /\ req[r].op \in {"create", "members"} /\ req[r].pc = "relink"
                 /\ \/ req'[r].pc = "status" /\ req[r].op = "create"
                    \/ req'[r].pc = "reply" /\ (req[r].op = "create" => req[r].status = "active")
<1>1. CASE req[r].pc = "link"
    <2>1. req[r].op \in {"create", "login", "refresh"}
        BY <1>1, Records DEF Path, Ops
    <2>2. To(r, "member")
        BY <1>1 DEF Link, At
    <2> QED
        BY <1>1, <2>1, <2>2, ToFacts, Records DEF Path, Loose, Listed, Pcs
<1>2. CASE req[r].pc = "relink"
    <2>1. req[r].op \in {"create", "members"}
        BY <1>2, Records DEF Path, Ops
    <2>2. CASE req[r].status = "disabled"
        <3>1. To(r, "status")
            BY <1>2, <2>2 DEF Link, At
        <3>2. req[r].op = "create"
            BY <2>1, <2>2, Records DEF Carries
        <3> QED
            BY <1>2, <3>1, <3>2, ToFacts, Records DEF Path, Loose, Listed, Pcs
    <2>3. CASE req[r].status # "disabled"
        <3>1. To(r, "reply")
            BY <1>2, <2>3 DEF Link, At
        <3>2. req[r].status = "active"
            BY <2>3, Records DEF Request, Statuses
        <3> QED
            BY <1>2, <2>1, <3>1, <3>2, ToFacts, Records DEF Path, Loose, Listed, Pcs
    <2> QED
        BY <2>2, <2>3
<1> QED
    BY <1>1, <1>2 DEF Link

LEMMA MemberFacts ==
    ASSUME AccountsTypeOK, CarryInv, NEW r \in Requests, Member(r)
    PROVE  /\ Moved(r) /\ Remembered(r) /\ req[r].pc = "member" /\ req[r].id \in Ids
           /\ \/ req[r].op = "create" /\ Same(req[r], req'[r]) /\ req'[r].pc = "wipe"
              \/ /\ req[r].op \in {"login", "refresh"} /\ Alike(req[r], req'[r])
                 /\ req'[r].pc = req[r].op /\ req'[r].id = Null
<1>1. req[r].op \in {"create", "login", "refresh"} /\ req[r].pc = "member"
    BY Records DEF Member, At, Path, Ops
<1>2. CASE req[r].op = "create"
    <2>1. To(r, "wipe")
        BY <1>2 DEF Member, Booting
    <2> QED
        BY <1>1, <1>2, <2>1, ToFacts, Records DEF Path, Loose, Listed, Pcs
<1>3. CASE req[r].op \in {"login", "refresh"}
    <2> DEFINE q == [req[r] EXCEPT !.pc = req[r].op, !.id = Null]
    <2>1. q \in Request /\ Alike(req[r], q) /\ q.pc = req[r].op /\ q.id = Null
        BY <1>3, Records DEF Alike, Request, Pcs
    <2>2. Goto(r, q)
        BY <1>3 DEF Member, Booting
    <2> HIDE DEF q
    <2>3. Carries(q)
        BY <1>3, <2>1, Records DEF Carries, Path, Loose, Listed, Alike, Changing
    <2>4. Moved(r) /\ Remembered(r) /\ req'[r] = q
        BY <2>1, <2>2, <2>3, GotoFacts
    <2> QED
        BY <1>1, <1>3, <2>1, <2>4, Records DEF Loose
<1> QED
    BY <1>1, <1>2, <1>3

LEMMA WipeFacts ==
    ASSUME AccountsTypeOK, CarryInv, NEW r \in Requests, Wipe(r)
    PROVE  /\ Moved(r) /\ Remembered(r) /\ req[r].pc = "wipe" /\ req[r].id \in Ids
           /\ req[r].op \in {"create", "members"} /\ Same(req[r], req'[r]) /\ req'[r].pc = "grant"
<1>1. req[r].op \in {"create", "members"} /\ req[r].pc = "wipe"
    BY Records DEF Wipe, At, Path, Ops
<1>2. To(r, "grant")
    BY DEF Wipe
<1> QED
    BY <1>1, <1>2, ToFacts, Records DEF Path, Loose, Listed, Pcs

LEMMA GrantFacts ==
    ASSUME AccountsTypeOK, CarryInv, NEW r \in Requests, Grant(r)
    PROVE  /\ Moved(r) /\ Remembered(r) /\ req[r].pc = "grant" /\ req[r].id \in Ids
           /\ req[r].op \in {"create", "members"} /\ Alike(req[r], req'[r])
           /\ req'[r].id = req[r].id /\ req'[r].status = req[r].status
           /\ req[r].list # <<>> /\ req'[r].list = Tail(req[r].list)
           /\ \/ req'[r].pc = "relink" /\ Len(req[r].list) = 1
              \/ req'[r].pc = "grant"
<1> DEFINE q == [req[r] EXCEPT !.list = Tail(@),
                               !.pc = IF Len(req[r].list) = 1 THEN "relink" ELSE "grant"]
<1>1. req[r].op \in {"create", "members"} /\ req[r].pc = "grant"
    BY Records DEF Grant, At, Path, Ops
<1>2. req[r].list \in Seq(Workspaces) /\ req[r].list # <<>>
    BY <1>1, Records DEF Carries, Request, Listed
<1>3. /\ Tail(req[r].list) \in Seq(Workspaces)
      /\ Len(req[r].list) # 1 => Tail(req[r].list) # <<>>
    <2> DEFINE l == req[r].list
    <2> HIDE DEF l
    <2>1. l \in Seq(Workspaces) /\ l # <<>>
        BY <1>2 DEF l
    <2>2. Tail(l) \in Seq(Workspaces) /\ Len(Tail(l)) = Len(l) - 1 /\ Len(l) \in Nat
        BY <2>1
    <2>3. ASSUME Tail(l) = <<>>  PROVE Len(Tail(l)) = 0
        BY <2>3, EmptySeq, Zenon
    <2>4. Len(l) # 1 => Tail(l) # <<>>
        BY <2>2, <2>3
    <2> QED
        BY <2>2, <2>4 DEF l
<1>4. /\ q \in Request /\ Alike(req[r], q) /\ q.id = req[r].id /\ q.status = req[r].status
      /\ q.list = Tail(req[r].list)
      /\ \/ q.pc = "relink" /\ Len(req[r].list) = 1
         \/ q.pc = "grant" /\ Len(req[r].list) # 1
    BY <1>3, Records DEF Alike, Request, Pcs
<1>5. Goto(r, q)
    BY DEF Grant
<1> HIDE DEF q
<1>6. Carries(q)
    BY <1>1, <1>3, <1>4, Records DEF Carries, Path, Loose, Listed, Alike, Changing
<1>7. Moved(r) /\ Remembered(r) /\ req'[r] = q
    BY <1>4, <1>5, <1>6, GotoFacts
<1> QED
    BY <1>1, <1>2, <1>4, <1>7, Records DEF Loose

LEMMA SetStatusFacts ==
    ASSUME AccountsTypeOK, CarryInv, NEW r \in Requests, SetStatus(r)
    PROVE  /\ Moved(r) /\ Remembered(r) /\ req[r].pc = "status" /\ req[r].id \in Ids
           /\ req[r].op \in {"create", "status"} /\ Same(req[r], req'[r]) /\ req'[r].pc = "reply"
<1>1. req[r].op \in {"create", "status"} /\ req[r].pc = "status"
    BY Records DEF SetStatus, At, Path, Ops
<1>2. To(r, "reply")
    BY DEF SetStatus
<1> QED
    BY <1>1, <1>2, ToFacts, Records DEF Path, Loose, Listed, Pcs

LEMMA SetPasswordFacts ==
    ASSUME AccountsTypeOK, CarryInv, NEW r \in Requests, SetPassword(r)
    PROVE  /\ Moved(r) /\ Remembered(r) /\ req[r].pc = "reset" /\ req[r].id \in Ids
           /\ req[r].op = "reset" /\ Same(req[r], req'[r]) /\ req'[r].pc = "reply"
<1>1. req[r].op = "reset" /\ req[r].pc = "reset"
    BY Records DEF SetPassword, At, Path, Ops
<1>2. To(r, "reply")
    BY DEF SetPassword
<1> QED
    BY <1>1, <1>2, ToFacts, Records DEF Path, Loose, Listed, Pcs

LEMMA ReplyFacts ==
    ASSUME AccountsTypeOK, CarryInv, NEW r \in Requests, Reply(r)
    PROVE  /\ Moved(r) /\ Remembered(r) /\ req[r].pc = "reply" /\ req[r].id \in Ids
           /\ req[r].op \in Changing /\ req'[r] = Idle
<1>1. req[r].op \in Changing /\ req[r].pc = "reply"
    BY Records DEF Reply, At, Path, Ops, Changing
<1>2. Goto(r, Idle)
    BY DEF Reply
<1> QED
    BY <1>1, <1>2, GotoFacts, IdleRequest, Records DEF Loose, Changing

LEMMA LookUpFacts ==
    ASSUME AccountsTypeOK, CarryInv, NEW r \in Requests, LookUp(r)
    PROVE  /\ Moved(r) /\ Remembered(r) /\ Still /\ count' = count
           /\ req[r].op = "login" /\ req[r].pc = "login"
           /\ \/ req'[r] = Idle
              \/ /\ Alike(req[r], req'[r]) /\ req'[r].list = req[r].list
                 /\ req'[r].pc = "bind" /\ req'[r].id \in Found(req[r].name)
                 /\ req'[r].status = users[req'[r].id].status
<1>1. req[r].op = "login" /\ req[r].pc = "login"
    BY Records DEF LookUp, At, Path, Ops
<1>2. Still /\ count' = count
    BY DEF LookUp, Refused, Quietly, Still, tableVars
<1>3. CASE Refused(r)
    BY <1>1, <1>2, <1>3, RefusedFacts
<1>4. CASE \E u \in Found(req[r].name) :
             Goto(r, [req[r] EXCEPT !.id = u, !.status = users[u].status, !.pc = "bind"])
    <2>1. PICK u \in Found(req[r].name) :
             Goto(r, [req[r] EXCEPT !.id = u, !.status = users[u].status, !.pc = "bind"])
        BY <1>4
    <2>2. u \in Ids /\ users[u].status \in Statuses
        BY DEF Found, AccountsTypeOK, UserRows
    <2> DEFINE q == [req[r] EXCEPT !.id = u, !.status = users[u].status, !.pc = "bind"]
    <2>3. /\ q \in Request /\ Alike(req[r], q) /\ q.list = req[r].list
          /\ q.status = users[u].status /\ q.pc = "bind" /\ q.id = u
        BY <2>2, Records DEF Alike, Request, Pcs
    <2>4. Goto(r, q)
        BY <2>1
    <2> HIDE DEF q
    <2>5. Carries(q)
        BY <1>1, <2>2, <2>3, Records, AccountsAssumption
           DEF Carries, Path, Loose, Listed, Alike, Changing
    <2> QED
        BY <1>1, <1>2, <2>1, <2>3, <2>4, <2>5, GotoFacts
<1> QED
    BY <1>3, <1>4 DEF LookUp

LEMMA CheckTokenFacts ==
    ASSUME AccountsTypeOK, CarryInv, NEW r \in Requests, CheckToken(r)
    PROVE  /\ Moved(r) /\ Remembered(r) /\ Still /\ count' = count
           /\ req[r].op = "refresh" /\ req[r].pc = "refresh"
           /\ \/ req'[r] = Idle
              \/ /\ Same(req[r], req'[r]) /\ req'[r].pc = "user"
                 /\ tokens[req[r].token].state = "live"
<1>1. req[r].op = "refresh" /\ req[r].pc = "refresh"
    BY Records DEF CheckToken, At, Path, Ops
<1>2. Still /\ count' = count
    BY DEF CheckToken, Refused, Quietly, Still, tableVars
<1>3. CASE tokens[req[r].token].state = "live"
    <2>1. To(r, "user")
        BY <1>3 DEF CheckToken
    <2> QED
        BY <1>1, <1>2, <1>3, <2>1, ToFacts DEF Path, Loose, Listed, Pcs
<1>4. CASE tokens[req[r].token].state # "live"
    BY <1>1, <1>2, <1>4, RefusedFacts DEF CheckToken
<1> QED
    BY <1>3, <1>4

LEMMA ReadUserFacts ==
    ASSUME AccountsTypeOK, CarryInv, RowInv, HeadInv, NEW r \in Requests, ReadUser(r)
    PROVE  /\ Moved(r) /\ Remembered(r) /\ Still /\ count' = count
           /\ req[r].op = "refresh" /\ req[r].pc = "user"
           /\ Alike(req[r], req'[r]) /\ req'[r].list = req[r].list /\ req'[r].pc = "bind"
           /\ req'[r].id \in Ids /\ link[req'[r].id] # "none" /\ users[req'[r].id] # Null
           /\ req'[r].status = users[req'[r].id].status
<1>1. req[r].op = "refresh" /\ req[r].pc = "user"
    BY Records DEF ReadUser, At, Path, Ops
<1>2. Still /\ count' = count
    BY DEF ReadUser, Quietly, Still, tableVars
<1> DEFINE u == tokens[req[r].token].user
           q == [req[r] EXCEPT !.id = u, !.status = users[u].status, !.pc = "bind"]
<1>3. tokens[req[r].token] # Null /\ req[r].token \in Tokens
    BY <1>1, Records DEF HeadInv
<1>4. u \in Ids
    BY <1>3 DEF AccountsTypeOK, TokenRows
<1>5. link[u] # "none" /\ users[u] # Null
    BY <1>3, <1>4 DEF RowInv
<1>6. users[u].status \in Statuses
    BY <1>4, <1>5 DEF AccountsTypeOK, UserRows
<1>7. Goto(r, q)
    BY DEF ReadUser
<1> HIDE DEF u
<1>8. /\ q \in Request /\ Alike(req[r], q) /\ q.list = req[r].list
      /\ q.status = users[u].status /\ q.pc = "bind" /\ q.id = u
    BY <1>4, <1>6, Records DEF Alike, Request, Pcs
<1> HIDE DEF q
<1>9. Carries(q)
    BY <1>1, <1>4, <1>8, Records, AccountsAssumption
       DEF Carries, Path, Loose, Listed, Alike, Changing
<1> QED
    BY <1>1, <1>2, <1>4, <1>5, <1>7, <1>8, <1>9, GotoFacts

LEMMA BindFacts ==
    ASSUME AccountsTypeOK, CarryInv, NEW r \in Requests, Bind(r)
    PROVE  /\ Moved(r) /\ Remembered(r) /\ Still /\ count' = count
           /\ req[r].op \in {"login", "refresh"} /\ req[r].pc = "bind" /\ req[r].id \in Ids
           /\ \/ req'[r] = Idle
              \/ /\ Same(req[r], req'[r])
                 /\ req'[r].pc = IF req[r].op = "login" THEN "list" ELSE "revoke"
                 /\ req[r].status = "active" /\ link[req[r].id] # "disabled"
<1>1. req[r].op \in {"login", "refresh"} /\ req[r].pc = "bind"
    BY Records DEF Bind, At, Path, Ops
<1>2. Still /\ count' = count
    BY DEF Bind, Refused, Quietly, Still, tableVars
<1>3. req[r].id \in Ids
    BY <1>1, Records DEF Loose
<1>4. CASE req[r].status # "active" \/ link[req[r].id] = "disabled"
    BY <1>1, <1>2, <1>3, <1>4, RefusedFacts DEF Bind
<1>5. CASE req[r].status = "active" /\ link[req[r].id] # "disabled"
    <2>1. To(r, AfterBind(r))
        BY <1>5 DEF Bind
    <2>2. CASE req[r].op = "login"
        <3>1. To(r, "list")
            BY <2>1, <2>2 DEF AfterBind
        <3> QED
            BY <1>1, <1>2, <1>3, <1>5, <2>2, <3>1, ToFacts DEF Path, Loose, Listed, Pcs
    <2>3. CASE req[r].op = "refresh"
        <3>1. To(r, "revoke")
            BY <2>1, <2>3 DEF AfterBind
        <3> QED
            BY <1>1, <1>2, <1>3, <1>5, <2>3, <3>1, ToFacts DEF Path, Loose, Listed, Pcs
    <2> QED
        BY <1>1, <2>2, <2>3
<1> QED
    BY <1>4, <1>5

LEMMA ListFacts ==
    ASSUME AccountsTypeOK, CarryInv, NEW r \in Requests, List(r)
    PROVE  /\ Moved(r) /\ Remembered(r) /\ Still /\ count' = count
           /\ req[r].op = "login" /\ req[r].pc = "list" /\ req[r].id \in Ids
           /\ Same(req[r], req'[r])
           /\ \/ req'[r].pc = "default" /\ members[req[r].id] = {}
              \/ req'[r].pc = "issue"
<1>1. req[r].op = "login" /\ req[r].pc = "list"
    BY Records DEF List, At, Path, Ops
<1>2. Still /\ count' = count
    BY DEF List, Quietly, Still, tableVars
<1>3. req[r].id \in Ids
    BY <1>1, Records DEF Loose
<1>4. CASE members[req[r].id] = {}
    <2>1. To(r, "default")
        BY <1>4 DEF List
    <2> QED
        BY <1>1, <1>2, <1>3, <1>4, <2>1, ToFacts DEF Path, Loose, Listed, Pcs
<1>5. CASE members[req[r].id] # {}
    <2>1. To(r, "issue")
        BY <1>5 DEF List
    <2> QED
        BY <1>1, <1>2, <1>3, <1>5, <2>1, ToFacts DEF Path, Loose, Listed, Pcs
<1> QED
    BY <1>4, <1>5

LEMMA DefaultFacts ==
    ASSUME AccountsTypeOK, CarryInv, NEW r \in Requests, Default(r)
    PROVE  /\ Moved(r) /\ Remembered(r) /\ req[r].pc = "default" /\ req[r].id \in Ids
           /\ req[r].op = "login" /\ Same(req[r], req'[r]) /\ req'[r].pc = "issue"
<1>1. req[r].op = "login" /\ req[r].pc = "default"
    BY Records DEF Default, At, Path, Ops
<1>2. To(r, "issue")
    BY DEF Default
<1> QED
    BY <1>1, <1>2, ToFacts, Records DEF Path, Loose, Listed, Pcs

LEMMA RevokeFacts ==
    ASSUME AccountsTypeOK, CarryInv, NEW r \in Requests, Revoke(r)
    PROVE  /\ Moved(r) /\ Remembered(r) /\ req[r].pc = "revoke"
           /\ \/ req[r].op = "logout" /\ req'[r] = Idle
              \/ req[r].op = "refresh" /\ Same(req[r], req'[r]) /\ req'[r].pc = "issue"
<1>1. req[r].op \in {"refresh", "logout"} /\ req[r].pc = "revoke"
    BY Records DEF Revoke, At, Path, Ops
<1>2. CASE req[r].op = "logout"
    <2>1. Goto(r, Idle)
        BY <1>2 DEF Revoke
    <2> QED
        BY <1>1, <1>2, <2>1, GotoFacts, IdleRequest
<1>3. CASE req[r].op = "refresh"
    <2>1. To(r, "issue")
        BY <1>3 DEF Revoke
    <2> QED
        BY <1>1, <1>3, <2>1, ToFacts DEF Path, Loose, Listed, Pcs
<1> QED
    BY <1>1, <1>2, <1>3

LEMMA IssueFacts ==
    ASSUME AccountsTypeOK, CarryInv, NEW r \in Requests, Issue(r)
    PROVE  /\ Moved(r) /\ Remembered(r) /\ req[r].pc = "issue" /\ req[r].id \in Ids
           /\ req[r].op \in {"login", "refresh"} /\ req'[r] = Idle
<1>1. req[r].op \in {"login", "refresh"} /\ req[r].pc = "issue"
    BY Records DEF Issue, At, Path, Ops
<1>2. Goto(r, Idle)
    BY DEF Issue
<1> QED
    BY <1>1, <1>2, GotoFacts, IdleRequest, Records DEF Loose

LEMMA FailFacts ==
    ASSUME AccountsTypeOK, CarryInv, NEW r \in Requests, Fail(r)
    PROVE  /\ Moved(r) /\ req'[r] = Idle /\ Writes(req[r]) \subseteq disputed'
           /\ UNCHANGED <<users, link, members, tokens, count, granted, out, misdealt>>
           /\ faults' \in 0 .. MaxFaults
<1>1. /\ req' \in [Requests -> Request] /\ req'[r] = Idle
      /\ \A o \in Requests \ {r} : req'[o] = req[o]
    BY IdleRequest DEF Fail, AccountsTypeOK
<1>2. Writes(req[r]) \subseteq Names
    BY Records, WritesAreNames
<1>3. /\ disputed \subseteq disputed' /\ disputed' \subseteq Names
      /\ raced \subseteq raced' /\ raced' \subseteq Tokens
      /\ met' \subseteq Requests /\ \A o \in Requests \ {r} : o \in met => o \in met'
    BY <1>2 DEF AccountsTypeOK, Fail
<1>4. Writes(Idle) = {} /\ Uses(Idle) = {}
    BY DEF Idle, Writes, Uses, Changing
<1>5. Moved(r)
    BY <1>1, <1>3, <1>4, IdleRequest DEF Moved
<1>6. faults' \in 0 .. MaxFaults
    BY AccountsAssumption DEF Fail, AccountsTypeOK
<1> QED
    BY <1>1, <1>5, <1>6 DEF Fail, tableVars

-----------------------------------------------------------------------------
LEMMA IdleFields ==
    /\ Idle.op = "idle" /\ Idle.pc = "idle" /\ Idle.id = Null
    /\ Writes(Idle) = {} /\ Uses(Idle) = {}
    BY DEF Idle, Writes, Uses, Changing

LEMMA RecordsKept ==
    ASSUME AccountsTypeOK, CarryInv, OverlapInv, NEW r \in Requests, Moved(r)
    PROVE  CarryInv' /\ OverlapInv'
<1>1. CarryInv'
    BY DEF CarryInv, Moved
<1>2. ASSUME NEW a \in Requests, NEW o \in Requests, a # o
      PROVE  /\ Writes(req'[a]) \cap Writes(req'[o]) \subseteq disputed'
             /\ Uses(req'[a]) \cap Uses(req'[o]) \subseteq raced'
    <2>1. CASE a = r
        BY <1>2, <2>1 DEF Moved
    <2>2. CASE o = r
        BY <1>2, <2>2 DEF Moved
    <2>3. CASE a # r /\ o # r
        BY <1>2, <2>3 DEF Moved, OverlapInv
    <2> QED
        BY <2>1, <2>2, <2>3
<1>3. OverlapInv'
    BY <1>2 DEF OverlapInv, Writes, Uses, NameOf, Booting
<1> QED
    BY <1>1, <1>3

\* The next record of a request fits the tables.
Fits(r) ==
    /\ req'[r].id # Null => Holds(req'[r], disputed')
    /\ \A o \in Requests \ {r} : req'[r].id # Null /\ req'[r].id = req[o].id
                                   => users[req'[r].id] # Null
    /\ req'[r].op = "create" /\ req'[r].name \notin disputed'
          /\ req'[r].pc \in {"find", "insert", "link"} => Found(req'[r].name) = {}

\* More names in dispute leave what a request holds as it was.
LEMMA HoldsOn ==
    ASSUME NEW q, NEW d, NEW e, d \subseteq e, Holds(q, d)
    PROVE  Holds(q, e)
    BY DEF Holds, Adopting

LEMMA IdleFits == ASSUME NEW r \in Requests, req'[r] = Idle PROVE Fits(r)
    BY IdleFields DEF Fits

LEMMA LooseFits ==
    ASSUME NEW r \in Requests, req'[r].id = Null, req'[r].op # "create"
    PROVE  Fits(r)
    BY DEF Fits

LEMMA OnFits ==
    ASSUME RowInv, NEW r \in Requests, Moved(r), req[r].id # Null, req'[r].id = req[r].id,
           Alike(req[r], req'[r]), req[r].pc \notin {"insert", "link"},
           req'[r].pc \notin {"find", "insert", "link", "member"},
           req[r].op = "create" \/ req[r].pc # "member",
           \/ req[r].op # "members" \/ req'[r].pc \in {"wipe", "grant", "relink"}
           \/ link[req[r].id] # "none"
    PROVE  Fits(r)
<1>1. Holds(req[r], disputed) /\ disputed \subseteq disputed'
    BY DEF RowInv, Moved
<1>2. Holds(req'[r], disputed')
    BY <1>1 DEF Holds, Adopting, Named, HeldName, NameOf, Booting, Alike
<1>3. \A o \in Requests \ {r} : req'[r].id = req[o].id => users[req'[r].id] # Null
    BY DEF RowInv
<1> QED
    BY <1>2, <1>3 DEF Fits

\* A step that leaves the names and the links alone.
LEMMA RowsKept ==
    ASSUME AccountsTypeOK, RowInv, NEW r \in Requests, Moved(r),
           \A u \in Ids : /\ users'[u] = Null <=> users[u] = Null
                          /\ users[u] # Null => users'[u].name = users[u].name,
           \A u \in Ids : link'[u] = "none" <=> link[u] = "none",
           \A u \in Ids : granted'[u] # Null => granted[u] # Null \/ link[u] # "none",
           \A t \in Tokens : tokens'[t] # Null => tokens'[t].user \in Ids /\ link[tokens'[t].user] # "none",
           misdealt' \subseteq Ids,
           \A u \in misdealt' : link[u] # "none",
           Fits(r)
    PROVE  RowInv'
<1>1. \A n : Found(n)' = Found(n)
    BY DEF Found
<1>2. AdminId \in Ids
    BY AccountsAssumption
<1>3. link'[AdminId] # "none" /\ users'[AdminId] # Null /\ users'[AdminId].name = Admin
    BY <1>2 DEF RowInv
<1>4. /\ \A u \in Ids : link'[u] # "none" => users'[u] # Null
      /\ \A u \in Ids : granted'[u] # Null => link'[u] # "none"
      /\ \A t \in Tokens : tokens'[t] # Null => link'[tokens'[t].user] # "none"
      /\ \A u \in misdealt' : link'[u] # "none"
    BY DEF RowInv
<1>5. ASSUME NEW a \in Requests, req'[a].id # Null
      PROVE  Holds(req[a], disputed)'
    <2>1. Holds(req'[a], disputed') /\ req'[a].id \in Ids
        BY <1>5, HoldsOn DEF RowInv, Moved, Request, Fits
    <2> DEFINE q == req'[a]
    <2>2. q.id \in Ids /\ Holds(q, disputed')
        BY <2>1
    <2>3. /\ \/ (q.op = "create" /\ q.pc \in {"insert", "link"}) \/ Adopting(q, disputed')
             \/ link'[q.id] # "none"
          /\ users'[q.id] = Null => q.pc = "insert" /\ q.op = "create"
          /\ q.pc = "insert" /\ users'[q.id] # Null => link'[q.id] # "none"
          /\ Named(q) /\ users'[q.id] # Null => users'[q.id].name = HeldName(q)
        BY <2>2 DEF Holds, Adopting
    <2> QED
        BY <2>3 DEF Holds, Adopting, Named, HeldName, NameOf, Booting
<1>6. ASSUME NEW a \in Requests, NEW o \in Requests, a # o,
             req'[a].id # Null, req'[a].id = req'[o].id
      PROVE  users'[req'[a].id] # Null
    <2>1. req'[a].id \in Ids
        BY <1>6 DEF Moved, Request
    <2>2. users[req'[a].id] # Null
        BY <1>6 DEF RowInv, Moved, Fits
    <2> QED
        BY <2>1, <2>2
<1>7. ASSUME NEW a \in Requests
      PROVE  FirstOfName(req[a])'
    <2>1. req'[a].op = "create" /\ req'[a].name \notin disputed'
             /\ req'[a].pc \in {"find", "insert", "link"} => Found(req'[a].name) = {}
        BY DEF RowInv, Moved, FirstOfName, Fits
    <2> QED
        BY <1>1, <2>1 DEF FirstOfName, Found
<1>8. OneAccountPerName'
    <2>1. disputed \subseteq disputed'
        BY DEF Moved
    <2> QED
        BY <2>1 DEF RowInv, OneAccountPerName
<1> QED
    BY <1>3, <1>4, <1>5, <1>6, <1>7, <1>8 DEF RowInv

\* The steps that leave the rows, the links, the tokens and the answers alone.
LEMMA RowsStill ==
    ASSUME AccountsTypeOK, RowInv, NEW r \in Requests, Moved(r), Fits(r),
           UNCHANGED <<users, link, tokens, granted, misdealt>>
    PROVE  RowInv'
<1>1. \A t \in Tokens : tokens[t] # Null => tokens[t].user \in Ids
    BY DEF AccountsTypeOK, TokenRows
<1>2. misdealt \subseteq Ids
    BY DEF AccountsTypeOK
<1> QED
    BY <1>1, <1>2, RowsKept DEF RowInv

LEMMA ArriveRows ==
    ASSUME AccountsTypeOK, RowInv, NEW r \in Requests, Arrive(r)
    PROVE  RowInv'
<1> DEFINE q == req'[r]
<1>1. Moved(r) /\ Still
    BY ArriveFacts
<1>2. q \in Request /\ Carries(q)
    BY <1>1 DEF Moved
<1>3. Fits(r)
    <2>1. CASE q.op = "create" /\ q.pc = "look"
        BY <1>2, <2>1 DEF Fits, Carries, Loose
    <2>2. CASE /\ <<q.op, q.pc>> \in {<<"members", "wipe">>, <<"status", "status">>,
                                      <<"reset", "reset">>}
               /\ users[q.id] # Null /\ q.name = users[q.id].name
               /\ link[q.id] # "none" \/ (q.op = "members" /\ q.name \in disputed')
        <3>1. Holds(q, disputed')
            BY <2>2 DEF Holds, Adopting, Named, HeldName
        <3> QED
            BY <2>2, <3>1 DEF Fits
    <2>3. CASE \/ q.op = "login" /\ q.pc = "find"
               \/ <<q.op, q.pc>> \in {<<"refresh", "find">>, <<"logout", "revoke">>}
        <3>1. q.id = Null
            BY <1>2, <2>3 DEF Carries, Loose
        <3> QED
            BY <2>3, <3>1, LooseFits
    <2> HIDE DEF q
    <2> QED
        BY <2>1, <2>2, <2>3, ArriveFacts DEF q
<1> QED
    BY <1>1, <1>3, RowsStill DEF Still

LEMMA LookRows ==
    ASSUME AccountsTypeOK, CarryInv, RowInv, NEW r \in Requests, Look(r)
    PROVE  RowInv'
<1>1. CASE req'[r] = Idle
    BY <1>1, IdleFits, LookFacts, RowsStill DEF Still
<1>2. CASE Found(req[r].name) = {} /\ Same(req[r], req'[r]) /\ req'[r].pc = "find"
    <2>1. req'[r].id = Null /\ req'[r].name = req[r].name
        BY <1>2, LookFacts DEF Moved, Carries, Loose, Same, Alike
    <2>2. Fits(r)
        BY <1>2, <2>1 DEF Fits
    <2> QED
        BY <2>2, LookFacts, RowsStill DEF Still
<1> QED
    BY <1>1, <1>2, LookFacts

LEMMA FindRows ==
    ASSUME AccountsTypeOK, CarryInv, RowInv, NEW r \in Requests, Find(r)
    PROVE  RowInv'
<1> DEFINE q == req'[r]  p == req[r]
<1>1. /\ p.op \in {"create", "login", "refresh"} /\ p.pc = "find"
      /\ Alike(p, q) /\ q.pc = "insert" /\ q.id \in Ids
    BY FindFacts
<1>2. p.op = "create" /\ p.name \notin disputed => Found(p.name) = {}
    BY <1>1 DEF RowInv, FirstOfName
<1>3. disputed \subseteq disputed'
    BY FindFacts DEF Moved
<1>4. q.op = "create" /\ q.name \notin disputed' => Found(q.name) = {}
    BY <1>1, <1>2, <1>3 DEF Alike
<1>5. p.op # "create" => Found(NameOf(p)) # {}
    <2>1. AdminId \in Found(Admin)
        BY AccountsAssumption DEF RowInv, Found
    <2> QED
        BY <1>1, <2>1 DEF NameOf, Booting
<1>6. NameOf(q) = NameOf(p)
    BY <1>1 DEF NameOf, Booting, Alike
<1>7. CASE q.id \in Found(NameOf(p))
    <2>1. users[q.id] # Null /\ users[q.id].name = NameOf(q) /\ link[q.id] # "none"
        BY <1>6, <1>7 DEF Found
    <2>2. Holds(q, disputed')
        BY <1>1, <2>1 DEF Holds, Adopting, Named, HeldName
    <2>3. Fits(r)
        BY <1>1, <1>4, <2>1, <2>2 DEF Fits
    <2> QED
        BY <2>3, FindFacts, RowsStill DEF Still
<1>8. CASE /\ Found(NameOf(p)) = {} /\ users[q.id] = Null
           /\ \A o \in Requests : req[o].id # q.id
    <2>1. q.op = "create"
        BY <1>1, <1>5, <1>8 DEF Alike
    <2>2. Holds(q, disputed')
        BY <1>1, <1>8, <2>1 DEF Holds, Adopting
    <2>3. Fits(r)
        BY <1>1, <1>4, <1>8, <2>2 DEF Fits
    <2> QED
        BY <2>3, FindFacts, RowsStill DEF Still
<1> HIDE DEF p, q
<1> QED
    BY <1>7, <1>8, FindFacts DEF p, q

\* The row of an account that a request holds.
LEMMA HeldRow ==
    ASSUME AccountsTypeOK, RowInv, NEW r \in Requests, req[r].id \in Ids
    PROVE  /\ Holds(req[r], disputed)
           /\ req[r].pc # "insert" => users[req[r].id] \in UserRows /\ users[req[r].id] # Null
           /\ users[req[r].id] # Null => users[req[r].id] \in UserRows
<1>1. Holds(req[r], disputed)
    BY AccountsAssumption DEF RowInv
<1> QED
    BY <1>1 DEF Holds, Adopting, AccountsTypeOK

LEMMA InsertRow ==
    ASSUME AccountsTypeOK, CarryInv, NEW r \in Requests, Insert(r)
    PROVE  /\ users' \in [Ids -> UserRows \cup {Null}]
           /\ users'[req[r].id] \in UserRows /\ users'[req[r].id] # Null
           /\ users'[req[r].id].name = NameOf(req[r]) /\ users'[req[r].id].status = "active"
           /\ req[r].op = "create" => users'[req[r].id].password = req[r].password
           /\ \A u \in Ids \ {req[r].id} : users'[u] = users[u]
<1> DEFINE row == [name |-> NameOf(req[r]), status |-> "active",
                   password |-> IF Booting(req[r]) THEN AdminPassword ELSE req[r].password]
<1>1. req[r].op \in {"create", "login", "refresh"} /\ req[r].id \in Ids
    BY InsertFacts
<1>2. row \in UserRows
    BY <1>1, Records, AccountsAssumption DEF UserRows, NameOf, Booting, Statuses, Changing
<1>3. /\ row.name = NameOf(req[r]) /\ row.status = "active"
      /\ req[r].op = "create" => row.password = req[r].password
    BY <1>1 DEF Booting
<1>4. users' = [users EXCEPT ![req[r].id] = row]
    BY DEF Insert
<1> HIDE DEF row
<1> QED
    BY <1>1, <1>2, <1>3, <1>4, AccountsAssumption DEF AccountsTypeOK

LEMMA InsertRows ==
    ASSUME AccountsTypeOK, CarryInv, RowInv, NEW r \in Requests, Insert(r)
    PROVE  RowInv'
<1> DEFINE q == req'[r]  p == req[r]  i == p.id
<1>1. /\ Moved(r) /\ p.op \in {"create", "login", "refresh"} /\ p.pc = "insert"
      /\ Same(p, q) /\ q.pc = "link" /\ i \in Ids
    BY InsertFacts
<1>2. UNCHANGED <<link, tokens, granted, misdealt>>
    BY DEF Insert, Quietly
<1>3. Holds(p, disputed)
    BY <1>1, HeldRow
<1>4. NameOf(q) = NameOf(p) /\ HeldName(q) = NameOf(q) /\ HeldName(p) = NameOf(p)
    BY <1>1 DEF NameOf, Booting, Same, Alike, HeldName
<1>5. /\ users'[i] # Null /\ users'[i].name = NameOf(p)
      /\ \A u \in Ids \ {i} : users'[u] = users[u]
    BY InsertRow
<1>6. (q.op = "create" /\ q.pc \in {"insert", "link"}) \/ link[q.id] # "none"
    BY <1>1, <1>3 DEF Holds, Adopting, Same, Alike
<1>7. FirstOfName(p) /\ disputed \subseteq disputed'
    BY <1>1 DEF RowInv, Moved
<1>8. q.op = "create" /\ q.name \notin disputed' => Found(q.name) = {}
    BY <1>1, <1>7 DEF FirstOfName, Same, Alike
<1>9. CASE users[i] # Null
    <2>1. Named(p)
        BY <1>1 DEF Named
    <2>2. users[i].name = NameOf(p) /\ link[i] # "none"
        BY <1>1, <1>3, <1>4, <1>9, <2>1 DEF Holds, Adopting
    <2>3. Holds(q, disputed')
        BY <1>1, <1>4, <1>9, <2>2 DEF Holds, Adopting, Same
    <2>4. Fits(r)
        BY <1>1, <1>8, <1>9, <2>3 DEF Fits, Same
    <2>5. \A u \in Ids : /\ users'[u] = Null <=> users[u] = Null
                         /\ users[u] # Null => users'[u].name = users[u].name
        BY <1>5, <1>9, <2>2
    <2>6. /\ \A t \in Tokens : tokens[t] # Null => tokens[t].user \in Ids
          /\ misdealt \subseteq Ids
        BY DEF AccountsTypeOK, TokenRows
    <2> HIDE DEF q, p, i
    <2> QED
        BY <1>1, <1>2, <2>4, <2>5, <2>6, RowsKept DEF RowInv
<1>10. CASE users[i] = Null
    <2>1. link[i] = "none" /\ i # AdminId
        BY <1>1, <1>10 DEF RowInv
    <2>2. p.op = "create"
        BY <1>1, <1>3, <1>10 DEF Holds, Adopting
    <2>3. \A o \in Requests \ {r} : req[o].id # i
        BY <1>1, <1>10, AccountsAssumption DEF RowInv
    <2>4. \A n : Found(n)' = Found(n)
        BY <1>1, <1>2, <1>5, <2>1 DEF Found
    <2>5. link'[AdminId] # "none" /\ users'[AdminId] # Null /\ users'[AdminId].name = Admin
        BY <1>2, <1>5, <2>1, AccountsAssumption DEF RowInv
    <2>6. /\ \A u \in Ids : link'[u] # "none" => users'[u] # Null
          /\ \A u \in Ids : granted'[u] # Null => link'[u] # "none"
          /\ \A t \in Tokens : tokens'[t] # Null => link'[tokens'[t].user] # "none"
          /\ \A u \in misdealt' : link'[u] # "none"
        BY <1>2, <1>5, <2>1 DEF RowInv
    <2>7. ASSUME NEW a \in Requests, req'[a].id # Null
          PROVE  Holds(req[a], disputed)'
        <3>1. CASE a = r
            <4>1. /\ q.op = "create" /\ q.pc = "link" /\ q.id = i
                  /\ users'[q.id] # Null /\ users'[q.id].name = HeldName(q)
                BY <1>1, <1>4, <1>5, <2>2 DEF Same, Alike
            <4> QED
                BY <3>1, <4>1 DEF Holds, Adopting, NameOf, HeldName, Booting
        <3>2. CASE a # r
            <4>1. req'[a] = req[a] /\ req[a].id \in Ids /\ req[a].id # i
                BY <1>1, <2>3, <2>7, <3>2 DEF Moved, Request
            <4>2. Holds(req[a], disputed)
                BY <2>7, <4>1 DEF RowInv
            <4>3. users'[req[a].id] = users[req[a].id] /\ link'[req[a].id] = link[req[a].id]
                BY <1>2, <1>5, <4>1
            <4> DEFINE b == req[a]
            <4>4. Holds(b, disputed') /\ users'[b.id] = users[b.id] /\ link'[b.id] = link[b.id]
                BY <1>7, <4>2, <4>3, HoldsOn
            <4>5. req'[a] = b
                BY <4>1
            <4> HIDE DEF b
            <4> QED
                BY <4>4, <4>5 DEF Holds, Adopting, Named, HeldName, NameOf, Booting
        <3> QED
            BY <3>1, <3>2
    <2>8. ASSUME NEW a \in Requests, NEW o \in Requests, a # o,
                 req'[a].id # Null, req'[a].id = req'[o].id
          PROVE  users'[req'[a].id] # Null
        <3>1. a # r /\ o # r
            BY <1>1, <2>3, <2>8 DEF Moved, Same
        <3>2. req'[a].id \in Ids /\ users[req'[a].id] # Null
            BY <1>1, <2>8, <3>1 DEF Moved, RowInv, Request
        <3> QED
            BY <1>5, <3>2
    <2>9. ASSUME NEW a \in Requests
          PROVE  FirstOfName(req[a])'
        <3>1. req'[a].op = "create" /\ req'[a].name \notin disputed'
                 /\ req'[a].pc \in {"find", "insert", "link"} => Found(req'[a].name) = {}
            BY <1>1, <1>7, <1>8 DEF RowInv, Moved, FirstOfName
        <3> QED
            BY <2>4, <3>1 DEF FirstOfName, Found
    <2>10. OneAccountPerName'
        <3>1. OneAccountPerName
            BY DEF RowInv
        <3> QED
            BY <1>2, <1>5, <1>7, <2>1, <3>1 DEF OneAccountPerName
    <2> QED
        BY <2>5, <2>6, <2>7, <2>8, <2>9, <2>10 DEF RowInv
<1> QED
    BY <1>9, <1>10

LEMMA LinkRows ==
    ASSUME AccountsTypeOK, CarryInv, OverlapInv, RowInv, NEW r \in Requests, Link(r)
    PROVE  RowInv'
<1> DEFINE q == req'[r]  p == req[r]  i == p.id
<1>1. Moved(r) /\ Same(p, q) /\ i \in Ids
    BY LinkFacts
<1>2. /\ UNCHANGED <<users, tokens, granted, misdealt>>
      /\ link' \in [Ids -> Statuses \cup {"none"}]
      /\ link'[i] = "active" /\ \A u \in Ids \ {i} : link'[u] = link[u]
    BY <1>1 DEF Link, Quietly, AccountsTypeOK, Statuses
<1>3. p.pc # "insert"
    BY DEF Link
<1>4. Holds(p, disputed) /\ users[i] # Null
    BY <1>1, <1>3, HeldRow
<1>5. /\ \A t \in Tokens : tokens[t] # Null => tokens[t].user \in Ids
      /\ misdealt \subseteq Ids
    BY DEF AccountsTypeOK, TokenRows
<1>6. CASE link[i] # "none"
    <2>1. Fits(r)
        <3>1. CASE p.pc = "link" /\ q.pc = "member"
            <4>1. users[i].name = NameOf(p) /\ NameOf(q) = NameOf(p)
                BY <1>1, <1>4, <3>1 DEF Holds, Adopting, Named, HeldName, NameOf, Booting, Same, Alike
            <4>2. Holds(q, disputed')
                BY <1>1, <1>4, <1>6, <3>1, <4>1 DEF Holds, Adopting, HeldName, Same
            <4> QED
                BY <1>1, <1>4, <3>1, <4>2 DEF Fits, Same
        <3>2. CASE p.pc = "relink" /\ q.pc \in {"status", "reply"}
            BY <1>1, <1>6, <3>2, OnFits, AccountsAssumption DEF Same
        <3> QED
            BY <3>1, <3>2, LinkFacts
    <2>2. \A u \in Ids : link'[u] = "none" <=> link[u] = "none"
        BY <1>2, <1>6
    <2> HIDE DEF q, p, i
    <2> QED
        BY <1>1, <1>2, <1>5, <2>1, <2>2, RowsKept DEF RowInv
<1>7. CASE link[i] = "none"
    <2>1. \/ p.op = "create" /\ p.pc = "link"
          \/ p.op = "members" /\ p.pc = "relink" /\ p.name \in disputed
        BY <1>3, <1>4, <1>7, LinkFacts DEF Holds, Adopting
    <2>2. /\ q.pc \in {"member", "reply"} /\ q.id = i /\ q.op \in {"create", "members"}
          /\ q.pc = "member" => q.op = "create"
          /\ q.name = p.name
        BY <1>1, <2>1, LinkFacts DEF Same, Alike
    <2>3. users[i].name = p.name /\ i # AdminId
        BY <1>1, <1>4, <1>7, <2>1 DEF Holds, Adopting, Named, HeldName, NameOf, Booting, RowInv
    <2>5. disputed \subseteq disputed'
        BY <1>1 DEF Moved
    <2>6. p.name \notin disputed => Found(p.name) = {}
        BY <2>1 DEF RowInv, FirstOfName
    <2>7. \A n : n # p.name => Found(n)' = Found(n)
        BY <1>1, <1>2, <2>3 DEF Found
    <2>8. link'[AdminId] # "none" /\ users'[AdminId] # Null /\ users'[AdminId].name = Admin
        BY <1>2, <2>3, AccountsAssumption DEF RowInv
    <2>9. /\ \A u \in Ids : link'[u] # "none" => users'[u] # Null
          /\ \A u \in Ids : granted'[u] # Null => link'[u] # "none"
          /\ \A t \in Tokens : tokens'[t] # Null => link'[tokens'[t].user] # "none"
          /\ \A u \in misdealt' : link'[u] # "none"
        <3>1. \A u \in Ids : link[u] # "none" => link'[u] # "none"
            BY <1>2
        <3> QED
            BY <1>2, <1>4, <1>5, <3>1 DEF RowInv
    <2>10. ASSUME NEW a \in Requests, req'[a].id # Null
           PROVE  Holds(req[a], disputed)'
        <3>1. CASE a = r
            <4>1. /\ q.pc \in {"member", "reply"} /\ q.id = i /\ link'[i] # "none"
                  /\ users'[i] # Null /\ users'[i].name = HeldName(q)
                BY <1>2, <1>4, <2>2, <2>3 DEF HeldName, NameOf, Booting
            <4> QED
                BY <3>1, <4>1 DEF Holds, Adopting, NameOf, HeldName, Booting
        <3>2. CASE a # r
            <4> DEFINE b == req[a]
            <4>1. req'[a] = b /\ b.id \in Ids /\ b.id # Null
                BY <1>1, <2>10, <3>2 DEF Moved, Request
            <4>2. Holds(b, disputed')
                BY <2>5, <4>1, HoldsOn DEF RowInv
            <4>3. users'[b.id] = users[b.id] /\ (link[b.id] # "none" => link'[b.id] # "none")
                BY <1>2, <4>1
            <4> HIDE DEF b
            <4> QED
                BY <4>1, <4>2, <4>3 DEF Holds, Adopting, Named, HeldName, NameOf, Booting
        <3> QED
            BY <3>1, <3>2
    <2>11. ASSUME NEW a \in Requests, NEW o \in Requests, a # o,
                  req'[a].id # Null, req'[a].id = req'[o].id
           PROVE  users'[req'[a].id] # Null
        <3>1. req'[a].id = req[a].id /\ req'[o].id = req[o].id
            BY <1>1 DEF Moved, Same
        <3> QED
            BY <1>2, <2>11, <3>1 DEF RowInv
    <2>12. ASSUME NEW a \in Requests
           PROVE  FirstOfName(req[a])'
        <3>1. CASE a = r
            BY <2>2, <3>1 DEF FirstOfName
        <3>2. CASE a # r
            <4>1. req'[a] = req[a]
                BY <1>1, <3>2 DEF Moved
            <4>2. SUFFICES ASSUME req[a].op = "create", req[a].name \notin disputed',
                                  req[a].pc \in {"find", "insert", "link"},
                                  NEW n, n = req[a].name
                           PROVE  Found(n)' = {}
                BY <4>1 DEF FirstOfName, Found
            <4>3. Found(n) = {}
                BY <2>5, <4>2 DEF RowInv, FirstOfName
            <4>4. p.name \in Writes(p) /\ n \in Writes(req[a])
                BY <2>1, <4>2 DEF Writes, Changing
            <4>5. n # p.name
                BY <2>5, <3>2, <4>2, <4>4 DEF OverlapInv
            <4> QED
                BY <2>7, <4>3, <4>5
        <3> QED
            BY <3>1, <3>2
    <2>13. OneAccountPerName'
        <3>1. OneAccountPerName
            BY DEF RowInv
        <3>2. SUFFICES ASSUME NEW u \in Ids, NEW v \in Ids, u # v, link'[u] # "none",
                              link'[v] # "none", users[u].name = users[v].name
                       PROVE  users[u].name \in disputed'
            BY <1>2 DEF OneAccountPerName
        <3>3. CASE u # i /\ v # i
            BY <1>2, <2>5, <3>1, <3>2, <3>3 DEF OneAccountPerName
        <3>4. CASE u = i
            <4>1. link[v] # "none" /\ users[v] # Null /\ users[v].name = p.name
                BY <1>2, <2>3, <3>2, <3>4 DEF RowInv
            <4> QED
                BY <2>3, <2>5, <2>6, <3>4, <4>1 DEF Found
        <3>5. CASE v = i
            <4>1. link[u] # "none" /\ users[u] # Null /\ users[u].name = p.name
                BY <1>2, <2>3, <3>2, <3>5 DEF RowInv
            <4> QED
                BY <2>3, <2>5, <2>6, <3>5, <4>1 DEF Found
        <3> QED
            BY <3>3, <3>4, <3>5
    <2> QED
        BY <2>8, <2>9, <2>10, <2>11, <2>12, <2>13 DEF RowInv
<1> QED
    BY <1>6, <1>7

LEMMA QuietRows ==
    ASSUME AccountsTypeOK, CarryInv, RowInv, HeadInv, NEW r \in Requests,
           LookUp(r) \/ CheckToken(r) \/ ReadUser(r) \/ Bind(r) \/ List(r) \/ Fail(r)
    PROVE  RowInv'
<1>1. CASE req'[r] = Idle
    <2>1. Moved(r) /\ UNCHANGED <<users, link, tokens, granted, misdealt>>
        BY LookUpFacts, CheckTokenFacts, ReadUserFacts, BindFacts, ListFacts, FailFacts DEF Still
    <2> QED
        BY <1>1, <2>1, IdleFits, RowsStill
<1>2. CASE LookUp(r) /\ req'[r] # Idle
    <2> DEFINE q == req'[r]
    <2>1. /\ q.op = "login" /\ q.pc = "bind" /\ q.id \in Found(q.name)
        BY <1>2, LookUpFacts DEF Alike
    <2>2. Holds(q, disputed') /\ link[q.id] # "none"
        BY <2>1 DEF Found, Holds, Adopting, Named, HeldName
    <2>3. Fits(r)
        BY <2>1, <2>2 DEF Fits, Found
    <2> QED
        BY <1>2, <2>3, LookUpFacts, RowsStill DEF Still
<1>3. CASE CheckToken(r) /\ req'[r] # Idle
    <2>1. req'[r].id = Null /\ req'[r].op = "refresh"
        BY <1>3, CheckTokenFacts DEF Moved, Carries, Loose, Same, Alike
    <2> QED
        BY <1>3, <2>1, LooseFits, CheckTokenFacts, RowsStill DEF Still
<1>4. CASE ReadUser(r)
    <2> DEFINE q == req'[r]
    <2>1. /\ q.op = "refresh" /\ q.pc = "bind" /\ link[q.id] # "none" /\ users[q.id] # Null
        BY <1>4, ReadUserFacts DEF Alike
    <2>2. Holds(q, disputed')
        BY <2>1 DEF Holds, Adopting, Named, HeldName
    <2>3. Fits(r)
        BY <2>1, <2>2 DEF Fits
    <2> QED
        BY <1>4, <2>3, ReadUserFacts, RowsStill DEF Still
<1>5. CASE Bind(r) /\ req'[r] # Idle
    <2>1. Fits(r)
        BY <1>5, BindFacts, OnFits, AccountsAssumption DEF Same
    <2> QED
        BY <1>5, <2>1, BindFacts, RowsStill DEF Still
<1>6. CASE List(r)
    <2>1. Fits(r)
        BY <1>6, ListFacts, OnFits, AccountsAssumption DEF Same
    <2> QED
        BY <1>6, <2>1, ListFacts, RowsStill DEF Still
<1> QED
    BY <1>1, <1>2, <1>3, <1>4, <1>5, <1>6, FailFacts

\* The steps that write memberships only.
LEMMA PlaceRows ==
    ASSUME AccountsTypeOK, CarryInv, RowInv, NEW r \in Requests,
           Member(r) \/ Wipe(r) \/ Grant(r) \/ Default(r)
    PROVE  RowInv'
<1>1. UNCHANGED <<users, link, tokens, granted, misdealt>>
    BY DEF Member, Wipe, Grant, Default, Quietly
<1>2. Moved(r)
    BY MemberFacts, WipeFacts, GrantFacts, DefaultFacts
<1>3. CASE Member(r) /\ req[r].op \in {"login", "refresh"}
    <2>1. Fits(r)
        BY <1>3, LooseFits, MemberFacts DEF Alike
    <2> QED
        BY <1>1, <1>2, <2>1, RowsStill
<1>4. CASE (Member(r) /\ req[r].op = "create") \/ Wipe(r) \/ Grant(r) \/ Default(r)
    <2>1. Fits(r)
        BY <1>2, <1>4, OnFits, MemberFacts, WipeFacts, GrantFacts, DefaultFacts,
           AccountsAssumption DEF Same
    <2> QED
        BY <1>1, <1>2, <2>1, RowsStill
<1> QED
    BY <1>3, <1>4, MemberFacts

\* The steps that write the status, the password or the answer.
LEMMA FieldRows ==
    ASSUME AccountsTypeOK, CarryInv, RowInv, NEW r \in Requests,
           SetStatus(r) \/ SetPassword(r) \/ Reply(r)
    PROVE  RowInv'
<1> DEFINE i == req[r].id
<1>1. Moved(r) /\ i \in Ids /\ req[r].pc \in {"status", "reset", "reply"}
    BY SetStatusFacts, SetPasswordFacts, ReplyFacts
<1>2. users[i] # Null /\ users[i] \in UserRows /\ link[i] # "none"
    BY <1>1, HeldRow DEF Holds, Adopting
<1>3. Fits(r)
    <2>1. CASE Reply(r)
        BY <2>1, IdleFits, ReplyFacts
    <2>2. CASE SetStatus(r) \/ SetPassword(r)
        BY <1>1, <2>2, OnFits, SetStatusFacts, SetPasswordFacts, AccountsAssumption DEF Same
    <2> QED
        BY <2>1, <2>2
<1>4. \A u \in Ids : /\ users'[u] = Null <=> users[u] = Null
                     /\ users[u] # Null => users'[u].name = users[u].name
    <2>1. CASE SetStatus(r)
        <3> DEFINE row == [users[i] EXCEPT !.status = req[r].status]
        <3>1. row \in UserRows /\ row.name = users[i].name
            BY <1>1, <1>2, Records DEF UserRows, Request
        <3>2. users' = [users EXCEPT ![i] = row]
            BY <2>1 DEF SetStatus
        <3> HIDE DEF row
        <3> QED
            BY <1>1, <1>2, <3>1, <3>2, AccountsAssumption DEF AccountsTypeOK
    <2>2. CASE SetPassword(r)
        <3> DEFINE row == [users[i] EXCEPT !.password = req[r].password]
        <3>1. row \in UserRows /\ row.name = users[i].name
            BY <1>1, <1>2, <2>2, SetPasswordFacts, Records DEF UserRows
        <3>2. users' = [users EXCEPT ![i] = row]
            BY <2>2 DEF SetPassword
        <3> HIDE DEF row
        <3> QED
            BY <1>1, <1>2, <3>1, <3>2, AccountsAssumption DEF AccountsTypeOK
    <2>3. CASE Reply(r)
        BY <2>3 DEF Reply, tableVars
    <2> QED
        BY <2>1, <2>2, <2>3
<1>5. \A u \in Ids : link'[u] = "none" <=> link[u] = "none"
    <2>1. CASE SetStatus(r)
        <3>1. req[r].status # "none"
            BY Records DEF Request, Statuses
        <3> QED
            BY <1>1, <1>2, <2>1, <3>1 DEF SetStatus, AccountsTypeOK
    <2>2. CASE SetPassword(r) \/ Reply(r)
        BY <2>2 DEF SetPassword, Reply, tableVars
    <2> QED
        BY <2>1, <2>2
<1>6. \A u \in Ids : granted'[u] # Null => granted[u] # Null \/ link[u] # "none"
    BY <1>1, <1>2 DEF SetStatus, SetPassword, Reply, Quietly, AccountsTypeOK
<1>7. tokens' = tokens /\ misdealt' = misdealt
    BY DEF SetStatus, SetPassword, Reply, Quietly, tableVars
<1>8. /\ \A t \in Tokens : tokens[t] # Null => tokens[t].user \in Ids
      /\ misdealt \subseteq Ids
    BY DEF AccountsTypeOK, TokenRows
<1> QED
    BY <1>1, <1>3, <1>4, <1>5, <1>6, <1>7, <1>8, RowsKept DEF RowInv

\* What a revocation and a new token make of the table of tokens.
LEMMA RevokeToken ==
    ASSUME AccountsTypeOK, CarryInv, HeadInv, NEW r \in Requests, Revoke(r)
    PROVE  /\ tokens' \in [Tokens -> TokenRows \cup {Null}]
           /\ req[r].token \in Tokens /\ tokens[req[r].token] # Null
           /\ tokens'[req[r].token] # Null /\ tokens'[req[r].token].state = "revoked"
           /\ tokens'[req[r].token].user = tokens[req[r].token].user
           /\ tokens'[req[r].token].family = tokens[req[r].token].family
           /\ \A t \in Tokens \ {req[r].token} : tokens'[t] = tokens[t]
<1> DEFINE t == req[r].token
           row == [tokens[t] EXCEPT !.state = "revoked"]
<1>1. t \in Tokens /\ tokens[t] # Null
    BY RevokeFacts, Records DEF HeadInv
<1>2. tokens[t] \in TokenRows
    BY <1>1 DEF AccountsTypeOK
<1>3. row \in TokenRows /\ row.state = "revoked" /\ row.user = tokens[t].user
      /\ row.family = tokens[t].family
    BY <1>2 DEF TokenRows
<1>4. tokens' = [tokens EXCEPT ![t] = row]
    BY DEF Revoke
<1> HIDE DEF row
<1> QED
    BY <1>1, <1>3, <1>4, AccountsAssumption DEF AccountsTypeOK

LEMMA IssueToken ==
    ASSUME AccountsTypeOK, CarryInv, NEW r \in Requests, Issue(r)
    PROVE  /\ tokens' \in [Tokens -> TokenRows \cup {Null}]
           /\ \E t \in Tokens :
                 /\ tokens[t] = Null /\ tokens'[t] # Null
                 /\ tokens'[t].user = req[r].id /\ tokens'[t].state = "live"
                 /\ tokens'[t].family = IF req[r].op = "login" THEN t ELSE req[r].family
                 /\ \A s \in Tokens \ {t} : tokens'[s] = tokens[s]
<1>1. PICK t \in Tokens :
         /\ tokens[t] = Null
         /\ tokens' = [tokens EXCEPT ![t] =
                          [user |-> req[r].id, state |-> "live",
                           family |-> IF req[r].op = "login" THEN t ELSE req[r].family]]
    BY DEF Issue
<1> DEFINE row == [user |-> req[r].id, state |-> "live",
                   family |-> IF req[r].op = "login" THEN t ELSE req[r].family]
<1>2. row \in TokenRows
    BY IssueFacts, Records DEF TokenRows
<1>3. /\ row.user = req[r].id /\ row.state = "live"
      /\ row.family = IF req[r].op = "login" THEN t ELSE req[r].family
    OBVIOUS
<1>4. tokens' = [tokens EXCEPT ![t] = row]
    BY <1>1
<1> HIDE DEF row
<1>5. tokens'[t] = row /\ row # Null
    BY <1>2, <1>4, AccountsAssumption DEF AccountsTypeOK
<1> QED
    BY <1>1, <1>2, <1>3, <1>4, <1>5 DEF AccountsTypeOK

LEMMA TokenRowsKept ==
    ASSUME AccountsTypeOK, CarryInv, RowInv, HeadInv, NEW r \in Requests, Revoke(r) \/ Issue(r)
    PROVE  RowInv'
<1>1. Moved(r) /\ UNCHANGED <<users, link, granted>>
    BY RevokeFacts, IssueFacts DEF Revoke, Issue
<1>2. \A t \in Tokens : tokens[t] # Null => tokens[t].user \in Ids
    BY DEF AccountsTypeOK, TokenRows
<1>3. CASE Revoke(r)
    <2>1. Fits(r)
        <3>1. CASE req[r].op = "logout"
            BY <1>3, <3>1, RevokeFacts, IdleFits
        <3>2. CASE req[r].op = "refresh"
            <4>1. req[r].id # Null
                BY <1>3, <3>2, RevokeFacts, Records DEF Carries, Loose
            <4> QED
                BY <1>1, <1>3, <3>2, <4>1, RevokeFacts, OnFits DEF Same
        <3> QED
            BY <1>3, <3>1, <3>2, RevokeFacts
    <2>2. misdealt' = misdealt /\ misdealt \subseteq Ids
        BY <1>3 DEF Revoke, AccountsTypeOK
    <2>3. \A t \in Tokens : tokens'[t] # Null => tokens'[t].user \in Ids /\ link[tokens'[t].user] # "none"
        BY <1>2, <1>3, RevokeToken DEF RowInv
    <2> QED
        BY <1>1, <2>1, <2>2, <2>3, RowsKept DEF RowInv
<1>4. CASE Issue(r)
    <2>1. Fits(r)
        BY <1>4, IssueFacts, IdleFits
    <2>2. req[r].id \in Ids /\ link[req[r].id] # "none"
        BY <1>4, IssueFacts, HeldRow DEF Holds, Adopting
    <2>3. misdealt' \subseteq misdealt \cup {req[r].id} /\ misdealt \subseteq Ids
        BY <1>4 DEF Issue, AccountsTypeOK
    <2>4. \A t \in Tokens : tokens'[t] # Null => tokens'[t].user \in Ids /\ link[tokens'[t].user] # "none"
        BY <1>2, <1>4, <2>2, IssueToken DEF RowInv
    <2> QED
        BY <1>1, <2>1, <2>2, <2>3, <2>4, RowsKept DEF RowInv
<1> QED
    BY <1>3, <1>4

-----------------------------------------------------------------------------
Steps(r) ==
    \/ Arrive(r)
    \/ Look(r) \/ Find(r) \/ Insert(r) \/ Link(r) \/ Member(r)
    \/ Wipe(r) \/ Grant(r) \/ SetStatus(r) \/ SetPassword(r) \/ Reply(r)
    \/ LookUp(r) \/ CheckToken(r) \/ ReadUser(r) \/ Bind(r)
    \/ List(r) \/ Default(r) \/ Revoke(r) \/ Issue(r)
    \/ Fail(r)

LEMMA StepsMove ==
    ASSUME AccountsTypeOK, CarryInv, RowInv, HeadInv, NEW r \in Requests, Steps(r)
    PROVE  Moved(r) /\ (Remembered(r) \/ Fail(r))
    BY ArriveFacts, LookFacts, FindFacts, InsertFacts, LinkFacts, MemberFacts, WipeFacts,
       GrantFacts, SetStatusFacts, SetPasswordFacts, ReplyFacts, LookUpFacts, CheckTokenFacts,
       ReadUserFacts, BindFacts, ListFacts, DefaultFacts, RevokeFacts, IssueFacts, FailFacts
    DEF Steps

LEMMA StepsRows ==
    ASSUME AccountsTypeOK, CarryInv, OverlapInv, RowInv, HeadInv, NEW r \in Requests, Steps(r)
    PROVE  RowInv'
    BY ArriveRows, LookRows, FindRows, InsertRows, LinkRows, QuietRows, PlaceRows, FieldRows,
       TokenRowsKept
    DEF Steps

\* The counters and the histories that are sets.
LEMMA StepsCount ==
    ASSUME AccountsTypeOK, CarryInv, RowInv, HeadInv, NEW r \in Requests, Steps(r)
    PROVE  /\ count' \in 0 .. MaxCalls /\ faults' \in 0 .. MaxFaults
           /\ misdealt' \subseteq Ids /\ out' \subseteq Tokens
           /\ granted' \in [Ids -> Answers \cup {Null}]
<1>1. /\ count \in 0 .. MaxCalls /\ faults \in 0 .. MaxFaults /\ misdealt \subseteq Ids
      /\ out \subseteq Tokens /\ granted \in [Ids -> Answers \cup {Null}]
    BY DEF AccountsTypeOK
<1>2. CASE Arrive(r)
    BY <1>1, <1>2, ArriveFacts DEF Still, Arrive, Start
<1>3. CASE Fail(r)
    BY <1>1, <1>3, FailFacts
<1>4. CASE Look(r) \/ Find(r) \/ LookUp(r) \/ CheckToken(r) \/ ReadUser(r) \/ Bind(r) \/ List(r)
    BY <1>1, <1>4 DEF Look, Find, LookUp, CheckToken, ReadUser, Bind, List, Refused, Quietly
<1>5. CASE \/ Insert(r) \/ Link(r) \/ Member(r) \/ Wipe(r) \/ Grant(r) \/ SetStatus(r)
           \/ SetPassword(r) \/ Default(r)
    BY <1>1, <1>5 DEF Insert, Link, Member, Wipe, Grant, SetStatus, SetPassword, Default, Quietly
<1>6. CASE Reply(r)
    <2> DEFINE q == req[r]
               new == [status |-> IF q.op \in {"create", "status"} THEN q.status ELSE Last(q.id).status,
                       link |-> IF q.op \in {"create", "status"} THEN q.status
                                ELSE IF q.op = "members" THEN "active" ELSE Last(q.id).link,
                       password |-> IF q.op \in {"create", "reset"} THEN q.password
                                                                    ELSE Last(q.id).password,
                       want |-> IF q.op \in {"create", "members"} THEN q.want ELSE Last(q.id).want]
    <2>1. q \in Request /\ q.id \in Ids
        BY <1>6, ReplyFacts, Records
    <2>2. Last(q.id) \in Answers
        BY <1>1, <2>1 DEF Last, Answers, Statuses
    <2>3. new \in Answers
        BY <2>1, <2>2 DEF Answers, Request, Statuses
    <2>4. granted' = [granted EXCEPT ![q.id] = new]
        BY <1>6 DEF Reply
    <2>5. UNCHANGED <<count, faults, misdealt, out>>
        BY <1>6 DEF Reply
    <2> HIDE DEF new
    <2>6. granted' \in [Ids -> Answers \cup {Null}]
        BY <1>1, <2>1, <2>3, <2>4
    <2> QED
        BY <1>1, <2>5, <2>6
<1>7. CASE Revoke(r)
    <2>1. req[r].op = "logout" => req[r].family \in Tokens
        BY Records
    <2> QED
        BY <1>1, <1>7, <2>1 DEF Revoke
<1>8. CASE Issue(r)
    BY <1>1, <1>8, IssueFacts DEF Issue
<1> QED
    BY <1>2, <1>3, <1>4, <1>5, <1>6, <1>7, <1>8 DEF Steps

LEMMA StepsTables ==
    ASSUME AccountsTypeOK, CarryInv, RowInv, HeadInv, NEW r \in Requests, Steps(r)
    PROVE  /\ users' \in [Ids -> UserRows \cup {Null}]
           /\ link' \in [Ids -> Statuses \cup {"none"}]
           /\ members' \in [Ids -> SUBSET Workspaces]
           /\ tokens' \in [Tokens -> TokenRows \cup {Null}]
<1>1. /\ users \in [Ids -> UserRows \cup {Null}] /\ link \in [Ids -> Statuses \cup {"none"}]
      /\ members \in [Ids -> SUBSET Workspaces] /\ tokens \in [Tokens -> TokenRows \cup {Null}]
    BY DEF AccountsTypeOK
<1>2. CASE Arrive(r) \/ Look(r) \/ Find(r) \/ LookUp(r) \/ CheckToken(r) \/ ReadUser(r)
           \/ Bind(r) \/ List(r) \/ Fail(r) \/ Reply(r)
    <2>1. UNCHANGED <<users, link, members, tokens>>
        BY <1>2, ArriveFacts, LookFacts, FindFacts, LookUpFacts, CheckTokenFacts, ReadUserFacts,
           BindFacts, ListFacts, FailFacts DEF Still, Reply, tableVars
    <2> QED
        BY <1>1, <2>1
<1>3. CASE Insert(r)
    BY <1>1, <1>3, InsertRow DEF Insert
<1>4. CASE Link(r)
    BY <1>1, <1>4, LinkFacts DEF Link, Statuses
<1>5. CASE Member(r) \/ Wipe(r) \/ Grant(r) \/ Default(r)
    <2>1. UNCHANGED <<users, link, tokens>>
        BY <1>5 DEF Member, Wipe, Grant, Default
    <2>2. \E w \in SUBSET Workspaces : members' = [members EXCEPT ![req[r].id] = w]
        <3>1. CASE Member(r)
            <4>1. req[r].op = "create" => Head(req[r].list) \in Workspaces
                BY <3>1, MemberFacts, Records DEF Carries, Listed, Request
            <4>2. (IF Booting(req[r]) THEN Home ELSE Head(req[r].list)) \in Workspaces
                BY <3>1, <4>1, MemberFacts, AccountsAssumption DEF Booting
            <4>3. members[req[r].id] \in SUBSET Workspaces
                BY <1>1, <3>1, MemberFacts
            <4> QED
                BY <3>1, <4>2, <4>3 DEF Member
        <3>2. CASE Wipe(r)
            BY <3>2 DEF Wipe
        <3>3. CASE Grant(r)
            <4>1. Head(req[r].list) \in Workspaces
                BY <3>3, GrantFacts, Records DEF Request
            <4>2. members[req[r].id] \in SUBSET Workspaces
                BY <1>1, <3>3, GrantFacts
            <4> QED
                BY <3>3, <4>1, <4>2 DEF Grant
        <3>4. CASE Default(r)
            <4>1. members[req[r].id] \in SUBSET Workspaces
                BY <1>1, <3>4, DefaultFacts
            <4> QED
                BY <3>4, <4>1, AccountsAssumption DEF Default
        <3> QED
            BY <1>5, <3>1, <3>2, <3>3, <3>4
    <2> QED
        BY <1>1, <2>1, <2>2
<1>6. CASE SetStatus(r)
    <2> DEFINE i == req[r].id  row == [users[i] EXCEPT !.status = req[r].status]
    <2>1. i \in Ids /\ users[i] \in UserRows /\ req[r].status \in Statuses
        BY <1>6, SetStatusFacts, HeldRow, Records DEF Request
    <2>2. row \in UserRows
        BY <2>1 DEF UserRows
    <2>3. users' = [users EXCEPT ![i] = row]
        BY <1>6 DEF SetStatus
    <2> HIDE DEF row
    <2> QED
        BY <1>1, <1>6, <2>1, <2>2, <2>3 DEF SetStatus
<1>7. CASE SetPassword(r)
    <2> DEFINE i == req[r].id  row == [users[i] EXCEPT !.password = req[r].password]
    <2>1. i \in Ids /\ users[i] \in UserRows /\ req[r].password \in Passwords
        BY <1>7, SetPasswordFacts, HeldRow, Records
    <2>2. row \in UserRows
        BY <2>1 DEF UserRows
    <2>3. users' = [users EXCEPT ![i] = row]
        BY <1>7 DEF SetPassword
    <2> HIDE DEF row
    <2> QED
        BY <1>1, <1>7, <2>1, <2>2, <2>3 DEF SetPassword
<1>8. CASE Revoke(r)
    BY <1>1, <1>8, RevokeToken DEF Revoke
<1>9. CASE Issue(r)
    BY <1>1, <1>9, IssueToken DEF Issue
<1> QED
    BY <1>2, <1>3, <1>4, <1>5, <1>6, <1>7, <1>8, <1>9 DEF Steps

LEMMA StepsTyped ==
    ASSUME AccountsTypeOK, CarryInv, RowInv, HeadInv, NEW r \in Requests, Steps(r)
    PROVE  AccountsTypeOK'
<1>1. /\ req' \in [Requests -> Request] /\ met' \subseteq Requests
      /\ disputed' \subseteq Names /\ raced' \subseteq Tokens
    BY StepsMove DEF Moved
<1> QED
    BY <1>1, StepsCount, StepsTables DEF AccountsTypeOK

-----------------------------------------------------------------------------
\* What the heads of the families ask of one request.
Tracks(q) ==
    /\ q.op \in {"refresh", "logout"} =>
          tokens[q.token] # Null /\ tokens[q.token].family = q.family
    /\ q.op = "refresh" /\ q.family \notin raced =>
          /\ q.pc \in {"user", "bind", "revoke"} =>
                q.family \notin out /\ Unrevoked(q.family) \subseteq {q.token}
          /\ q.pc = "issue" => q.family \notin out /\ Unrevoked(q.family) = {}

LEMMA HeadsStill ==
    ASSUME HeadInv, NEW r \in Requests, Moved(r), tokens' = tokens, out' = out, Tracks(req'[r])
    PROVE  HeadInv'
<1>1. raced \subseteq raced'
    BY DEF Moved
<1>2. \A f : Unrevoked(f)' = Unrevoked(f)
    BY DEF Unrevoked
<1>3. \A a \in Requests : Tracks(req'[a])
    BY DEF Moved, HeadInv, Tracks
<1>4. \A a \in Requests : req'[a].op \in {"refresh", "logout"} =>
          tokens'[req'[a].token] # Null /\ tokens'[req'[a].token].family = req'[a].family
    BY <1>3 DEF Tracks
<1>5. ASSUME NEW a \in Requests, req'[a].op = "refresh", req'[a].family \notin raced'
      PROVE  /\ req'[a].pc \in {"user", "bind", "revoke"} =>
                   req'[a].family \notin out' /\ Unrevoked(req[a].family)' \subseteq {req'[a].token}
             /\ req'[a].pc = "issue" => req'[a].family \notin out' /\ Unrevoked(req[a].family)' = {}
    <2>1. Unrevoked(req[a].family)' = Unrevoked(req'[a].family)
        BY DEF Unrevoked
    <2> QED
        BY <1>1, <1>3, <1>5, <2>1 DEF Tracks
<1>6. \A t \in Tokens : tokens'[t] # Null => tokens'[tokens'[t].family] # Null
    BY DEF HeadInv
<1>7. \A f \in out' : tokens'[f] # Null
    BY DEF HeadInv
<1>8. \A f \in Tokens \ raced' : /\ \A s, t \in Unrevoked(f)' : s = t
                                 /\ f \in out' => Unrevoked(f)' = {}
    BY <1>1, <1>2 DEF HeadInv
<1> QED
    BY <1>4, <1>5, <1>6, <1>7, <1>8 DEF HeadInv

LEMMA AlikeTracks ==
    ASSUME HeadInv, NEW r \in Requests, Alike(req[r], req'[r]),
           \/ req'[r].op # "refresh"
           \/ req'[r].pc \notin {"user", "bind", "revoke", "issue"}
           \/ /\ req[r].pc \in {"user", "bind", "revoke"}
              /\ req'[r].pc \in {"user", "bind", "revoke"}
    PROVE  Tracks(req'[r])
    BY DEF HeadInv, Tracks, Alike

LEMMA ArriveHeads ==
    ASSUME AccountsTypeOK, RowInv, HeadInv, NEW r \in Requests, Arrive(r)
    PROVE  HeadInv'
<1> DEFINE q == req'[r]
<1>1. Tracks(q)
    <2>1. CASE q.op \notin {"refresh", "logout"}
        BY <2>1 DEF Tracks
    <2>2. CASE /\ <<q.op, q.pc>> \in {<<"refresh", "find">>, <<"logout", "revoke">>}
               /\ tokens[q.token] # Null /\ q.family = tokens[q.token].family
        BY <2>2 DEF Tracks
    <2> HIDE DEF q
    <2> QED
        BY <2>1, <2>2, ArriveFacts DEF q
<1> QED
    BY <1>1, ArriveFacts, HeadsStill DEF Still

LEMMA CheckTokenHeads ==
    ASSUME AccountsTypeOK, CarryInv, HeadInv, NEW r \in Requests, CheckToken(r)
    PROVE  HeadInv'
<1> DEFINE q == req'[r]  p == req[r]
<1>1. CASE q = Idle
    <2>1. Tracks(q)
        BY <1>1, IdleFields DEF Tracks
    <2> QED
        BY <2>1, CheckTokenFacts, HeadsStill DEF Still
<1>2. CASE Same(p, q) /\ q.pc = "user" /\ tokens[p.token].state = "live"
    <2>1. p.op = "refresh" /\ p.token \in Tokens /\ p.family \in Tokens
        BY CheckTokenFacts, Records
    <2>2. tokens[p.token] # Null /\ tokens[p.token].family = p.family
        BY <2>1 DEF HeadInv
    <2>3. p.token \in Unrevoked(p.family)
        BY <1>2, <2>1, <2>2 DEF Unrevoked
    <2>4. p.family \notin raced => p.family \notin out /\ Unrevoked(p.family) \subseteq {p.token}
        BY <2>1, <2>3 DEF HeadInv
    <2>5. Tracks(q)
        BY <1>2, <2>1, <2>2, <2>4 DEF Tracks, Same, Alike
    <2> QED
        BY <2>5, CheckTokenFacts, HeadsStill DEF Still
<1> QED
    BY <1>1, <1>2, CheckTokenFacts

LEMMA OtherHeads ==
    ASSUME AccountsTypeOK, CarryInv, RowInv, HeadInv, NEW r \in Requests,
           \/ Look(r) \/ Find(r) \/ Insert(r) \/ Link(r) \/ Member(r) \/ Wipe(r) \/ Grant(r)
           \/ SetStatus(r) \/ SetPassword(r) \/ Reply(r) \/ LookUp(r) \/ ReadUser(r) \/ Bind(r)
           \/ List(r) \/ Default(r) \/ Fail(r)
    PROVE  HeadInv'
<1>1. Moved(r)
    BY StepsMove DEF Steps
<1>2. tokens' = tokens /\ out' = out
    <2>1. CASE Look(r) \/ Find(r) \/ LookUp(r) \/ ReadUser(r) \/ Bind(r) \/ List(r) \/ Fail(r)
        BY <2>1, LookFacts, FindFacts, LookUpFacts, ReadUserFacts, BindFacts, ListFacts, FailFacts
           DEF Still
    <2>2. CASE \/ Insert(r) \/ Link(r) \/ Member(r) \/ Wipe(r) \/ Grant(r) \/ SetStatus(r)
               \/ SetPassword(r) \/ Reply(r) \/ Default(r)
        BY <2>2 DEF Insert, Link, Member, Wipe, Grant, SetStatus, SetPassword, Reply, Default,
                    Quietly, tableVars
    <2> QED
        BY <2>1, <2>2
<1>3. Tracks(req'[r])
    <2>1. CASE req'[r] = Idle
        BY <2>1, IdleFields DEF Tracks
    <2>2. CASE ReadUser(r)
        BY <2>2, ReadUserFacts, AlikeTracks
    <2>3. CASE Bind(r) /\ req'[r] # Idle
        BY <2>3, BindFacts, AlikeTracks DEF Same, Alike
    <2>4. CASE Look(r) /\ req'[r] # Idle
        BY <2>4, LookFacts, AlikeTracks DEF Same, Alike
    <2>5. CASE LookUp(r) /\ req'[r] # Idle
        BY <2>5, LookUpFacts, AlikeTracks DEF Alike
    <2>6. CASE Find(r) \/ Insert(r) \/ Link(r)
        BY <2>6, FindFacts, InsertFacts, LinkFacts, AlikeTracks DEF Same
    <2>7. CASE Member(r) \/ Wipe(r) \/ Grant(r)
        BY <2>7, MemberFacts, WipeFacts, GrantFacts, AlikeTracks DEF Same
    <2>8. CASE SetStatus(r) \/ SetPassword(r)
        BY <2>8, SetStatusFacts, SetPasswordFacts, AlikeTracks DEF Same
    <2>9. CASE List(r) \/ Default(r)
        BY <2>9, ListFacts, DefaultFacts, AlikeTracks DEF Same, Alike
    <2> QED
        BY <2>1, <2>2, <2>3, <2>4, <2>5, <2>6, <2>7, <2>8, <2>9, ReplyFacts, FailFacts
<1> QED
    BY <1>1, <1>2, <1>3, HeadsStill

\* Two requests that use one family are known to overlap.
LEMMA SharedFamily ==
    ASSUME AccountsTypeOK, CarryInv, OverlapInv, NEW r \in Requests, NEW o \in Requests, r # o,
           req[r].op \in {"refresh", "logout"}, req[o].op \in {"refresh", "logout"},
           req[r].family = req[o].family
    PROVE  req[r].family \in raced
<1>1. req[r].family # Null /\ req[o].family # Null
    BY DEF CarryInv, Carries
<1>2. req[r].family \in Uses(req[r]) /\ req[r].family \in Uses(req[o])
    BY <1>1 DEF Uses
<1> QED
    BY <1>2 DEF OverlapInv

LEMMA RevokeHeads ==
    ASSUME AccountsTypeOK, CarryInv, OverlapInv, HeadInv, NEW r \in Requests, Revoke(r)
    PROVE  HeadInv'
<1> DEFINE p == req[r]  c == p.token  k == p.family
<1>1. /\ Moved(r) /\ p.pc = "revoke" /\ p.op \in {"refresh", "logout"}
      /\ p.op = "logout" => req'[r] = Idle
      /\ p.op = "refresh" => Same(p, req'[r]) /\ req'[r].pc = "issue"
    BY RevokeFacts
<1>2. /\ c \in Tokens /\ tokens[c] # Null /\ tokens'[c] # Null /\ tokens'[c].state = "revoked"
      /\ tokens'[c].family = tokens[c].family
      /\ \A t \in Tokens \ {c} : tokens'[t] = tokens[t]
    BY RevokeToken
<1>3. tokens[c].family = k /\ k \in Tokens
    BY <1>1, Records DEF HeadInv
<1>4. /\ out' = IF p.op = "logout" /\ tokens[c].state # "revoked" THEN out \cup {k} ELSE out
      /\ raced \subseteq raced'
    BY <1>1 DEF Revoke, Moved
<1>5. ASSUME NEW f  PROVE  Unrevoked(f)' \subseteq Unrevoked(f) \ {c}
    BY <1>2 DEF Unrevoked
<1>6. \A t \in Tokens : tokens'[t] # Null => tokens'[tokens'[t].family] # Null
    <2>1. ASSUME NEW t \in Tokens, tokens'[t] # Null
          PROVE  tokens'[tokens'[t].family] # Null
        <3>1. tokens[t] # Null /\ tokens'[t].family = tokens[t].family
            BY <1>2, <2>1
        <3>2. tokens[t].family \in Tokens /\ tokens[tokens[t].family] # Null
            BY <3>1 DEF HeadInv, AccountsTypeOK, TokenRows
        <3> QED
            BY <1>2, <3>1, <3>2
    <2> QED
        BY <2>1
<1>7. \A f \in out' : tokens'[f] # Null
    <2>1. tokens[k] # Null /\ \A f \in out : f \in Tokens /\ tokens[f] # Null
        BY <1>2, <1>3 DEF HeadInv, AccountsTypeOK
    <2> QED
        BY <1>2, <1>3, <1>4, <2>1
<1>8. ASSUME NEW f \in Tokens \ raced'
      PROVE  /\ \A s, t \in Unrevoked(f)' : s = t
             /\ f \in out' => Unrevoked(f)' = {}
    <2>1. /\ \A s, t \in Unrevoked(f) : s = t
          /\ f \in out => Unrevoked(f) = {}
        BY <1>4, <1>8 DEF HeadInv
    <2>2. f = k /\ tokens[c].state # "revoked" => c \in Unrevoked(f)
        BY <1>2, <1>3 DEF Unrevoked
    <2> QED
        BY <1>4, <1>5, <2>1, <2>2
<1>9. ASSUME NEW a \in Requests, a # r
      PROVE  /\ req[a].op \in {"refresh", "logout"} =>
                   tokens'[req[a].token] # Null /\ tokens'[req[a].token].family = req[a].family
             /\ req[a].op = "refresh" /\ req[a].family \notin raced =>
                   /\ req[a].pc \in {"user", "bind", "revoke"} =>
                         req[a].family \notin out'
                   /\ req[a].pc = "issue" => req[a].family \notin out'
    <2>1. req[a].op \in {"refresh", "logout"} => req[a].token \in Tokens
        BY Records
    <2>2. req[a].op = "refresh" /\ req[a].family \notin raced => req[a].family # k
        BY <1>1, <1>9, SharedFamily
    <2>3. req[a].op \in {"refresh", "logout"} =>
             tokens[req[a].token] # Null /\ tokens[req[a].token].family = req[a].family
        BY DEF HeadInv
    <2>4. req[a].op = "refresh" /\ req[a].family \notin raced
             /\ req[a].pc \in {"user", "bind", "revoke", "issue"} => req[a].family \notin out
        BY DEF HeadInv
    <2> QED
        BY <1>2, <1>4, <2>1, <2>2, <2>3, <2>4
<1>10. ASSUME NEW a \in Requests, req'[a].op \in {"refresh", "logout"}
       PROVE  tokens'[req'[a].token] # Null /\ tokens'[req'[a].token].family = req'[a].family
    <2>1. CASE a # r
        BY <1>1, <1>9, <1>10, <2>1 DEF Moved
    <2>2. CASE a = r
        BY <1>1, <1>2, <1>3, <1>10, <2>2, IdleFields DEF Same, Alike
    <2> QED
        BY <2>1, <2>2
<1>11. ASSUME NEW a \in Requests, req'[a].op = "refresh", req'[a].family \notin raced'
       PROVE  /\ req'[a].pc \in {"user", "bind", "revoke"} =>
                   req'[a].family \notin out' /\ Unrevoked(req[a].family)' \subseteq {req'[a].token}
              /\ req'[a].pc = "issue" => req'[a].family \notin out' /\ Unrevoked(req[a].family)' = {}
    <2> PICK f : f = req'[a].family
        OBVIOUS
    <2>1. Unrevoked(req[a].family)' = Unrevoked(f)'
        BY DEF Unrevoked
    <2>2. CASE a # r
        <3>1. req'[a] = req[a] /\ f \notin raced
            BY <1>1, <1>4, <1>11, <2>2 DEF Moved
        <3>2. /\ req[a].pc \in {"user", "bind", "revoke"} => Unrevoked(f) \subseteq {req[a].token}
              /\ req[a].pc = "issue" => Unrevoked(f) = {}
            BY <1>11, <3>1 DEF HeadInv
        <3> QED
            BY <1>5, <1>9, <1>11, <2>1, <2>2, <3>1, <3>2
    <2>3. CASE a = r
        <3>1. p.op = "refresh" /\ req'[a].pc = "issue" /\ f = k /\ f \notin raced
            BY <1>1, <1>4, <1>11, <2>3, IdleFields DEF Same, Alike
        <3>2. k \notin out /\ Unrevoked(k) \subseteq {c}
            BY <1>1, <3>1 DEF HeadInv
        <3>3. Unrevoked(f)' = {} /\ f \notin out'
            BY <1>4, <1>5, <3>1, <3>2
        <3> QED
            BY <2>1, <3>1, <3>3
    <2> QED
        BY <2>2, <2>3
<1> HIDE DEF p, c, k
<1> QED
    BY <1>6, <1>7, <1>8, <1>10, <1>11 DEF HeadInv

LEMMA IssueHeads ==
    ASSUME AccountsTypeOK, CarryInv, OverlapInv, HeadInv, NEW r \in Requests, Issue(r)
    PROVE  HeadInv'
<1> DEFINE p == req[r]
<1>1. Moved(r) /\ p.pc = "issue" /\ p.op \in {"login", "refresh"} /\ req'[r] = Idle
    BY IssueFacts
<1>2. PICK c \in Tokens, k \in Tokens :
         /\ tokens[c] = Null /\ tokens'[c] # Null /\ tokens'[c].state = "live"
         /\ tokens'[c].family = k /\ k = IF p.op = "login" THEN c ELSE p.family
         /\ \A t \in Tokens \ {c} : tokens'[t] = tokens[t]
    BY <1>1, IssueToken, Records
<1>3. out' = out /\ out \subseteq Tokens /\ raced \subseteq raced'
    BY <1>1 DEF Issue, Moved, AccountsTypeOK
<1>4. \A t \in Tokens : tokens[t] # Null => tokens[t].family \in Tokens /\ tokens[t].family # c
                                            /\ tokens[tokens[t].family] # Null
    BY <1>2 DEF HeadInv, AccountsTypeOK, TokenRows
<1>5. \A f : f # k => Unrevoked(f)' = Unrevoked(f)
    BY <1>2 DEF Unrevoked
<1>6. k \notin raced => Unrevoked(k) = {} /\ k \notin out
    <2>1. CASE p.op = "login"
        BY <1>2, <1>4, <2>1 DEF HeadInv, Unrevoked
    <2>2. CASE p.op = "refresh"
        BY <1>1, <1>2, <2>2 DEF HeadInv
    <2> QED
        BY <1>1, <2>1, <2>2
<1>7. k \notin raced => Unrevoked(k)' \subseteq {c}
    BY <1>2, <1>6 DEF Unrevoked
<1>8. \A t \in Tokens : tokens'[t] # Null => tokens'[tokens'[t].family] # Null
    <2>1. ASSUME NEW t \in Tokens, tokens'[t] # Null
          PROVE  tokens'[tokens'[t].family] # Null
        <3>1. CASE t # c
            BY <1>2, <1>4, <2>1, <3>1
        <3>2. CASE t = c /\ p.op = "login"
            BY <1>2, <3>2
        <3>3. CASE t = c /\ p.op = "refresh"
            <4>1. p.token \in Tokens /\ tokens[p.token] # Null /\ tokens[p.token].family = k
                BY <1>2, <3>3, Records DEF HeadInv
            <4>2. tokens[k] # Null /\ k # c
                BY <1>4, <4>1
            <4> QED
                BY <1>2, <3>3, <4>2
        <3> QED
            BY <1>1, <3>1, <3>2, <3>3
    <2> QED
        BY <2>1
<1>9. \A f \in out' : tokens'[f] # Null
    BY <1>2, <1>3 DEF HeadInv
<1>10. ASSUME NEW f \in Tokens \ raced'
       PROVE  /\ \A s, t \in Unrevoked(f)' : s = t
              /\ f \in out' => Unrevoked(f)' = {}
    <2>1. CASE f = k
        BY <1>3, <1>6, <1>7, <1>10, <2>1
    <2>2. CASE f # k
        <3>1. Unrevoked(f)' = Unrevoked(f)
            BY <1>5, <2>2
        <3>2. /\ \A s, t \in Unrevoked(f) : s = t
              /\ f \in out => Unrevoked(f) = {}
            BY <1>3, <1>10 DEF HeadInv
        <3> QED
            BY <1>3, <3>1, <3>2
    <2> QED
        BY <2>1, <2>2
<1>11. ASSUME NEW a \in Requests, req'[a].op \in {"refresh", "logout"}
       PROVE  /\ a # r /\ req'[a] = req[a]
              /\ tokens'[req'[a].token] # Null /\ tokens'[req'[a].token].family = req'[a].family
              /\ req'[a].family \in Tokens /\ req'[a].family # c
              /\ req'[a].family \notin raced => req'[a].family # k
    <2>1. a # r
        BY <1>1, <1>11, IdleFields
    <2>2. req'[a] = req[a]
        BY <1>1, <2>1 DEF Moved
    <2>3. /\ req[a].token \in Tokens /\ tokens[req[a].token] # Null
          /\ tokens[req[a].token].family = req[a].family
        BY <1>11, <2>2, Records DEF HeadInv
    <2>4. req[a].family \in Tokens /\ req[a].family # c
        BY <1>4, <2>3
    <2>5. req[a].family \notin raced => req[a].family # k
        <3>1. CASE p.op = "login"
            BY <1>2, <2>4, <3>1
        <3>2. CASE p.op = "refresh"
            BY <1>2, <1>11, <2>1, <2>2, <3>2, SharedFamily
        <3> QED
            BY <1>1, <3>1, <3>2
    <2> QED
        BY <1>2, <2>1, <2>2, <2>3, <2>4, <2>5
<1>12. ASSUME NEW a \in Requests, req'[a].op = "refresh", req'[a].family \notin raced'
       PROVE  /\ req'[a].pc \in {"user", "bind", "revoke"} =>
                   req'[a].family \notin out' /\ Unrevoked(req[a].family)' \subseteq {req'[a].token}
              /\ req'[a].pc = "issue" => req'[a].family \notin out' /\ Unrevoked(req[a].family)' = {}
    <2> PICK f : f = req'[a].family
        OBVIOUS
    <2>1. Unrevoked(req[a].family)' = Unrevoked(f)'
        BY DEF Unrevoked
    <2>2. req'[a] = req[a] /\ f \notin raced /\ f # k
        BY <1>3, <1>11, <1>12
    <2>3. Unrevoked(f)' = Unrevoked(f)
        BY <1>5, <2>2
    <2>4. /\ req[a].pc \in {"user", "bind", "revoke"} =>
               f \notin out /\ Unrevoked(f) \subseteq {req[a].token}
          /\ req[a].pc = "issue" => f \notin out /\ Unrevoked(f) = {}
        BY <1>12, <2>2 DEF HeadInv
    <2> QED
        BY <1>3, <2>1, <2>2, <2>3, <2>4
<1> HIDE DEF p
<1> QED
    BY <1>8, <1>9, <1>10, <1>11, <1>12 DEF HeadInv

LEMMA StepsHeads ==
    ASSUME AccountsTypeOK, CarryInv, OverlapInv, RowInv, HeadInv, NEW r \in Requests, Steps(r)
    PROVE  HeadInv'
    BY ArriveHeads, CheckTokenHeads, OtherHeads, RevokeHeads, IssueHeads DEF Steps

\* A token expires.
LEMMA ExpireToken ==
    ASSUME AccountsTypeOK, NEW t \in Tokens, Expire(t)
    PROVE  /\ tokens' \in [Tokens -> TokenRows \cup {Null}]
           /\ tokens[t] # Null /\ tokens'[t] # Null
           /\ tokens'[t].user = tokens[t].user /\ tokens'[t].family = tokens[t].family
           /\ tokens[t].state # "revoked" /\ tokens'[t].state # "revoked"
           /\ \A s \in Tokens \ {t} : tokens'[s] = tokens[s]
           /\ UNCHANGED <<users, link, members, req, count, faults, met, granted, disputed, out,
                          raced, misdealt>>
<1> DEFINE row == [tokens[t] EXCEPT !.state = "expired"]
<1>1. tokens[t] \in TokenRows /\ tokens[t] # Null /\ tokens[t].state # "revoked"
    BY DEF Expire, AccountsTypeOK
<1>2. /\ row \in TokenRows /\ row.state # "revoked" /\ row.user = tokens[t].user
      /\ row.family = tokens[t].family
    BY <1>1 DEF TokenRows
<1>3. tokens' = [tokens EXCEPT ![t] = row]
    BY DEF Expire
<1>4. UNCHANGED <<users, link, members, req, count, faults, met, granted, disputed, out,
                  raced, misdealt>>
    BY DEF Expire, historyVars
<1> HIDE DEF row
<1>5. /\ tokens' \in [Tokens -> TokenRows \cup {Null}] /\ tokens'[t] = row
      /\ \A s \in Tokens \ {t} : tokens'[s] = tokens[s]
    BY <1>2, <1>3 DEF AccountsTypeOK
<1> QED
    BY <1>1, <1>2, <1>4, <1>5, AccountsAssumption

LEMMA ExpireKeeps ==
    ASSUME AccountsTypeOK, CarryInv, OverlapInv, RowInv, HeadInv, NEW c \in Tokens, Expire(c)
    PROVE  AccountsTypeOK' /\ CarryInv' /\ OverlapInv' /\ RowInv' /\ HeadInv'
<1>1. /\ tokens' \in [Tokens -> TokenRows \cup {Null}]
      /\ UNCHANGED <<users, link, members, req, count, faults, met, granted, disputed, out,
                     raced, misdealt>>
    BY ExpireToken
<1>2. AccountsTypeOK'
    BY <1>1 DEF AccountsTypeOK
<1>3. CarryInv'
    BY <1>1 DEF CarryInv
<1>4. OverlapInv'
    BY <1>1 DEF OverlapInv, Writes, Uses
<1>5. ASSUME NEW t \in Tokens
      PROVE  /\ tokens'[t] = Null <=> tokens[t] = Null
             /\ tokens[t] # Null => /\ tokens'[t].user = tokens[t].user
                                    /\ tokens'[t].family = tokens[t].family
                                    /\ tokens'[t].state = "revoked" <=> tokens[t].state = "revoked"
    BY ExpireToken
<1>6. RowInv'
    <2>1. \A t \in Tokens : tokens'[t] # Null => link[tokens'[t].user] # "none"
        BY <1>5 DEF RowInv
    <2>2. OneAccountPerName' /\ \A r \in Requests : FirstOfName(req[r])' /\ (req[r].id # Null => Holds(req[r], disputed)')
        BY <1>1 DEF RowInv, OneAccountPerName, FirstOfName, Found, Holds, Adopting, Named, HeldName
    <2> QED
        BY <1>1, <2>1, <2>2 DEF RowInv
<1>7. HeadInv'
    <2>1. \A f : Unrevoked(f)' = Unrevoked(f)
        BY <1>5 DEF Unrevoked
    <2>2. \A r \in Requests : req[r].op \in {"refresh", "logout"} => req[r].token \in Tokens
        BY Records
    <2>3. \A t \in Tokens : tokens[t] # Null => tokens[t].family \in Tokens
        BY DEF AccountsTypeOK, TokenRows
    <2>4. \A t \in Tokens : tokens'[t] # Null => tokens'[tokens'[t].family] # Null
        BY <1>5, <2>3 DEF HeadInv
    <2>5. \A f \in out' : tokens'[f] # Null
        BY <1>1, <1>5 DEF HeadInv, AccountsTypeOK
    <2>6. \A r \in Requests : req'[r].op \in {"refresh", "logout"} =>
             tokens'[req'[r].token] # Null /\ tokens'[req'[r].token].family = req'[r].family
        BY <1>1, <1>5, <2>2 DEF HeadInv
    <2>7. \A f \in Tokens \ raced' : /\ \A s, t \in Unrevoked(f)' : s = t
                                     /\ f \in out' => Unrevoked(f)' = {}
        BY <1>1, <2>1 DEF HeadInv
    <2>8. \A r \in Requests : Unrevoked(req[r].family)' = Unrevoked(req[r].family)
        BY <1>1, <1>5 DEF Unrevoked
    <2> QED
        BY <1>1, <2>4, <2>5, <2>6, <2>7, <2>8 DEF HeadInv
<1> QED
    BY <1>2, <1>3, <1>4, <1>6, <1>7

-----------------------------------------------------------------------------
\* A request that writes the row of an account writes its name.
LEMMA HolderWrites ==
    ASSUME AccountsTypeOK, CarryInv, RowInv, NEW r \in Requests, req[r].id \in Ids,
           \/ req[r].op \in Changing /\ req[r].pc # "insert"
           \/ req[r].pc \in {"link", "member", "default"}
    PROVE  users[req[r].id].name \in Writes(req[r]) /\ users[req[r].id] # Null
<1>1. Holds(req[r], disputed) /\ users[req[r].id] # Null
    BY HeldRow, Records DEF Path, Changing, Ops
<1>2. users[req[r].id].name = HeldName(req[r])
    BY <1>1, Records DEF Holds, Adopting, Named, Path, Changing, Ops
<1>3. HeldName(req[r]) \in Writes(req[r])
    BY Records DEF HeldName, NameOf, Booting, Writes, Changing, Path, Ops
<1> QED
    BY <1>1, <1>2, <1>3

LEMMA StepsNames ==
    ASSUME AccountsTypeOK, CarryInv, RowInv, HeadInv, NEW r \in Requests, Steps(r),
           NEW u \in Ids, users[u] # Null
    PROVE  users'[u] # Null /\ users'[u].name = users[u].name
<1>1. CASE users' = users
    BY <1>1
<1>2. CASE Insert(r)
    <2>1. u = req[r].id => users[u].name = NameOf(req[r])
        BY <1>2, InsertFacts, HeldRow DEF Holds, Adopting, Named, HeldName
    <2> QED
        BY <1>2, <2>1, InsertRow
<1>3. CASE SetStatus(r) \/ SetPassword(r)
    <2> PICK i : i = req[r].id
        OBVIOUS
    <2>1. i \in Ids /\ users[i] \in UserRows
        BY <1>3, SetStatusFacts, SetPasswordFacts, HeldRow
    <2>2. PICK row \in UserRows : users' = [users EXCEPT ![i] = row] /\ row.name = users[i].name
        <3>1. CASE SetStatus(r)
            <4> DEFINE row == [users[i] EXCEPT !.status = req[r].status]
            <4>1. row \in UserRows /\ row.name = users[i].name
                BY <2>1, Records DEF UserRows, Request
            <4> QED
                BY <3>1, <4>1 DEF SetStatus
        <3>2. CASE SetPassword(r)
            <4> DEFINE row == [users[i] EXCEPT !.password = req[r].password]
            <4>1. row \in UserRows /\ row.name = users[i].name
                BY <2>1, <3>2, SetPasswordFacts, Records DEF UserRows
            <4> QED
                BY <3>2, <4>1 DEF SetPassword
        <3> QED
            BY <1>3, <3>1, <3>2
    <2> QED
        BY <2>1, <2>2, AccountsAssumption DEF AccountsTypeOK
<1>4. users' = users \/ Insert(r) \/ SetStatus(r) \/ SetPassword(r)
    BY ArriveFacts, LookFacts, FindFacts, LookUpFacts, CheckTokenFacts, ReadUserFacts, BindFacts,
       ListFacts, FailFacts
    DEF Steps, Still, Link, Member, Wipe, Grant, Reply, Default, Revoke, Issue, tableVars
<1> QED
    BY <1>1, <1>2, <1>3, <1>4

\* Of the statuses, a step changes those of the account that its request holds.
LEMMA StepsStatus ==
    ASSUME AccountsTypeOK, CarryInv, RowInv, HeadInv, NEW r \in Requests, Steps(r),
           NEW u \in Ids, users[u] # Null
    PROVE  \/ users'[u].status = users[u].status /\ link'[u] = link[u]
           \/ u = req[r].id /\ \/ Insert(r) /\ users'[u].status = "active" /\ link'[u] = link[u]
                               \/ Link(r) /\ users'[u].status = users[u].status
                                          /\ link'[u] = "active"
                               \/ SetStatus(r) /\ users'[u].status = req[r].status
                                               /\ link'[u] = req[r].status
<1>1. CASE UNCHANGED <<users, link>>
    BY <1>1
<1>2. CASE Insert(r)
    BY <1>2, InsertRow DEF Insert
<1>3. CASE Link(r)
    BY <1>3, LinkFacts DEF Link, AccountsTypeOK
<1>4. CASE SetStatus(r)
    <2> PICK i, s : i = req[r].id /\ s = req[r].status
        OBVIOUS
    <2> DEFINE row == [users[i] EXCEPT !.status = s]
    <2>1. i \in Ids /\ users[i] \in UserRows
        BY <1>4, SetStatusFacts, HeldRow
    <2>2. row.status = s
        BY <2>1 DEF UserRows
    <2>3. users' = [users EXCEPT ![i] = row] /\ link' = [link EXCEPT ![i] = s]
        BY <1>4 DEF SetStatus
    <2> HIDE DEF row
    <2> QED
        BY <1>4, <2>1, <2>2, <2>3 DEF AccountsTypeOK
<1>5. CASE SetPassword(r)
    <2> PICK i : i = req[r].id
        OBVIOUS
    <2> DEFINE row == [users[i] EXCEPT !.password = req[r].password]
    <2>1. i \in Ids /\ users[i] \in UserRows
        BY <1>5, SetPasswordFacts, HeldRow
    <2>2. row.status = users[i].status
        BY <2>1 DEF UserRows
    <2>3. users' = [users EXCEPT ![i] = row] /\ link' = link
        BY <1>5 DEF SetPassword
    <2> HIDE DEF row
    <2> QED
        BY <2>1, <2>2, <2>3 DEF AccountsTypeOK
<1>6. UNCHANGED <<users, link>> \/ Insert(r) \/ Link(r) \/ SetStatus(r) \/ SetPassword(r)
    BY ArriveFacts, LookFacts, FindFacts, LookUpFacts, CheckTokenFacts, ReadUserFacts, BindFacts,
       ListFacts, FailFacts
    DEF Steps, Still, Member, Wipe, Grant, Reply, Default, Revoke, Issue, tableVars
<1> QED
    BY <1>1, <1>2, <1>3, <1>4, <1>5, <1>6

\* Two requests that hold an account and write its name are known to overlap.
LEMMA SharedName ==
    ASSUME AccountsTypeOK, CarryInv, OverlapInv, RowInv, NEW r \in Requests, NEW o \in Requests,
           r # o, NEW n, n \in Writes(req[r]), n \in Writes(req[o])
    PROVE  n \in disputed
    BY DEF OverlapInv

\* Where the tables disagree, somebody writes the account or it is disputed.
LEMMA HalfActiveKept ==
    ASSUME AccountsTypeOK, CarryInv, OverlapInv, RowInv, HeadInv, ActiveInv,
           NEW r \in Requests, Steps(r), NEW u \in Ids, users'[u] # Null, HalfActive(u)'
    PROVE  users'[u].name \in disputed' \/ \E o \in Requests : req'[o].pc = "link" /\ req'[o].id = u
<1>1. Moved(r) /\ users'[u].status = "active" /\ link'[u] = "disabled"
    BY StepsMove DEF HalfActive
<1>2. users[u] # Null
    <2>1. CASE link[u] # "none"
        BY <2>1 DEF RowInv
    <2>2. CASE link[u] = "none"
        <3>1. link' # link
            BY <1>1, <2>2
        <3>2. Link(r) \/ SetStatus(r)
            BY <3>1, ArriveFacts, LookFacts, FindFacts, LookUpFacts, CheckTokenFacts, ReadUserFacts,
               BindFacts, ListFacts, FailFacts
            DEF Steps, Still, Insert, Member, Wipe, Grant, SetPassword, Reply, Default, Revoke,
                Issue, tableVars
        <3>3. req[r].id \in Ids /\ users[req[r].id] # Null
            BY <3>2, LinkFacts, SetStatusFacts, HeldRow
        <3>4. link'[u] # link[u] => u = req[r].id
            BY <3>2 DEF Link, SetStatus, AccountsTypeOK
        <3> QED
            BY <1>1, <2>2, <3>3, <3>4
    <2> QED
        BY <2>1, <2>2
<1>3. users'[u].name = users[u].name
    BY <1>2, StepsNames
<1>4. CASE Insert(r) /\ u = req[r].id
    BY <1>4, InsertFacts DEF Same
<1>5. CASE users'[u].status = users[u].status /\ link'[u] = link[u]
    <2>1. CASE users[u].name \in disputed
        BY <1>1, <1>3, <2>1 DEF Moved
    <2>2. CASE \E o \in Requests : req[o].pc = "link" /\ req[o].id = u
        <3>1. PICK o \in Requests : req[o].pc = "link" /\ req[o].id = u
            BY <2>2
        <3>2. CASE o # r
            BY <1>1, <3>1, <3>2 DEF Moved
        <3>3. CASE o = r
            <4>1. users[u].name \in Writes(req[r])
                BY <3>1, <3>3, HolderWrites
            <4>2. Link(r) \/ Fail(r)
                BY <3>1, <3>3, ArriveFacts, LookFacts, FindFacts, InsertFacts, MemberFacts, WipeFacts,
                   GrantFacts, SetStatusFacts, SetPasswordFacts, ReplyFacts, LookUpFacts,
                   CheckTokenFacts, ReadUserFacts, BindFacts, ListFacts, DefaultFacts, RevokeFacts,
                   IssueFacts DEF Steps
            <4>3. ~Link(r)
                BY <1>1, <3>1, <3>3 DEF Link, AccountsTypeOK
            <4> QED
                BY <1>3, <4>1, <4>2, <4>3, FailFacts
        <3> QED
            BY <3>2, <3>3
    <2> QED
        BY <1>1, <1>2, <1>5, <2>1, <2>2 DEF ActiveInv, HalfActive
<1> QED
    BY <1>1, <1>2, <1>4, <1>5, StepsStatus

\* A request that goes on remembers, or its user keeps being disputed.
LEMMA MetKept ==
    ASSUME AccountsTypeOK, CarryInv, RowInv, HeadInv, NEW r \in Requests, Steps(r),
           NEW a \in Requests, req[a].id \in Ids, req[a].pc # "insert", req'[a].id = req[a].id,
           a # r \/ Remembered(r),
           a \in met \/ users[req[a].id].name \in disputed
    PROVE  a \in met' \/ users'[req'[a].id].name \in disputed'
<1>1. Moved(r) /\ users[req[a].id] # Null /\ req[a].id # Null
    BY StepsMove, HeldRow, AccountsAssumption
<1>2. users'[req[a].id].name = users[req[a].id].name
    BY <1>1, StepsNames
<1>3. a \in met => a \in met'
    BY <1>1 DEF Moved, Remembered
<1> QED
    BY <1>1, <1>2, <1>3 DEF Moved

LEMMA BoundKept ==
    ASSUME AccountsTypeOK, CarryInv, OverlapInv, RowInv, HeadInv, ActiveInv,
           NEW r \in Requests, Steps(r), NEW a \in Requests,
           req'[a].pc = "bind", req'[a].status = "active"
    PROVE  a \in met' \/ users'[req'[a].id].name \in disputed' \/ HalfActive(req[a].id)'
<1>1. Moved(r)
    BY StepsMove
<1>2. CASE a = r
    <2> PICK u : u = req'[r].id
        OBVIOUS
    <2>1. LookUp(r) \/ ReadUser(r)
        BY <1>2, ArriveFacts, LookFacts, FindFacts, InsertFacts, LinkFacts, MemberFacts, WipeFacts,
           GrantFacts, SetStatusFacts, SetPasswordFacts, ReplyFacts, CheckTokenFacts, BindFacts,
           ListFacts, DefaultFacts, RevokeFacts, IssueFacts, FailFacts, IdleFields DEF Steps
    <2>2. /\ u \in Ids /\ users[u] # Null /\ users[u].status = "active" /\ link[u] # "none"
          /\ users' = users /\ link' = link /\ Remembered(r)
        BY <1>2, <2>1, LookUpFacts, ReadUserFacts, IdleFields DEF Still, Found
    <2>3. link[u] \in {"active", "disabled"} /\ u # Null
        BY <2>2, AccountsAssumption DEF AccountsTypeOK, Statuses
    <2>4. CASE link[u] = "active"
        BY <1>2, <2>2, <2>3, <2>4 DEF Remembered, ActiveNext
    <2>5. CASE link[u] = "disabled"
        BY <1>2, <2>2, <2>5 DEF HalfActive
    <2> QED
        BY <2>3, <2>4, <2>5
<1>3. CASE a # r
    <2> PICK u : u = req[a].id
        OBVIOUS
    <2>1. req'[a] = req[a]
        BY <1>1, <1>3 DEF Moved
    <2>2. u \in Ids
        BY <2>1, Records DEF Loose, Path, Ops
    <2>3. CASE a \in met \/ users[u].name \in disputed
        BY <1>3, <2>1, <2>2, <2>3, MetKept
    <2>4. CASE HalfActive(u)
        <3>1. users[u] # Null /\ u # Null /\ users[u].status = "active" /\ link[u] = "disabled"
            BY <2>1, <2>2, <2>4, HeldRow, AccountsAssumption DEF HalfActive
        <3>2. users'[u] # Null /\ users'[u].name = users[u].name /\ disputed \subseteq disputed'
            BY <1>1, <2>2, <3>1, StepsNames DEF Moved
        <3>3. CASE users'[u].status = "active" /\ link'[u] = "disabled"
            BY <2>1, <3>3 DEF HalfActive
        <3>4. CASE Link(r) /\ u = req[r].id /\ users'[u].status = "active" /\ link'[u] = "active"
            <4>1. Remembered(r)
                BY <3>4, LinkFacts
            <4> QED
                BY <2>1, <3>1, <3>2, <3>4, <4>1 DEF Remembered, ActiveNext
        <3>5. CASE SetStatus(r) /\ u = req[r].id
            <4>1. CASE users[u].name \in disputed
                BY <2>1, <3>2, <4>1
            <4>2. CASE \E o \in Requests : req[o].pc = "link" /\ req[o].id = u
                <5>1. PICK o \in Requests : req[o].pc = "link" /\ req[o].id = u
                    BY <4>2
                <5>2. users[u].name \in Writes(req[o])
                    BY <2>2, <5>1, HolderWrites
                <5>3. req[r].op \in Changing /\ req[r].pc = "status"
                    BY <3>5, SetStatusFacts DEF Changing
                <5>4. users[u].name \in Writes(req[r])
                    BY <2>2, <3>5, <5>3, HolderWrites
                <5>5. users[u].name \in disputed
                    BY <5>1, <5>2, <5>3, <5>4, SharedName
                <5> QED
                    BY <2>1, <3>2, <5>5
            <4> QED
                BY <2>2, <2>4, <3>1, <4>1, <4>2 DEF ActiveInv
        <3> QED
            BY <2>2, <3>1, <3>3, <3>4, <3>5, StepsStatus
    <2> QED
        BY <2>1, <2>3, <2>4 DEF ActiveInv
<1> QED
    BY <1>2, <1>3

LEMMA PassedKept ==
    ASSUME AccountsTypeOK, CarryInv, OverlapInv, RowInv, HeadInv, ActiveInv,
           NEW r \in Requests, Steps(r), NEW a \in Requests,
           req'[a].op \in {"login", "refresh"},
           req'[a].pc \in {"list", "default", "revoke", "issue"}
    PROVE  a \in met' \/ users'[req'[a].id].name \in disputed'
<1>1. Moved(r)
    BY StepsMove
<1>2. CASE a # r
    <2>1. req'[a] = req[a]
        BY <1>1, <1>2 DEF Moved
    <2>2. req[a].id \in Ids
        BY <2>1, Records DEF Loose, Path, Ops
    <2>3. a \in met \/ users[req[a].id].name \in disputed
        BY <2>1 DEF ActiveInv
    <2> QED
        BY <1>2, <2>1, <2>2, <2>3, MetKept
<1>3. CASE a = r
    <2>1. Bind(r) \/ List(r) \/ Default(r) \/ Revoke(r)
        BY <1>3, ArriveFacts, LookFacts, FindFacts, InsertFacts, LinkFacts, MemberFacts, WipeFacts,
           GrantFacts, SetStatusFacts, SetPasswordFacts, ReplyFacts, LookUpFacts, CheckTokenFacts,
           ReadUserFacts, IssueFacts, FailFacts, IdleFields DEF Steps
    <2>2. /\ req'[r].id = req[r].id /\ req[r].pc # "insert" /\ Remembered(r)
          /\ req[r].op \in {"login", "refresh"}
        BY <1>3, <2>1, BindFacts, ListFacts, DefaultFacts, RevokeFacts, IdleFields DEF Same
    <2>3. req[r].id \in Ids
        BY <1>3, <2>1, <2>2, BindFacts, ListFacts, DefaultFacts, RevokeFacts, IdleFields, Records
           DEF Loose
    <2>4. r \in met \/ users[req[r].id].name \in disputed
        <3>1. CASE Bind(r)
            <4>1. /\ req[r].pc = "bind" /\ req[r].status = "active"
                  /\ link[req[r].id] # "disabled"
                BY <1>3, <3>1, BindFacts, IdleFields
            <4> QED
                BY <4>1 DEF ActiveInv, HalfActive
        <3>2. CASE List(r) \/ Default(r) \/ Revoke(r)
            <4>1. req[r].pc \in {"list", "default", "revoke"}
                BY <3>2, ListFacts, DefaultFacts, RevokeFacts
            <4> QED
                BY <2>2, <4>1 DEF ActiveInv
        <3> QED
            BY <2>1, <3>1, <3>2
    <2> QED
        BY <1>3, <2>2, <2>3, <2>4, MetKept
<1> QED
    BY <1>2, <1>3

LEMMA DealtKept ==
    ASSUME AccountsTypeOK, CarryInv, RowInv, HeadInv, ActiveInv, NEW r \in Requests, Steps(r)
    PROVE  TokensOfActive'
<1>1. ASSUME NEW u \in misdealt'
      PROVE  u \in Ids /\ users[u] # Null /\ users[u].name \in disputed
    <2>1. CASE u \in misdealt
        BY <2>1 DEF ActiveInv, TokensOfActive, RowInv, AccountsTypeOK
    <2>2. CASE u \notin misdealt
        <3>1. Issue(r)
            BY <1>1, <2>2, ArriveFacts, LookFacts, FindFacts, LookUpFacts, CheckTokenFacts,
               ReadUserFacts, BindFacts, ListFacts, FailFacts
            DEF Steps, Still, Insert, Link, Member, Wipe, Grant, SetStatus, SetPassword, Reply,
                Default, Revoke, Quietly
        <3>2. u = req[r].id /\ r \notin met
            BY <1>1, <2>2, <3>1 DEF Issue
        <3>3. req[r].pc = "issue" /\ req[r].op \in {"login", "refresh"} /\ u \in Ids
            BY <3>1, <3>2, IssueFacts
        <3>4. users[u] # Null
            BY <3>2, <3>3, HeldRow
        <3> QED
            BY <3>2, <3>3, <3>4 DEF ActiveInv
    <2> QED
        BY <2>1, <2>2
<1>2. \A u \in misdealt' : users'[u].name \in disputed'
    BY <1>1, StepsNames, StepsMove DEF Moved
<1> QED
    BY <1>2 DEF TokensOfActive

LEMMA StepsActive ==
    ASSUME AccountsTypeOK, CarryInv, OverlapInv, RowInv, HeadInv, ActiveInv,
           NEW r \in Requests, Steps(r)
    PROVE  ActiveInv'
<1>1. \A u \in Ids : (users[u] # Null)' /\ HalfActive(u)' =>
         (users[u].name \in disputed)' \/ \E o \in Requests : (req[o].pc = "link" /\ req[o].id = u)'
    BY HalfActiveKept
<1>2. \A a \in Requests : (req[a].pc = "bind" /\ req[a].status = "active")' =>
         (a \in met \/ users[req[a].id].name \in disputed)' \/ HalfActive(req[a].id)'
    BY BoundKept
<1>3. \A a \in Requests :
         (req[a].op \in {"login", "refresh"} /\ req[a].pc \in {"list", "default", "revoke", "issue"})'
            => (a \in met \/ users[req[a].id].name \in disputed)'
    BY PassedKept
<1> QED
    BY <1>1, <1>2, <1>3, DealtKept DEF ActiveInv

-----------------------------------------------------------------------------
\* A step writes the account that its request holds, of a name that it writes.
LEMMA StepsFrame ==
    ASSUME AccountsTypeOK, CarryInv, RowInv, HeadInv, NEW r \in Requests, Steps(r),
           NEW u \in Ids, users[u] # Null, u # req[r].id \/ users[u].name \notin Writes(req[r])
    PROVE  /\ users'[u] = users[u] /\ link'[u] = link[u] /\ members'[u] = members[u]
           /\ granted'[u] = granted[u]
<1>2. CASE u # req[r].id
    <2>1. CASE Insert(r) \/ SetStatus(r) \/ SetPassword(r)
        <3>1. users'[u] = users[u] /\ link'[u] = link[u]
            BY <1>2, <2>1 DEF Insert, SetStatus, SetPassword, AccountsTypeOK
        <3>2. members' = members /\ granted' = granted
            BY <2>1 DEF Insert, SetStatus, SetPassword, Quietly
        <3> QED
            BY <3>1, <3>2
    <2>2. CASE Member(r) \/ Wipe(r) \/ Grant(r) \/ Default(r)
        <3>1. members'[u] = members[u]
            BY <1>2, <2>2 DEF Member, Wipe, Grant, Default, AccountsTypeOK
        <3>2. users' = users /\ link' = link /\ granted' = granted
            BY <2>2 DEF Member, Wipe, Grant, Default, Quietly
        <3> QED
            BY <3>1, <3>2
    <2>3. CASE Reply(r)
        <3>1. granted'[u] = granted[u]
            BY <1>2, <2>3 DEF Reply, AccountsTypeOK
        <3> QED
            BY <2>3, <3>1 DEF Reply, tableVars
    <2>4. CASE \/ Arrive(r) \/ Look(r) \/ Find(r) \/ LookUp(r) \/ CheckToken(r)
               \/ ReadUser(r) \/ Bind(r) \/ List(r) \/ Revoke(r) \/ Issue(r) \/ Fail(r)
        <3>1. UNCHANGED <<users, link, members, granted>>
            BY <2>4, ArriveFacts, LookFacts, FindFacts, LookUpFacts, CheckTokenFacts, ReadUserFacts,
               BindFacts, ListFacts, FailFacts
            DEF Still, Revoke, Issue, Quietly
        <3> QED
            BY <3>1
    <2>5. CASE Link(r)
        <3>1. UNCHANGED <<users, members, granted>> /\ link'[u] = link[u]
            BY <1>2, <2>5 DEF Link, Quietly, AccountsTypeOK
        <3> QED
            BY <3>1
    <2> QED
        BY <2>1, <2>2, <2>3, <2>4, <2>5 DEF Steps
<1>3. CASE u = req[r].id /\ users[u].name \notin Writes(req[r])
    <2>1. ~Insert(r)
        <3> SUFFICES ASSUME Insert(r) PROVE FALSE
            OBVIOUS
        <3>1. req[r].op \in {"create", "login", "refresh"} /\ req[r].pc = "insert"
            BY InsertFacts
        <3>2. users[u].name = NameOf(req[r])
            BY <1>3, <3>1, HeldRow DEF Holds, Adopting, Named, HeldName
        <3>3. NameOf(req[r]) \in Writes(req[r])
            BY <3>1 DEF NameOf, Booting, Writes, Changing
        <3> QED
            BY <1>3, <3>2, <3>3
    <2>2. /\ req[r].op \notin Changing \/ req[r].pc = "insert"
          /\ req[r].pc \notin {"link", "member", "default"}
        BY <1>3, HolderWrites
    <2>3. ~Link(r) /\ ~Member(r) /\ ~Wipe(r) /\ ~Grant(r) /\ ~SetStatus(r) /\ ~SetPassword(r)
          /\ ~Reply(r) /\ ~Default(r)
        BY <2>2, LinkFacts, MemberFacts, WipeFacts, GrantFacts, SetStatusFacts, SetPasswordFacts,
           ReplyFacts, DefaultFacts DEF Changing
    <2>4. UNCHANGED <<users, link, members, granted>>
        BY <2>1, <2>3, ArriveFacts, LookFacts, FindFacts, LookUpFacts, CheckTokenFacts,
           ReadUserFacts, BindFacts, ListFacts, FailFacts
        DEF Steps, Still, Revoke, Issue
    <2> QED
        BY <2>4
<1> QED
    BY <1>2, <1>3

LEMMA SameStands ==
    ASSUME NEW u \in Ids, users'[u] = users[u], link'[u] = link[u], members'[u] = members[u],
           granted'[u] = granted[u], Stands(u)
    PROVE  Stands(u)'
    BY DEF Stands, StatusStands, PasswordStands, PlacesStand, Last

LEMMA SameOnTheWay ==
    ASSUME NEW o \in Requests, req'[o] = req[o], users'[req[o].id] = users[req[o].id],
           link'[req[o].id] = link[req[o].id],
           members'[req[o].id] = members[req[o].id], granted'[req[o].id] = granted[req[o].id],
           OnTheWay(req[o])
    PROVE  OnTheWay(req[o])'
<1>1. StatusOnTheWay(req[o])'
    BY DEF OnTheWay, StatusOnTheWay, StatusStands, Last
<1>2. PasswordOnTheWay(req[o])'
    BY DEF OnTheWay, PasswordOnTheWay, PasswordStands, Last
<1>3. PlacesOnTheWay(req[o])'
    BY DEF OnTheWay, PlacesOnTheWay, PlacesStand, Last, Entries
<1> QED
    BY <1>1, <1>2, <1>3 DEF OnTheWay

\* The steps of others leave an undisputed request where it was.
LEMMA OthersOnTheWay ==
    ASSUME AccountsTypeOK, CarryInv, OverlapInv, RowInv, HeadInv, AnswerInv,
           NEW r \in Requests, Steps(r), NEW o \in Requests, o # r,
           NEW n \in Writes(req[o]), n \notin disputed, n # Admin, Begun(req[o])
    PROVE  OnTheWay(req[o])'
<1>1. req'[o] = req[o]
    BY StepsMove DEF Moved
<1>2. req[o].op \in Changing \/ req[o].pc = "default"
    BY DEF Writes
<1>3. req[o].id \in Ids
    BY <1>2, Records DEF Begun, Loose, Path, Changing, Ops
<1>4. users[req[o].id].name \in Writes(req[o]) /\ users[req[o].id] # Null
    BY <1>2, <1>3, HolderWrites DEF Begun
<1>5. users[req[o].id].name = n
    BY <1>2, <1>4 DEF Writes
<1>6. n \notin Writes(req[r])
    BY SharedName
<1>7. /\ users'[req[o].id] = users[req[o].id] /\ link'[req[o].id] = link[req[o].id]
      /\ members'[req[o].id] = members[req[o].id] /\ granted'[req[o].id] = granted[req[o].id]
    BY <1>3, <1>4, <1>5, <1>6, StepsFrame
<1>8. OnTheWay(req[o])
    BY DEF AnswerInv, Undisputed
<1> QED
    BY <1>1, <1>7, <1>8, SameOnTheWay

\* An account of which nobody writes the name stands as before.
LEMMA OthersStand ==
    ASSUME AccountsTypeOK, CarryInv, OverlapInv, RowInv, HeadInv, AnswerInv,
           NEW r \in Requests, Steps(r), NEW u \in Ids, link'[u] # "none",
           Undisputed(users[u].name)', users'[u].name \notin Writes(req[r]),
           \A o \in Requests \ {r} : users'[u].name \in Writes(req[o]) => req[o].pc = "look"
    PROVE  Stands(u)'
<1>1. link[u] # "none"
    <2> SUFFICES ASSUME link[u] = "none" PROVE FALSE
        OBVIOUS
    <2>1. Link(r) \/ SetStatus(r)
        BY ArriveFacts, LookFacts, FindFacts, LookUpFacts, CheckTokenFacts, ReadUserFacts,
           BindFacts, ListFacts, FailFacts
        DEF Steps, Still, Insert, Member, Wipe, Grant, SetPassword, Reply, Default, Revoke,
            Issue, tableVars
    <2>2. u = req[r].id
        BY <2>1 DEF Link, SetStatus, AccountsTypeOK
    <2>3. users[u].name \in Writes(req[r]) /\ users[u] # Null
        BY <2>1, <2>2, LinkFacts, SetStatusFacts, HolderWrites DEF Changing
    <2>4. users'[u].name = users[u].name
        BY <2>3, StepsNames
    <2> QED
        BY <2>3, <2>4
<1>2. users[u] # Null
    BY <1>1 DEF RowInv
<1>3. users'[u].name = users[u].name
    BY <1>2, StepsNames
<1>4. /\ users'[u] = users[u] /\ link'[u] = link[u] /\ members'[u] = members[u]
      /\ granted'[u] = granted[u]
    BY <1>2, <1>3, StepsFrame
<1>5. Undisputed(users[u].name)
    BY <1>3, StepsMove DEF Undisputed, Moved
<1>6. Stands(u)
    BY <1>1, <1>3, <1>5 DEF AnswerInv
<1> QED
    BY <1>4, <1>6, SameStands

LEMMA EntriesOfTail ==
    ASSUME NEW l \in Seq(Workspaces), l # <<>>
    PROVE  /\ Entries(l) = {Head(l)} \cup Entries(Tail(l))
           /\ Len(l) = 1 => Entries(l) = {Head(l)}
<1>1. Len(l) \in Nat \ {0} /\ DOMAIN l = 1 .. Len(l)
    BY EmptySeq
<1>2. /\ Head(l) = l[1] /\ Len(Tail(l)) = Len(l) - 1
      /\ \A i \in 1 .. Len(Tail(l)) : Tail(l)[i] = l[i + 1]
    BY <1>1
<1>3. DOMAIN Tail(l) = 1 .. Len(Tail(l))
    BY <1>1
<1> DEFINE t == Tail(l)
<1>4. /\ Len(t) = Len(l) - 1 /\ DOMAIN t = 1 .. Len(t)
      /\ \A i \in 1 .. Len(t) : t[i] = l[i + 1]
    BY <1>2, <1>3
<1> HIDE DEF t
<1>5. ASSUME NEW i \in DOMAIN l  PROVE l[i] \in {l[1]} \cup Entries(t)
    <2>1. CASE i = 1
        BY <2>1
    <2>2. CASE i # 1
        <3>1. i - 1 \in DOMAIN t /\ t[i - 1] = l[i]
            BY <1>1, <1>4, <1>5, <2>2
        <3> QED
            BY <3>1 DEF Entries
    <2> QED
        BY <2>1, <2>2
<1>6. ASSUME NEW i \in DOMAIN t  PROVE t[i] \in Entries(l)
    <2>1. i + 1 \in DOMAIN l /\ t[i] = l[i + 1]
        BY <1>1, <1>4, <1>6
    <2> QED
        BY <2>1 DEF Entries
<1>7. l[1] \in Entries(l)
    BY <1>1 DEF Entries
<1>8. Entries(l) = {l[1]} \cup Entries(t)
    BY <1>5, <1>6, <1>7 DEF Entries
<1>9. Len(l) = 1 => Entries(l) = {l[1]}
    <2> SUFFICES ASSUME Len(l) = 1 PROVE Entries(l) = {l[1]}
        OBVIOUS
    <2>1. \A i : i \in DOMAIN l <=> i = 1
        BY <1>1
    <2> QED
        BY <2>1 DEF Entries
<1> QED
    BY <1>2, <1>8, <1>9 DEF t

\* What a request writes when it goes on with a change.
LEMMA WritesOn ==
    ASSUME NEW r \in Requests, Alike(req[r], req'[r]), req[r].op \in Changing
    PROVE  Writes(req'[r]) = {req[r].name} /\ Writes(req[r]) = {req[r].name}
    BY DEF Writes, Alike

LEMMA ArriveOnTheWay ==
    ASSUME AccountsTypeOK, CarryInv, RowInv, AnswerInv, NEW r \in Requests, Arrive(r),
           NEW n \in Writes(req'[r]), n \notin disputed', n # Admin, Begun(req'[r])
    PROVE  OnTheWay(req[r])'
<1> DEFINE q == req'[r]
<1>1. Moved(r) /\ Still /\ req[r].pc = "idle" /\ q \in Request /\ Carries(q)
    BY ArriveFacts DEF Moved
<1>2. /\ <<q.op, q.pc>> \in {<<"members", "wipe">>, <<"status", "status">>, <<"reset", "reset">>}
      /\ link[q.id] # "none" \/ q.name \in disputed'
      /\ q.name = users[q.id].name
    <2> HIDE DEF q
    <2>1. q.op \notin {"login", "refresh", "logout"}
        <3>1. q.pc \notin {"find", "default"} /\ q.pc # "look"
            BY ArriveFacts DEF q, Begun
        <3> QED
            BY <3>1, ArriveFacts DEF q, Writes, Changing
    <2> QED
        BY <2>1, ArriveFacts DEF q, Begun
<1>3. q.id \in Ids /\ n = q.name /\ link[q.id] # "none"
    BY <1>1, <1>2 DEF Carries, Loose, Request, Writes, Changing
<1>4. \A o \in Requests : n \in Writes(req[o]) => req[o].pc = "look"
    <2>1. Writes(req[r]) = {}
        BY <1>1, Records DEF Path, Ops, Writes, Changing
    <2>2. \A o \in Requests \ {r} : n \notin Writes(req[o])
        BY <1>1 DEF Moved
    <2> QED
        BY <2>1, <2>2
<1>5. n \notin disputed
    BY <1>1 DEF Moved
<1>6. Stands(q.id)
    BY <1>2, <1>3, <1>4, <1>5 DEF AnswerInv, Undisputed
<1>7. UNCHANGED <<users, link, members, granted>>
    BY <1>1 DEF Still
<1>8. StatusOnTheWay(req[r])'
    BY <1>2, <1>6, <1>7 DEF StatusOnTheWay, StatusStands, Stands, Last
<1>9. PasswordOnTheWay(req[r])'
    BY <1>2, <1>6, <1>7 DEF PasswordOnTheWay, PasswordStands, Stands, Last
<1>10. PlacesOnTheWay(req[r])'
    BY <1>2, <1>6, <1>7 DEF PlacesOnTheWay, PlacesStand, Stands, Last
<1> QED
    BY <1>8, <1>9, <1>10 DEF OnTheWay

LEMMA InsertOnTheWay ==
    ASSUME AccountsTypeOK, CarryInv, NEW r \in Requests, Insert(r),
           NEW n \in Writes(req'[r]), n # Admin
    PROVE  OnTheWay(req[r])'
<1> DEFINE q == req'[r]
<1>1. /\ Same(req[r], q) /\ q.pc = "link" /\ req[r].op \in {"create", "login", "refresh"}
      /\ req[r].id \in Ids
    BY InsertFacts
<1>2. q.op = "create"
    BY <1>1 DEF Writes, Changing, Same, Alike
<1>3. users'[q.id].status = "active" /\ users'[q.id].password = q.password
    BY <1>1, <1>2, InsertRow DEF Same, Alike
<1> QED
    BY <1>1, <1>2, <1>3 DEF OnTheWay, StatusOnTheWay, PasswordOnTheWay, PlacesOnTheWay

\* What an undisputed change has done so far.
LEMMA Begins ==
    ASSUME AccountsTypeOK, CarryInv, AnswerInv, NEW r \in Requests, Moved(r),
           Alike(req[r], req'[r]), req[r].op \in Changing,
           NEW n \in Writes(req'[r]), n \notin disputed', n # Admin, Begun(req[r])
    PROVE  OnTheWay(req[r])
<1>1. n \in Writes(req[r]) /\ n \notin disputed
    BY WritesOn DEF Moved
<1> QED
    BY <1>1 DEF AnswerInv, Undisputed

LEMMA LinkOnTheWay ==
    ASSUME AccountsTypeOK, CarryInv, AnswerInv, NEW r \in Requests, Link(r),
           NEW n \in Writes(req'[r]), n \notin disputed', n # Admin
    PROVE  OnTheWay(req[r])'
<1> DEFINE q == req'[r]  p == req[r]
<1>1. /\ Moved(r) /\ Same(p, q) /\ UNCHANGED <<users, members, granted>>
      /\ link'[p.id] = "active"
    BY LinkFacts DEF Link, Quietly, AccountsTypeOK
<1>2. p.op \in {"create", "members"} /\ p.pc \in {"link", "relink"}
    <2>1. p.op \notin {"login", "refresh"} \/ q.pc # "member"
        BY <1>1 DEF Writes, Changing, Same, Alike
    <2> QED
        BY <2>1, LinkFacts
<1>3. OnTheWay(p)
    BY <1>1, <1>2, Begins DEF Same, Changing, Begun
<1>4. CASE p.pc = "link"
    <2>1. p.op = "create" /\ q.pc = "member"
        BY <1>2, <1>4, LinkFacts
    <2> QED
        BY <1>1, <1>3, <1>4, <2>1
        DEF OnTheWay, StatusOnTheWay, PasswordOnTheWay, PlacesOnTheWay, Same, Alike
<1>5. CASE p.pc = "relink"
    <2>1. \/ q.pc = "status" /\ p.op = "create"
          \/ q.pc = "reply" /\ (p.op = "create" => p.status = "active")
        BY <1>5, LinkFacts
    <2>2. StatusOnTheWay(req[r])'
        BY <1>1, <1>2, <1>3, <1>5, <2>1
        DEF OnTheWay, StatusOnTheWay, StatusStands, Last, Same, Alike
    <2>3. PasswordOnTheWay(req[r])'
        BY <1>1, <1>2, <1>3, <1>5, <2>1
        DEF OnTheWay, PasswordOnTheWay, PasswordStands, Last, Same, Alike
    <2>4. PlacesOnTheWay(req[r])'
        BY <1>1, <1>2, <1>3, <1>5, <2>1 DEF OnTheWay, PlacesOnTheWay, Same, Alike
    <2> QED
        BY <2>2, <2>3, <2>4 DEF OnTheWay
<1> QED
    BY <1>2, <1>4, <1>5

LEMMA PlacesOnTheirWay ==
    ASSUME AccountsTypeOK, CarryInv, AnswerInv, NEW r \in Requests,
           Member(r) \/ Wipe(r) \/ Grant(r),
           NEW n \in Writes(req'[r]), n \notin disputed', n # Admin
    PROVE  OnTheWay(req[r])'
<1> DEFINE q == req'[r]  p == req[r]
<1>1. Moved(r) /\ Alike(p, q) /\ UNCHANGED <<users, link, granted>> /\ p.id \in Ids
    BY MemberFacts, WipeFacts, GrantFacts DEF Same, Member, Wipe, Grant, Quietly
<1>2. /\ p.op \in {"create", "members"} /\ p.pc \in {"member", "wipe", "grant"}
      /\ q.pc \in {"wipe", "grant", "relink"} /\ q.id = p.id /\ q.status = p.status
    <2>1. CASE Member(r)
        <3>1. p.op = "create"
            BY <2>1, MemberFacts DEF Writes, Changing, Alike
        <3> QED
            BY <2>1, <3>1, MemberFacts DEF Same
    <2>2. CASE Wipe(r) \/ Grant(r)
        BY <2>2, WipeFacts, GrantFacts DEF Same
    <2> QED
        BY <2>1, <2>2
<1>3. OnTheWay(p)
    BY <1>1, <1>2, Begins DEF Changing, Begun
<1>4. StatusOnTheWay(req[r])'
    BY <1>1, <1>2, <1>3 DEF OnTheWay, StatusOnTheWay, StatusStands, Last, Alike
<1>5. PasswordOnTheWay(req[r])'
    BY <1>1, <1>2, <1>3 DEF OnTheWay, PasswordOnTheWay, PasswordStands, Last, Alike
<1>6. PlacesOnTheWay(req[r])'
    <2>1. CASE Member(r)
        <3>1. q.op \in {"create", "members"} /\ q.pc = "wipe"
            BY <1>1, <1>2, <2>1, MemberFacts DEF Alike
        <3> QED
            BY <3>1 DEF PlacesOnTheWay
    <2>2. CASE Wipe(r)
        <3>1. q.op \in {"create", "members"} /\ q.pc = "grant" /\ q.list = p.list
              /\ p.pc = "wipe" /\ q.want = p.want
            BY <1>1, <1>2, <2>2, WipeFacts DEF Same, Alike
        <3>2. p.want = Entries(p.list)
            BY <1>2, <3>1 DEF AnswerInv
        <3>3. members'[p.id] = {}
            BY <1>1, <2>2 DEF Wipe, AccountsTypeOK
        <3> QED
            BY <1>2, <3>1, <3>2, <3>3 DEF PlacesOnTheWay, Entries
    <2>3. CASE Grant(r)
        <3>1. /\ q.op \in {"create", "members"} /\ p.list # <<>> /\ q.list = Tail(p.list)
              /\ (q.pc = "relink" /\ Len(p.list) = 1) \/ q.pc = "grant"
              /\ p.pc = "grant" /\ q.want = p.want /\ p.list \in Seq(Workspaces)
            BY <1>1, <1>2, <2>3, GrantFacts, Records DEF Alike, Request
        <3>2. members[p.id] \cup Entries(p.list) = p.want
            BY <1>2, <1>3, <3>1 DEF OnTheWay, PlacesOnTheWay
        <3>3. members'[p.id] = members[p.id] \cup {Head(p.list)}
            BY <1>1, <2>3 DEF Grant, AccountsTypeOK
        <3>4. /\ Entries(p.list) = {Head(p.list)} \cup Entries(Tail(p.list))
              /\ Len(p.list) = 1 => Entries(p.list) = {Head(p.list)}
            BY <3>1, EntriesOfTail
        <3>5. /\ q.pc = "grant" => members'[q.id] \cup Entries(q.list) = q.want
              /\ q.pc \in {"relink", "status", "reply"} => members'[q.id] = q.want
            BY <1>2, <3>1, <3>2, <3>3, <3>4
        <3> QED
            BY <3>1, <3>5 DEF PlacesOnTheWay, Entries
    <2> QED
        BY <2>1, <2>2, <2>3
<1> QED
    BY <1>4, <1>5, <1>6 DEF OnTheWay

LEMMA FieldsOnTheirWay ==
    ASSUME AccountsTypeOK, CarryInv, RowInv, AnswerInv, NEW r \in Requests,
           SetStatus(r) \/ SetPassword(r),
           NEW n \in Writes(req'[r]), n \notin disputed', n # Admin
    PROVE  OnTheWay(req[r])'
<1> DEFINE q == req'[r]  p == req[r]
<1>1. /\ Moved(r) /\ Same(p, q) /\ q.pc = "reply" /\ UNCHANGED <<members, granted>>
      /\ p.id \in Ids /\ p.op \in {"create", "status", "reset"} /\ p.pc \in {"status", "reset"}
    BY SetStatusFacts, SetPasswordFacts DEF SetStatus, SetPassword, Quietly
<1>2. OnTheWay(p)
    BY <1>1, Begins DEF Same, Changing, Begun
<1>3. users[p.id] \in UserRows
    BY <1>1, HeldRow
<1>4. CASE SetStatus(r)
    <2>1. p.op \in {"create", "status"} /\ p.pc = "status"
        BY <1>4, SetStatusFacts
    <2> DEFINE row == [users[p.id] EXCEPT !.status = p.status]
    <2>2. row.status = p.status /\ row.password = users[p.id].password
        BY <1>3 DEF UserRows
    <2>3. users' = [users EXCEPT ![p.id] = row]
        BY <1>4 DEF SetStatus
    <2> HIDE DEF row
    <2>4. users'[p.id].status = p.status /\ users'[p.id].password = users[p.id].password
        BY <1>1, <2>2, <2>3 DEF AccountsTypeOK
    <2>8. link'[p.id] = p.status
        BY <1>1, <1>4 DEF SetStatus, AccountsTypeOK
    <2>5. StatusOnTheWay(req[r])'
        BY <1>1, <2>1, <2>4, <2>8 DEF StatusOnTheWay, Same, Alike
    <2>6. PasswordOnTheWay(req[r])'
        BY <1>1, <1>2, <2>1, <2>4 DEF OnTheWay, PasswordOnTheWay, PasswordStands, Last, Same, Alike
    <2>7. PlacesOnTheWay(req[r])'
        BY <1>1, <1>2, <2>1 DEF OnTheWay, PlacesOnTheWay, PlacesStand, Last, Same, Alike
    <2> QED
        BY <2>5, <2>6, <2>7 DEF OnTheWay
<1>5. CASE SetPassword(r)
    <2>1. p.op = "reset" /\ p.pc = "reset"
        BY <1>5, SetPasswordFacts
    <2> DEFINE row == [users[p.id] EXCEPT !.password = p.password]
    <2>2. row.status = users[p.id].status /\ row.password = p.password
        BY <1>3 DEF UserRows
    <2>3. users' = [users EXCEPT ![p.id] = row]
        BY <1>5 DEF SetPassword
    <2> HIDE DEF row
    <2>4. users'[p.id].status = users[p.id].status /\ users'[p.id].password = p.password
        BY <1>1, <2>2, <2>3 DEF AccountsTypeOK
    <2>8. link' = link
        BY <1>5 DEF SetPassword
    <2>5. StatusOnTheWay(req[r])'
        BY <1>1, <1>2, <2>1, <2>4, <2>8 DEF OnTheWay, StatusOnTheWay, StatusStands, Last, Same, Alike
    <2>6. PasswordOnTheWay(req[r])'
        BY <1>1, <2>1, <2>4 DEF PasswordOnTheWay, Same, Alike
    <2>7. PlacesOnTheWay(req[r])'
        BY <1>1, <1>2, <2>1 DEF OnTheWay, PlacesOnTheWay, PlacesStand, Last, Same, Alike
    <2> QED
        BY <2>5, <2>6, <2>7 DEF OnTheWay
<1> QED
    BY <1>4, <1>5

LEMMA ListOnTheWay ==
    ASSUME AccountsTypeOK, CarryInv, RowInv, AnswerInv, NEW r \in Requests, List(r),
           NEW n \in Writes(req'[r]), n \notin disputed', n # Admin
    PROVE  OnTheWay(req[r])'
<1> DEFINE q == req'[r]  p == req[r]
<1>1. /\ Moved(r) /\ Still /\ p.op = "login" /\ p.pc = "list" /\ p.id \in Ids /\ Same(p, q)
      /\ (q.pc = "default" /\ members[p.id] = {}) \/ q.pc = "issue"
    BY ListFacts
<1>2. q.op = "login" /\ q.pc = "default" /\ n = p.name /\ members[p.id] = {}
    BY <1>1 DEF Writes, Changing, Same, Alike
<1>3. link[p.id] # "none" /\ users[p.id] # Null /\ users[p.id].name = n
    BY <1>1, <1>2, HeldRow DEF Holds, Adopting, Named, HeldName
<1>4. \A o \in Requests : n \in Writes(req[o]) => req[o].pc = "look"
    <2>1. Writes(p) = {}
        BY <1>1 DEF Writes, Changing
    <2>2. \A o \in Requests \ {r} : n \notin Writes(req[o])
        BY <1>1 DEF Moved
    <2> QED
        BY <2>1, <2>2
<1>5. Stands(p.id)
    BY <1>1, <1>3, <1>4 DEF AnswerInv, Undisputed, Moved
<1>6. Last(p.id).want = {}
    BY <1>2, <1>5 DEF Stands, PlacesStand
<1>7. UNCHANGED <<users, link, members, granted>> /\ q.id = p.id
    BY <1>1 DEF Still, Same
<1>8. StatusOnTheWay(req[r])'
    BY <1>2, <1>5, <1>7 DEF StatusOnTheWay, StatusStands, Stands, Last
<1>9. PasswordOnTheWay(req[r])'
    BY <1>2, <1>5, <1>7 DEF PasswordOnTheWay, PasswordStands, Stands, Last
<1>10. PlacesOnTheWay(req[r])'
    BY <1>2, <1>6, <1>7 DEF PlacesOnTheWay, Last
<1> QED
    BY <1>8, <1>9, <1>10 DEF OnTheWay

LEMMA OwnOnTheWay ==
    ASSUME AccountsTypeOK, CarryInv, RowInv, HeadInv, AnswerInv, NEW r \in Requests, Steps(r),
           NEW n \in Writes(req'[r]), n \notin disputed', n # Admin, Begun(req'[r])
    PROVE  OnTheWay(req[r])'
<1>1. CASE Look(r) \/ Find(r)
    BY <1>1, LookFacts, FindFacts, IdleFields DEF Begun
<1>2. req'[r] # Idle
    BY IdleFields
<1>3. CASE \/ LookUp(r) \/ CheckToken(r) \/ ReadUser(r) \/ Bind(r) \/ Default(r) \/ Revoke(r)
    <2>1. req'[r].op \in {"login", "refresh"} /\ req'[r].pc \in {"bind", "user", "list", "revoke", "issue"}
        BY <1>2, <1>3, LookUpFacts, CheckTokenFacts, ReadUserFacts, BindFacts, DefaultFacts,
           RevokeFacts DEF Same, Alike
    <2> QED
        BY <2>1 DEF Writes, Changing
<1>4. CASE Reply(r) \/ Issue(r) \/ Fail(r)
    BY <1>2, <1>4, ReplyFacts, IssueFacts, FailFacts
<1> QED
    BY <1>1, <1>3, <1>4, ArriveOnTheWay, InsertOnTheWay, LinkOnTheWay, PlacesOnTheirWay,
       FieldsOnTheirWay, ListOnTheWay DEF Steps

\* An account of which the step's request wrote the name.
LEMMA ReplyStands ==
    ASSUME AccountsTypeOK, CarryInv, RowInv, AnswerInv, NEW r \in Requests, Reply(r),
           NEW u \in Ids, u = req[r].id, Undisputed(users[u].name)
    PROVE  Stands(u)'
<1> PICK p : p = req[r]
    OBVIOUS
<1>1. p.pc = "reply" /\ p.op \in Changing /\ p \in Request /\ req'[r] = Idle
    BY ReplyFacts, Records
<1>2. users[u].name \in Writes(p)
    BY <1>1, HolderWrites
<1>3. OnTheWay(req[r])
    BY <1>1, <1>2 DEF AnswerInv, Undisputed, Begun
<1>4. UNCHANGED <<users, link, members>>
    BY DEF Reply, tableVars
<1> DEFINE new == [status |-> IF p.op \in {"create", "status"} THEN p.status ELSE Last(u).status,
                   link |-> IF p.op \in {"create", "status"} THEN p.status
                            ELSE IF p.op = "members" THEN "active" ELSE Last(u).link,
                   password |-> IF p.op \in {"create", "reset"} THEN p.password ELSE Last(u).password,
                   want |-> IF p.op \in {"create", "members"} THEN p.want ELSE Last(u).want]
<1>5. /\ new.status = IF p.op \in {"create", "status"} THEN p.status ELSE Last(u).status
      /\ new.link = IF p.op \in {"create", "status"} THEN p.status
                    ELSE IF p.op = "members" THEN "active" ELSE Last(u).link
      /\ new.password = IF p.op \in {"create", "reset"} THEN p.password ELSE Last(u).password
      /\ new.want = IF p.op \in {"create", "members"} THEN p.want ELSE Last(u).want
    OBVIOUS
<1>6. new \in Answers
    <2>1. Last(u) \in Answers
        BY <1>1 DEF Last, Answers, Statuses, AccountsTypeOK
    <2> QED
        BY <1>1, <2>1 DEF Answers, Request, Statuses
<1>7. granted' = [granted EXCEPT ![u] = new]
    BY DEF Reply
<1> HIDE DEF new
<1>8. granted'[u] = new /\ new # Null
    BY <1>1, <1>6, <1>7, AccountsAssumption DEF AccountsTypeOK
<1>9. Last(u)' = new
    BY <1>8 DEF Last
<1>10. users[u].status = new.status /\ link[u] = new.link
    BY <1>1, <1>3, <1>5 DEF OnTheWay, StatusOnTheWay, StatusStands, Changing
<1>11. new.password # Null => users[u].password = new.password
    BY <1>1, <1>3, <1>5 DEF OnTheWay, PasswordOnTheWay, PasswordStands, Changing
<1>12. new.want # {} => members[u] = new.want
    BY <1>1, <1>3, <1>5 DEF OnTheWay, PlacesOnTheWay, PlacesStand, Changing
<1> QED
    BY <1>4, <1>9, <1>10, <1>11, <1>12 DEF Stands, StatusStands, PasswordStands, PlacesStand

LEMMA DefaultStands ==
    ASSUME AccountsTypeOK, CarryInv, RowInv, AnswerInv, NEW r \in Requests, Default(r),
           NEW u \in Ids, u = req[r].id, Undisputed(users[u].name)
    PROVE  Stands(u)'
<1>1. req[r].pc = "default" /\ req[r].op = "login"
    BY DefaultFacts
<1>2. users[u].name \in Writes(req[r])
    BY <1>1, HolderWrites
<1>3. OnTheWay(req[r])
    BY <1>1, <1>2 DEF AnswerInv, Begun
<1>4. StatusStands(u) /\ PasswordStands(u) /\ Last(u).want = {}
    BY <1>1, <1>3 DEF OnTheWay, StatusOnTheWay, PasswordOnTheWay, PlacesOnTheWay
<1>5. UNCHANGED <<users, link, granted>>
    BY DEF Default, Quietly
<1> QED
    BY <1>4, <1>5 DEF Stands, StatusStands, PasswordStands, PlacesStand, Last

LEMMA StandsKept ==
    ASSUME AccountsTypeOK, CarryInv, OverlapInv, RowInv, HeadInv, AnswerInv,
           NEW r \in Requests, Steps(r), NEW u \in Ids, link'[u] # "none",
           Undisputed(users[u].name)',
           \A o \in Requests : users'[u].name \in Writes(req'[o]) => req'[o].pc = "look"
    PROVE  Stands(u)'
<1> DEFINE p == req[r]  q == req'[r]
<1> PICK n : n = users'[u].name
    OBVIOUS
<1>1. Moved(r) /\ n \notin disputed' /\ n \notin disputed /\ n # Admin
    BY StepsMove DEF Undisputed, Moved
<1>2. \A o \in Requests \ {r} : n \in Writes(req[o]) => req[o].pc = "look"
    BY <1>1 DEF Moved
<1>3. CASE n \notin Writes(p)
    BY <1>2, <1>3, OthersStand
<1>4. CASE n \in Writes(p)
    <2>1. p.op \in Changing \/ p.pc = "default"
        BY <1>1, <1>4 DEF Writes
    <2>2. ~Fail(r) /\ ~Arrive(r)
        BY <1>1, <1>4, <2>1, FailFacts, ArriveFacts, Records DEF Path, Changing, Ops
    <2>3. CASE Look(r)
        <3>1. UNCHANGED <<users, link, members, granted>> /\ p.pc = "look" /\ p.op = "create"
            BY <2>3, LookFacts DEF Still
        <3>2. Stands(u)
            BY <1>1, <1>2, <3>1 DEF AnswerInv, Undisputed
        <3> QED
            BY <3>1, <3>2, SameStands
    <2>4. CASE Reply(r) \/ Default(r)
        <3>1. (p.op \in Changing /\ p.pc = "reply") \/ p.pc = "default"
            BY <2>4, ReplyFacts, DefaultFacts
        <3>2. p.id \in Ids
            BY <2>4, ReplyFacts, DefaultFacts
        <3>3. users[p.id].name \in Writes(p) /\ link[p.id] # "none"
            BY <3>1, <3>2, HolderWrites, HeldRow DEF Holds, Adopting
        <3>4. users[p.id].name = n
            BY <1>1, <1>4, <3>3 DEF Writes
        <3>5. UNCHANGED <<users, link>>
            BY <2>4 DEF Reply, Default, tableVars
        <3>6. u = p.id
            BY <1>1, <3>2, <3>3, <3>4, <3>5 DEF RowInv, OneAccountPerName
        <3>7. Undisputed(users[u].name)
            BY <1>1, <3>5 DEF Undisputed
        <3> QED
            BY <2>4, <3>6, <3>7, ReplyStands, DefaultStands
    <2>5. CASE ~Look(r) /\ ~Reply(r) /\ ~Default(r)
        <3>1. /\ p.op \in Changing /\ Alike(p, q) /\ q.pc # "look"
            BY <2>1, <2>2, <2>5, FindFacts, InsertFacts, LinkFacts, MemberFacts, WipeFacts, GrantFacts,
               SetStatusFacts, SetPasswordFacts, LookUpFacts, CheckTokenFacts, ReadUserFacts,
               BindFacts, ListFacts, RevokeFacts, IssueFacts
            DEF Steps, Same, Changing
        <3>2. n \in Writes(q)
            BY <1>4, <3>1, WritesOn
        <3> QED
            BY <3>1, <3>2
    <2> QED
        BY <2>3, <2>4, <2>5
<1> QED
    BY <1>3, <1>4

LEMMA WantsKept ==
    ASSUME AccountsTypeOK, CarryInv, RowInv, HeadInv, AnswerInv, NEW r \in Requests, Steps(r),
           NEW a \in Requests, req'[a].op \in {"create", "members"},
           req'[a].pc \in {"look", "find", "insert", "link", "member", "wipe"}
    PROVE  req'[a].want = Entries(req'[a].list)
<1>1. Moved(r)
    BY StepsMove
<1>2. CASE a # r
    BY <1>1, <1>2 DEF Moved, AnswerInv
<1>3. CASE a = r
    <2>1. CASE Arrive(r)
        BY <1>3, <2>1, ArriveFacts
    <2>2. CASE ~Arrive(r)
        <3>1. /\ req'[r].op = req[r].op /\ req'[r].want = req[r].want /\ req'[r].list = req[r].list
              /\ req[r].pc \in {"look", "find", "insert", "link", "member", "wipe"}
            BY <1>3, <2>2, IdleFields, LookFacts, FindFacts, InsertFacts, LinkFacts, MemberFacts,
               WipeFacts, GrantFacts, SetStatusFacts, SetPasswordFacts, ReplyFacts, LookUpFacts,
               CheckTokenFacts, ReadUserFacts, BindFacts, ListFacts, DefaultFacts, RevokeFacts,
               IssueFacts, FailFacts
            DEF Steps, Same, Alike
        <3> QED
            BY <1>3, <3>1 DEF AnswerInv
    <2> QED
        BY <2>1, <2>2
<1> QED
    BY <1>2, <1>3

LEMMA StepsAnswers ==
    ASSUME AccountsTypeOK, CarryInv, OverlapInv, RowInv, HeadInv, AnswerInv,
           NEW r \in Requests, Steps(r)
    PROVE  AnswerInv'
<1>1. ASSUME NEW a \in Requests, NEW n \in Writes(req'[a]), n \notin disputed', n # Admin,
             Begun(req'[a])
      PROVE  OnTheWay(req[a])'
    <2>1. CASE a = r
        BY <1>1, <2>1, OwnOnTheWay
    <2>2. CASE a # r
        <3>1. req'[a] = req[a] /\ n \notin disputed
            BY <1>1, <2>2, StepsMove DEF Moved
        <3> QED
            BY <1>1, <2>2, <3>1, OthersOnTheWay
    <2> QED
        BY <2>1, <2>2
<1>2. \A a \in Requests : \A n \in Writes(req[a])' :
         (Undisputed(n) /\ Begun(req[a]))' => OnTheWay(req[a])'
    BY <1>1 DEF Undisputed, Writes, Begun
<1>3. \A u \in Ids :
         (/\ link[u] # "none" /\ Undisputed(users[u].name)
          /\ \A o \in Requests : users[u].name \in Writes(req[o]) => req[o].pc = "look")'
         => Stands(u)'
    <2> SUFFICES ASSUME NEW u \in Ids, link'[u] # "none", Undisputed(users[u].name)',
                        \A o \in Requests : users'[u].name \in Writes(req[o])' => req'[o].pc = "look"
                 PROVE  Stands(u)'
        OBVIOUS
    <2>1. \A o \in Requests : users'[u].name \in Writes(req'[o]) => req'[o].pc = "look"
        BY DEF Writes
    <2> QED
        BY <2>1, StandsKept
<1>4. \A a \in Requests :
         (/\ req[a].op \in {"create", "members"}
          /\ req[a].pc \in {"look", "find", "insert", "link", "member", "wipe"})'
         => (req[a].want = Entries(req[a].list))'
    BY WantsKept DEF Entries
<1> QED
    BY <1>2, <1>3, <1>4 DEF AnswerInv

LEMMA ExpireRest ==
    ASSUME AccountsTypeOK, ActiveInv, AnswerInv, NEW c \in Tokens, Expire(c)
    PROVE  ActiveInv' /\ AnswerInv'
<1>1. UNCHANGED <<users, link, members, req, met, granted, disputed, misdealt>>
    BY ExpireToken
<1>2. ActiveInv'
    BY <1>1 DEF ActiveInv, HalfActive, TokensOfActive
<1>3. AnswerInv'
    BY <1>1 DEF AnswerInv, Undisputed, Writes, Begun, Stands, StatusStands, PasswordStands,
                PlacesStand, OnTheWay, StatusOnTheWay, PasswordOnTheWay, PlacesOnTheWay, Last, Entries
<1> QED
    BY <1>2, <1>3

-----------------------------------------------------------------------------
\* The invariant of the accounts.
AccountsInv ==
    /\ AccountsTypeOK /\ CarryInv /\ OverlapInv /\ RowInv /\ HeadInv /\ ActiveInv /\ AnswerInv

\* At first there is the administrator and at most one other, both active, the
\* other perhaps of another tenant.
LEMMA FirstUsers ==
    ASSUME AccountsInit
    PROVE  /\ users \in [Ids -> UserRows \cup {Null}]
           /\ link \in [Ids -> Statuses \cup {"none"}]
           /\ members \in [Ids -> SUBSET Workspaces]
           /\ users[AdminId] # Null /\ users[AdminId].name = Admin
           /\ \A v \in Ids : /\ users[v] = Null => link[v] = "none"
                             /\ users[v] # Null => /\ link[v] \in {"active", "none"}
                                                   /\ users[v].status = "active"
           /\ link[AdminId] = "active"
           /\ \A v \in Ids \ {AdminId} : link[v] # "none" => users[v].name # Admin
           /\ \A v, w \in Ids \ {AdminId} : users[v] # Null /\ users[w] # Null => v = w
<1> DEFINE a == <<AdminId, Admin, AdminPassword, Home, "active">>
<1>1. PICK known \in Known : HasUsers(known \cup {a})
    BY DEF AccountsInit
<1> DEFINE entries == known \cup {a}
           Of(u) == CHOOSE e \in entries : e[1] = u
<1>2. \/ entries = {a}
      \/ \E u \in Ids \ {AdminId}, n \in Names, p \in Passwords, w \in Workspaces :
            \/ entries = {<<u, n, p, w, "active">>, a} /\ n # Admin
            \/ entries = {<<u, n, p, w, "none">>, a}
    BY AccountsAssumption DEF Known, Somebody
<1>3. /\ a \in entries /\ \A e \in entries : e[1] = AdminId => e = a
      /\ \A e \in entries : /\ e[1] \in Ids /\ e[2] \in Names /\ e[3] \in Passwords
                            /\ e[4] \in Workspaces /\ e[5] \in {"active", "none"}
      /\ \A e \in entries : e # a /\ e[5] # "none" => e[1] # AdminId /\ e[2] # Admin
      /\ \A e, f \in entries : e # a /\ f # a => e = f
      /\ a[1] = AdminId /\ a[2] = Admin /\ a[5] = "active"
    BY <1>2, AccountsAssumption
<1> DEFINE There(v) == \E e \in entries : e[1] = v
<1>4. /\ users = [v \in Ids |-> IF There(v)
                       THEN [name |-> Of(v)[2], password |-> Of(v)[3], status |-> "active"]
                       ELSE Null]
      /\ link = [v \in Ids |-> IF There(v) THEN Of(v)[5] ELSE "none"]
      /\ members = [v \in Ids |-> IF There(v) /\ Of(v)[5] = "active" THEN {Of(v)[4]} ELSE {}]
    BY <1>1 DEF HasUsers
<1>5. \A v : There(v) => Of(v) \in entries /\ Of(v)[1] = v
    OBVIOUS
<1> HIDE DEF a, entries, Of
<1>6. ASSUME NEW v \in Ids
      PROVE  /\ There(v) => /\ users[v] \in UserRows /\ users[v] # Null
                            /\ users[v].status = "active" /\ users[v].name = Of(v)[2]
                            /\ members[v] \in SUBSET Workspaces
                            /\ link[v] = Of(v)[5]
             /\ ~There(v) => users[v] = Null /\ members[v] = {} /\ link[v] = "none"
    <2>1. CASE There(v)
        <3>1. Of(v) \in entries
            BY <1>5, <2>1
        <3>2. [name |-> Of(v)[2], password |-> Of(v)[3], status |-> "active"] \in UserRows
            BY <1>3, <3>1 DEF UserRows, Statuses
        <3>3. users[v] = [name |-> Of(v)[2], password |-> Of(v)[3], status |-> "active"]
            BY <1>4, <1>6, <2>1
        <3>4. users[v].status = "active" /\ users[v].name = Of(v)[2]
            BY <3>3
        <3>5. link[v] = Of(v)[5] /\ members[v] \subseteq {Of(v)[4]}
            BY <1>4, <1>6, <2>1
        <3>6. Of(v)[4] \in Workspaces
            BY <1>3, <3>1
        <3>7. users[v] \in UserRows
            BY <3>2, <3>3
        <3> QED
            BY <2>1, <3>4, <3>5, <3>6, <3>7, AccountsAssumption
    <2>2. CASE ~There(v)
        BY <1>4, <1>6, <2>2
    <2> QED
        BY <2>1, <2>2
<1>7. There(AdminId) /\ Of(AdminId) = a
    BY <1>3, <1>5
<1>8. ASSUME NEW v \in Ids \ {AdminId}, users[v] # Null
      PROVE  /\ Of(v) \in entries /\ Of(v) # a /\ Of(v)[1] = v
             /\ link[v] # "none" => users[v].name # Admin
    BY <1>3, <1>5, <1>6, <1>8
<1>9. \A v, w \in Ids \ {AdminId} : users[v] # Null /\ users[w] # Null => v = w
    BY <1>3, <1>8
<1>10. /\ users \in [Ids -> UserRows \cup {Null}] /\ members \in [Ids -> SUBSET Workspaces]
    <2>1. \A v \in Ids : users[v] \in UserRows \cup {Null} /\ members[v] \in SUBSET Workspaces
        BY <1>6
    <2>2. users = [v \in Ids |-> users[v]] /\ members = [v \in Ids |-> members[v]]
        BY <1>4
    <2> HIDE DEF There
    <2> QED
        BY <2>1, <2>2
<1>12. users[AdminId] # Null /\ users[AdminId].name = Admin /\ link[AdminId] = "active"
    BY <1>3, <1>6, <1>7, AccountsAssumption
<1>13. \A v \in Ids : /\ users[v] = Null => link[v] = "none"
                      /\ users[v] # Null => /\ link[v] \in {"active", "none"}
                                            /\ users[v].status = "active"
    BY <1>3, <1>5, <1>6
<1>11. link \in [Ids -> Statuses \cup {"none"}]
    <2>1. \A v \in Ids : link[v] \in Statuses \cup {"none"}
        BY <1>13 DEF Statuses
    <2>2. link = [v \in Ids |-> link[v]]
        BY <1>4
    <2> HIDE DEF There
    <2> QED
        BY <2>1, <2>2
<1>14. \A v \in Ids \ {AdminId} : link[v] # "none" => users[v].name # Admin
    BY <1>8, <1>13
<1> HIDE DEF There
<1> QED
    BY <1>9, <1>10, <1>11, <1>12, <1>13, <1>14

LEMMA AccountsInvInit ==
    ASSUME AccountsInit
    PROVE  AccountsInv
<1>1. /\ tokens = [t \in Tokens |-> Null] /\ req = [r \in Requests |-> Idle]
      /\ count = 0 /\ faults = 0 /\ granted = [u \in Ids |-> Null]
      /\ met = {} /\ disputed = {} /\ out = {} /\ raced = {} /\ misdealt = {}
    BY DEF AccountsInit
<1>2. AccountsTypeOK
    BY <1>1, FirstUsers, IdleRequest, AccountsAssumption DEF AccountsTypeOK
<1>3. CarryInv
    BY <1>1, IdleRequest DEF CarryInv
<1>4. OverlapInv
    BY <1>1, IdleFields DEF OverlapInv
<1>5. RowInv
    <2>1. OneAccountPerName
        <3> SUFFICES ASSUME NEW u \in Ids, NEW v \in Ids, u # v, link[u] # "none",
                            link[v] # "none", users[u].name = users[v].name
                     PROVE  FALSE
            BY DEF OneAccountPerName
        <3> QED
            BY FirstUsers
    <2>2. \A u \in Ids : link[u] # "none" => users[u] # Null
        BY FirstUsers
    <2>3. AdminId \in Ids /\ link[AdminId] # "none" /\ users[AdminId] # Null
          /\ users[AdminId].name = Admin
        BY FirstUsers, AccountsAssumption
    <2>4. \A r \in Requests : req[r].id = Null /\ FirstOfName(req[r])
        BY <1>1, IdleFields DEF FirstOfName
    <2> QED
        BY <1>1, <2>1, <2>2, <2>3, <2>4 DEF RowInv
<1>6. HeadInv
    <2>1. \A f : Unrevoked(f) = {}
        BY <1>1 DEF Unrevoked
    <2>2. \A r \in Requests : req[r].op = "idle"
        BY <1>1, IdleFields
    <2> QED
        BY <1>1, <2>1, <2>2 DEF HeadInv
<1>7. ActiveInv
    <2>1. \A u \in Ids : users[u] # Null => ~HalfActive(u)
        BY FirstUsers DEF HalfActive
    <2>2. \A r \in Requests : req[r].op = "idle" /\ req[r].pc = "idle"
        BY <1>1, IdleFields
    <2>3. TokensOfActive
        BY <1>1 DEF TokensOfActive
    <2> QED
        BY <2>1, <2>2, <2>3 DEF ActiveInv
<1>8. AnswerInv
    <2>1. \A u \in Ids : Last(u) = [status |-> "active", link |-> "active", password |-> Null,
                                    want |-> {}]
        BY <1>1 DEF Last
    <2>2. \A u \in Ids : /\ Last(u).status = "active" /\ Last(u).link = "active"
                         /\ Last(u).password = Null /\ Last(u).want = {}
        BY <2>1
    <2>3. \A u \in Ids : link[u] # "none" => Stands(u)
        BY <2>2, FirstUsers DEF Stands, StatusStands, PasswordStands, PlacesStand
    <2>4. \A r \in Requests : Writes(req[r]) = {} /\ req[r].op = "idle"
        BY <1>1, IdleFields
    <2> QED
        BY <2>3, <2>4 DEF AnswerInv
<1> QED
    BY <1>2, <1>3, <1>4, <1>5, <1>6, <1>7, <1>8 DEF AccountsInv

LEMMA AccountsInvStutter ==
    ASSUME AccountsInv, UNCHANGED accountVars
    PROVE  AccountsInv'
<1>1. UNCHANGED <<users, link, members, tokens, req, count, faults, met, granted, disputed, out,
                  raced, misdealt>>
    BY DEF accountVars, tableVars, historyVars
<1>2. AccountsTypeOK' /\ CarryInv' /\ OverlapInv'
    BY <1>1 DEF AccountsInv, AccountsTypeOK, CarryInv, OverlapInv
<1>3. RowInv'
    BY <1>1 DEF AccountsInv, RowInv, OneAccountPerName, FirstOfName, Found, Holds, Adopting
<1>4. HeadInv' /\ ActiveInv'
    BY <1>1 DEF AccountsInv, HeadInv, Unrevoked, ActiveInv, HalfActive, TokensOfActive
<1>5. AnswerInv'
    BY <1>1 DEF AccountsInv, AnswerInv, Undisputed, Stands, StatusStands, PasswordStands,
                PlacesStand, OnTheWay, StatusOnTheWay, PasswordOnTheWay, PlacesOnTheWay, Last, Entries
<1> QED
    BY <1>2, <1>3, <1>4, <1>5 DEF AccountsInv

\* Whatever number of accounts, requests and tokens there is.
THEOREM AccountsInvariant == AccountsSpec => []AccountsInv
<1>1. AccountsInit => AccountsInv
    BY AccountsInvInit
<1>2. AccountsInv /\ [AccountsNext]_accountVars => AccountsInv'
    <2> SUFFICES ASSUME AccountsInv, [AccountsNext]_accountVars PROVE AccountsInv'
        OBVIOUS
    <2>1. ASSUME NEW r \in Requests, Steps(r) PROVE AccountsInv'
        <3>1. CarryInv' /\ OverlapInv'
            BY <2>1, StepsMove, RecordsKept DEF AccountsInv
        <3> QED
            BY <2>1, <3>1, StepsTyped, StepsRows, StepsHeads, StepsActive, StepsAnswers DEF AccountsInv
    <2>2. ASSUME NEW t \in Tokens, Expire(t) PROVE AccountsInv'
        BY <2>2, ExpireKeeps, ExpireRest DEF AccountsInv
    <2> QED
        BY <2>1, <2>2, AccountsInvStutter DEF AccountsNext, Steps
<1> QED
    BY <1>1, <1>2, PTL DEF AccountsSpec

\* The tables hold what the users.* methods last acknowledged of an account.
THEOREM AcknowledgedAccountsStand == AccountsSpec => []AccountsAsAcknowledged
<1>1. AccountsInv => AccountsAsAcknowledged
    <2> SUFFICES ASSUME AccountsInv, NEW u \in Ids, Settled(u)
                 PROVE  /\ users[u].status = granted[u].status
                        /\ link[u] = granted[u].link
                        /\ granted[u].password # Null => users[u].password = granted[u].password
                        /\ granted[u].want # {} => members[u] = granted[u].want
        BY DEF AccountsAsAcknowledged
    <2>1. link[u] # "none" /\ Last(u) = granted[u]
        BY DEF AccountsInv, RowInv, Settled, Last
    <2>2. Stands(u)
        BY <2>1 DEF AccountsInv, AnswerInv, Settled, Writing, Undisputed
    <2> QED
        BY <2>1, <2>2 DEF Stands, StatusStands, PasswordStands, PlacesStand
<1> QED
    BY <1>1, AccountsInvariant, PTL

\* A name belongs to one account, unless two requests created it at once or one
\* account came in from another tenant.
THEOREM NamesAreUnique == AccountsSpec => []OneAccountPerName
<1>1. AccountsInv => OneAccountPerName
    BY DEF AccountsInv, RowInv
<1> QED
    BY <1>1, AccountsInvariant, PTL

\* Tokens are given to users who were active in between, or are disputed.
THEOREM TokensGoToActive == AccountsSpec => []TokensOfActive
<1>1. AccountsInv => TokensOfActive
    BY DEF AccountsInv, ActiveInv
<1> QED
    BY <1>1, AccountsInvariant, PTL

\* A login has one token that is good for a refresh, and none after a logout.
THEOREM OneHeadOfALogin == AccountsSpec => []OneHeadPerFamily
<1>1. AccountsInv => OneHeadPerFamily
    <2> SUFFICES ASSUME AccountsInv, NEW f \in Tokens \ raced, NEW s \in Live(f), NEW t \in Live(f)
                 PROVE  s = t /\ f \notin out
        BY DEF OneHeadPerFamily
    <2>1. Live(f) \subseteq Unrevoked(f)
        BY DEF Live, Unrevoked
    <2> QED
        BY <2>1 DEF AccountsInv, HeadInv
<1> QED
    BY <1>1, AccountsInvariant, PTL
=============================================================================
