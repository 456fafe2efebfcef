------------------------- MODULE SkillInstallProofs -------------------------
(***************************************************************************)
(* What holds of the installation of a skill for any number of scopes,     *)
(* versions, contents, failed system calls and deaths of the process.      *)
(***************************************************************************)
EXTENDS SkillInstall, WellFoundedInduction, TLAPS

\* What a request may leave of the version directory of its scope.
Contents == Bodies \cup {Absent}
MaybeArtifact == Artifacts \cup {Absent}

LEMMA ArtifactParts ==
    ASSUME NEW a \in MaybeArtifact, a # Absent
    PROVE  a \in Artifacts /\ a.version \in Versions /\ a.body \in Bodies
  BY DEF MaybeArtifact, Artifacts

TypedFor(rec) == rec \in [Scopes -> MaybeArtifact]

\* TypeOK with its value sets named.
LEMMA TypeNamed ==
    TypeOK <=> /\ up \in BOOLEAN /\ faults \in Nat
               /\ artifact \in MaybeArtifact
               /\ TypedFor(record) /\ TypedFor(acked)
               /\ files \in [Scopes -> [Versions -> Contents]]
               /\ disk \in [artifact : MaybeArtifact, record : [Scopes -> MaybeArtifact]]
               /\ doubted \subseteq Scopes
  BY DEF TypeOK, TypedFor, MaybeArtifact, Contents
-----------------------------------------------------------------------------
\* AcknowledgedSurvives for one scope; the two requests disturb no other one.
SurvivesAt(s) ==
    /\ disk.record[s] = acked[s]
    /\ up => record[s] = acked[s]
    /\ acked[s] # Absent => files[s][acked[s].version] = acked[s].body

IInv == TypeOK /\ AcknowledgedSurvives

LEMMA InvParts == AcknowledgedSurvives <=> \A s \in Scopes \ doubted : SurvivesAt(s)
  BY DEF AcknowledgedSurvives, SurvivesAt

LEMMA InitEstablishesIInv == Init => IInv
<1> SUFFICES ASSUME Init PROVE IInv
  OBVIOUS
<1>1. TypeOK
  BY SkillInstallAssumption DEF Init, TypeOK, Memory
<1>2. AcknowledgedSurvives
  BY DEF Init, AcknowledgedSurvives, Memory
<1>. QED  BY <1>1, <1>2 DEF IInv

\* A bundle changes what the next installation takes, and no installation.
LEMMA PublishKeepsIInv ==
    ASSUME IInv, NEW a \in Artifacts, Publish(a) \/ PublishFails(a)
    PROVE  IInv'
<1> USE DEF IInv, memoryVars, historyVars
<1>1. /\ UNCHANGED <<up, record, files, acked, doubted>> /\ up /\ artifact' = a
      /\ disk' = disk \/ disk' = [artifact |-> artifact', record |-> record']
      /\ faults' \in Nat
  BY DEF Publish, PublishFails, Saved, TypeOK
<1>2. TypeOK'
  BY <1>1, TypeNamed DEF TypeOK
<1>3. ASSUME NEW s \in Scopes \ doubted PROVE SurvivesAt(s)'
  BY <1>1, <1>3, InvParts DEF SurvivesAt
<1>. QED  BY <1>1, <1>2, <1>3 DEF AcknowledgedSurvives, SurvivesAt

\* The outcomes of a request for scope s: acknowledged with everything in
\* place, or the scope in doubt, or only a fault counted.
Settled(s, r) ==
    /\ record' = [record EXCEPT ![s] = r]
    /\ acked' = [acked EXCEPT ![s] = r]
    /\ doubted' = doubted \ {s}
    /\ disk' = [artifact |-> artifact', record |-> record']
    /\ r # Absent => files'[s][r.version] = r.body
    /\ up /\ up' = up
Doubtful(s) ==
    /\ doubted' = doubted \cup {s}
    /\ UNCHANGED <<acked, disk>>
    /\ up
    /\ record' = record \/ \E r \in MaybeArtifact : record' = [record EXCEPT ![s] = r]
Traceless ==
    /\ UNCHANGED <<record, files, disk, acked, doubted>>
    /\ up

LEMMA RequestKeepsIInv ==
    ASSUME IInv, NEW s \in Scopes, up' \in BOOLEAN, faults' \in Nat, artifact' = artifact,
           files' = files \/ \E v \in Versions, b \in Contents : files' = [files EXCEPT ![s][v] = b],
           (\E r \in MaybeArtifact : Settled(s, r)) \/ Doubtful(s) \/ Traceless
    PROVE  IInv'
<1>1. TypeOK /\ \A u \in Scopes \ doubted : SurvivesAt(u)
  BY InvParts DEF IInv
<1>2. files' \in [Scopes -> [Versions -> Contents]] /\ \A u \in Scopes \ {s} : files'[u] = files[u]
  <2>1. files \in [Scopes -> [Versions -> Contents]]
    BY <1>1, TypeNamed
  <2>2. CASE files' = files
    BY <2>1, <2>2
  <2>3. ASSUME NEW v \in Versions, NEW b \in Contents, files' = [files EXCEPT ![s][v] = b]
        PROVE  files' \in [Scopes -> [Versions -> Contents]] /\ \A u \in Scopes \ {s} : files'[u] = files[u]
    BY <2>1, <2>3
  <2>. QED  BY <2>2, <2>3
<1>3. CASE \E r \in MaybeArtifact : Settled(s, r)
  <2>1. PICK r \in MaybeArtifact : Settled(s, r)
    BY <1>3
  <2>2. /\ TypedFor(record') /\ record'[s] = r /\ \A u \in Scopes \ {s} : record'[u] = record[u]
        /\ TypedFor(acked') /\ acked'[s] = r /\ \A u \in Scopes \ {s} : acked'[u] = acked[u]
    BY <1>1, <2>1, TypeNamed DEF Settled, TypedFor
  <2>3. TypeOK'
    <3>1. /\ TypedFor(record') /\ TypedFor(acked') /\ doubted' \subseteq Scopes
          /\ disk' \in [artifact : MaybeArtifact, record : [Scopes -> MaybeArtifact]]
      BY <1>1, <2>1, <2>2, TypeNamed DEF Settled, TypedFor
    <3>. QED  BY <1>1, <1>2, <3>1, TypeNamed DEF TypeOK, TypedFor, MaybeArtifact, Contents
  <2>4. disk'.record = record'
    BY <2>1 DEF Settled
  <2>5. ASSUME NEW u \in Scopes \ doubted' PROVE SurvivesAt(u)'
    <3>1. CASE u = s
      BY <2>1, <2>2, <2>4, <3>1 DEF Settled, SurvivesAt
    <3>2. CASE u # s
      <4>1. SurvivesAt(u)
        BY <1>1, <2>1, <3>2 DEF Settled
      <4>. QED  BY <1>2, <2>1, <2>2, <2>4, <3>2, <4>1 DEF Settled, SurvivesAt
    <3>. QED  BY <3>1, <3>2
  <2>. QED  BY <2>3, <2>5 DEF IInv, AcknowledgedSurvives, SurvivesAt
<1>4. CASE Doubtful(s) \/ Traceless
  <2>1. TypedFor(record') /\ \A u \in Scopes \ {s} : record'[u] = record[u]
    BY <1>1, <1>4, TypeNamed DEF Doubtful, Traceless, TypedFor
  <2>2. TypeOK'
    BY <1>1, <1>2, <1>4, <2>1, TypeNamed
       DEF TypeOK, Doubtful, Traceless, TypedFor, MaybeArtifact, Contents
  <2>3. ASSUME NEW u \in Scopes \ doubted' PROVE SurvivesAt(u)'
    <3>1. SurvivesAt(u)
      BY <1>1, <1>4 DEF Doubtful, Traceless
    <3>2. CASE u # s
      BY <1>2, <1>4, <2>1, <3>1, <3>2 DEF Doubtful, Traceless, SurvivesAt
    <3>3. CASE Traceless
      BY <3>1, <3>3 DEF Traceless, SurvivesAt
    <3>. QED  BY <1>4, <3>2, <3>3 DEF Doubtful
  <2>. QED  BY <2>2, <2>3 DEF IInv, AcknowledgedSurvives, SurvivesAt
<1>. QED  BY <1>3, <1>4

-----------------------------------------------------------------------------
LEMMA InstallKeepsIInv ==
    ASSUME IInv, NEW s \in Scopes, Install(s)
    PROVE  IInv'
<1>1. /\ artifact \in Artifacts /\ artifact.version \in Versions /\ artifact.body \in Contents
      /\ artifact \in MaybeArtifact /\ up \in BOOLEAN /\ faults \in Nat
  BY ArtifactParts, TypeNamed DEF IInv, Install, Contents
<1>2. Settled(s, artifact)
  <2>1. files \in [Scopes -> [Versions -> Contents]]
    BY TypeNamed DEF IInv
  <2>2. files'[s][artifact.version] = artifact.body
    BY <1>1, <2>1 DEF Install, Put
  <2>. QED  BY <2>2 DEF Install, Settled, Acknowledge, Saved
<1>. QED  BY <1>1, <1>2, RequestKeepsIInv DEF Install, Put

\* An installation that stops has either done nothing to an installation yet
\* or leaves its scope in doubt.
LEMMA InstallStopsKeepsIInv ==
    ASSUME IInv, NEW s \in Scopes, NEW dies \in BOOLEAN,
           NEW done \in {"written", "removed", "renamed", "recorded"}, InstallStops(s, done, dies)
    PROVE  IInv'
<1>1. /\ artifact \in Artifacts /\ artifact.version \in Versions /\ artifact.body \in Contents
      /\ artifact \in MaybeArtifact /\ Absent \in Contents /\ faults \in Nat
  BY ArtifactParts, TypeNamed DEF IInv, InstallStops, Contents
<1>2. up' \in BOOLEAN /\ faults' \in Nat /\ artifact' = artifact
  BY <1>1 DEF InstallStops
<1>3. files' = files \/ \E v \in Versions, b \in Contents : files' = [files EXCEPT ![s][v] = b]
  BY <1>1 DEF InstallStops, Put
<1>4. Doubtful(s) \/ Traceless
  BY <1>1 DEF InstallStops, Doubtful, Traceless
<1>. QED  BY <1>2, <1>3, <1>4, RequestKeepsIInv

LEMMA UninstallKeepsIInv ==
    ASSUME IInv, NEW s \in Scopes, Uninstall(s)
    PROVE  IInv'
<1>1. record[s] \in MaybeArtifact
  BY TypeNamed DEF IInv, TypedFor
<1>2. /\ record[s].version \in Versions /\ Absent \in Contents /\ Absent \in MaybeArtifact
      /\ up \in BOOLEAN /\ faults \in Nat
  BY <1>1, ArtifactParts, TypeNamed DEF IInv, Uninstall, Contents, MaybeArtifact
<1>3. Settled(s, Absent)
  BY DEF Uninstall, Settled, Acknowledge, Saved
<1>. QED  BY <1>2, <1>3, RequestKeepsIInv DEF Uninstall, Put

LEMMA UninstallStopsKeepsIInv ==
    ASSUME IInv, NEW s \in Scopes, NEW dies \in BOOLEAN,
           NEW done \in {"removed", "deleted"}, UninstallStops(s, done, dies)
    PROVE  IInv'
<1>1. record[s] \in MaybeArtifact
  BY TypeNamed DEF IInv, TypedFor
<1>2. /\ record[s].version \in Versions /\ Absent \in Contents /\ Absent \in MaybeArtifact
      /\ faults \in Nat
  BY <1>1, ArtifactParts, TypeNamed DEF IInv, UninstallStops, Contents, MaybeArtifact
<1>3. up' \in BOOLEAN /\ faults' \in Nat /\ artifact' = artifact
  BY <1>2 DEF UninstallStops
<1>4. Doubtful(s)
  BY <1>2 DEF UninstallStops, Doubtful
<1>. QED  BY <1>2, <1>3, <1>4, RequestKeepsIInv DEF UninstallStops, Put

\* The state file holds what was acknowledged, so memory does again.
LEMMA RestartKeepsIInv ==
    ASSUME IInv, Restart
    PROVE  IInv'
<1>1. TypeOK'
  BY DEF IInv, TypeOK, Restart, historyVars
<1>2. AcknowledgedSurvives'
  BY DEF IInv, AcknowledgedSurvives, Restart, historyVars
<1>. QED  BY <1>1, <1>2 DEF IInv

LEMMA RestartEmptyKeepsIInv ==
    ASSUME IInv, RestartEmpty
    PROVE  IInv'
<1>1. up' \in BOOLEAN
  <2>1. up' = TRUE
    BY DEF RestartEmpty
  <2>. QED  BY <2>1
<1>2. TypeOK'
  BY <1>1 DEF IInv, TypeOK, RestartEmpty
<1>3. AcknowledgedSurvives'
  <2>1. ASSUME NEW s \in Scopes \ doubted'
        PROVE  s \notin doubted /\ disk.record[s] = Absent /\ acked[s] = Absent
    BY DEF IInv, AcknowledgedSurvives, RestartEmpty
  <2>. QED  BY <2>1 DEF AcknowledgedSurvives, RestartEmpty
<1>. QED  BY <1>2, <1>3 DEF IInv

LEMMA StutterKeepsIInv ==
    ASSUME IInv, UNCHANGED vars
    PROVE  IInv'
<1>1. TypeOK'
  BY DEF IInv, TypeOK, vars, memoryVars, historyVars
<1>2. AcknowledgedSurvives'
  BY DEF IInv, AcknowledgedSurvives, vars, memoryVars, historyVars
<1>. QED  BY <1>1, <1>2 DEF IInv

LEMMA NextKeepsIInv == IInv /\ [Next]_vars => IInv'
<1> SUFFICES ASSUME IInv, [Next]_vars PROVE IInv'
  OBVIOUS
<1>1. ASSUME NEW a \in Artifacts, Publish(a) \/ PublishFails(a) PROVE IInv'
  BY <1>1, PublishKeepsIInv
<1>2. ASSUME NEW s \in Scopes, Install(s) PROVE IInv'
  BY <1>2, InstallKeepsIInv
<1>3. ASSUME NEW s \in Scopes, Uninstall(s) PROVE IInv'
  BY <1>3, UninstallKeepsIInv
<1>4. ASSUME NEW s \in Scopes, UninstallNothing(s) PROVE IInv'
  BY <1>4, StutterKeepsIInv DEF UninstallNothing
<1>5. ASSUME NEW s \in Scopes, NEW dies \in BOOLEAN,
             NEW done \in {"written", "removed", "renamed", "recorded"}, InstallStops(s, done, dies)
      PROVE  IInv'
  BY <1>5, InstallStopsKeepsIInv
<1>6. ASSUME NEW s \in Scopes, NEW dies \in BOOLEAN,
             NEW done \in {"removed", "deleted"}, UninstallStops(s, done, dies)
      PROVE  IInv'
  BY <1>6, UninstallStopsKeepsIInv
<1>7. CASE Restart \/ RestartEmpty
  BY <1>7, RestartKeepsIInv, RestartEmptyKeepsIInv
<1>8. CASE UNCHANGED vars
  BY <1>8, StutterKeepsIInv
<1>. QED  BY <1>1, <1>2, <1>3, <1>4, <1>5, <1>6, <1>7, <1>8 DEF Next

\* The invariant, in every reachable state.
THEOREM InstallInvariant == Spec => []IInv
  BY InitEstablishesIInv, NextKeepsIInv, PTL DEF Spec

\* However requests fail and the process dies, every variable keeps its type.
THEOREM InstallTypeCorrect == Spec => []TypeOK
<1>1. IInv => TypeOK
  BY DEF IInv
<1>. QED  BY <1>1, InstallInvariant, PTL

\* An acknowledged installation stays in memory, in the state file and in its
\* directory until a request for its scope is refused or cut short or a start
\* cannot read the state file.
THEOREM AcknowledgedSurvivesFaults == Spec => []AcknowledgedSurvives
<1>1. IInv => AcknowledgedSurvives
  BY DEF IInv
<1>. QED  BY <1>1, InstallInvariant, PTL
-----------------------------------------------------------------------------
LEMMA LeastExists ==
    ASSUME NEW S, S \subseteq Nat, S # {}
    PROVE  \E i \in S : \A j \in S : i <= j
<1> DEFINE Less == OpToRel(<, Nat)
<1>1. \A i, j \in Nat : <<j, i>> \in Less <=> j < i
  BY DEF OpToRel
<1>2. IsWellFoundedOn(Less, Nat)
  BY NatLessThanWellFounded
<1> HIDE DEF Less
<1>3. PICK i \in S : \A j \in S : ~ (<<j, i>> \in Less)
  BY <1>2, WFMin
<1>4. ASSUME NEW j \in S PROVE i <= j
  <2>1. ~ (<<j, i>> \in Less) /\ i \in Nat /\ j \in Nat
    BY <1>3
  <2>2. ~ (j < i)
    BY <1>1, <2>1, Zenon
  <2>. QED  BY <2>1, <2>2
<1>. QED  BY <1>4

\* The installation that a run resolves is the innermost acknowledged one.
LEMMA ResolvedIsAcknowledged ==
    ASSUME IInv
    PROVE  RunGetsAcknowledged
<1> DEFINE nearest == CHOOSE i \in DOMAIN Chain :
                          /\ acked[Chain[i]] # Absent
                          /\ \A j \in 1 .. i - 1 : acked[Chain[j]] = Absent
<1> SUFFICES ASSUME up, \A i \in DOMAIN Chain : Chain[i] \notin doubted
             PROVE  Prompt = IF \A i \in DOMAIN Chain : acked[Chain[i]] = Absent
                             THEN Absent ELSE acked[Chain[nearest]].body
  BY Zenon DEF RunGetsAcknowledged
<1> DEFINE found == {i \in DOMAIN Chain : record[Chain[i]] # Absent}
<1>1. DOMAIN Chain = 1 .. Len(Chain) /\ Len(Chain) \in Nat /\ \A i \in DOMAIN Chain : Chain[i] \in Scopes
  BY SkillInstallAssumption
<1>2. \A i \in DOMAIN Chain : SurvivesAt(Chain[i])
  BY <1>1, InvParts DEF IInv
<1>3. \A i \in DOMAIN Chain : record[Chain[i]] = acked[Chain[i]]
  BY <1>2 DEF SurvivesAt
<1>4. CASE \A i \in DOMAIN Chain : acked[Chain[i]] = Absent
  <2>1. found = {}
    BY <1>3, <1>4
  <2>. QED  BY <1>4, <2>1 DEF Prompt, Resolved
<1>5. CASE ~ \A i \in DOMAIN Chain : acked[Chain[i]] = Absent
  <2>1. found # {} /\ found \subseteq Nat
    BY <1>1, <1>3, <1>5
  <2>2. PICK k \in found : \A j \in found : k <= j
    <3>. HIDE DEF found
    <3>. QED  BY <2>1, LeastExists
  <2>3. (CHOOSE i \in found : \A j \in found : i <= j) = k
    <3>1. \A i \in found : (\A j \in found : i <= j) => i = k
      BY <2>1, <2>2
    <3>. QED  BY <2>2, <3>1
  <2>4. k \in DOMAIN Chain /\ acked[Chain[k]] # Absent
    BY <1>3
  <2>5. \A j \in 1 .. k - 1 : acked[Chain[j]] = Absent
    BY <1>1, <1>3, <2>2, <2>4
  <2>6. nearest = k
    <3>1. \A i \in DOMAIN Chain :
            (acked[Chain[i]] # Absent /\ \A j \in 1 .. i - 1 : acked[Chain[j]] = Absent) => i = k
      BY <1>1, <2>4, <2>5
    <3>. QED  BY <2>4, <2>5, <3>1
  <2>7. Resolved(record) = Chain[k] /\ Chain[k] # Absent
    BY <1>1, <2>1, <2>3, <2>4, SkillInstallAssumption DEF Resolved
  <2>8. Prompt = acked[Chain[k]].body
    BY <1>2, <1>3, <2>4, <2>7 DEF Prompt, SurvivesAt
  <2> HIDE DEF nearest
  <2>. QED  BY <1>5, <2>6, <2>8
<1>. QED  BY <1>4, <1>5

\* A run is given what was acknowledged for the innermost scope it sees.
THEOREM RunsGetWhatWasAcknowledged == Spec => []RunGetsAcknowledged
  BY InstallInvariant, ResolvedIsAcknowledged, PTL
=============================================================================
