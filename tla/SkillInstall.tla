---------------------------- MODULE SkillInstall ----------------------------
(***************************************************************************)
(* The installation of one skill in the scopes that an agent.run may take  *)
(* it from.  Three things have to agree: the directory of the artifact     *)
(* version, the record in memory and the record in the state file.  The    *)
(* handlers run without an await, so requests do not interleave; but every *)
(* system call may fail and the process may die between any two of them.   *)
(*                                                                         *)
(* Abstracted: an artifact is a version and a body, its catalog entry and  *)
(* checksum included; the files of one directory are one body; the fresh   *)
(* temporary directories and files, which nothing reads, are left out.     *)
(***************************************************************************)
EXTENDS Naturals, Sequences

CONSTANTS
    Scopes,     \* the installations of the skill: user, workspace, tenant
    Chain,      \* those that a run looks at, nearest first
    Versions,   \* artifactVersion
    Bodies,     \* the contents of the entry file
    MaxFaults,  \* bound on failed system calls, failed loads of the state file
                \* and deaths of the process
    Absent      \* no artifact, no record, no directory

Artifacts == [version : Versions, body : Bodies]

ASSUME SkillInstallAssumption ==
    /\ Chain \in Seq(Scopes)
    /\ MaxFaults \in Nat
    /\ Absent \notin Artifacts /\ Absent \notin Bodies /\ Absent \notin Scopes

VARIABLES
    up,        \* the gateway runs
    artifact,  \* skillArtifacts and skillCatalog: the entry of the skill
    record,    \* installedSkills
    files,     \* the version directories of every installation
    disk,      \* the state file
    faults,
    acked,     \* history: the installations as last acknowledged
    doubted    \* history: the scopes with a refused request since then, or
               \* whose record a start could not read

memoryVars == <<artifact, record>>
historyVars == <<acked, doubted>>
vars == <<up, memoryVars, files, disk, faults, historyVars>>

Memory == [artifact |-> artifact, record |-> record]

TypeOK ==
    /\ up \in BOOLEAN /\ faults \in Nat
    /\ artifact \in Artifacts \cup {Absent}
    /\ record \in [Scopes -> Artifacts \cup {Absent}]
    /\ files \in [Scopes -> [Versions -> Bodies \cup {Absent}]]
    /\ disk \in [artifact : Artifacts \cup {Absent}, record : [Scopes -> Artifacts \cup {Absent}]]
    /\ acked \in [Scopes -> Artifacts \cup {Absent}]
    /\ doubted \subseteq Scopes

Init ==
    /\ up = TRUE
    /\ artifact = Absent
    /\ record = [s \in Scopes |-> Absent]
    /\ files = [s \in Scopes |-> [v \in Versions |-> Absent]]
    /\ disk = Memory
    /\ faults = 0
    /\ acked = record /\ doubted = {}

-----------------------------------------------------------------------------
Put(s, v, b) == files' = [files EXCEPT ![s][v] = b]
Acknowledge(s, r) ==
    /\ acked' = [acked EXCEPT ![s] = r]
    /\ doubted' = doubted \ {s}
Saved == disk' = [artifact |-> artifact', record |-> record']

\* skills.bundle.import and the synchronisation replace the artifact, whatever
\* is installed of it; the bundle's checksums have been verified.
Publish(a) ==
    /\ up
    /\ artifact' = a
    /\ UNCHANGED <<up, record, files, faults, historyVars>>
    /\ Saved

\* The file cannot be written: the import is refused and stays in memory.
PublishFails(a) ==
    /\ up
    /\ faults < MaxFaults /\ faults' = faults + 1
    /\ artifact' = a
    /\ UNCHANGED <<up, record, files, disk, historyVars>>

\* Mutation: an artifact is only written where its version is not there yet.
InstallOnce(s) ==
    /\ up /\ artifact # Absent
    /\ IF files[s][artifact.version] = Absent THEN Put(s, artifact.version, artifact.body)
                                              ELSE UNCHANGED files
    /\ record' = [record EXCEPT ![s] = artifact]
    /\ Acknowledge(s, artifact)
    /\ UNCHANGED <<up, artifact, faults>>
    /\ Saved

\* skills.install: the directory of the version is replaced, the record set
\* and saved.  The directory of another version stays where it is.
Install(s) ==
    /\ up /\ artifact # Absent
    /\ Put(s, artifact.version, artifact.body)
    /\ record' = [record EXCEPT ![s] = artifact]
    /\ Acknowledge(s, artifact)
    /\ UNCHANGED <<up, artifact, faults>>
    /\ Saved

\* It stops after its temporary directory ("written"), after the removal of
\* the old directory, after the rename or after the record; the request is
\* refused, or the process dies.  Only the first of these leaves no trace.
InstallStops(s, done, dies) ==
    /\ up /\ artifact # Absent
    /\ faults < MaxFaults /\ faults' = faults + 1
    /\ \/ done = "written" /\ UNCHANGED files
       \/ done = "removed" /\ Put(s, artifact.version, Absent)
       \/ done \in {"renamed", "recorded"} /\ Put(s, artifact.version, artifact.body)
    /\ record' = IF done = "recorded" THEN [record EXCEPT ![s] = artifact] ELSE record
    /\ up' = ~dies
    /\ doubted' = IF done = "written" THEN doubted ELSE doubted \cup {s}
    /\ UNCHANGED <<artifact, disk, acked>>

\* skills.uninstall of a recorded skill: only the recorded directory goes.
Uninstall(s) ==
    /\ up /\ record[s] # Absent
    /\ Put(s, record[s].version, Absent)
    /\ record' = [record EXCEPT ![s] = Absent]
    /\ Acknowledge(s, Absent)
    /\ UNCHANGED <<up, artifact, faults>>
    /\ Saved

\* Without a record there is nothing to remove, hence nothing to save: success.
UninstallNothing(s) ==
    /\ up /\ record[s] = Absent
    /\ UNCHANGED vars

UninstallStops(s, done, dies) ==
    /\ up /\ record[s] # Absent
    /\ faults < MaxFaults /\ faults' = faults + 1
    /\ Put(s, record[s].version, Absent)
    /\ record' = IF done = "deleted" THEN [record EXCEPT ![s] = Absent] ELSE record
    /\ up' = ~dies
    /\ doubted' = doubted \cup {s}
    /\ UNCHANGED <<artifact, disk, acked>>

\* createGatewayRouter loads the state file; the directories are not looked at.
Restart ==
    /\ ~up /\ up' = TRUE
    /\ artifact' = disk.artifact /\ record' = disk.record
    /\ UNCHANGED <<files, disk, faults, historyVars>>

\* The file cannot be read or parsed: the gateway starts without artifacts and
\* installations, beside their directories, and the next save says so too.
RestartEmpty ==
    /\ ~up /\ up' = TRUE
    /\ faults < MaxFaults /\ faults' = faults + 1
    /\ artifact' = Absent /\ record' = [s \in Scopes |-> Absent]
    /\ doubted' = doubted \cup {s \in Scopes : disk.record[s] # Absent}
    /\ UNCHANGED <<files, disk, acked>>

Next ==
    \/ \E a \in Artifacts : Publish(a) \/ PublishFails(a)
    \/ \E s \in Scopes :
         \/ Install(s) \/ Uninstall(s) \/ UninstallNothing(s)
         \/ \E dies \in BOOLEAN :
              \/ \E done \in {"written", "removed", "renamed", "recorded"} : InstallStops(s, done, dies)
              \/ \E done \in {"removed", "deleted"} : UninstallStops(s, done, dies)
    \/ Restart \/ RestartEmpty

Spec == Init /\ [][Next]_vars
-----------------------------------------------------------------------------
\* Mutation: the outermost installation comes first.
NearestOf(inst) ==
    LET found == {i \in DOMAIN Chain : inst[Chain[i]] # Absent}
    IN  IF found = {} THEN Absent ELSE Chain[CHOOSE i \in found : \A j \in found : j <= i]

\* resolveEffectiveInstalledSkillForRun: the nearest scope with a record.
Resolved(inst) ==
    LET found == {i \in DOMAIN Chain : inst[Chain[i]] # Absent}
    IN  IF found = {} THEN Absent ELSE Chain[CHOOSE i \in found : \A j \in found : i <= j]

\* prepareAgentRunInput: the entry file of the resolved installation, Absent
\* for "not installed" as well as for "entry file missing".
Prompt ==
    LET s == Resolved(record)
    IN  IF s = Absent THEN Absent ELSE files[s][record[s].version]

\* What was last acknowledged for a scope is in memory, in the state file and,
\* with exactly these contents, in its directory, until a request for the same
\* scope is refused or cut short or a start cannot read the state file.
AcknowledgedSurvives ==
    \A s \in Scopes \ doubted :
        /\ disk.record[s] = acked[s]
        /\ up => record[s] = acked[s]
        /\ acked[s] # Absent => files[s][acked[s].version] = acked[s].body

\* A run is given the contents that were acknowledged for the innermost scope
\* it sees, or told that there is none, unless one of its scopes is in doubt.
RunGetsAcknowledged ==
    (up /\ \A i \in DOMAIN Chain : Chain[i] \notin doubted) =>
        Prompt = IF \A i \in DOMAIN Chain : acked[Chain[i]] = Absent
                 THEN Absent
                 ELSE LET i == CHOOSE i \in DOMAIN Chain :
                                  /\ acked[Chain[i]] # Absent
                                  /\ \A j \in 1 .. i - 1 : acked[Chain[j]] = Absent
                      IN  acked[Chain[i]].body
=============================================================================
