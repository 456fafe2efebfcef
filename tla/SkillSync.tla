----------------------------- MODULE SkillSync ------------------------------
(***************************************************************************)
(* The synchronisation of skills: layered configurations (tenant,          *)
(* workspace, user), the daily scheduler and the state file that carries   *)
(* both over a restart.  A request is handled in one go: memory is changed *)
(* first, then the whole state is written to a temporary file and renamed; *)
(* when that fails the request is refused and memory keeps the change.     *)
(*                                                                         *)
(* Abstracted: time is counted in steps of a day of DayLength, and a time  *)
(* zone is its distance from the server's, 0, without daylight saving;     *)
(* autoSyncEnabled and manualOnly are one field, "auto"; of the three      *)
(* filters the sources stand for all; a run leaves only the fact that it   *)
(* happened.                                                               *)
(***************************************************************************)
EXTENDS Naturals, Sequences

CONSTANTS
    Scopes,          \* the scopes that requests name
    Layers,          \* Layers[s]: the scopes above s, outermost first, then s
    Patches,         \* the config parameters that clients send
    Sources,         \* the sources that they name
    DefaultSources,  \* SKILL_SYNC_DEFAULT_SOURCES
    DefaultTime,     \* SKILL_SYNC_DEFAULT_SYNC_TIME
    DayLength,
    Night,           \* the first steps of a day, whose hour the runtime prints as
                     \* 24: none of them where it prints 0
    Zones,           \* the time zones in use
    MaxTime,         \* bound on the clock
    MaxUpserts,      \* bound on the changes of configurations
    MaxFaults,       \* bound on failed writes of the file and on crashes
    Unset

\* A configuration, or a patch of one: the fields that a layer sets.
Patch == [auto : BOOLEAN \cup {Unset},
          time : (0 .. DayLength - 1) \cup {Unset},
          zone : Zones \cup {Unset},
          sources : (SUBSET Sources) \cup {Unset}]
None == [auto |-> Unset, time |-> Unset, zone |-> Unset, sources |-> Unset]

ASSUME SkillSyncAssumption ==
    /\ DayLength \in Nat \ {0} /\ DefaultTime \in 0 .. DayLength - 1
    /\ Night \in 0 .. DayLength /\ Zones \subseteq 0 .. DayLength - 1 /\ 0 \in Zones
    /\ Layers \in [Scopes -> Seq(Scopes)]
    /\ \A s \in Scopes : /\ Len(Layers[s]) \in 1 .. 3
                          /\ \A i \in DOMAIN Layers[s] : Layers[s][i] = s <=> i = Len(Layers[s])
    /\ Patches \subseteq Patch \ {None}
    /\ DefaultSources \in (SUBSET Sources) \ {{}}
    /\ MaxTime \in Nat /\ MaxUpserts \in Nat /\ MaxFaults \in Nat

VARIABLES
    up,       \* the gateway runs
    clock,    \* now()
    config,   \* skillSyncConfigs; None stands for no record
    next,     \* skillSyncStatuses: nextRunAt, 0 when there is none
    known,    \* knownSkillSources
    disk,     \* the state file
    upserts, faults,
    earned,   \* history: the scopes that a run is due to (see Earn)
    early,    \* history: the scopes that were run without, and their sync times
    zoned,    \* history: the zones in which the next runs were computed
    acked,    \* history: the configurations as last acknowledged
    doubted,  \* history: the scopes with a refused change since then, or lost
    lost,     \* history: the scopes whose record a start could not read
    moved     \* history: the scopes with a change above them since their
              \* own sources were acknowledged

memoryVars == <<config, next, known>>
countVars == <<upserts, faults>>
scheduleHistory == <<earned, early, zoned>>
configHistory == <<acked, doubted, lost, moved>>
vars == <<up, clock, memoryVars, disk, countVars, scheduleHistory, configHistory>>

Memory == [config |-> config, next |-> next, known |-> known]
Above(s) == {Layers[s][i] : i \in DOMAIN Layers[s]} \ {s}
Below(s) == {u \in Scopes : s \in Above(u)}

Init ==
    /\ up = TRUE
    /\ clock = DayLength
    /\ config = [s \in Scopes |-> None]
    /\ next = [s \in Scopes |-> 0]
    /\ known = DefaultSources
    /\ disk = Memory
    /\ upserts = 0 /\ faults = 0
    /\ earned = {} /\ early = {} /\ zoned = [s \in Scopes |-> 0]
    /\ acked = config /\ doubted = {} /\ lost = {} /\ moved = {}

-----------------------------------------------------------------------------
Merged(c, p) == [f \in DOMAIN c |-> IF p[f] = Unset THEN c[f] ELSE p[f]]

\* The innermost layer that sets a field decides it.
Effective(cfg, layers, field, default) ==
    LET setting == {i \in DOMAIN layers : cfg[layers[i]][field] # Unset}
    IN  IF setting = {} THEN default
        ELSE cfg[layers[CHOOSE i \in setting : \A j \in setting : j <= i]][field]

Enabled(cfg, s) == Effective(cfg, Layers[s], "auto", TRUE)
SyncTime(cfg, s) == Effective(cfg, Layers[s], "time", DefaultTime)
ZoneOf(cfg, s, default) == Effective(cfg, Layers[s], "zone", default)
SourcesOf(cfg, layers) == Effective(cfg, layers, "sources", known)
ParentSources(s) == SourcesOf(config, SubSeq(Layers[s], 1, Len(Layers[s]) - 1))

\* Mutation: a time that is reached exactly is still to come.
NextDailyInclusive(now, time, zone) ==
    LET today == now - ((now + zone) % DayLength) + time
    IN  IF time < Night \/ today >= now THEN today ELSE today + DayLength

\* computeNextDailyRunAt: the sync time of the local day, or tomorrow's when it
\* is not ahead.  The local time is read back from its print: in the hour that
\* prints as 24 it comes out a day too early, so today's never looks ahead and
\* tomorrow's comes out as today's.
NextDaily(now, time, zone) ==
    LET today == now - ((now + zone) % DayLength) + time
    IN  IF time < Night \/ today > now THEN today ELSE today + DayLength

\* reconcileSkillSyncStatusRecord
Renewed(cfg, s, reset) == Enabled(cfg, s) /\ (reset \/ next[s] = 0)
Reconciled(cfg, s, reset, zone) ==
    CASE ~Enabled(cfg, s) -> 0
      [] Renewed(cfg, s, reset) -> NextDaily(clock, SyncTime(cfg, s), ZoneOf(cfg, s, zone))
      [] OTHER -> next[s]
Rezoned(cfg, s, reset, zone) == IF Renewed(cfg, s, reset) THEN ZoneOf(cfg, s, zone) ELSE zoned[s]

\* Mutation: only the sources that the patch names are compared.
WithinNamed(parent, child) == parent = {} \/ child \subseteq parent

\* validateSubsetBoundary: an empty filter is no limit, so it escapes one.
Within(parent, child) == parent = {} \/ (child # {} /\ child \subseteq parent)

MayUpsert(s, p) ==
    /\ up /\ upserts < MaxUpserts
    /\ (Len(Layers[s]) > 1 /\ p.sources # Unset) => Within(ParentSources(s), p.sources)

\* What memory holds after an accepted upsert, saved or not.  The zone of the
\* request stands in for one that no layer sets.
Upserted(s, p, zone) ==
    /\ config' = [config EXCEPT ![s] = Merged(@, p)]
    /\ known' = known \cup (IF config'[s].sources = Unset THEN {} ELSE config'[s].sources)
    /\ next' = [next EXCEPT ![s] = Reconciled(config', s, TRUE, zone)]
    /\ zoned' = [zoned EXCEPT ![s] = Rezoned(config', s, TRUE, zone)]
    /\ upserts' = upserts + 1
    /\ earned' = (earned \ {s}) \cup Below(s)
    /\ UNCHANGED <<up, clock, early>>

\* Mutation: the reply does not wait for the file.
UpsertUnsaved(s, p, zone) ==
    /\ MayUpsert(s, p) /\ Upserted(s, p, zone)
    /\ acked' = [acked EXCEPT ![s] = config'[s]]
    /\ doubted' = doubted \ {s} /\ lost' = lost \ {s}
    /\ moved' = (IF p.sources = Unset THEN moved ELSE moved \ {s}) \cup Below(s)
    /\ UNCHANGED <<disk, faults>>

\* skills.syncConfig.upsert, saved and acknowledged.
Upsert(s, p, zone) ==
    /\ MayUpsert(s, p) /\ Upserted(s, p, zone)
    /\ disk' = Memory'
    /\ acked' = [acked EXCEPT ![s] = config'[s]]
    /\ doubted' = doubted \ {s} /\ lost' = lost \ {s}
    /\ moved' = (IF p.sources = Unset THEN moved ELSE moved \ {s}) \cup Below(s)
    /\ UNCHANGED faults

\* The same when the file cannot be written: refused, and in memory all the same.
UpsertFails(s, p, zone) ==
    /\ MayUpsert(s, p) /\ Upserted(s, p, zone)
    /\ faults < MaxFaults /\ faults' = faults + 1
    /\ doubted' = doubted \cup {s}
    /\ moved' = moved \cup Below(s)
    /\ UNCHANGED <<disk, acked, lost>>

\* skills.syncConfig.get and skills.syncStatus.get also reconcile, unsaved.
Look(s, zone) ==
    /\ up
    /\ next' = [next EXCEPT ![s] = Reconciled(config, s, FALSE, zone)]
    /\ zoned' = [zoned EXCEPT ![s] = Rezoned(config, s, FALSE, zone)]
    /\ UNCHANGED <<up, clock, config, known, disk, countVars, earned, early, configHistory>>

\* skills.sync.runNow and skills.catalog.refresh: the run leaves the schedule
\* alone, and the file is written with whatever memory holds.
RunNow(s) ==
    /\ up
    /\ known' = known \cup SourcesOf(config, Layers[s])
    /\ UNCHANGED <<up, clock, config, next, countVars, scheduleHistory, configHistory>>
    /\ disk' = Memory'

-----------------------------------------------------------------------------
Configured(cfg) == {s \in Scopes : cfg[s] # None}
Due(s) == LET n == Reconciled(config, s, FALSE, 0) IN n # 0 /\ n <= clock

\* tickSkillSyncScheduler goes through the scopes that have a record of their
\* own, in the zone of the server where no layer sets one.
Ticked ==
    LET due == {s \in Configured(config) : Due(s)}
    IN  /\ next' = [s \in Scopes |->
                       IF s \in Configured(config) THEN Reconciled(config, s, s \in due, 0) ELSE next[s]]
        /\ zoned' = [s \in Scopes |->
                       IF s \in Configured(config) THEN Rezoned(config, s, s \in due, 0) ELSE zoned[s]]
        /\ early' = early \cup {<<s, SyncTime(config, s)>> : s \in due \ earned}
        /\ earned' = earned \ due
        /\ UNCHANGED <<clock, config, known, upserts, configHistory>>

\* Mutation: the timer does not save.
TickUnsaved == up /\ Ticked /\ UNCHANGED <<up, disk, faults>>

\* runSkillSyncSchedulerTick, at the start and once a minute.
Tick ==
    /\ up /\ Ticked
    /\ disk' = Memory'
    /\ UNCHANGED <<up, faults>>

\* When the file cannot be written nobody catches it, and the process ends.
TickFails ==
    /\ up /\ Ticked
    /\ faults < MaxFaults /\ faults' = faults + 1
    /\ up' = FALSE
    /\ UNCHANGED disk

\* A run is earned when the sync time of its scope passes in the zone its next
\* run was computed in, when the configuration above it changes and when the
\* gateway has been restarted.
Advance ==
    /\ clock < MaxTime
    /\ clock' = clock + 1
    /\ earned' = earned \cup {s \in Scopes : (clock' + zoned[s]) % DayLength = SyncTime(config, s)}
    /\ UNCHANGED <<up, memoryVars, disk, countVars, early, zoned, configHistory>>

Crash ==
    /\ up
    /\ faults < MaxFaults /\ faults' = faults + 1
    /\ up' = FALSE
    /\ UNCHANGED <<clock, memoryVars, disk, upserts, scheduleHistory, configHistory>>

\* loadSkillRuntimeState
Restart ==
    /\ ~up /\ up' = TRUE
    /\ config' = disk.config /\ next' = disk.next /\ known' = disk.known
    /\ earned' = Scopes
    /\ UNCHANGED <<clock, disk, countVars, early, zoned, configHistory>>

\* The same when the file cannot be read or parsed: the gateway starts as if
\* there were none, and the next save writes that over the file.
RestartEmpty ==
    /\ ~up /\ up' = TRUE
    /\ faults < MaxFaults /\ faults' = faults + 1
    /\ config' = [s \in Scopes |-> None] /\ next' = [s \in Scopes |-> 0] /\ known' = DefaultSources
    /\ earned' = Scopes
    /\ doubted' = doubted \cup Configured(disk.config)
    /\ lost' = lost \cup Configured(disk.config)
    /\ UNCHANGED <<clock, disk, upserts, early, zoned, acked, moved>>

Next ==
    \/ \E s \in Scopes, p \in Patches, z \in Zones : Upsert(s, p, z) \/ UpsertFails(s, p, z)
    \/ \E s \in Scopes, z \in Zones : Look(s, z)
    \/ \E s \in Scopes : RunNow(s)
    \/ Tick \/ TickFails
    \/ Advance \/ Crash \/ Restart \/ RestartEmpty

Spec == Init /\ [][Next]_vars

\* The timer fires every minute and a supervisor restarts the process.
FairSpec == Spec /\ WF_vars(Tick) /\ WF_vars(Restart)
-----------------------------------------------------------------------------
TypeOK ==
    /\ up \in BOOLEAN
    /\ clock \in Nat /\ clock >= DayLength /\ upserts \in Nat /\ faults \in Nat
    /\ config \in [Scopes -> Patch] /\ acked \in [Scopes -> Patch]
    /\ next \in [Scopes -> Nat] /\ zoned \in [Scopes -> Zones]
    /\ known \subseteq Sources
    /\ disk \in [config : [Scopes -> Patch], next : [Scopes -> Nat], known : SUBSET Sources]
    /\ earned \subseteq Scopes /\ early \subseteq Scopes \X (0 .. DayLength - 1)
    /\ doubted \subseteq Scopes /\ lost \subseteq Scopes /\ moved \subseteq Scopes

\* The scheduler runs a scope once for each sync time that passes, in the zone
\* its next run was computed in: days the gateway was down for, a minute that is
\* hit exactly, a manual run and a request from another zone make no further
\* run.  The exception is a sync time whose hour prints as 24.
RunsAreEarned == \A r \in early : r[2] < Night

\* A synchronisation that the state file shows as due, or as enabled and not
\* scheduled, is run or scheduled in the end, over crashes and failed writes.  A
\* scope leaves the file only through a start that could not read it, and one
\* whose sync time prints as 24 stays due after its runs.
Owed(s) ==
    /\ s \in Configured(disk.config) /\ Enabled(disk.config, s)
    /\ disk.next[s] <= clock
Nightly(cfg, s) == SyncTime(cfg, s) < Night
Served(s) == s \in Configured(disk.config) /\ ~Owed(s)
DueIsServed == \A s \in Scopes : Owed(s) ~> Served(s) \/ s \in lost \/ Nightly(disk.config, s)

\* A configuration that was acknowledged is the one in effect and the one in
\* the file, until a change of the same scope is acknowledged or refused or a
\* start cannot read the file.
AcknowledgedSurvives ==
    \A s \in Scopes \ doubted :
        disk.config[s] = acked[s] /\ (up => config[s] = acked[s])

Bounded(s) ==
    LET parent == ParentSources(s)
        own == SourcesOf(config, Layers[s])
    IN  parent # {} => own # {} /\ own \subseteq parent
HasParent == {s \in Scopes : Len(Layers[s]) > 1}

\* The sources of a scope stay within those of the scope above it as long as
\* nothing above it has changed since they were accepted.
SourcesWithinParent == up => \A s \in HasParent \ moved : Bounded(s)
=============================================================================
