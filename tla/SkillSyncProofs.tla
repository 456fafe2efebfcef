-------------------------- MODULE SkillSyncProofs ---------------------------
(***************************************************************************)
(* What holds of the synchronisation of skills for any scopes and layers,  *)
(* any length of the day and any number of changes, failures and days.     *)
(***************************************************************************)
EXTENDS SkillSync, TLAPS

-----------------------------------------------------------------------------
(* The arithmetic of the daily run. *)

LEMMA DivisionOf ==
    ASSUME NEW D \in Nat \ {0}, NEW c \in Nat
    PROVE  c % D \in 0 .. D - 1 /\ \E q \in Nat : c = D * q + (c % D)
<1>1. c % D \in 0 .. D - 1
  OBVIOUS
<1>2. c \div D \in Nat /\ c = D * (c \div D) + (c % D)
  OBVIOUS
<1>. QED  BY <1>1, <1>2

LEMMA ProductGrows ==
    ASSUME NEW D \in Nat \ {0}, NEW p \in Nat, NEW q \in Nat, p < q
    PROVE  D * p + D <= D * q
<1>1. PICK k \in Nat : q = p + 1 + k
  <2>1. q - p - 1 \in Nat /\ q = p + 1 + (q - p - 1)
    OBVIOUS
  <2>. QED  BY <2>1
<1>2. D * q = D * p + D + D * k /\ D * p \in Nat /\ D * k \in Nat
  BY <1>1
<1>. QED  BY <1>2

LEMMA RemainderUnique ==
    ASSUME NEW D \in Nat \ {0}, NEW p \in Nat, NEW q \in Nat,
           NEW r \in 0 .. D - 1, NEW t \in 0 .. D - 1, D * p + r = D * q + t
    PROVE  r = t
<1>1. D * p \in Nat /\ D * q \in Nat
  OBVIOUS
<1>2. CASE p < q
  <2>1. D * p + D <= D * q
    BY <1>2, ProductGrows
  <2>. HIDE <1>2
  <2>. QED  BY <1>1, <2>1
<1>3. CASE q < p
  <2>1. D * q + D <= D * p
    BY <1>3, ProductGrows
  <2>. QED  BY <1>1, <2>1
<1>4. CASE p = q
  BY <1>1, <1>4
<1>. QED  BY <1>2, <1>3, <1>4

LEMMA RemainderOf ==
    ASSUME NEW D \in Nat \ {0}, NEW q \in Nat, NEW t \in 0 .. D - 1
    PROVE  (D * q + t) % D = t
<1> DEFINE c == D * q + t
<1>1. c \in Nat
  OBVIOUS
<1>2. c % D \in 0 .. D - 1 /\ \E p \in Nat : c = D * p + (c % D)
  <2> HIDE DEF c
  <2>. QED  BY <1>1, DivisionOf
<1>3. PICK p \in Nat : c = D * p + (c % D)
  BY <1>2
<1>4. \A r \in 0 .. D - 1 : D * p + r = D * q + t => r = t
  BY RemainderUnique
<1>. QED  BY <1>2, <1>3, <1>4

\* The next run is on the sync time in its zone, at most a day away, and ahead
\* unless the sync time prints as 24.
LEMMA NextDailyIsAhead ==
    ASSUME NEW now \in Nat, now >= DayLength, NEW time \in 0 .. DayLength - 1, NEW zone \in Zones
    PROVE  /\ NextDaily(now, time, zone) \in Nat \ {0}
           /\ time >= Night => NextDaily(now, time, zone) > now
           /\ NextDaily(now, time, zone) <= now + DayLength
           /\ (NextDaily(now, time, zone) + zone) % DayLength = time
<1>1. DayLength \in Nat \ {0} /\ zone \in 0 .. DayLength - 1 /\ Night \in Nat
  BY SkillSyncAssumption
<1> DEFINE local == now + zone
           left == local % DayLength
<1>2. local \in Nat
  BY <1>1
<1>3. left \in 0 .. DayLength - 1 /\ \E q \in Nat : local = DayLength * q + left
  <2> HIDE DEF local
  <2>. QED  BY <1>1, <1>2, DivisionOf
<1>4. PICK q \in Nat : local = DayLength * q + left
  BY <1>3
<1>5. DayLength * q \in Nat /\ DayLength * (q + 1) = DayLength * q + DayLength
  BY <1>1
<1> DEFINE today == now - left + time
<1>6. today \in Nat /\ today >= 1 /\ today < now + DayLength /\ today + DayLength > now
      /\ today + zone = DayLength * q + time
      /\ today + DayLength + zone = DayLength * (q + 1) + time
  <2>1. today \in Nat /\ today >= 1 /\ today < now + DayLength /\ today + DayLength > now
    <3> HIDE DEF left
    <3>. QED  BY <1>1, <1>3
  <2>2. now = DayLength * q + left - zone
    <3> HIDE DEF left
    <3>. QED  BY <1>1, <1>3, <1>4, <1>5
  <2> HIDE DEF left, local
  <2>. QED  BY <1>1, <1>3, <1>5, <2>1, <2>2
<1>7. /\ (DayLength * q + time) % DayLength = time
      /\ (DayLength * (q + 1) + time) % DayLength = time
  <2>1. q + 1 \in Nat
    OBVIOUS
  <2>2. \A p \in Nat : (DayLength * p + time) % DayLength = time
    BY <1>1, RemainderOf
  <2>. QED  BY <2>1, <2>2
<1>8. NextDaily(now, time, zone) = IF time < Night \/ today > now THEN today ELSE today + DayLength
  BY DEF NextDaily
<1> HIDE DEF NextDaily, today, left, local
<1>9. CASE time < Night \/ today > now
  <2>1. NextDaily(now, time, zone) = today /\ (today + zone) % DayLength = time
    BY <1>6, <1>7, <1>8, <1>9
  <2>2. time >= Night => today > now
    BY <1>1, <1>9
  <2>. QED  BY <1>1, <1>6, <2>1, <2>2
<1>10. CASE ~(time < Night \/ today > now)
  <2>1. NextDaily(now, time, zone) = today + DayLength /\ (today + DayLength + zone) % DayLength = time
    BY <1>6, <1>7, <1>8, <1>10
  <2>2. today <= now
    BY <1>6, <1>10
  <2>. QED  BY <1>1, <1>6, <2>1, <2>2
<1>. QED  BY <1>9, <1>10

-----------------------------------------------------------------------------
(* What the innermost setting layer decides. *)

\* The last of at most three layers that set a field.
LEMMA LastExists ==
    ASSUME NEW n \in 0 .. 3, NEW S, S \subseteq 1 .. n, S # {}
    PROVE  \E i \in S : \A j \in S : j <= i
<1>1. CASE 3 \in S
  BY <1>1
<1>2. CASE 3 \notin S /\ 2 \in S
  BY <1>2
<1>3. CASE 3 \notin S /\ 2 \notin S
  <2>1. \A j \in S : j \in Nat /\ 1 <= j /\ j <= 3 /\ j # 3 /\ j # 2
    BY <1>3
  <2>2. \A j \in S : j = 1
    BY <2>1
  <2>3. 1 \in S
    BY <2>2
  <2>. QED  BY <2>2, <2>3
<1>. QED  BY <1>1, <1>2, <1>3

\* Either no layer sets the field, or one of them is what counts.
LEMMA EffectiveOf ==
    ASSUME NEW layers \in Seq(Scopes), Len(layers) \in 0 .. 3, NEW cfg, NEW field, NEW default
    PROVE  \/ /\ \A i \in 1 .. Len(layers) : cfg[layers[i]][field] = Unset
              /\ Effective(cfg, layers, field, default) = default
           \/ \E i \in 1 .. Len(layers) :
                /\ cfg[layers[i]][field] # Unset
                /\ \A j \in i + 1 .. Len(layers) : cfg[layers[j]][field] = Unset
                /\ Effective(cfg, layers, field, default) = cfg[layers[i]][field]
<1> DEFINE setting == {i \in DOMAIN layers : cfg[layers[i]][field] # Unset}
<1>1. DOMAIN layers = 1 .. Len(layers)
  OBVIOUS
<1>2. CASE setting = {}
  BY <1>1, <1>2 DEF Effective
<1>3. CASE setting # {}
  <2>1. \E i \in setting : \A j \in setting : j <= i
    <3>1. setting \subseteq 1 .. Len(layers)
      BY <1>1
    <3> HIDE DEF setting
    <3>. QED  BY <1>3, <3>1, LastExists
  <2> DEFINE last == CHOOSE i \in setting : \A j \in setting : j <= i
  <2>2. last \in setting /\ \A j \in setting : j <= last
    <3> HIDE DEF setting
    <3>. QED  BY <2>1
  <2>3. Effective(cfg, layers, field, default) = cfg[layers[last]][field]
    BY <1>3 DEF Effective
  <2> HIDE DEF last
  <2>4. \A j \in last + 1 .. Len(layers) : cfg[layers[j]][field] = Unset
    BY <1>1, <2>2
  <2>. QED  BY <1>1, <2>2, <2>3, <2>4
<1>. QED  BY <1>2, <1>3

\* Layers that agree on a field agree on what is effective.
LEMMA EffectiveSame ==
    ASSUME NEW layers \in Seq(Scopes), Len(layers) \in 0 .. 3, NEW cfg, NEW new, NEW field, NEW default,
           \A i \in 1 .. Len(layers) : new[layers[i]][field] = cfg[layers[i]][field]
    PROVE  Effective(new, layers, field, default) = Effective(cfg, layers, field, default)
<1> DEFINE setting(c) == {i \in DOMAIN layers : c[layers[i]][field] # Unset}
           last(c) == CHOOSE i \in setting(c) : \A j \in setting(c) : j <= i
<1>1. DOMAIN layers = 1 .. Len(layers)
  OBVIOUS
<1>2. setting(new) = setting(cfg)
  BY <1>1
<1>3. /\ Effective(new, layers, field, default) =
           IF setting(new) = {} THEN default ELSE new[layers[last(new)]][field]
      /\ Effective(cfg, layers, field, default) =
           IF setting(cfg) = {} THEN default ELSE cfg[layers[last(cfg)]][field]
  BY Zenon DEF Effective
<1>4. last(new) = last(cfg)
  <2> HIDE DEF setting
  <2>. QED  BY <1>2
<1>5. setting(cfg) # {} => last(cfg) \in 1 .. Len(layers)
  <2>1. setting(cfg) \subseteq 1 .. Len(layers)
    BY <1>1
  <2> HIDE DEF setting
  <2>2. setting(cfg) # {} => \E i \in setting(cfg) : \A j \in setting(cfg) : j <= i
    BY <2>1, LastExists
  <2>. QED  BY <2>1, <2>2
<1> HIDE DEF setting, last
<1>. QED  BY <1>2, <1>3, <1>4, <1>5

-----------------------------------------------------------------------------
(* Types. *)

LEMMA LayersOf ==
    ASSUME NEW s \in Scopes
    PROVE  /\ Layers[s] \in Seq(Scopes) /\ Len(Layers[s]) \in 1 .. 3
           /\ Layers[s][Len(Layers[s])] = s
           /\ \A i \in 1 .. Len(Layers[s]) : Layers[s][i] = s <=> i = Len(Layers[s])
           /\ \A i \in 1 .. Len(Layers[s]) : Layers[s][i] \in Scopes
<1>1. /\ Layers[s] \in Seq(Scopes) /\ Len(Layers[s]) \in 1 .. 3
      /\ \A i \in DOMAIN Layers[s] : Layers[s][i] = s <=> i = Len(Layers[s])
  BY SkillSyncAssumption
<1>2. DOMAIN Layers[s] = 1 .. Len(Layers[s]) /\ Len(Layers[s]) \in 1 .. Len(Layers[s])
  BY <1>1
<1>. QED  BY <1>1, <1>2

LEMMA SyncTimeType ==
    ASSUME NEW cfg \in [Scopes -> Patch], NEW s \in Scopes
    PROVE  SyncTime(cfg, s) \in 0 .. DayLength - 1
<1>1. /\ Layers[s] \in Seq(Scopes) /\ Len(Layers[s]) \in 0 .. 3
      /\ \A i \in 1 .. Len(Layers[s]) : Layers[s][i] \in Scopes
  BY LayersOf
<1>2. \A u \in Scopes : cfg[u]["time"] \in (0 .. DayLength - 1) \cup {Unset}
  BY DEF Patch
<1>3. DefaultTime \in 0 .. DayLength - 1
  BY SkillSyncAssumption
<1>. QED  BY <1>1, <1>2, <1>3, EffectiveOf DEF SyncTime

LEMMA ZoneOfType ==
    ASSUME NEW cfg \in [Scopes -> Patch], NEW s \in Scopes, NEW zone \in Zones
    PROVE  ZoneOf(cfg, s, zone) \in Zones
<1>1. /\ Layers[s] \in Seq(Scopes) /\ Len(Layers[s]) \in 0 .. 3
      /\ \A i \in 1 .. Len(Layers[s]) : Layers[s][i] \in Scopes
  BY LayersOf
<1>2. \A u \in Scopes : cfg[u]["zone"] \in Zones \cup {Unset}
  BY DEF Patch
<1>. QED  BY <1>1, <1>2, EffectiveOf DEF ZoneOf

LEMMA MergedType ==
    ASSUME NEW c \in Patch, NEW p \in Patch
    PROVE  Merged(c, p) \in Patch /\ \A f \in {"auto", "time", "zone", "sources"} :
                                       Merged(c, p)[f] = IF p[f] = Unset THEN c[f] ELSE p[f]
  BY DEF Merged, Patch

\* A next run in a zone that is ahead and on the sync time; where the sync time
\* prints as 24 nothing is said.
Ahead(n, zone, time) == time < Night \/ (n > clock /\ (n + zone) % DayLength = time)

\* The next run, once reconciled, is unset, ahead on the sync time, or as before.
LEMMA ReconciledIsAhead ==
    ASSUME NEW cfg \in [Scopes -> Patch], NEW s \in Scopes, NEW reset \in BOOLEAN, NEW zone \in Zones,
           clock \in Nat, clock >= DayLength, next \in [Scopes -> Nat], zoned \in [Scopes -> Zones]
    PROVE  /\ Reconciled(cfg, s, reset, zone) \in Nat /\ Rezoned(cfg, s, reset, zone) \in Zones
           /\ \/ ~Enabled(cfg, s) /\ Reconciled(cfg, s, reset, zone) = 0
              \/ /\ Reconciled(cfg, s, reset, zone) # 0
                 /\ Ahead(Reconciled(cfg, s, reset, zone), Rezoned(cfg, s, reset, zone), SyncTime(cfg, s))
              \/ /\ ~reset /\ next[s] # 0 /\ Reconciled(cfg, s, reset, zone) = next[s]
                 /\ Rezoned(cfg, s, reset, zone) = zoned[s]
<1>1. SyncTime(cfg, s) \in 0 .. DayLength - 1 /\ ZoneOf(cfg, s, zone) \in Zones
  BY SyncTimeType, ZoneOfType
<1> DEFINE z == ZoneOf(cfg, s, zone)
           time == SyncTime(cfg, s)
           n == NextDaily(clock, time, z)
<1>2. n \in Nat \ {0} /\ (time >= Night => n > clock) /\ (n + z) % DayLength = time
  <2> HIDE DEF z, time
  <2>. QED  BY <1>1, NextDailyIsAhead DEF z, time
<1>3. Ahead(n, z, time)
  <2>1. time \in Nat /\ Night \in Nat
    BY <1>1, SkillSyncAssumption
  <2> HIDE DEF z, time, n
  <2>. QED  BY <1>2, <2>1 DEF Ahead
<1>4. CASE ~Enabled(cfg, s)
  BY <1>4 DEF Reconciled, Rezoned, Renewed
<1>5. CASE Renewed(cfg, s, reset)
  <2>1. Enabled(cfg, s) /\ Reconciled(cfg, s, reset, zone) = n /\ Rezoned(cfg, s, reset, zone) = z
    BY <1>5 DEF Reconciled, Rezoned, Renewed
  <2> HIDE DEF n, z, time
  <2>2. z \in Zones
    BY <1>1 DEF z
  <2>3. Ahead(Reconciled(cfg, s, reset, zone), Rezoned(cfg, s, reset, zone), time)
    BY <1>3, <2>1
  <2>. QED  BY <1>2, <2>1, <2>2, <2>3 DEF time
<1>6. CASE Enabled(cfg, s) /\ ~Renewed(cfg, s, reset)
  BY <1>6 DEF Reconciled, Rezoned, Renewed
<1>. QED  BY <1>4, <1>5, <1>6 DEF Renewed

LEMMA SourcesOfType ==
    ASSUME NEW layers \in Seq(Scopes), Len(layers) \in 0 .. 3,
           config \in [Scopes -> Patch], known \subseteq Sources
    PROVE  SourcesOf(config, layers) \subseteq Sources
<1>1. \A i \in 1 .. Len(layers) : layers[i] \in Scopes
  OBVIOUS
<1>2. \A u \in Scopes : config[u]["sources"] \in (SUBSET Sources) \cup {Unset}
  BY DEF Patch
<1>3. \A i \in 1 .. Len(layers) : config[layers[i]]["sources"] # Unset =>
                                     config[layers[i]]["sources"] \subseteq Sources
  BY <1>1, <1>2
<1>. QED  BY <1>3, EffectiveOf DEF SourcesOf

\* TypeOK with the value set of the configurations named.
Configs == [Scopes -> Patch]
Runs == [Scopes -> Nat]
InZones == [Scopes -> Zones]
MemoryType(mem) == /\ mem.config \in Configs /\ mem.next \in Runs /\ mem.known \in SUBSET Sources
DiskType == [config : Configs, next : Runs, known : SUBSET Sources]

LEMMA TypeNamed ==
    TypeOK <=> /\ up \in BOOLEAN
               /\ clock \in Nat /\ clock >= DayLength /\ upserts \in Nat /\ faults \in Nat
               /\ config \in Configs /\ acked \in Configs /\ next \in Runs /\ zoned \in InZones
               /\ known \subseteq Sources /\ disk \in DiskType
               /\ earned \subseteq Scopes /\ early \subseteq Scopes \X (0 .. DayLength - 1)
               /\ doubted \subseteq Scopes /\ lost \subseteq Scopes /\ moved \subseteq Scopes
  BY DEF TypeOK, Configs, Runs, InZones, DiskType

LEMMA MemoryIsTyped ==
    ASSUME config \in Configs, next \in Runs, known \subseteq Sources
    PROVE  Memory \in DiskType
  BY DEF Memory, DiskType

-----------------------------------------------------------------------------
(* The invariant.  A scope that has not earned a run has its next one ahead, *)
(* on its sync time: so it is not due, whatever reconciles it.  Not so where *)
(* the sync time prints as 24.                                               *)

OnTime(s) == next[s] # 0 => Ahead(next[s], zoned[s], SyncTime(config, s))

ScheduleInv == RunsAreEarned /\ \A s \in Scopes \ earned : OnTime(s)

IInv == TypeOK /\ ScheduleInv /\ AcknowledgedSurvives

LEMMA InitEstablishesIInv == Init => IInv
<1> SUFFICES ASSUME Init PROVE IInv
  OBVIOUS
<1>1. None \in Patch
  BY DEF None, Patch
<1>2. config \in Configs /\ acked \in Configs /\ next \in Runs /\ known \subseteq Sources
  <2>1. config = [s \in Scopes |-> None] /\ acked = config
    BY DEF Init
  <2>2. next \in Runs /\ known \subseteq Sources
    BY SkillSyncAssumption DEF Init, Runs
  <2>. QED  BY <1>1, <2>1, <2>2 DEF Configs
<1>3. TypeOK
  <2>1. zoned \in InZones /\ clock \in Nat /\ clock >= DayLength
    BY SkillSyncAssumption DEF Init, InZones
  <2>. QED  BY <1>2, <2>1, MemoryIsTyped, TypeNamed DEF Init
<1>4. ScheduleInv
  BY DEF Init, ScheduleInv, RunsAreEarned, OnTime
<1>5. AcknowledgedSurvives
  BY DEF Init, AcknowledgedSurvives, Memory
<1>. QED  BY <1>3, <1>4, <1>5 DEF IInv

\* A change of s reaches no scope that is neither s nor below it.
LEMMA ChangeStaysBelow ==
    ASSUME config \in Configs, NEW s \in Scopes, NEW c \in Patch, NEW u \in Scopes \ ({s} \cup Below(s))
    PROVE  SyncTime([config EXCEPT ![s] = c], u) = SyncTime(config, u)
<1>1. /\ Layers[u] \in Seq(Scopes) /\ Len(Layers[u]) \in 0 .. 3
      /\ \A i \in 1 .. Len(Layers[u]) : Layers[u][i] \in Scopes
  BY LayersOf
<1>2. \A i \in 1 .. Len(Layers[u]) : Layers[u][i] # s
  BY <1>1 DEF Below, Above
<1> DEFINE new == [config EXCEPT ![s] = c]
<1>3. \A i \in 1 .. Len(Layers[u]) : new[Layers[u][i]]["time"] = config[Layers[u][i]]["time"]
  BY <1>1, <1>2 DEF Configs
<1> HIDE DEF new
<1>4. Effective(new, Layers[u], "time", DefaultTime) = Effective(config, Layers[u], "time", DefaultTime)
  BY <1>1, <1>3, EffectiveSame
<1>. QED  BY <1>4 DEF SyncTime, new

\* What an accepted change leaves in memory.
LEMMA UpsertedKeeps ==
    ASSUME IInv, NEW s \in Scopes, NEW p \in Patches, NEW z \in Zones, Upserted(s, p, z)
    PROVE  /\ config' \in Configs /\ next' \in Runs /\ zoned' \in InZones /\ known' \subseteq Sources
           /\ upserts' \in Nat /\ earned' \subseteq Scopes
           /\ ScheduleInv'
           /\ \A u \in Scopes \ {s} : config'[u] = config[u]
           /\ config'[s] = Merged(config[s], p)
<1>1. /\ p \in Patch /\ config \in Configs /\ next \in Runs /\ known \subseteq Sources
      /\ clock \in Nat /\ clock >= DayLength /\ zoned \in InZones
  BY SkillSyncAssumption, TypeNamed DEF IInv
<1> DEFINE c == Merged(config[s], p)
<1>2. c \in Patch
  BY <1>1, MergedType DEF Configs
<1>3. config' = [config EXCEPT ![s] = c]
  BY DEF Upserted
<1> HIDE DEF c
<1>4. config' \in Configs /\ config'[s] = c /\ \A u \in Scopes \ {s} : config'[u] = config[u]
  BY <1>1, <1>2, <1>3 DEF Configs
<1>5. known' \subseteq Sources
  <2>1. config'[s].sources \in (SUBSET Sources) \cup {Unset}
    BY <1>2, <1>4 DEF Patch
  <2>. QED  BY <1>1, <2>1 DEF Upserted
<1> DEFINE r == Reconciled(config', s, TRUE, z)
           at == Rezoned(config', s, TRUE, z)
<1>6. r \in Nat /\ at \in Zones /\ (r # 0 => Ahead(r, at, SyncTime(config', s)))
  BY <1>1, <1>4, ReconciledIsAhead DEF Configs, Runs, InZones
<1>7. next' = [next EXCEPT ![s] = r] /\ zoned' = [zoned EXCEPT ![s] = at]
  BY DEF Upserted
<1> HIDE DEF r, at
<1>8. /\ next' \in Runs /\ next'[s] = r /\ zoned' \in InZones /\ zoned'[s] = at
      /\ \A u \in Scopes \ {s} : next'[u] = next[u] /\ zoned'[u] = zoned[u]
  BY <1>1, <1>6, <1>7 DEF Runs, InZones
<1>9. clock' = clock /\ early' = early /\ earned' = (earned \ {s}) \cup Below(s) /\ upserts' = upserts + 1
  BY DEF Upserted
<1>10. ASSUME NEW u \in Scopes \ earned' PROVE OnTime(u)'
  <2>1. CASE u = s
    BY <1>6, <1>8, <1>9, <2>1 DEF OnTime, Ahead
  <2>2. CASE u # s
    <3>1. u \in Scopes \ ({s} \cup Below(s)) /\ u \notin earned
      BY <1>9, <2>2
    <3>2. SyncTime(config', u) = SyncTime(config, u)
      BY <1>1, <1>2, <1>3, <3>1, ChangeStaysBelow
    <3>3. OnTime(u)
      BY <3>1 DEF IInv, ScheduleInv
    <3>. QED  BY <1>8, <1>9, <2>2, <3>2, <3>3 DEF OnTime, Ahead
  <2>. QED  BY <2>1, <2>2
<1>11. earned' \subseteq Scopes /\ upserts' \in Nat
  BY <1>9, TypeNamed DEF IInv, Below
<1>12. ScheduleInv'
  BY <1>9, <1>10 DEF IInv, ScheduleInv, RunsAreEarned
<1>. QED  BY <1>4, <1>5, <1>8, <1>11, <1>12 DEF c

\* An acknowledged change reaches the file, a refused one puts its scope in doubt.
LEMMA UpsertKeepsIInv ==
    ASSUME IInv, NEW s \in Scopes, NEW p \in Patches, NEW z \in Zones, Upsert(s, p, z)
    PROVE  IInv'
<1>1. Upserted(s, p, z) /\ acked \in Configs /\ up \in BOOLEAN
  BY TypeNamed DEF IInv, Upsert
<1>2. /\ config' \in Configs /\ next' \in Runs /\ zoned' \in InZones /\ known' \subseteq Sources
      /\ upserts' \in Nat /\ earned' \subseteq Scopes /\ ScheduleInv'
      /\ \A u \in Scopes \ {s} : config'[u] = config[u]
  BY <1>1, UpsertedKeeps
<1>3. config'[s] \in Patch
  BY <1>2 DEF Configs
<1>4. disk' = [config |-> config', next |-> next', known |-> known']
  BY DEF Upsert, Memory
<1>5. acked' \in Configs /\ acked'[s] = config'[s] /\ \A u \in Scopes \ {s} : acked'[u] = acked[u]
  <2>1. acked' = [acked EXCEPT ![s] = config'[s]]
    BY DEF Upsert
  <2>. QED  BY <1>1, <1>3, <2>1 DEF Configs
<1>6. TypeOK'
  <2>1. disk' \in DiskType
    BY <1>2, <1>4 DEF DiskType
  <2>2. /\ up' = up /\ clock' = clock /\ early' = early /\ faults' = faults
        /\ doubted' \subseteq Scopes /\ lost' \subseteq Scopes /\ moved' \subseteq Scopes
    BY TypeNamed DEF IInv, Upsert, Upserted, Below
  <2>. QED  BY <1>2, <1>5, <2>1, <2>2, TypeNamed DEF IInv, TypeOK, Configs, Runs, InZones, DiskType
<1>7. AcknowledgedSurvives'
  <2>1. ASSUME NEW u \in Scopes \ doubted'
        PROVE  disk'.config[u] = acked'[u] /\ (up' => config'[u] = acked'[u])
    <3>1. CASE u = s
      BY <1>4, <1>5, <3>1
    <3>2. CASE u # s
      <4>1. up /\ config[u] = acked[u]
        BY <1>1, <3>2 DEF IInv, AcknowledgedSurvives, Upsert, MayUpsert
      <4>. QED  BY <1>2, <1>4, <1>5, <3>2, <4>1
    <3>. QED  BY <3>1, <3>2
  <2>. QED  BY <2>1 DEF AcknowledgedSurvives
<1>. QED  BY <1>2, <1>6, <1>7 DEF IInv

LEMMA UpsertFailsKeepsIInv ==
    ASSUME IInv, NEW s \in Scopes, NEW p \in Patches, NEW z \in Zones, UpsertFails(s, p, z)
    PROVE  IInv'
<1>1. Upserted(s, p, z)
  BY DEF UpsertFails
<1>2. /\ config' \in Configs /\ next' \in Runs /\ zoned' \in InZones /\ known' \subseteq Sources
      /\ upserts' \in Nat /\ earned' \subseteq Scopes /\ ScheduleInv'
      /\ \A u \in Scopes \ {s} : config'[u] = config[u]
  BY <1>1, UpsertedKeeps
<1>3. TypeOK'
  <2>1. /\ up' = up /\ clock' = clock /\ early' = early /\ faults' = faults + 1
        /\ disk' = disk /\ acked' = acked
        /\ doubted' \subseteq Scopes /\ lost' \subseteq Scopes /\ moved' \subseteq Scopes
    BY TypeNamed DEF IInv, UpsertFails, Upserted, Below
  <2>. QED  BY <1>2, <2>1, TypeNamed DEF IInv, TypeOK, Configs, Runs, InZones, DiskType
<1>4. AcknowledgedSurvives'
  <2>1. ASSUME NEW u \in Scopes \ doubted'
        PROVE  disk'.config[u] = acked'[u] /\ (up' => config'[u] = acked'[u])
    BY <1>2 DEF IInv, AcknowledgedSurvives, UpsertFails, Upserted
  <2>. QED  BY <2>1 DEF AcknowledgedSurvives
<1>. QED  BY <1>2, <1>3, <1>4 DEF IInv

\* What is scheduled when somebody looks is not due yet.
LEMMA LookKeepsIInv ==
    ASSUME IInv, NEW s \in Scopes, NEW z \in Zones, Look(s, z)
    PROVE  IInv'
<1>1. /\ config \in [Scopes -> Patch] /\ next \in [Scopes -> Nat] /\ zoned \in [Scopes -> Zones]
      /\ clock \in Nat /\ clock >= DayLength
  BY DEF IInv, TypeOK
<1> DEFINE r == Reconciled(config, s, FALSE, z)
           at == Rezoned(config, s, FALSE, z)
<1>2. /\ r \in Nat /\ at \in Zones
      /\ \/ r = 0
         \/ Ahead(r, at, SyncTime(config, s))
         \/ next[s] # 0 /\ r = next[s] /\ at = zoned[s]
  BY <1>1, ReconciledIsAhead
<1>3. next' = [next EXCEPT ![s] = r] /\ zoned' = [zoned EXCEPT ![s] = at]
  BY DEF Look
<1> HIDE DEF r, at
<1>4. /\ next' \in [Scopes -> Nat] /\ next'[s] = r /\ zoned' \in [Scopes -> Zones] /\ zoned'[s] = at
      /\ \A u \in Scopes \ {s} : next'[u] = next[u] /\ zoned'[u] = zoned[u]
  BY <1>1, <1>2, <1>3
<1>5. TypeOK'
  BY <1>4 DEF IInv, TypeOK, Look, countVars, configHistory
<1>6. ASSUME NEW u \in Scopes \ earned PROVE OnTime(u)'
  <2>1. OnTime(u) /\ clock' = clock /\ config' = config
    BY DEF IInv, ScheduleInv, Look
  <2>2. CASE u = s
    BY <1>2, <1>4, <2>1, <2>2 DEF OnTime, Ahead
  <2>3. CASE u # s
    BY <1>4, <2>1, <2>3 DEF OnTime, Ahead
  <2>. QED  BY <2>2, <2>3
<1>7. ScheduleInv'
  BY <1>6 DEF IInv, ScheduleInv, RunsAreEarned, Look
<1>8. AcknowledgedSurvives'
  BY DEF IInv, AcknowledgedSurvives, Look, configHistory
<1>. QED  BY <1>5, <1>7, <1>8 DEF IInv

LEMMA RunNowKeepsIInv ==
    ASSUME IInv, NEW s \in Scopes, RunNow(s)
    PROVE  IInv'
<1>1. config \in [Scopes -> Patch] /\ next \in Runs /\ known \subseteq Sources
  BY TypeNamed DEF IInv, Configs
<1>2. SourcesOf(config, Layers[s]) \subseteq Sources
  BY <1>1, LayersOf, SourcesOfType
<1>3. known' \subseteq Sources
  BY <1>1, <1>2 DEF RunNow
<1>4. config' = config /\ next' = next /\ disk' = [config |-> config', next |-> next', known |-> known']
  BY DEF RunNow, Memory
<1>5. TypeOK'
  <2>1. disk' \in DiskType
    BY <1>1, <1>3, <1>4 DEF DiskType, Configs
  <2>. QED  BY <1>3, <2>1 DEF IInv, TypeOK, DiskType, Configs, Runs, RunNow, countVars, scheduleHistory, configHistory
<1>6. ScheduleInv'
  BY DEF IInv, ScheduleInv, RunsAreEarned, OnTime, Ahead, RunNow, scheduleHistory
<1>7. AcknowledgedSurvives'
  BY <1>4 DEF IInv, AcknowledgedSurvives, RunNow, configHistory
<1>. QED  BY <1>5, <1>6, <1>7 DEF IInv

\* A tick runs what is due, which has been earned, and schedules it anew.
LEMMA TickedKeeps ==
    ASSUME IInv, Ticked
    PROVE  /\ next' \in Runs /\ zoned' \in InZones /\ ScheduleInv'
           /\ early' \subseteq Scopes \X (0 .. DayLength - 1) /\ earned' \subseteq Scopes
<1>1. /\ config \in [Scopes -> Patch] /\ next \in [Scopes -> Nat] /\ zoned \in [Scopes -> Zones]
      /\ clock \in Nat /\ clock >= DayLength /\ 0 \in Zones
  BY SkillSyncAssumption DEF IInv, TypeOK
<1> DEFINE due == {s \in Configured(config) : Due(s)}
           rec(s, reset) == Reconciled(config, s, reset, 0)
           at(s, reset) == Rezoned(config, s, reset, 0)
<1>2. /\ \A s \in Scopes :
           /\ rec(s, TRUE) \in Nat /\ at(s, TRUE) \in Zones
           /\ rec(s, TRUE) # 0 => Ahead(rec(s, TRUE), at(s, TRUE), SyncTime(config, s))
      /\ \A s \in Scopes :
           /\ rec(s, FALSE) \in Nat /\ at(s, FALSE) \in Zones
           /\ \/ rec(s, FALSE) = 0
              \/ Ahead(rec(s, FALSE), at(s, FALSE), SyncTime(config, s))
              \/ next[s] # 0 /\ rec(s, FALSE) = next[s] /\ at(s, FALSE) = zoned[s]
  BY <1>1, ReconciledIsAhead
<1>3. ASSUME NEW s \in due \ earned PROVE s \in Scopes /\ SyncTime(config, s) < Night
  <2> DEFINE n == rec(s, FALSE)
             a == at(s, FALSE)
  <2>1. s \in Scopes /\ n # 0 /\ n <= clock
    BY DEF Due, Configured
  <2>2. /\ n \in Nat
        /\ \/ n = 0 \/ Ahead(n, a, SyncTime(config, s))
           \/ next[s] # 0 /\ n = next[s] /\ a = zoned[s]
    <3> HIDE DEF rec, at, due
    <3>. QED  BY <1>2, <2>1
  <2>3. OnTime(s)
    <3> HIDE DEF due
    <3>. QED  BY <2>1 DEF IInv, ScheduleInv
  <2> HIDE DEF n, a, rec, at, due
  <2>. QED  BY <1>1, <2>1, <2>2, <2>3 DEF OnTime, Ahead
<1>4. /\ next' = [s \in Scopes |-> IF s \in Configured(config) THEN rec(s, s \in due) ELSE next[s]]
      /\ zoned' = [s \in Scopes |-> IF s \in Configured(config) THEN at(s, s \in due) ELSE zoned[s]]
      /\ early' = early \cup {<<s, SyncTime(config, s)>> : s \in due \ earned}
      /\ earned' = earned \ due
      /\ clock' = clock /\ config' = config
  BY DEF Ticked
<1>5. RunsAreEarned' /\ early' \subseteq Scopes \X (0 .. DayLength - 1) /\ earned' \subseteq Scopes
  <2>1. \A s \in Scopes : SyncTime(config, s) \in 0 .. DayLength - 1
    BY <1>1, SyncTimeType
  <2> HIDE DEF due
  <2>2. \A r \in early' : r \in early \/ \E s \in due \ earned : r = <<s, SyncTime(config, s)>>
    BY <1>4
  <2>3. \A r \in early : r[2] < Night /\ r \in Scopes \X (0 .. DayLength - 1)
    BY DEF IInv, ScheduleInv, RunsAreEarned, TypeOK
  <2>4. \A r \in early' : r[2] < Night /\ r \in Scopes \X (0 .. DayLength - 1)
    BY <1>3, <2>1, <2>2, <2>3
  <2>5. earned' \subseteq Scopes
    BY <1>4 DEF IInv, TypeOK
  <2>. QED  BY <2>4, <2>5 DEF RunsAreEarned
<1>6. ASSUME NEW s \in Scopes
      PROVE  next'[s] \in Nat /\ zoned'[s] \in Zones /\ (s \notin earned' => OnTime(s)')
  <2>1. CASE s \notin Configured(config)
    <3>1. next'[s] = next[s] /\ zoned'[s] = zoned[s] /\ s \notin due
      BY <1>4, <2>1
    <3> HIDE DEF due
    <3>. QED  BY <1>1, <1>4, <3>1 DEF IInv, ScheduleInv, OnTime, Ahead
  <2>2. CASE s \in Configured(config) /\ s \in due
    <3>1. next'[s] = rec(s, TRUE) /\ zoned'[s] = at(s, TRUE)
      BY <1>4, <2>2
    <3>2. /\ rec(s, TRUE) \in Nat /\ at(s, TRUE) \in Zones
          /\ rec(s, TRUE) # 0 => Ahead(rec(s, TRUE), at(s, TRUE), SyncTime(config, s))
      <4> HIDE DEF rec, at
      <4>. QED  BY <1>2
    <3> HIDE DEF rec, at
    <3>. QED  BY <1>4, <3>1, <3>2 DEF OnTime, Ahead
  <2>3. CASE s \in Configured(config) /\ s \notin due
    <3>1. next'[s] = rec(s, FALSE) /\ zoned'[s] = at(s, FALSE)
      <4>1. (s \in due) = FALSE
        BY <2>3
      <4> HIDE DEF due, rec, at
      <4>. QED  BY <1>4, <2>3, <4>1
    <3>2. /\ rec(s, FALSE) \in Nat /\ at(s, FALSE) \in Zones
          /\ \/ rec(s, FALSE) = 0
             \/ Ahead(rec(s, FALSE), at(s, FALSE), SyncTime(config, s))
             \/ next[s] # 0 /\ rec(s, FALSE) = next[s] /\ at(s, FALSE) = zoned[s]
      <4> HIDE DEF rec, at
      <4>. QED  BY <1>2
    <3>3. s \notin earned' => OnTime(s)
      <4> HIDE DEF due
      <4>. QED  BY <1>4, <2>3 DEF IInv, ScheduleInv
    <3> HIDE DEF rec, at, due
    <3>. QED  BY <1>4, <3>1, <3>2, <3>3 DEF OnTime, Ahead
  <2>. QED  BY <2>1, <2>2, <2>3
<1>7. next' \in Runs /\ zoned' \in InZones
  <2>1. next' = [s \in Scopes |-> next'[s]] /\ zoned' = [s \in Scopes |-> zoned'[s]]
    BY <1>4
  <2>. QED  BY <1>6, <2>1 DEF Runs, InZones
<1>. QED  BY <1>5, <1>6, <1>7 DEF ScheduleInv

LEMMA TickKeepsIInv ==
    ASSUME IInv, Tick
    PROVE  IInv'
<1>1. /\ Ticked /\ next' \in Runs /\ zoned' \in InZones /\ ScheduleInv'
      /\ early' \subseteq Scopes \X (0 .. DayLength - 1) /\ earned' \subseteq Scopes
  BY TickedKeeps DEF Tick
<1>2. /\ config' = config /\ known' = known /\ acked' = acked /\ doubted' = doubted /\ up
      /\ disk' = [config |-> config', next |-> next', known |-> known']
  BY DEF Tick, Ticked, configHistory, Memory
<1>3. TypeOK'
  <2>1. disk' \in DiskType
    BY <1>1, <1>2, TypeNamed DEF DiskType, IInv
  <2>. QED  BY <1>1, <2>1 DEF IInv, TypeOK, DiskType, Configs, Runs, InZones, Tick, Ticked, configHistory
<1>4. AcknowledgedSurvives'
  BY <1>2 DEF IInv, AcknowledgedSurvives
<1>. QED  BY <1>1, <1>3, <1>4 DEF IInv

LEMMA TickFailsKeepsIInv ==
    ASSUME IInv, TickFails
    PROVE  IInv'
<1>1. /\ Ticked /\ next' \in Runs /\ zoned' \in InZones /\ ScheduleInv'
      /\ early' \subseteq Scopes \X (0 .. DayLength - 1) /\ earned' \subseteq Scopes
  BY TickedKeeps DEF TickFails
<1>2. TypeOK'
  <2>1. up' \in BOOLEAN /\ faults' \in Nat
    <3>1. up' = FALSE
      BY DEF TickFails
    <3>2. faults' \in Nat
      BY DEF IInv, TypeOK, TickFails
    <3>. QED  BY <3>1, <3>2
  <2>2. UNCHANGED <<clock, config, known, disk, upserts, acked, doubted, lost, moved>>
    BY DEF TickFails, Ticked, configHistory
  <2>. QED  BY <1>1, <2>1, <2>2, TypeNamed DEF IInv, TypeOK, Configs, Runs, InZones, DiskType
<1>3. AcknowledgedSurvives'
  BY DEF IInv, AcknowledgedSurvives, TickFails, Ticked, configHistory
<1>. QED  BY <1>1, <1>2, <1>3 DEF IInv

\* The clock reaches a next run only when the sync time is reached.
LEMMA AdvanceKeepsIInv ==
    ASSUME IInv, Advance
    PROVE  IInv'
<1>1. TypeOK'
  BY SkillSyncAssumption DEF IInv, TypeOK, Advance, memoryVars, countVars, configHistory
<1>2. clock \in Nat /\ next \in [Scopes -> Nat]
  BY DEF IInv, TypeOK
<1>3. ASSUME NEW s \in Scopes \ earned' PROVE OnTime(s)'
  <2> DEFINE time == SyncTime(config, s)
  <2>1. /\ s \notin earned /\ (clock + 1 + zoned[s]) % DayLength # time
        /\ clock' = clock + 1 /\ next' = next /\ config' = config /\ zoned' = zoned
    BY DEF Advance, memoryVars
  <2>2. next[s] # 0 => time < Night \/ (next[s] > clock /\ (next[s] + zoned[s]) % DayLength = time)
    BY <2>1 DEF IInv, ScheduleInv, OnTime, Ahead
  <2>3. next[s] # 0 => time < Night \/ next[s] # clock + 1
    BY <2>1, <2>2
  <2>4. next[s] # 0 => time < Night \/ (next[s] > clock + 1 /\ (next[s] + zoned[s]) % DayLength = time)
    <3>1. next[s] \in Nat
      BY <1>2
    <3> HIDE DEF time
    <3>. QED  BY <1>2, <2>2, <2>3, <3>1
  <2>5. time' = time
    BY <2>1
  <2> HIDE DEF time
  <2>. QED  BY <2>1, <2>4, <2>5 DEF OnTime, Ahead, time
<1>4. ScheduleInv'
  BY <1>3 DEF IInv, ScheduleInv, RunsAreEarned, Advance
<1>5. AcknowledgedSurvives'
  BY DEF IInv, AcknowledgedSurvives, Advance, memoryVars, configHistory
<1>. QED  BY <1>1, <1>4, <1>5 DEF IInv

LEMMA CrashKeepsIInv ==
    ASSUME IInv, Crash
    PROVE  IInv'
<1>1. TypeOK'
  <2>1. up' \in BOOLEAN /\ faults' \in Nat
    <3>1. up' = FALSE
      BY DEF Crash
    <3>2. faults' \in Nat
      BY DEF IInv, TypeOK, Crash
    <3>. QED  BY <3>1, <3>2
  <2>2. UNCHANGED <<clock, config, next, zoned, known, disk, upserts, earned, early, acked, doubted, lost, moved>>
    BY DEF Crash, memoryVars, scheduleHistory, configHistory
  <2>. QED  BY <2>1, <2>2, TypeNamed DEF IInv, TypeOK, Configs, Runs, InZones, DiskType
<1>2. ScheduleInv' /\ AcknowledgedSurvives'
  BY DEF IInv, ScheduleInv, RunsAreEarned, OnTime, Ahead, AcknowledgedSurvives, Crash, memoryVars, scheduleHistory, configHistory
<1>. QED  BY <1>1, <1>2 DEF IInv

LEMMA RestartKeepsIInv ==
    ASSUME IInv, Restart
    PROVE  IInv'
<1>1. TypeOK'
  BY DEF IInv, TypeOK, Restart, countVars, configHistory
<1>2. ScheduleInv' /\ AcknowledgedSurvives'
  BY DEF IInv, ScheduleInv, RunsAreEarned, AcknowledgedSurvives, Restart, configHistory
<1>. QED  BY <1>1, <1>2 DEF IInv

\* A start that cannot read the file puts in doubt every scope that had a record.
LEMMA RestartEmptyKeepsIInv ==
    ASSUME IInv, RestartEmpty
    PROVE  IInv'
<1>1. TypeOK'
  <2>1. config' \in Configs /\ next' \in Runs /\ known' \subseteq Sources
    <3>1. None \in Patch
      BY DEF None, Patch
    <3>. QED  BY <3>1, SkillSyncAssumption DEF RestartEmpty, Configs, Runs
  <2>2. /\ up' \in BOOLEAN /\ faults' \in Nat /\ earned' \subseteq Scopes
        /\ doubted' \subseteq Scopes /\ lost' \subseteq Scopes
    <3>1. up' = TRUE
      BY DEF RestartEmpty
    <3>. QED  BY <3>1, TypeNamed DEF IInv, RestartEmpty, Configured
  <2>3. UNCHANGED <<clock, disk, upserts, early, zoned, acked, moved>>
    BY DEF RestartEmpty
  <2>. QED  BY <2>1, <2>2, <2>3, TypeNamed DEF IInv, TypeOK, Configs, Runs, InZones, DiskType
<1>2. ScheduleInv'
  BY DEF IInv, ScheduleInv, RunsAreEarned, RestartEmpty
<1>3. AcknowledgedSurvives'
  <2>1. ASSUME NEW u \in Scopes \ doubted' PROVE disk.config[u] = None /\ disk.config[u] = acked[u]
    BY DEF IInv, AcknowledgedSurvives, RestartEmpty, Configured
  <2>. QED  BY <2>1 DEF AcknowledgedSurvives, RestartEmpty
<1>. QED  BY <1>1, <1>2, <1>3 DEF IInv

LEMMA StutterKeepsIInv ==
    ASSUME IInv, UNCHANGED vars
    PROVE  IInv'
<1>1. TypeOK'
  BY DEF IInv, TypeOK, vars, memoryVars, countVars, scheduleHistory, configHistory
<1>2. ScheduleInv' /\ AcknowledgedSurvives'
  BY DEF IInv, ScheduleInv, RunsAreEarned, OnTime, Ahead, AcknowledgedSurvives, vars, memoryVars, scheduleHistory, configHistory
<1>. QED  BY <1>1, <1>2 DEF IInv

LEMMA NextKeepsIInv == IInv /\ [Next]_vars => IInv'
<1> SUFFICES ASSUME IInv, [Next]_vars PROVE IInv'
  OBVIOUS
<1>1. ASSUME NEW s \in Scopes, NEW p \in Patches, NEW z \in Zones, Upsert(s, p, z) \/ UpsertFails(s, p, z)
      PROVE  IInv'
  BY <1>1, UpsertKeepsIInv, UpsertFailsKeepsIInv
<1>2. ASSUME NEW s \in Scopes, NEW z \in Zones, Look(s, z) \/ RunNow(s) PROVE IInv'
  BY <1>2, LookKeepsIInv, RunNowKeepsIInv
<1>3. CASE Tick \/ TickFails
  BY <1>3, TickKeepsIInv, TickFailsKeepsIInv
<1>4. CASE Advance \/ Crash \/ Restart \/ RestartEmpty
  BY <1>4, AdvanceKeepsIInv, CrashKeepsIInv, RestartKeepsIInv, RestartEmptyKeepsIInv
<1>5. CASE UNCHANGED vars
  BY <1>5, StutterKeepsIInv
<1>. QED  BY <1>1, <1>2, <1>3, <1>4, <1>5, SkillSyncAssumption DEF Next

\* The invariant, in every reachable state.
THEOREM SyncInvariant == Spec => []IInv
  BY InitEstablishesIInv, NextKeepsIInv, PTL DEF Spec

\* Whatever fails, every variable keeps its type.
THEOREM SyncTypeCorrect == Spec => []TypeOK
<1>1. IInv => TypeOK
  BY DEF IInv
<1>. QED  BY <1>1, SyncInvariant, PTL

\* The scheduler runs a scope only after a sync time has passed in the zone its
\* next run was computed in, a change above or a restart; more often only where
\* the sync time prints as 24.
THEOREM ScheduledRunsAreEarned == Spec => []RunsAreEarned
<1>1. IInv => RunsAreEarned
  BY DEF IInv, ScheduleInv
<1>. QED  BY <1>1, SyncInvariant, PTL

\* An acknowledged configuration stays in effect and in the state file until a
\* change of its scope is acknowledged or refused or a start cannot read the file.
THEOREM AcknowledgedConfigSurvives == Spec => []AcknowledgedSurvives
<1>1. IInv => AcknowledgedSurvives
  BY DEF IInv
<1>. QED  BY <1>1, SyncInvariant, PTL

\* After a tick that could be saved nothing in the state file is due any more,
\* and nothing that is enabled is without its next run, but for the sync times
\* that print as 24: the part of DueIsServed that one tick contributes.
LEMMA TickServes ==
    ASSUME IInv, Tick, NEW s \in Scopes, SyncTime(config, s) >= Night
    PROVE  ~Owed(s)'
<1>1. /\ config \in [Scopes -> Patch] /\ next \in [Scopes -> Nat] /\ zoned \in [Scopes -> Zones]
      /\ clock \in Nat /\ clock >= DayLength /\ 0 \in Zones
  BY SkillSyncAssumption DEF IInv, TypeOK
<1> DEFINE due == {u \in Configured(config) : Due(u)}
           n(reset) == Reconciled(config, s, reset, 0)
           d == NextDaily(clock, SyncTime(config, s), ZoneOf(config, s, 0))
<1>2. /\ next' = [u \in Scopes |-> IF u \in Configured(config) THEN Reconciled(config, u, u \in due, 0) ELSE next[u]]
      /\ clock' = clock /\ disk'.config = config /\ disk'.next = next'
  BY DEF Tick, Ticked, Memory
<1>3. SUFFICES ASSUME s \in Configured(config), Enabled(config, s)
               PROVE  next'[s] > clock
  <2>1. next'[s] \in Nat
    BY TickedKeeps DEF Tick, Runs
  <2>2. Owed(s)' => s \in Configured(config) /\ Enabled(config, s) /\ next'[s] <= clock
    <3> HIDE DEF due
    <3>. QED  BY <1>2 DEF Owed, Configured
  <2> HIDE DEF due
  <2>. QED  BY <1>1, <2>1, <2>2
<1>4. d \in Nat /\ d > clock
  <2>1. SyncTime(config, s) \in 0 .. DayLength - 1 /\ ZoneOf(config, s, 0) \in Zones
    BY <1>1, SyncTimeType, ZoneOfType
  <2>. QED  BY <1>1, <2>1, NextDailyIsAhead
<1>5. n(TRUE) = d /\ n(FALSE) \in {d, next[s]} /\ n(FALSE) # 0 /\ n(FALSE) \in Nat
  <2> HIDE DEF d
  <2>1. d # 0
    BY <1>1, <1>4
  <2>2. n(TRUE) = d /\ n(FALSE) = IF next[s] = 0 THEN d ELSE next[s]
    BY <1>3 DEF Reconciled, Renewed, d
  <2> HIDE DEF n
  <2>. QED  BY <1>1, <1>4, <2>1, <2>2
<1>6. CASE s \in due
  <2>1. next'[s] = n(TRUE)
    <3>1. (s \in due) = TRUE
      BY <1>6
    <3> HIDE DEF due, n
    <3>. QED  BY <1>2, <1>3, <3>1 DEF n
  <2> HIDE DEF n, d
  <2>. QED  BY <1>4, <1>5, <2>1
<1>7. CASE s \notin due
  <2>1. next'[s] = n(FALSE)
    <3>1. (s \in due) = FALSE
      BY <1>7
    <3> HIDE DEF due, n
    <3>. QED  BY <1>2, <1>3, <3>1 DEF n
  <2>2. n(FALSE) = 0 \/ ~(n(FALSE) <= clock)
    <3>1. ~Due(s)
      BY <1>3, <1>7
    <3>. QED  BY <3>1 DEF Due
  <2> DEFINE m == n(FALSE)
  <2>3. m \in Nat /\ m # 0 /\ next'[s] = m /\ (m = 0 \/ ~(m <= clock))
    BY <1>5, <2>1, <2>2
  <2> HIDE DEF m
  <2>. QED  BY <1>1, <2>3
<1>. QED  BY <1>6, <1>7

\* Whatever changes, failures and crashes came before, a tick that is saved
\* leaves nothing owed but what is due again at once, its sync time printing as 24.
THEOREM TicksLeaveNothingOwed ==
    Spec => [][Tick => \A s \in Scopes : Owed(s)' => Nightly(config, s)]_vars
<1>1. ASSUME IInv, Tick, NEW s \in Scopes PROVE Owed(s)' => Nightly(config, s)
  <2>1. SyncTime(config, s) \in Nat /\ Night \in Nat
    <3>1. config \in [Scopes -> Patch]
      BY <1>1 DEF IInv, TypeOK
    <3>. QED  BY <3>1, SyncTimeType, SkillSyncAssumption
  <2>2. SyncTime(config, s) >= Night => ~Owed(s)'
    BY <1>1, TickServes
  <2>. QED  BY <2>1, <2>2 DEF Nightly
<1>2. IInv /\ [Next]_vars => [Tick => \A s \in Scopes : Owed(s)' => Nightly(config, s)]_vars
  BY <1>1
<1>. QED  BY <1>2, SyncInvariant, PTL DEF Spec

-----------------------------------------------------------------------------
(* The sources of a scope and those of the scope above it. *)

ParentLayers(s) == SubSeq(Layers[s], 1, Len(Layers[s]) - 1)
ParentAt(cfg, kn, s) == Effective(cfg, ParentLayers(s), "sources", kn)

\* The scope inherits its sources, or named some within those above it.
WithinAt(cfg, kn, s) ==
    cfg[s]["sources"] = Unset \/ Within(ParentAt(cfg, kn, s), cfg[s]["sources"])

SourcesInv ==
    /\ known # {} /\ disk.known # {}
    /\ \A s \in HasParent \ moved : WithinAt(config, known, s) /\ WithinAt(disk.config, disk.known, s)

LEMMA ParentLayersOf ==
    ASSUME NEW s \in Scopes
    PROVE  /\ ParentLayers(s) \in Seq(Scopes) /\ Len(ParentLayers(s)) = Len(Layers[s]) - 1
           /\ Len(ParentLayers(s)) \in 0 .. 3
           /\ \A i \in 1 .. Len(ParentLayers(s)) :
                ParentLayers(s)[i] = Layers[s][i] /\ Layers[s][i] \in Above(s)
<1>1. /\ Layers[s] \in Seq(Scopes) /\ Len(Layers[s]) \in 1 .. 3
      /\ \A i \in 1 .. Len(Layers[s]) : Layers[s][i] = s <=> i = Len(Layers[s])
  BY LayersOf
<1>2. ParentLayers(s) \in Seq(Scopes) /\ Len(ParentLayers(s)) = Len(Layers[s]) - 1
  BY <1>1 DEF ParentLayers
<1>3. \A i \in 1 .. Len(ParentLayers(s)) : ParentLayers(s)[i] = Layers[s][i]
  BY <1>1 DEF ParentLayers
<1>4. \A i \in 1 .. Len(Layers[s]) - 1 : Layers[s][i] \in Above(s)
  BY <1>1 DEF Above
<1>. QED  BY <1>1, <1>2, <1>3, <1>4

LEMMA ParentAtOf ==
    ASSUME NEW s \in Scopes, NEW cfg, NEW kn
    PROVE  \/ /\ \A i \in 1 .. Len(ParentLayers(s)) : cfg[ParentLayers(s)[i]]["sources"] = Unset
              /\ ParentAt(cfg, kn, s) = kn
           \/ \E i \in 1 .. Len(ParentLayers(s)) :
                /\ cfg[ParentLayers(s)[i]]["sources"] # Unset
                /\ \A j \in i + 1 .. Len(ParentLayers(s)) : cfg[ParentLayers(s)[j]]["sources"] = Unset
                /\ ParentAt(cfg, kn, s) = cfg[ParentLayers(s)[i]]["sources"]
<1>1. ParentLayers(s) \in Seq(Scopes) /\ Len(ParentLayers(s)) \in 0 .. 3
  BY ParentLayersOf
<1>. QED  BY <1>1, EffectiveOf DEF ParentAt

\* The sources of a scope are its own, or else those above it.
LEMMA OwnOrInherited ==
    ASSUME NEW s \in Scopes
    PROVE  /\ ParentSources(s) = ParentAt(config, known, s)
           /\ SourcesOf(config, Layers[s]) = IF config[s]["sources"] # Unset THEN config[s]["sources"]
                                             ELSE ParentAt(config, known, s)
<1>1. ParentSources(s) = ParentAt(config, known, s)
  BY DEF ParentSources, SourcesOf, ParentAt, ParentLayers
<1>2. /\ Layers[s] \in Seq(Scopes) /\ Len(Layers[s]) \in 1 .. 3 /\ Len(Layers[s]) \in 0 .. 3
      /\ Layers[s][Len(Layers[s])] = s
  BY LayersOf
<1>3. /\ ParentLayers(s) \in Seq(Scopes) /\ Len(ParentLayers(s)) = Len(Layers[s]) - 1
      /\ Len(ParentLayers(s)) \in 0 .. 3
      /\ \A i \in 1 .. Len(ParentLayers(s)) : ParentLayers(s)[i] = Layers[s][i]
  BY ParentLayersOf
<1> DEFINE v(i) == config[Layers[s][i]]["sources"]
           n == Len(Layers[s])
<1>4. \/ (\A i \in 1 .. n : v(i) = Unset) /\ SourcesOf(config, Layers[s]) = known
      \/ \E i \in 1 .. n : /\ v(i) # Unset /\ SourcesOf(config, Layers[s]) = v(i)
                           /\ \A j \in i + 1 .. n : v(j) = Unset
  BY <1>2, EffectiveOf DEF SourcesOf
<1>5. \/ (\A i \in 1 .. n - 1 : v(i) = Unset) /\ ParentAt(config, known, s) = known
      \/ \E i \in 1 .. n - 1 : /\ v(i) # Unset /\ ParentAt(config, known, s) = v(i)
                               /\ \A j \in i + 1 .. n - 1 : v(j) = Unset
  <2> DEFINE w(i) == config[ParentLayers(s)[i]]["sources"]
             k == Len(ParentLayers(s))
  <2>1. \/ (\A i \in 1 .. k : w(i) = Unset) /\ ParentAt(config, known, s) = known
        \/ \E i \in 1 .. k : /\ w(i) # Unset /\ ParentAt(config, known, s) = w(i)
                             /\ \A j \in i + 1 .. k : w(j) = Unset
    BY ParentAtOf
  <2>2. k = n - 1 /\ k \in 0 .. 3 /\ \A i \in 1 .. k : w(i) = v(i)
    BY <1>3
  <2> HIDE DEF v, w, k, n
  <2>. QED  BY <2>1, <2>2
<1>6. v(n) = config[s]["sources"] /\ n \in 1 .. 3
  BY <1>2
<1> HIDE DEF v, n
<1>7. CASE v(n) # Unset
  <2>1. SourcesOf(config, Layers[s]) = v(n)
    BY <1>4, <1>6, <1>7
  <2>. QED  BY <1>1, <1>6, <1>7, <2>1
<1>8. CASE v(n) = Unset
  <2>1. SourcesOf(config, Layers[s]) = ParentAt(config, known, s)
    BY <1>4, <1>5, <1>6, <1>8
  <2>. QED  BY <1>1, <1>6, <1>8, <2>1
<1>. QED  BY <1>7, <1>8

LEMMA WithinIsBounded ==
    ASSUME NEW s \in Scopes, WithinAt(config, known, s)
    PROVE  Bounded(s)
  BY OwnOrInherited DEF WithinAt, Bounded, Within

\* Where nothing above changes, the limits from above only grow.
LEMMA ParentGrows ==
    ASSUME NEW s \in Scopes, NEW cfg, NEW new, NEW kn, NEW more, kn # {}, kn \subseteq more,
           \A u \in Above(s) : new[u]["sources"] = cfg[u]["sources"],
           new[s]["sources"] = cfg[s]["sources"],
           WithinAt(cfg, kn, s)
    PROVE  WithinAt(new, more, s)
<1>1. /\ ParentLayers(s) \in Seq(Scopes) /\ Len(ParentLayers(s)) \in 0 .. 3
      /\ \A i \in 1 .. Len(ParentLayers(s)) : ParentLayers(s)[i] \in Above(s)
  BY ParentLayersOf
<1>2. ParentAt(new, more, s) = ParentAt(cfg, more, s)
  <2>1. \A i \in 1 .. Len(ParentLayers(s)) :
          new[ParentLayers(s)[i]]["sources"] = cfg[ParentLayers(s)[i]]["sources"]
    BY <1>1
  <2>. QED  BY <1>1, <2>1, EffectiveSame DEF ParentAt
<1> DEFINE v(i) == cfg[ParentLayers(s)[i]]["sources"]
           n == Len(ParentLayers(s))
<1>3. \/ (\A i \in 1 .. n : v(i) = Unset) /\ ParentAt(cfg, kn, s) = kn
      \/ \E i \in 1 .. n : /\ v(i) # Unset /\ ParentAt(cfg, kn, s) = v(i)
                           /\ \A j \in i + 1 .. n : v(j) = Unset
  BY ParentAtOf
<1>4. \/ (\A i \in 1 .. n : v(i) = Unset) /\ ParentAt(cfg, more, s) = more
      \/ \E i \in 1 .. n : /\ v(i) # Unset /\ ParentAt(cfg, more, s) = v(i)
                           /\ \A j \in i + 1 .. n : v(j) = Unset
  BY ParentAtOf
<1>5. n \in 0 .. 3
  BY <1>1
<1> HIDE DEF v, n
<1>6. \/ ParentAt(cfg, more, s) = ParentAt(cfg, kn, s)
      \/ ParentAt(cfg, kn, s) = kn /\ ParentAt(cfg, more, s) = more
  BY <1>3, <1>4, <1>5
<1>. QED  BY <1>2, <1>6 DEF WithinAt, Within

LEMMA InitEstablishesSources == Init => SourcesInv
<1> SUFFICES ASSUME Init PROVE SourcesInv
  OBVIOUS
<1>1. known # {} /\ disk.known = known /\ disk.config = config /\ \A s \in Scopes : config[s]["sources"] = Unset
  BY SkillSyncAssumption DEF Init, Memory, None
<1>. QED  BY <1>1 DEF SourcesInv, WithinAt, HasParent

\* An accepted change of s keeps what u is bounded by, u being neither below s
\* nor, unless the change names sources, s itself.
LEMMA UpsertedKeepsSources ==
    ASSUME IInv, SourcesInv, NEW s \in Scopes, NEW p \in Patches, NEW z \in Zones, MayUpsert(s, p), Upserted(s, p, z)
    PROVE  /\ known' # {} /\ known \subseteq known'
           /\ \A u \in HasParent \ Below(s) :
                u \notin moved \/ (u = s /\ p["sources"] # Unset) => WithinAt(config', known', u)
<1>1. p \in Patch /\ config[s] \in Patch /\ config'[s] = Merged(config[s], p)
      /\ \A u \in Scopes \ {s} : config'[u] = config[u]
  <2>1. config \in [Scopes -> Patch]
    BY TypeNamed DEF IInv, Configs
  <2>. QED  BY <2>1, UpsertedKeeps, SkillSyncAssumption
<1>2. config'[s]["sources"] = IF p["sources"] = Unset THEN config[s]["sources"] ELSE p["sources"]
  BY <1>1, MergedType
<1>3. known # {} /\ known \subseteq known'
  BY DEF SourcesInv, Upserted
<1>4. ASSUME NEW u \in Scopes \ Below(s)
      PROVE  \A w \in Above(u) : config'[w]["sources"] = config[w]["sources"]
  <2>1. Above(u) \subseteq Scopes /\ s \notin Above(u)
    BY <1>4, LayersOf DEF Above, Below
  <2>. QED  BY <1>1, <2>1
<1>5. ASSUME NEW u \in HasParent \ Below(s), u \notin moved, config'[u]["sources"] = config[u]["sources"]
      PROVE  WithinAt(config', known', u)
  <2>1. WithinAt(config, known, u) /\ u \in Scopes
    BY <1>5 DEF SourcesInv, HasParent
  <2>. QED  BY <1>3, <1>4, <1>5, <2>1, ParentGrows
<1>6. ASSUME p["sources"] # Unset, s \in HasParent
      PROVE  WithinAt(config', known', s)
  <2>1. Within(ParentAt(config, known, s), p["sources"])
    BY <1>6, OwnOrInherited DEF MayUpsert, HasParent
  <2>3. s \in Scopes \ Below(s)
    BY DEF Below, Above
  <2>4. ParentAt(config', known, s) = ParentAt(config, known, s)
    <3>1. /\ ParentLayers(s) \in Seq(Scopes) /\ Len(ParentLayers(s)) \in 0 .. 3
          /\ \A i \in 1 .. Len(ParentLayers(s)) : ParentLayers(s)[i] \in Above(s)
      BY ParentLayersOf
    <3>2. \A i \in 1 .. Len(ParentLayers(s)) :
            config'[ParentLayers(s)[i]]["sources"] = config[ParentLayers(s)[i]]["sources"]
      BY <1>4, <2>3, <3>1
    <3>. QED  BY <3>1, <3>2, EffectiveSame DEF ParentAt
  <2>5. WithinAt(config', known, s)
    BY <1>2, <1>6, <2>1, <2>4 DEF WithinAt
  <2>. QED  BY <1>3, <2>5, ParentGrows
<1>7. ASSUME NEW u \in HasParent \ Below(s), u \notin moved \/ (u = s /\ p["sources"] # Unset)
      PROVE  WithinAt(config', known', u)
  <2>1. CASE u = s /\ p["sources"] # Unset
    BY <1>6, <2>1
  <2>2. CASE u # s \/ p["sources"] = Unset
    <3>1. u \in Scopes /\ config'[u]["sources"] = config[u]["sources"]
      BY <1>1, <1>2, <2>2 DEF HasParent
    <3>. QED  BY <1>5, <1>7, <2>2, <3>1
  <2>. QED  BY <2>1, <2>2
<1>. QED  BY <1>3, <1>7

LEMMA UpsertKeepsSources ==
    ASSUME IInv, SourcesInv, NEW s \in Scopes, NEW p \in Patches, NEW z \in Zones, Upsert(s, p, z)
    PROVE  SourcesInv'
<1>1. /\ known' # {}
      /\ \A u \in HasParent \ Below(s) :
           u \notin moved \/ (u = s /\ p["sources"] # Unset) => WithinAt(config', known', u)
  BY UpsertedKeepsSources DEF Upsert
<1>2. disk'.config = config' /\ disk'.known = known'
  BY DEF Upsert, Memory
<1>3. ASSUME NEW u \in HasParent \ moved' PROVE WithinAt(config', known', u)
  <2>1. u \in HasParent \ Below(s) /\ (u \notin moved \/ (u = s /\ p["sources"] # Unset))
    BY <1>3 DEF Upsert
  <2>. QED  BY <1>1, <2>1
<1>. QED  BY <1>1, <1>2, <1>3 DEF SourcesInv, HasParent

LEMMA UpsertFailsKeepsSources ==
    ASSUME IInv, SourcesInv, NEW s \in Scopes, NEW p \in Patches, NEW z \in Zones, UpsertFails(s, p, z)
    PROVE  SourcesInv'
<1>1. /\ known' # {}
      /\ \A u \in HasParent \ Below(s) :
           u \notin moved \/ (u = s /\ p["sources"] # Unset) => WithinAt(config', known', u)
  BY UpsertedKeepsSources DEF UpsertFails
<1>2. disk' = disk /\ moved' = moved \cup Below(s)
  BY DEF UpsertFails
<1>. QED  BY <1>1, <1>2 DEF SourcesInv, HasParent

LEMMA RunNowKeepsSources ==
    ASSUME IInv, SourcesInv, NEW s \in Scopes, RunNow(s)
    PROVE  SourcesInv'
<1>1. known' # {} /\ known \subseteq known' /\ config' = config /\ moved' = moved
  BY DEF RunNow, SourcesInv, configHistory
<1>2. disk'.config = config' /\ disk'.known = known'
  BY DEF RunNow, Memory
<1>3. ASSUME NEW u \in HasParent \ moved PROVE WithinAt(config', known', u)
  <2>1. u \in Scopes /\ known # {} /\ WithinAt(config, known, u)
    BY DEF SourcesInv, HasParent
  <2>. QED  BY <1>1, <2>1, ParentGrows
<1>. QED  BY <1>1, <1>2, <1>3 DEF SourcesInv, HasParent

\* The other steps change neither the configurations nor the sources, or bring
\* back those in the file.
LEMMA NextKeepsSources == IInv /\ SourcesInv /\ [Next]_vars => SourcesInv'
<1> SUFFICES ASSUME IInv, SourcesInv, [Next]_vars PROVE SourcesInv'
  OBVIOUS
<1>1. ASSUME NEW s \in Scopes, NEW p \in Patches, NEW z \in Zones, Upsert(s, p, z) \/ UpsertFails(s, p, z)
      PROVE  SourcesInv'
  BY <1>1, UpsertKeepsSources, UpsertFailsKeepsSources
<1>2. ASSUME NEW s \in Scopes, RunNow(s) PROVE SourcesInv'
  BY <1>2, RunNowKeepsSources
<1>3. CASE UNCHANGED <<config, known, moved>> /\ (disk' = disk \/ disk' = Memory')
  BY <1>3 DEF SourcesInv, HasParent, Memory
<1>4. CASE Restart \/ RestartEmpty
  <2>1. Restart => SourcesInv'
    BY DEF SourcesInv, HasParent, Restart, configHistory
  <2>2. RestartEmpty => SourcesInv'
    <3>1. \A s \in Scopes : RestartEmpty => config'[s]["sources"] = Unset
      BY DEF RestartEmpty, None
    <3>. QED  BY <3>1, SkillSyncAssumption DEF SourcesInv, HasParent, RestartEmpty, WithinAt
  <2>. QED  BY <1>4, <2>1, <2>2
<1>5. ASSUME NEW s \in Scopes, NEW z \in Zones, Look(s, z) PROVE SourcesInv'
  BY <1>3, <1>5 DEF Look, configHistory
<1>6. CASE Tick \/ TickFails
  BY <1>3, <1>6 DEF Tick, TickFails, Ticked, configHistory
<1>7. CASE Advance \/ Crash \/ UNCHANGED vars
  BY <1>3, <1>7 DEF Advance, Crash, vars, memoryVars, configHistory
<1>. QED  BY <1>1, <1>2, <1>4, <1>5, <1>6, <1>7 DEF Next

\* The sources of a scope stay within those above it, over failed writes and
\* restarts, as long as nothing above it has changed since they were accepted.
THEOREM SourcesStayWithin == Spec => []SourcesWithinParent
<1>1. SourcesInv => SourcesWithinParent
  BY WithinIsBounded DEF SourcesInv, SourcesWithinParent, HasParent
<1>. QED  BY <1>1, InitEstablishesSources, NextKeepsSources, SyncInvariant, PTL DEF Spec
=============================================================================
