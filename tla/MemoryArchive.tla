---------------------------- MODULE MemoryArchive ----------------------------
(***************************************************************************)
(* The memory files of one day: memory.appendDaily, which writes to the    *)
(* daily file and perhaps to the long-term one in a single synchronous     *)
(* call, and memory.archive, which reads the daily file (or the one at its *)
(* legacy path), appends it to the long-term file and clears it, each in   *)
(* an await of its own.                                                    *)
(*                                                                         *)
(* Abstracted: a note is a model value, a file the number of copies of     *)
(* each note; other days share only the long-term file.  Requests overlap  *)
(* when they come over HTTP, over two sockets or from the tools of a turn. *)
(***************************************************************************)
EXTENDS Naturals

CONSTANTS
    Notes,
    Archives,     \* slots for memory.archive requests
    MaxArchives,  \* bound on the archives in total
    MaxFaults,    \* bound on failed reads and writes, rejected awaits and crashes
    NoFile

ASSUME MemoryAssumption ==
    /\ MaxArchives \in Nat /\ MaxFaults \in Nat
    /\ NoFile \notin [Notes -> Nat]

VARIABLES
    daily,    \* .openfoal/memory/daily/<date>.md
    legacy,   \* daily/<date>.md or memory/<date>.md
    longTerm, \* .openfoal/memory/MEMORY.md
    pc,       \* where each archive stands
    keep,     \* its includeLongTerm
    clear,    \* its clearDaily
    text,     \* its dailyText
    source,   \* its dailySourcePath
    started, faults,
    acked,    \* history: notes whose append was answered ok
    dropped,  \* history: notes cleared by an archive asked not to keep them
    straight, \* history: notes written to the long-term file by an append
    beside,   \* history: notes appended while an archive was in flight
    smooth    \* history: so far nothing failed, no archives overlapped, each cleared its file

fileVars == <<daily, legacy, longTerm>>
archiveVars == <<keep, clear, text, source>>
historyVars == <<acked, dropped, straight, beside, smooth>>
vars == <<fileVars, pc, archiveVars, started, faults, historyVars>>

Texts == [Notes -> Nat]
Files == Texts \cup {NoFile}
Blank == [n \in Notes |-> 0]
In(t) == {n \in Notes : t[n] > 0}
Steps == {"fallback", "read", "kept", "cleared"}
InFlight(x) == pc[x] \in Steps
Quiet == \A x \in Archives : ~InFlight(x)

Copies(file, n) == IF file = NoFile THEN 0 ELSE file[n]
Plus(file, t) == [n \in Notes |-> Copies(file, n) + t[n]]
Once(n) == [Blank EXCEPT ![n] = 1]

\* The type of every variable.
TypeOK ==
    /\ {daily, legacy, longTerm} \subseteq Files
    /\ pc \in [Archives -> Steps \cup {"idle"}]
    /\ keep \in [Archives -> BOOLEAN] /\ clear \in [Archives -> BOOLEAN]
    /\ text \in [Archives -> Texts]
    /\ source \in [Archives -> {"daily", "legacy"}]
    /\ started \in Nat /\ faults \in Nat /\ smooth \in BOOLEAN
    /\ \A h \in {acked, dropped, straight, beside} : h \subseteq Notes

\* A file of an earlier version may be there, with notes of its own.
Init ==
    /\ daily = NoFile /\ longTerm = NoFile
    /\ legacy \in {NoFile} \cup [Notes -> 0..1]
    /\ pc = [x \in Archives |-> "idle"]
    /\ keep = [x \in Archives |-> FALSE] /\ clear = keep
    /\ text = [x \in Archives |-> Blank]
    /\ source = [x \in Archives |-> "daily"]
    /\ started = 0 /\ faults = 0 /\ smooth = TRUE
    /\ acked = {n \in Notes : Copies(legacy, n) > 0}
    /\ dropped = {} /\ straight = {} /\ beside = {}

-----------------------------------------------------------------------------
Go(x, step) == pc' = [pc EXCEPT ![x] = step]

\* A client appends a note, again if an earlier attempt failed.  The legacy
\* path is never written.
AppendDaily(n, both) ==
    /\ n \notin acked
    /\ daily' = Plus(daily, Once(n))
    /\ longTerm' = IF both THEN Plus(longTerm, Once(n)) ELSE longTerm
    /\ acked' = acked \cup {n}
    /\ straight' = IF both THEN straight \cup {n} ELSE straight
    /\ beside' = IF Quiet THEN beside ELSE beside \cup {n}
    /\ dropped' = dropped \ {n}
    /\ UNCHANGED <<legacy, pc, archiveVars, started, faults, smooth>>

\* The second of its two writes fails, and the request with it.
FailAppend(n) ==
    /\ n \notin acked
    /\ faults < MaxFaults
    /\ faults' = faults + 1
    /\ smooth' = FALSE
    /\ daily' = Plus(daily, Once(n))
    /\ UNCHANGED <<legacy, longTerm, pc, archiveVars, started, acked, dropped, straight, beside>>

StartArchive(x, k, c) ==
    /\ pc[x] = "idle"
    /\ started < MaxArchives
    /\ started' = started + 1
    /\ keep' = [keep EXCEPT ![x] = k]
    /\ clear' = [clear EXCEPT ![x] = c]
    /\ source' = [source EXCEPT ![x] = "daily"]
    /\ smooth' = (smooth /\ c /\ Quiet)
    /\ \/ /\ daily = NoFile
          /\ Go(x, "fallback")
          /\ UNCHANGED text
       \/ /\ daily # NoFile
          /\ Go(x, "read")
          /\ text' = [text EXCEPT ![x] = daily]
    /\ UNCHANGED <<fileVars, faults, acked, dropped, straight, beside>>

ReadLegacy(x) ==
    /\ pc[x] = "fallback"
    /\ Go(x, "read")
    /\ \/ /\ legacy = NoFile
          /\ text' = [text EXCEPT ![x] = Blank]
          /\ UNCHANGED source
       \/ /\ legacy # NoFile
          /\ text' = [text EXCEPT ![x] = legacy]
          /\ source' = [source EXCEPT ![x] = "legacy"]
    /\ UNCHANGED <<fileVars, keep, clear, started, faults, historyVars>>

ToKeep(x) == keep[x] /\ text[x] # Blank
MayClear(x) == pc[x] = "kept" \/ (pc[x] = "read" /\ ~ToKeep(x))

AppendLongTerm(x) ==
    /\ pc[x] = "read"
    /\ ToKeep(x)
    /\ Go(x, "kept")
    /\ longTerm' = Plus(longTerm, text[x])
    /\ UNCHANGED <<daily, legacy, archiveVars, started, faults, historyVars>>

\* Mutation: the daily file is cleared although it has yet to be kept.
ClearDailyEarly(x) ==
    /\ pc[x] \in {"read", "kept"}
    /\ clear[x]
    /\ daily' = Blank
    /\ Go(x, IF source[x] = "legacy" THEN "cleared" ELSE "idle")
    /\ dropped' = IF keep[x] THEN dropped ELSE dropped \cup In(text[x])
    /\ UNCHANGED <<legacy, longTerm, archiveVars, started, faults, acked, straight, beside, smooth>>

\* The canonical path is cleared, whatever it holds by now, and created if it
\* is not there; then the path that was read, if it is another one.
ClearDaily(x) ==
    /\ MayClear(x)
    /\ clear[x]
    /\ daily' = Blank
    /\ Go(x, IF source[x] = "legacy" THEN "cleared" ELSE "idle")
    /\ dropped' = IF keep[x] THEN dropped ELSE dropped \cup In(text[x])
    /\ UNCHANGED <<legacy, longTerm, archiveVars, started, faults, acked, straight, beside, smooth>>

\* Mutation: the legacy path is forgotten.
ClearSourceNever(x) ==
    /\ pc[x] = "cleared"
    /\ Go(x, "idle")
    /\ UNCHANGED <<fileVars, archiveVars, started, faults, historyVars>>

ClearSource(x) ==
    /\ pc[x] = "cleared"
    /\ legacy' = Blank
    /\ Go(x, "idle")
    /\ UNCHANGED <<daily, longTerm, archiveVars, started, faults, historyVars>>

ReplyUncleared(x) ==
    /\ MayClear(x)
    /\ ~clear[x]
    /\ Go(x, "idle")
    /\ UNCHANGED <<fileVars, archiveVars, started, faults, historyVars>>

\* A read or a write fails, an await rejects or the process ends.
FailArchive(x) ==
    /\ InFlight(x)
    /\ faults < MaxFaults
    /\ faults' = faults + 1
    /\ smooth' = FALSE
    /\ Go(x, "idle")
    /\ UNCHANGED <<fileVars, archiveVars, started, acked, dropped, straight, beside>>

ArchiveStep(x) ==
    \/ ReadLegacy(x) \/ AppendLongTerm(x) \/ ClearDaily(x) \/ ClearSource(x) \/ ReplyUncleared(x)

Next ==
    \/ \E n \in Notes : (\E both \in BOOLEAN : AppendDaily(n, both)) \/ FailAppend(n)
    \/ \E x \in Archives :
         \/ \E k, c \in BOOLEAN : StartArchive(x, k, c)
         \/ ArchiveStep(x)
         \/ FailArchive(x)

Spec == Init /\ [][Next]_vars
-----------------------------------------------------------------------------
Present(n) == \E file \in {daily, legacy, longTerm} : Copies(file, n) > 0
Lost == {n \in acked \ dropped : ~Present(n)}

\* Nothing is lost by failures and retries: only a note that was appended while
\* an archive was in flight can be.
LossNeedsOverlap == Lost \subseteq beside

\* Archives move notes: unless something failed or archives overlapped, a note
\* is in the files exactly as often as its append wrote it.
ArchiveMoves ==
    smooth /\ Quiet =>
        \A n \in acked \ (dropped \cup beside) :
            Copies(longTerm, n) + Copies(daily, n) + Copies(legacy, n)
                = IF n \in straight THEN 2 ELSE 1
=============================================================================
