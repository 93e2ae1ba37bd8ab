----------------------------- MODULE HealthLog -----------------------------
(***************************************************************************)
(* The bounded health log: server/src/healthlog.ts (the Node agent's copy  *)
(* differs in MaxLinesOf only) on a disk that may refuse a call, with      *)
(* crashes and restarts, each of which may bring another ceiling.          *)
(*                                                                         *)
(* A line is the number of the event it records.  A line that was cut      *)
(* short (torn) is not in file; what is appended next completes it.        *)
(* health() is synchronous, so its steps are apart for a crash only.  A    *)
(* crash is the process's: a call that returned has happened.  The code    *)
(* never syncs the file, so what a loss of power leaves is the file        *)
(* system's affair and not modelled.                                       *)
(***************************************************************************)
EXTENDS Integers, SequencesExt

CONSTANTS MaxEvents,    \* bound on the events
          MaxFaults,    \* bound on refused writes, and on refused reads
          MaxRestarts,  \* bound on the restarts
          Configured    \* the ceilings that HEALTH_LOG_MAX_LINES may give

ASSUME HealthLogAssumption == /\ MaxEvents \in Nat
                              /\ MaxFaults \in Nat
                              /\ MaxRestarts \in Nat
                              /\ Configured \subseteq Int
                              /\ \E least, greatest \in Configured :
                                    Configured \subseteq least..greatest

VARIABLES file,      \* the whole lines of the log
          torn,      \* it ends in a line that was cut short
          tmp,       \* what the trim has written next to it
          step,      \* idle, about to write or to rename the trimmed copy, down
          maxLines, lines, broken,
          events,    \* how many events there were
          recorded,  \* those that were written, in order
          writeFaults, readFaults, restarts

logVars == <<file, torn, tmp>>
memory == <<step, maxLines, lines, broken>>
faults == <<writeFaults, readFaults>>
logState == <<logVars, memory, events, recorded, faults, restarts>>

-----------------------------------------------------------------------------
MaxLinesOf(max) == IF max > 10 THEN max ELSE 10

\* KEEP_RATIO
Keep(max) == (4 * max) \div 5

CountLines == Len(file) + IF torn THEN 1 ELSE 0

WriteFault == writeFaults < MaxFaults /\ writeFaults' = writeFaults + 1
ReadFault == readFaults < MaxFaults /\ readFaults' = readFaults + 1

\* Mutated form: the count starts from nothing.
RecountNothing == lines' = 0 /\ UNCHANGED readFaults

\* countLines: a log that cannot be read counts as empty.
Recount == \/ lines' = CountLines /\ UNCHANGED readFaults
           \/ lines' = 0 /\ ReadFault

\* configure: the directory may not be there.
Configure ==
    /\ step' = "idle"
    /\ \E max \in Configured : maxLines' = MaxLinesOf(max)
    /\ \/ Recount /\ broken' = FALSE /\ UNCHANGED writeFaults
       \/ lines' = 0 /\ broken' = TRUE /\ WriteFault /\ UNCHANGED readFaults

LogInit == /\ file = <<>>
           /\ torn = FALSE
           /\ tmp = <<>>
           /\ step = "idle"
           /\ maxLines \in {MaxLinesOf(max) : max \in Configured}
           /\ lines = 0
           /\ broken = FALSE
           /\ events = 0
           /\ recorded = <<>>
           /\ writeFaults = 0
           /\ readFaults = 0
           /\ restarts = 0

-----------------------------------------------------------------------------
Event == /\ step = "idle"
         /\ events < MaxEvents
         /\ events' = events + 1

\* health: the line is appended.
Health ==
    /\ Event
    /\ ~broken
    /\ file' = Append(file, events')
    /\ torn' = FALSE
    /\ recorded' = Append(recorded, events')
    /\ lines' = lines + 1
    /\ step' = IF lines' >= maxLines THEN "trim" ELSE "idle"
    /\ UNCHANGED <<tmp, maxLines, broken, faults, restarts>>

\* health: appendFileSync throws, maybe after part of the line.
HealthFails ==
    /\ Event
    /\ ~broken
    /\ WriteFault
    /\ torn' \in {torn, TRUE}
    /\ broken' = TRUE
    /\ UNCHANGED <<file, tmp, step, maxLines, lines, recorded, readFaults,
                   restarts>>

\* health, while the log is disabled.
HealthIgnored ==
    /\ Event
    /\ broken
    /\ UNCHANGED <<logVars, memory, recorded, faults, restarts>>

Newest(n) == IF Len(file) <= n THEN file
             ELSE SubSeq(file, Len(file) - n + 1, Len(file))

\* Mutated form: the log itself is written.
TrimInPlace ==
    /\ step = "trim"
    /\ tmp' = Newest(Keep(maxLines))
    /\ file' = <<>>
    /\ step' = "rename"
    /\ UNCHANGED <<torn, maxLines, lines, broken, events, recorded, faults,
                   restarts>>

\* trim, up to writeFileSync of the copy.  (The last append went through, so
\* the last line is whole.)
TrimWrite ==
    /\ step = "trim"
    /\ tmp' = Newest(Keep(maxLines))
    /\ step' = "rename"
    /\ UNCHANGED <<file, torn, maxLines, lines, broken, events, recorded,
                   faults, restarts>>

\* Mutated form: the count is left for the next start.
RenameUncounted ==
    /\ step = "rename"
    /\ file' = tmp
    /\ step' = "idle"
    /\ UNCHANGED <<torn, tmp, maxLines, lines, broken, events, recorded,
                   faults, restarts>>

\* trim: renameSync.
TrimRename ==
    /\ step = "rename"
    /\ file' = tmp
    /\ lines' = Len(tmp)
    /\ step' = "idle"
    /\ UNCHANGED <<torn, tmp, maxLines, broken, events, recorded, faults,
                   restarts>>

\* trim: the read, the write or the rename throws.
TrimFails ==
    /\ step \in {"trim", "rename"}
    /\ WriteFault
    /\ Recount
    /\ step' = "idle"
    /\ UNCHANGED <<logVars, maxLines, broken, events, recorded, restarts>>

\* The process dies, maybe in the middle of an append.
Crash ==
    /\ step # "down"
    /\ restarts < MaxRestarts
    /\ step' = "down"
    /\ IF step = "idle" /\ ~broken THEN torn' \in {torn, TRUE}
                                   ELSE UNCHANGED torn
    /\ UNCHANGED <<file, tmp, maxLines, lines, broken, events, recorded,
                   faults, restarts>>

Restart ==
    /\ step = "down"
    /\ restarts' = restarts + 1
    /\ Configure
    /\ UNCHANGED <<logVars, events, recorded>>

LogNext == \/ Health \/ HealthFails \/ HealthIgnored
           \/ TrimWrite \/ TrimRename \/ TrimFails
           \/ Crash \/ Restart

LogSpec == LogInit /\ [][LogNext]_logState

-----------------------------------------------------------------------------
\* Among the types: in a program whose log works, the cached count (lines) is
\* that of the file, or one more after a line that was cut short was completed,
\* unless a read was refused.
LogTypeOK ==
    /\ file \in Seq(1..MaxEvents)
    /\ torn \in BOOLEAN
    /\ tmp \in Seq(1..MaxEvents)
    /\ step \in {"idle", "trim", "rename", "down"}
    /\ maxLines \in Nat
    /\ lines \in Nat
    /\ broken \in BOOLEAN
    /\ step = "idle" /\ ~broken /\ readFaults = 0
          => lines \in CountLines..(CountLines + 1)

Ceilings == {MaxLinesOf(max) : max \in Configured}
Smallest == CHOOSE n \in Ceilings : \A m \in Ceilings : n <= m
Largest == CHOOSE n \in Ceilings : \A m \in Ceilings : n >= m

AtMost(m, n) == IF m <= n THEN m ELSE n

\* "Write-then-rename, so a crash mid-trim leaves the previous good file": at
\* every moment, the process down or up, the log is the newest recorded events
\* without a gap, and at least as many as the smallest ceiling keeps.
NewestKept ==
    /\ IsSuffix(file, recorded)
    /\ Len(file) >= AtMost(Len(recorded), Keep(Smallest))

\* "Append-only health log with a hard line ceiling": across restarts with other
\* ceilings the log exceeds the largest by one line for each trim that failed or
\* was cut off by a crash (configure does not trim), and by one ceiling for each
\* count that could not be read.
Ceiling == Len(file) <= Largest * (1 + readFaults) + writeFaults + restarts
=============================================================================
