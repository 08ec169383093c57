----------------------------- MODULE LogRotation -----------------------------
(***************************************************************************)
(* The log writer that starts a new file every day (logger.go 77-262).     *)
(* Write holds a mutex, so one line is written after the other; but the    *)
(* clock moves while it runs, each file operation may fail, and the        *)
(* process may be killed between any two.                                  *)
(*                                                                         *)
(* File 0 is the one being written, file d the archive of day d; a file is *)
(* the sequence of its lines.  Days are those of the local time, which is  *)
(* that of UTC or of a zone east of it, or of one west of it.  A           *)
(* definition X_Fault is X with a bug.                                     *)
(***************************************************************************)
EXTENDS Integers, Sequences, FiniteSets

CONSTANTS
  MaxAges,    \* values of logs.max_age_days
  Zones,      \* where the server runs: "east" (or at UTC), "west"
  MaxDay,     \* bound: the clock, in days
  MaxBack,    \* bound: how often the clock is set back by a day
  MaxLines,   \* bound: lines
  MaxBreaks   \* bound: failing file operations and kills

ASSUME RotationAssumption ==
  MaxAges \subseteq Int /\ Zones \subseteq {"east", "west"} /\ {MaxDay, MaxBack, MaxLines, MaxBreaks} \subseteq Nat

VARIABLES
  maxAge,     \* logs.max_age_days, as configured
  zone,       \* the time zone
  today,      \* the clock
  back,       \* how often it was set back
  step,       \* where the writer is; "down" when there is no process
  starting,   \* it is in newDailyRotatingWriter, not in Write
  openDay,    \* the day of openToday's argument; 0 when it does not run
  fileDay,    \* currentDay
  open,       \* the writer has a file, not nil
  files,      \* the files there are
  mtime,      \* the day file 0 was last written to, or created
  breaks,     \* failures so far
  asked,      \* history: the day each line was logged on
  written,    \* history: lines whose Write succeeded
  expired,    \* history: the lines removed with their archive, and when
  spared,     \* history: archives that the last cleanup could not remove
  late,       \* history: midnight passed while a line was written
  doubled     \* history: a file was copied and its source not removed

rotationVars == <<maxAge, zone, today, back, step, starting, openDay, fileDay, open,
                  files, mtime, breaks, asked, written, expired, spared, late, doubled>>

clockVars == <<maxAge, zone, today, back>>
lineVars  == <<asked, written, late>>
goneVars  == <<expired, spared>>

Breaking == breaks < MaxBreaks /\ breaks' = breaks + 1

Archives == DOMAIN files \ {0}

Lines(f) == IF f \in DOMAIN files THEN files[f] ELSE <<>>

With(f, lines) == [g \in DOMAIN files \cup {f} |-> IF g = f THEN lines ELSE files[g]]

Without(S, fs) == [g \in DOMAIN fs \ S |-> fs[g]]

-----------------------------------------------------------------------------
Archived_Overwrite(d) == Without({0}, With(d, Lines(0)))

(* archiveFile: renamed, or appended to an archive that is there.          *)
Archived(d) == Without({0}, With(d, Lines(d) \o Lines(0)))

(* What archiveFile may come to: done; or failed, with part of the file    *)
(* copied if it had to be copied, all of it if only its removal failed.    *)
ArchiveDone(d) ==
  /\ 0 \in DOMAIN files
  /\ files' = Archived(d)
  /\ UNCHANGED <<breaks, doubled>>

ArchiveFailed(d) ==
  \/ /\ 0 \notin DOMAIN files
     /\ UNCHANGED <<files, breaks, doubled>>
  \/ /\ 0 \in DOMAIN files
     /\ Breaking
     /\ \E n \in 0..(IF d \in Archives THEN Len(files[0]) ELSE 0) :
          /\ files' = IF n = 0 THEN files ELSE With(d, files[d] \o SubSeq(files[0], 1, n))
          /\ doubled' = (doubled \/ n > 0)

(* newDailyRotatingWriter *)
StartWriter ==
  /\ step = "down"
  /\ step' = "opening" /\ openDay' = today
  /\ starting' = TRUE
  /\ UNCHANGED <<clockVars, fileDay, open, files, mtime, breaks, lineVars, goneVars, doubled>>

(* Write is called; if the day has changed, it closes the file first. *)
BeginWrite ==
  /\ step = "idle"
  /\ Len(asked) < MaxLines
  /\ asked' = Append(asked, today)
  /\ \/ today = fileDay /\ step' = "writing" /\ UNCHANGED open
     \/ today # fileDay /\ step' = "archiving" /\ open' = FALSE
  /\ UNCHANGED <<clockVars, starting, openDay, fileDay, files, mtime, breaks, written,
                 goneVars, late, doubled>>

ArchiveDay_Today == today

(* Write archives under the day of the file. *)
ArchiveDay == fileDay

(* A failure is only reported; then openToday is called with the time. *)
ArchiveOld ==
  /\ step = "archiving"
  /\ ArchiveDone(ArchiveDay) \/ ArchiveFailed(ArchiveDay)
  /\ step' = "opening" /\ openDay' = today
  /\ UNCHANGED <<clockVars, starting, fileDay, open, mtime, lineVars, goneVars>>

(* openToday: is there a file of an earlier day?  By its time of change.   *)
IsOld == 0 \in DOMAIN files /\ mtime # openDay

GiveUp == step' = (IF starting THEN "down" ELSE "idle") /\ openDay' = 0

(* Then it is archived first, ... *)
ArchiveFound ==
  /\ step = "opening"
  /\ IsOld
  /\ \/ ArchiveDone(mtime) /\ UNCHANGED <<step, openDay>>
     \/ ArchiveFailed(mtime) /\ GiveUp
  /\ UNCHANGED <<clockVars, starting, fileDay, open, mtime, lineVars, goneVars>>

(* ... and the file is opened, to append. *)
OpenFile ==
  /\ step = "opening"
  /\ ~IsOld
  /\ \/ /\ files' = With(0, Lines(0))
        /\ mtime' = IF 0 \in DOMAIN files THEN mtime ELSE today
        /\ fileDay' = openDay /\ open' = TRUE
        /\ step' = "cleaning" /\ openDay' = 0
        /\ UNCHANGED breaks
     \/ Breaking /\ GiveUp /\ UNCHANGED <<files, mtime, fileDay, open>>
  /\ UNCHANGED <<clockVars, starting, lineVars, goneVars, doubled>>

Removed_OneDayMore(border) ==
  IF maxAge <= 0 THEN {} ELSE {d \in Archives : d <= today - maxAge + border}

(* Archives that cleanupExpired counts as older than maxAge days.          *)
Removed(border) ==
  IF maxAge <= 0 THEN {} ELSE {d \in Archives : d < today - maxAge + border}

Early == IF zone = "west" THEN 1 ELSE 0

(* The date in the name of an archive is read as midnight UTC, and the     *)
(* cutoff is maxAge days before the local time: at hour h of a zone that   *)
(* is z hours ahead of UTC, day d goes if d is less than                   *)
(* today - maxAge + (h - z) / 24.  That adds at most one day for z >= 0,   *)
(* but at least one and up to two for z < 0.                               *)
Borders == {Early, Early + 1}

(* Reading the directory may fail, and every removal. *)
CleanupExpired ==
  /\ step = "cleaning"
  /\ \E border \in Borders : \E gone \in SUBSET Removed(border) :
       /\ IF gone = Removed(border) THEN UNCHANGED breaks ELSE Breaking
       /\ spared' = Removed(border) \ gone
       /\ files' = Without(gone, files)
       /\ expired' = expired \cup UNION {{<<files[d][i], today>> : i \in DOMAIN files[d]}
                                         : d \in gone}
  /\ step' = IF starting THEN "idle" ELSE "writing"
  /\ starting' = FALSE
  /\ UNCHANGED <<clockVars, openDay, fileDay, open, mtime, lineVars, doubled>>

WriteLine ==
  /\ step = "writing"
  /\ open
  /\ files' = With(0, Append(Lines(0), Len(asked)))
  /\ mtime' = today
  /\ written' = written \cup {Len(asked)}
  /\ late' = (late \/ {today, asked[Len(asked)]} # {fileDay})
  /\ step' = "idle"
  /\ UNCHANGED <<clockVars, starting, openDay, fileDay, open, breaks, asked, goneVars,
                 doubled>>

(* There is no file when an earlier Write could not open one, and the      *)
(* clock was then set back to the day of the file before.                  *)
WriteFails ==
  /\ step = "writing"
  /\ \/ ~open /\ UNCHANGED breaks
     \/ open /\ Breaking
  /\ step' = "idle"
  /\ UNCHANGED <<clockVars, starting, openDay, fileDay, open, files, mtime, lineVars, goneVars,
                 doubled>>

(* The process is killed. *)
KillWriter ==
  /\ step # "down"
  /\ Breaking
  /\ step' = "down" /\ openDay' = 0
  /\ open' = FALSE
  /\ UNCHANGED <<clockVars, starting, fileDay, files, mtime, lineVars, goneVars, doubled>>

ClockTick ==
  /\ \/ today < MaxDay /\ today' = today + 1 /\ UNCHANGED back
     \/ today > 1 /\ back < MaxBack /\ today' = today - 1 /\ back' = back + 1
  /\ UNCHANGED <<maxAge, zone, step, starting, openDay, fileDay, open, files, mtime, breaks, lineVars,
                 goneVars, doubled>>

RotationInitWith(age, z) ==
  /\ maxAge = age /\ zone = z
  /\ today = 1 /\ back = 0
  /\ step = "down" /\ starting = TRUE
  /\ openDay = 0 /\ fileDay = 0 /\ open = FALSE
  /\ files = [f \in {} |-> <<>>]
  /\ mtime = 0
  /\ breaks = 0
  /\ asked = <<>> /\ written = {} /\ expired = {} /\ spared = {}
  /\ late = FALSE /\ doubled = FALSE

RotationNext ==
  \/ StartWriter \/ BeginWrite \/ ArchiveOld \/ ArchiveFound \/ OpenFile
  \/ CleanupExpired \/ WriteLine \/ WriteFails \/ KillWriter \/ ClockTick

RotationInit == \E a \in MaxAges, z \in Zones : RotationInitWith(a, z)

RotationSpec == RotationInit /\ [][RotationNext]_rotationVars

-----------------------------------------------------------------------------
(* Correctness. *)

(* Where a line is. *)
Places(l) ==
  {p \in UNION {{f} \X DOMAIN files[f] : f \in DOMAIN files} : files[p[1]][p[2]] = l}

(* Whatever fails, and whenever the process is killed, a line that Write   *)
(* has accepted is in a file until its archive expires; and in one only,   *)
(* but for a merge whose source could not be removed (logger.go:152-176).  *)
EveryLineKept ==
  \A l \in written :
    /\ Places(l) # {} \/ \E e \in expired : e[1] = l
    /\ doubled \/ \A p, q \in Places(l) : p = q

(* Over failures, restarts and a clock set back, a line is archived under  *)
(* its day (logger.go:128-137, 242); this is said of the time until the    *)
(* first line for which midnight passed between the check of the day and   *)
(* the writing, since the file such a line is in may go under either day.  *)
FiledUnderItsDay ==
  ~late => \A d \in Archives : \A i \in DOMAIN files[d] : asked[files[d][i]] = d

(* Archives are kept for maxAge days, today's file among them, or, west of *)
(* UTC, for a day less; and for ever when it is not positive.  A writer at *)
(* work, also one that was started after a long time, has none that is     *)
(* older but those it failed to remove, unless the clock was set back      *)
(* (logger.go:94-96, 178-212).                                             *)
ArchivesKeptForMaxAge ==
  /\ \A e \in expired : maxAge > 0 /\ (asked[e[1]] <= e[2] - maxAge + Early \/ late)
  /\ step \in {"writing", "idle"} /\ maxAge > 0 /\ back = 0 =>
       \A d \in Archives \ spared : d >= fileDay - maxAge + Early

(* Not so: logger.go:191 says that maxAgeDays days are kept, and what is   *)
(* before is removed; west of UTC the evening already counts as the next   *)
(* day, and the last of these days goes too.                               *)
ArchivesKeptFullAge ==
  \A e \in expired : asked[e[1]] <= e[2] - maxAge \/ late
=============================================================================
