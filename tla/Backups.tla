------------------------------ MODULE Backups -------------------------------
(***************************************************************************)
(* infra/backup.py: one nightly job that dumps the database into a file    *)
(* and prunes old files.  The Celery task run_backup ends at the first     *)
(* exception and is delivered again when its worker dies; the sidecar      *)
(* scripts/backup.py prunes whatever became of its dump.  Each of the two  *)
(* has a directory of its own.                                             *)
(***************************************************************************)
EXTENDS Integers, FiniteSets

CONSTANTS Job,           \* "worker" or "script"
          Key,           \* BACKUP_ENCRYPTION_KEY: "fernet", or "hex"
          keep_daily, keep_weekly,
          DaysOfWeek,    \* 7
          Faults,        \* the faults that happen
          LastDay, MaxFaults    \* bounds: days, faults

ASSUME BackupsAssumption ==
    /\ Job \in {"worker", "script"} /\ Key \in {"fernet", "hex"}
    /\ keep_daily \in Nat \ {0} /\ {keep_weekly, LastDay, MaxFaults} \subseteq Nat
    /\ DaysOfWeek \in Nat \ {0}
    /\ Faults \subseteq {"dump", "write", "unlink", "death"}

VARIABLES
    files,     \* the directory: records of mtime, day and whether the file is whole
    doomed,    \* files the cleanup has still to delete
    pc,
    day, ran,  \* today; today's job has been started
    sunday,    \* the weekday Sunday, as a remainder of days
    made,      \* days on which a whole file was written
    attempts,  \* files begun, in the order of their mtime
    faults

vars == <<files, doomed, pc, day, ran, sunday, made, attempts, faults>>

File == [mtime : Nat, day : 0..LastDay, whole : BOOLEAN]

Init ==
    /\ files = {} /\ doomed = {} /\ pc = "idle" /\ day = 0 /\ ran = FALSE
    /\ sunday \in 0..(DaysOfWeek - 1)
    /\ made = {} /\ attempts = 0 /\ faults = 0

Fault(f) == f \in Faults /\ faults < MaxFaults /\ faults' = faults + 1

-----------------------------------------------------------------------------
StartJob ==
    /\ (pc = "idle" /\ ~ran) \/ pc = "requeued"
    /\ pc' = "dumping" /\ ran' = TRUE
    /\ UNCHANGED <<files, doomed, day, sunday, made, attempts, faults>>

\* Fault: the task prunes after a failure, as the script does.
AfterFailureAlways == "cleanup"

\* run_backup_job lets the exception through; scripts/backup.py notes it.
AfterFailure == IF Job = "script" THEN "cleanup" ELSE "idle"

\* Fernet takes 32 bytes in url-safe base64; 64 hex digits are not.
KeyAccepted == Key = "fernet"

DumpRaises == IF KeyAccepted THEN Fault("dump") ELSE UNCHANGED faults

\* pg_dump and the encryption, both in memory.
Dump ==
    /\ pc = "dumping"
    /\ \/ KeyAccepted /\ pc' = "writing" /\ UNCHANGED faults
       \/ DumpRaises /\ pc' = AfterFailure
    /\ UNCHANGED <<files, doomed, day, ran, sunday, made, attempts>>

Begun(whole) == files \cup {[mtime |-> attempts, day |-> day, whole |-> whole]}

Write ==
    /\ pc = "writing"
    /\ files' = Begun(TRUE) /\ made' = made \cup {day} /\ attempts' = attempts + 1
    /\ pc' = "cleanup"
    /\ UNCHANGED <<doomed, day, ran, sunday, faults>>

\* The disk is full, or the worker dies: part of the file is there.
WriteTorn ==
    /\ pc = "writing"
    /\ files' = Begun(FALSE) /\ attempts' = attempts + 1
    /\ \/ Fault("write") /\ pc' = AfterFailure
       \/ Fault("death") /\ pc' = IF Job = "worker" THEN "requeued" ELSE "idle"
    /\ UNCHANGED <<doomed, day, ran, sunday, made>>

Newest(S, n) == {f \in S : Cardinality({g \in S : g.mtime > f.mtime}) < n}

\* weekday() of the local time of the container.
Sunday(d) == d % DaysOfWeek = sunday

\* Fault: the Sundays among the daily files count as well.
WeeklyOfAll(daily) == Newest({f \in files : Sunday(f.day)}, keep_weekly)
\* Fault: no limit.
WeeklyForEver(daily) == {f \in files \ daily : Sunday(f.day)}

\* Sunday files beyond the daily ones.
Weekly(daily) == Newest({f \in files \ daily : Sunday(f.day)}, keep_weekly)

\* cleanup_old_backups, up to the first deletion.
ChooseKept ==
    LET daily == Newest(files, keep_daily)
    IN  /\ pc = "cleanup"
        /\ doomed' = files \ (daily \cup Weekly(daily))
        /\ pc' = "deleting"
        /\ UNCHANGED <<files, day, ran, sunday, made, attempts, faults>>

\* The newest first; an OSError goes on with the next one.
Unlink ==
    /\ pc = "deleting"
    /\ \E f \in Newest(doomed, 1) :
        /\ doomed' = doomed \ {f}
        /\ \/ files' = files \ {f} /\ UNCHANGED faults
           \/ Fault("unlink") /\ UNCHANGED files
    /\ UNCHANGED <<pc, day, ran, sunday, made, attempts>>

EndJob ==
    /\ pc = "deleting" /\ doomed = {}
    /\ pc' = "idle"
    /\ UNCHANGED <<files, doomed, day, ran, sunday, made, attempts, faults>>

\* task_reject_on_worker_lost; nothing restarts the sidecar.
Die ==
    /\ pc \notin {"idle", "requeued"} /\ Fault("death")
    /\ pc' = IF Job = "worker" THEN "requeued" ELSE "idle"
    /\ doomed' = {}
    /\ UNCHANGED <<files, day, ran, sunday, made, attempts>>

NextDay ==
    /\ pc = "idle" /\ ran /\ day < LastDay
    /\ day' = day + 1 /\ ran' = FALSE
    /\ UNCHANGED <<files, doomed, pc, sunday, made, attempts, faults>>

Next ==
    \/ StartJob \/ Dump \/ Write \/ WriteTorn \/ ChooseKept \/ Unlink \/ EndJob
    \/ Die \/ NextDay

Spec == Init /\ [][Next]_vars

-----------------------------------------------------------------------------
\* The directory never grows past the eleven files, today's and one for each
\* fault, though a cleanup may be cut short or fail on any file.
TypeOK ==
    /\ files \subseteq File /\ doomed \subseteq files
    /\ Cardinality(files) <= keep_daily + keep_weekly + 1 + faults
    /\ pc \in {"idle", "requeued", "dumping", "writing", "cleanup", "deleting"}
    /\ day \in 0..LastDay /\ ran \in BOOLEAN /\ sunday \in 0..(DaysOfWeek - 1)
    /\ made \subseteq 0..LastDay /\ attempts <= LastDay + 1 + MaxFaults
    /\ faults \in 0..MaxFaults

Available == {f.day : f \in {g \in files : g.whole}}

\* Once a backup has succeeded there is one to restore, whatever files are torn,
\* whatever deletions fail and wherever the worker dies: only a job that has just
\* written a whole file prunes, so torn files cannot crowd the last whole one out.
WorkingBackup == made # {} => Available # {}

NewestDays(S, n) == {d \in S : Cardinality({e \in S : e > d}) < n}
DailyPoints == NewestDays(made, keep_daily)
WeeklyPoints == NewestDays({d \in made \ DailyPoints : Sunday(d)}, keep_weekly)

\* The files kept by one prune after the other are the days to keep: a Sunday
\* survives its week among the daily files and then its month among the weekly
\* ones, over nights without a dump, deletions that fail and cleanups cut short.
\* Only a torn file, or a second one of the day by a task delivered again, takes
\* the place of a day (the code's "one week of daily backups").
RecoveryPoints ==
    attempts = Cardinality(made) => DailyPoints \cup WeeklyPoints \subseteq Available
=============================================================================
