--------------------------- MODULE BackupsProofs ----------------------------
(***************************************************************************)
(* Proofs about the backups, for any retention, any length of the run and  *)
(* any number of faults of any kind: the Celery task never loses the last  *)
(* whole backup; the directory stays within the files to keep, today's and *)
(* one for each fault; and the files kept are those of the days to keep.   *)
(***************************************************************************)
EXTENDS Backups, FiniteSetTheorems, FunctionTheorems, NaturalsInduction, WellFoundedInduction,
        TLAPS

\* mtimes are those of files begun before.
Dated ==
    /\ attempts \in Nat
    /\ \A f \in files : f.mtime \in Nat /\ f.mtime < attempts

Whole(S) == \E f \in S : f.whole = TRUE

\* The newest file of all is a whole one: what the prune relies on.
NewestIsWhole == \E f \in files : f.whole = TRUE /\ f.mtime = attempts - 1

Survives ==
    /\ Dated
    /\ made # {} => Whole(files)
    /\ pc = "cleanup" => NewestIsWhole
    /\ pc = "deleting" => Whole(files \ doomed)

LEMMA SurvivesWorks == Survives => WorkingBackup
  BY DEF Survives, Whole, WorkingBackup, Available

LEMMA InitSurvives == Init => Survives
  BY DEF Init, Survives, Dated, Whole

\* The newest file is among the newest n.
LEMMA NewestKept ==
  ASSUME NEW S, NEW n \in Nat \ {0}, NEW f \in S,
         f.mtime \in Nat, \A g \in S : g.mtime \in Nat /\ g.mtime <= f.mtime
  PROVE  f \in Newest(S, n)
  <1>1. {g \in S : g.mtime > f.mtime} = {}
    OBVIOUS
  <1>2. Cardinality({g \in S : g.mtime > f.mtime}) = 0
    BY <1>1, FS_EmptySet
  <1> QED
    BY <1>2 DEF Newest

\* The steps of the job and the faults keep a whole file.
LEMMA SurvivesStep ==
  ASSUME Job = "worker", Survives, [Next]_vars
  PROVE  Survives'
  <1> USE DEF Survives, Dated, Whole, NewestIsWhole
  <1>1. CASE StartJob
    BY <1>1 DEF StartJob
  <1>2. CASE Dump
    BY <1>2 DEF Dump, AfterFailure
  <1>3. CASE Write
    <2> DEFINE new == [mtime |-> attempts, day |-> day, whole |-> TRUE]
    <2>1. files' = files \cup {new} /\ attempts' = attempts + 1 /\ pc' = "cleanup"
      BY <1>3 DEF Write, Begun
    <2>2. new \in files' /\ new.whole = TRUE /\ new.mtime = attempts' - 1
      BY <2>1
    <2>3. Dated'
      BY <2>1
    <2> QED
      BY <2>1, <2>2, <2>3
  <1>4. CASE WriteTorn
    <2> DEFINE new == [mtime |-> attempts, day |-> day, whole |-> FALSE]
    <2>1. /\ files' = files \cup {new} /\ attempts' = attempts + 1
          /\ pc' \in {"idle", "requeued"} /\ made' = made
      BY <1>4 DEF WriteTorn, Begun, AfterFailure
    <2>2. Dated'
      BY <2>1
    <2> QED
      BY <2>1, <2>2
  <1>5. CASE ChooseKept
    <2> DEFINE daily == Newest(files, keep_daily)
    <2>1. /\ doomed' = files \ (daily \cup Weekly(daily)) /\ pc = "cleanup"
          /\ pc' = "deleting" /\ files' = files /\ made' = made /\ attempts' = attempts
      BY <1>5 DEF ChooseKept
    <2>2. PICK f \in files : f.whole = TRUE /\ f.mtime = attempts - 1
      BY <2>1
    <2>3. f \in daily
      <3>1. f.mtime \in Nat /\ \A g \in files : g.mtime \in Nat /\ g.mtime <= f.mtime
        BY <2>2
      <3> QED
        BY <3>1, NewestKept, BackupsAssumption DEF BackupsAssumption
    <2>4. f \in files' \ doomed'
      BY <2>1, <2>3
    <2> QED
      BY <2>1, <2>2, <2>4
  <1>6. CASE Unlink
    <2>1. PICK f \in doomed : doomed' = doomed \ {f} /\ files' \in {files, files \ {f}}
      BY <1>6 DEF Unlink, Newest
    <2>2. pc = "deleting" /\ pc' = pc /\ made' = made /\ attempts' = attempts
      BY <1>6 DEF Unlink
    <2>3. PICK kept \in files \ doomed : kept.whole = TRUE
      BY <2>2
    <2>4. kept \in files' \ doomed' /\ files' \subseteq files
      BY <2>1, <2>3
    <2> QED
      BY <2>2, <2>3, <2>4
  <1>7. CASE EndJob
    BY <1>7 DEF EndJob
  <1>8. CASE Die
    BY <1>8 DEF Die
  <1>9. CASE NextDay
    BY <1>9 DEF NextDay
  <1>10. CASE UNCHANGED vars
    BY <1>10 DEF vars
  <1> QED
    BY <1>1, <1>2, <1>3, <1>4, <1>5, <1>6, <1>7, <1>8, <1>9, <1>10 DEF Next

\* Once a backup has succeeded there is one to restore.  Assumes the Celery task:
\* the sidecar prunes after a failed dump too, and loses it (README, section 7).
THEOREM LastBackupIsKept ==
  ASSUME Job = "worker"
  PROVE  Spec => []WorkingBackup
  <1>1. Init => Survives
    BY InitSurvives
  <1>2. Survives /\ [Next]_vars => Survives'
    BY SurvivesStep
  <1>3. Survives => WorkingBackup
    BY SurvivesWorks
  <1> QED
    BY <1>1, <1>2, <1>3, PTL DEF Spec

-----------------------------------------------------------------------------
(* The size of the directory.                                              *)

\* A set of dates has a first one.
LEMMA MinOfDates == ASSUME NEW S \in SUBSET Nat, S # {} PROVE \E x \in S : \A y \in S : x <= y
  <1> DEFINE Less == {p \in Nat \X Nat : p[1] < p[2]}
  <1>1. IsWellFoundedOn(Less, Nat)
    BY NatLessThanWellFounded DEF OpToRel
  <1>2. PICK x \in S : \A y \in S : ~(<<y, x>> \in Less)
    <2> HIDE DEF Less
    <2> QED
      BY <1>1, WFMin
  <1>3. ASSUME NEW y \in S PROVE x <= y
    <2>1. x \in Nat /\ y \in Nat
      OBVIOUS
    <2>2. y < x => <<y, x>> \in Less
      BY <2>1
    <2> QED
      BY <1>2, <2>1, <2>2
  <1> QED
    BY <1>3

\* Newest takes no more files than it is asked for, when no two have one mtime.
LEMMA NewestAreFew ==
  ASSUME NEW S, IsFiniteSet(S), NEW n \in Nat, \A f \in S : f.mtime \in Nat,
         \A f, g \in S : f.mtime = g.mtime => f = g
  PROVE  IsFiniteSet(Newest(S, n)) /\ Cardinality(Newest(S, n)) <= n
  <1> DEFINE N == Newest(S, n)
  <1>1. N \subseteq S
    BY DEF Newest
  <1>2. IsFiniteSet(N) /\ Cardinality(N) \in Nat
    BY <1>1, FS_Subset, FS_CardinalityType
  <1>3. CASE N = {}
    BY <1>2, <1>3, FS_EmptySet
  <1>4. CASE N # {}
    <2>1. PICK f \in N : \A g \in N : f.mtime <= g.mtime
      <3> DEFINE dates == {g.mtime : g \in N}
      <3>1. dates \in SUBSET Nat /\ dates # {}
        BY <1>1, <1>4
      <3>2. PICK x \in dates : \A y \in dates : x <= y
        <4> HIDE DEF dates
        <4> QED
          BY <3>1, MinOfDates
      <3> QED
        BY <3>2
    <2> DEFINE newer == {g \in S : g.mtime > f.mtime}
    <2>2. Cardinality(newer) < n
      BY <2>1 DEF Newest
    <2>3. IsFiniteSet(newer) /\ Cardinality(newer) \in Nat
      BY FS_Subset, FS_CardinalityType
    <2>4. N \ {f} \subseteq newer
      <3> SUFFICES ASSUME NEW g \in N, g # f PROVE g.mtime > f.mtime
        BY <1>1
      <3>1. f \in S /\ g \in S
        BY <1>1, <2>1
      <3>2. g.mtime \in Nat /\ f.mtime \in Nat /\ g.mtime # f.mtime
        BY <3>1
      <3> QED
        BY <2>1, <3>2
    <2>5. Cardinality(N \ {f}) = Cardinality(N) - 1
      BY <1>2, <2>1, FS_RemoveElement
    <2>6. Cardinality(N \ {f}) <= Cardinality(newer)
      BY <2>3, <2>4, FS_Subset
    <2> HIDE DEF N, newer
    <2>7. Cardinality(N) <= n
      BY <1>2, <2>2, <2>3, <2>5, <2>6
    <2> QED
      BY <1>2, <2>7 DEF N
  <1> QED
    BY <1>3, <1>4

\* What a prune leaves, with the deletions that failed.
Kept == keep_daily + keep_weekly + faults

\* No two files have one mtime.
Shape ==
    /\ files \subseteq File /\ doomed \subseteq files
    /\ pc \in {"idle", "requeued", "dumping", "writing", "cleanup", "deleting"}
    /\ day \in 0..LastDay /\ ran \in BOOLEAN /\ sunday \in 0..(DaysOfWeek - 1)
    /\ made \subseteq 0..LastDay /\ faults \in 0..MaxFaults /\ attempts \in Nat
    /\ \A f \in files : f.mtime < attempts
    /\ \A f, g \in files : f.mtime = g.mtime => f = g

\* Only from a write to the end of its prune there is a file more.
Sized ==
    /\ IsFiniteSet(files) /\ Cardinality(files) <= Kept + 1
    /\ pc \notin {"cleanup", "deleting"} => Cardinality(files) <= Kept
    /\ pc = "deleting" => Cardinality(files \ doomed) <= Kept

\* A day begins one file, and one more for each fault.
Paced ==
    /\ pc # "idle" => ran = TRUE
    /\ attempts <= day + faults + 1
    /\ ran = FALSE \/ pc \in {"requeued", "dumping", "writing"} => attempts <= day + faults

Tidy == Shape /\ Sized /\ Paced

\* A tidy directory has as many files as its TypeOK allows.
LEMMA TidyTypeOK == Tidy => TypeOK
  <1> SUFFICES ASSUME Tidy PROVE TypeOK
    OBVIOUS
  <1>1. Cardinality(files) \in Nat
    BY FS_CardinalityType DEF Tidy, Shape, Sized
  <1> QED
    BY <1>1, BackupsAssumption DEF Tidy, Shape, Sized, Paced, TypeOK, Kept, BackupsAssumption

LEMMA InitTidy == Init => Tidy
  <1> SUFFICES ASSUME Init PROVE Tidy
    OBVIOUS
  <1>1. /\ files = {} /\ doomed = {} /\ made = {} /\ pc = "idle" /\ ran = FALSE
        /\ day = 0 /\ attempts = 0 /\ faults = 0 /\ sunday \in 0..(DaysOfWeek - 1)
    BY DEF Init
  <1>2. IsFiniteSet(files) /\ Cardinality(files) = 0 /\ Kept \in Nat
    BY <1>1, FS_EmptySet, BackupsAssumption DEF Kept, BackupsAssumption
  <1>3. Sized
    BY <1>1, <1>2 DEF Sized
  <1>4. Shape
    <2>1. LastDay \in Nat /\ MaxFaults \in Nat
      BY BackupsAssumption DEF BackupsAssumption
    <2>2. day \in 0..LastDay /\ faults \in 0..MaxFaults /\ attempts \in Nat
      BY <1>1, <2>1
    <2>3. /\ files \subseteq File /\ doomed \subseteq files /\ made \subseteq 0..LastDay
          /\ \A f \in files : f.mtime < attempts
          /\ \A f, g \in files : f.mtime = g.mtime => f = g
      BY <1>1
    <2> QED
      BY <1>1, <2>2, <2>3 DEF Shape
  <1>5. Paced
    BY <1>1 DEF Paced
  <1> QED
    BY <1>3, <1>4, <1>5 DEF Tidy

\* A file more, of any content.
LEMMA BegunTidy ==
  ASSUME Tidy, NEW whole \in BOOLEAN
  PROVE  /\ Begun(whole) \subseteq File /\ files \subseteq Begun(whole)
         /\ \A f \in Begun(whole) : f.mtime < attempts + 1
         /\ \A f, g \in Begun(whole) : f.mtime = g.mtime => f = g
         /\ IsFiniteSet(Begun(whole)) /\ Cardinality(Begun(whole)) <= Cardinality(files) + 1
  <1> DEFINE new == [mtime |-> attempts, day |-> day, whole |-> whole]
  <1>1. Begun(whole) = files \cup {new}
    BY DEF Begun
  <1>2. new \in File /\ new.mtime = attempts
    BY DEF Tidy, Shape, Sized, File
  <1>3. \A f \in files : f.mtime \in Nat /\ f.mtime < attempts
    BY DEF Tidy, Shape, Sized, File
  <1>4. /\ IsFiniteSet(files \cup {new})
        /\ Cardinality(files \cup {new}) = IF new \in files THEN Cardinality(files)
                                           ELSE Cardinality(files) + 1
    <2> HIDE DEF new
    <2> QED
      BY FS_AddElement DEF Tidy, Shape, Sized
  <1>5. Cardinality(files) \in Nat
    BY FS_CardinalityType DEF Tidy, Shape, Sized
  <1> HIDE DEF new
  <1>6. /\ \A f \in Begun(whole) : f.mtime < attempts + 1
        /\ \A f, g \in Begun(whole) : f.mtime = g.mtime => f = g
    BY <1>1, <1>2, <1>3 DEF Tidy, Shape, Sized
  <1>7. Begun(whole) \subseteq File /\ files \subseteq Begun(whole)
    BY <1>1, <1>2 DEF Tidy, Shape, Sized
  <1>8. IsFiniteSet(Begun(whole)) /\ Cardinality(Begun(whole)) <= Cardinality(files) + 1
    BY <1>1, <1>4, <1>5
  <1> QED
    BY <1>6, <1>7, <1>8

\* What a prune leaves.
LEMMA KeptAreFew ==
  ASSUME Tidy
  PROVE  LET daily == Newest(files, keep_daily)
         IN  Cardinality(daily \cup Weekly(daily)) <= keep_daily + keep_weekly
  <1> DEFINE daily == Newest(files, keep_daily)
             sundays == {f \in files \ daily : Sunday(f.day)}
  <1>1. keep_daily \in Nat /\ keep_weekly \in Nat
    BY BackupsAssumption DEF BackupsAssumption
  <1>2. \A f \in files : f.mtime \in Nat
    BY DEF Tidy, Shape, Sized, File
  <1>3. IsFiniteSet(daily) /\ Cardinality(daily) <= keep_daily
    BY <1>1, <1>2, NewestAreFew DEF Tidy, Shape, Sized
  <1>4. IsFiniteSet(sundays) /\ sundays \subseteq files
    BY FS_Subset DEF Tidy, Shape, Sized
  <1>5. Weekly(daily) = Newest(sundays, keep_weekly)
    BY DEF Weekly
  <1>6. IsFiniteSet(Weekly(daily)) /\ Cardinality(Weekly(daily)) <= keep_weekly
    <2> HIDE DEF sundays
    <2> QED
      BY <1>1, <1>2, <1>4, <1>5, NewestAreFew DEF Tidy, Shape, Sized
  <1> HIDE DEF daily
  <1>7. /\ Cardinality(daily \cup Weekly(daily))
             = Cardinality(daily) + Cardinality(Weekly(daily)) - Cardinality(daily \cap Weekly(daily))
        /\ Cardinality(daily \cap Weekly(daily)) \in Nat
    BY <1>3, <1>6, FS_Union, FS_Intersection, FS_CardinalityType
  <1>8. Cardinality(daily) \in Nat /\ Cardinality(Weekly(daily)) \in Nat
    BY <1>3, <1>6, FS_CardinalityType
  <1> QED
    BY <1>1, <1>3, <1>6, <1>7, <1>8 DEF daily

\* Every step of the job, and every fault.
LEMMA TidyStep == ASSUME Tidy, [Next]_vars PROVE Tidy'
  <1>0. /\ Kept \in Nat /\ Cardinality(files) \in Nat /\ faults \in Nat /\ day \in Nat
        /\ MaxFaults \in Nat /\ LastDay \in Nat /\ attempts \in Nat
    BY BackupsAssumption, FS_CardinalityType DEF Tidy, Shape, Sized, Kept, BackupsAssumption
  <1>a. ASSUME UNCHANGED faults PROVE Kept' = Kept
    BY <1>a DEF Kept
  <1>b. ASSUME NEW f, Fault(f)
        PROVE  /\ faults' = faults + 1 /\ faults' \in 0..MaxFaults /\ Kept' = Kept + 1
    <2>1. faults' = faults + 1 /\ faults < MaxFaults
      BY <1>b DEF Fault
    <2> QED
      BY <1>0, <2>1, BackupsAssumption DEF Kept, BackupsAssumption
  <1>1. CASE StartJob
    <2>1. /\ UNCHANGED <<files, doomed, day, sunday, made, attempts, faults>>
          /\ pc' = "dumping" /\ ran' = TRUE /\ pc \in {"idle", "requeued"}
          /\ (pc = "idle" /\ ran = FALSE) \/ pc = "requeued"
      BY <1>1 DEF StartJob, Tidy, Shape
    <2>2. Shape'
      BY <2>1 DEF Tidy, Shape
    <2>3. Sized'
      BY <1>a, <2>1 DEF Tidy, Sized
    <2>4. Paced'
      BY <2>1 DEF Tidy, Paced
    <2> QED
      BY <2>2, <2>3, <2>4 DEF Tidy
  <1>2. CASE Dump
    <2>1. /\ UNCHANGED <<files, doomed, day, ran, sunday, made, attempts>>
          /\ pc = "dumping" /\ pc' \in {"writing", "idle", "cleanup"}
      BY <1>2 DEF Dump, AfterFailure
    <2>2. UNCHANGED faults \/ Fault("dump")
      BY <1>2 DEF Dump, DumpRaises
    <2>3. faults' \in 0..MaxFaults /\ faults' >= faults /\ Kept' \in Nat /\ Kept' >= Kept
      <3>1. CASE UNCHANGED faults
        BY <1>0, <1>a, <3>1 DEF Tidy, Shape
      <3>2. CASE Fault("dump")
        BY <1>0, <1>b, <3>2
      <3> QED
        BY <2>2, <3>1, <3>2
    <2>4. Shape'
      BY <2>1, <2>3 DEF Tidy, Shape
    <2>5. Cardinality(files) <= Kept
      BY <2>1 DEF Tidy, Sized
    <2>6. Sized'
      BY <1>0, <2>1, <2>3, <2>5 DEF Tidy, Sized
    <2>7. Paced'
      <3>1. attempts <= day + faults
        BY <2>1 DEF Tidy, Paced
      <3>2. attempts' = attempts /\ day' = day
        BY <2>1
      <3>3. faults' = faults \/ faults' = faults + 1
        BY <1>b, <2>2
      <3>4. attempts' <= day' + faults' /\ attempts' <= day' + faults' + 1
        BY <1>0, <3>1, <3>2, <3>3
      <3>5. ran' = TRUE
        BY <2>1 DEF Tidy, Paced
      <3> QED
        BY <3>4, <3>5 DEF Paced
    <2> QED
      BY <2>4, <2>6, <2>7 DEF Tidy
  <1>3. CASE Write
    <2>1. /\ files' = Begun(TRUE) /\ made' = made \cup {day} /\ attempts' = attempts + 1
          /\ pc = "writing" /\ pc' = "cleanup" /\ UNCHANGED <<doomed, day, ran, sunday, faults>>
      BY <1>3 DEF Write
    <2>2. /\ files' \subseteq File /\ files \subseteq files' /\ IsFiniteSet(files')
          /\ \A f \in files' : f.mtime < attempts'
          /\ \A f, g \in files' : f.mtime = g.mtime => f = g
          /\ Cardinality(files') <= Cardinality(files) + 1
      BY <2>1, BegunTidy
    <2>3. Cardinality(files') \in Nat /\ Kept' = Kept /\ Cardinality(files) <= Kept
      BY <1>a, <2>1, <2>2, FS_CardinalityType DEF Tidy, Sized
    <2>4. Sized'
      <3>1. Cardinality(files') <= Kept' + 1
        BY <1>0, <2>2, <2>3
      <3>2. pc' = "cleanup"
        BY <2>1
      <3> QED
        BY <2>2, <3>1, <3>2 DEF Sized
    <2>5. Shape'
      <3>1. /\ made' \subseteq 0..LastDay /\ pc' = "cleanup" /\ attempts' \in Nat
            /\ UNCHANGED <<doomed, day, ran, sunday, faults>>
        BY <1>0, <2>1 DEF Tidy, Shape
      <3>2. doomed' \subseteq files'
        BY <2>2, <3>1 DEF Tidy, Shape
      <3> QED
        BY <2>2, <3>1, <3>2 DEF Tidy, Shape
    <2>6. attempts <= day + faults /\ ran = TRUE
      BY <2>1 DEF Tidy, Paced
    <2>7. Paced'
      BY <1>0, <2>1, <2>6 DEF Paced
    <2> QED
      BY <2>4, <2>5, <2>7 DEF Tidy
  <1>4. CASE WriteTorn
    <2>1. /\ files' = Begun(FALSE) /\ made' = made /\ attempts' = attempts + 1
          /\ pc = "writing" /\ pc' \in {"idle", "cleanup", "requeued"}
          /\ Fault("write") \/ Fault("death")
          /\ UNCHANGED <<doomed, day, ran, sunday>>
      BY <1>4 DEF WriteTorn, AfterFailure
    <2>2. /\ files' \subseteq File /\ files \subseteq files' /\ IsFiniteSet(files')
          /\ \A f \in files' : f.mtime < attempts'
          /\ \A f, g \in files' : f.mtime = g.mtime => f = g
          /\ Cardinality(files') <= Cardinality(files) + 1
      BY <2>1, BegunTidy
    <2>3. faults' = faults + 1 /\ faults' \in 0..MaxFaults /\ Kept' = Kept + 1
      BY <1>b, <2>1
    <2>4. Cardinality(files') \in Nat /\ Cardinality(files) <= Kept
      BY <2>1, <2>2, FS_CardinalityType DEF Tidy, Sized
    <2>5. Sized'
      <3>1. Cardinality(files') <= Kept' /\ Cardinality(files') <= Kept' + 1
        BY <1>0, <2>2, <2>3, <2>4
      <3>2. pc' # "deleting"
        BY <2>1
      <3> QED
        BY <2>2, <3>1, <3>2 DEF Sized
    <2>6. Shape'
      <3>1. /\ pc' \in {"idle", "cleanup", "requeued"} /\ attempts' \in Nat
            /\ UNCHANGED <<doomed, made, day, ran, sunday>>
        BY <1>0, <2>1
      <3>2. doomed' \subseteq files'
        BY <2>2, <3>1 DEF Tidy, Shape
      <3> QED
        BY <2>2, <2>3, <3>1, <3>2 DEF Tidy, Shape
    <2>7. attempts <= day + faults /\ ran = TRUE
      BY <2>1 DEF Tidy, Paced
    <2>8. Paced'
      BY <1>0, <2>1, <2>3, <2>7 DEF Paced
    <2> QED
      BY <2>5, <2>6, <2>8 DEF Tidy
  <1>5. CASE ChooseKept
    <2> DEFINE daily == Newest(files, keep_daily)
               kept == daily \cup Weekly(daily)
    <2>1. /\ doomed' = files \ kept /\ pc = "cleanup" /\ pc' = "deleting"
          /\ UNCHANGED <<files, day, ran, sunday, made, attempts, faults>>
      BY <1>5 DEF ChooseKept
    <2>2. Cardinality(kept) <= keep_daily + keep_weekly
      BY KeptAreFew
    <2>3. kept \subseteq files
      BY DEF Newest, Weekly
    <2> HIDE DEF kept
    <2>4. files' \ doomed' = kept /\ Kept' = Kept
      BY <1>a, <2>1, <2>3
    <2>5. Cardinality(kept) \in Nat
      BY <2>3, FS_Subset, FS_CardinalityType DEF Tidy, Sized
    <2>6. Cardinality(files' \ doomed') <= Kept'
      BY <1>0, <2>2, <2>4, <2>5, BackupsAssumption DEF Kept, BackupsAssumption
    <2>7. Sized'
      BY <2>1, <2>4, <2>6 DEF Tidy, Sized
    <2>8. Shape' /\ Paced'
      BY <2>1 DEF Tidy, Shape, Paced
    <2> QED
      BY <2>7, <2>8 DEF Tidy
  <1>6. CASE Unlink
    <2>1. PICK f \in doomed : /\ doomed' = doomed \ {f}
                              /\ \/ files' = files \ {f} /\ UNCHANGED faults
                                 \/ Fault("unlink") /\ UNCHANGED files
      BY <1>6 DEF Unlink, Newest
    <2>2. pc = "deleting" /\ UNCHANGED <<pc, day, ran, sunday, made, attempts>>
      BY <1>6 DEF Unlink
    <2>3. f \in files /\ f \notin files \ doomed
      BY <2>1 DEF Tidy, Shape
    <2>4. IsFiniteSet(files \ doomed) /\ Cardinality(files \ doomed) \in Nat
      BY FS_Difference, FS_CardinalityType DEF Tidy, Sized
    <2>5. CASE files' = files \ {f} /\ UNCHANGED faults
      <3>1. files' \ doomed' = files \ doomed /\ doomed' \subseteq files' /\ files' \subseteq files
        BY <2>1, <2>3, <2>5 DEF Tidy, Shape
      <3>2. IsFiniteSet(files') /\ Cardinality(files') = Cardinality(files) - 1
        BY <2>3, <2>5, FS_RemoveElement DEF Tidy, Sized
      <3>3. Sized'
        <4>1. Cardinality(files') <= Kept' + 1 /\ Kept' = Kept
          BY <1>0, <1>a, <2>5, <3>2 DEF Tidy, Sized
        <4>2. Cardinality(files' \ doomed') <= Kept'
          BY <2>2, <3>1, <4>1 DEF Tidy, Sized
        <4> QED
          BY <2>2, <3>2, <4>1, <4>2 DEF Sized
      <3>4. Shape'
        BY <2>2, <2>5, <3>1 DEF Tidy, Shape
      <3>5. Paced'
        BY <2>2, <2>5 DEF Tidy, Paced
      <3> QED
        BY <3>3, <3>4, <3>5 DEF Tidy
    <2>6. CASE Fault("unlink") /\ UNCHANGED files
      <3>1. files' \ doomed' = (files \ doomed) \cup {f} /\ doomed' \subseteq files'
        BY <2>1, <2>3, <2>6 DEF Tidy, Shape
      <3>2. Cardinality(files' \ doomed') = Cardinality(files \ doomed) + 1
        BY <2>3, <2>4, <3>1, FS_AddElement
      <3>3. faults' = faults + 1 /\ faults' \in 0..MaxFaults /\ Kept' = Kept + 1
        BY <1>b, <2>6
      <3>4. Sized'
        BY <1>0, <2>2, <2>4, <2>6, <3>2, <3>3 DEF Tidy, Sized
      <3>5. Shape'
        BY <2>2, <2>6, <3>1, <3>3 DEF Tidy, Shape
      <3>6. Paced'
        BY <1>0, <2>2, <3>3 DEF Tidy, Paced
      <3> QED
        BY <3>4, <3>5, <3>6 DEF Tidy
    <2> QED
      BY <2>1, <2>5, <2>6
  <1>7. CASE EndJob
    <2>1. /\ doomed = {} /\ pc = "deleting" /\ pc' = "idle"
          /\ UNCHANGED <<files, doomed, day, ran, sunday, made, attempts, faults>>
      BY <1>7 DEF EndJob
    <2>2. files \ doomed = files
      BY <2>1
    <2>3. Cardinality(files) <= Kept
      BY <2>1, <2>2 DEF Tidy, Sized
    <2>4. Sized'
      BY <1>a, <2>1, <2>3 DEF Tidy, Sized
    <2>5. Shape'
      BY <2>1 DEF Tidy, Shape
    <2>6. Paced'
      BY <2>1 DEF Tidy, Paced
    <2> QED
      BY <2>4, <2>5, <2>6 DEF Tidy
  <1>8. CASE Die
    <2>1. /\ Fault("death") /\ pc # "idle" /\ doomed' = {}
          /\ pc' \in {"requeued", "idle"}
          /\ UNCHANGED <<files, day, ran, sunday, made, attempts>>
      BY <1>8 DEF Die
    <2>2. faults' = faults + 1 /\ faults' \in 0..MaxFaults /\ Kept' = Kept + 1
      BY <1>b, <2>1
    <2>3. Sized'
      BY <1>0, <2>1, <2>2 DEF Tidy, Sized
    <2>4. Shape'
      BY <2>1, <2>2 DEF Tidy, Shape
    <2>5. Paced'
      BY <1>0, <2>1, <2>2 DEF Tidy, Paced
    <2> QED
      BY <2>3, <2>4, <2>5 DEF Tidy
  <1>9. CASE NextDay
    <2>1. /\ day' = day + 1 /\ day < LastDay /\ ran = TRUE /\ ran' = FALSE /\ pc = "idle"
          /\ UNCHANGED <<files, doomed, pc, sunday, made, attempts, faults>>
      BY <1>9 DEF NextDay, Tidy, Shape
    <2>2. Sized'
      BY <1>a, <2>1 DEF Tidy, Sized
    <2>3. Shape'
      <3>1. day' \in 0..LastDay
        BY <1>0, <2>1
      <3> QED
        BY <2>1, <3>1 DEF Tidy, Shape
    <2>4. Paced'
      BY <1>0, <2>1 DEF Tidy, Paced
    <2> QED
      BY <2>2, <2>3, <2>4 DEF Tidy
  <1>10. ASSUME UNCHANGED vars PROVE Tidy'
    <2>1. UNCHANGED <<files, doomed, pc, day, ran, sunday, made, attempts, faults>>
      BY <1>10 DEF vars
    <2> QED
      BY <2>1 DEF Tidy, Shape, Sized, Paced, Kept
  <1> QED
    BY <1>1, <1>2, <1>3, <1>4, <1>5, <1>6, <1>7, <1>8, <1>9, <1>10 DEF Next

\* The directory never grows past the files to keep, today's and one for each fault,
\* for any retention, and every variable is well formed.
THEOREM DirectoryIsBounded == Spec => []TypeOK
  <1>1. Init => Tidy
    BY InitTidy
  <1>2. Tidy /\ [Next]_vars => Tidy'
    BY TidyStep
  <1>3. Tidy => TypeOK
    BY TidyTypeOK
  <1> QED
    BY <1>1, <1>2, <1>3, PTL DEF Spec

-----------------------------------------------------------------------------
(* The days to keep.                                                       *)

Points == DailyPoints \cup WeeklyPoints

\* While every file is whole and the only one of its day, files have the order of their
\* days, and each day to keep has a file that the prune under way leaves.
Faithful ==
    /\ IsFiniteSet(made) /\ Cardinality(made) <= attempts /\ \A d \in made : d <= day
    /\ attempts = Cardinality(made) =>
          /\ \A f \in files : f.whole = TRUE /\ f.day \in made
          /\ \A f, g \in files : f.mtime < g.mtime <=> f.day < g.day
          /\ \A d \in Points : \E f \in files : f.day = d
          /\ pc = "deleting" => \A d \in Points : \E f \in files \ doomed : f.day = d

\* The recovery points promised are what Faithful keeps.
LEMMA FaithfulRecovers == Faithful => RecoveryPoints
  BY DEF Faithful, RecoveryPoints, Points, Available

\* One of the newest days is one of the newest in any smaller set.
LEMMA NewestInFewer ==
  ASSUME NEW T, IsFiniteSet(T), NEW S \in SUBSET T, NEW n \in Nat, NEW d \in S,
         d \in NewestDays(T, n)
  PROVE  d \in NewestDays(S, n)
  <1> DEFINE above == {e \in T : e > d}
             fewer == {e \in S : e > d}
  <1>1. IsFiniteSet(above) /\ fewer \subseteq above /\ Cardinality(above) < n
    BY FS_Subset DEF NewestDays
  <1>2. Cardinality(above) \in Nat /\ Cardinality(fewer) \in Nat
        /\ Cardinality(fewer) <= Cardinality(above)
    <2> HIDE DEF above, fewer
    <2> QED
      BY <1>1, FS_Subset, FS_CardinalityType
  <1>3. Cardinality(fewer) < n
    <2> HIDE DEF above, fewer
    <2> QED
      BY <1>1, <1>2
  <1> QED
    BY <1>3 DEF NewestDays

\* The days to keep after a backup are its own and days that were to be kept before: a
\* Sunday that leaves the daily ones makes no other Sunday come back.
LEMMA PointsAfterBackup ==
  ASSUME made \subseteq Nat, IsFiniteSet(made), day \in Nat, \A d \in made : d < day,
         made' = made \cup {day}, sunday' = sunday
  PROVE  Points' \subseteq Points \cup {day}
  <1> DEFINE A == {d \in made \ DailyPoints : Sunday(d)}
             B == {d \in made' \ DailyPoints' : Sunday(d)}
  <1>0. /\ keep_daily \in Nat /\ keep_weekly \in Nat /\ keep_daily > 0
    BY BackupsAssumption DEF BackupsAssumption
  <1>1. IsFiniteSet(made') /\ made \subseteq made'
    BY FS_AddElement
  <1>2. DailyPoints' \subseteq DailyPoints \cup {day}
    <2> SUFFICES ASSUME NEW d \in DailyPoints', d # day PROVE d \in DailyPoints
      OBVIOUS
    <2>1. d \in NewestDays(made', keep_daily) /\ d \in made
      BY DEF DailyPoints, NewestDays
    <2> QED
      BY <1>0, <1>1, <2>1, NewestInFewer DEF DailyPoints
  <1>3. day \in DailyPoints'
    <2>1. {e \in made' : e > day} = {}
      <3> SUFFICES ASSUME NEW e \in made', e > day PROVE FALSE
        OBVIOUS
      <3>1. e = day \/ (e \in made /\ e < day /\ e \in Nat)
        OBVIOUS
      <3> QED
        BY <3>1
    <2>2. Cardinality({e \in made' : e > day}) = 0
      BY <2>1, FS_EmptySet
    <2> QED
      BY <1>0, <2>2 DEF DailyPoints, NewestDays
  <1>4. WeeklyPoints = NewestDays(A, keep_weekly)
    BY DEF WeeklyPoints
  <1>5. WeeklyPoints' = NewestDays(B, keep_weekly)
    BY DEF WeeklyPoints, Sunday
  <1>6. IsFiniteSet(B)
    BY <1>1, FS_Subset
  <1>7. A \subseteq B
    <2> SUFFICES ASSUME NEW d \in A PROVE d \in made' \ DailyPoints'
      BY DEF Sunday
    <2>1. d \in made /\ d \notin DailyPoints /\ d # day
      OBVIOUS
    <2> QED
      BY <1>1, <1>2, <2>1
  <1>8. WeeklyPoints' \subseteq Points
    <2> SUFFICES ASSUME NEW d \in WeeklyPoints', d \notin DailyPoints PROVE d \in WeeklyPoints
      BY DEF Points
    <2>1. d \in B
      BY <1>5 DEF NewestDays
    <2>2. d \in A
      BY <1>3, <2>1 DEF Sunday
    <2> HIDE DEF A, B
    <2> QED
      BY <1>0, <1>4, <1>5, <1>6, <1>7, <2>2, NewestInFewer
  <1> QED
    BY <1>2, <1>8 DEF Points

\* As many files as days, when no two are of one day.
LEMMA OneFileADay ==
  ASSUME NEW G, NEW D, IsFiniteSet(D), \A g \in G : g.day \in D,
         \A g, h \in G : g.day = h.day => g = h
  PROVE  IsFiniteSet(G) /\ Cardinality(G) <= Cardinality(D)
  <1> DEFINE of == [g \in G |-> g.day]
  <1>1. of \in Injection(G, D)
    BY DEF Injection, IsInjective
  <1> HIDE DEF of
  <1> QED
    BY <1>1, FS_Injection

\* A prune that finds a file for each day to keep leaves them.
LEMMA PruneKeepsPoints ==
  ASSUME Shape, Faithful, attempts = Cardinality(made)
  PROVE  LET daily == Newest(files, keep_daily)
         IN  \A d \in Points : \E f \in daily \cup Weekly(daily) : f.day = d
  <1> DEFINE daily == Newest(files, keep_daily)
             sundays == {f \in files \ daily : Sunday(f.day)}
             A == {d \in made \ DailyPoints : Sunday(d)}
  <1>0. keep_daily \in Nat /\ keep_weekly \in Nat
    BY BackupsAssumption DEF BackupsAssumption
  <1>1. /\ \A f \in files : f.day \in made /\ f.day \in Nat /\ f.mtime \in Nat
        /\ \A f, g \in files : f.mtime < g.mtime <=> f.day < g.day
        /\ \A f, g \in files : f.day = g.day => f = g
    <2>1. \A f \in files : f.day \in made /\ f.day \in Nat /\ f.mtime \in Nat
      BY DEF Shape, Faithful, File
    <2>2. \A f, g \in files : f.mtime < g.mtime <=> f.day < g.day
      BY DEF Faithful
    <2>3. \A f, g \in files : f.day = g.day => f.mtime = g.mtime
      <3> SUFFICES ASSUME NEW f \in files, NEW g \in files, f.day = g.day PROVE f.mtime = g.mtime
        OBVIOUS
      <3>1. ~(f.mtime < g.mtime) /\ ~(g.mtime < f.mtime)
        BY <2>1, <2>2
      <3>2. f.mtime \in Nat /\ g.mtime \in Nat
        BY <2>1
      <3> QED
        BY <3>1, <3>2
    <2> QED
      BY <2>1, <2>2, <2>3 DEF Shape
  <1>2. ASSUME NEW f \in files, f.day \in DailyPoints PROVE f \in daily
    <2> DEFINE newer == {g \in files : g.mtime > f.mtime}
               later == {e \in made : e > f.day}
    <2>1. IsFiniteSet(later) /\ Cardinality(later) < keep_daily
      BY <1>2, FS_Subset DEF Faithful, DailyPoints, NewestDays
    <2>2. \A g \in newer : g.day \in later
      <3> SUFFICES ASSUME NEW g \in files, g.mtime > f.mtime PROVE g.day \in made /\ g.day > f.day
        OBVIOUS
      <3>1. f.mtime \in Nat /\ g.mtime \in Nat /\ f.day \in Nat /\ g.day \in Nat /\ g.day \in made
        BY <1>1
      <3>2. f.mtime < g.mtime
        BY <3>1
      <3>3. f.day < g.day
        BY <1>1, <3>2
      <3> QED
        BY <3>1, <3>3
    <2>3. \A g, h \in newer : g.day = h.day => g = h
      BY <1>1
    <2>4. Cardinality(newer) < keep_daily
      <3> HIDE DEF newer, later
      <3>1. IsFiniteSet(newer) /\ Cardinality(newer) <= Cardinality(later)
        BY <2>1, <2>2, <2>3, OneFileADay
      <3>2. Cardinality(newer) \in Nat /\ Cardinality(later) \in Nat
        BY <2>1, <3>1, FS_CardinalityType
      <3> QED
        BY <1>0, <2>1, <3>1, <3>2
    <2> QED
      BY <2>4 DEF Newest
  <1>3. ASSUME NEW f \in sundays, f.day \in WeeklyPoints PROVE f \in Weekly(daily)
    <2> DEFINE newer == {g \in sundays : g.mtime > f.mtime}
               later == {e \in A : e > f.day}
    <2>1. IsFiniteSet(A)
      BY FS_Subset DEF Faithful
    <2>2. IsFiniteSet(later) /\ Cardinality(later) < keep_weekly
      <3>1. f.day \in NewestDays(A, keep_weekly)
        BY <1>3 DEF WeeklyPoints
      <3> HIDE DEF A
      <3> QED
        BY <2>1, <3>1, FS_Subset DEF NewestDays
    <2>3. \A g \in newer : g.day \in later
      <3> SUFFICES ASSUME NEW g \in sundays, g.mtime > f.mtime PROVE g.day \in A /\ g.day > f.day
        OBVIOUS
      <3>1. f \in files /\ g \in files /\ g \notin daily /\ Sunday(g.day)
        OBVIOUS
      <3>2. f.mtime \in Nat /\ g.mtime \in Nat /\ f.day \in Nat /\ g.day \in Nat /\ g.day \in made
        BY <1>1, <3>1
      <3>3. f.day < g.day
        BY <1>1, <3>1, <3>2
      <3>4. g.day \notin DailyPoints
        BY <1>2, <3>1
      <3> QED
        BY <3>1, <3>2, <3>3, <3>4
    <2>4. \A g, h \in newer : g.day = h.day => g = h
      BY <1>1
    <2>5. Cardinality(newer) < keep_weekly
      <3> HIDE DEF newer, later
      <3>1. IsFiniteSet(newer) /\ Cardinality(newer) <= Cardinality(later)
        BY <2>2, <2>3, <2>4, OneFileADay
      <3>2. Cardinality(newer) \in Nat /\ Cardinality(later) \in Nat
        BY <2>2, <3>1, FS_CardinalityType
      <3> QED
        BY <1>0, <2>2, <3>1, <3>2
    <2> QED
      BY <2>5 DEF Weekly, Newest
  <1>4. ASSUME NEW d \in Points PROVE \E f \in daily \cup Weekly(daily) : f.day = d
    <2>1. PICK f \in files : f.day = d
      BY <1>4 DEF Faithful
    <2>2. CASE f \in daily
      BY <2>1, <2>2
    <2>3. CASE f \notin daily
      <3>1. d \notin DailyPoints
        BY <1>2, <2>1, <2>3
      <3>2. d \in WeeklyPoints /\ Sunday(d)
        BY <1>4, <3>1 DEF Points, WeeklyPoints, NewestDays
      <3> QED
        BY <1>3, <2>1, <2>3, <3>2
    <2> QED
      BY <2>2, <2>3
  <1> QED
    BY <1>4

\* What the steps that neither write nor prune leave as it is.
LEMMA FaithfulKept ==
  ASSUME Tidy, Faithful, made' = made, attempts' = attempts, sunday' = sunday,
         day' \in Nat, day' >= day, files' = files, pc' # "deleting" \/ (pc' = pc /\ doomed' = doomed)
  PROVE  Faithful'
  <1>1. Points' = Points
    BY DEF Points, DailyPoints, WeeklyPoints, Sunday
  <1>2. \A d \in made' : d <= day'
    <2> SUFFICES ASSUME NEW d \in made PROVE d <= day'
      OBVIOUS
    <2>1. d \in Nat /\ day \in Nat /\ d <= day
      BY DEF Tidy, Shape, Faithful
    <2> QED
      BY <2>1
  <1> QED
    BY <1>1, <1>2 DEF Faithful

\* No step loses a recovery point before its time.
LEMMA FaithfulStep == ASSUME Tidy, Faithful, [Next]_vars PROVE Faithful'
  <1>0. /\ day \in Nat /\ attempts \in Nat /\ made \subseteq Nat /\ Cardinality(made) \in Nat
        /\ \A d \in made : d <= day
    BY FS_CardinalityType DEF Tidy, Shape, Faithful
  <1>a. ASSUME UNCHANGED <<made, sunday>> PROVE Points' = Points
    BY <1>a DEF Points, DailyPoints, WeeklyPoints, Sunday
  <1>1. CASE StartJob \/ Dump \/ EndJob \/ Die
    <2>1. /\ UNCHANGED <<files, day, sunday, made, attempts>> /\ pc' # "deleting"
      BY <1>1 DEF StartJob, Dump, AfterFailure, EndJob, Die
    <2> QED
      BY <1>0, <2>1, FaithfulKept
  <1>2. CASE NextDay
    <2>1. /\ UNCHANGED <<files, sunday, made, attempts>> /\ pc' # "deleting" /\ day' = day + 1
      BY <1>2 DEF NextDay
    <2> QED
      BY <1>0, <2>1, FaithfulKept
  <1>3. CASE Write
    <2> DEFINE new == [mtime |-> attempts, day |-> day, whole |-> TRUE]
    <2>1. /\ files' = files \cup {new} /\ made' = made \cup {day} /\ attempts' = attempts + 1
          /\ pc' = "cleanup" /\ day' = day /\ sunday' = sunday
      BY <1>3 DEF Write, Begun
    <2>2. /\ IsFiniteSet(made')
          /\ Cardinality(made') = IF day \in made THEN Cardinality(made) ELSE Cardinality(made) + 1
      BY <2>1, FS_AddElement DEF Faithful
    <2>3. Cardinality(made') <= attempts' /\ \A d \in made' : d <= day'
      BY <1>0, <2>1, <2>2 DEF Faithful
    <2>4. ASSUME attempts' = Cardinality(made')
          PROVE  /\ \A f \in files' : f.whole = TRUE /\ f.day \in made'
                 /\ \A f, g \in files' : f.mtime < g.mtime <=> f.day < g.day
                 /\ \A d \in Points' : \E f \in files' : f.day = d
      <3>1. day \notin made /\ attempts = Cardinality(made)
        BY <1>0, <2>1, <2>2, <2>4 DEF Faithful
      <3>2. \A d \in made : d < day
        <4> SUFFICES ASSUME NEW d \in made PROVE d < day
          OBVIOUS
        <4>1. d \in Nat /\ d <= day /\ d # day
          BY <1>0, <3>1
        <4> QED
          BY <1>0, <4>1
      <3>3. /\ \A f \in files : f.whole = TRUE /\ f.day \in made
            /\ \A f, g \in files : f.mtime < g.mtime <=> f.day < g.day
            /\ \A d \in Points : \E f \in files : f.day = d
        BY <3>1 DEF Faithful
      <3>4. new.day = day /\ new.mtime = attempts /\ new.whole = TRUE
        OBVIOUS
      <3> HIDE DEF new
      <3>5. \A f \in files' : f.whole = TRUE /\ f.day \in made'
        BY <2>1, <3>3, <3>4
      <3>6. ASSUME NEW f \in files', NEW g \in files' PROVE f.mtime < g.mtime <=> f.day < g.day
        <4>1. \A h \in files : /\ h.mtime \in Nat /\ h.mtime < attempts
                               /\ h.day \in Nat /\ h.day < day
          BY <1>0, <3>2, <3>3 DEF Tidy, Shape, File
        <4>2. CASE f \in files /\ g \in files
          BY <3>3, <4>2
        <4>3. CASE f \in files /\ g = new
          BY <3>4, <4>1, <4>3
        <4>4. CASE f = new /\ g \in files
          <5>1. ~(attempts < g.mtime) /\ ~(day < g.day)
            BY <1>0, <4>1, <4>4
          <5> QED
            BY <3>4, <4>4, <5>1
        <4>5. CASE f = new /\ g = new
          BY <1>0, <3>4, <4>5
        <4> QED
          BY <2>1, <4>2, <4>3, <4>4, <4>5
      <3>7. Points' \subseteq Points \cup {day}
        BY <1>0, <2>1, <3>2, PointsAfterBackup DEF Faithful
      <3>8. \A d \in Points' : \E f \in files' : f.day = d
        BY <2>1, <3>3, <3>4, <3>7
      <3> QED
        BY <3>5, <3>6, <3>8
    <2> HIDE DEF new
    <2>5. pc' # "deleting"
      BY <2>1
    <2> QED
      BY <2>2, <2>3, <2>4, <2>5 DEF Faithful
  <1>4. CASE WriteTorn
    <2>1. /\ made' = made /\ day' = day /\ attempts' = attempts + 1
      BY <1>4 DEF WriteTorn
    <2>2. Cardinality(made') < attempts'
      BY <1>0, <2>1 DEF Faithful
    <2>3. Cardinality(made') <= attempts' /\ attempts' # Cardinality(made')
      BY <1>0, <2>1, <2>2
    <2> QED
      BY <1>0, <2>1, <2>3 DEF Faithful
  <1>5. CASE ChooseKept
    <2> DEFINE daily == Newest(files, keep_daily)
               kept == daily \cup Weekly(daily)
    <2>1. /\ doomed' = files \ kept
          /\ UNCHANGED <<files, day, sunday, made, attempts>>
      BY <1>5 DEF ChooseKept
    <2>2. kept \subseteq files
      BY DEF Newest, Weekly
    <2>3. attempts = Cardinality(made) => \A d \in Points : \E f \in kept : f.day = d
      BY PruneKeepsPoints DEF Tidy
    <2> HIDE DEF kept
    <2>4. files' \ doomed' = kept
      BY <2>1, <2>2
    <2> QED
      BY <1>a, <2>1, <2>3, <2>4 DEF Faithful
  <1>6. CASE Unlink
    <2>1. PICK f \in doomed : doomed' = doomed \ {f} /\ files' \in {files, files \ {f}}
      BY <1>6 DEF Unlink, Newest
    <2>2. pc = "deleting" /\ UNCHANGED <<pc, day, sunday, made, attempts>>
      BY <1>6 DEF Unlink
    <2>3. files \ doomed \subseteq files' \ doomed' /\ files' \subseteq files
      BY <2>1
    <2>4. Points' = Points
      BY <1>a, <2>2
    <2>5. ASSUME attempts = Cardinality(made), NEW d \in Points
          PROVE  \E g \in files' \ doomed' : g.day = d
      <3>1. PICK g \in files \ doomed : g.day = d
        BY <2>2, <2>5 DEF Faithful
      <3> QED
        BY <2>3, <3>1
    <2>6. attempts = Cardinality(made) =>
              /\ \A g \in files' : g.whole = TRUE /\ g.day \in made
              /\ \A g, h \in files' : g.mtime < h.mtime <=> g.day < h.day
              /\ \A d \in Points : \E g \in files' : g.day = d
              /\ \A d \in Points : \E g \in files' \ doomed' : g.day = d
      BY <2>3, <2>5 DEF Faithful
    <2> QED
      BY <1>0, <2>2, <2>4, <2>6 DEF Faithful
  <1>7. CASE UNCHANGED vars
    BY <1>0, <1>7, FaithfulKept DEF vars
  <1> QED
    BY <1>1, <1>2, <1>3, <1>4, <1>5, <1>6, <1>7 DEF Next

LEMMA InitFaithful == Init => Faithful
  <1> SUFFICES ASSUME Init PROVE Faithful
    OBVIOUS
  <1>1. files = {} /\ made = {} /\ attempts = 0 /\ pc = "idle"
    BY DEF Init
  <1>2. IsFiniteSet(made) /\ Cardinality(made) = 0
    BY <1>1, FS_EmptySet
  <1>3. Points = {}
    BY <1>1 DEF Points, DailyPoints, WeeklyPoints, NewestDays
  <1> QED
    BY <1>1, <1>2, <1>3 DEF Faithful

\* The days to keep can be restored, for any retention counts, weeks and faults, as long
\* as no file is torn and no task delivered again writes a second file of its day.
THEOREM RecoveryPointsAreKept == Spec => []RecoveryPoints
  <1>1. Init => Tidy /\ Faithful
    BY InitTidy, InitFaithful
  <1>2. Tidy /\ Faithful /\ [Next]_vars => (Tidy /\ Faithful)'
    BY TidyStep, FaithfulStep
  <1>3. Faithful => RecoveryPoints
    BY FaithfulRecovers
  <1> QED
    BY <1>1, <1>2, <1>3, PTL DEF Spec
=============================================================================
