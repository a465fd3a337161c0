-------------------------- MODULE ArchiveDirProofs --------------------------
(***************************************************************************)
(* What ArchiveDir keeps true for any number of runs, prunes, archives,    *)
(* stamps, settings and power losses: first that a finished name shows a   *)
(* whole archive, then what the notes and the sweeps go by, and why sweeps *)
(* that overlap never lose the newest complete archive.  At the end, what  *)
(* the retention promises of every directory (RetentionList).              *)
(***************************************************************************)
EXTENDS ArchiveDir, RetentionList, FiniteSetTheorems, WellFoundedInduction, TLAPS

USE DEF Procs, Archives, Stamps, Idle, Active, Goto

(* No note is a note, and what a run writes is one.                        *)
LEMMA NoteTypes ==
  /\ NoNote \in Note
  /\ \A a : missing[a] \in {"none", "some"} /\ settings[a] \in Settings =>
               NoteOf(a) \in Note
BY DEF NoNote, Note, NoteOf

(* The shape of a flushed directory.                                       *)
DiskType == [partial : [Stamps -> Archives \cup {None}],
             final : [Stamps -> Archives \cup {None}], note : [Stamps -> Note]]

(* After a power loss each entry is one the directory had, in memory or on *)
(* disk, and nothing is left to flush.                                     *)
LEMMA LossMixes ==
  ASSUME TypeOK, PowerLoss
  PROVE  /\ partial' \in [Stamps -> Archives \cup {None}]
         /\ final' \in [Stamps -> Archives \cup {None}]
         /\ note' \in [Stamps -> Note]
         /\ \A n \in Stamps : partial'[n] \in {partial[n], disk.partial[n]}
         /\ \A n \in Stamps : final'[n] \in {final[n], disk.final[n]}
         /\ \A n \in Stamps : note'[n] \in {note[n], disk.note[n]}
         /\ disk' = [partial |-> partial', final |-> final', note |-> note']
<1>1. ASSUME NEW T, NEW now \in [Stamps -> T], NEW flushed \in [Stamps -> T],
             NEW f \in Mixed(now, flushed)
      PROVE  /\ f \in [Stamps -> T]
             /\ \A n \in Stamps : f[n] \in {now[n], flushed[n]}
  BY DEF Mixed
<1>2. /\ disk.partial \in [Stamps -> Archives \cup {None}]
      /\ disk.final \in [Stamps -> Archives \cup {None}]
      /\ disk.note \in [Stamps -> Note]
  BY DEF TypeOK
<1>3. /\ partial \in [Stamps -> Archives \cup {None}]
      /\ final \in [Stamps -> Archives \cup {None}]
      /\ note \in [Stamps -> Note]
  BY DEF TypeOK
<1>4. /\ partial' \in Mixed(partial, disk.partial)
      /\ final' \in Mixed(final, disk.final)
      /\ note' \in Mixed(note, disk.note)
      /\ disk' = [partial |-> partial', final |-> final', note |-> note']
  BY DEF PowerLoss, Flushed
<1>5. QED
  BY <1>1, <1>2, <1>3, <1>4

(* Earlier runs left a directory of the right shape.                       *)
LEMMA TypesInitially == Init => TypeOK
<1> SUFFICES ASSUME Init PROVE TypeOK
  OBVIOUS
<1>1. final \in [Stamps -> Archives \cup {None}]
  <2>1. ASSUME NEW n \in Stamps, \E a \in Old : name[a] = n
        PROVE  (CHOOSE a \in Old : name[a] = n) \in Archives
    BY <2>1
  <2>2. QED
    BY <2>1 DEF Init
<1>2. missing \in [Archives -> {"none", "some"}]
  BY DEF Init
<1>3. disk \in DiskType
  BY <1>1 DEF Init, Flushed, DiskType
<1>4. pc \in [Procs -> Idle \cup Active] /\ partial \in [Stamps -> Archives \cup {None}]
      /\ todo \in [Procs -> SUBSET Stamps]
  BY DEF Init
<1>5. QED
  BY <1>1, <1>2, <1>3, <1>4 DEF Init, TypeOK, DiskType

(* Every variable keeps its type, whatever the constants.                  *)
THEOREM TypeCorrect == Spec => []TypeOK
<1>1. Init => TypeOK
  BY TypesInitially
<1>2. TypeOK /\ [Next]_vars => TypeOK'
  <2> SUFFICES ASSUME TypeOK, [Next]_vars PROVE TypeOK'
    OBVIOUS
  <2> USE DEF TypeOK, archive, directory, history
  <2>1. ASSUME NEW r \in Runs, RunStep(r) PROVE TypeOK'
    <3>1. ASSUME NEW n \in Stamps, Prepare(r, n) PROVE TypeOK'
      BY <3>1 DEF Prepare
    <3>2. CASE Open(r)
      BY <3>2 DEF Open
    <3>3. ASSUME NEW dropped \in BOOLEAN, NEW h \in BOOLEAN,
                 NEW sight \in {"Seen", "Guessed", "Blind"},
                 Write(r, dropped, sight, h)
          PROVE  TypeOK'
      BY <3>3 DEF Write, missing_of
    <3>4. CASE Sync(r)
      BY <3>4 DEF Sync
    <3>5. CASE Rename(r)
      BY <3>5 DEF Rename
    <3>6. CASE SyncDirectory(r)
      <4>1. disk' \in DiskType
        BY <3>6 DEF SyncDirectory, Flushed, DiskType
      <4>2. warned' \in BOOLEAN /\ promised' \subseteq Archives
        BY <3>6 DEF SyncDirectory
      <4>3. QED
        BY <3>6, <4>1, <4>2 DEF SyncDirectory, DiskType
    <3>7. CASE Fail(r)
      <4>1. PICK left \in {None, partial[name[r]]} :
               partial' = [partial EXCEPT ![name[r]] = left]
        BY <3>7 DEF Fail
      <4>2. partial' \in [Stamps -> Archives \cup {None}]
        BY <4>1
      <4>3. QED
        BY <3>7, <4>2 DEF Fail
    <3>8. CASE WriteNote(r)
      <4>1. PICK said \in {NoteOf(r), NoNote, note[name[r]]} :
               note' = [note EXCEPT ![name[r]] = said]
        BY <3>8 DEF WriteNote
      <4>2. name[r] \in Stamps => said \in Note
        BY <4>1, NoteTypes
      <4>3. note' \in [Stamps -> Note]
        BY <4>1, <4>2
      <4>4. QED
        BY <3>8, <4>3 DEF WriteNote
    <3>9. CASE NoSweep(r)
      BY <3>9 DEF NoSweep
    <3>10. QED
      BY <2>1, <3>1, <3>2, <3>3, <3>4, <3>5, <3>6, <3>7, <3>8, <3>9 DEF RunStep
  <2>2. ASSUME NEW p \in Prunes, PruneStep(p) PROVE TypeOK'
    BY <2>2 DEF PruneStep, Confirm, Decline
  <2>3. ASSUME NEW p \in Procs, SweepStep(p) PROVE TypeOK'
    <3>1. CASE List(p)
      BY <3>1 DEF List, Present
    <3>2. ASSUME NEW k \in Keeps, Judge(p, k) PROVE TypeOK'
      <4>1. Condemned(p, k) \in SUBSET Stamps
        BY DEF Condemned, Doomed, Judged
      <4>2. unsure' \in BOOLEAN
        BY <3>2 DEF Judge
      <4>3. QED
        BY <3>2, <4>1, <4>2 DEF Judge
    <3>3. CASE DeleteArchive(p)
      BY <3>3 DEF DeleteArchive
    <3>4. CASE DeleteNote(p)
      <4> DEFINE n == Max(todo[p])
      <4>1. PICK said \in {NoNote, note[n]} : note' = [note EXCEPT ![n] = said]
        BY <3>4 DEF DeleteNote
      <4>2. note' \in [Stamps -> Note]
        BY <4>1, NoteTypes
      <4>3. todo' \in [Procs -> SUBSET Stamps]
        BY <3>4 DEF DeleteNote
      <4>4. QED
        BY <3>4, <4>2, <4>3 DEF DeleteNote
    <3>5. CASE DeleteFails(p) \/ SweepDone(p)
      BY <3>5 DEF DeleteFails, SweepDone
    <3>6. QED
      BY <2>3, <3>1, <3>2, <3>3, <3>4, <3>5 DEF SweepStep
  <2>4. ASSUME NEW p \in Procs, Kill(p) PROVE TypeOK'
    BY <2>4 DEF Kill
  <2>5. CASE PowerLoss
    <3>1. disk' \in DiskType
      BY <2>5, LossMixes DEF DiskType
    <3>2. QED
      BY <2>5, <3>1, LossMixes DEF PowerLoss, DiskType
  <2>6. CASE UNCHANGED vars
    BY <2>6 DEF vars
  <2>7. QED
    BY <2>1, <2>2, <2>3, <2>4, <2>5, <2>6 DEF Next
<1>3. QED
  BY <1>1, <1>2, PTL DEF Spec

(* The archives earlier runs left are whole and under their own names.     *)
LEMMA PublishInitially == Init => PublishInv
<1> SUFFICES ASSUME Init PROVE PublishInv
  OBVIOUS
<1>1. \A n \in Stamps : final[n] # None => final[n] \in Old /\ name[final[n]] = n
  <2> SUFFICES ASSUME NEW n \in Stamps, final[n] # None
               PROVE  final[n] \in Old /\ name[final[n]] = n
    OBVIOUS
  <2>1. \E a \in Old : name[a] = n
    BY DEF Init
  <2>2. (CHOOSE a \in Old : name[a] = n) \in Old /\ name[CHOOSE a \in Old : name[a] = n] = n
    BY <2>1
  <2>3. QED
    BY <2>1, <2>2 DEF Init
<1>2. Unique
  BY DEF Init, Unique
<1>3. Progress
  BY DEF Init, Progress
<1>4. PointsHome(partial) /\ PointsHome(final)
      /\ PointsHome(disk.partial) /\ PointsHome(disk.final)
  BY <1>1 DEF Init, PointsHome, Flushed
<1>5. Durable(final) /\ Durable(disk.final)
  BY <1>1 DEF Init, Durable, Flushed
<1>6. QED
  BY <1>2, <1>3, <1>4, <1>5 DEF PublishInv

(* No step of a run, a sweep, a kill or a power loss breaks the invariant. *)
LEMMA PublishStep ==
  ASSUME ~SharedNames, TypeOK, PublishInv, [Next]_vars
  PROVE  PublishInv'
<1> USE DEF PublishInv, archive, directory, history
<1>1. ASSUME NEW r \in Runs, RunStep(r) PROVE PublishInv'
  <2>1. ASSUME NEW n \in Stamps, Prepare(r, n) PROVE PublishInv'
    <3>1. name' = [name EXCEPT ![r] = n] /\ \A a \in Archives : name[a] # n
      BY <2>1, ~SharedNames DEF Prepare
    <3>2. name[r] = None
      BY <2>1 DEF Prepare, Progress
    <3>3. Unique'
      BY <3>1 DEF Unique, TypeOK
    <3>4. Progress'
      BY <2>1, <3>1, ArchivesAssumption DEF Prepare, Progress, TypeOK
    <3>5. PointsHome(partial)'
      BY <2>1, <3>1, <3>2, ArchivesAssumption DEF Prepare, PointsHome, TypeOK
    <3>6. PointsHome(final)'
      BY <2>1, <3>1, <3>2, ArchivesAssumption DEF Prepare, PointsHome, TypeOK
    <3>7. disk.final \in [Stamps -> Archives \cup {None}] /\ disk' = disk
      BY <2>1 DEF TypeOK, Prepare
    <3>8. PointsHome(disk.final)'
      BY <3>1, <3>2, <3>7, ArchivesAssumption DEF PointsHome, TypeOK
    <3>9. PointsHome(disk.partial)'
      <4>1. disk.partial \in [Stamps -> Archives \cup {None}]
        BY DEF TypeOK
      <4>2. QED
        BY <3>1, <3>2, <3>7, <4>1, ArchivesAssumption DEF PointsHome, TypeOK
    <3>10. QED
      BY <2>1, <3>3, <3>4, <3>5, <3>6, <3>8, <3>9 DEF Prepare, Durable
  <2>2. CASE Open(r)
    <3>1. PointsHome(partial)'
      BY <2>2 DEF Open, PointsHome, TypeOK
    <3>2. Progress'
      BY <2>2 DEF Open, Progress, TypeOK
    <3>3. QED
      BY <2>2, <3>1, <3>2 DEF Open, PointsHome, Durable, Unique
  <2>3. ASSUME NEW dropped \in BOOLEAN, NEW h \in BOOLEAN,
               NEW sight \in {"Seen", "Guessed", "Blind"},
               Write(r, dropped, sight, h)
        PROVE  PublishInv'
    <3>1. Progress'
      BY <2>3 DEF Write, Progress, TypeOK
    <3>2. QED
      BY <2>3, <3>1 DEF Write, PointsHome, Durable, Unique
  <2>4. CASE Sync(r)
    <3>1. partial[name[r]] = r
      <4>1. name[r] \in Stamps /\ partial[name[r]] # None
        BY <2>4 DEF Sync, Progress, TypeOK
      <4>2. name[partial[name[r]]] = name[r] /\ partial[name[r]] \in Archives
        BY <4>1 DEF PointsHome, TypeOK
      <4>3. QED
        BY <4>1, <4>2, ArchivesAssumption DEF Unique
    <3>2. Progress'
      BY <2>4, <3>1 DEF Sync, Progress, TypeOK
    <3>3. QED
      BY <2>4, <3>2 DEF Sync, PointsHome, Durable, Unique
  <2>5. CASE Rename(r)
    <3>1. name[r] \in Stamps /\ partial[name[r]] # None /\ r \in whole \cap synced
      BY <2>5 DEF Rename, Progress, TypeOK
    <3>2. partial[name[r]] = r
      <4>1. name[partial[name[r]]] = name[r] /\ partial[name[r]] \in Archives
        BY <3>1 DEF PointsHome, TypeOK
      <4>2. QED
        BY <3>1, <4>1, ArchivesAssumption DEF Unique
    <3>3. final' = [final EXCEPT ![name[r]] = r]
      BY <2>5, <3>2 DEF Rename
    <3>4. PointsHome(final)' /\ Durable(final)'
      BY <2>5, <3>1, <3>3 DEF Rename, PointsHome, Durable, TypeOK
    <3>5. PointsHome(partial)'
      BY <2>5 DEF Rename, PointsHome, TypeOK
    <3>6. Progress'
      BY <2>5 DEF Rename, Progress, TypeOK
    <3>7. QED
      BY <2>5, <3>4, <3>5, <3>6 DEF Rename, PointsHome, Durable, Unique
  <2>6. CASE SyncDirectory(r)
    <3>1. Progress'
      BY <2>6 DEF SyncDirectory, Progress, TypeOK
    <3>2. disk'.final \in {final, disk.final} /\ disk'.partial \in {partial, disk.partial}
      BY <2>6 DEF SyncDirectory, Flushed
    <3>3. QED
      BY <2>6, <3>1, <3>2 DEF SyncDirectory, PointsHome, Durable, Unique
  <2>7. CASE Fail(r)
    <3>1. PointsHome(partial)'
      <4>1. PICK left \in {None, partial[name[r]]} :
               partial' = [partial EXCEPT ![name[r]] = left]
        BY <2>7 DEF Fail
      <4>2. QED
        BY <2>7, <4>1 DEF Fail, PointsHome, TypeOK
    <3>2. Progress'
      BY <2>7 DEF Fail, Progress, TypeOK
    <3>3. QED
      BY <2>7, <3>1, <3>2 DEF Fail, PointsHome, Durable, Unique
  <2>8. CASE WriteNote(r) \/ NoSweep(r)
    <3>1. Progress'
      BY <2>8 DEF WriteNote, NoSweep, Progress, TypeOK
    <3>2. QED
      BY <2>8, <3>1 DEF WriteNote, NoSweep, PointsHome, Durable, Unique
  <2>9. QED
    BY <1>1, <2>1, <2>2, <2>3, <2>4, <2>5, <2>6, <2>7, <2>8 DEF RunStep
<1>2. ASSUME NEW p \in Procs,
             UNCHANGED <<archive, directory, disk>>,
             \E at \in Active \cup {"done", "dead"} :
                /\ pc' = [pc EXCEPT ![p] = at]
                /\ at \notin {"written", "synced"}
                /\ pc[p] \in Active \/ (p \in Prunes /\ pc[p] = "idle")
      PROVE  PublishInv'
  <2>1. Progress'
    BY <1>2, ArchivesAssumption DEF Progress, TypeOK
  <2>2. QED
    BY <1>2, <2>1 DEF PointsHome, Durable, Unique
<1>3. ASSUME NEW p \in Prunes, PruneStep(p) PROVE PublishInv'
  BY <1>2, <1>3 DEF PruneStep, Confirm, Decline, TypeOK
<1>4. ASSUME NEW p \in Procs, SweepStep(p) PROVE PublishInv'
  <2>1. CASE List(p)
    <3>1. Progress'
      BY <2>1, ArchivesAssumption DEF List, Progress, TypeOK
    <3>2. UNCHANGED <<archive, directory, disk>>
      BY <2>1 DEF List
    <3>3. QED
      BY <3>1, <3>2 DEF PointsHome, Durable, Unique
  <2>2. ASSUME NEW k \in Keeps, Judge(p, k) PROVE PublishInv'
    <3>1. Progress'
      BY <2>2 DEF Judge, Progress, TypeOK
    <3>2. UNCHANGED <<archive, directory, disk>>
      BY <2>2 DEF Judge
    <3>3. QED
      BY <3>1, <3>2 DEF PointsHome, Durable, Unique
  <2>3. CASE DeleteArchive(p)
    <3>1. PointsHome(final)' /\ Durable(final)'
      BY <2>3, ArchivesAssumption DEF DeleteArchive, PointsHome, Durable, TypeOK
    <3>2. Progress'
      BY <2>3 DEF DeleteArchive, Progress, TypeOK
    <3>3. QED
      BY <2>3, <3>1, <3>2 DEF DeleteArchive, PointsHome, Durable, Unique
  <2>4. CASE DeleteNote(p)
    <3>1. Progress'
      BY <2>4 DEF DeleteNote, Progress, TypeOK
    <3>2. QED
      BY <2>4, <3>1 DEF DeleteNote, PointsHome, Durable, Unique
  <2>5. CASE DeleteFails(p) \/ SweepDone(p)
    BY <1>2, <2>5 DEF DeleteFails, SweepDone, TypeOK
  <2>6. QED
    BY <1>4, <2>1, <2>2, <2>3, <2>4, <2>5 DEF SweepStep
<1>5. ASSUME NEW p \in Procs, Kill(p) PROVE PublishInv'
  <2>1. Progress'
    BY <1>5 DEF Kill, Progress, TypeOK
  <2>2. QED
    BY <1>5, <2>1 DEF Kill, PointsHome, Durable, Unique
<1>6. CASE PowerLoss
  <2>1. Progress'
    BY <1>6 DEF PowerLoss, Progress, TypeOK
  <2>2. /\ \A n \in Stamps : partial'[n] \in {partial[n], disk.partial[n]}
        /\ \A n \in Stamps : final'[n] \in {final[n], disk.final[n]}
    BY <1>6, LossMixes
  <2>3. PointsHome(partial)' /\ PointsHome(final)' /\ Durable(final)'
    BY <1>6, <2>2 DEF PowerLoss, PointsHome, Durable
  <2>4. disk'.partial = partial' /\ disk'.final = final'
    BY <1>6, LossMixes
  <2>5. QED
    BY <1>6, <2>1, <2>3, <2>4 DEF PowerLoss, PointsHome, Durable, Unique
<1>7. CASE UNCHANGED vars
  BY <1>7 DEF vars, PointsHome, Durable, Unique, Progress
<1>8. QED
  BY <1>1, <1>3, <1>4, <1>5, <1>6, <1>7 DEF Next

(* While every run has a name of its own, no interleaving of runs, sweeps, *)
(* kills and power losses shows a file under a finished name that is not a *)
(* whole archive.                                                          *)
THEOREM FinishedNames ==
  ASSUME ~SharedNames
  PROVE  Spec => []FinishedNamesAreWhole
<1>1. TypeOK /\ TypeOK' /\ PublishInv /\ [Next]_vars => PublishInv'
  BY ~SharedNames, PublishStep
<1>2. PublishInv => FinishedNamesAreWhole
  BY DEF PublishInv, Durable, FinishedNamesAreWhole, Present
<1>3. QED
  BY <1>1, <1>2, PublishInitially, TypeCorrect, PTL DEF Spec

----------------------------------------------------------------------------
(* The newest of a set of stamps.                                          *)

(* The order of the numbers is well-founded.                               *)
LEMMA NatLessWF == IsWellFoundedOn({ss \in Nat \X Nat : ss[1] < ss[2]}, Nat)
BY NatLessThanWellFounded DEF OpToRel

(* A set of numbers that is not empty has a least element ...              *)
LEMMA LeastOf ==
  ASSUME NEW S \in SUBSET Nat, S # {}
  PROVE  \E n \in S : \A m \in S : n <= m
<1> DEFINE R == {ss \in Nat \X Nat : ss[1] < ss[2]}
<1>1. IsWellFoundedOn(R, Nat)
  BY NatLessWF
<1>2. \E x \in S : \A y \in S : ~ (<<y, x>> \in R)
  <2> HIDE DEF R
  <2>1. QED
    BY <1>1, WFMin
<1>3. PICK x \in S : \A y \in S : ~ (<<y, x>> \in R)
  BY <1>2
<1>4. ASSUME NEW y \in S PROVE x <= y
  <2>1. y < x => <<y, x>> \in R
    OBVIOUS
  <2>2. QED
    BY <1>3, <2>1
<1>5. QED
  BY <1>4

(* ... and a greatest one when it is bounded.                              *)
LEMMA GreatestOf ==
  ASSUME NEW S \in SUBSET Nat, S # {}, NEW b \in Nat, \A n \in S : n <= b
  PROVE  \E n \in S : \A m \in S : m <= n
<1> DEFINE T == {k \in Nat : \E n \in S : n + k = b}
<1>1. T \in SUBSET Nat /\ T # {}
  <2>1. PICK n \in S : TRUE
    OBVIOUS
  <2>2. b - n \in Nat /\ n + (b - n) = b
    BY <2>1
  <2>3. QED
    BY <2>2
<1>2. PICK k \in T : \A j \in T : k <= j
  BY <1>1, LeastOf
<1>3. PICK n \in S : n + k = b
  BY <1>2
<1>4. ASSUME NEW m \in S PROVE m <= n
  <2>1. b - m \in Nat /\ m + (b - m) = b
    OBVIOUS
  <2>2. k <= b - m
    BY <1>2, <2>1
  <2>3. QED
    BY <1>3, <2>2
<1>5. QED
  BY <1>3, <1>4

(* So there is a newest among any archives, ...                            *)
LEMMA NewestOf ==
  ASSUME NEW S \in SUBSET Stamps, S # {}
  PROVE  \E n \in S : \A m \in S : m <= n
<1>1. S \in SUBSET Nat /\ MaxStamp \in Nat /\ \A n \in S : n <= MaxStamp
  BY ArchivesAssumption
<1>2. QED
  BY <1>1, GreatestOf

(* ... which is the one Max chooses: what a sweep deletes next is on its   *)
(* list.                                                                   *)
LEMMA MaxOf ==
  ASSUME NEW S \in SUBSET Stamps, S # {}
  PROVE  Max(S) \in S /\ \A m \in S : m <= Max(S)
<1>1. PICK n \in S : \A m \in S : m <= n
  BY NewestOf
<1>2. \A m \in S : n >= m
  BY <1>1, ArchivesAssumption
<1>3. Max(S) \in S /\ \A m \in S : Max(S) >= m
  BY <1>2 DEF Max
<1>4. QED
  BY <1>3, ArchivesAssumption

----------------------------------------------------------------------------
(* What a step leaves alone.                                               *)

(* What is settled about an archive stays as it is.                        *)
LEMMA Lasting ==
  ASSUME TypeOK, [Next]_vars
  PROVE  \A a \in Archives :
           /\ Settled(a) => /\ Settled(a)' /\ name'[a] = name[a] /\ missing'[a] = missing[a]
                            /\ settings'[a] = settings[a] /\ holds'[a] = holds[a]
           /\ Noted(a) => Noted(a)' /\ Settled(a)
<1> DEFINE Lasts(a) ==
      /\ Settled(a) => /\ Settled(a)' /\ name'[a] = name[a] /\ missing'[a] = missing[a]
                       /\ settings'[a] = settings[a] /\ holds'[a] = holds[a]
      /\ Noted(a) => Noted(a)' /\ Settled(a)
<1> USE ArchivesAssumption DEF TypeOK, archive, Settled, Noted, BeforeRename, BeforeNote
<1>1. ASSUME NEW r \in Runs, RunStep(r)
      PROVE  \A a \in Archives : Lasts(a)
  BY <1>1 DEF RunStep, Prepare, Open, Write, Sync, Rename, SyncDirectory, Fail, WriteNote, NoSweep
<1>2. ASSUME NEW p \in Prunes, PruneStep(p)
      PROVE  \A a \in Archives : Lasts(a)
  BY <1>2 DEF PruneStep, Confirm, Decline
<1>3. ASSUME NEW p \in Procs, SweepStep(p) \/ Kill(p)
      PROVE  \A a \in Archives : Lasts(a)
  BY <1>3 DEF SweepStep, List, Judge, DeleteArchive, DeleteNote, DeleteFails, SweepDone, Kill
<1>4. ASSUME PowerLoss \/ UNCHANGED vars
      PROVE  \A a \in Archives : Lasts(a)
  BY <1>4 DEF PowerLoss, vars
<1>5. QED
  BY <1>1, <1>2, <1>3, <1>4 DEF Next

(* Which steps touch an entry, a note, the disk, a promise and a name.     *)
LEMMA Frames ==
  ASSUME [Next]_vars
  PROVE  /\ final' = final \/ PowerLoss \/ (\E r \in Runs : Rename(r))
                           \/ (\E p \in Procs : DeleteArchive(p))
         /\ note' = note \/ PowerLoss \/ (\E r \in Runs : WriteNote(r))
                         \/ (\E p \in Procs : DeleteNote(p))
         /\ disk' = disk \/ PowerLoss \/ (\E r \in Runs : SyncDirectory(r))
         /\ promised' = promised \/ (\E r \in Runs : SyncDirectory(r))
         /\ warned => warned'
         /\ unsure => unsure'
<1> USE DEF archive, directory, history
<1>1. ASSUME NEW r \in Runs, RunStep(r)
      PROVE  /\ final' = final \/ Rename(r)
             /\ note' = note \/ WriteNote(r)
             /\ disk' = disk \/ SyncDirectory(r)
             /\ promised' = promised \/ SyncDirectory(r)
             /\ (warned => warned') /\ (unsure => unsure')
  BY <1>1 DEF RunStep, Prepare, Open, Write, Sync, Rename, SyncDirectory, Fail, WriteNote, NoSweep
<1>2. ASSUME NEW p \in Prunes, PruneStep(p)
      PROVE  /\ final' = final /\ note' = note /\ disk' = disk /\ promised' = promised
             /\ warned' = warned /\ unsure' = unsure
  BY <1>2 DEF PruneStep, Confirm, Decline
<1>3. ASSUME NEW p \in Procs, SweepStep(p) \/ Kill(p)
      PROVE  /\ final' = final \/ DeleteArchive(p)
             /\ note' = note \/ DeleteNote(p)
             /\ disk' = disk /\ promised' = promised
             /\ (warned => warned') /\ (unsure => unsure')
  <2>1. CASE List(p)
    BY <2>1 DEF List
  <2>2. ASSUME NEW keep \in Keeps, Judge(p, keep)
        PROVE  /\ final' = final /\ note' = note /\ disk' = disk /\ promised' = promised
               /\ warned' = warned /\ (unsure => unsure')
    BY <2>2 DEF Judge
  <2>3. CASE DeleteArchive(p)
    BY <2>3 DEF DeleteArchive
  <2>4. CASE DeleteNote(p)
    BY <2>4 DEF DeleteNote
  <2>5. CASE DeleteFails(p) \/ SweepDone(p) \/ Kill(p)
    BY <2>5 DEF DeleteFails, SweepDone, Kill
  <2>6. QED
    BY <1>3, <2>1, <2>2, <2>3, <2>4, <2>5 DEF SweepStep
<1>4. CASE PowerLoss
  BY <1>4 DEF PowerLoss
<1>5. CASE UNCHANGED vars
  BY <1>5 DEF vars
<1>6. QED
  BY <1>1, <1>2, <1>3, <1>4, <1>5 DEF Next

(* A list only grows by what a listing finds, a sentence by a judgment.    *)
LEMMA ListSteps ==
  ASSUME TypeOK, [Next]_vars
  PROVE  /\ Listed' \subseteq Listed \cup Present
         /\ \/ Sentenced' \subseteq Sentenced
            \/ \E p \in Procs, keep \in Keeps :
                  Judge(p, keep) /\ Sentenced' \subseteq Sentenced \cup Condemned(p, keep)
<1> USE DEF TypeOK, Judging
<1> DEFINE NewsFrom == \A q \in Procs : todo'[q] \subseteq todo[q] \cup Present
           Calm(q)  == pc'[q] \in Judging => pc[q] \in Judging /\ todo'[q] \subseteq todo[q]
<1>1. ASSUME NewsFrom
      PROVE  Listed' \subseteq Listed \cup Present
  BY <1>1 DEF Listed
<1>2. ASSUME \A q \in Procs : Calm(q)
       PROVE  Sentenced' \subseteq Sentenced
  BY <1>2 DEF Sentenced
<1>3. ASSUME NEW r \in Runs, RunStep(r)
      PROVE  /\ NewsFrom
             /\ \A q \in Procs : Calm(q)
  BY <1>3 DEF RunStep, Prepare, Open, Write, Sync, Rename, SyncDirectory, Fail, WriteNote, NoSweep
<1>4. ASSUME NEW p \in Prunes, PruneStep(p)
      PROVE  /\ NewsFrom
             /\ \A q \in Procs : Calm(q)
  BY <1>4 DEF PruneStep, Confirm, Decline
<1>5. ASSUME NEW p \in Procs, SweepStep(p) \/ Kill(p), ~ \E keep \in Keeps : Judge(p, keep)
      PROVE  /\ NewsFrom
             /\ \A q \in Procs : Calm(q)
  <2>1. CASE List(p)
    BY <2>1 DEF List
  <2>2. CASE DeleteArchive(p)
    BY <2>2 DEF DeleteArchive
  <2>3. CASE DeleteNote(p)
    BY <2>3 DEF DeleteNote
  <2>4. CASE DeleteFails(p) \/ SweepDone(p) \/ Kill(p)
    BY <2>4 DEF DeleteFails, SweepDone, Kill
  <2>5. QED
    BY <1>5, <2>1, <2>2, <2>3, <2>4 DEF SweepStep
<1>6. ASSUME NEW p \in Procs, NEW keep \in Keeps, Judge(p, keep)
      PROVE  /\ NewsFrom
             /\ Sentenced' \subseteq Sentenced \cup Condemned(p, keep)
  <2>1. Condemned(p, keep) \subseteq todo[p]
    BY DEF Condemned, Doomed, Judged
  <2>2. \A q \in Procs : /\ todo'[q] \subseteq todo[q]
                         /\ q # p => todo'[q] = todo[q] /\ pc'[q] = pc[q]
    BY <1>6, <2>1 DEF Judge
  <2>3. todo'[p] = Condemned(p, keep)
    BY <1>6 DEF Judge
  <2>4. \A q \in Procs : q # p => Calm(q)
    BY <2>2
  <2>5. QED
    BY <2>2, <2>3, <2>4 DEF Sentenced
<1>7. ASSUME PowerLoss \/ UNCHANGED vars
      PROVE  /\ NewsFrom
             /\ \A q \in Procs : Calm(q)
  BY <1>7 DEF PowerLoss, vars
<1>8. QED
  BY <1>1, <1>2, <1>3, <1>4, <1>5, <1>6, <1>7 DEF Next

(* Which action a process took to be where it is.                          *)
LEMMA WhoStepped ==
  ASSUME TypeOK, [Next]_vars
  PROVE  /\ \A r \in Runs : pc'[r] = "committed" => pc[r] = "committed" \/ SyncDirectory(r)
         /\ \A r \in Runs : pc'[r] = "renamed" => pc[r] = "renamed" \/ Rename(r)
         /\ \A p \in Procs : pc'[p] = "unnoting" /\ pc[p] # pc'[p] => DeleteArchive(p)
<1> USE ArchivesAssumption DEF TypeOK
<1>1. ASSUME NEW r \in Runs, RunStep(r)
      PROVE  /\ \A q \in Runs : pc'[q] = "committed" => pc[q] = "committed" \/ SyncDirectory(q)
             /\ \A q \in Runs : pc'[q] = "renamed" => pc[q] = "renamed" \/ Rename(q)
             /\ \A p \in Procs : pc'[p] = "unnoting" => pc[p] = "unnoting"
  <2>1. CASE Rename(r)
    BY <2>1 DEF Rename
  <2>2. CASE SyncDirectory(r)
    BY <2>2 DEF SyncDirectory
  <2>3. CASE Open(r) \/ Sync(r) \/ Fail(r) \/ WriteNote(r) \/ NoSweep(r)
    BY <2>3 DEF Open, Sync, Fail, WriteNote, NoSweep
  <2>4. ASSUME NEW to \in {"prepared", "written"}, pc' = [pc EXCEPT ![r] = to]
        PROVE  \A p \in Procs : pc'[p] \in {"committed", "renamed", "unnoting"} => pc[p] = pc'[p]
    BY <2>4
  <2>5. QED
    BY <1>1, <2>1, <2>2, <2>3, <2>4 DEF RunStep, Prepare, Write
<1>2. ASSUME NEW p \in Prunes, PruneStep(p)
      PROVE  \A q \in Procs : pc'[q] \in {"committed", "renamed", "unnoting"} => pc[q] = pc'[q]
  BY <1>2 DEF PruneStep, Confirm, Decline
<1>3. ASSUME NEW p \in Procs, SweepStep(p) \/ Kill(p)
      PROVE  /\ \A q \in Runs : pc'[q] \in {"committed", "renamed"} => pc[q] = pc'[q]
             /\ \A q \in Procs : pc'[q] = "unnoting" /\ pc[q] # pc'[q] => DeleteArchive(q)
  BY <1>3 DEF SweepStep, List, Judge, DeleteArchive, DeleteNote, DeleteFails, SweepDone, Kill
<1>4. ASSUME PowerLoss \/ UNCHANGED vars
      PROVE  \A q \in Procs : pc'[q] \in {"committed", "renamed", "unnoting"} => pc[q] = pc'[q]
  BY <1>4 DEF PowerLoss, vars
<1>5. QED
  BY <1>1, <1>2, <1>3, <1>4 DEF Next

----------------------------------------------------------------------------
(* Entries, lists and notes.                                               *)

(* What earlier runs left is settled and truly noted.                      *)
LEMMA EntryInitially == Init => EntryInv
<1> SUFFICES ASSUME Init PROVE EntryInv
  OBVIOUS
<1> USE ArchivesAssumption
<1>1. \A n \in Stamps : final[n] # None => final[n] \in Old /\ name[final[n]] = n
  <2> SUFFICES ASSUME NEW n \in Stamps, final[n] # None
               PROVE  final[n] \in Old /\ name[final[n]] = n
    OBVIOUS
  <2>1. \E a \in Old : name[a] = n
    BY DEF Init
  <2>2. (CHOOSE a \in Old : name[a] = n) \in Old /\ name[CHOOSE a \in Old : name[a] = n] = n
    BY <2>1
  <2>3. QED
    BY <2>1, <2>2 DEF Init
<1>2. disk.final = final /\ disk.note = note
  BY DEF Init, Flushed
<1>3. OwnNotes(note)
  <2>1. \A n \in Stamps : note[n] # NoNote => final[n] # None /\ note[n] = NoteOf(final[n])
    BY DEF Init
  <2>2. QED
    BY <1>1, <2>1 DEF OwnNotes, Noted
<1>4. OwnNotes(disk.note)
  BY <1>2, <1>3
<1>5. SettledEntries(final) /\ SettledEntries(disk.final)
  BY <1>1, <1>2 DEF SettledEntries, Settled
<1>6. Listed = {} /\ \A p \in Procs : todo[p] = {} /\ pc[p] = "idle"
  BY DEF Init, Listed
<1>7. \A a \in Archives : missing[a] = "none" => holds[a]
  BY DEF Init
<1>8. QED
  BY <1>2, <1>3, <1>4, <1>5, <1>6, <1>7 DEF EntryInv, ListedSettled,
     ClaimsTrue, OwnIsSpared, HasNext, Judging

(* Only the run that renames its archive makes an entry, and that settles  *)
(* it.                                                                     *)
LEMMA EntriesStaySettled ==
  ASSUME TypeOK, PublishInv, EntryInv, [Next]_vars
  PROVE  SettledEntries(final)' /\ SettledEntries(disk.final)'
<1> USE DEF PublishInv
<1> DEFINE Fixed(a) == a \in Old \/ pc'[a] \notin BeforeRename
<1>1. \A a \in Archives : Settled(a) => Fixed(a)
  BY Lasting DEF Settled
<1>2. \A n \in Stamps : final[n] # None => Fixed(final[n])
  BY <1>1 DEF TypeOK, EntryInv, SettledEntries
<1>3. \A n \in Stamps : disk.final[n] # None => Fixed(disk.final[n])
  <2>1. disk.final \in [Stamps -> Archives \cup {None}]
    BY DEF TypeOK
  <2>2. QED
    BY <1>1, <2>1 DEF EntryInv, SettledEntries
<1>4. \A n \in Stamps : final'[n] # None => Fixed(final'[n])
  <2>1. CASE final' = final
    BY <1>2, <2>1
  <2>2. ASSUME NEW r \in Runs, Rename(r)
        PROVE  \A n \in Stamps : final'[n] # None => Fixed(final'[n])
    <3>1. name[r] \in Stamps /\ partial[name[r]] # None
      BY <2>2 DEF Rename, Progress, TypeOK
    <3>2. partial[name[r]] \in Archives /\ name[partial[name[r]]] = name[r]
      BY <3>1 DEF PointsHome, TypeOK
    <3>3. partial[name[r]] = r
      BY <3>1, <3>2, ArchivesAssumption DEF Unique
    <3>4. final' = [final EXCEPT ![name[r]] = r]
      BY <2>2, <3>3 DEF Rename
    <3>5. Fixed(r)
      BY <2>2 DEF Rename, TypeOK, BeforeRename
    <3> HIDE DEF Fixed
    <3>6. QED
      BY <1>2, <3>4, <3>5 DEF TypeOK
  <2>3. ASSUME NEW p \in Procs, DeleteArchive(p)
        PROVE  \A n \in Stamps : final'[n] # None => Fixed(final'[n])
    <3>1. final' = [final EXCEPT ![Max(todo[p])] = None]
      BY <2>3 DEF DeleteArchive
    <3> HIDE DEF Fixed
    <3>2. QED
      BY <1>2, <3>1 DEF TypeOK
  <2>4. CASE PowerLoss
    <3>1. \A n \in Stamps : final'[n] \in {final[n], disk.final[n]}
      BY <2>4, LossMixes
    <3> HIDE DEF Fixed
    <3>2. QED
      BY <1>2, <1>3, <3>1
  <2>5. QED
    BY <2>1, <2>2, <2>3, <2>4, Frames
<1>5. \A n \in Stamps : disk'.final[n] # None => Fixed(disk'.final[n])
  <2>1. disk' = disk \/ PowerLoss \/ (\E r \in Runs : SyncDirectory(r))
    BY Frames
  <2>2. disk'.final = disk.final \/ disk'.final = final \/ disk'.final = final'
    BY <2>1 DEF PowerLoss, SyncDirectory, Flushed
  <2> HIDE DEF Fixed
  <2>3. QED
    BY <1>2, <1>3, <1>4, <2>2
<1>6. QED
  BY <1>4, <1>5 DEF SettledEntries, Settled

(* Only a run writes a note, of its own archive, after its commit.         *)
LEMMA NotesStayOwn ==
  ASSUME TypeOK, PublishInv, EntryInv, [Next]_vars
  PROVE  OwnNotes(note)' /\ OwnNotes(disk.note)'
<1> DEFINE Own(said, n) == \E a \in Archives : name'[a] = n /\ Noted(a)' /\ said = NoteOf(a)'
<1>1. ASSUME NEW a \in Archives, Noted(a)
      PROVE  name'[a] = name[a] /\ Noted(a)' /\ NoteOf(a)' = NoteOf(a)
  BY <1>1, Lasting DEF NoteOf
<1>2. \A n \in Stamps : note[n] # NoNote => Own(note[n], n)
  BY <1>1 DEF EntryInv, OwnNotes
<1>3. \A n \in Stamps : disk.note[n] # NoNote => Own(disk.note[n], n)
  BY <1>1 DEF EntryInv, OwnNotes
<1>4. ASSUME \A n \in Stamps : note'[n] # NoNote => Own(note'[n], n)
      PROVE  OwnNotes(note)'
  BY <1>4 DEF OwnNotes
<1>5. ASSUME \A n \in Stamps : (disk.note)'[n] # NoNote => Own((disk.note)'[n], n)
      PROVE  OwnNotes(disk.note)'
  BY <1>5 DEF OwnNotes
<1>6. \A n \in Stamps : note'[n] # NoNote => Own(note'[n], n)
  <2>1. CASE note' = note
    BY <1>2, <2>1
  <2>2. ASSUME NEW r \in Runs, WriteNote(r)
        PROVE  \A n \in Stamps : note'[n] # NoNote => Own(note'[n], n)
    <3>1. PICK said \in {NoteOf(r), NoNote, note[name[r]]} :
             note' = [note EXCEPT ![name[r]] = said]
      BY <2>2 DEF WriteNote
    <3>2. /\ pc'[r] = "noted" /\ name' = name /\ missing' = missing /\ settings' = settings
      BY <2>2 DEF WriteNote, archive, TypeOK
    <3>3. Noted(r)' /\ NoteOf(r)' = NoteOf(r)
      BY <3>2 DEF Noted, BeforeNote, BeforeRename, NoteOf
    <3>4. Own(NoteOf(r), name[r])
      BY <3>2, <3>3
    <3>5. ASSUME NEW n \in Stamps, note'[n] # NoNote PROVE Own(note'[n], n)
      <4>1. note'[n] = IF n = name[r] THEN said ELSE note[n]
        BY <3>1 DEF TypeOK
      <4>2. CASE n = name[r] /\ said = NoteOf(r)
        BY <3>4, <4>1, <4>2
      <4>3. CASE n # name[r] \/ said = note[name[r]]
        BY <1>2, <3>5, <4>1, <4>3
      <4>4. QED
        BY <3>1, <3>5, <4>1, <4>2, <4>3
    <3>6. QED
      BY <3>5
  <2>3. ASSUME NEW p \in Procs, DeleteNote(p)
        PROVE  \A n \in Stamps : note'[n] # NoNote => Own(note'[n], n)
    <3>1. PICK said \in {NoNote, note[Max(todo[p])]} :
             note' = [note EXCEPT ![Max(todo[p])] = said]
      BY <2>3 DEF DeleteNote
    <3>2. \A n \in Stamps : note'[n] \in {NoNote, note[n]}
      BY <3>1 DEF TypeOK
    <3> HIDE DEF Own
    <3>3. QED
      BY <1>2, <3>2
  <2>4. CASE PowerLoss
    <3>1. \A n \in Stamps : note'[n] \in {note[n], disk.note[n]}
      BY <2>4, LossMixes
    <3> HIDE DEF Own
    <3>2. QED
      BY <1>2, <1>3, <3>1
  <2>5. QED
    BY <2>1, <2>2, <2>3, <2>4, Frames
<1>7. \A n \in Stamps : (disk.note)'[n] # NoNote => Own((disk.note)'[n], n)
  <2>1. disk' = disk \/ PowerLoss \/ (\E r \in Runs : SyncDirectory(r))
    BY Frames
  <2>2. (disk.note)' = disk.note \/ (disk.note)' = note \/ (disk.note)' = note'
    BY <2>1 DEF PowerLoss, SyncDirectory, Flushed
  <2> HIDE DEF Own
  <2>3. QED
    BY <1>2, <1>3, <1>6, <2>2
<1>8. QED
  BY <1>4, <1>5, <1>6, <1>7

(* A listing finds entries, and these are of settled archives.             *)
LEMMA ListsStaySettled ==
  ASSUME TypeOK, PublishInv, EntryInv, [Next]_vars
  PROVE  ListedSettled'
<1>1. \A n \in Listed : \E a \in Archives : name[a] = n /\ Settled(a)
  BY DEF EntryInv, ListedSettled
<1>2. \A n \in Present : \E a \in Archives : name[a] = n /\ Settled(a)
  BY DEF EntryInv, ListedSettled, SettledEntries, Present, PublishInv, PointsHome, TypeOK
<1>3. Listed' \subseteq Listed \cup Present
  BY ListSteps
<1>4. QED
  BY <1>1, <1>2, <1>3, Lasting DEF ListedSettled

(* A run that claims to have left nothing out has left nothing out.        *)
LEMMA ClaimsStayTrue ==
  ASSUME TypeOK, EntryInv, [Next]_vars
  PROVE  ClaimsTrue'
<1> USE DEF ClaimsTrue
<1>1. CASE missing' = missing /\ holds' = holds
  BY <1>1 DEF EntryInv
<1>2. ASSUME NEW r \in Runs, NEW dropped \in BOOLEAN, NEW h \in BOOLEAN,
             NEW sight \in {"Seen", "Guessed", "Blind"}, Write(r, dropped, sight, h)
      PROVE  \A a \in Archives : missing'[a] = "none" => holds'[a]
  <2>1. missing_of(dropped, sight) = "none" => h
    BY <1>2 DEF Write, missing_of
  <2>2. QED
    BY <1>2, <2>1 DEF Write, EntryInv, TypeOK
<1>3. \/ missing' = missing /\ holds' = holds
      \/ \E r \in Runs, dropped, h \in BOOLEAN, sight \in {"Seen", "Guessed", "Blind"} :
            Write(r, dropped, sight, h)
  <2> USE DEF archive
  <2>1. ASSUME NEW r \in Runs, RunStep(r)
        PROVE  \/ missing' = missing /\ holds' = holds
               \/ \E dropped, h \in BOOLEAN, sight \in {"Seen", "Guessed", "Blind"} :
                     Write(r, dropped, sight, h)
    BY <2>1 DEF RunStep, Prepare, Open, Sync, Rename, SyncDirectory, Fail, WriteNote, NoSweep
  <2>2. ASSUME NEW p \in Prunes, PruneStep(p) PROVE missing' = missing /\ holds' = holds
    BY <2>2 DEF PruneStep, Confirm, Decline
  <2>3. ASSUME NEW p \in Procs, SweepStep(p) \/ Kill(p)
        PROVE  missing' = missing /\ holds' = holds
    BY <2>3 DEF SweepStep, List, Judge, DeleteArchive, DeleteNote, DeleteFails, SweepDone, Kill
  <2>4. ASSUME PowerLoss \/ UNCHANGED vars PROVE missing' = missing /\ holds' = holds
    BY <2>4 DEF PowerLoss, vars
  <2>5. QED
    BY <2>1, <2>2, <2>3, <2>4 DEF Next
<1>4. QED
  BY <1>1, <1>2, <1>3

(* A run never has its own archive on its list, and deletes what is on it. *)
LEMMA SentencesStayFair ==
  ASSUME TypeOK, OwnIsSpared, HasNext, [Next]_vars
  PROVE  OwnIsSpared' /\ HasNext'
<1> USE ArchivesAssumption DEF TypeOK, OwnIsSpared, HasNext, Judging, archive
<1>1. ASSUME NEW r \in Runs, RunStep(r)
      PROVE  OwnIsSpared' /\ HasNext'
  <2>1. \A p \in Procs : pc'[p] \in Judging => pc'[p] = pc[p] /\ todo'[p] = todo[p]
    <3>1. ASSUME NEW n \in Stamps, Prepare(r, n)
          PROVE  \A p \in Procs : pc'[p] \in Judging => pc'[p] = pc[p] /\ todo'[p] = todo[p]
      BY <3>1 DEF Prepare
    <3>2. ASSUME NEW dropped \in BOOLEAN, NEW h \in BOOLEAN,
                 NEW sight \in {"Seen", "Guessed", "Blind"},
                 Write(r, dropped, sight, h)
          PROVE  \A p \in Procs : pc'[p] \in Judging => pc'[p] = pc[p] /\ todo'[p] = todo[p]
      BY <3>2 DEF Write
    <3>3. CASE Open(r) \/ Sync(r) \/ Rename(r)
      BY <3>3 DEF Open, Sync, Rename
    <3>4. CASE SyncDirectory(r) \/ Fail(r)
      BY <3>4 DEF SyncDirectory, Fail
    <3>5. CASE WriteNote(r) \/ NoSweep(r)
      BY <3>5 DEF WriteNote, NoSweep
    <3>6. QED
      BY <1>1, <3>1, <3>2, <3>3, <3>4, <3>5 DEF RunStep
  <2>2. \A q \in Runs : pc[q] \in Judging => name'[q] = name[q]
    BY <1>1 DEF RunStep, Prepare, Open, Write, Sync, Rename, SyncDirectory, Fail, WriteNote, NoSweep
  <2>3. QED
    BY <2>1, <2>2
<1>2. ASSUME NEW p \in Prunes, PruneStep(p)
      PROVE  OwnIsSpared' /\ HasNext'
  BY <1>2 DEF PruneStep, Confirm, Decline
<1>3. ASSUME NEW p \in Procs, SweepStep(p) \/ Kill(p)
      PROVE  OwnIsSpared' /\ HasNext'
  <2>1. CASE List(p)
    BY <2>1 DEF List
  <2>2. ASSUME NEW keep \in Keeps, Judge(p, keep)
        PROVE  OwnIsSpared' /\ HasNext'
    <3>1. p \in Runs => name[p] \notin Condemned(p, keep)
      BY DEF Condemned
    <3>2. QED
      BY <2>2, <3>1 DEF Judge
  <2>3. CASE DeleteArchive(p)
    BY <2>3 DEF DeleteArchive
  <2>4. CASE DeleteNote(p)
    BY <2>4 DEF DeleteNote
  <2>5. CASE DeleteFails(p) \/ SweepDone(p) \/ Kill(p)
    BY <2>5 DEF DeleteFails, SweepDone, Kill
  <2>6. QED
    BY <1>3, <2>1, <2>2, <2>3, <2>4, <2>5 DEF SweepStep
<1>4. CASE PowerLoss
  BY <1>4 DEF PowerLoss
<1>5. CASE UNCHANGED vars
  BY <1>5 DEF vars
<1>6. QED
  BY <1>1, <1>2, <1>3, <1>4, <1>5 DEF Next

(* No step breaks what notes and sweeps go by.                             *)
LEMMA EntryStep ==
  ASSUME TypeOK, PublishInv, EntryInv, [Next]_vars
  PROVE  EntryInv'
BY EntriesStaySettled, ListsStaySettled, NotesStayOwn, ClaimsStayTrue, SentencesStayFair DEF EntryInv

----------------------------------------------------------------------------
(* The newest complete archive.                                            *)

(* A rename shows the run's own file under the run's own name.             *)
LEMMA RenameHome ==
  ASSUME TypeOK, PublishInv, NEW r \in Runs, Rename(r)
  PROVE  name[r] \in Stamps /\ final' = [final EXCEPT ![name[r]] = r]
<1> USE DEF PublishInv
<1>1. name[r] \in Stamps /\ partial[name[r]] # None
  BY DEF Rename, Progress, TypeOK
<1>2. partial[name[r]] \in Archives /\ name[partial[name[r]]] = name[r]
  BY <1>1 DEF PointsHome, TypeOK
<1>3. partial[name[r]] = r
  BY <1>1, <1>2, ArchivesAssumption DEF Unique
<1>4. QED
  BY <1>1, <1>3 DEF Rename

(* What a sweep deletes was sentenced.                                     *)
LEMMA DeletesSentenced ==
  ASSUME TypeOK, NEW p \in Procs, DeleteArchive(p)
  PROVE  /\ Max(todo[p]) \in Sentenced \cap todo[p] /\ Max(todo[p]) \in Stamps
         /\ final' = [final EXCEPT ![Max(todo[p])] = None]
<1>1. todo[p] \in SUBSET Stamps /\ todo[p] # {} /\ pc[p] \in Judging
  BY DEF DeleteArchive, TypeOK, Judging
<1>2. Max(todo[p]) \in todo[p]
  BY <1>1, MaxOf
<1>3. QED
  BY <1>1, <1>2 DEF DeleteArchive, Sentenced

(* An archive kept as complete stays so, and what it surpasses stays       *)
(* surpassed.                                                              *)
LEMMA KeptLasts ==
  ASSUME TypeOK, Promises, [Next]_vars
  PROVE  /\ \A a \in Archives : KeptAs(a) => KeptAs(a)' /\ name'[a] = name[a]
         /\ \A n : Surpassed(n) => \E a \in Archives : KeptAs(a)' /\ name'[a] > n
<1>1. promised \subseteq promised'
  BY Frames DEF SyncDirectory
<1>2. \A a \in Archives : KeptAs(a) => KeptAs(a)' /\ name'[a] = name[a]
  BY <1>1, Lasting DEF Promises, KeptAs
<1>3. QED
  BY <1>2 DEF Surpassed

(* Without a warning, a run past its commit has reached the disk.          *)
LEMMA PromisesStay ==
  ASSUME TypeOK, PublishInv, Promises, [Next]_vars, ~warned'
  PROVE  Promises'
<1>1. \A a \in Archives : Settled(a) => Settled(a)' /\ name'[a] = name[a]
  BY Lasting
<1>2. ASSUME NEW r \in Runs, SyncDirectory(r)
      PROVE  /\ promised' = promised \cup {r}
             /\ Settled(r) /\ name[r] # None
  BY <1>2 DEF SyncDirectory, Settled, BeforeRename, PublishInv, Progress
<1>3. promised' = promised \/ \E r \in Runs : SyncDirectory(r)
  BY Frames
<1>4. \A a \in promised' : Settled(a) /\ name[a] # None /\ a \in Archives
  BY <1>2, <1>3 DEF Promises, TypeOK
<1>5. \A a \in promised' : Settled(a)' /\ name'[a] # None
  BY <1>1, <1>4
<1>6. \A r \in Runs : pc'[r] = "committed" => r \in promised'
  BY <1>2, <1>3, WhoStepped DEF Promises
<1>7. QED
  BY <1>5, <1>6 DEF Promises

(* A note that says `none` is beside an archive that has reached the disk. *)
LEMMA PromisedNotesStay ==
  ASSUME TypeOK, Promises, PromisedNotes(note), PromisedNotes(disk.note), [Next]_vars
  PROVE  PromisedNotes(note)' /\ PromisedNotes(disk.note)'
<1> DEFINE Kept(said, n) == said.missing = "none" => \E a \in Archives : KeptAs(a)' /\ name'[a] = n
<1>1. \A n \in Stamps : Kept(note[n], n) /\ Kept(disk.note[n], n)
  BY KeptLasts DEF PromisedNotes
<1>2. \A n \in Stamps : Kept(note'[n], n)
  <2>1. ASSUME NEW r \in Runs, WriteNote(r), NEW n \in Stamps
        PROVE  Kept(note'[n], n)
    <3>1. PICK said \in {NoteOf(r), NoNote, note[name[r]]} :
             note' = [note EXCEPT ![name[r]] = said]
      BY <2>1 DEF WriteNote
    <3>2. note'[n] = IF n = name[r] THEN said ELSE note[n]
      BY <3>1 DEF TypeOK
    <3>3. Kept(NoteOf(r), name[r])
      <4>1. r \in promised
        BY <2>1 DEF WriteNote, Promises
      <4>2. missing[r] = "none" => KeptAs(r)
        BY <4>1 DEF KeptAs
      <4>3. NoteOf(r).missing = missing[r]
        BY DEF NoteOf
      <4>4. QED
        BY <4>2, <4>3, KeptLasts
    <3>4. Kept(NoNote, n)
      BY DEF NoNote
    <3> HIDE DEF Kept
    <3>5. CASE n = name[r] /\ said = NoteOf(r)
      BY <3>2, <3>3, <3>5
    <3>6. CASE said = NoNote
      BY <1>1, <3>2, <3>4, <3>6
    <3>7. CASE n # name[r] \/ said = note[name[r]]
      BY <1>1, <3>2, <3>7
    <3>8. QED
      BY <3>1, <3>5, <3>6, <3>7
  <2>2. ASSUME NEW p \in Procs, DeleteNote(p), NEW n \in Stamps
        PROVE  Kept(note'[n], n)
    <3>1. note'[n] \in {NoNote, note[n]}
      BY <2>2 DEF DeleteNote, TypeOK
    <3>2. Kept(NoNote, n)
      BY DEF NoNote
    <3> HIDE DEF Kept
    <3>3. QED
      BY <1>1, <3>1, <3>2
  <2>3. ASSUME PowerLoss, NEW n \in Stamps
        PROVE  Kept(note'[n], n)
    <3>1. note'[n] \in {note[n], disk.note[n]}
      BY <2>3, LossMixes
    <3> HIDE DEF Kept
    <3>2. QED
      BY <1>1, <3>1
  <2>4. ASSUME note' = note, NEW n \in Stamps
        PROVE  Kept(note'[n], n)
    <3> HIDE DEF Kept
    <3>1. QED
      BY <1>1, <2>4
  <2> HIDE DEF Kept
  <2>5. QED
    BY <2>1, <2>2, <2>3, <2>4, Frames
<1>3. \A n \in Stamps : Kept(disk'.note[n], n)
  <2>1. disk' = disk \/ PowerLoss \/ (\E r \in Runs : SyncDirectory(r))
    BY Frames
  <2>2. disk'.note = disk.note \/ disk'.note = note \/ disk'.note = note'
    BY <2>1 DEF PowerLoss, SyncDirectory, Flushed
  <2> HIDE DEF Kept
  <2>3. QED
    BY <1>1, <1>2, <2>2
<1>4. QED
  BY <1>2, <1>3 DEF PromisedNotes

(* `fates` always searches for something.                                  *)
LEMMA SearchIsMade ==
  ASSUME NEW shown PROVE Searches(shown) # {}
BY DEF Searches

(* What is condemned, and is not known to be incomplete, is condemned      *)
(* because of a newer archive known to be complete, for the same settings  *)
(* if it is.                                                               *)
LEMMA DoomedForNewer ==
  ASSUME TypeOK, NEW p \in Procs, NEW keep \in Keeps, NEW n \in Condemned(p, keep),
         note[n].missing # "some"
  PROVE  \E m \in todo[p] : /\ m > n /\ note[m].missing = "none"
                            /\ note[n].missing = "none" => note[m] = note[n]
<1> DEFINE L == Judged(p)
<1>1. n \in todo[p] /\ n \in Stamps /\ DOMAIN L = todo[p] /\ todo[p] \subseteq Stamps
  BY DEF Condemned, Doomed, Judged, TypeOK
<1>2. \A m \in todo[p] : L[m] = in_note(note[m]) /\ note[m] \in Note
  BY <1>1 DEF Judged, TypeOK
<1>3. \A m \in todo[p] : L[m] = Unknown \/ (L[m].is # "Complete" /\ note[m].missing = "some")
                          \/ (L[m] = Complete(note[m].settings) /\ note[m].settings \in Settings
                              /\ note[m].missing = "none")
  <2> SUFFICES ASSUME NEW said \in Note
               PROVE  \/ in_note(said) = Unknown
                      \/ in_note(said).is # "Complete" /\ said.missing = "some"
                      \/ /\ in_note(said) = Complete(said.settings)
                         /\ said.settings \in Settings /\ said.missing = "none"
    BY <1>2
  <2>1. said = NoNote \/ said \in [missing : {"none", "some"}, settings : Settings]
    BY DEF Note
  <2>2. CASE said = NoNote
    BY <2>2 DEF in_note, NoNote
  <2>3. CASE said \in [missing : {"none", "some"}, settings : Settings]
    <3>1. said.settings \in Settings /\ said.missing \in {"none", "some"}
      BY <2>3
    <3>2. CASE said.missing = "none"
      BY <3>1, <3>2 DEF in_note
    <3>3. CASE said.missing = "some"
      BY <3>3 DEF in_note, Incomplete
    <3>4. QED
      BY <3>1, <3>2, <3>3
  <2>4. QED
    BY <2>1, <2>2, <2>3
<1>4. \A wanted \in Searches(L) : ~Spares(L, wanted, n)
  <2>1. n \in Doomed(L, keep)
    BY DEF Condemned
  <2> HIDE DEF L
  <2>2. QED
    BY <2>1 DEF Doomed, fates
<1>5. \E wanted \in Searches(L) : L[n] \in {Complete(wanted), Unknown}
  <2>1. CASE L[n] = Unknown
    BY <2>1, SearchIsMade
  <2>2. CASE L[n] = Complete(note[n].settings) /\ note[n].settings \in Settings
    <3>1. note[n].settings \in KnownSettings(L)
      BY <1>1, <2>2 DEF KnownSettings
    <3> HIDE DEF L
    <3>2. note[n].settings \in Searches(L)
      BY <3>1 DEF Searches
    <3>3. QED
      BY <2>2, <3>2
  <2>3. QED
    BY <1>1, <1>3, <2>1, <2>2
<1>6. PICK wanted \in Searches(L) : L[n] \in {Complete(wanted), Unknown}
  BY <1>5
<1>7. PICK m \in Newer(L, n) : L[m] = Complete(wanted)
  BY <1>4, <1>6 DEF Spares
<1>8. m \in todo[p] /\ m > n /\ L[m].is = "Complete" /\ L[m] # Unknown
  BY <1>1, <1>7 DEF Newer, Complete, Unknown
<1>9. L[m] = Complete(note[m].settings) /\ note[m].missing = "none"
  BY <1>3, <1>8
<1>10. ASSUME note[n].missing = "none" PROVE note[m] = note[n]
  <2>1. L[n] = Complete(note[n].settings) /\ L[n] # Unknown
    <3>1. L[n] # Unknown
      <4>1. in_note(note[n]) = Complete(note[n].settings)
        BY <1>10 DEF in_note
      <4>2. Complete(note[n].settings).is = "Complete" /\ Unknown.is = "Unknown"
        BY DEF Complete, Unknown
      <4>3. QED
        BY <1>1, <1>2, <4>1, <4>2
    <3>2. QED
      BY <1>1, <1>3, <1>10, <3>1
  <2>2. Complete(note[n].settings) = Complete(note[m].settings)
    BY <1>6, <1>7, <1>9, <2>1
  <2>3. note[n].settings = note[m].settings
    BY <2>2 DEF Complete
  <2>4. /\ note[n] \in [missing : {"none", "some"}, settings : Settings]
        /\ note[m] \in [missing : {"none", "some"}, settings : Settings]
    BY <1>1, <1>2, <1>8, <1>9, <1>10 DEF Note, NoNote
  <2>5. QED
    BY <1>9, <1>10, <2>3, <2>4
<1>11. QED
  BY <1>8, <1>9, <1>10

(* A complete archive is sentenced only when a newer one is kept.          *)
LEMMA SentencedStay ==
  ASSUME TypeOK, PublishInv, PublishInv', EntryInv, Promises, PromisedNotes(note),
         SentencedSurpassed, [Next]_vars
  PROVE  SentencedSurpassed'
<1> SUFFICES ASSUME NEW a \in Archives, missing'[a] = "none", name'[a] \in Sentenced'
             PROVE  \E b \in Archives : KeptAs(b)' /\ name'[b] > name'[a]
  BY DEF SentencedSurpassed, Surpassed
<1> DEFINE n == name'[a]
<1>1. n \in Sentenced \/ \E p \in Procs, keep \in Keeps : n \in Condemned(p, keep)
  BY ListSteps
<1>2. n \in Listed /\ n \in Stamps
  <2>1. \A p \in Procs, keep \in Keeps : Condemned(p, keep) \subseteq todo[p]
    BY DEF Condemned, Doomed, Judged
  <2>2. Sentenced \subseteq Listed /\ \A p \in Procs : todo[p] \subseteq Listed
    BY DEF Sentenced, Listed
  <2>3. Listed \subseteq Stamps
    BY DEF Listed, TypeOK
  <2>4. QED
    BY <1>1, <2>1, <2>2, <2>3
<1>3. PICK b \in Archives : name[b] = n /\ Settled(b)
  BY <1>2 DEF EntryInv, ListedSettled
<1>4. name'[b] = n
  BY <1>3, Lasting
<1>5. a = b
  BY <1>2, <1>4, ArchivesAssumption DEF PublishInv, Unique
<1>6. Settled(a) /\ name[a] = n /\ missing[a] = "none"
  BY <1>3, <1>5, Lasting
<1>7. CASE n \in Sentenced
  BY <1>6, <1>7, KeptLasts DEF SentencedSurpassed
<1>8. ASSUME NEW p \in Procs, NEW keep \in Keeps, n \in Condemned(p, keep)
      PROVE  Surpassed(n)
  <2>1. note[n].missing # "some"
    <3>1. CASE note[n] = NoNote
      BY <3>1 DEF NoNote
    <3>2. CASE note[n] # NoNote
      <4>1. PICK c \in Archives : name[c] = n /\ note[n] = NoteOf(c)
        BY <1>2, <3>2 DEF EntryInv, OwnNotes
      <4>2. c = a
        BY <1>2, <1>6, <4>1, ArchivesAssumption DEF PublishInv, Unique
      <4>3. QED
        BY <1>6, <4>1, <4>2 DEF NoteOf
    <3>3. QED
      BY <3>1, <3>2
  <2>2. PICK m \in todo[p] : m > n /\ note[m].missing = "none"
    BY <1>8, <2>1, DoomedForNewer
  <2>3. m \in Stamps
    BY <2>2 DEF TypeOK
  <2>4. QED
    BY <2>2, <2>3 DEF PromisedNotes, Surpassed
<1>9. QED
  BY <1>1, <1>7, <1>8, KeptLasts

(* Between its rename and its commit a complete archive stays, or is       *)
(* surpassed.                                                              *)
LEMMA RenamedStaysThere ==
  ASSUME TypeOK, PublishInv, EntryInv, Promises, SentencedSurpassed, RenamedThere, [Next]_vars
  PROVE  RenamedThere'
<1> SUFFICES ASSUME NEW r \in Runs, pc'[r] = "renamed", missing'[r] = "none"
             PROVE  \/ final'[name'[r]] = r
                    \/ \E b \in Archives : KeptAs(b)' /\ name'[b] > name'[r]
  BY DEF RenamedThere, Surpassed
<1>1. pc[r] = "renamed" \/ Rename(r)
  BY WhoStepped
<1>2. CASE Rename(r)
  <2>1. name' = name
    BY <1>2 DEF Rename, archive
  <2>2. final'[name[r]] = r
    <3>1. name[r] \in Stamps /\ final' = [final EXCEPT ![name[r]] = r]
      BY <1>2, RenameHome
    <3>2. final \in [Stamps -> Archives \cup {None}]
      BY DEF TypeOK
    <3>3. QED
      BY <3>1, <3>2
  <2>3. QED
    BY <2>1, <2>2
<1>3. CASE pc[r] = "renamed"
  <2>1. name'[r] = name[r] /\ missing[r] = "none" /\ name[r] \in Stamps
    BY <1>3, Lasting DEF Settled, BeforeRename, PublishInv, Progress, TypeOK
  <2>2. final \in [Stamps -> Archives \cup {None}]
    BY DEF TypeOK
  <2>3. CASE Surpassed(name[r])
    BY <2>1, <2>3, KeptLasts
  <2>4. CASE final[name[r]] = r /\ ~Surpassed(name[r])
    <3>1. CASE final' = final
      BY <2>1, <2>4, <3>1
    <3>2. ASSUME NEW q \in Runs, Rename(q) PROVE final'[name[r]] = r
      <4>1. q # r
        BY <1>3, <3>2 DEF Rename
      <4>2. name[q] # name[r]
        BY <2>1, <4>1, ArchivesAssumption DEF PublishInv, Unique
      <4>3. QED
        BY <2>1, <2>2, <2>4, <3>2, <4>2, RenameHome
    <3>3. ASSUME NEW p \in Procs, DeleteArchive(p) PROVE final'[name[r]] = r
      <4>1. Max(todo[p]) # name[r]
        BY <2>1, <2>4, <3>3, DeletesSentenced DEF SentencedSurpassed
      <4>2. QED
        BY <2>1, <2>2, <2>4, <3>3, <4>1, DeletesSentenced
    <3>4. ~PowerLoss
      BY <1>3 DEF PowerLoss, TypeOK
    <3>5. QED
      BY <2>1, <3>1, <3>2, <3>3, <3>4, Frames
  <2>5. QED
    BY <1>3, <2>1, <2>3, <2>4 DEF RenamedThere
<1>4. QED
  BY <1>1, <1>2, <1>3

(* A kept archive that nothing surpasses stays, in memory and on disk.     *)
LEMMA KeptStaysThere ==
  ASSUME TypeOK, PublishInv, EntryInv, Promises, SentencedSurpassed, RenamedThere, KeptThere,
         [Next]_vars, ~warned'
  PROVE  KeptThere'
<1> SUFFICES ASSUME NEW a \in Archives, KeptAs(a)',
                    ~ \E b \in Archives : KeptAs(b)' /\ name'[b] > name'[a]
             PROVE  final'[name'[a]] = a /\ disk'.final[name'[a]] = a
  BY DEF KeptThere, Surpassed
<1>1. CASE KeptAs(a)
  <2>1. name'[a] = name[a] /\ name[a] \in Stamps
    BY <1>1, KeptLasts DEF Promises, KeptAs, TypeOK
  <2>2. ~Surpassed(name[a])
    BY <2>1, KeptLasts
  <2>3. final[name[a]] = a /\ disk.final[name[a]] = a
    BY <1>1, <2>2 DEF KeptThere
  <2>4. final'[name[a]] = a
    <3>1. final \in [Stamps -> Archives \cup {None}]
      BY DEF TypeOK
    <3>2. CASE final' = final
      BY <2>3, <3>2
    <3>3. ASSUME NEW r \in Runs, Rename(r) PROVE final'[name[a]] = a
      <4>1. name[r] = name[a] => r = a
        BY <2>1, ArchivesAssumption DEF PublishInv, Unique
      <4>2. QED
        BY <2>1, <2>3, <3>1, <3>3, <4>1, RenameHome
    <3>4. ASSUME NEW p \in Procs, DeleteArchive(p) PROVE final'[name[a]] = a
      <4>1. Max(todo[p]) # name[a]
        BY <1>1, <2>2, <3>4, DeletesSentenced DEF SentencedSurpassed, KeptAs
      <4>2. final' = [final EXCEPT ![Max(todo[p])] = None]
        BY <3>4 DEF DeleteArchive
      <4>3. QED
        BY <2>1, <2>3, <3>1, <4>1, <4>2
    <3>5. CASE PowerLoss
      <4>1. final'[name[a]] \in {final[name[a]], disk.final[name[a]]}
        BY <2>1, <3>5, LossMixes
      <4>2. QED
        BY <2>3, <4>1
    <3>6. QED
      BY <3>2, <3>3, <3>4, <3>5, Frames
  <2>5. disk'.final = disk.final \/ disk'.final = final \/ disk'.final = final'
    <3>1. disk' = disk \/ PowerLoss \/ (\E r \in Runs : SyncDirectory(r))
      BY Frames
    <3>2. QED
      BY <3>1 DEF PowerLoss, SyncDirectory, Flushed
  <2>6. QED
    BY <2>1, <2>3, <2>4, <2>5
<1>2. CASE ~KeptAs(a)
  <2>1. a \notin promised
    BY <1>2, Lasting DEF Promises, KeptAs
  <2>2. PICK r \in Runs : SyncDirectory(r) /\ a \in promised'
    BY <2>1, Frames DEF KeptAs
  <2>3. a = r
    BY <2>1, <2>2 DEF SyncDirectory
  <2>4. /\ disk'.final = final /\ final' = final /\ name' = name
        /\ pc[a] = "renamed" /\ missing' = missing
    BY <2>2, <2>3 DEF SyncDirectory, Flushed, archive, directory
  <2>5. final[name[a]] = a \/ Surpassed(name[a])
    BY <2>2, <2>3, <2>4 DEF RenamedThere, KeptAs
  <2>6. QED
    BY <2>4, <2>5, KeptLasts
<1>3. QED
  BY <1>1, <1>2

(* No step breaks what keeps the newest complete archive.                  *)
LEMMA KeptStep ==
  ASSUME ~SharedNames, TypeOK, PublishInv, PublishInv', EntryInv, KeptInv, [Next]_vars
  PROVE  KeptInv'
<1> SUFFICES ASSUME ~warned'
             PROVE  /\ Promises' /\ PromisedNotes(note)' /\ PromisedNotes(disk.note)'
                    /\ SentencedSurpassed' /\ RenamedThere' /\ KeptThere'
  BY DEF KeptInv
<1>1. ~warned
  BY Frames
<1>2. QED
  BY <1>1, PromisesStay, PromisedNotesStay, SentencedStay, RenamedStaysThere, KeptStaysThere
     DEF KeptInv

----------------------------------------------------------------------------
(* What stands in for a complete archive that goes.                        *)

(* An archive whose run has yet to write its note has none.                *)
LEMMA UnnotedSaysNothing ==
  ASSUME TypeOK, PublishInv, EntryInv, NEW r \in Runs,
         pc[r] \in {"synced", "renamed", "committed"}
  PROVE  name[r] \in Stamps /\ note[name[r]] = NoNote
<1>1. name[r] \in Stamps
  BY DEF PublishInv, Progress, TypeOK
<1>2. ASSUME NEW a \in Archives, name[a] = name[r], Noted(a) PROVE FALSE
  <2>1. a = r
    BY <1>1, <1>2, ArchivesAssumption DEF PublishInv, Unique
  <2>2. QED
    BY <1>2, <2>1, ArchivesAssumption DEF Noted, BeforeNote, BeforeRename
<1>3. QED
  BY <1>1, <1>2 DEF EntryInv, OwnNotes

(* What is sentenced was listed.                                           *)
LEMMA SentencedListed ==
  ASSUME TypeOK, [Next]_vars
  PROVE  /\ Sentenced \subseteq Listed /\ Sentenced' \subseteq Listed /\ Listed \subseteq Stamps
         /\ \A p \in Procs, keep \in Keeps : Condemned(p, keep) \subseteq todo[p]
<1>1. \A p \in Procs, keep \in Keeps : Condemned(p, keep) \subseteq todo[p]
  BY DEF Condemned, Doomed, Judged
<1>2. Sentenced \subseteq Listed /\ \A p \in Procs : todo[p] \subseteq Listed
  BY DEF Sentenced, Listed
<1>3. Listed \subseteq Stamps
  BY DEF Listed, TypeOK
<1>4. QED
  BY <1>1, <1>2, <1>3, ListSteps

(* Nobody sentences an archive before its note is written, or is unsure of *)
(* it.                                                                     *)
LEMMA UnnotedStay ==
  ASSUME TypeOK, PublishInv, EntryInv, UnnotedStands, [Next]_vars, ~unsure'
  PROVE  UnnotedStands'
<1> SUFFICES ASSUME NEW r \in Runs, pc'[r] \in {"renamed", "committed"}
             PROVE  final'[name'[r]] = r /\ name'[r] \notin Sentenced'
  BY DEF UnnotedStands
<1>1. final \in [Stamps -> Archives \cup {None}]
  BY DEF TypeOK
<1>2. CASE Rename(r)
  <2>1. name[r] \in Stamps /\ final' = [final EXCEPT ![name[r]] = r]
    BY <1>2, RenameHome
  <2>2. name' = name /\ pc[r] = "synced"
    BY <1>2 DEF Rename, archive
  <2>3. name[r] \notin Listed
    <3>1. ASSUME NEW b \in Archives, name[b] = name[r], Settled(b) PROVE FALSE
      <4>1. b = r
        BY <2>1, <3>1, ArchivesAssumption DEF PublishInv, Unique
      <4>2. QED
        BY <2>2, <3>1, <4>1, ArchivesAssumption DEF Settled, BeforeRename
    <3>2. QED
      BY <3>1 DEF EntryInv, ListedSettled
  <2>4. QED
    BY <1>1, <2>1, <2>2, <2>3, SentencedListed
<1>3. CASE pc[r] \in {"renamed", "committed"}
  <2>1. final[name[r]] = r /\ name[r] \notin Sentenced
    BY <1>3 DEF UnnotedStands
  <2>2. name'[r] = name[r] /\ name[r] \in Stamps /\ note[name[r]] = NoNote
    BY <1>3, Lasting, UnnotedSaysNothing DEF Settled, BeforeRename
  <2>3. final'[name[r]] = r
    <3>1. CASE final' = final
      BY <2>1, <3>1
    <3>2. ASSUME NEW q \in Runs, Rename(q) PROVE final'[name[r]] = r
      <4>1. name[q] = name[r] => q = r
        BY <2>2, ArchivesAssumption DEF PublishInv, Unique
      <4>2. QED
        BY <1>1, <2>1, <2>2, <3>2, <4>1, RenameHome
    <3>3. ASSUME NEW p \in Procs, DeleteArchive(p) PROVE final'[name[r]] = r
      BY <1>1, <2>1, <2>2, <3>3, DeletesSentenced
    <3>4. ~PowerLoss
      BY <1>3 DEF PowerLoss, TypeOK
    <3>5. QED
      BY <3>1, <3>2, <3>3, <3>4, Frames
  <2>4. ASSUME NEW p \in Procs, NEW keep \in Keeps, Judge(p, keep) 
        PROVE  name[r] \notin Condemned(p, keep)
    <3>1. ASSUME name[r] \in Condemned(p, keep) PROVE FALSE
      <4>1. name[r] \in todo[p]
        BY <3>1, SentencedListed
      <4>2. Judged(p)[name[r]] = Unknown
        BY <2>2, <4>1 DEF Judged, in_note, NoNote
      <4>3. unsure'
        BY <2>4, <3>1, <4>2 DEF Judge
      <4>4. QED
        BY <4>3
    <3>2. QED
      BY <3>1
  <2>5. QED
    BY <2>1, <2>2, <2>3, <2>4, ListSteps
<1>4. pc[r] \in {"renamed", "committed"} \/ Rename(r)
  BY WhoStepped DEF SyncDirectory
<1>5. QED
  BY <1>2, <1>3, <1>4

(* The only new candidate is one whose note was just written, ...          *)
LEMMA FewNewCandidates ==
  ASSUME TypeOK, PublishInv, EntryInv, [Next]_vars, ~PowerLoss,
         NEW s \in Settings, NEW n \in Candidates(s)'
  PROVE  n \in Candidates(s) \/ \E r \in Runs : WriteNote(r) /\ n = name[r]
<1>1. n \in Stamps /\ (n \in Present' \/ n \in Listed')
  <2>1. Present' \subseteq Stamps /\ Present \subseteq Stamps
    BY DEF Present
  <2>2. QED
    BY <2>1, ListSteps, SentencedListed DEF Candidates
<1>2. note'[n] = [missing |-> "none", settings |-> s]
  BY DEF Candidates, SaysComplete
<1>3. note'[n] = note[n] \/ \E r \in Runs : WriteNote(r) /\ n = name[r]
  <2>1. ASSUME NEW r \in Runs, WriteNote(r), n # name[r] PROVE note'[n] = note[n]
    BY <1>1, <2>1 DEF WriteNote, TypeOK
  <2>2. ASSUME NEW p \in Procs, DeleteNote(p) PROVE note'[n] = note[n]
    <3>1. note'[n] \in {NoNote, note[n]}
      BY <1>1, <2>2 DEF DeleteNote, TypeOK
    <3>2. note'[n] # NoNote
      BY <1>2 DEF NoNote
    <3>3. QED
      BY <3>1, <3>2
  <2>3. QED
    BY <2>1, <2>2, Frames
<1>4. ASSUME note'[n] = note[n] PROVE n \in Present \cup Listed
  <2>1. ASSUME n \in Present', n \notin Present PROVE FALSE
    <3>1. final'[n] # None /\ final[n] = None
      BY <1>1, <2>1 DEF Present
    <3>2. ASSUME NEW p \in Procs, DeleteArchive(p) PROVE FALSE
      BY <1>1, <3>1, <3>2 DEF DeleteArchive, TypeOK
    <3>3. PICK r \in Runs : Rename(r)
      BY <3>1, <3>2, Frames
    <3>4. n = name[r] /\ pc[r] = "synced"
      <4>1. final \in [Stamps -> Archives \cup {None}]
        BY DEF TypeOK
      <4>2. n = name[r]
        BY <1>1, <3>1, <3>3, <4>1, RenameHome
      <4>3. QED
        BY <3>3, <4>2 DEF Rename
    <3>5. note[n] = NoNote
      BY <3>4, UnnotedSaysNothing
    <3>6. QED
      BY <1>2, <1>4, <3>5 DEF NoNote
  <2>2. QED
    BY <1>1, <2>1, ListSteps
<1>5. QED
  BY <1>2, <1>3, <1>4 DEF Candidates, SaysComplete

(* ... and the newest of the old ones stays a candidate that nobody        *)
(* sentences.                                                              *)
LEMMA NewestOutlives ==
  ASSUME TypeOK, PublishInv, EntryInv, [Next]_vars, ~PowerLoss,
         NEW s \in Settings, NEW k \in Candidates(s),
         k \in Present \ Sentenced, \A n \in Candidates(s) : n <= k
  PROVE  k \in Candidates(s)' /\ k \in Present' \ Sentenced'
<1>1. k \in Stamps /\ final[k] # None /\ note[k] = [missing |-> "none", settings |-> s]
  BY DEF Present, Candidates, SaysComplete
<1>2. final \in [Stamps -> Archives \cup {None}] /\ note \in [Stamps -> Note]
  BY DEF TypeOK
<1>3. final'[k] # None
  <2>1. ASSUME NEW r \in Runs, Rename(r) PROVE final'[k] # None
    BY <1>1, <1>2, <2>1, RenameHome, ArchivesAssumption
  <2>2. ASSUME NEW p \in Procs, DeleteArchive(p) PROVE final'[k] # None
    BY <1>1, <1>2, <2>2, DeletesSentenced
  <2>3. QED
    BY <1>1, <2>1, <2>2, Frames
<1>4. note'[k] = note[k]
  <2>1. ASSUME NEW r \in Runs, WriteNote(r) PROVE note'[k] = note[k]
    <3>1. name[r] # k
      BY <1>1, <2>1, UnnotedSaysNothing DEF WriteNote, NoNote
    <3>2. QED
      BY <1>1, <1>2, <2>1, <3>1 DEF WriteNote
  <2>2. ASSUME NEW p \in Procs, DeleteNote(p) PROVE note'[k] = note[k]
    <3>1. todo[p] \in SUBSET Stamps /\ todo[p] # {} /\ pc[p] \in Judging
      BY <2>2 DEF DeleteNote, TypeOK, Judging, EntryInv, HasNext
    <3>2. Max(todo[p]) \in Sentenced
      BY <3>1, MaxOf DEF Sentenced
    <3>3. QED
      BY <1>1, <1>2, <2>2, <3>2 DEF DeleteNote
  <2>3. QED
    BY <2>1, <2>2, Frames
<1>5. k \notin Sentenced'
  <2>1. ASSUME NEW p \in Procs, NEW keep \in Keeps, k \in Condemned(p, keep) PROVE FALSE
    <3>1. PICK m \in todo[p] : m > k /\ note[m] = note[k]
      BY <1>1, <2>1, DoomedForNewer
    <3>2. m \in Candidates(s) /\ m \in Stamps
      BY <1>1, <3>1, SentencedListed DEF Candidates, SaysComplete, Listed
    <3>3. k \in Nat /\ m \in Nat
      BY <1>1, <3>2, ArchivesAssumption
    <3>4. QED
      BY <3>1, <3>2, <3>3
  <2>2. QED
    BY <2>1, ListSteps
<1>6. QED
  BY <1>1, <1>3, <1>4, <1>5 DEF Candidates, Present, SaysComplete

(* So the newest candidate for any settings is always there.               *)
LEMMA NewestStay ==
  ASSUME TypeOK, TypeOK', PublishInv, EntryInv, UnnotedStands, NewestStands, [Next]_vars
  PROVE  NewestStands'
<1> SUFFICES ASSUME NEW s \in Settings, Candidates(s)' # {}
             PROVE  \E k \in Candidates(s)' :
                      k \in Present' \ Sentenced' /\ \A n \in Candidates(s)' : n <= k
  BY DEF NewestStands
<1>1. Candidates(s) \subseteq Stamps /\ Candidates(s)' \subseteq Stamps
  BY DEF Candidates, Present, Listed, TypeOK
<1>2. CASE PowerLoss
  <2>1. PICK k \in Candidates(s)' : \A n \in Candidates(s)' : n <= k
    BY <1>1, NewestOf
  <2>2. Listed' = {} /\ Sentenced' = {}
    BY <1>2 DEF PowerLoss, Listed, Sentenced
  <2>3. QED
    BY <2>1, <2>2 DEF Candidates
<1>3. ASSUME ~PowerLoss, NEW r \in Runs, WriteNote(r), name[r] \in Candidates(s)'
      PROVE  \E k \in Candidates(s)' :
                k \in Present' \ Sentenced' /\ \A n \in Candidates(s)' : n <= k
  <2>1. name[r] \in Stamps /\ final[name[r]] = r /\ name[r] \notin Sentenced
    BY <1>3, UnnotedSaysNothing DEF WriteNote, UnnotedStands
  <2>2. Sentenced' \subseteq Sentenced /\ Present' = Present
    <3>1. todo' = todo /\ final' = final /\ \A p \in Procs : pc'[p] \in Judging => pc[p] \in Judging
      BY <1>3 DEF WriteNote, Judging, TypeOK
    <3>2. QED
      BY <3>1 DEF Sentenced, Present
  <2>3. name[r] \in Present' \ Sentenced'
    BY <2>1, <2>2, ArchivesAssumption DEF Present
  <2>4. \A n \in Candidates(s)' : n \in Candidates(s) \/ n = name[r]
    <3>1. ASSUME NEW q \in Runs, WriteNote(q) PROVE q = r
      BY <1>3, <3>1 DEF WriteNote, TypeOK
    <3>2. QED
      BY <1>3, <3>1, FewNewCandidates
  <2>5. CASE Candidates(s) = {}
    BY <1>1, <1>3, <2>1, <2>3, <2>4, <2>5, ArchivesAssumption
  <2>6. CASE Candidates(s) # {}
    <3>1. PICK k \in Candidates(s) : k \in Present \ Sentenced /\ \A n \in Candidates(s) : n <= k
      BY <2>6 DEF NewestStands
    <3>2. k \in Candidates(s)' /\ k \in Present' \ Sentenced'
      BY <1>3, <3>1, NewestOutlives
    <3>3. k \in Nat /\ name[r] \in Nat /\ \A n \in Candidates(s) : n \in Nat
      BY <1>1, <2>1, ArchivesAssumption
    <3>4. CASE name[r] <= k
      BY <2>4, <3>1, <3>2, <3>4
    <3>5. CASE k < name[r]
      <4>1. ASSUME NEW n \in Candidates(s)' PROVE n <= name[r]
        <5>1. n = name[r] \/ (n \in Nat /\ n <= k)
          BY <2>4, <3>1, <3>3
        <5>2. QED
          BY <3>3, <3>5, <5>1
      <4>2. QED
        BY <1>3, <2>3, <4>1
    <3>6. QED
      BY <3>3, <3>4, <3>5
  <2>7. QED
    BY <2>5, <2>6
<1>4. ASSUME ~PowerLoss, ~ \E r \in Runs : WriteNote(r) /\ name[r] \in Candidates(s)'
      PROVE  \E k \in Candidates(s)' :
                k \in Present' \ Sentenced' /\ \A n \in Candidates(s)' : n <= k
  <2>1. Candidates(s)' \subseteq Candidates(s)
    BY <1>4, FewNewCandidates
  <2>2. PICK k \in Candidates(s) : k \in Present \ Sentenced /\ \A n \in Candidates(s) : n <= k
    BY <2>1 DEF NewestStands
  <2>3. k \in Candidates(s)' /\ k \in Present' \ Sentenced'
    BY <1>4, <2>2, NewestOutlives
  <2>4. QED
    BY <2>1, <2>2, <2>3
<1>5. QED
  BY <1>2, <1>3, <1>4

(* No step breaks what stands in for the complete archives that go.        *)
LEMMA StandInStep ==
  ASSUME TypeOK, TypeOK', PublishInv, EntryInv, StandInInv, [Next]_vars
  PROVE  StandInInv'
<1> SUFFICES ASSUME ~unsure' PROVE UnnotedStands' /\ NewestStands'
  BY DEF StandInInv
<1>1. ~unsure
  BY Frames
<1>2. QED
  BY <1>1, UnnotedStay, NewestStay DEF StandInInv

----------------------------------------------------------------------------
(* The theorems.                                                           *)

(* The invariant of the sweeps holds of what earlier runs left.            *)
LEMMA SweepInitially == Init => SweepInv
<1> SUFFICES ASSUME Init PROVE KeptInv /\ StandInInv
  BY EntryInitially DEF SweepInv
<1> USE ArchivesAssumption
<1>1. \A n \in Stamps : final[n] # None =>
         final[n] \in Old /\ name[final[n]] = n /\ \A a \in Old : name[a] = n => a = final[n]
  <2> SUFFICES ASSUME NEW n \in Stamps, final[n] # None
               PROVE  /\ final[n] \in Old /\ name[final[n]] = n
                      /\ \A a \in Old : name[a] = n => a = final[n]
    OBVIOUS
  <2>1. \E a \in Old : name[a] = n
    BY DEF Init
  <2>2. (CHOOSE a \in Old : name[a] = n) \in Old /\ name[CHOOSE a \in Old : name[a] = n] = n
    BY <2>1
  <2>3. QED
    BY <2>1, <2>2 DEF Init
<1>2. ASSUME NEW a \in Old PROVE name[a] \in Stamps /\ final[name[a]] = a
  <2>1. name[a] \in Stamps
    BY DEF Init
  <2>2. final[name[a]] # None
    <3>1. (CHOOSE b \in Old : name[b] = name[a]) \in Old
      OBVIOUS
    <3>2. QED
      BY <2>1, <3>1 DEF Init
  <2>3. QED
    BY <1>1, <2>1, <2>2
<1>3. promised = Old /\ disk.final = final /\ disk.note = note
  BY DEF Init, Flushed
<1>4. Promises
  BY <1>3 DEF Init, Promises, Settled
<1>5. PromisedNotes(note)
  <2>1. ASSUME NEW n \in Stamps, note[n].missing = "none"
        PROVE  KeptAs(final[n]) /\ name[final[n]] = n /\ final[n] \in Archives
    <3>1. note[n] # NoNote
      BY <2>1 DEF NoNote
    <3>2. final[n] # None /\ note[n] = NoteOf(final[n])
      BY <3>1 DEF Init
    <3>3. QED
      BY <1>1, <1>3, <2>1, <3>2 DEF KeptAs, NoteOf
  <2>2. QED
    BY <2>1 DEF PromisedNotes
<1>6. Listed = {} /\ Sentenced = {} /\ \A r \in Runs : pc[r] = "idle"
  BY DEF Init, Listed, Sentenced
<1>7. KeptThere
  BY <1>2, <1>3 DEF KeptThere, KeptAs
<1>8. NewestStands
  <2>1. ASSUME NEW s \in Settings, Candidates(s) # {}
        PROVE  \E k \in Candidates(s) :
                 k \in Present \ Sentenced /\ \A n \in Candidates(s) : n <= k
    <3>1. Candidates(s) \subseteq Present /\ Candidates(s) \subseteq Stamps
      BY <1>6 DEF Candidates, Present
    <3>2. QED
      BY <1>6, <2>1, <3>1, NewestOf
  <2>2. QED
    BY <2>1 DEF NewestStands
<1>9. QED
  BY <1>3, <1>4, <1>5, <1>6, <1>7, <1>8
     DEF KeptInv, StandInInv, SentencedSurpassed, RenamedThere, UnnotedStands

(* The invariant of the sweeps holds through every interleaving of runs,   *)
(* sweeps, kills and power losses.                                         *)
THEOREM SweepCorrect ==
  ASSUME ~SharedNames
  PROVE  Spec => [](PublishInv /\ SweepInv)
<1>1. TypeOK /\ TypeOK' /\ PublishInv /\ SweepInv /\ [Next]_vars => PublishInv' /\ SweepInv'
  <2> SUFFICES ASSUME TypeOK, TypeOK', PublishInv, SweepInv, [Next]_vars
               PROVE  PublishInv' /\ SweepInv'
    OBVIOUS
  <2>1. PublishInv'
    BY ~SharedNames, PublishStep
  <2>2. EntryInv'
    BY EntryStep DEF SweepInv
  <2>3. KeptInv'
    BY ~SharedNames, <2>1, KeptStep DEF SweepInv
  <2>4. StandInInv'
    BY StandInStep DEF SweepInv
  <2>5. QED
    BY <2>1, <2>2, <2>3, <2>4 DEF SweepInv
<1>2. QED
  BY <1>1, PublishInitially, SweepInitially, TypeCorrect, PTL DEF Spec

(* A note is about the archive it stands beside.                           *)
LEMMA OwnNoteTrue ==
  ASSUME TypeOK, PublishInv, EntryInv, NEW n \in Present, note[n].missing = "none"
  PROVE  n \in Stamps /\ holds[final[n]] /\ note[n].settings = settings[final[n]]
<1>1. n \in Stamps /\ final[n] \in Archives /\ name[final[n]] = n
  BY DEF Present, PublishInv, PointsHome, TypeOK
<1>2. note[n] # NoNote
  BY DEF NoNote
<1>3. PICK a \in Archives : name[a] = n /\ note[n] = NoteOf(a)
  BY <1>1, <1>2 DEF EntryInv, OwnNotes
<1>4. a = final[n]
  BY <1>1, <1>3, ArchivesAssumption DEF PublishInv, Unique
<1>5. QED
  BY <1>1, <1>3, <1>4 DEF NoteOf, EntryInv, ClaimsTrue

(* A note that says `none` never stands beside an archive that lacks a     *)
(* repository its settings select, so no `fates` is misled.                *)
THEOREM TrueNotes ==
  ASSUME ~SharedNames
  PROVE  Spec => []NotesAreTrue
<1>1. TypeOK /\ PublishInv /\ SweepInv => NotesAreTrue
  BY OwnNoteTrue DEF NotesAreTrue, SweepInv
<1>2. QED
  BY ~SharedNames, <1>1, SweepCorrect, TypeCorrect, PTL

(* Among the archives kept as complete, one is not surpassed.              *)
LEMMA NewestKept ==
  ASSUME Promises, TypeOK, NEW a \in Archives, KeptAs(a)
  PROVE  \E b \in Archives : /\ KeptAs(b) /\ ~Surpassed(name[b])
                             /\ name[a] <= name[b] /\ name[b] \in Stamps
<1> DEFINE K == {name[b] : b \in {c \in Archives : KeptAs(c)}}
<1>1. K \subseteq Stamps /\ name[a] \in K
  BY DEF Promises, KeptAs, TypeOK
<1>2. PICK n \in K : \A m \in K : m <= n
  <2> HIDE DEF K
  <2>1. K \in SUBSET Stamps /\ K # {}
    BY <1>1
  <2>2. QED
    BY <2>1, NewestOf
<1>3. PICK b \in Archives : KeptAs(b) /\ name[b] = n
  BY <1>2
<1>4. ~Surpassed(name[b])
  <2>1. ASSUME NEW c \in Archives, KeptAs(c), name[c] > name[b] PROVE FALSE
    <3>1. name[c] \in K /\ name[b] \in K
      BY <1>3, <2>1
    <3>2. name[c] <= n /\ n = name[b] /\ name[c] \in Nat /\ n \in Nat
      BY <1>1, <1>2, <1>3, <3>1, ArchivesAssumption
    <3>3. QED
      BY <2>1, <3>2
  <2>2. QED
    BY <2>1 DEF Surpassed
<1>5. QED
  BY <1>1, <1>2, <1>3, <1>4

(* The newest archive with every repository it was asked to save is always *)
(* kept, whatever overlaps and whenever power is lost, unless a run warned *)
(* that its rename may not survive one.                                    *)
THEOREM NewestCompleteStays ==
  ASSUME ~SharedNames
  PROVE  Spec => []NewestCompleteKept
<1>1. TypeOK /\ PublishInv /\ SweepInv => NewestCompleteKept
  <2> SUFFICES ASSUME TypeOK, PublishInv, SweepInv, ~warned,
                      NEW a \in promised, missing[a] = "none"
               PROVE  \E n \in Present : n >= name[a] /\ final[n] \in whole /\ holds[final[n]]
    BY DEF NewestCompleteKept
  <2>1. Promises /\ KeptThere /\ EntryInv /\ a \in Archives /\ KeptAs(a)
    BY DEF SweepInv, KeptInv, KeptAs, TypeOK
  <2>2. PICK b \in Archives : /\ KeptAs(b) /\ ~Surpassed(name[b])
                              /\ name[a] <= name[b] /\ name[b] \in Stamps
    BY <2>1, NewestKept
  <2>3. final[name[b]] = b
    BY <2>1, <2>2 DEF KeptThere
  <2>4. name[b] \in Present /\ b \in whole /\ holds[b]
    BY <2>1, <2>2, <2>3, ArchivesAssumption
       DEF Present, PublishInv, Durable, EntryInv, ClaimsTrue, KeptAs
  <2>5. name[b] >= name[a]
    <3>1. name[a] \in Nat /\ name[b] \in Nat
      BY <2>1, <2>2, ArchivesAssumption DEF Promises, TypeOK
    <3>2. QED
      BY <2>2, <3>1
  <2>6. QED
    BY <2>3, <2>4, <2>5
<1>2. QED
  BY ~SharedNames, <1>1, SweepCorrect, TypeCorrect, PTL

(* Whatever other sweeps did since it was judged, an archive whose note    *)
(* says it is complete is deleted only while a newer one, complete for the *)
(* same settings, is there.                                                *)
THEOREM DeletionsStoodInFor ==
  ASSUME ~SharedNames
  PROVE  Spec => DeletesOnlyWithStandIn
<1>1. TypeOK /\ PublishInv /\ SweepInv /\ [Next]_vars => DeletesStoodInFor
  <2> SUFFICES ASSUME TypeOK, PublishInv, SweepInv, [Next]_vars, NEW p \in Procs, Deletes(p),
                      ~unsure, note[Max(todo[p])].missing = "none"
               PROVE  HasStandIn(Max(todo[p]))
    BY DEF DeletesStoodInFor
  <2> DEFINE n == Max(todo[p])
             s == note[n].settings
  <2>1. DeleteArchive(p)
    BY WhoStepped DEF Deletes
  <2>2. n \in Sentenced /\ n \in Stamps
    BY <2>1, DeletesSentenced
  <2>3. n \in Candidates(s) /\ s \in Settings
    <3>1. n \in Present
      BY <2>1, <2>2 DEF DeleteArchive, Present
    <3>2. note[n] \in Note /\ note[n] # NoNote
      BY <2>2 DEF TypeOK, NoNote
    <3>3. note[n] = [missing |-> "none", settings |-> s] /\ s \in Settings
      BY <3>2 DEF Note
    <3>4. QED
      BY <3>1, <3>3 DEF Candidates, SaysComplete
  <2>4. PICK k \in Candidates(s) : k \in Present \ Sentenced /\ n <= k
    BY <2>3 DEF SweepInv, StandInInv, NewestStands
  <2>5. k > n
    <3>1. k # n /\ k \in Nat /\ n \in Nat
      BY <2>2, <2>4, ArchivesAssumption DEF Present
    <3>2. QED
      BY <2>4, <3>1
  <2>6. note[k] = note[n] /\ note[k].missing = "none"
    BY <2>3, <2>4 DEF Candidates, SaysComplete
  <2>7. holds[final[k]]
    BY <2>4, <2>6, OwnNoteTrue DEF SweepInv
  <2>8. QED
    BY <2>4, <2>5, <2>6, <2>7 DEF HasStandIn
<1>2. QED
  BY ~SharedNames, <1>1, SweepCorrect, TypeCorrect, PTL DEF Spec, DeletesOnlyWithStandIn

(* No run deletes the archive it has just written, whatever the clock      *)
(* said.                                                                   *)
THEOREM OwnArchiveSpared ==
  ASSUME ~SharedNames
  PROVE  Spec => RunKeepsItsOwnArchive
<1>1. TypeOK /\ PublishInv /\ SweepInv /\ [Next]_vars => SparesItsOwn
  <2> SUFFICES ASSUME TypeOK, PublishInv, SweepInv, [Next]_vars, NEW r \in Runs, Deletes(r)
               PROVE  final'[name[r]] = final[name[r]]
    BY DEF SparesItsOwn
  <2>1. DeleteArchive(r)
    BY WhoStepped DEF Deletes
  <2>2. Max(todo[r]) # name[r]
    BY <2>1, DeletesSentenced DEF SweepInv, EntryInv, OwnIsSpared, Deletes, Judging
  <2>3. name[r] \in Stamps
    BY DEF Deletes, PublishInv, Progress, TypeOK
  <2>4. final \in [Stamps -> Archives \cup {None}]
    BY DEF TypeOK
  <2>5. QED
    BY <2>1, <2>2, <2>3, <2>4, DeletesSentenced
<1>2. QED
  BY ~SharedNames, <1>1, SweepCorrect, TypeCorrect, PTL DEF Spec, RunKeepsItsOwnArchive

----------------------------------------------------------------------------
(* What all of this amounts to: the directory is a Shelf.                  *)

(* The greatest of some stamps and 0 is one of them.                       *)
LEMMA MaxWithZero ==
  ASSUME NEW K \in SUBSET Stamps
  PROVE  /\ Max({0} \cup K) \in {0} \cup K /\ Max({0} \cup K) \in Nat
         /\ \A m \in K : m <= Max({0} \cup K)
<1>1. \A m \in K : m \in Nat /\ m >= 0
  BY ArchivesAssumption
<1>2. PICK n \in {0} \cup K : \A m \in {0} \cup K : n >= m
  <2>1. CASE K = {}
    BY <2>1
  <2>2. CASE K # {}
    <3>1. PICK n \in K : \A m \in K : m <= n
      BY <2>2, NewestOf
    <3>2. \A m \in {0} \cup K : n >= m
      BY <1>1, <3>1
    <3>3. QED
      BY <3>1, <3>2
  <2>3. QED
    BY <2>1, <2>2
<1> DEFINE l == Max({0} \cup K)
<1>3. l \in {0} \cup K /\ \A m \in {0} \cup K : l >= m
  BY <1>2 DEF Max
<1>4. l \in {0} \cup K /\ l \in Nat /\ \A m \in K : m <= l
  <2> HIDE DEF l
  <2> QED
    BY <1>1, <1>3
<1>5. QED
  BY <1>4

(* One more stamp is the greatest, or changes nothing.                     *)
LEMMA MaxWithOneMore ==
  ASSUME NEW K \in SUBSET Stamps, NEW n \in Stamps
  PROVE  LET m == Max({0} \cup K) l == Max({0} \cup (K \cup {n})) IN
         \/ l = m
         \/ l = n /\ n > m /\ \A k \in K : k < n
<1> DEFINE m == Max({0} \cup K)
           l == Max({0} \cup (K \cup {n}))
<1>1. m \in {0} \cup K /\ m \in Nat /\ \A k \in K : k <= m
  BY MaxWithZero
<1>2. l \in {0} \cup (K \cup {n}) /\ l \in Nat /\ \A k \in K \cup {n} : k <= l
  <2>1. K \cup {n} \in SUBSET Stamps
    OBVIOUS
  <2>2. QED
    BY <2>1, MaxWithZero
<1>3. n \in Nat /\ \A k \in K : k \in Nat
  BY ArchivesAssumption
<1> HIDE DEF m, l
<1>4. m <= l
  BY <1>1, <1>2, <1>3
<1>5. ASSUME l # m PROVE l = n /\ n > m
  <2>1. m < l
    BY <1>1, <1>2, <1>4, <1>5
  <2>2. l \notin K
    BY <1>1, <1>2, <2>1
  <2>3. l # 0
    BY <1>1, <2>1
  <2>4. QED
    BY <1>2, <2>1, <2>2, <2>3
<1>6. l = m \/ (l = n /\ n > m /\ \A k \in K : k < n)
  BY <1>1, <1>3, <1>5
<1>7. QED
  BY <1>6 DEF m, l

(* Every finished name shows a whole archive, in memory and on disk.       *)
LEMMA ShownAreFinished ==
  PublishInv => /\ ShownNames = Present
                /\ FlushedNames = {n \in Stamps : disk.final[n] # None}
BY DEF PublishInv, Durable, ShownNames, FlushedNames, Present

(* Kept archives have names.                                               *)
LEMMA KeptAreNamed ==
  ASSUME TypeOK, Promises
  PROVE  KeptNames \in SUBSET Stamps
BY DEF TypeOK, Promises, KeptNames, KeptAs

(* Only the flush of the directory promises or warns.                      *)
LEMMA OnlyFlushPromises ==
  ASSUME TypeOK, [Next]_vars, ~warned => Promises
  PROVE  BestPromised' = BestPromised \/ \E r \in Runs : SyncDirectory(r)
<1> SUFFICES ASSUME \A r \in Runs : ~SyncDirectory(r)
             PROVE  BestPromised' = BestPromised
  OBVIOUS
<1>1. promised' = promised
  BY Frames
<1>2. warned' = warned
  <2>1. ASSUME NEW r \in Runs, RunStep(r) PROVE warned' = warned
    BY <2>1 DEF RunStep, Prepare, Open, Write, Sync, Rename, Fail, WriteNote, NoSweep, history
  <2>2. ASSUME NEW p \in Procs, SweepStep(p) \/ Kill(p) PROVE warned' = warned
    BY <2>2 DEF SweepStep, List, Judge, DeleteArchive, DeleteNote, DeleteFails, SweepDone, Kill,
                history
  <2>3. ASSUME NEW p \in Prunes, PruneStep(p) PROVE warned' = warned
    BY <2>3 DEF PruneStep, Confirm, Decline, history
  <2>4. CASE PowerLoss \/ UNCHANGED vars
    BY <2>4 DEF PowerLoss, vars, history
  <2>5. QED
    BY <2>1, <2>2, <2>3, <2>4 DEF Next
<1>3. CASE warned
  BY <1>2, <1>3 DEF BestPromised
<1>4. CASE ~warned
  <2>1. \A a \in Archives : /\ KeptAs(a)' <=> KeptAs(a)
                            /\ KeptAs(a) => name'[a] = name[a]
    BY <1>1, <1>4, Lasting DEF Promises, KeptAs
  <2>2. KeptNames' = KeptNames
    BY <2>1 DEF KeptNames
  <2>3. QED
    BY <1>2, <2>2 DEF BestPromised
<1>5. QED
  BY <1>3, <1>4

(* A flush covers what is shown, and a new best archive is one of those.   *)
LEMMA FlushIsFlush ==
  ASSUME TypeOK, PublishInv, PublishInv', SweepInv, NEW r \in Runs, SyncDirectory(r)
  PROVE  Promised!Flush \/ Promised!Warn
<1>1. final' = final /\ whole' = whole /\ name' = name /\ missing' = missing
  BY DEF SyncDirectory, directory, archive
<1>2. ShownNames' = ShownNames
  BY <1>1 DEF ShownNames
<1>3. CASE warned' = TRUE /\ UNCHANGED <<disk, promised>>
  <2>1. FlushedNames' = FlushedNames
    BY <1>1, <1>3 DEF FlushedNames
  <2>2. BestPromised' = 0
    BY <1>3 DEF BestPromised
  <2>3. QED
    BY <1>2, <2>1, <2>2 DEF Promised!Warn
<1>4. CASE /\ disk' = Flushed
           /\ promised' = promised \cup {r} /\ UNCHANGED warned
  <2>1. FlushedNames' = ShownNames
    BY <1>1, <1>4 DEF FlushedNames, ShownNames, Flushed
  <2>2. BestPromised' \in {BestPromised} \cup {n \in ShownNames : n > BestPromised}
    <3>1. CASE warned
      BY <1>4, <3>1 DEF BestPromised
    <3>2. CASE ~warned
      <4>1. /\ Promises /\ RenamedThere /\ pc[r] = "renamed"
            /\ name[r] \in Stamps
        BY <3>2 DEF SweepInv, KeptInv, SyncDirectory, PublishInv, Progress, TypeOK
      <4>2. KeptNames \in SUBSET Stamps
        BY <4>1, KeptAreNamed
      <4>3. KeptNames' = IF missing[r] = "none" THEN KeptNames \cup {name[r]} ELSE KeptNames
        BY <1>1, <1>4 DEF KeptNames, KeptAs
      <4>4. BestPromised = Max({0} \cup KeptNames) /\ BestPromised' = Max({0} \cup KeptNames')
        BY <1>4, <3>2 DEF BestPromised
      <4>5. CASE missing[r] # "none"
        BY <4>3, <4>4, <4>5
      <4>6. CASE missing[r] = "none"
        <5>1. \/ BestPromised' = BestPromised
              \/ /\ BestPromised' = name[r] /\ name[r] > BestPromised
                 /\ \A k \in KeptNames : k < name[r]
          BY <4>1, <4>2, <4>3, <4>4, <4>6, MaxWithOneMore
        <5>2. ASSUME \A k \in KeptNames : k < name[r] PROVE name[r] \in ShownNames
          <6>1. \A k \in KeptNames : ~(k > name[r])
            BY <4>1, <4>2, <5>2, ArchivesAssumption
          <6>2. ~Surpassed(name[r])
            BY <6>1 DEF Surpassed, KeptNames
          <6>3. final[name[r]] = r
            BY <4>1, <4>6, <6>2 DEF RenamedThere
          <6>4. QED
            BY <4>1, <6>3, ArchivesAssumption, ShownAreFinished DEF Present
        <5>3. QED
          BY <5>1, <5>2
      <4>7. QED
        BY <4>5, <4>6
    <3>3. QED
      BY <3>1, <3>2
  <2>3. QED
    BY <1>2, <2>1, <2>2 DEF Promised!Flush
<1>5. QED
  BY <1>3, <1>4 DEF SyncDirectory

(* What a sweep deletes is never the best archive.                         *)
LEMMA DeletedIsNotBest ==
  ASSUME TypeOK, SweepInv, NEW n \in Sentenced \cap Stamps
  PROVE  n # BestPromised
<1>1. n \in Nat /\ n # 0
  BY ArchivesAssumption
<1>2. CASE warned
  BY <1>1, <1>2 DEF BestPromised
<1>3. CASE ~warned
  <2> SUFFICES ASSUME n = Max({0} \cup KeptNames) PROVE FALSE
    BY <1>3 DEF BestPromised
  <2>1. Promises /\ SentencedSurpassed
    BY <1>3 DEF SweepInv, KeptInv
  <2>2. KeptNames \in SUBSET Stamps
    BY <2>1, KeptAreNamed
  <2>3. n \in KeptNames /\ \A k \in KeptNames : k <= n
    BY <1>1, <2>2, MaxWithZero
  <2>4. PICK a \in Archives : KeptAs(a) /\ name[a] = n
    BY <2>3 DEF KeptNames
  <2>5. PICK b \in Archives : KeptAs(b) /\ name[b] > n
    BY <2>1, <2>4 DEF SentencedSurpassed, KeptAs, Surpassed
  <2>6. name[b] \in KeptNames
    BY <2>5 DEF KeptNames
  <2>7. name[b] <= n /\ name[b] \in Nat
    <3>1. \A k \in KeptNames : k <= n /\ k \in Nat
      <4> HIDE DEF Archives
      <4> QED
        BY <2>2, <2>3, ArchivesAssumption
    <3>2. QED
      BY <2>6, <3>1
  <2>8. QED
    BY <1>1, <2>5, <2>7
<1>4. QED
  BY <1>2, <1>3

(* A step of the directory is one of the shelf, or nobody sees it there.   *)
LEMMA ShelfStep ==
  ASSUME TypeOK, PublishInv, PublishInv', SweepInv, [Next]_vars
  PROVE  [Promised!Next]_<<ShownNames, FlushedNames, BestPromised>>
<1> USE DEF Promised!Next
<1>1. /\ ShownNames = Present /\ FlushedNames = {n \in Stamps : disk.final[n] # None}
      /\ ShownNames' = Present' /\ FlushedNames' = {n \in Stamps : disk'.final[n] # None}
  <2>1. ShownNames' = Present' /\ FlushedNames' = {n \in Stamps : disk'.final[n] # None}
    BY DEF PublishInv, Durable, ShownNames, FlushedNames, Present
  <2>2. QED
    BY <2>1, ShownAreFinished
<1>2. ASSUME NEW r \in Runs, SyncDirectory(r)
      PROVE  Promised!Next
  BY <1>2, FlushIsFlush
<1>3. CASE \A r \in Runs : ~SyncDirectory(r)
  <2>1. BestPromised' = BestPromised
    BY <1>3, OnlyFlushPromises DEF SweepInv, KeptInv
  <2>2. CASE PowerLoss
    <3>1. \A n \in Stamps : final'[n] \in {final[n], disk.final[n]}
      BY <2>2, LossMixes
    <3>2. disk'.final = final'
      BY <2>2, LossMixes
    <3>3. FlushedNames' = ShownNames'
      BY <1>1, <3>2 DEF Present
    <3>4. /\ ShownNames \cap FlushedNames \subseteq ShownNames'
          /\ ShownNames' \subseteq ShownNames \cup FlushedNames
      BY <1>1, <3>1 DEF Present
    <3>5. QED
      BY <2>1, <3>3, <3>4 DEF Promised!LosePower
  <2>3. CASE ~PowerLoss
    <3>1. FlushedNames' = FlushedNames
      BY <1>1, <1>3, <2>3, Frames
    <3>2. ASSUME NEW r \in Runs, Rename(r) PROVE Promised!Publish(name[r])
      <4>1. name[r] \in Stamps /\ final' = [final EXCEPT ![name[r]] = r]
        BY <3>2, RenameHome
      <4>2. final[name[r]] = None
        <5> SUFFICES ASSUME final[name[r]] # None PROVE FALSE
          OBVIOUS
        <5>1. final[name[r]] \in Archives /\ name[final[name[r]]] = name[r]
          BY <4>1 DEF TypeOK, PublishInv, PointsHome
        <5>2. final[name[r]] = r
          BY <4>1, <5>1, ArchivesAssumption DEF PublishInv, Unique
        <5>3. Settled(r)
          BY <4>1, <5>2 DEF SweepInv, EntryInv, SettledEntries
        <5>4. QED
          BY <3>2, <5>3, ArchivesAssumption DEF Settled, BeforeRename, Rename
      <4>3. final' \in [Stamps -> Archives \cup {None}] /\ final \in [Stamps -> Archives \cup {None}]
        BY <4>1 DEF TypeOK
      <4>4. name[r] \notin ShownNames /\ ShownNames' = ShownNames \cup {name[r]}
        BY <1>1, <4>1, <4>2, <4>3, ArchivesAssumption DEF Present
      <4>5. QED
        BY <2>1, <3>1, <4>4 DEF Promised!Publish
    <3>3. ASSUME NEW p \in Procs, DeleteArchive(p) PROVE Promised!Discard(Max(todo[p]))
      <4> DEFINE n == Max(todo[p])
      <4>1. n \in Sentenced \cap Stamps /\ final' = [final EXCEPT ![n] = None] /\ final[n] # None
        BY <3>3, DeletesSentenced DEF DeleteArchive
      <4>2. n # BestPromised
        BY <4>1, DeletedIsNotBest
      <4> HIDE DEF n
      <4>3. n \in ShownNames /\ ShownNames' = ShownNames \ {n}
        BY <1>1, <4>1 DEF Present, TypeOK
      <4>4. Promised!Discard(n)
        BY <2>1, <3>1, <4>2, <4>3 DEF Promised!Discard
      <4>5. QED
        BY <4>4 DEF n
    <3>4. ASSUME final' = final PROVE ShownNames' = ShownNames
      BY <1>1, <3>4 DEF Present
    <3>5. \A r \in Runs : Rename(r) => Promised!Next
      <4> SUFFICES ASSUME NEW r \in Runs, Rename(r) PROVE Promised!Next
        OBVIOUS
      <4>1. name[r] \in Stamps
        BY RenameHome
      <4>2. QED
        BY <3>2, <4>1
    <3>6. \A p \in Procs : DeleteArchive(p) => Promised!Next
      <4> SUFFICES ASSUME NEW p \in Procs, DeleteArchive(p) PROVE Promised!Next
        OBVIOUS
      <4>1. Max(todo[p]) \in Stamps
        BY DeletesSentenced
      <4>2. QED
        BY <3>3, <4>1
    <3>7. QED
      BY <2>1, <2>3, <3>1, <3>4, <3>5, <3>6, Frames
  <2>4. QED
    BY <2>2, <2>3
<1>4. QED
  BY <1>2, <1>3

(* The directory is a shelf from the start.                                *)
LEMMA ShelfInitially == Init => Promised!Init
<1> SUFFICES ASSUME Init PROVE Promised!Init
  OBVIOUS
<1>1. TypeOK /\ PublishInv /\ SweepInv
  <2>1. TypeOK
    BY TypesInitially
  <2>2. QED
    BY <2>1, PublishInitially, SweepInitially
<1>2. ShownNames \in SUBSET Stamps /\ FlushedNames = ShownNames
  BY DEF Init, ShownNames, FlushedNames, Flushed
<1>3. BestPromised \in ShownNames \cup {0}
  <2>1. Promises /\ KeptThere /\ BestPromised = Max({0} \cup KeptNames)
    BY <1>1 DEF Init, SweepInv, KeptInv, BestPromised
  <2>2. KeptNames \in SUBSET Stamps
    BY <1>1, <2>1, KeptAreNamed
  <2>3. BestPromised \in {0} \cup KeptNames /\ \A k \in KeptNames : k <= BestPromised
    BY <2>1, <2>2, MaxWithZero
  <2>4. ASSUME BestPromised \in KeptNames PROVE BestPromised \in ShownNames
    <3>1. PICK a \in Archives : KeptAs(a) /\ name[a] = BestPromised
      BY <2>4 DEF KeptNames
    <3>2. \A k \in KeptNames : k \in Nat /\ ~(k > BestPromised)
      <4> HIDE DEF Archives
      <4> QED
        BY <2>2, <2>3, <2>4, ArchivesAssumption
    <3>3. ~Surpassed(name[a])
      BY <3>1, <3>2 DEF Surpassed, KeptNames
    <3>4. final[BestPromised] = a
      BY <2>1, <3>1, <3>3 DEF KeptThere
    <3>5. QED
      BY <1>1, <2>2, <2>4, <3>1, <3>4, ArchivesAssumption, ShownAreFinished DEF Present
  <2>5. QED
    BY <2>3, <2>4
<1>4. QED
  BY <1>2, <1>3 DEF Promised!Init

(* The directory, with all its runs and sweeps and whatever cuts them      *)
(* short, keeps what a Shelf promises: archives appear whole, a flush      *)
(* holds, and the best one never goes.                                     *)
THEOREM ImplementsShelf ==
  ASSUME ~SharedNames
  PROVE  Spec => KeepsItsPromises
<1>1. TypeOK /\ PublishInv /\ PublishInv' /\ SweepInv /\ [Next]_vars
        => [Promised!Next]_<<ShownNames, FlushedNames, BestPromised>>
  BY ShelfStep
<1>2. QED
  BY ~SharedNames, <1>1, ShelfInitially, SweepCorrect, TypeCorrect, PTL
     DEF Spec, KeepsItsPromises, Promised!Spec

----------------------------------------------------------------------------
(* What a retention promises of every directory, however many archives are *)
(* in it and whatever their notes say or do not say: RetentionList.        *)

USE DEF Shown

(* The three kinds of completeness are different, and each names its       *)
(* settings.                                                               *)
LEMMA KindsDiffer ==
  \A s, t :
    /\ Complete(s).is = "Complete" /\ Incomplete(s).is = "Incomplete" /\ Unknown.is = "Unknown"
    /\ Complete(s) # Unknown /\ Incomplete(s) # Unknown /\ Complete(s) # Incomplete(t)
    /\ Complete(s) = Complete(t) => s = t
<1> SUFFICES ASSUME NEW s, NEW t
             PROVE  /\ Complete(s).is = "Complete" /\ Incomplete(s).is = "Incomplete"
                    /\ Unknown.is = "Unknown"
                    /\ Complete(s) # Unknown /\ Incomplete(s) # Unknown
                    /\ Complete(s) # Incomplete(t)
                    /\ Complete(s) = Complete(t) => s = t
  OBVIOUS
<1>1. Complete(s).is = "Complete" /\ Incomplete(s).is = "Incomplete" /\ Unknown.is = "Unknown"
  BY DEF Complete, Incomplete, Unknown
<1>2. Incomplete(t).is = "Incomplete"
  BY DEF Incomplete
<1>3. Complete(s).settings = s /\ Complete(t).settings = t
  BY DEF Complete
<1>4. QED
  BY <1>1, <1>2, <1>3

(* The directory fills up one stamp after the other, never beyond its      *)
(* bound, and every entry says what a note can say.                        *)
THEOREM ListingTypeCorrect == ListingSpec => []ListingTypeOK
<1>1. ListingInit => ListingTypeOK
  <2> SUFFICES ASSUME ListingInit PROVE ListingTypeOK
    OBVIOUS
  <2>1. 0 \in 0..MaxArchives /\ 1..0 = {}
    BY MaxArchivesAssumption
  <2>2. listing \in [1..0 -> Completeness]
    BY <2>1 DEF ListingInit
  <2>3. QED
    BY <2>1, <2>2 DEF ListingInit, ListingTypeOK
<1>2. ListingTypeOK /\ [ListingNext]_listingVars => ListingTypeOK'
  <2> SUFFICES ASSUME ListingTypeOK, [ListingNext]_listingVars PROVE ListingTypeOK'
    OBVIOUS
  <2>1. CASE UNCHANGED listingVars
    BY <2>1 DEF listingVars, ListingTypeOK
  <2>2. ASSUME NEW c \in Completeness, Taken(c) PROVE ListingTypeOK'
    <3>1. PICK k \in 0..MaxArchives : listing \in [1..k -> Completeness]
      BY DEF ListingTypeOK
    <3>2. Cardinality(DOMAIN listing) = k
      BY <3>1, FS_Interval, MaxArchivesAssumption
    <3>3. k + 1 \in 0..MaxArchives
      BY <2>2, <3>2, MaxArchivesAssumption DEF Taken
    <3>4. listing' = [m \in 1..(k + 1) |-> IF m = k + 1 THEN c ELSE listing[m]]
      BY <2>2, <3>2 DEF Taken
    <3>5. \A m \in 1..(k + 1) : m = k + 1 \/ m \in 1..k
      BY <3>1
    <3>6. listing' \in [1..(k + 1) -> Completeness]
      BY <3>1, <3>4, <3>5
    <3>7. QED
      BY <2>2, <3>3, <3>6 DEF Taken, ListingTypeOK
  <2>3. QED
    BY <2>1, <2>2 DEF ListingNext
<1>3. QED
  BY <1>1, <1>2, PTL DEF ListingSpec

(* A listing says something about an archive, which then is so in every    *)
(* world, or it says nothing.                                              *)
LEMMA WorldsAgree ==
  ASSUME NEW w \in Worlds, NEW n \in Shown
  PROVE  listing[n] = w[n] \/ listing[n] = Unknown
BY DEF Worlds

(* What no search spares is past the newest archive the search wants.      *)
LEMMA DoomedSpared ==
  ASSUME NEW L, NEW n \in Doomed(L, keeping), NEW wanted \in Searches(L),
         L[n] \in {Complete(wanted), Unknown}
  PROVE  \E m \in Newer(L, n) : L[m] = Complete(wanted)
BY DEF Doomed, fates, Spares

(* The newest archive that is complete is never deleted, whichever of the  *)
(* archives without a note turns out to be that.                           *)
THEOREM ListedNewestOutlives == ListingSpec => []NewestCompleteOutlivesRetention
<1>1. NewestCompleteOutlivesRetention
  <2> SUFFICES ASSUME NEW w \in Worlds, NEW n \in Doomed(listing, keeping), NewestOfAny(w, n)
               PROVE  FALSE
    BY DEF NewestCompleteOutlivesRetention
  <2>1. n \in Shown /\ n \in DOMAIN listing
    BY DEF Doomed
  <2>2. PICK wanted \in Searches(listing) : listing[n] \in {Complete(wanted), Unknown}
    <3>1. CASE listing[n] = Unknown
      BY <3>1 DEF Searches
    <3>2. CASE listing[n] = w[n]
      <4>1. w[n] \in Completeness /\ w[n].is = "Complete"
        BY <2>1 DEF Worlds, NewestOfAny
      <4>2. PICK s \in Settings : w[n] = Complete(s)
        BY <4>1, KindsDiffer DEF Completeness
      <4>3. s \in KnownSettings(listing)
        BY <2>1, <3>2, <4>2 DEF KnownSettings
      <4>4. s \in Searches(listing)
        BY <4>3 DEF Searches
      <4>5. QED
        BY <3>2, <4>2, <4>4
    <3>3. QED
      BY <2>1, <3>1, <3>2, WorldsAgree
  <2>3. PICK m \in Newer(listing, n) : listing[m] = Complete(wanted)
    BY <2>2, DoomedSpared
  <2>4. m \in Shown /\ w[m] = Complete(wanted)
    BY <2>3, WorldsAgree, KindsDiffer DEF Newer
  <2>5. QED
    BY <2>3, <2>4, KindsDiffer DEF NewestOfAny
<1>2. QED
  BY <1>1, PTL

(* A newest archive may be the only complete one: some world says so.      *)
LEMMA WorldFor ==
  ASSUME ListingTypeOK, NEW n \in Shown, NEW s \in Settings, listing[n] \in {Complete(s), Unknown},
         \A m \in Newer(listing, n) : listing[m] # Complete(s)
  PROVE  \E w \in Worlds : NewestComplete(w, s, n)
<1> DEFINE other(m) == IF m = n THEN Complete(s) ELSE Incomplete(s)
           w == [m \in Shown |-> IF listing[m] = Unknown THEN other(m) ELSE listing[m]]
<1>1. \A m \in Shown : listing[m] \in Completeness
  BY DEF ListingTypeOK
<1>2. \A m \in Shown : other(m) \in Completeness \ {Unknown}
  BY KindsDiffer DEF Completeness
<1>3. \A m \in Shown : w[m] \in Completeness \ {Unknown} /\ listing[m] \in {w[m], Unknown}
  BY <1>1, <1>2
<1>4. w \in Worlds
  <2>1. w \in [Shown -> Completeness \ {Unknown}]
    BY <1>3
  <2>2. QED
    BY <1>3, <2>1 DEF Worlds
<1>5. w[n] = Complete(s)
  BY DEF Newer
<1>6. ASSUME NEW m \in Newer(listing, n) PROVE w[m] # Complete(s)
  <2>1. m \in Shown /\ m # n
    <3>1. m \in Shown /\ m > n /\ n \in Nat /\ m \in Nat
      BY DEF Newer, ListingTypeOK
    <3>2. QED
      BY <3>1
  <2>2. other(m) # Complete(s)
    BY <2>1, KindsDiffer
  <2>3. QED
    BY <2>1, <2>2
<1>7. QED
  BY <1>4, <1>5, <1>6 DEF NewestComplete

(* A count past `keep` is what makes an archive one to search for.         *)
LEMMA CountsCompare ==
  ASSUME ListingTypeOK, NEW n \in Shown
  PROVE  ~(Cardinality(Newer(listing, n)) < keeping) <=> Cardinality(Newer(listing, n)) >= keeping
<1>1. PICK k \in 0..MaxArchives : listing \in [1..k -> Completeness]
  BY DEF ListingTypeOK
<1>2. IsFiniteSet(1..k)
  BY <1>1, FS_Interval, MaxArchivesAssumption
<1>3. Newer(listing, n) \subseteq 1..k
  BY <1>1 DEF Newer
<1>4. Cardinality(Newer(listing, n)) \in Nat
  BY <1>2, <1>3, FS_Subset, FS_CardinalityType
<1>5. keeping \in Nat
  BY KeepsAssumption DEF ListingTypeOK
<1>6. QED
  BY <1>4, <1>5

(* The rule loses no archive that may be the newest complete one of the    *)
(* settings it searches for, and keeps none without that reason.           *)
THEOREM SparesThePossible == ListingSpec => []SparesExactlyThePossible
<1> DEFINE Lost(n) == /\ Cardinality(Newer(listing, n)) >= keeping
                      /\ \A w \in Worlds, s \in Wanted : ~NewestComplete(w, s, n)
<1>1. ASSUME ListingTypeOK, NEW n \in Doomed(listing, keeping) PROVE n \in Shown /\ Lost(n)
  <2>1. n \in Shown /\ n \in DOMAIN listing
    BY DEF Doomed
  <2>2. Cardinality(Newer(listing, n)) >= keeping
    BY <1>1, <2>1, CountsCompare DEF Doomed, fates
  <2>3. ASSUME NEW w \in Worlds, NEW s \in Wanted, NewestComplete(w, s, n) PROVE FALSE
    <3>1. listing[n] \in {Complete(s), Unknown} /\ s \in Settings
      BY <2>1, <2>3, WorldsAgree DEF NewestComplete, Wanted, KnownSettings
    <3>2. CASE KnownSettings(listing) = {}
      <4>1. listing[n] = Unknown
        BY <2>1, <3>1, <3>2 DEF KnownSettings
      <4>2. NoSettings \in Searches(listing)
        BY <3>2 DEF Searches
      <4>3. PICK m \in Newer(listing, n) : listing[m] = Complete(NoSettings)
        BY <4>1, <4>2, DoomedSpared
      <4>4. listing[m] \in Completeness
        BY <1>1 DEF ListingTypeOK, Newer
      <4>5. PICK t \in Settings : listing[m] = Complete(t)
        BY <4>3, <4>4, KindsDiffer DEF Completeness
      <4>6. QED
        BY <4>3, <4>5, KindsDiffer, SettingsAssumption
    <3>3. CASE KnownSettings(listing) # {}
      <4>1. s \in Searches(listing)
        BY <2>3, <3>3 DEF Wanted, Searches
      <4>2. PICK m \in Newer(listing, n) : listing[m] = Complete(s)
        BY <3>1, <4>1, DoomedSpared
      <4>3. w[m] = Complete(s)
        BY <4>2, WorldsAgree, KindsDiffer DEF Newer
      <4>4. QED
        BY <2>3, <4>2, <4>3 DEF NewestComplete
    <3>4. QED
      BY <3>2, <3>3
  <2>4. QED
    BY <2>1, <2>2, <2>3
<1>2. ASSUME ListingTypeOK, NEW n \in Shown, Lost(n), n \notin Doomed(listing, keeping) PROVE FALSE
  <2>1. PICK wanted \in Searches(listing) : Spares(listing, wanted, n)
    <3>1. ~(Cardinality(Newer(listing, n)) < keeping)
      BY <1>2, CountsCompare
    <3>2. QED
      BY <1>2, <3>1 DEF Doomed, fates
  <2>2. PICK s \in Wanted : /\ s \in Settings /\ listing[n] \in {Complete(s), Unknown}
                            /\ \A m \in Newer(listing, n) : listing[m] # Complete(s)
    <3>1. CASE KnownSettings(listing) = {}
      <4>1. \A m \in Shown, t \in Settings : listing[m] # Complete(t)
        BY <3>1 DEF KnownSettings
      <4>2. listing[n] = Unknown
        <5>1. wanted = NoSettings /\ listing[n] \in {Complete(NoSettings), Unknown}
          BY <2>1, <3>1 DEF Searches, Spares
        <5>2. listing[n] \in Completeness
          BY <1>2 DEF ListingTypeOK
        <5>3. listing[n] # Complete(NoSettings)
          BY <5>2, KindsDiffer, SettingsAssumption DEF Completeness
        <5>4. QED
          BY <5>1, <5>3
      <4>3. PICK s \in Settings : s \in Wanted
        BY <3>1, SettingsAssumption DEF Wanted
      <4>4. QED
        BY <4>1, <4>2, <4>3 DEF Newer
    <3>2. CASE KnownSettings(listing) # {}
      BY <2>1, <3>2 DEF Searches, Wanted, Spares, KnownSettings
    <3>3. QED
      BY <3>1, <3>2
  <2>3. PICK w \in Worlds : NewestComplete(w, s, n)
    BY <1>2, <2>2, WorldFor
  <2>4. QED
    BY <1>2, <2>2, <2>3
<1>3. ListingTypeOK => SparesExactlyThePossible
  BY <1>1, <1>2 DEF SparesExactlyThePossible
<1>4. QED
  BY <1>3, ListingTypeCorrect, PTL

(* An archive that stayed although `keep` newer ones were listed is past   *)
(* `keep` no longer, or some search spared it.                             *)
LEMMA LeftSpared ==
  ASSUME ListingTypeOK, NEW n \in Doomed(Left, keeping)
  PROVE  \E wanted \in Searches(listing) : Spares(listing, wanted, n)
<1>1. n \in Shown /\ n \notin Doomed(listing, keeping)
  BY DEF Doomed, Left
<1>2. PICK k \in 0..MaxArchives : listing \in [1..k -> Completeness]
  BY DEF ListingTypeOK
<1>3. Newer(Left, n) \subseteq Newer(listing, n) /\ Newer(listing, n) \subseteq 1..k
  BY <1>2 DEF Newer, Left
<1>4. IsFiniteSet(Newer(listing, n))
  BY <1>2, <1>3, FS_Interval, FS_Subset, MaxArchivesAssumption
<1>5. /\ Cardinality(Newer(Left, n)) <= Cardinality(Newer(listing, n))
      /\ Cardinality(Newer(Left, n)) \in Nat /\ Cardinality(Newer(listing, n)) \in Nat
  BY <1>3, <1>4, FS_Subset, FS_CardinalityType
<1>6. ~(Cardinality(Newer(Left, n)) < keeping)
  BY DEF Doomed, fates
<1>7. keeping \in Nat
  BY KeepsAssumption DEF ListingTypeOK
<1>8. ~(Cardinality(Newer(listing, n)) < keeping)
  BY <1>5, <1>6, <1>7
<1>9. QED
  BY <1>1, <1>8 DEF Doomed, fates

(* What the next sweep takes has a note that says nothing: an archive      *)
(* spared for its own settings still names them when the others are gone.  *)
LEMMA NextTakesUnsaid ==
  ASSUME ListingTypeOK, NEW n \in Doomed(Left, keeping)
  PROVE  listing[n] = Unknown
<1>1. n \in Shown /\ n \in DOMAIN Left /\ Left[n] = listing[n]
  BY DEF Doomed, Left
<1>2. PICK wanted \in Searches(listing) : Spares(listing, wanted, n)
  BY LeftSpared
<1> SUFFICES ASSUME listing[n] = Complete(wanted) PROVE FALSE
  BY <1>2 DEF Spares
<1>3. wanted \in Settings
  <2>1. listing[n] \in Completeness
    BY <1>1 DEF ListingTypeOK
  <2>2. PICK t \in Settings : listing[n] = Complete(t)
    BY <2>1, KindsDiffer DEF Completeness
  <2>3. QED
    BY <2>2, KindsDiffer
<1>4. wanted \in Searches(Left)
  BY <1>1, <1>3 DEF Searches, KnownSettings
<1>5. PICK m \in Newer(Left, n) : Left[m] = Complete(wanted)
  BY <1>1, <1>4, DoomedSpared
<1>6. m \in Newer(listing, n) /\ listing[m] = Complete(wanted)
  BY <1>5 DEF Newer, Left
<1>7. QED
  BY <1>2, <1>6 DEF Spares

(* A second sweep makes fewer searches, for the notes the first took with  *)
(* it, and still deletes only what says nothing, behind a complete archive *)
(* that stays.                                                             *)
THEOREM NextSweepSafe == ListingSpec => []NextSweepTakesOnlyTheUnsaid
<1>1. ListingTypeOK => NextSweepTakesOnlyTheUnsaid
  <2> SUFFICES ASSUME ListingTypeOK, NEW n \in Doomed(Left, keeping)
               PROVE  /\ listing[n] = Unknown
                      /\ \E m \in Newer(Left, n) \ Doomed(Left, keeping) :
                            listing[m].is = "Complete"
    BY DEF NextSweepTakesOnlyTheUnsaid
  <2>1. listing[n] = Unknown
    BY NextTakesUnsaid
  <2>2. Left[n] = Unknown
    BY <2>1 DEF Doomed, Left
  <2>3. PICK wanted : wanted \in Searches(Left)
    BY DEF Searches
  <2>4. PICK m \in Newer(Left, n) : Left[m] = Complete(wanted)
    BY <2>2, <2>3, DoomedSpared
  <2>5. listing[m] = Complete(wanted)
    BY <2>4 DEF Newer, Left
  <2>6. m \notin Doomed(Left, keeping)
    BY <2>5, NextTakesUnsaid, KindsDiffer
  <2>7. QED
    BY <2>1, <2>4, <2>5, <2>6, KindsDiffer
<1>2. QED
  BY <1>1, ListingTypeCorrect, PTL

==============================================================================
