---------------------------- MODULE DoctorProofs ----------------------------
(***************************************************************************)
(* What a backup's note, its exit status, `diff` and `doctor` may be taken *)
(* for, whatever the home holds, whatever of it could be read and however  *)
(* it changed meanwhile.                                                   *)
(***************************************************************************)
EXTENDS Doctor, TLAPS

(* A selection and what is described of it are made of the repositories.   *)
LEMMA ReadingType ==
  ASSUME InventoryTypeOK, NEW sel \in Selections, NEW v \in Sights
  PROVE  /\ v \in Views /\ Stored \subseteq Repos
         /\ own_repository_ids(v) \subseteq Stored
         /\ selected(sel, v) \subseteq Repos /\ described(sel, v) \subseteq Repos
         /\ Meant(sel) \subseteq Repos /\ Evident(sel, v) \subseteq Repos
         /\ sight(sel, v) \in {"Seen", "Guessed", "Blind"}
<1>1. v \in Views
  BY InventoryAssumption
<1>2. Stored \subseteq Repos /\ own_repository_ids(v) \subseteq Stored /\ seeded \subseteq Repos
  BY DEF Stored, own_repository_ids, InventoryTypeOK
<1>3. private_selection(v) \subseteq Stored
  BY <1>2 DEF private_selection
<1>4. selected(sel, v) \subseteq Repos
  BY <1>2, <1>3, InventoryAssumption DEF selected
<1>5. described(sel, v) \subseteq Repos
  BY <1>2, <1>4 DEF described
<1>6. Meant(sel) \subseteq Repos
  BY <1>2, InventoryAssumption DEF Meant
<1>7. Evident(sel, v) \subseteq Repos
  BY <1>6 DEF Evident
<1>8. sight(sel, v) \in {"Seen", "Guessed", "Blind"}
  BY DEF sight
<1>9. QED
  BY <1>1, <1>2, <1>4, <1>5, <1>6, <1>7, <1>8

(* The refs a reading records are counts of this identity's signatures.    *)
LEMMA SigrefsType ==
  ASSUME InventoryTypeOK, NEW r \in Repos
  PROVE  0 \in Work /\ work[r] \in Work /\ sigrefs(r) \in Work /\ sigrefs(r) <= work[r]
<1>1. 0 \in Work /\ work[r] \in Work
  BY InventoryAssumption DEF InventoryTypeOK, Work
<1>2. QED
  BY <1>1 DEF sigrefs, Work

(* The fields of a run, one by one, which is how the steps speak of them.  *)
LEMMA RunFields ==
  ASSUME NEW q
  PROVE  q \in Runs =>
         /\ q.asked \in Selections \cup {"none"} /\ q.sight \in {"Seen", "Guessed", "Blind"}
         /\ q.todo \subseteq Repos /\ q.described \subseteq Repos /\ q.sigrefs \in [Repos -> Work]
         /\ q.seeded \subseteq Repos /\ q.bundles \in [Repos -> Work \cup {NoBundle}]
         /\ q.dropped \subseteq Repos /\ q.meant \subseteq Repos /\ q.evident \subseteq Repos
BY DEF Runs

LEMMA NoRunType == NoRun \in Runs
<1>1. 0 \in Work /\ NoBundles \in [Repos -> Work \cup {NoBundle}]
  BY InventoryAssumption DEF Work, NoBundles
<1>2. [r \in Repos |-> 0] \in [Repos -> Work]
  BY <1>1
<1>3. QED
  BY <1>1, <1>2 DEF NoRun, Runs

(* Every step of the home, of the run and of its record keeps the types.   *)
LEMMA InventoryTypeStep ==
  ASSUME InventoryTypeOK, InventoryNext
  PROVE  InventoryTypeOK'
<1> USE DEF InventoryTypeOK, hvars
<1>1. ASSUME NEW r \in Repos, Sign(r) \/ Clone(r) \/ Remove(r) \/ Breaks(r) \/ Repair(r) \/ Seed(r)
      PROVE  InventoryTypeOK'
  <2>1. Change /\ changes' \in 0..MaxChanges
    BY <1>1, InventoryAssumption DEF Change, Sign, Clone, Remove, Breaks, Repair, Seed
  <2>2. storage' \in [Repos -> {"gone", "sound", "damaged"}]
    BY <1>1 DEF Sign, Clone, Remove, Breaks, Repair, Seed
  <2>3. work' \in [Repos -> Work]
    BY <1>1, InventoryAssumption DEF Sign, Clone, Remove, Breaks, Repair, Seed, Work
  <2>4. seeded' \subseteq Repos
    BY <1>1 DEF Sign, Clone, Remove, Breaks, Repair, Seed
  <2>5. QED
    BY <2>1, <2>2, <2>3, <2>4 DEF Change
<1>2. ASSUME NEW n \in 0..MaxRuns, TakeAway(n) PROVE InventoryTypeOK'
  BY <1>2 DEF TakeAway
<1>3. ASSUME NEW sel \in Selections, NEW v \in Sights, Collect(sel, v) PROVE InventoryTypeOK'
  <2>1. runs' \in 0..MaxRuns /\ still' \in BOOLEAN
    <3>1. v.own \in BOOLEAN /\ v.private \in BOOLEAN
      BY ReadingType DEF Views
    <3>2. QED
      BY <1>3, <3>1, InventoryAssumption DEF Collect, Whole
  <2>2. run' \in Runs
    <3> DEFINE refs == [r \in Repos |-> IF r \in described(sel, v) THEN sigrefs(r) ELSE 0]
    <3>1. refs \in [Repos -> Work]
      BY SigrefsType
    <3>2. NoBundles \in [Repos -> Work \cup {NoBundle}]
      BY DEF NoBundles
    <3> HIDE DEF refs
    <3>3. run' = [asked |-> sel, sight |-> sight(sel, v), todo |-> selected(sel, v),
                  described |-> described(sel, v), sigrefs |-> refs,
                  seeded |-> seeded, bundles |-> NoBundles, dropped |-> {},
                  meant |-> Meant(sel), evident |-> Evident(sel, v)]
      BY <1>3 DEF Collect, refs
    <3>4. QED
      BY <3>1, <3>2, <3>3, ReadingType DEF Runs
  <2>3. QED
    BY <1>3, <2>1, <2>2 DEF Collect
<1>4. ASSUME NEW r \in Repos, Bundle(r) \/ BundleFails(r) PROVE InventoryTypeOK'
  <2>1. run' \in Runs /\ run'.asked = run.asked
    <3>1. CASE Bundle(r)
      <4>1. [run.bundles EXCEPT ![r] = work[r]] \in [Repos -> Work \cup {NoBundle}]
        BY RunFields
      <4>2. run' = [run EXCEPT !.todo = @ \ {r}, !.bundles = [run.bundles EXCEPT ![r] = work[r]]]
        BY <3>1 DEF Bundle, Runs
      <4>3. QED
        BY <4>1, <4>2, RunFields DEF Runs
    <3>2. CASE BundleFails(r)
      BY <3>2 DEF BundleFails, Runs
    <3>3. QED
      BY <1>4, <3>1, <3>2
  <2>2. QED
    BY <1>4, <2>1 DEF Bundle, BundleFails
<1>5. CASE AllBundled
  BY <1>5 DEF AllBundled
<1>6. ASSUME NEW place \in Places, Publish(place) PROVE InventoryTypeOK'
  <2>1. [bundles |-> run.bundles, place |-> place] \in Archives
    BY RunFields DEF Archives
  <2>2. /\ taken' \in [0..MaxRuns -> Archives] /\ present' \subseteq 0..MaxRuns
        /\ taken'[runs].place = place
    BY <1>6, <2>1 DEF Publish
  <2>3. QED
    BY <1>6, <2>2 DEF Publish
<1>7. CASE Unlink
  BY <1>7 DEF Unlink
<1>8. CASE CannotRemember \/ Kill
  BY <1>8, NoRunType DEF CannotRemember, Kill
<1>9. ASSUME NEW as \in Records \cup {Unreadable}, Remember(as) PROVE InventoryTypeOK'
  BY <1>9, NoRunType DEF Remember
<1>10. ASSUME Remember(from_manifest) PROVE from_manifest \in Records
  <2>1. taken[runs].place \in Places /\ run.asked \in Selections
    BY <1>10 DEF Remember
  <2>2. QED
    BY <2>1, RunFields DEF from_manifest, Records
<1>11. QED
  BY <1>1, <1>2, <1>3, <1>4, <1>5, <1>6, <1>7, <1>8, <1>9, <1>10 DEF InventoryNext

(* A run says nothing of its own to the user of the two verbs.             *)
LEMMA InventoryIsSilent ==
  ASSUME InventoryNext
  PROVE  answer' = answer
BY DEF InventoryNext, Change, Sign, Clone, Remove, Breaks, Repair, Seed, TakeAway, Collect,
       Bundle, BundleFails, AllBundled, Publish, Unlink, CannotRemember, Remember, Kill

(* `doctor` has five words and no other.                                   *)
LEMMA VerdictType ==
  ASSUME NEW v \in Sights, NEW f \in Facts
  PROVE  Range(examine(v, f.here, f.recorded, f.same_device, f.routing, f.opens, f.synced, f.any))
           \subseteq Verdict
<1> USE DEF Verdict
<1>1. \A w \in Verdict : qualified_by_unread(w, v) \in Verdict
  BY DEF qualified_by_unread
<1>2. check_backup_freshness(f.here, f.recorded) \in Verdict
  BY DEF check_backup_freshness, judged_age
<1>3. check_archive_location(f.same_device) \in Verdict
  <2>1. f.same_device \in {"yes", "no", "unknown"}
    BY DoctorAssumption
  <2>2. QED
    BY <2>1 DEF check_archive_location
<1>4. check_private_coverage(v, f.routing, f.opens) \in Verdict
  BY DEF check_private_coverage
<1>5. check_sole_delegate(v) \in Verdict
  BY DEF check_sole_delegate
<1>6. check_replication(v, f.routing) \in Verdict
  BY DEF check_replication
<1>7. check_sigrefs_propagation(v, f.synced, f.any) \in Verdict
  BY DEF check_sigrefs_propagation
<1>8. QED
  <2> HIDE DEF Verdict
  <2>1. QED
    BY <1>1, <1>2, <1>3, <1>4, <1>5, <1>6, <1>7 DEF examine, Range

LEMMA InitType == Init => TypeOK
<1> SUFFICES ASSUME Init PROVE TypeOK
  OBVIOUS
<1> USE DEF Init, InventoryInit
<1>1. {0, 1} \subseteq Work /\ 0 \in 0..MaxRuns
  BY InventoryAssumption DEF Work
<1>2. work \in [Repos -> Work] /\ work \in [Repos -> Work \cup {NoBundle}]
  BY <1>1
<1>3. record \in Records \cup {Absent, Unreadable}
  <2>1. ASSUME NEW counted \in BOOLEAN, NEW place \in Places
        PROVE  PastRecord(counted, place) \in Records
    BY <1>1, <1>2 DEF PastRecord, Records, Stored
  <2>2. QED
    BY <2>1 DEF Places
<1>4. taken \in [0..MaxRuns -> Archives]
  <2>1. NoArchive \in Archives
    BY DEF NoArchive, Archives, NoBundles
  <2>2. record # Absent => record.place \in Places
    BY DEF PastRecord, Places
  <2>3. record # Absent => [bundles |-> work, place |-> record.place] \in Archives
    BY <1>2, <2>2 DEF Archives
  <2>4. QED
    BY <2>1, <2>3
<1>5. QED
  BY <1>1, <1>2, <1>3, <1>4, NoRunType, InventoryAssumption DEF TypeOK, InventoryTypeOK

(* Every variable keeps its type, whatever the home and the sights.        *)
THEOREM DoctorTypeCorrect == Spec => []TypeOK
<1>1. TypeOK /\ [Next]_vars => TypeOK'
  <2> SUFFICES ASSUME TypeOK, [Next]_vars PROVE TypeOK'
    OBVIOUS
  <2>1. CASE InventoryNext
    BY <2>1, InventoryTypeStep, InventoryIsSilent DEF TypeOK
  <2>2. ASSUME NEW v \in Sights, Diff(v) PROVE TypeOK'
    BY <2>2 DEF Diff, TypeOK, InventoryTypeOK, hvars
  <2>3. ASSUME NEW v \in Sights, NEW f \in Facts, Examine(v, f) PROVE TypeOK'
    <3>1. answer'.by = "doctor" /\ Range(answer'.checks) \subseteq Verdict
      BY <2>3, VerdictType DEF Examine
    <3>2. InventoryTypeOK'
      BY <2>3 DEF Examine, TypeOK, InventoryTypeOK, hvars
    <3>3. QED
      BY <3>1, <3>2 DEF TypeOK
  <2>4. CASE Return
    BY <2>4 DEF Return, TypeOK, InventoryTypeOK, hvars
  <2>5. CASE UNCHANGED vars
    BY <2>5 DEF vars, TypeOK, InventoryTypeOK, hvars
  <2> QED
    BY <2>1, <2>2, <2>3, <2>4, <2>5 DEF Next
<1>2. QED
  BY <1>1, InitType, PTL DEF Spec

(* A reading that is not told to be a guess selects all that is meant, and *)
(* one that is not blind all that it could tell is meant.                  *)
LEMMA SightIsHonest ==
  ASSUME InventoryTypeOK, NEW sel \in Selections, NEW v \in Sights
  PROVE  /\ sight(sel, v) = "Seen" => Meant(sel) \subseteq selected(sel, v)
         /\ sight(sel, v) # "Blind" => Evident(sel, v) \subseteq selected(sel, v)
<1>1. v \in Views
  BY InventoryAssumption
<1>2. CASE sel = "private"
  <2>1. Meant(sel) = Stored \cap Private /\ selected(sel, v) = private_selection(v)
    BY <1>2 DEF Meant, selected
  <2>2. ASSUME NEW r \in Meant(sel), r \in own_repository_ids(v), v.rad
        PROVE  r \in selected(sel, v)
    BY <2>1, <2>2 DEF private_selection
  <2>3. sight(sel, v) # "Blind" => v.rad \/ Stored = {}
    BY <1>2 DEF sight
  <2>4. sight(sel, v) = "Seen" /\ v.rad => Private \subseteq Listed(v)
    <3>1. sight(sel, v) = "Seen" => OwnSight(v) # "Partial"
      BY <1>2 DEF sight
    <3>2. OwnSight(v) # "Partial" /\ v.rad => v.private
      BY <1>1 DEF OwnSight, Views
    <3>3. QED
      BY <3>1, <3>2 DEF Listed
  <2>5. sight(sel, v) = "Seen" => Meant(sel) \subseteq selected(sel, v)
    BY <2>1, <2>2, <2>3, <2>4 DEF own_repository_ids
  <2>6. Evident(sel, v) \subseteq Meant(sel) \cap own_repository_ids(v)
    BY <1>2, <2>1 DEF Evident, own_repository_ids, has_namespace_at
  <2>7. QED
    BY <2>1, <2>2, <2>3, <2>5, <2>6
<1>3. CASE sel = "mine"
  <2>1. /\ selected(sel, v) = own_repository_ids(v)
        /\ Meant(sel) = {r \in Stored : r \in Own \cup Private \/ work[r] > 0}
    BY <1>3 DEF Meant, selected
  <2>2. Evident(sel, v) \subseteq selected(sel, v)
    BY <1>3, <2>1 DEF Evident, own_repository_ids, has_namespace_at
  <2>3. ASSUME sight(sel, v) = "Seen" PROVE Meant(sel) \subseteq selected(sel, v)
    <3>1. OwnSight(v) # "Partial" /\ (v.rad \/ Stored = {})
      BY <1>1, <1>3, <2>3 DEF sight, Views
    <3>2. v.rad => v.own /\ v.private
      BY <1>1, <3>1 DEF OwnSight, Views
    <3>3. \A r \in Stored \cap v.unchecked : r \in Listed(v)
      BY <3>1 DEF OwnSight
    <3>4. v.rad => Listed(v) = Own \cup Private
      BY <3>2 DEF Listed
    <3>5. QED
      BY <2>1, <3>1, <3>3, <3>4 DEF own_repository_ids, has_namespace_at
  <2>4. QED
    BY <2>2, <2>3
<1>4. CASE sel \in {"none", "seeded", "all"}
  BY <1>4 DEF Meant, Evident, selected
<1>5. QED
  BY <1>2, <1>3, <1>4, InventoryAssumption

(* One step keeps the account: each repository goes from what is still to  *)
(* be bundled to what is bundled or dropped.                               *)
LEMMA AccountStep ==
  ASSUME TypeOK, AccountInv, [Next]_vars
  PROVE  AccountInv'
<1> USE DEF AccountInv, hvars
<1>1. ASSUME NEW r \in Repos, Sign(r) \/ Clone(r) \/ Remove(r) \/ Breaks(r) \/ Repair(r) \/ Seed(r)
      PROVE  AccountInv'
  BY <1>1 DEF Change, Sign, Clone, Remove, Breaks, Repair, Seed, Holding
<1>2. ASSUME NEW n \in 0..MaxRuns, TakeAway(n) PROVE AccountInv'
  BY <1>2 DEF TakeAway, Holding
<1>3. ASSUME NEW sel \in Selections, NEW v \in Sights, Collect(sel, v) PROVE AccountInv'
  <2>1. /\ pc' = "bundling" /\ run'.sight = sight(sel, v) /\ run'.todo = selected(sel, v)
        /\ run'.meant = Meant(sel) /\ run'.evident = Evident(sel, v)
    BY <1>3 DEF Collect
  <2>2. InventoryTypeOK
    BY DEF TypeOK
  <2>3. QED
    BY <2>1, <2>2, SightIsHonest
<1>4. ASSUME NEW r \in Repos, Bundle(r) \/ BundleFails(r) PROVE AccountInv'
  <2>1. run \in Runs /\ work[r] \in Work /\ pc = "bundling" /\ pc' = pc
    BY <1>4 DEF TypeOK, InventoryTypeOK, Bundle, BundleFails
  <2>2. CASE Bundle(r)
    <3>1. /\ run'.todo = run.todo \ {r} /\ run'.dropped = run.dropped
          /\ run'.sight = run.sight /\ run'.meant = run.meant /\ run'.evident = run.evident
          /\ run'.bundles = [run.bundles EXCEPT ![r] = work[r]]
      BY <2>1, <2>2 DEF Bundle, Runs
    <3>2. work[r] # NoBundle
      BY <2>1, InventoryAssumption DEF Work, NoBundle
    <3>3. Holding(run'.bundles) = Holding(run.bundles) \cup {r}
      BY <2>1, <3>1, <3>2, RunFields DEF Holding
    <3>4. QED
      BY <2>1, <3>1, <3>3
  <2>3. CASE BundleFails(r)
    <3>1. /\ run'.todo = run.todo \ {r} /\ run'.dropped = run.dropped \cup {r}
          /\ run'.sight = run.sight /\ run'.meant = run.meant /\ run'.evident = run.evident
          /\ run'.bundles = run.bundles
      BY <2>1, <2>3 DEF BundleFails, Runs
    <3>2. QED
      BY <2>1, <3>1
  <2>4. QED
    BY <1>4, <2>2, <2>3
<1>5. CASE AllBundled
  BY <1>5 DEF AllBundled
<1>6. ASSUME NEW place \in Places, Publish(place) PROVE AccountInv'
  <2>1. taken'[runs] = [bundles |-> run.bundles, place |-> place]
    BY <1>6 DEF Publish, TypeOK, InventoryTypeOK
  <2>2. QED
    BY <1>6, <2>1 DEF Publish
<1>7. CASE Unlink \/ CannotRemember \/ Kill \/ (\E as : Remember(as))
  BY <1>7 DEF Unlink, CannotRemember, Kill, Remember
<1>8. CASE (\E v \in Sights : Diff(v)) \/ (\E v \in Sights, f \in Facts : Examine(v, f)) \/ Return
  BY <1>8 DEF Diff, Examine, Return
<1>9. CASE UNCHANGED vars
  BY <1>9 DEF vars
<1>10. QED
  BY <1>1, <1>2, <1>3, <1>4, <1>5, <1>6, <1>7, <1>8, <1>9 DEF Next, InventoryNext

(* The account of a run is never short of what it was asked for.           *)
THEOREM AccountInvariant == Spec => []AccountInv
<1>1. Init => AccountInv
  BY DEF Init, InventoryInit, AccountInv
<1>2. QED
  BY <1>1, AccountStep, DoctorTypeCorrect, PTL DEF Spec

(* An archive whose note says nothing is missing holds all its selection   *)
(* means, and a run that exits 0 carried all it could tell is meant, for   *)
(* any repositories, sights and changes of the home under the run.         *)
THEOREM NoteAndExit == Spec => []NoteAndExitAreTrue
<1>1. TypeOK /\ AccountInv => NoteAndExitAreTrue
  <2> SUFFICES ASSUME TypeOK, AccountInv, pc = "published" PROVE NoteAndExitAreTrue
    BY DEF NoteAndExitAreTrue, NoteIsTrue, ExitIsHeard
  <2>1. taken[runs].bundles = run.bundles /\ run.todo = {}
    BY DEF AccountInv
  <2>2. ~missing => run.meant \subseteq Holding(run.bundles)
    BY <2>1 DEF AccountInv, missing
  <2>3. ~is_incomplete => run.evident \subseteq Holding(run.bundles)
    BY <2>1 DEF AccountInv, is_incomplete
  <2>4. QED
    BY <2>1, <2>2, <2>3 DEF NoteAndExitAreTrue, NoteIsTrue, ExitIsHeard, Holding
<1>2. QED
  BY <1>1, AccountInvariant, DoctorTypeCorrect, PTL

(* What is in order stays so when the counts of work only grow.            *)
LEMMA OrderStays ==
  ASSUME NEW refs \in [Repos -> Work], NEW bundles \in [Repos -> Work \cup {NoBundle}],
         NEW before \in [Repos -> Work], NEW after \in [Repos -> Work], NEW r \in Repos,
         before[r] <= after[r], refs[r] <= before[r],
         bundles[r] # NoBundle => refs[r] <= bundles[r] /\ bundles[r] <= before[r]
  PROVE  refs[r] <= after[r] /\ (bundles[r] # NoBundle => refs[r] <= bundles[r] /\ bundles[r] <= after[r])
<1>1. Work \subseteq Int /\ NoBundle \in Int
  BY InventoryAssumption DEF Work, NoBundle
<1>2. refs[r] \in Int /\ bundles[r] \in Int /\ before[r] \in Int /\ after[r] \in Int
  BY <1>1
<1>3. QED
  BY <1>2

(* One step keeps the order of refs, bundles and work, in the run and in   *)
(* the record.                                                             *)
LEMMA RecordStep ==
  ASSUME TypeOK, AccountInv, RecordInv, [Next]_vars
  PROVE  RecordInv'
<1> USE DEF hvars
<1> DEFINE n == record.n
<1>1. /\ InventoryTypeOK /\ run \in Runs /\ runs \in 0..MaxRuns
      /\ work \in [Repos -> Work] /\ taken \in [0..MaxRuns -> Archives]
  BY DEF TypeOK, InventoryTypeOK
<1>2. HasRecord => record \in Records /\ n \in 0..MaxRuns /\ taken[n] \in Archives
  BY DEF TypeOK, InventoryTypeOK, HasRecord, Records, Absent, Unreadable
<1>3. ASSUME NEW r \in Repos, Sign(r) \/ Clone(r) \/ Remove(r) \/ Breaks(r) \/ Repair(r) \/ Seed(r)
      PROVE  RecordInv'
  <2>1. work' \in [Repos -> Work] /\ \A q \in Repos : work[q] <= work'[q]
    BY <1>1, <1>3, InventoryAssumption DEF Sign, Clone, Remove, Breaks, Repair, Seed, Work
  <2>2. UNCHANGED <<pc, run, runs, taken, record>>
    BY <1>3 DEF Change, Sign, Clone, Remove, Breaks, Repair, Seed
  <2>3. pc # "idle" => InOrder(run.sigrefs, run.bundles)'
    <3>1. run.sigrefs \in [Repos -> Work] /\ run.bundles \in [Repos -> Work \cup {NoBundle}]
      BY <1>1, RunFields
    <3>2. pc # "idle" => InOrder(run.sigrefs, run.bundles)
      BY DEF RecordInv
    <3>3. ASSUME pc # "idle", NEW q \in Repos
          PROVE  /\ run.sigrefs[q] <= work'[q]
                 /\ run.bundles[q] # NoBundle =>
                      run.sigrefs[q] <= run.bundles[q] /\ run.bundles[q] <= work'[q]
      <4>1. /\ run.sigrefs[q] <= work[q]
            /\ run.bundles[q] # NoBundle =>
                 run.sigrefs[q] <= run.bundles[q] /\ run.bundles[q] <= work[q]
        BY <3>2, <3>3 DEF InOrder
      <4>2. QED
        BY <1>1, <2>1, <3>1, <4>1, OrderStays
    <3>4. QED
      BY <2>2, <3>3 DEF InOrder
  <2>4. HasRecord => InOrder(record.sigrefs, taken[n].bundles)'
    <3>1. HasRecord => /\ record.sigrefs \in [Repos -> Work]
                       /\ taken[n].bundles \in [Repos -> Work \cup {NoBundle}]
      BY <1>2 DEF Records, Archives
    <3>2. HasRecord => InOrder(record.sigrefs, taken[n].bundles)
      BY DEF RecordInv, HasRecord
    <3>3. ASSUME HasRecord, NEW q \in Repos
          PROVE  /\ record.sigrefs[q] <= work'[q]
                 /\ taken[n].bundles[q] # NoBundle =>
                      record.sigrefs[q] <= taken[n].bundles[q] /\ taken[n].bundles[q] <= work'[q]
      <4>1. /\ record.sigrefs[q] <= work[q]
            /\ taken[n].bundles[q] # NoBundle =>
                 record.sigrefs[q] <= taken[n].bundles[q] /\ taken[n].bundles[q] <= work[q]
        BY <3>2, <3>3 DEF InOrder
      <4>2. QED
        BY <1>1, <2>1, <3>1, <3>3, <4>1, OrderStays
    <3>4. QED
      BY <2>2, <3>3 DEF InOrder
  <2>5. QED
    BY <2>2, <2>3, <2>4 DEF RecordInv, HasRecord, Holding
<1>4. ASSUME NEW m \in 0..MaxRuns, TakeAway(m) PROVE RecordInv'
  BY <1>4 DEF TakeAway, RecordInv, InOrder, Holding
<1>5. ASSUME NEW sel \in Selections, NEW v \in Sights, Collect(sel, v) PROVE RecordInv'
  <2>1. /\ pc = "idle" /\ pc' = "bundling" /\ runs' = runs + 1
        /\ UNCHANGED <<work, taken, record>>
    BY <1>5 DEF Collect
  <2>2. InOrder(run.sigrefs, run.bundles)'
    <3>1. /\ run'.sigrefs = [r \in Repos |-> IF r \in described(sel, v) THEN sigrefs(r) ELSE 0]
          /\ run'.bundles = NoBundles
      BY <1>5 DEF Collect
    <3>2. \A r \in Repos : run'.sigrefs[r] <= work[r]
      BY <1>1, <3>1, SigrefsType DEF Work
    <3>3. QED
      BY <2>1, <3>1, <3>2 DEF InOrder, NoBundles
  <2>3. QED
    BY <1>1, <1>2, <2>1, <2>2 DEF RecordInv, InOrder, Holding, HasRecord
<1>6. ASSUME NEW r \in Repos, Bundle(r) \/ BundleFails(r) PROVE RecordInv'
  <2>1. UNCHANGED <<pc, work, runs, taken, record>> /\ pc = "bundling"
    BY <1>6 DEF Bundle, BundleFails
  <2>2. /\ run'.sigrefs = run.sigrefs
        /\ \A q \in Repos : run'.bundles[q] = run.bundles[q] \/ (q = r /\ run'.bundles[q] = work[q])
    <3>1. CASE Bundle(r)
      <4>1. run'.sigrefs = run.sigrefs /\ run'.bundles = [run.bundles EXCEPT ![r] = work[r]]
        BY <1>1, <3>1 DEF Bundle, Runs
      <4>2. QED
        BY <1>1, <4>1, RunFields
    <3>2. CASE BundleFails(r)
      BY <1>1, <3>2 DEF BundleFails, Runs
    <3>3. QED
      BY <1>6, <3>1, <3>2
  <2>3. InOrder(run.sigrefs, run.bundles)'
    BY <1>1, <2>1, <2>2, RunFields DEF RecordInv, InOrder, Work
  <2>4. QED
    BY <2>1, <2>3 DEF RecordInv, InOrder, Holding
<1>7. CASE AllBundled
  BY <1>7 DEF AllBundled, RecordInv, InOrder, Holding
<1>8. ASSUME NEW place \in Places, Publish(place) PROVE RecordInv'
  <2>1. HasRecord => n < runs /\ taken'[n] = taken[n]
    <3>1. HasRecord => n < runs
      BY <1>8 DEF Publish, RecordInv, HasRecord
    <3>2. QED
      BY <1>1, <1>2, <1>8, <3>1 DEF Publish
  <2>2. QED
    BY <1>8, <2>1 DEF Publish, RecordInv, InOrder, Holding, HasRecord
<1>9. CASE Unlink \/ CannotRemember \/ Kill \/ Remember(Unreadable)
  BY <1>9 DEF Unlink, CannotRemember, Kill, Remember, RecordInv, InOrder, Holding, Absent, Unreadable
<1>10. ASSUME Remember(from_manifest) PROVE RecordInv'
  <2>1. pc = "rewriting" /\ pc' = "idle" /\ record' = from_manifest /\ UNCHANGED <<work, runs, taken>>
    BY <1>10 DEF Remember
  <2>2. taken[runs].bundles = run.bundles
    BY <1>10, <2>1 DEF AccountInv
  <2>3. /\ record'.n = runs /\ record'.carried = Holding(run.bundles)
        /\ record'.sigrefs = run.sigrefs
    BY <2>1 DEF from_manifest, Holding
  <2>4. InOrder(run.sigrefs, run.bundles)
    BY <2>1 DEF RecordInv
  <2>5. QED
    BY <1>1, <2>1, <2>2, <2>3, <2>4 DEF RecordInv, InOrder, Holding
<1>11. CASE (\E v \in Sights : Diff(v)) \/ (\E v \in Sights, f \in Facts : Examine(v, f)) \/ Return
  BY <1>11 DEF Diff, Examine, Return, RecordInv, InOrder, Holding
<1>12. CASE UNCHANGED vars
  BY <1>12 DEF vars, RecordInv, InOrder, Holding
<1>13. QED
  BY <1>3, <1>4, <1>5, <1>6, <1>7, <1>8, <1>9, <1>10, <1>11, <1>12 DEF Next, InventoryNext

(* Nothing in the record outruns the archive it is about, nor that the     *)
(* work there is now.                                                      *)
THEOREM RecordInvariant == Spec => []RecordInv
<1>1. Init => RecordInv
  <2> SUFFICES ASSUME Init PROVE RecordInv
    OBVIOUS
  <2>1. TypeOK
    BY InitType
  <2>2. CASE record = Absent
    BY <2>2 DEF Absent, Init, InventoryInit, RecordInv
  <2>3. CASE record # Absent
    <3>1. /\ record.n = 0 /\ record.carried = Stored /\ record.sigrefs = work
          /\ pc = "idle" /\ runs = 0 /\ Stored = Repos
      BY <2>3 DEF Init, InventoryInit, PastRecord, Stored
    <3>2. taken[0].bundles = work
      BY <2>3, InventoryAssumption DEF Init, InventoryInit
    <3>3. \A r \in Repos : work[r] \in Nat
      BY <2>1, InventoryAssumption DEF TypeOK, InventoryTypeOK, Work
    <3>4. Holding(work) = Repos /\ InOrder(work, work)
      BY <3>3 DEF Holding, InOrder, NoBundle
    <3>5. QED
      BY <3>1, <3>2, <3>4 DEF RecordInv, InOrder
  <2>4. QED
    BY <2>2, <2>3
<1>2. QED
  BY <1>1, RecordStep, DoctorTypeCorrect, AccountInvariant, PTL DEF Spec

(* A reading that sees everything makes out what is the user's.            *)
LEMMA WholeSight ==
  ASSUME InventoryTypeOK, NEW v \in Sights, v.own, v.private,
         \A r \in Stored \cap v.unchecked : r \in Listed(v)
  PROVE  own_repository_ids(v) = Mine
<1>1. Listed(v) = Own \cup Private
  BY DEF Listed
<1>2. QED
  BY <1>1 DEF own_repository_ids, Mine, has_namespace_at

LEMMA WholeReading ==
  ASSUME InventoryTypeOK, NEW v \in Sights, Whole(v),
         NEW sel \in {"none", "private", "mine", "seeded", "all"}
  PROVE  described(sel, v) = WholeDescribed(sel)
<1>1. own_repository_ids(v) = Mine
  BY WholeSight DEF Whole
<1>2. selected(sel, v) = Meant(sel) \/ sel = "private"
  BY <1>1 DEF selected, Meant, Mine
<1>3. QED
  BY <1>1, <1>2 DEF described, WholeDescribed

LEMMA AskedCompares ==
  ASSUME NEW sel \in Selections
  PROVE  /\ sel \in {"none", "private", "mine", "seeded", "all"}
         /\ comparison_selection(sel) = sel
BY InventoryAssumption DEF comparison_selection

(* While an answer stands, nothing changes but that the verb returns.      *)
LEMMA AnswerStands ==
  ASSUME StillInv, [Next]_vars, answer # Quiet
  PROVE  answer' = Quiet \/ UNCHANGED vars
<1>1. pc = "idle"
  BY DEF StillInv
<1>2. ~InventoryNext
  BY <1>1 DEF InventoryNext, Change, Sign, Clone, Remove, Breaks, Repair, Seed, TakeAway,
              Collect, Bundle, BundleFails, AllBundled, Publish, Unlink, CannotRemember,
              Remember, Kill
<1>3. QED
  BY <1>2 DEF Next, Diff, Examine, Return

(* A new answer is the word of `diff` or of `doctor`.                      *)
LEMMA AnswerGiven ==
  ASSUME [Next]_vars, answer = Quiet
  PROVE  \/ answer' = Quiet \/ \E v \in Sights : Diff(v)
         \/ answer'.by = "doctor" /\ \E v \in Sights, f \in Facts : Examine(v, f)
<1>1. CASE InventoryNext
  BY <1>1, InventoryIsSilent
<1>2. CASE (\E v \in Sights : Diff(v)) \/ Return
  BY <1>2 DEF Return
<1>3. ASSUME NEW v \in Sights, NEW f \in Facts, Examine(v, f)
      PROVE  answer'.by = "doctor" /\ \E w \in Sights, g \in Facts : Examine(w, g)
  <2>1. answer'.by = "doctor"
    BY <1>3 DEF Examine
  <2>2. QED
    BY <1>3, <2>1
<1>4. CASE UNCHANGED vars
  BY <1>4 DEF vars
<1>5. QED
  BY <1>1, <1>2, <1>3, <1>4 DEF Next

(* One step keeps what is read of a home that stands still true of it.     *)
LEMMA StillStep ==
  ASSUME TypeOK, StillInv, [Next]_vars
  PROVE  StillInv'
<1> USE DEF hvars
<1> DEFINE seen == DescribesHome(run, run.asked)
           kept == DescribesHome(record, comparison_selection(record.asked))
<1>1. ASSUME UNCHANGED hvars, UNCHANGED run PROVE seen' = seen
  BY <1>1 DEF DescribesHome, WholeDescribed, Mine, Meant, Stored, sigrefs
<1>2. ASSUME UNCHANGED hvars, UNCHANGED record PROVE kept' = kept
  BY <1>2 DEF DescribesHome, WholeDescribed, Mine, Meant, Stored, sigrefs, comparison_selection
<1>3. CASE answer # Quiet
  <2>1. CASE UNCHANGED vars
    <3>1. UNCHANGED hvars /\ UNCHANGED run /\ UNCHANGED record /\ UNCHANGED <<pc, still, answer>>
      BY <2>1 DEF vars
    <3>2. QED
      BY <3>1, <1>1, <1>2 DEF StillInv, HasRecord
  <2>2. CASE answer' = Quiet /\ ~UNCHANGED vars
    <3>1. Return
      BY <1>3, <2>2, <1>1, <1>2 DEF StillInv, Next, InventoryNext, Change, Sign, Clone, Remove,
            Breaks, Repair, Seed, TakeAway, Collect, Bundle, BundleFails, AllBundled, Publish,
            Unlink, CannotRemember, Remember, Kill, Diff, Examine
    <3>2. UNCHANGED hvars /\ UNCHANGED run /\ UNCHANGED record /\ UNCHANGED <<pc, still>>
      BY <3>1 DEF Return
    <3>3. QED
      BY <2>2, <3>2, <1>1, <1>2 DEF StillInv, HasRecord
  <2>3. QED
    BY <1>3, <2>1, <2>2, AnswerStands
<1>4. CASE answer = Quiet
  <2>1. ASSUME NEW r \in Repos, Sign(r) \/ Clone(r) \/ Remove(r) \/ Breaks(r) \/ Repair(r) \/ Seed(r)
        PROVE  StillInv'
    BY <1>4, <2>1 DEF Change, Sign, Clone, Remove, Breaks, Repair, Seed, StillInv
  <2>2. ASSUME UNCHANGED hvars, UNCHANGED <<run, record, pc, still>>, answer' = Quiet \/ pc = "idle"
        PROVE  StillInv'
    BY <2>2, <1>1, <1>2 DEF StillInv, HasRecord
  <2>3. ASSUME NEW n \in 0..MaxRuns, TakeAway(n) PROVE StillInv'
    BY <1>4, <2>2, <2>3 DEF TakeAway
  <2>4. ASSUME NEW sel \in Selections, NEW v \in Sights, Collect(sel, v) PROVE StillInv'
    <3>1. /\ run'.asked = sel /\ run'.described = described(sel, v) /\ run'.seeded = seeded
          /\ run'.sigrefs = [r \in Repos |-> IF r \in described(sel, v) THEN sigrefs(r) ELSE 0]
          /\ still' = Whole(v) /\ UNCHANGED hvars /\ answer' = Quiet /\ pc' = "bundling"
      BY <1>4, <2>4 DEF Collect
    <3>2. ASSUME Whole(v) PROVE seen'
      <4>1. described(sel, v) = WholeDescribed(sel)
        BY <3>2, AskedCompares, WholeReading DEF TypeOK
      <4>2. \A r \in described(sel, v) : run'.sigrefs[r] = sigrefs(r)
        BY <3>1, ReadingType DEF TypeOK
      <4>3. WholeDescribed(sel)' = WholeDescribed(sel) /\ \A r : sigrefs(r)' = sigrefs(r)
        BY <3>1 DEF WholeDescribed, Mine, Meant, Stored, sigrefs
      <4>4. QED
        BY <3>1, <4>1, <4>2, <4>3 DEF DescribesHome
    <3>3. QED
      BY <3>1, <3>2 DEF StillInv
  <2>5. ASSUME NEW r \in Repos, Bundle(r) \/ BundleFails(r) PROVE StillInv'
    <3>1. UNCHANGED hvars /\ UNCHANGED <<record, pc, still, answer>> /\ pc = "bundling"
      BY <2>5 DEF Bundle, BundleFails
    <3>2. /\ run'.described = run.described /\ run'.asked = run.asked /\ run'.seeded = run.seeded
          /\ run'.sigrefs = run.sigrefs
      BY <2>5 DEF TypeOK, InventoryTypeOK, Runs, Bundle, BundleFails
    <3>3. seen' = seen
      BY <3>1, <3>2 DEF DescribesHome, WholeDescribed, Mine, Meant, Stored, sigrefs
    <3>4. QED
      BY <1>4, <3>1, <3>3 DEF StillInv
  <2>6. CASE AllBundled \/ (\E place \in Places : Publish(place)) \/ Unlink
    <3>1. UNCHANGED hvars /\ UNCHANGED <<run, still, answer>> /\ pc # "idle" /\ pc' # "idle"
      BY <2>6 DEF AllBundled, Publish, Unlink
    <3>2. QED
      BY <1>1, <1>4, <3>1 DEF StillInv
  <2>7. CASE CannotRemember \/ Kill
    BY <1>4, <2>7 DEF CannotRemember, Kill, StillInv
  <2>8. CASE Remember(Unreadable)
    BY <1>4, <2>8 DEF Remember, StillInv
  <2>9. CASE Remember(from_manifest)
    <3>1. /\ UNCHANGED hvars /\ UNCHANGED answer /\ pc = "rewriting" /\ pc' = "idle"
          /\ record' = from_manifest /\ (still' => still)
      BY <2>9 DEF Remember
    <3>2. /\ from_manifest.stored = "record" /\ from_manifest.described = run.described
          /\ from_manifest.seeded = run.seeded /\ from_manifest.sigrefs = run.sigrefs
          /\ from_manifest.asked = run.asked
      BY DEF from_manifest
    <3>3. run.asked \in Selections
      BY <3>1 DEF TypeOK, InventoryTypeOK
    <3>4. seen => kept'
      <4>1. comparison_selection(record.asked)' = run.asked
        <5>1. record'.asked = run.asked
          BY <3>1, <3>2
        <5>2. run.asked # "unknown"
          BY <3>3, InventoryAssumption
        <5>3. QED
          BY <5>1, <5>2 DEF comparison_selection
      <4>3. \A sel : WholeDescribed(sel)' = WholeDescribed(sel)
        BY <3>1 DEF WholeDescribed, Mine, Meant, Stored
      <4>4. \A r : sigrefs(r)' = sigrefs(r)
        BY <3>1 DEF sigrefs
      <4>5. QED
        BY <3>1, <3>2, <4>1, <4>3, <4>4 DEF DescribesHome
    <3>5. still => seen
      BY <3>1 DEF StillInv
    <3>6. HasRecord' /\ answer' = Quiet
      BY <1>4, <3>1, <3>2 DEF HasRecord
    <3>7. QED
      BY <3>1, <3>4, <3>5, <3>6 DEF StillInv
  <2>10. CASE (\E v \in Sights : Diff(v)) \/ (\E v \in Sights, f \in Facts : Examine(v, f)) \/ Return
    BY <1>4, <2>2, <2>10 DEF Diff, Examine, Return
  <2>11. CASE UNCHANGED vars
    BY <1>4, <2>2, <2>11 DEF vars
  <2>12. QED
    BY <2>1, <2>3, <2>4, <2>5, <2>6, <2>7, <2>8, <2>9, <2>10, <2>11 DEF Next, InventoryNext
<1>5. QED
  BY <1>3, <1>4

(* The record, or the run that writes it, describes a home nothing has     *)
(* touched since.                                                          *)
THEOREM StillInvariant == Spec => []StillInv
<1>1. Init => StillInv
  <2> SUFFICES ASSUME Init PROVE StillInv
    OBVIOUS
  <2>1. pc = "idle" /\ answer = Quiet /\ Stored = Repos
    BY DEF Init, InventoryInit, Stored
  <2>2. ASSUME still
        PROVE  HasRecord /\ DescribesHome(record, comparison_selection(record.asked))
    <3>0. record # Absent
      BY <2>2 DEF Init, InventoryInit
    <3>1. /\ record.stored = "record" /\ record.described = Repos /\ record.seeded = seeded
          /\ record.sigrefs = work /\ record.asked = "unknown"
      BY <2>1, <3>0 DEF Init, InventoryInit, PastRecord
    <3>2. WholeDescribed("all") = Repos
      BY <2>1 DEF WholeDescribed, Meant, Mine
    <3>3. \A r \in Repos : sigrefs(r) = work[r]
      BY DEF Init, InventoryInit, sigrefs
    <3>4. QED
      BY <3>1, <3>2, <3>3 DEF DescribesHome, comparison_selection, HasRecord
  <2>3. QED
    BY <2>1, <2>2 DEF StillInv
<1>2. QED
  BY <1>1, StillStep, DoctorTypeCorrect, PTL DEF Spec

(* What each verb says of the home is said in one step, and stays true of  *)
(* it as long as the answer stands.                                        *)
LEMMA DiffWorkStep ==
  ASSUME TypeOK, RecordInv, StillInv, DiffMissesNoWork, [Next]_vars
  PROVE  DiffMissesNoWork'
<1>1. CASE answer # Quiet
  <2>1. CASE answer' = Quiet
    BY <2>1 DEF DiffMissesNoWork, Quiet
  <2>2. CASE UNCHANGED vars
    BY <2>2 DEF vars, hvars, DiffMissesNoWork, HasRecord, Mine, Stored
  <2>3. QED
    BY <1>1, <2>1, <2>2, AnswerStands
<1>2. CASE answer = Quiet
  <2>1. CASE answer' = answer
    BY <1>2, <2>1 DEF DiffMissesNoWork, Quiet
  <2>2. ASSUME NEW v \in Sights, Diff(v) PROVE DiffMissesNoWork'
    <3>1. /\ UNCHANGED <<storage, work, seeded, record, taken>>
          /\ answer'.whole = Whole(v)
          /\ answer'.exit = 0 => HasRecord /\
               ~drifted(described(comparison_selection(record.asked), v))
      BY <2>2 DEF Diff, hvars, HasRecord
    <3> SUFFICES ASSUME answer'.exit = 0, answer'.whole, NEW r \in Mine, storage[r] = "sound"
                 PROVE  /\ HasRecord /\ r \in record.described /\ record.sigrefs[r] = work[r]
                        /\ r \in record.carried => taken[record.n].bundles[r] = work[r]
      BY <3>1 DEF DiffMissesNoWork, HasRecord, Mine, Stored
    <3> DEFINE now == described(comparison_selection(record.asked), v)
    <3>2. HasRecord /\ ~drifted(now) /\ Whole(v)
      BY <3>1
    <3>3. r \in now
      BY <3>2, WholeSight DEF Whole, TypeOK, described
    <3>4. record \in Records /\ record.n \in 0..MaxRuns /\ r \in Repos
      BY <3>2 DEF HasRecord, TypeOK, InventoryTypeOK, Records, Absent, Unreadable, Mine, Stored
    <3> HIDE DEF now
    <3>5. r \in record.described
      BY <3>2, <3>3 DEF drifted, Gained
    <3>6. sigrefs(r) = work[r] /\ (work[r] # 0 => work[r] = record.sigrefs[r])
      BY <3>2, <3>3, <3>5 DEF drifted, moved, sigrefs
    <3>7. /\ record.sigrefs[r] <= work[r]
          /\ r \in record.carried => record.sigrefs[r] <= taken[record.n].bundles[r]
                                    /\ taken[record.n].bundles[r] <= work[r]
      BY <3>2, <3>4 DEF RecordInv, InOrder, Holding, HasRecord
    <3>8. /\ record.sigrefs[r] \in Nat /\ work[r] \in Nat
          /\ taken[record.n].bundles[r] \in Int
      <4>1. Work \subseteq Nat /\ Work \cup {NoBundle} \subseteq Int
        BY InventoryAssumption DEF Work, NoBundle
      <4>2. record.sigrefs[r] \in Work /\ work[r] \in Work
        BY <3>4 DEF TypeOK, InventoryTypeOK, Records
      <4>3. taken[record.n].bundles[r] \in Work \cup {NoBundle}
        BY <3>4 DEF TypeOK, InventoryTypeOK, Archives
      <4>4. QED
        BY <4>1, <4>2, <4>3
    <3>9. record.sigrefs[r] = work[r]
      BY <3>6, <3>7, <3>8
    <3>10. QED
      BY <3>2, <3>5, <3>7, <3>8, <3>9
  <2>3. CASE answer'.by = "doctor"
    BY <2>3 DEF DiffMissesNoWork
  <2>4. QED
    BY <1>2, <2>1, <2>2, <2>3, AnswerGiven
<1>3. QED
  BY <1>1, <1>2

(* A `diff` that saw the home whole and exits 0 leaves no work of this     *)
(* identity behind, for any repositories, runs, kills and changes.         *)
THEOREM DiffTells == Spec => []DiffMissesNoWork
<1>1. Init => DiffMissesNoWork
  BY DEF Init, InventoryInit, DiffMissesNoWork, Quiet
<1>2. QED
  BY <1>1, DiffWorkStep, DoctorTypeCorrect, RecordInvariant, StillInvariant, PTL DEF Spec

(* Nothing has drifted in a home the record describes.                     *)
LEMMA StillMeansNoDrift ==
  ASSUME TypeOK, StillInv, still, pc = "idle", HasRecord, NEW v \in Sights, Whole(v)
  PROVE  ~drifted(described(comparison_selection(record.asked), v))
<1> DEFINE sel == comparison_selection(record.asked)
<1>1. DescribesHome(record, sel) /\ record \in Records
  BY DEF StillInv, HasRecord, TypeOK, InventoryTypeOK, Absent, Unreadable
<1>2. sel \in {"none", "private", "mine", "seeded", "all"}
  BY <1>1, InventoryAssumption DEF comparison_selection, Records
<1> HIDE DEF sel
<1>3. described(sel, v) = record.described
  BY <1>1, <1>2, WholeReading DEF DescribesHome, TypeOK
<1>4. Gained(record.described, record.described) = {} /\ Lost(record.described, record.described) = {}
  BY DEF Gained, Lost
<1>5. moved(record.described) = {}
  BY <1>1 DEF DescribesHome, moved
<1>6. ~policy_drift
  BY <1>1 DEF DescribesHome, policy_drift, Gained, Lost
<1>7. QED
  BY <1>3, <1>4, <1>5, <1>6 DEF drifted, sel

LEMMA FalseAlarmStep ==
  ASSUME TypeOK, StillInv, NoFalseAlarm, [Next]_vars
  PROVE  NoFalseAlarm'
<1>1. CASE answer # Quiet
  <2>1. CASE answer' = Quiet
    BY <2>1 DEF NoFalseAlarm, Quiet
  <2>2. CASE UNCHANGED vars
    BY <2>2 DEF vars, NoFalseAlarm, HasRecord
  <2>3. QED
    BY <1>1, <2>1, <2>2, AnswerStands
<1>2. CASE answer = Quiet
  <2>1. ASSUME NEW v \in Sights, Diff(v) PROVE NoFalseAlarm'
    <3>1. /\ pc = "idle" /\ UNCHANGED <<record, still>> /\ answer'.whole = Whole(v)
          /\ HasRecord /\ ~drifted(described(comparison_selection(record.asked), v))
               => answer'.exit = 0
      BY <2>1 DEF Diff, HasRecord
    <3>2. QED
      BY <3>1, StillMeansNoDrift DEF NoFalseAlarm, HasRecord
  <2>2. CASE answer' = Quiet \/ answer'.by = "doctor"
    BY <2>2 DEF NoFalseAlarm, Quiet
  <2>3. QED
    BY <1>2, <2>1, <2>2, AnswerGiven
<1>3. QED
  BY <1>1, <1>2

(* A `diff` that saw the home whole says nothing has changed in one that   *)
(* is as the last run read it, whatever that run was asked to carry and    *)
(* whatever else has been done to its archives since.                      *)
THEOREM DiffIsCalm == Spec => []NoFalseAlarm
<1>1. Init => NoFalseAlarm
  BY DEF Init, InventoryInit, NoFalseAlarm, Quiet
<1>2. QED
  BY <1>1, FalseAlarmStep, DoctorTypeCorrect, StillInvariant, PTL DEF Spec

(* A qualified pass is a pass with every document read.                    *)
LEMMA PassIsQualified ==
  ASSUME NEW w, NEW v, qualified_by_unread(w, v) = "Pass"
  PROVE  w = "Pass" /\ identities_not_read(v) = {}
BY DEF qualified_by_unread

(* A pass for private, public and unshared repositories, in the state that *)
(* was read.                                                               *)
LEMMA PassCovers ==
  ASSUME TypeOK, RecordInv, NEW v \in Sights, v.rad, OwnSight(v) = "Whole",
         NEW routing, NEW opens, NEW synced, NEW any,
         qualified_by_unread(check_private_coverage(v, routing, opens), v) = "Pass",
         qualified_by_unread(check_replication(v, routing), v) = "Pass",
         qualified_by_unread(check_sigrefs_propagation(v, synced, any), v) = "Pass",
         NEW r \in Mine
  PROVE  IF r \in Private THEN newest # NoneFound /\ taken[newest].bundles[r] # NoBundle
         ELSE r \in routing /\ (sigrefs(r) > 0 => r \in synced)
<1>1. own_repository_ids(v) = Mine
  <2>1. v \in Views
    BY InventoryAssumption
  <2>2. v.own /\ v.private /\ \A q \in Stored \cap v.unchecked : q \in Listed(v)
    BY <2>1 DEF OwnSight, Views
  <2>3. QED
    BY <2>2, WholeSight DEF TypeOK
<1>2. r \notin v.undescribed
  BY <1>1, PassIsQualified DEF identities_not_read
<1>3. CASE r \in Private
  <2>1. r \in private(v)
    BY <1>1, <1>2, <1>3 DEF private
  <2>2. private(v) \ Carried = {} /\ record_is_about
    <3>1. check_private_coverage(v, routing, opens) = "Pass"
      BY PassIsQualified
    <3>2. QED
      BY <2>1, <3>1 DEF check_private_coverage
  <2>3. HasRecord /\ newest = record.n /\ r \in record.carried
    BY <2>1, <2>2 DEF record_is_about, Carried
  <2>4. record.n \in 0..MaxRuns
    BY <2>3 DEF HasRecord, TypeOK, InventoryTypeOK, Records, Absent, Unreadable
  <2>5. newest # NoneFound
    BY <2>3, <2>4 DEF NoneFound
  <2>6. QED
    BY <1>3, <2>3, <2>5 DEF RecordInv, Holding, HasRecord
<1>4. CASE r \notin Private
  <2>1. r \in is_public(v)
    BY <1>1, <1>2, <1>4 DEF is_public
  <2>2. r \in routing
    <3>1. check_replication(v, routing) = "Pass"
      BY PassIsQualified
    <3>2. QED
      BY <2>1, <3>1 DEF check_replication
  <2>3. ASSUME sigrefs(r) > 0 PROVE r \in synced
    <3>1. check_sigrefs_propagation(v, synced, any) = "Pass"
      BY PassIsQualified
    <3>2. sigrefs(r) # 0
      BY <2>3
    <3>3. QED
      BY <2>1, <3>1, <3>2 DEF check_sigrefs_propagation
  <2>4. QED
    BY <1>4, <2>2, <2>3
<1>5. QED
  BY <1>3, <1>4

(* A failure for private repositories, in the state that was read.         *)
LEMMA FailNamesOne ==
  ASSUME NEW v \in Sights, NEW routing, NEW opens,
         qualified_by_unread(check_private_coverage(v, routing, opens), v) = "Fail"
  PROVE  opens /\ \E r \in Stored \cap Alone : r \notin Carried /\ r \notin routing
<1>1. check_private_coverage(v, routing, opens) = "Fail"
  BY DEF qualified_by_unread
<1>2. opens /\ \E r \in private(v) \ Carried : ~has_another_holder(r, routing)
  BY <1>1 DEF check_private_coverage, record_is_about
<1>3. private(v) \subseteq Stored
  BY DEF private, own_repository_ids
<1>4. QED
  BY <1>2, <1>3 DEF has_another_holder

(* A pass for the backup, in the state that was read.                      *)
LEMMA PassHasArchive ==
  ASSUME NEW here, NEW recorded, check_backup_freshness(here, recorded) = "Pass"
  PROVE  present # {} \/ (HasRecord /\ record.place = "stdout")
<1>1. newest # NoneFound => present # {}
  BY DEF newest, Listable
<1>2. QED
  BY <1>1 DEF check_backup_freshness

LEMMA VerdictStep ==
  ASSUME TypeOK, RecordInv, StillInv, VerdictsAreEarned, [Next]_vars
  PROVE  VerdictsAreEarned'
<1> USE DEF VerdictsAreEarned
<1>1. ASSUME UNCHANGED <<storage, work, present, taken, record>>
      PROVE  /\ Mine' = Mine /\ newest' = newest /\ HasRecord' = HasRecord /\ Carried' = Carried
             /\ Stored' = Stored /\ \A r : sigrefs(r)' = sigrefs(r)
  BY <1>1 DEF Mine, Stored, newest, Listable, HasRecord, Carried, sigrefs
<1>2. CASE answer'.by # "doctor"
  BY <1>2 DEF PassMeansCovered, FailIsReal, PassIsAtHand
<1>3. CASE answer # Quiet
  <2>1. CASE answer' = Quiet
    BY <1>2, <2>1 DEF Quiet
  <2>2. CASE UNCHANGED vars
    <3>1. UNCHANGED <<storage, work, present, taken, record, answer>>
      BY <2>2 DEF vars, hvars
    <3>2. QED
      BY <1>1, <3>1 DEF PassMeansCovered, FailIsReal, PassIsAtHand
  <2>3. QED
    BY <1>3, <2>1, <2>2, AnswerStands
<1>4. ASSUME NEW v \in Sights, NEW f \in Facts, Examine(v, f) PROVE VerdictsAreEarned'
  <2>1. UNCHANGED <<storage, work, present, taken, record>>
    BY <1>4 DEF Examine, hvars
  <2>2. /\ answer'.facts = f /\ answer'.own = (v.rad /\ OwnSight(v) = "Whole")
        /\ answer'.checks.private =
             qualified_by_unread(check_private_coverage(v, f.routing, f.opens), v)
        /\ answer'.checks.public = qualified_by_unread(check_replication(v, f.routing), v)
        /\ answer'.checks.unshared =
             qualified_by_unread(check_sigrefs_propagation(v, f.synced, f.any), v)
        /\ answer'.checks.backup = check_backup_freshness(f.here, f.recorded)
    BY <1>4 DEF Examine, examine
  <2>3. PassMeansCovered'
    <3> SUFFICES ASSUME answer'.own, \A c \in {"private", "public", "unshared"} : answer'.checks[c] = "Pass"
                 PROVE  \A r \in Mine :
                          IF r \in Private THEN newest # NoneFound /\ taken[newest].bundles[r] # NoBundle
                          ELSE r \in f.routing /\ (sigrefs(r) > 0 => r \in f.synced)
      BY <1>1, <2>1, <2>2 DEF PassMeansCovered
    <3>1. v.rad /\ OwnSight(v) = "Whole"
      BY <2>2
    <3>2. /\ answer'.checks.private = "Pass" /\ answer'.checks.public = "Pass"
          /\ answer'.checks.unshared = "Pass"
      OBVIOUS
    <3>3. /\ qualified_by_unread(check_private_coverage(v, f.routing, f.opens), v) = "Pass"
          /\ qualified_by_unread(check_replication(v, f.routing), v) = "Pass"
          /\ qualified_by_unread(check_sigrefs_propagation(v, f.synced, f.any), v) = "Pass"
      BY <2>2, <3>2
    <3>4. QED
      BY <3>1, <3>3, PassCovers
  <2>4. FailIsReal'
    <3> SUFFICES ASSUME answer'.checks.private = "Fail"
                 PROVE  f.opens /\ \E r \in Stored \cap Alone : r \notin Carried /\ r \notin f.routing
      BY <1>1, <2>1, <2>2 DEF FailIsReal
    <3>1. qualified_by_unread(check_private_coverage(v, f.routing, f.opens), v) = "Fail"
      BY <2>2
    <3>2. QED
      BY <3>1, FailNamesOne
  <2>5. PassIsAtHand'
    BY <1>1, <2>1, <2>2, PassHasArchive DEF PassIsAtHand
  <2>6. QED
    BY <2>3, <2>4, <2>5
<1>5. ASSUME NEW v \in Sights, Diff(v) PROVE VerdictsAreEarned'
  BY <1>2, <1>5 DEF Diff
<1>6. CASE answer = Quiet /\ answer' = Quiet
  BY <1>2, <1>6 DEF Quiet
<1>7. QED
  BY <1>3, <1>4, <1>5, <1>6, AnswerGiven

(* No line of `doctor` reassures or alarms over what it has not seen, for  *)
(* any repositories, sights, databases and ages.                           *)
THEOREM DoctorTells == Spec => []VerdictsAreEarned
<1>1. Init => VerdictsAreEarned
  BY DEF Init, InventoryInit, VerdictsAreEarned, PassMeansCovered, FailIsReal, PassIsAtHand, Quiet
<1>2. QED
  BY <1>1, VerdictStep, DoctorTypeCorrect, RecordInvariant, StillInvariant, PTL DEF Spec
=============================================================================
