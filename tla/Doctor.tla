------------------------------- MODULE Doctor -------------------------------
(***************************************************************************)
(* The two verbs that tell a user whether another archive is wanted, over  *)
(* the state record and whatever can be read of the home: `diff`, whose    *)
(* exit status scripts take for "nothing has changed", and `doctor`, whose *)
(* nine lines each pass, warn, fail or cannot tell.                        *)
(*                                                                         *)
(* Source: src/cmd/diff.rs, src/cmd/doctor.rs.  `check_second_key_copy` is *)
(* in Move, `check_archive_encryption` in Sealing; the key's own passphrase*)
(* is no concern of this module.                                           *)
(***************************************************************************)
EXTENDS Inventory

CONSTANTS Alone,  \* private repositories allowed to nobody, with no other delegate
          Sole,   \* repositories this identity is the only delegate of
          Stale,  \* STALE_AFTER_DAYS
          Facts   \* what else `doctor` can find, see Examine
ASSUME DoctorAssumption ==
  /\ Alone \subseteq Private /\ Sole \subseteq Repos /\ Stale \in Nat
  /\ Facts \subseteq [here : Int, recorded : Int, same_device : {"yes", "no", "unknown"},
                     routing : SUBSET Repos, opens : BOOLEAN, synced : SUBSET Repos,
                     any : BOOLEAN]

Verdict == {"Pass", "Warn", "Fail", "Unknown", "Skipped"}

(* `diff` lists what the archive's own selection describes, everything for *)
(* a selection of a newer build.  Mutant: the default selection.           *)
comparison_selection_Default(asked) == "private"
comparison_selection(asked) == IF asked = "unknown" THEN "all" ELSE asked

Gained(then, now) == now \ then
Lost(then, now) == then \ now

(* Policies are compared by id, by a record that has only counts by those. *)
policy_drift ==
  IF record.counted THEN Cardinality(seeded) # Cardinality(record.seeded)
  ELSE Gained(record.seeded, seeded) \cup Lost(record.seeded, seeded) # {}

(* What has new work of this identity; refs that cannot be read have none. *)
moved(now) == {r \in now \cap record.described : sigrefs(r) # 0 /\ sigrefs(r) # record.sigrefs[r]}

drifted(now) ==
  \/ Gained(record.described, now) # {} \/ Lost(record.described, now) # {}
  \/ moved(now) # {} \/ policy_drift

(* `diff` refuses when there is no record it can read.                     *)
Diff(v) ==
  /\ pc = "idle" /\ answer = Quiet /\ answer' =
       [by |-> "diff", whole |-> Whole(v),
        exit |-> IF record.stored # "record" THEN 1
                 ELSE IF drifted(described(comparison_selection(record.asked), v)) THEN 3 ELSE 0]
  /\ UNCHANGED <<pc, hvars, run, runs, taken, present, record, still>>
----------------------------------------------------------------------------
(* `archives::newest`: the last one of those named the way they are listed.*)
Listable == {n \in present : taken[n].place = "listed"}
NoneFound == -1
newest == IF Listable = {} THEN NoneFound ELSE Max(Listable)

HasRecord == record.stored = "record"

(* Mutant: a record is about whatever archive is found.                    *)
record_is_about_Any == HasRecord /\ newest # NoneFound
record_is_about == HasRecord /\ record.place # "stdout" /\ newest = record.n

identities_not_read(v) == own_repository_ids(v) \cap v.undescribed

(* A pass over documents that were not all read is none.                   *)
qualified_by_unread(verdict, v) ==
  IF verdict = "Pass" /\ identities_not_read(v) # {} THEN "Unknown" ELSE verdict

(* An age in days; a stamp ahead of the clock gives a negative one, and one *)
(* that does not parse none at all.                                        *)
NoAge == -2
judged_age(days) == IF days < 0 THEN "Unknown" ELSE IF days <= Stale THEN "Pass" ELSE "Warn"

check_backup_freshness(here, recorded) ==
  IF newest # NoneFound THEN judged_age(here)
  ELSE IF HasRecord
       THEN IF judged_age(recorded) = "Pass" /\ record.place # "stdout" THEN "Warn"
            ELSE judged_age(recorded)
  ELSE IF record = Unreadable THEN "Unknown" ELSE "Fail"

(* The file found here, else the recorded one where it was written.        *)
check_archive_location(same_device) ==
  IF newest # NoneFound \/ (HasRecord /\ record.place # "stdout" /\ record.n \in present)
  THEN [yes |-> "Warn", no |-> "Pass", unknown |-> "Unknown"][same_device]
  ELSE IF HasRecord THEN "Unknown" ELSE "Skipped"

private(v)   == (own_repository_ids(v) \cap Private) \ v.undescribed
is_public(v) == own_repository_ids(v) \ (Private \cup v.undescribed)
has_another_holder(r, routing) == r \in routing \/ r \notin Alone
Carried == IF HasRecord THEN record.carried ELSE {}

check_private_coverage(v, routing, opens) ==
  LET uncovered == private(v) \ Carried
  IN  IF private(v) = {} THEN "Pass"
      ELSE IF uncovered = {} THEN IF record_is_about THEN "Pass" ELSE "Unknown"
      ELSE IF ~opens THEN "Unknown"
      ELSE IF \A r \in uncovered : has_another_holder(r, routing) THEN "Warn" ELSE "Fail"

(* Whether anything could bring the key of sole delegations back.          *)
check_sole_delegate(v) ==
  IF (own_repository_ids(v) \cap Sole) \ v.undescribed = {} THEN "Pass"
  ELSE IF newest # NoneFound \/ (HasRecord /\ ~record.restored) THEN "Pass" ELSE "Warn"

(* `routing` is empty also when the database would not open or its schema  *)
(* has moved on.                                                           *)
check_replication(v, routing) ==
  IF is_public(v) = {} /\ identities_not_read(v) = {} THEN "Pass"
  ELSE IF routing = {} THEN "Unknown"
  ELSE IF is_public(v) \subseteq routing THEN "Pass" ELSE "Warn"

(* `synced`: of what the database has of other nodes' heads, the           *)
(* repositories where one of them is the head here; `any`: whether it has  *)
(* something at all.                                                       *)
check_sigrefs_propagation(v, synced, any) ==
  LET yours == {r \in is_public(v) : sigrefs(r) # 0}
  IN  IF yours = {} /\ identities_not_read(v) = {} THEN "Pass"
      ELSE IF ~any THEN "Unknown"
      ELSE IF yours \subseteq synced THEN "Pass" ELSE "Warn"

(* `examine`: a database that does not open costs only what reads it.      *)
examine(v, here, recorded, same_device, routing, opens, synced, any) ==
  [backup       |-> check_backup_freshness(here, recorded),
   location     |-> check_archive_location(same_device),
   private      |-> qualified_by_unread(check_private_coverage(v, routing, opens), v),
   delegate     |-> qualified_by_unread(check_sole_delegate(v), v),
   public       |-> qualified_by_unread(check_replication(v, routing), v),
   unshared     |-> qualified_by_unread(check_sigrefs_propagation(v, synced, any), v)]

(* `run` of `doctor`, over the ages of the archive found and of the one    *)
(* recorded, the device it is on, what the node's database knows of other  *)
(* nodes' copies and of their heads, and whether it opens at all.          *)
Possible(f) ==
  /\ newest = NoneFound \/ record_is_about => f.here = f.recorded
  /\ ~f.opens => f.routing = {} /\ f.synced = {} /\ ~f.any
Examine(v, f) ==
  /\ pc = "idle" /\ answer = Quiet /\ Possible(f)
  /\ answer' = [by |-> "doctor", facts |-> f, own |-> v.rad /\ OwnSight(v) = "Whole",
                checks |-> examine(v, f.here, f.recorded, f.same_device, f.routing, f.opens,
                                   f.synced, f.any)]
  /\ UNCHANGED <<pc, hvars, run, runs, taken, present, record, still>>

(* The verb has printed its report.                                        *)
Return ==
  /\ answer # Quiet /\ answer' = Quiet
  /\ UNCHANGED <<pc, hvars, run, runs, taken, present, record, still>>

TypeOK ==
  /\ InventoryTypeOK
  /\ \/ answer = Quiet
     \/ answer.by = "diff" /\ answer.exit \in {0, 1, 3}
     \/ answer.by = "doctor" /\ Range(answer.checks) \subseteq Verdict
Init == InventoryInit
Next ==
  \/ InventoryNext
  \/ \E v \in Sights : Diff(v)
  \/ \E v \in Sights, f \in Facts : Examine(v, f)
  \/ Return
Spec == Init /\ [][Next]_vars
----------------------------------------------------------------------------
Mine == {r \in Stored : r \in Own \cup Private \/ work[r] > 0}

(* What a reading that sees everything describes for `sel`.                *)
WholeDescribed(sel) == Mine \cup IF sel = "private" THEN {} ELSE Meant(sel)

DescribesHome(said, sel) ==
  /\ said.described = WholeDescribed(sel) /\ said.seeded = seeded
  /\ \A r \in said.described : said.sigrefs[r] = sigrefs(r)

(* What the verbs compare with is, while the home stands still, the home   *)
(* itself, in the hands of the run and then in the record; and the home    *)
(* and the record wait for the verb that has answered to return.           *)
StillInv ==
  /\ answer # Quiet => pc = "idle"
  /\ still /\ pc # "idle" => DescribesHome(run, run.asked)
  /\ still /\ pc = "idle" =>
       HasRecord /\ DescribesHome(record, comparison_selection(record.asked))

(* A `diff` that could see the home and says nothing has changed leaves no *)
(* work of this identity outside the archive it compares with: every       *)
(* repository of the user is described there, and the bundles it carries   *)
(* hold the signed refs of now, though they were taken after the refs were *)
(* recorded and the record is rewritten in place (`moved` in `run` of      *)
(* src/cmd/diff.rs).                                                       *)
DiffMissesNoWork ==
  answer.by = "diff" =>
    (answer.exit = 0 /\ answer.whole => HasRecord /\
       \A r \in {q \in Mine : storage[q] = "sound"} :
         /\ r \in record.described /\ record.sigrefs[r] = work[r]
         /\ r \in record.carried => taken[record.n].bundles[r] = work[r])

(* A `diff` of a home that is as the archive's run read it says so:        *)
(* otherwise `diff || backup` takes an archive every night                 *)
(* (`comparison_selection`).                                               *)
NoFalseAlarm ==
  answer.by = "diff" => (still /\ answer.whole /\ HasRecord => answer.exit = 0)

(* When `doctor` could tell what is the user's, and passes private and     *)
(* public repositories and unshared work, the disk can go: each private    *)
(* repository is inside the newest archive found, each public one is held  *)
(* by another node, with the latest work that can be read here             *)
(* (`check_private_coverage`, `record_is_about`).                          *)
PassMeansCovered ==
  answer.by = "doctor" =>
    (answer.own /\ (\A c \in {"private", "public", "unshared"} : answer.checks[c] = "Pass") =>
       \A r \in Mine :
         IF r \in Private THEN newest # NoneFound /\ taken[newest].bundles[r] # NoBundle
         ELSE /\ r \in answer.facts.routing
              /\ sigrefs(r) > 0 => r \in answer.facts.synced)

(* `doctor` fails a home for its private repositories only when it found   *)
(* one that no archive carries and nobody else holds, never off a failed   *)
(* read (`check_private_coverage`).                                        *)
FailIsReal ==
  answer.by = "doctor" => (answer.checks.private = "Fail" =>
    answer.facts.opens /\
    \E r \in Stored \cap Alone : r \notin Carried /\ r \notin answer.facts.routing)

(* A pass for the backup says that an archive is at hand: one is there, or *)
(* the run that wrote the newest on record sent it to standard output      *)
(* (`NotAtHand`).                                                          *)
PassIsAtHand ==
  answer.by = "doctor" => (answer.checks.backup = "Pass" =>
    present # {} \/ (HasRecord /\ record.place = "stdout"))

(* No line of `doctor` reassures or alarms over what it has not seen: not  *)
(* over a table that would not open, a document that was not read, or the  *)
(* record of another archive.                                              *)
VerdictsAreEarned == PassMeansCovered /\ FailIsReal /\ PassIsAtHand

(* README.md: `diff` exits 3 for new work of the user's.  Not in a         *)
(* repository whose refs `git` cannot read now.                            *)
NewWorkIsSaid ==
  answer.by = "diff" => (answer.exit = 0 /\ answer.whole => 
    \A r \in Mine \cap record.described : record.sigrefs[r] = work[r])

(* inventory.rs: a failed listing differs from an empty one.  To `doctor`  *)
(* it does not.                                                            *)
FailedListingIsNotEmpty ==
  answer.by = "doctor" => (answer.checks.private = "Pass" => 
    \A r \in Mine \cap Private : newest # NoneFound /\ taken[newest].bundles[r] # NoBundle)
=============================================================================
