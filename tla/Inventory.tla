----------------------------- MODULE Inventory -----------------------------
(***************************************************************************)
(* What one `rad backup` carries and what it remembers of it: storage is   *)
(* read once, with whatever `rad` and `git` will answer, the selection     *)
(* resolved and every repository of the user described; the selected ones  *)
(* are bundled one after another while the home goes on changing; the      *)
(* archive is published with a note that says whether a repository is      *)
(* missing, and the state record rewritten in place.                       *)
(*                                                                         *)
(* Source: src/inventory.rs, `run`, `archive_repositories` and `remember`  *)
(* of src/cmd/backup/mod.rs, src/state.rs.  How the file gets its name and *)
(* what the note is used for is in ArchiveDir, how the node is quieted in  *)
(* NodeControl.  A repository's work is the number of times this identity  *)
(* signed its refs.                                                        *)
(***************************************************************************)
EXTENDS Integers, FiniteSets, FiniteSetsExt, Functions

CONSTANTS Repos,
          Private,    \* what their identity documents call private; the others are public
          Own,        \* what `rad ls` names, whether this identity signed refs in it or not
          Selections, \* what the runs are asked to carry
          Sights,     \* what the readings of the home get answers to
          MaxRuns, MaxWork, MaxChanges \* bounds

(* What a reading gets answers to: whether `rad` is there, which of its    *)
(* two listings came, what it would not describe and which packed refs     *)
(* could not be looked into.                                               *)
Views == {v \in [rad : BOOLEAN, own : BOOLEAN, private : BOOLEAN,
                 undescribed : SUBSET Repos, unchecked : SUBSET Repos] :
            ~v.rad => ~v.own /\ ~v.private /\ v.undescribed = Repos}
ASSUME InventoryAssumption ==
  /\ Private \subseteq Repos /\ Own \subseteq Repos /\ IsFiniteSet(Repos)
  /\ Sights \subseteq Views
  /\ Selections \subseteq {"none", "private", "mine", "seeded", "all"}
  /\ MaxRuns \in Nat \ {0} /\ MaxWork \in Nat \ {0} /\ MaxChanges \in Nat

VARIABLES
  pc,
  storage,  \* [Repos -> {"gone", "sound", "damaged"}]: `git` reads no refs of a damaged one
  work,     \* this identity's signed refs in it, 0 when it signed none
  seeded,   \* the seeding policy
  changes,  \* bound: how often the home changed
  run,      \* the run under way
  runs,     \* runs begun; archive 0 is from before
  taken,    \* what the archives hold, by number
  present,  \* archives whose file is where it was written
  record,   \* the state record
  still,    \* history: the home is as the last run that saw all of it read it
  answer    \* what `diff` or `doctor` has just said

hvars == <<storage, work, seeded, changes>>
vars  == <<pc, hvars, run, runs, taken, present, record, still, answer>>

Work == 0..MaxWork
NoBundle == -1
NoBundles == [r \in Repos |-> NoBundle]
Stored == {r \in Repos : storage[r] # "gone"}
Quiet == [by |-> "none"]
Absent == [stored |-> "absent"]
Unreadable == [stored |-> "unreadable"]
----------------------------------------------------------------------------
Whole(v) == v.own /\ v.private /\ v.undescribed = {} /\ v.unchecked = {}

Listed(v) == (IF v.own THEN Own ELSE {}) \cup (IF v.private THEN Private ELSE {})
has_namespace_at(r) == work[r] > 0

own_repository_ids(v) ==
  Stored \cap (Listed(v) \cup {r \in Stored \ v.unchecked : has_namespace_at(r)})

OwnSight(v) ==
  IF \/ v.rad /\ ~(v.own /\ v.private)
     \/ \E r \in Stored \cap v.unchecked : r \notin Listed(v)
  THEN "Partial" ELSE "Whole"

(* What could not be described is not taken for public.                    *)
private_selection(v) ==
  {r \in own_repository_ids(v) : IF r \in v.undescribed THEN v.rad ELSE r \in Private}

selected(sel, v) ==
  CASE sel = "none"    -> {}
    [] sel = "private" -> private_selection(v)
    [] sel = "mine"    -> own_repository_ids(v)
    [] sel = "seeded"  -> seeded \cap Stored
    [] OTHER           -> Stored

(* `PrivateSight` of a run that archives.                                  *)
sight(sel, v) ==
  IF ~v.rad /\ Stored # {} /\ sel = "private" THEN "Blind"
  ELSE IF /\ sel \in {"mine", "private"}
          /\ (~v.rad /\ Stored # {}) \/ OwnSight(v) = "Partial"
       THEN "Guessed" ELSE "Seen"

(* The signed refs `describe` records, with none of a repository `git`     *)
(* cannot read.                                                            *)
sigrefs(r) == IF storage[r] = "damaged" THEN 0 ELSE work[r]

(* `collect_with_sight`: who is described, which is more than is carried.  *)
described(sel, v) ==
  own_repository_ids(v) \cup IF sel = "private" THEN {} ELSE selected(sel, v)

(* History, for the properties: what a user who asks for `sel` means, and  *)
(* the part of it this reading could tell is the user's.                   *)
Meant(sel) ==
  CASE sel = "none"    -> {}
    [] sel = "private" -> Stored \cap Private
    [] sel = "mine"    -> {r \in Stored : r \in Own \cup Private \/ work[r] > 0}
    [] sel = "seeded"  -> seeded \cap Stored
    [] OTHER           -> Stored
Evident(sel, v) ==
  IF sel \in {"private", "mine"}
  THEN {r \in Meant(sel) : r \in Listed(v) \/ (work[r] > 0 /\ r \notin v.unchecked)}
  ELSE Meant(sel)
----------------------------------------------------------------------------
NoRun == [asked |-> "none", sight |-> "Seen", todo |-> {}, described |-> {},
          sigrefs |-> [r \in Repos |-> 0], seeded |-> {}, bundles |-> NoBundles,
          dropped |-> {}, meant |-> {}, evident |-> {}]
NoArchive == [bundles |-> NoBundles, place |-> "nowhere"]
Runs == [asked : Selections \cup {"none"}, sight : {"Seen", "Guessed", "Blind"},
         todo : SUBSET Repos, described : SUBSET Repos, sigrefs : [Repos -> Work],
         seeded : SUBSET Repos, bundles : [Repos -> Work \cup {NoBundle}],
         dropped : SUBSET Repos, meant : SUBSET Repos, evident : SUBSET Repos]
Places == {"listed", "elsewhere", "stdout"}
Archives == [bundles : [Repos -> Work \cup {NoBundle}], place : Places \cup {"nowhere"}]
Records == [stored : {"record"}, n : 0..MaxRuns, place : Places, carried : SUBSET Repos,
            described : SUBSET Repos, sigrefs : [Repos -> Work], seeded : SUBSET Repos,
            counted : BOOLEAN, restored : BOOLEAN, asked : Selections \cup {"unknown"}]

InventoryTypeOK ==
  /\ pc \in {"idle", "bundling", "publish", "published", "rewriting"}
  /\ storage \in [Repos -> {"gone", "sound", "damaged"}] /\ work \in [Repos -> Work]
  /\ seeded \subseteq Repos /\ changes \in 0..MaxChanges
  /\ run \in Runs /\ runs \in 0..MaxRuns /\ still \in BOOLEAN
  /\ taken \in [0..MaxRuns -> Archives] /\ present \subseteq 0..MaxRuns
  /\ record \in Records \cup {Absent, Unreadable}
  /\ pc # "idle" => run.asked \in Selections
  /\ pc \in {"published", "rewriting"} => taken[runs].place \in Places

(* No record yet, or that of a restore of an archive of everything, as a   *)
(* newer build or one that only counted policies may have left it.         *)
PastRecord(counted, place) ==
  [stored |-> "record", n |-> 0, place |-> place, carried |-> Stored,
   described |-> Stored, sigrefs |-> work, seeded |-> seeded, counted |-> counted,
   restored |-> TRUE, asked |-> "unknown"]

InventoryInit ==
  /\ pc = "idle" /\ changes = 0 /\ run = NoRun /\ runs = 0 /\ answer = Quiet
  /\ storage = [r \in Repos |-> "sound"] /\ seeded = Repos
  /\ work \in [Repos -> {0, 1}] /\ \A r \in Own \cup Private : work[r] = 0
  /\ record \in {Absent, PastRecord(TRUE, "elsewhere"), PastRecord(FALSE, "listed")}
  /\ taken = [n \in 0..MaxRuns |-> IF n = 0 /\ record # Absent
                                  THEN [bundles |-> work, place |-> record.place] ELSE NoArchive]
  /\ present = (IF record = Absent THEN {} ELSE {0}) /\ still = (record # Absent)
----------------------------------------------------------------------------
(* The home goes on changing, until the run has done with it.              *)
Change ==
  /\ pc \in {"idle", "bundling"} /\ answer = Quiet /\ changes < MaxChanges /\ changes' = changes + 1
  /\ still' = FALSE
  /\ UNCHANGED <<pc, run, runs, taken, present, record, answer>>
Sign(r) ==
  /\ Change /\ storage[r] = "sound" /\ work[r] < MaxWork
  /\ work' = [work EXCEPT ![r] = @ + 1] /\ UNCHANGED <<storage, seeded>>
Clone(r) ==
  /\ Change /\ storage[r] = "gone"
  /\ storage' = [storage EXCEPT ![r] = "sound"] /\ UNCHANGED work
  /\ UNCHANGED seeded
Remove(r) ==
  /\ Change /\ storage[r] # "gone"
  /\ storage' = [storage EXCEPT ![r] = "gone"] /\ UNCHANGED <<work, seeded>>
Breaks(r) ==
  /\ Change /\ storage[r] = "sound"
  /\ storage' = [storage EXCEPT ![r] = "damaged"] /\ UNCHANGED <<work, seeded>>
Repair(r) ==
  /\ Change /\ storage[r] = "damaged"
  /\ storage' = [storage EXCEPT ![r] = "sound"] /\ UNCHANGED <<work, seeded>>
Seed(r) ==
  /\ Change /\ seeded' = IF r \in seeded THEN seeded \ {r} ELSE seeded \cup {r}
  /\ UNCHANGED <<storage, work>>

(* An archive is moved or deleted.                                         *)
TakeAway(n) ==
  /\ pc = "idle" /\ answer = Quiet /\ n \in present /\ present' = present \ {n}
  /\ UNCHANGED <<pc, hvars, run, runs, taken, record, still, answer>>
----------------------------------------------------------------------------
(* `collect_with_sight`, with the policies read just before it.            *)
Collect(sel, v) ==
  /\ pc = "idle" /\ answer = Quiet /\ runs < MaxRuns /\ pc' = "bundling" /\ runs' = runs + 1
  /\ run' = [asked |-> sel, sight |-> sight(sel, v), todo |-> selected(sel, v),
             described |-> described(sel, v),
             sigrefs |-> [r \in Repos |-> IF r \in described(sel, v) THEN sigrefs(r) ELSE 0],
             seeded |-> seeded, bundles |-> NoBundles, dropped |-> {},
             meant |-> Meant(sel), evident |-> Evident(sel, v)]
  /\ still' = Whole(v)
  /\ UNCHANGED <<hvars, taken, present, record, answer>>

(* One turn of `archive_repositories`: the bundle is of the repository as  *)
(* it is by now, and one that fails costs the run nothing else.            *)
Bundle(r) ==
  /\ pc = "bundling" /\ r \in run.todo /\ storage[r] = "sound"
  /\ run' = [run EXCEPT !.todo = @ \ {r}, !.bundles[r] = work[r]]
  /\ UNCHANGED <<pc, hvars, runs, taken, present, record, still, answer>>

BundleFails(r) ==
  /\ pc = "bundling" /\ r \in run.todo
  /\ run' = [run EXCEPT !.todo = @ \ {r}, !.dropped = @ \cup {r}]
  /\ UNCHANGED <<pc, hvars, runs, taken, present, record, still, answer>>

AllBundled ==
  /\ pc = "bundling" /\ run.todo = {} /\ pc' = "publish"
  /\ UNCHANGED <<hvars, run, runs, taken, present, record, still, answer>>

(* `is_incomplete` and `missing`.  Mutant: the two are one.                *)
is_incomplete == run.dropped # {} \/ run.sight = "Blind"
missing_AsTheExit == is_incomplete
missing == run.dropped # {} \/ run.sight # "Seen"

(* The archive is committed, its note written, the node restarted and the  *)
(* exit status settled; nothing after this may fail the run.               *)
Publish(place) ==
  /\ pc = "publish" /\ pc' = "published"
  /\ taken' = [taken EXCEPT ![runs] =
       [bundles |-> run.bundles, place |-> place]]
  /\ present' = IF place = "stdout" THEN present ELSE present \cup {runs}
  /\ UNCHANGED <<hvars, run, runs, record, still, answer>>

(* `Record::from_manifest`.  Mutant: the refs as they are by then.         *)
from_manifest_ReadAgain ==
  [stored |-> "record", n |-> runs, place |-> taken[runs].place,
   carried |-> {r \in Repos : run.bundles[r] # NoBundle}, described |-> run.described,
   sigrefs |-> [r \in Repos |-> IF r \in run.described THEN work[r] ELSE 0],
   seeded |-> run.seeded, counted |-> FALSE, restored |-> FALSE, asked |-> run.asked]

from_manifest ==
  [stored |-> "record", n |-> runs, place |-> taken[runs].place,
   carried |-> {r \in Repos : run.bundles[r] # NoBundle}, described |-> run.described,
   sigrefs |-> run.sigrefs,
   seeded |-> run.seeded, counted |-> FALSE, restored |-> FALSE, asked |-> run.asked]

(* `state::write`: the old record is unlinked, then the new one written in *)
(* its place.  A write that cannot start leaves the old one, one that is   *)
(* cut short a record that does not parse.                                 *)
Unlink ==
  /\ pc = "published" /\ pc' = "rewriting" /\ record' = Absent
  /\ UNCHANGED <<hvars, run, runs, taken, present, still, answer>>
CannotRemember ==
  /\ pc = "published" /\ pc' = "idle" /\ run' = NoRun /\ still' = FALSE
  /\ UNCHANGED <<hvars, runs, taken, present, record, answer>>
Remember(as) ==
  /\ pc = "rewriting" /\ pc' = "idle" /\ run' = NoRun /\ record' = as
  /\ still' = (still /\ as # Unreadable)
  /\ UNCHANGED <<hvars, runs, taken, present, answer>>
Kill ==
  /\ pc # "idle" /\ pc' = "idle" /\ run' = NoRun /\ still' = FALSE
  /\ UNCHANGED <<hvars, runs, taken, present, record, answer>>

InventoryNext ==
  \/ \E r \in Repos : Sign(r) \/ Clone(r) \/ Remove(r) \/ Breaks(r) \/ Repair(r) \/ Seed(r)
  \/ \E n \in 0..MaxRuns : TakeAway(n)
  \/ \E sel \in Selections, v \in Sights : Collect(sel, v)
  \/ \E r \in Repos : Bundle(r) \/ BundleFails(r)
  \/ AllBundled
  \/ \E place \in Places : Publish(place)
  \/ Unlink \/ CannotRemember \/ Remember(from_manifest) \/ Remember(Unreadable) \/ Kill
----------------------------------------------------------------------------
(* An archive whose note says nothing is missing holds every repository    *)
(* the selection means, whatever `rad` would not tell the run and whatever *)
(* broke on the way: pruning deletes older archives on the word of that    *)
(* note (`missing` in `run`).                                              *)
NoteIsTrue ==
  pc = "published" /\ ~missing => \A r \in run.meant : taken[runs].bundles[r] # NoBundle

(* A run that exits 0 carried every repository it could tell is meant: a   *)
(* timer reads nothing but the exit status (`is_incomplete` in `run`).     *)
ExitIsHeard ==
  pc = "published" /\ ~is_incomplete =>
    \A r \in run.evident : taken[runs].bundles[r] # NoBundle

(* Both words a run leaves behind, for the prune and for the timer.        *)
NoteAndExitAreTrue == NoteIsTrue /\ ExitIsHeard
----------------------------------------------------------------------------
Holding(bundles) == {r \in Repos : bundles[r] # NoBundle}

(* What makes NoteAndExitAreTrue inductive: no repository the reading saw  *)
(* drops out of the run's account, and what is published is that account.  *)
AccountInv ==
  /\ pc # "idle" =>
       LET accounted == run.todo \cup run.dropped \cup Holding(run.bundles)
       IN  /\ run.sight = "Seen" => run.meant \subseteq accounted
           /\ run.sight # "Blind" => run.evident \subseteq accounted
  /\ pc \in {"publish", "published", "rewriting"} => run.todo = {}
  /\ pc \in {"published", "rewriting"} => taken[runs].bundles = run.bundles

(* Refs are recorded before the bundle is taken, and both before now.      *)
InOrder(refs, bundles) ==
  \A r \in Repos : /\ refs[r] <= work[r]
                   /\ bundles[r] # NoBundle => refs[r] <= bundles[r] /\ bundles[r] <= work[r]

(* The record is about an archive of its number, which nothing rewrites,   *)
(* and carries what that archive holds.                                    *)
RecordInv ==
  /\ pc # "idle" => runs > 0 /\ InOrder(run.sigrefs, run.bundles)
  /\ record.stored = "record" =>
       /\ record.n <= runs /\ (pc \in {"bundling", "publish"} => record.n < runs)
       /\ record.carried = Holding(taken[record.n].bundles)
       /\ InOrder(record.sigrefs, taken[record.n].bundles)
=============================================================================
