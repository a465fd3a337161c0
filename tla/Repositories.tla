---------------------------- MODULE Repositories ----------------------------
(***************************************************************************)
(* The repositories of a restored home: each taken out of its bundle, one  *)
(* after the other, by runs of `rad backup restore` that may be killed and *)
(* started again; then the record of what came back.                       *)
(*                                                                         *)
(* Source: `run`, `restore_repositories`, `restore_one` and `remember` of  *)
(* src/cmd/restore.rs, with the git commands of src/git.rs they give.  The *)
(* signed refs of this identity in one repository are a chain, so a head   *)
(* is its position in it; a repository whose refs are at 0 is an empty     *)
(* shell.  Objects no ref reaches any more stay (git collects them later). *)
(***************************************************************************)
EXTENDS Naturals, FiniteSets

CONSTANTS Repos,
          MaxHead,    \* bound: positions of a chain of signed refs
          Manifests,  \* what an archive says: [Repos -> RepoRecord]
          Copies,     \* sets of repositories the home can hold already
          Leftovers,  \* what a sweep can leave of a directory
          MaxRuns     \* bound: runs of restore

NoHead  == 0             \* no signed refs of this identity
BadHead == MaxHead + 1   \* a value in the manifest that names no oid
Heads   == 1..MaxHead

(* What the manifest says of a repository: whether a bundle is carried, the*)
(* head recorded, the newest head in the bundle (some history even where *)
(* nothing is ours), and whether it has nowhere to be fetched from.        *)
RepoRecord == [bundle : BOOLEAN, head : 0..MaxHead + 1, bundled : Heads, alone : BOOLEAN]

ASSUME RepositoriesAssumption ==
  /\ MaxHead \in Nat \ {0} /\ MaxRuns \in Nat
  /\ Manifests \subseteq [Repos -> RepoRecord] /\ Copies \subseteq SUBSET Repos
  /\ Leftovers \subseteq SUBSET {"directory", "objects", "refs"}

VARIABLES
  pc,         \* where the run is
  manifest,   \* the archive every run restores from
  runs,       \* runs begun
  installed,  \* whether the home holds the identity
  storage,    \* repositories with a directory under storage/
  refs,       \* the head the signed refs of this identity name there
  history,    \* the objects in it: every head up to this one
  todo,       \* repositories this run has yet to reach
  at,         \* the one it is at, whether it was there, and what was done to it
  restored, dropped,  \* what this run will report
  record,     \* the repositories the state record describes
  stuck,      \* history: directories a kill or a failed sweep has left
  before      \* history: the repositories there when this run began

here  == <<todo, at, restored, dropped>>
home  == <<installed, storage, refs, history>>
rvars == <<manifest, runs, home, here, record, stuck, before>>

Nowhere == [repo |-> {}, existed |-> FALSE, stage |-> "made"]

RepositoriesTypeOK ==
  /\ manifest \in Manifests /\ runs \in 0..MaxRuns /\ installed \in BOOLEAN
  /\ storage \subseteq Repos /\ before \subseteq Repos
  /\ refs \in [Repos -> 0..MaxHead] /\ history \in [Repos -> 0..MaxHead]
  /\ todo \subseteq Repos /\ restored \subseteq Repos /\ dropped \subseteq Repos
  /\ at \in [repo : {{}} \cup {{r} : r \in Repos}, existed : BOOLEAN,
            stage : {"made", "objects", "refs"}]
  /\ record \subseteq Repos /\ stuck \subseteq Repos

(* A home in which nothing was, or one with copies of its own, newer than  *)
(* the archive's.                                                          *)
RepositoriesInit ==
  /\ manifest \in Manifests /\ runs = 0 /\ pc = "idle"
  /\ storage \in Copies
  /\ history = [r \in Repos |-> IF r \in storage THEN MaxHead ELSE 0] /\ refs = history
  /\ installed = (storage # {})
  /\ todo = {} /\ at = Nowhere /\ restored = {} /\ dropped = {}
  /\ record = {} /\ stuck = {} /\ before = storage

Carried == {r \in Repos : manifest[r].bundle}
Whole   ==
  {r \in storage : refs[r] >= manifest[r].bundled /\ history[r] >= manifest[r].bundled}
----------------------------------------------------------------------------
(* Without `--force` a restore begins only over nothing; the keys are in   *)
(* place before the first repository.                                      *)
Begin(force) ==
  /\ pc \in {"idle", "reported"} /\ runs < MaxRuns
  /\ force \/ (~installed /\ storage = {})
  /\ runs' = runs + 1 /\ installed' = TRUE /\ pc' = "repos"
  /\ todo' = Carried /\ at' = Nowhere /\ restored' = {} /\ dropped' = {}
  /\ before' = storage
  /\ UNCHANGED <<manifest, storage, refs, history, record, stuck>>

(* Without git every carried repository is reported as not restored.       *)
NoGit ==
  /\ pc = "repos" /\ todo = Carried /\ todo # {} /\ at = Nowhere /\ restored \cup dropped = {}
  /\ todo' = {} /\ dropped' = Carried
  /\ UNCHANGED <<pc, manifest, runs, home, at, restored, record, stuck, before>>

(* A symlink at the repository's name, or a git that could not initialise: *)
(* nothing is there that was not.                                          *)
CannotInit(r) ==
  /\ pc = "repos" /\ at = Nowhere /\ r \in todo
  /\ todo' = todo \ {r} /\ dropped' = dropped \cup {r}
  /\ UNCHANGED <<pc, manifest, runs, home, at, restored, record, stuck, before>>

(* Mutant: what was there before is not looked at.                         *)
InitBare_Unlooked(r) ==
  /\ pc = "repos" /\ at = Nowhere /\ r \in todo
  /\ todo' = todo \ {r} /\ at' = [repo |-> {r}, existed |-> FALSE, stage |-> "made"]
  /\ storage' = storage \cup {r}
  /\ UNCHANGED <<pc, manifest, runs, installed, refs, history, restored, dropped, record, stuck,
                 before>>

InitBare(r) ==
  /\ pc = "repos" /\ at = Nowhere /\ r \in todo
  /\ todo' = todo \ {r} /\ at' = [repo |-> {r}, existed |-> r \in storage, stage |-> "made"]
  /\ storage' = storage \cup {r}
  /\ UNCHANGED <<pc, manifest, runs, installed, refs, history, restored, dropped, record, stuck,
                 before>>

(* `git fetch --force` out of the bundle brings in the objects,            *)
FetchObjects(r) ==
  /\ pc = "repos" /\ at.repo = {r} /\ at.stage = "made" /\ at' = [at EXCEPT !.stage = "objects"]
  /\ history' = [history EXCEPT ![r] = IF @ > manifest[r].bundled THEN @ ELSE manifest[r].bundled]
  /\ UNCHANGED <<pc, manifest, runs, installed, storage, refs, todo, restored, dropped, record,
                 stuck, before>>

(* and sets the refs to what it carries, back if need be.                  *)
ForceRefs(r) ==
  /\ pc = "repos" /\ at.repo = {r} /\ at.stage = "objects" /\ at' = [at EXCEPT !.stage = "refs"]
  /\ refs' = [refs EXCEPT ![r] = manifest[r].bundled]
  /\ UNCHANGED <<pc, manifest, runs, installed, storage, history, todo, restored, dropped, record,
                 stuck, before>>

(* Then HEAD and the settings of the config.                               *)
SetHeadAndConfig(r) ==
  /\ pc = "repos" /\ at.repo = {r} /\ at.stage = "refs" /\ at' = Nowhere
  /\ restored' = restored \cup {r} /\ stuck' = stuck \ {r}
  /\ UNCHANGED <<pc, manifest, runs, home, todo, dropped, record, before>>

(* Mutant: the directory of a failed unbundle stays.                       *)
PutBackFails_Kept(r, left) ==
  /\ pc = "repos" /\ at.repo = {r}
  /\ at' = Nowhere /\ dropped' = dropped \cup {r}
  /\ UNCHANGED <<pc, manifest, runs, home, todo, restored, record, stuck, before>>

(* A bundle git refuses, refs it cannot write, a HEAD or a setting it does *)
(* not take: what this run created is swept, wholly or in part; what was   *)
(* there stays as it is by now.                                            *)
PutBackFails(r, left) ==
  /\ pc = "repos" /\ at.repo = {r}
  /\ at' = Nowhere /\ dropped' = dropped \cup {r}
  /\ IF at.existed THEN UNCHANGED <<storage, refs, history, stuck>>
     ELSE /\ storage' = IF left = {} THEN storage \ {r} ELSE storage
          /\ refs' = [refs EXCEPT ![r] = IF "refs" \in left THEN @ ELSE 0]
          /\ history' = [history EXCEPT ![r] = IF "objects" \in left THEN @ ELSE 0]
          /\ stuck' = IF left = {} THEN stuck ELSE stuck \cup {r}
  /\ UNCHANGED <<pc, manifest, runs, installed, todo, restored, record, before>>

(* Mutant: the record describes what the archive does, as a backup's does. *)
Remember_AsArchived(write) ==
  /\ pc = "repos" /\ todo = {} /\ at = Nowhere
  /\ record' = IF write = "whole" THEN Carried ELSE record
  /\ pc' = "compare"
  /\ UNCHANGED <<manifest, runs, home, here, stuck, before>>

(* The state record, narrowed to what came back, written before the lists  *)
(* of issues and patches are rebuilt; a record that cannot be written is a *)
(* warning, and one that is written is unlinked first: cut short, it       *)
(* describes nothing.                                                      *)
Remember(write) ==
  /\ pc = "repos" /\ todo = {} /\ at = Nowhere
  /\ record' = IF write = "whole" THEN restored ELSE IF write = "cut" THEN {} ELSE record
  /\ pc' = "compare"
  /\ UNCHANGED <<manifest, runs, home, here, stuck, before>>

RestoreStep ==
  \/ NoGit
  \/ \E r \in Repos : \/ CannotInit(r) \/ InitBare(r) \/ FetchObjects(r) \/ ForceRefs(r)
                     \/ SetHeadAndConfig(r)
  \/ \E r \in Repos, left \in Leftovers : PutBackFails(r, left)
  \/ \E write \in {"whole", "cut", "refused"} : Remember(write)

(* A kill leaves whatever is on disk, be it half a record, and so does an  *)
(* error that escapes: a link that appeared meanwhile, a policies.json     *)
(* that does not parse.                                                    *)
Killed ==
  /\ pc \notin {"idle", "reported"} /\ pc' = "idle"
  /\ stuck' = stuck \cup {r \in at.repo : ~at.existed}
  /\ todo' = {} /\ at' = Nowhere /\ restored' = {} /\ dropped' = {}
  /\ \/ record' = record
     \/ pc = "repos" /\ todo = {} /\ at = Nowhere /\ record' = {}
  /\ UNCHANGED <<manifest, runs, home, before>>
----------------------------------------------------------------------------
(* What the disk and the run's own account of it have in common at any     *)
(* moment: what a repository has is all there unless a kill or a failed    *)
(* sweep has left it, and what this run created nothing else claims.       *)
Shell(r) == refs[r] = 0

StoreInv ==
  /\ at.repo # {} => pc = "repos"
  /\ pc = "repos" => (todo \cup at.repo) \cap restored = {} /\ todo \cap at.repo = {}
  /\ before \subseteq storage
  /\ \A r \in Repos \ storage : refs[r] = 0 /\ history[r] = 0
  /\ \A r \in at.repo :
       /\ r \in storage
       /\ ~at.existed => r \notin before \cup restored \cup record
       /\ at.stage # "made" => history[r] >= manifest[r].bundled
       /\ at.stage = "refs" => refs[r] >= manifest[r].bundled
  /\ restored \subseteq Whole
  /\ record \subseteq Whole
  /\ \A r \in storage : Shell(r) => r \in stuck \cup at.repo
  /\ \A r \in at.repo : at.existed /\ Shell(r) => r \in stuck

(* The record never describes a repository the home does not hold whole,   *)
(* whatever was killed and restored again from the archive: `diff` would   *)
(* read one as lost.                                                       *)
RecordIsHeld == record \subseteq Whole

(* A directory without refs outlives the step that made it only if a kill  *)
(* or a failed sweep has left it: `rad` would read it as a repository with *)
(* no history, and a backup would archive it.                              *)
NoShellOfItsOwn == \A r \in storage : Shell(r) => r \in stuck \cup at.repo

(* What was there when a run began, and what it has brought back.          *)
Kept == before \cup restored

KeepsCopies ==
  \A r \in Kept :
    /\ r \in storage' /\ history'[r] >= history[r]
    /\ refs'[r] < refs[r] => /\ r \in before /\ at.repo = {r}
                            /\ refs'[r] = manifest[r].bundled /\ history[r] >= refs'[r]

(* No failure and no sweep, at whatever step, costs the home a copy that   *)
(* the run did not create, nor one it has brought back.  A forced restore  *)
(* sets refs back, but only to a head the archive carries, and only once   *)
(* its objects are there.                                                  *)
CopiesSurvive == [][KeepsCopies]_<<pc, rvars>>
=============================================================================
