# A TLA+ model of `rad-backup`

`rad-backup` backs up, restores and moves a Radicle identity. This directory
holds TLA+ modules translated from its Rust source, the TLC configurations that
check them on small instances, and proofs TLAPS checks for every instance.
Source paths below are relative to `src/src/`; `src/README.md` is the
repository's own README.

1. [The system](#1-the-system)
2. [Modules](#2-modules)
3. [Runs](#3-runs)
4. [Findings](#4-findings)
5. [Proofs](#5-proofs)
6. [What is not modelled](#6-what-is-not-modelled)
7. [Plan](#7-plan)

## 1. The system

One process per command, no daemon of its own, and no lock file: two commands
on one home or one directory interleave freely. What they share is a Radicle
*home* (`keys/`, `config.json`, `node/*.db`, `storage/`), a directory of
*archives*, a *state record* under `XDG_STATE_HOME`, systemd's unit files, and
the Radicle *node*, a process they only reach through its control socket,
`rad node stop` and `rad node start`.

| Component | State it keeps | Operations | What makes it hard | What makes it correct |
|---|---|---|---|---|
| retention rule (`archives.rs`) | none: a listing and its notes in, a fate per archive out | `in_note`, `fates` | archives without a note, several settings in one directory, `--keep` at its limits | it never deletes what may be the newest complete archive, and keeps nothing without that reason |
| archive directory (`cmd/backup/destination.rs`, end of `cmd/backup/mod.rs`, `cmd/prune.rs`) | `.partial` and finished files, the note beside each | `prepare`, `open`, `commit`, Drop, `write_sidecar`, `prune` of a run and of the command | concurrent runs and sweeps, kills, power losses, a note or a deletion that fails, a clock set back | a finished name is a whole archive; a note is true; the newest complete archive survives every sweep |
| node control (`cmd/backup/node.rs`, `home.rs`, parts of `cmd/restore.rs`) | the node; a guard per run | `probe_node_state`, `quiesce`, `NodeGuard::restart`, the probes of `run` and `install`, `reconcile`, `wait_for_node` | probes that get neither answer, stops and starts that take effect later, deadlines, several processes asking one node | an exact copy is taken of a storage at rest; a stopped node comes back; no restore writes under a node |
| backup run (`cmd/backup/mod.rs`) | the archive being written | read keys, databases, inventory; write entries; manifest last | one broken repository must not cost the others | what the manifest says is what the archive holds |
| inventory (`inventory.rs`, `git.rs`, `rad.rs`, `db.rs`) | none | which repositories a selection carries, and with how much sight | repositories that cannot be described, refs that move while read | nothing selected is left out unsaid |
| move (`cmd/migrate.rs`) | `keys/radicle`, `keys/radicle.retired*`, `RETIRED.txt` | backup, deep check, retire | crashes and a "no" between the archive that says "retired" and the retirement | never two usable keys unsaid, never none |
| restore: install (`cmd/restore.rs`, `perms.rs`) | the home | check, unpack, keep a displaced key, copy key, config, databases | `--force` over another identity, crashes between copies | no key is lost, no home is half of two identities |
| restore: comparison (`cmd/restore.rs`) | the node's record of heads | baseline, fetch, wait, classify, report | stale rows that look fresh, nodes that cannot be asked | a repository the network is ahead of is never called safe |
| container, verify (`container.rs`, `manifest.rs`, `cmd/verify.rs`) | archive entries | add, finish, scan, unpack, mismatches | truncation, entries the manifest does not name | an archive that passes can be restored |
| state record, diff, doctor (`state.rs`, `cmd/diff.rs`, `cmd/doctor.rs`) | one JSON record per identity | write after a backup or a restore; compare | failed bundles, a record older than the archives | a needed backup is not reported as unneeded |
| schedule (`cmd/schedule.rs`) | an environment file, two systemd units | write, reload, enable, disable | failures between the writes and systemctl | a reported timer is an armed timer |
| words, paper (`cmd/words.rs`, `cmd/paper.rs`) | none, or a key and a config | encode, print, restore | order of two writes | |
| crypt, key (`crypt.rs`, `key.rs`) | none | age and ssh formats | | |

How they interact: `run` (backup) stops the node (node control), asks the
inventory, writes a container, publishes it in the archive directory, writes
its note, starts the node, sweeps by the retention rule and writes the state
record, in this order; `prune` sweeps by the same rule. `move` is a backup, a
verify and a retirement. `restore` unpacks a container, installs, writes the
state record, then starts the node for its comparison and stops it again.
`doctor` and `diff` read the home, the listing and the record.

`PROJECT.json` lists the hazards of this code one by one, each at its line.

## 2. Modules

| Module | Models | Depends on |
|---|---|---|
| `Retention` | `Completeness`, `in_note`, `fates` as pure operators | |
| `RetentionList` | every listing that can arise, as a state machine that adds archives | `Retention` |
| `Shelf` | the promise of the directory: what may appear in it and what may go | |
| `ArchiveDir` | the directory with all its writers, kills and power losses | `Retention`, implements `Shelf` |
| `NodeControl` | the node, and the backups and restores that probe, stop and start it | |
| `KeyCustody` | the promise of a move: when the one key may leave a machine | |
| `Move` | `rad backup move`, the node and the user beside it, restores elsewhere | implements `KeyCustody` |
| `RestoreInstall` | a restore writing into a home: refusals, displaced keys, copies, replay | |
| `Repositories` | a restore taking the repositories out of their bundles, killed and begun again | |
| `Reconcile` | the same restore asking the network about them, while other nodes announce | `Repositories` |
| `Inventory` | what a backup selects, describes, bundles and remembers, from a home that changes | |
| `Doctor` | `diff` and `doctor` over that home, its archives and its record | `Inventory` |
| `Container` | the archive file: written, harmed, read by `verify`, `verify --deep` and a restore | |
| `Passphrases` | where a passphrase comes from, what an archive is sealed with | |
| `Sealing` | archives sealed and opened again with keys and passphrases | `Passphrases` |
| `Schedule` | `schedule`, systemd beside it, the runs of the timer | `Passphrases` |
| `...Proofs` | theorems | the module they are named after, TLAPS; [some](#5-proofs) hold those of a second module |
| `MC...` | model values, small sets and symmetry for TLC | the module they are named after |

Definitions whose name holds an underscore and a capital (`Sync_FlushOnly`) are
mutants: what a plausible bug would make of the definition below them. No
specification uses them; each shows that a property can fail.

### Retention and RetentionList

An archive is its stamp, a natural number, so "newest first" is `>`; a listing
maps the stamps present to what each note says (`Complete`, `Incomplete` or
`Unknown`). A note is the two rows `in_note` looks at. The code's loop over
`searches` with its `break` is `Spares`: an archive is spared by a search when
it is complete for the wanted settings or unknown, and no newer one is complete
for them. The loop's order does not matter, since it only ever turns `Deleted`
into `Spared`.

`RetentionList` is the reference definition. A listing does not determine what
the archives hold: `Worlds` are all the truths it is compatible with. The first two
properties speak of worlds and never of searches.
`NewestCompleteOutlivesRetention` is the promise of `--keep`'s help text.
`SparesExactlyThePossible` is equality with the reference: past `keep` the
rule deletes exactly the archives that no world makes the newest complete one
of some settings a note names. `NextSweepTakesOnlyTheUnsaid` is about a second
sweep of what the first one left. The notes of what was deleted are gone, so
their settings are searched for no more and an archive without a note may be
deleted that was spared a moment before; what the property says is that nothing
else is, and only behind a complete archive that stays.

### ArchiveDir and Shelf

A directory entry (`partial[n]`, `final[n]`) points at a file, and a file is
named after the run that created it. This separation matters: the code opens,
fsyncs, renames and unlinks by *name* while a run writes to a *file*.

| Action | Code |
|---|---|
| `Prepare` | `prepare`: the name is chosen. The stamp is free, because the clock can be set back |
| `Open` | `Destination::open` over `create_private_file`, which unlinks first |
| `Write` | keys to `finish`; what was dropped, how well the selection was judged, and whether the archive really holds everything |
| `Sync`, `Rename`, `SyncDirectory` | the three steps of `commit` |
| `Fail` | any `?` before `committed`: the Drop of `Destination`, whose removal may fail unseen |
| `WriteNote` | `write_sidecar` and its error path |
| `List`, `Judge` | `in_dir`; then `completeness` and `fates`. The notes are read after the listing |
| `Confirm`, `Decline` | `prune`'s question |
| `DeleteArchive`, `DeleteNote`, `DeleteFails`, `SweepDone` | the deletion loops |
| `Kill`, `PowerLoss` | a signal; a crash of the machine |

`PowerLoss` is the file system's contract as `commit` relies on it: fsynced
data stays, an entry changed since the last directory flush (a finished name, a
note or a `.partial`) has its old or its new value, entry by entry. So a `.partial`
can outlive an error or come back; no property says that it does not, and none
needs it, because nothing but `commit` gives one a finished name. `holds` and `missing` are apart: `missing` is what a
run knows and writes into its note, `holds` is the truth. `promised`, `warned`
and `unsure` are history the properties need.

`Shelf` is the directory for whoever only looks at it: names appear (`Publish`)
and go (`Discard`), a flush covers them (`Flush`), a power loss may take back what
no flush has covered (`LosePower`), and one archive, `best`, is exempt from
`Discard`. The refinement mapping (`Promised` in `ArchiveDir`) shows the finished
names with a whole archive, those the disk has, and the newest archive judged
complete that a flush has covered. All else a run or a sweep does is a stutter. A run that could not
flush warns, and takes the promise back (`Warn`): a sweep may then have deleted
older archives for one that a power loss takes away.

### NodeControl

The node is up, stopping, down or starting. It answers while stopping, because
it closes its socket once it finishes serving, and does not answer while
starting, because `rad node start` returns once the daemon has forked.
`probe_node_state` has three answers. `blind` says why a probe may get neither
yes nor no: a socket this user may not open (told from no socket at all), or a
node directory closed to this user.

A backup goes idle, asking, polling, copying, leaving, ended; a restore goes
idle, unpacking, rechecking, confirming, installing, reconciling, starting,
waiting, comparing, ended. Between the second probe and the first write lies the
question about a key that is already there (`Confirm`), which waits for a person. `owes` is `was_stopped_by_backup`, which the guard's Drop
reads; the explicit call and the Drop are one action `Restart`, since either
happens once, right after the copy. `crossed` is history: the backups over whose
work somebody else, another run, a restore or the user, stopped or started the
node; `late` are the restores under which somebody started it after they had looked
for the last time.

### Move and KeyCustody

A move goes idle, reading, writing, judging, checking, asking, noting and ends
moved, refused or dead. Its archive is a record `copy[m]`: how much the
identity had signed when it was read (`upto`), whether a bundle failed
(`dropped`, what the backup reports), whether anything is lacking (`lacks`, the
truth), and whether it can be restored (`sound`). `guessed` is a selection
judged by refs alone, which lacks what it never saw.

| Action | Code |
|---|---|
| `Begin` | `run` of `migrate.rs` up to the backup: an identity, and a node proven stopped |
| `Read`, `Commit`, `Fail` | `run` of `backup/mod.rs` as a move calls it; the archive has its name, and its manifest says `retiresKey`, from `Commit` on |
| `Judge` | `is_incomplete` |
| `Verify` | the deep check, with the early end of `--keep-source` |
| `Decline`, `Retire`, `WriteNote` | `retire` |
| `NodeStarts`, `NodeStops`, `Sign` | what the user and the node do meanwhile (external) |
| `RestoreElsewhere` | another machine restores any archive on disk, one of a failed move too |

`key_copies` is what `doctor` concludes on the restored machine. `KeyCustody`
has three actions, an archive is vouched for, a machine gives the key up, a
machine takes it up; the only order it asks for is that the first precedes the
second. `KeyChangesHandsInOrder` is the refinement, with the machines in use
mapped to where the key is in place, and `vouched` to some checked archive being
sound.

### RestoreInstall

A file is whose it is: an identity, or `None` when it is absent or does not
read. `kept` are the names of retired keys, in the order the code tries them,
`keptPub` the public halves beside them, `notes` what DISPLACED.txt says, `log`
the write-ahead logs a killed node leaves. `had` and `safe` are history: the
keys this home has held, and those with a copy outside it. `Lone` are the
identities no archive holds, whose key a restore could lose for good.

| Action | Code |
|---|---|
| `Begin`, `Blocked` | the refusals of `run` without `--force` |
| `Unpack` | unpack, digests, `prove_identity`, the second look at links and node |
| `Look`, `Decline`, `ChooseName`, `MoveSecret`, `MovePub`, `WriteDisplacedNote` | `retire_any_displaced_key`, a step for each time it touches the disk |
| `CopyNext`, `CopyFails` | the copies of `install` in their order, each atomic |
| `Finish` | the rest of `run`, with the replay of policies |
| `Kill` | between any two of these |
| `Retire` | `retire` of a move |
| `TakeAway`, `PutBack` | the user does what DISPLACED.txt, what RETIRED.txt says (external) |

`User` selects what the user does (`"asIs"`: puts a key back whatever public half
is there), `Together` whether restores overlap. The
replay branch removes the policy database and its log in one step.

### Repositories and Reconcile

The signed refs of one identity in one repository form a chain, so a head is a
position in it. `history[r]` says how far the objects in `storage/` reach, `refs[r]`
where the refs point, and "ancestor of" is `<=`. A bundle is fetched with `--force`:
objects are only ever added, refs are set to what the bundle carries, which rewinds
a copy that was further on. `manifest` is what the archive says: whether a bundle is
carried, the head recorded, the newest head in the bundle (a repository can move
on between the two readings), and whether nobody else can hold it.

| Action | Code |
|---|---|
| `Begin`, `Killed` | `run` up to the repositories; a signal, or an error that escapes |
| `NoGit`, `CannotInit`, `InitBare`, `FetchObjects`, `ForceRefs`, `SetHeadAndConfig` | `restore_repositories`, `restore_one`: each git command that changes the disk |
| `PutBackFails` | an error after any of these, and the sweep of a directory this run created, which may leave part of it (`Leftovers`) |
| `Remember` | the state record, narrowed to what came back, or cut short |
| `CompareNothing`, `ReadBaseline`, `Start`, `Fetch`, `FetchesEnd` | `reconcile`: what is known before the node is asked, the node, one fetch per repository |
| `what_others_hold`, `CompareOne`, `CompareEnds` | the one reading of the record after the wait; `classify` of each repository |
| `Stop`, `Report` | the node this run started; the verdict and the exit status |
| `Hear`, `NodeChanges` | other nodes announce, and the node is started or stopped by others (external) |

`held` and `baseline` are `{}` when the record could not be read and `{rows}`
when it was. `git merge-base` fails alike over an absent head and over a store
it cannot read; `deaf` is the set of heads it fails over, chosen anew for every
repository, and `resolve_git_failure` is what the code makes of it. `Severity`
is the order of the standings. `heard` is history: what was announced since the
run first looked.

### Inventory and Doctor

A *view* is what a reading of the home gets answers to: whether `rad` is there,
which of its two listings came, which identity documents it would not describe,
which packed refs could not be looked into. `sight` and `OwnSight` are what the
code makes of that; `Meant` and `Evident` are history: what the user means by
the selection, and the part of it this view could tell.

| Action | Code |
|---|---|
| `Sign`, `Clone`, `Remove`, `Breaks`, `Repair`, `Seed`, `TakeAway` | the home and the archives go on changing, while a run bundles too (external) |
| `Collect` | `collect_with_sight`, with the policies |
| `Bundle`, `BundleFails`, `AllBundled` | one turn of `archive_repositories`; its end |
| `Publish` | from `finish` to the exit status; ArchiveDir has the steps of this |
| `Unlink`, `CannotRemember`, `Remember` | `state::write`: the record is unlinked, then written, whole or cut short |
| `Kill` | anywhere between |
| `Diff` | `diff`: refusal, no drift, drift |
| `Examine` | `doctor`: the six checks that read home, record, listing and node database |

`doctor`'s other checks are where their subject is: `check_second_key_copy` in
`Move`, `check_archive_encryption` in `Sealing`.

### Container

A file is a sequence of blocks, a block is the hand it was written in, and
content stands for its own digest. The run reads keys and config where they lie,
block by block after the size went into the header, and databases and bundles
from copies of one moment. `Finish` writes the record last. Afterwards the file
may be cut, decay, lose an entry, gain one, or have its record garbled; `walks`,
`mismatches`, `keys_belong`, `policies_agree`, `repositories_check` and
`prove_identity` are the conditions of the three readers, and `heard` what a
reader said.

### Passphrases and Sealing

`Passphrases` is `read_passphrase` and `ask_encryption`: the file, the variable,
the person, in this order, and never an empty passphrase. In `Sealing` an
archive is sealed and then opened: `OpenPlain`, `OpenWithPassphrase`,
`OpenWithKeys`, `ReadKey`, `AllRead` are `Reader::open` and `OfferedKeys`;
`TryUnlocked`, `RequestPassphrase`, `TryAnswered` and `NoKeyOpens` are age's walk
over keys and stanzas with this program's callbacks under it. age decides the
order and names no key, so `last` (who was last given a passphrase) is what the
code blames; `failed` is history: who really failed.

### Schedule

| Action | Code |
|---|---|
| `Begin` | the refusals of `run` before anything is written |
| `WriteEnvironment`, `CheckService`, `WriteService`, `CheckTimer`, `WriteTimer`, `Reload`, `Enable` | the steps, each of which may refuse; `write_unit` reads a unit, then writes over it where it stands |
| `Kill` | between any two of them, or in the middle of a write: the file may be gone, emptied or cut, with or without its header |
| `Off`, `Status`, `RefuseWithoutSystemd` | `--off`, `--status`, the crontab line of a machine without systemctl |
| `Fire` | a run the timer starts: the unit systemd *loaded*, the settings file as it is *now* (external) |
| `ReloadByOthers`, `Reboot`, `Tamper` | systemd and the user, on the same files (external) |

Whether the timer is enabled (`state`, the word `is-enabled` prints) and whether it
is started (`active`, what makes systemd begin runs) are apart: `enable --now` and
`disable --now` change both, or fail after the first, and the user may change
either. A path is resolved from where its reader stands: the shell of the command,
or the home of systemd's user.

`granted` is history: what the last `schedule` that said it was done had been
asked, as long as nobody else changed anything since it began (`disturbed`); `off`
is that an `--off` said it was done, and nobody has handled the timer since.

## 3. Runs

| Run | Instance | Shows |
|---|---|---|
| `retention_list` | up to 5 archives, 2 settings, `--keep` 1 to 3; all listings | the rule equals its reference; what a second sweep may take |
| `publish` | 2 runs, 1 older archive, 3 stamps, 1 settings, `--keep 1`, 1 power loss | the directory's invariants under concurrency and crashes; `Shelf` |
| `sweep` | 1 run, 1 `prune`, 2 older archives with or without notes, 2 settings, `--keep` 1 and 2 | two sweeps at once lose nothing; a run keeps its own archive |
| `node` | a `--stop-node` run, a scheduled one, a restore, a user who may start the node at any time, every kind of blindness | the copy is exact, the node comes back, no install under a node that was up at the second look, the started node goes down |
| `move` | 2 moves, 1 home elsewhere, 2 signatures, a user who may work at any time | the key is given up only for a checked archive; `KeyCustody`; what `doctor` may say; nothing is signed that the archive lacks |
| `install` | 2 restores in turn, 3 archives of 2 identities, 3 identities, 5 homes, 2 names for retired keys, moves, keys taken away and put back | no key is lost, success means a whole home |
| `reconcile` | 2 restores of 2 repositories, chains of 3 heads, 4 archives, any kill, any failing git, any announcement | no fork goes unnamed, no clean exit is unearned, no copy is lost, every run ends |
| `doctor` | 2 repositories, 1 run over an earlier record, 2 changes of the home, 7 views, 5 sets of facts, 3 selections | note, exit status, `diff` and `doctor` say no more than what is so |
| `container` | 5 files of up to 2 blocks in 2 hands, any 2 changes to home or archive | what passes or comes back is what was written; what a run finished passes |
| `sealing` | 6 key files of 5 kinds, 8 ways to seal, 9 hands, 48 offers of up to 3 keys, 3 machines | nobody is misjudged or asked twice, `doctor` fails an archive over its keys when no usable one fits, or one file holds none |
| `schedule` | 7 ways to ask, from absolute and relative paths, with a passphrase in the shell or none, 2 commands, 1 change by somebody else, any refusal or kill | the timer works as last asked and needs nobody; status tells what systemd will do |
| `shared_name` | 2 runs given one name | the [finding](#4-findings) |

Why these bounds. The rule compares an archive with the newer ones of its
settings, so five archives hold every pattern of complete, incomplete and
unknown around a boundary of up to three, with room on both sides. Publishing
interferes pairwise (an entry has one owner and at most one usurper), and a
power loss only merges two versions of the directory, so two runs, one older
archive and one loss reach every kind of conflict. In `publish` there is one
settings, because settings only enter through the rule; in `sweep` there are
two, because there they are the point. Three stamps let a new archive be older
than, between and newer than the others.

Two moves suffice because a move sees of another only the key that is gone; one
signature after a copy makes it stale, a second can come before it. For `install`, a restore meets an earlier one only
through the files it leaves, and two restores leave and meet every mixture of
halves. The homes are an empty one, one of an identity without archive and with a
leftover log, the same without its public half or with its key moved away, and
one of an identity with archives. The three archives are a full one and an
identity one of A, and a state one of B. Two names let a retired key stand
beside another and be asked for once too often, at the bound.

Repositories are compared one by one, so in `reconcile` the second is there for
what is said of all of them: exit status and lists. Three heads are one before,
at and beyond the archived one. Of two restores the second meets all that a kill
left. Only the first compares (`Asks`), over a record that is empty or stale.
In `doctor` one repository is private and
named by `rad` alone, the other public and known by its refs, and two changes
are one before and one during a bundle, or a break and a repair. Two blocks make
a file that can be torn between two identities or change its length; two
changes are one to the home and one to the file, or two to either, which can
cancel out. Of keys, three in a row let one stay locked before one that fails
before one that was never tried. In `schedule` two commands are an earlier one
and the one that must undo it.

Deadlock checking is off where every process ends or a thing at rest is the
normal end of a behaviour; it is on in `doctor`, `sealing` and `schedule`, whose
commands can always return.

Symmetry (over runs, prunes, old archives, settings; over restores) is used in
the `ArchiveDir` configurations and in `install` only. They check invariants, `[][A]_vars`
properties and the refinement of `Shelf`, whose names and stamps no permutation changes: for
all of these it is sound; `node` and `reconcile` check liveness and use
none.

Type invariants. The runs leave out what TLAPS [proves](#5-proofs): `TypeOK` of
every module that has one, and the inductive invariants `PublishInv`, `SweepInv`,
`ExactCopyInv`, `MoveInv`, `QuietInv`, `InstallInv`, `ScheduleInv`,
`ReconcileInv`, `FreshInv`, `SealingInv`, `ReadInv` and `InstallsOverNoNodeInv`, of `Inventory` and `Doctor`
`AccountInv`, `RecordInv` and `StillInv`, of `Container` `StreamInv`, `StillInv`,
`FileInv` and `HeardInv`. Each of them was checked by TLC on the instance of its
run before it was proved, and any can be added to the configuration of that run. The
same goes for `NewestCompleteKept` and `KeepsItsPromises`, which `publish` and `sweep` share out between them: both are
theorems, and either holds on both instances.

Fairness. In `NodeControl` each process is weakly fair: every loop in the code
has a deadline (`NODE_STOP_TIMEOUT`, `NODE_START_TIMEOUT`) and no step waits
for another process. A signal (`Signalled`, `Kill`) is not fair, nor is the user. That a node which
accepted a stop goes down, and one that accepted a start comes up, is assumed of
the node. `Reconcile` has one run at a time, so its fairness is that of the run
(`WF_vars(Restoring \/ CompareStep)`): its steps are sequential code whose waits
have deadlines. Announcements, the user and kills are not fair. The other modules
state no liveness and no fairness.

`NewestCompleteKept` allows for `warned`: when the directory could not be
flushed, the code says so ("a crash now could lose the archive that was just
written"), and sweeps all the same. `DeletesOnlyWithStandIn` needs no such
allowance; it speaks of archives with a note and of directories in which no
sweep has condemned one without (`unsure`). For those condemned without a note
see `OtherSettings.cfg` below.
`ExactCopy` speaks of runs nobody crossed; `PassMeansCovered` of repositories
this view could tell; `FiresAsAsked` and `RunsNeedNobody` of absolute paths; `StatusIsTrue` of a timer
nobody handled since a command said it was done.

## 4. Findings

* **`shared_name`.** Two runs with one final name share one `.partial`. Run B's
  `open` unlinks A's file and creates its own; A's `commit` fsyncs and renames
  by name, so B's half-written file appears under the finished name. It is
  replaced when B commits too, which then finds no `.partial` and fails; kill
  B and the half file stays. Names have a resolution of one second, and
  `--output` can fix one.

### Further disagreements

Each of these configurations violates the property it names: `tlc -config X.cfg`
on the `MC` module of the component (`NodeControl` itself for the node) shows the
behaviour. They are not among the
runs of `PROJECT.json`.

* **`UnusableKey.cfg`**, `FailIsOfTheArchive`. `OfferedKeys::read` gives up at the first file that holds no
  private key, and `doctor` fails the archive for it, though a file before or
  after it opens the archive, and though "a key ... that age cannot use says
  nothing about the archive" (`doctor.rs:679`). `FailMeansUnopenable` is what is
  left of the claim: a `fail` over keys that is not earned names such a file.
* **`OtherSettings.cfg`**, `StandsInOnlyForEqualSettings`. A complete archive without a note, of settings no note
  in the directory names, is deleted because of a newer archive that is
  complete for other settings. The note need not be lost for good: a run that
  is between its rename and its note is in this state.
* **`TwoStops.cfg`**, `ExactCopyWhoeverElse`. `--stop-node` runs do not know of each other. The second
  finds the node down, owes it nothing, and is still copying when the first
  starts it again. A run begun right after another's restart is in the same
  position, since the node does not answer yet.
* **`MoveDisagreements.cfg`**, `RetiredWhenSaid`. The manifest says `retiresKey` before anything is checked.
  A move refused after that keeps its key and leaves an archive that denies it;
  `doctor` on a home restored from it reports no second copy. Only a declined
  question says so.
* **`ReplayNothing.cfg`**, `PoliciesAreNotDropped`. `--force --replay-policies` with an identity archive
  deletes the home's policies and replays none.
* **`LateStop.cfg`**, `EveryWayOutRestarts`. A node that accepted the stop and closes its socket after
  the 20 seconds stays down: the run is refused, and `owes_a_restart` has
  disarmed the guard because no probe was in doubt.
* **`SlowStart.cfg`**, `RestoreLeavesItDown`. A restore that stops waiting for the node it started does
  not stop it, and the node comes up later.
* **`MoveDisagreements.cfg`** with `RetiredAgainstAWholeArchive`. A move refuses an archive the backup calls incomplete. A
  selection made without `rad` is judged by refs alone, is not called incomplete,
  and can miss a repository; the key is retired against it.
* **`MoveDisagreements.cfg`** with `RetiredUnderNoNode`. The node is asked about once, before the backup. One
  started during the backup, the check or the question is up when its key is
  renamed, and keeps signing with the key it has loaded.
* **`TwoRestores.cfg`**, `KeysSurvive`. The free name and the rename that replaces are two steps;
  two forced restores at once can choose one name, or the second moves the
  first's new key over the displaced one.
* **`PutBack.cfg`**, `KeysSurvive`. Whose the key is, is judged by `radicle.pub`. After a move, a
  restore of A that ended early, and `radicle.retired` put back as its note
  offers, A's public half stands beside another's key, and a forced restore of A
  overwrites that key without a question.
* **`StaleHalf.cfg`**, `NotesTellTheTruth`. The same half gone wrong by a crash: a restore killed between
  the two copies, over a home whose key was moved away, is followed by one that
  keeps the archive's own key as displaced and notes it as the former identity's.
* **`ReusedName.cfg`**, `NamesAreNotReused`. A displaced key taken to a home of its own frees its name
  for the next one, while DISPLACED.txt still names it.
* **`LeftoverLog.cfg`**, `LogsBelong`. A copied database stands beside the write-ahead log of the
  one it replaced.

* **`Oversized.cfg`**, `FinishedOpens`. The comment on the limits says the tool
  never writes an archive it would refuse to open. The ceiling on the record is
  held by the writer, the one on a single entry (`MAX_ENTRY_BYTES`) by the
  reader alone.

These are refuted by the configuration of the run named, with `INVARIANT X` in
place of its own properties:

* `node`: **`NoNodeUnderAnInstall`** (`restore.rs:588`: "A node writing to the home
  while its databases are copied over corrupts both"). The home is looked at once
  more after the unpacking, and never again; the question about a key that is
  there, which may stand for as long as nobody answers it, comes after that.
* `reconcile`: **`AtRiskIsMissing`**. A repository that moved on between the
  reading of its refs and its bundle comes back with a head the record does not
  name; the network holding just that head is reported as a fork.
  **`NobodyElseHasIt`** (`restore.rs`, the list to announce is work no reporting
  node has): a row that agrees with the archive is dropped before it counts, so
  one stale peer puts on the list what another peer holds.
  **`AnnouncesNoFork`**: a head git cannot read is "could not ask", and the
  repository stays among those to announce on the word of another row; it is
  also among those not checked.
* `doctor`: **`NewWorkIsSaid`** (`src/README.md`, line 330). New work in a repository whose
  refs `git` cannot read now is no difference, and `diff` exits 0.
  **`FailedListingIsNotEmpty`** (`inventory.rs:325`). A listing of private
  repositories that failed leaves nothing private to cover, which passes; that
  the listing failed is said elsewhere. (A wording flaw beside it,
  `inventory.rs:345`: the warning that a repository was left out is also given
  for one that was kept.)
* `container`: **`FinishedPassesDeep`**. Policies are counted before the database
  is copied; a follow in between makes `verify --deep` fail a good archive.
  **`DeepPassIsARestore`**. `verify` hints that `--deep` tests a restore, but does
  not compare the record's node with its identity, which a restore does.
* `sealing`: **`UnusableKeyEndsNothing`** (`crypt.rs:511`, "One unusable key must
  not end a recovery"). A file that holds no private key, say the public half,
  ends it before the next file is read; for `doctor`, that is `UnusableKey.cfg`. **`UnusableKeyIsNoFail`** (`doctor.rs:679`). When age can use
  none of the keys, the archive is failed.
* `schedule`: **`EnabledTimerWorks`** (`src/README.md`, line 389: "It refuses to enable a
  timer that cannot work"). A recipient that is no key, or a passphrase file
  that is not there, is enabled and never seals anything. **`FiresWhereAsked`**.
  A relative `--output`, and a relative `--home` or `RAD_HOME`, is written as given
  (`schedule.rs:419`; `Home::at` does not make it absolute) and resolved from the
  home of systemd's user: the timer backs up another home, or none. **`NotEnabledIsNotScheduled`** (`schedule.rs:117`). When `enable` is
  refused, an earlier timer stays armed, over the new settings.
  **`DisabledIsNotScheduled`** (`schedule.rs:236`, "no backup is scheduled on this
  machine"). A timer that was disabled and not stopped, by hand or by a
  `disable --now` that failed half-way, goes on firing until the next boot.
  **`OwnUnitsAreReplaced`** (`schedule.rs:32`). A unit cut short as it was written
  has lost its header, and every later `schedule` refuses it as somebody else's.
  **`CrontabDoesTheJob`** (`schedule.rs:260`, "does the same job"). The line names
  no home and keeps 7 where nothing was said, which keeps all.

## 5. Proofs

TLAPS checks the following for all values of the constants, under the named
assumptions of the modules (`ArchivesAssumption`: runs, prunes and old archives
are distinct, stamps are naturals; `ProcessesAssumption`: backups and restores
are distinct).

The theorems on `RetentionList` are in `ArchiveDirProofs`, those on `NodeControl`
in `RestoreInstallProofs`, both at the end of the module, which extends either
model (hence names like `ListingSpec` and `NodeSpec`); those on `Inventory` are in `DoctorProofs`, since `Doctor` extends it.

* `TypeCorrect`, `ListingTypeCorrect`, `NodeTypeCorrect` and their like: the type
  invariants, by one step per action.
* `ArchiveDirProofs!FinishedNames`: with names of their own (`~SharedNames`),
  `Spec => []FinishedNamesAreWhole`. The property is not inductive: that the
  file a `Rename` publishes is whole depends on which file the name `.partial`
  reaches at that moment. `PublishInv` adds that names are unique (`Unique`),
  that every entry, in memory or on disk, points at a file named after it
  (`PointsHome`), that finished entries are whole *and* synced (`Durable`:
  whole alone does not survive `PowerLoss`), and what each run's position says
  about its file (`Progress`). From `Unique` and `PointsHome` follows that the
  name a run syncs and renames is its own file, the step `shared_name` breaks.
* `ArchiveDirProofs!SweepCorrect` and what follows from it: `TrueNotes`,
  `NewestCompleteStays`, `DeletionsStoodInFor`, `OwnArchiveSpared`. A sweep lists the directory, reads the notes later, and
  deletes later still, while others publish and sweep; so what a run holds in
  `todo` is old news, and none of the four properties is inductive. `SweepInv`
  has three parts. `EntryInv`: an entry under a finished name is settled, its
  note says what its run knew (`OwnNotes`, `ClaimsTrue`), and every listing and
  sentence under way speaks of settled entries, never of the sweeper's own.
  `KeptInv`: a complete archive is sentenced only because of a newer one that was
  promised, so the greatest promised complete archive is in nobody's sentence, and
  in the directory, in memory and on disk. `StandInInv`: the greatest candidate
  of each settings, present and complete, is in nobody's sentence either. The two
  arguments about a greatest archive use `MaxOf`: a bounded set of stamps has a
  greatest element, from the well-foundedness of the naturals. Assumptions:
  `ArchivesAssumption`, `~SharedNames`.
* `ArchiveDirProofs!ImplementsShelf`: `Spec => Promised!Spec`, from the same
  invariant. Only four actions are seen on the shelf: `Rename` (the name was free,
  since what stands under it would be the run's own file, and that is not settled
  before its rename), `SyncDirectory`, `DeleteArchive` (what is sentenced is
  surpassed, so never the greatest promised) and `PowerLoss`. `FlushIsFlush` is where the
  best archive changes: what a run has just promised is shown or surpassed
  (`RenamedThere`).
* `ArchiveDirProofs`, on `RetentionList`: `ListedNewestOutlives`, `SparesThePossible`,
  `NextSweepSafe`, for any
  number of archives, settings, notes and any `--keep`. The quantifier over
  worlds is the work: that the rule spares no more than the possible is shown by
  naming, for each archive it spares, a world in which it is the newest complete
  one. Assumption: `SettingsAssumption`, that there are settings and that none of
  them stands for having none.
* `RestoreInstallProofs!ExactCopies`, on `NodeControl`: `[]ExactCopy`, for any number of backups and
  restores and a user who does what they like. `ExactCopyInv`
  (`ExactCopyInvariant`) adds that only `--stop-node` runs ask the node to stop
  and owe it a start, and that a node on its way up has crossed every such run at
  work: the property speaks of a node that is down while copied, and it is in the
  step from starting to up that it would break.
* `RestoreInstallProofs!InstallsAlone`: `[]InstallsOverNoNode`, with no restriction
  on who else runs. `InstallsOverNoNodeInv` carries what the second probe saw over
  the question to the writing: whoever starts the node meanwhile makes the restore
  `late`, and so does a node that was starting at that probe.
* `MoveProofs`: `MoveTypeCorrect`; `MoveInvariant` (`MoveInv` says what a move's
  position tells about its archive and the key, and is inductive with the type
  invariant); from it `RetiredForGood`, `SafeWord` and, because a step of `Move`
  is a step of `KeyCustody` or leaves its variables alone, `ImplementsCustody`.
  `NothingForks` rests on `QuietInv`: unless somebody worked on the machine
  (`worked`), once a move is past its probe the node is down and nothing is signed. Assumption: `MoveAssumption` (the source is not one of the others).
* `RestoreInstallProofs`: `InstallTypeCorrect`; `InstallInvariant`, `KeysAreNotLost`,
  `RetiredNamesStay` and `DoneMeansWhole`, for any number of restores, archives
  and retired names, under `~Together` and `"asIs" \notin User`, without which
  `TwoRestores.cfg` and `PutBack.cfg` refute `KeysSurvive`. So they are about one process
  at a time on a home, killed wherever it may be: that two processes choose one name
  is not excluded by the code, which has no lock. `KeysSurvive` is not inductive:
  what a copy may overwrite depends on the comparison of public halves before it,
  hence the clauses that a lone key never has an archive's public half beside it,
  that past the comparison no lone key is in place, and that a chosen name stays
  free. `DoneIsWhole` needs that what was copied stays, position by position.
  Assumption: `InstallAssumption`, whose last part says that in the homes one
  starts from, a key has its own public half or none.

* `ScheduleProofs`: `ScheduleTypeCorrect`; `ScheduleInvariant`, and from it
  `StatusWord`, `TimerWorks` and `NobodyNeeded`, for any settings
  asked for, any passphrases and any number of commands and changes. That a run
  works as asked is not inductive: it joins three files and what systemd has
  loaded, written by five steps of one command and by others. `ScheduleInv` says
  that each step of a command nobody disturbs leaves its part in place
  (`CommandInv`), that all of them are in place, loaded and started once the command
  was granted (`GrantInv`), that a timer switched off is
  neither enabled nor started until somebody sets it up (`OffInv`), and that what was
  last heard is still so (`HeardInv`).
  Assumption: `ScheduleAssumption`, whose second part says that no passphrase is
  one of the three words that stand for having none.
* `ReconcileProofs`: `ReconcileInvariant`, and from it `RecordHolds`, `NoShell`,
  `CopiesAreSafe`, `ForksAreSaid` and `CleanExits`, for any repositories, archives,
  runs, kills, failing git commands and announcements. `StoreInv` is about the
  disk: a directory may only be swept because the run that sweeps it found
  nothing there, so what was found at the start of a repository (`existed`) is
  still true of it at the end, and neither the record nor the list of what came
  back names it. `AccountInv` says that no carried repository drops out of the
  lists. `WordInv` says that each repository is still to be compared or has a
  standing that hides no head beyond the archive's: that rests on
  `ClassifyWell`, since the worst of several rows is reported and git never
  answers "yes" for a head beyond (`ReadingWell`, `WorstIsThere`).
  Assumptions: `RepositoriesAssumption`, `ReconcileAssumption`.
  `AheadIsFresh` adds `FreshInv`: what the record gained since the run first read
  it was heard since, and each repository taken to be ahead was set beside a head
  so heard.
* `SealingProofs`: `SealingInvariant`, and from it `FairOpening`, `FailIsEarned`
  and `ShutSeals`, for any key files in any order (one may be offered twice), any
  stanzas, any passphrases. age names no key when it gives up, so the code blames
  the one it asked last. That this is the one that failed rests on `AnswersInv`: an
  answer that does not unlock its key ends the opening at once, so while age is at
  work every answered key unlocks, stayed locked, or is the present one, asked
  just now and for the first time (`FirstAsked`); hence too that the keys called
  untried are exactly those behind it. `BehindInv` is what age has behind it: a
  key that would fit is there only if it stayed locked. `OutcomeInv` says what
  each outcome is owed to. `FailIsEarned` adds `ReadInv`, inductive beside it:
  every file offered is handed to age, skipped as one age cannot read, or still to
  be read, so that no key is passed over in silence. Assumption: `SealingAssumption`, the shapes of what is
  asked, at hand and offered, and that no key file stands for nobody.

* `DoctorProofs`: `DoctorTypeCorrect`; from `AccountInvariant`, `NoteAndExit`; from
  `RecordInvariant` and `StillInvariant`, `DiffTells`, `DiffIsCalm` and
  `DoctorTells`, for any repositories, views, selections, facts, kills and changes of
  the home, while a run bundles too. None of the four is inductive. `AccountInv`:
  every repository the reading saw is still to do, bundled or dropped, with less
  asked of a reading that guessed and nothing of a blind one, and what is published
  is that account; `missing` and `is_incomplete` then say which of the three it can
  be. `RecordInv` joins the record to the archive of its number: nothing rewrites
  that archive once the record names it, `carried` is what it holds, and refs
  recorded are no newer than bundles taken, and these no newer than the work. So
  where `diff` finds the recorded refs to be those of now, the bundle between
  them is of now as well: that is `DiffMissesNoWork`. `StillInv` follows one
  description of the home from the reading through the run into the record, as
  long as nothing changes; `NoFalseAlarm` is that what `diff` describes then is
  equal to it, because a reading that sees everything resolves a selection to
  what it means (`WholeDescribed`). `DoctorTells` goes line by line through the
  six checks. Assumptions: `InventoryAssumption`, `DoctorAssumption`
  (the shape of `Facts`, and that what is shared with nobody is private).
* `ContainerProofs`: `ContainerTypeCorrect`, `ArchiveInvariant`, and from them
  `PassIsEarned`, `GoodArchives` and `ComesBackAsWritten`, for files of any length,
  any hands, and any number of changes to home and file. That a path occurs in the
  stream at most once is what lets a digest by path stand for an entry; it rests
  on the paths to come and those behind being apart (`StreamInv`). A passing archive
  is as written by way of `FileInv`: only a finished run closes a file, its list
  of entries is that of the stream or has a hole where it decayed, and a hole
  matches nothing; so a list `mismatches` finds no fault with is the stream's, and
  the file reads back as that. The converse, that what a run finished passes, needs
  that no entry is empty and each is as long as its header says, for files that
  change while they are read. For `verify --deep` it needs the home: `StillInv` carries
  what is read block by block back to a home nobody touched. `HeardInv` keeps the
  last answer about the file there is now. Assumption: `ContainerAssumption`.

A theorem about a property names it, so that the run shows on a small instance
what the theorem says of all.

Two of these proofs changed the model. `sight` was a CASE with overlapping arms,
where TLA+ chooses any arm that is true and the code the first. It is now written
in the code's order. `DoctorAssumption` did not say what facts are, and
`Container` left the shape of a harmed file open.

Model-checked only: all liveness (`StoppedNodeComesBack`, `StartedNodeGoesDown`,
`RunsEnd`), which TLAPS cannot do. The properties under "Further disagreements"
are refuted, so there is nothing to prove.

## 6. What is not modelled

* `--stdout` archives: nothing is kept in the directory.
* A file name beyond its stamp. `taken_by_name` is taken to accept what
  `archive_name` writes, which the unit tests of `archives.rs` cover; a file
  written under a free `--output` name that has not this shape is never listed
  and so never swept.
* Command line, wording, colours, hints, the scratch directory, a dry run.
* age, ssh, SQLite, git and `rad` themselves: what they answer is chosen, from
  what the code expects of them. So too the copy of a database by SQLite
  (`db.rs`), which a run takes as the state of one moment.
* `words` and `paper`: how a key becomes words and pages is pure, and their
  restore is two writes in a row; `show` and `ls`, which print.
* Of a restore: a power loss, after which the renames and copies of an install are
  there in any order (`RestoreInstall` has kills only); `git gc`, so objects no ref reaches stay; two
  archives restored in turn over one `storage/` (all restores of one behaviour of
  `Repositories` are of one archive); links in place of the home's directories, the
  staging file of an atomic write, which two restores at once would share, and the rebuilding of the
  lists of issues and patches.
* Of the container: the `config` file git keeps for a repository.
* Of keys: the passphrase of the identity's own key, which a move asks for and
  checks before it does anything; the text of RETIRED.txt; a key that is there
  and cannot be parsed.

## 7. Plan

The components that keep state are modelled, and every safety property of the
runs is proved. What is left, most important first:

1. An abstract specification for `Reconcile`: the true relation of each
   repository to the network.
2. `words` as one more process of `RestoreInstall`.
