----------------------------- MODULE ArchiveDir -----------------------------
(***************************************************************************)
(* The directory the archives of one identity live in, and everything that *)
(* writes to it: concurrent `rad backup` runs, from `prepare` to the last  *)
(* archive a `--keep` sweeps, concurrent `rad backup prune` runs, kills,   *)
(* and power losses.  Nothing locks the directory: src/ has no lock file.  *)
(*                                                                         *)
(* Source: src/cmd/backup/destination.rs, the second half of `run` in      *)
(* src/cmd/backup/mod.rs with its `write_sidecar` and `prune`,             *)
(* src/cmd/prune.rs, src/archives.rs, `create_private_file` and            *)
(* `write_atomically` of src/perms.rs.                                     *)
(*                                                                         *)
(* A file name is its stamp: alias, node id and suffix are the same for    *)
(* all runs here.  A run creates one file, so the file is named after the  *)
(* run; a directory entry (`partial`, `final`) points at a file, because   *)
(* renaming and unlinking act on entries and a run that lost its entry     *)
(* goes on writing into its file.  `Old` are the archives there before.    *)
(***************************************************************************)
EXTENDS Retention, FiniteSetsExt

CONSTANTS Runs,        \* `rad backup` processes
          Prunes,      \* `rad backup prune` processes
          Old,         \* archives earlier runs left
          None,        \* no directory entry, no stamp
          MaxStamp,    \* bound: stamps are 1..MaxStamp
          MaxLosses,   \* bound: how often power is lost
          SharedNames  \* whether two runs may pick one name (see Prepare)

Procs    == Runs \cup Prunes
Archives == Runs \cup Old
Stamps   == 1..MaxStamp

ASSUME ArchivesAssumption ==
  /\ Runs \cap Prunes = {} /\ Runs \cap Old = {}
  /\ None \notin Archives \cup Stamps
  /\ MaxStamp \in Nat /\ MaxLosses \in Nat
  /\ SharedNames \in BOOLEAN

VARIABLES
  pc,        \* where each process is
  name,      \* the stamp in an archive's name
  settings,  \* the settings it is taken with
  missing,   \* what the run that wrote it knows it left out: a note's value
  holds,     \* whether it really holds every repository its settings select
  whole,     \* files written up to their manifest
  synced,    \* files whose whole content reached the disk
  partial,   \* directory: the entry `<name>.partial`
  final,     \* directory: the entry `<name>`
  note,      \* directory: `<name>.README.txt`
  disk,      \* the three kinds of entry as of the last directory flush
  todo,      \* stamps a sweep has listed, then those it is to delete
  losses,    \* power losses so far
  promised,  \* history: archives whose commit reached the disk
  warned,    \* history: some run warned that its rename was not flushed
  unsure     \* history: some sweep condemned an archive without a note

directory == <<partial, final, note>>
archive   == <<name, settings, missing, holds, whole, synced>>
history   == <<promised, warned, unsure>>
vars == <<pc, archive, directory, disk, todo, losses, history>>

Idle   == {"idle", "done", "failed", "dead"}
Active == {"prepared", "writing", "written", "synced", "renamed", "committed",
           "noted", "listed", "confirming", "deleting", "unnoting"}

TypeOK ==
  /\ pc \in [Procs -> Idle \cup Active]
  /\ name \in [Archives -> Stamps \cup {None}]
  /\ settings \in [Archives -> Settings]
  /\ missing \in [Archives -> {"none", "some"}]
  /\ holds \in [Archives -> BOOLEAN]
  /\ whole \subseteq Archives /\ synced \subseteq Archives
  /\ partial \in [Stamps -> Archives \cup {None}]
  /\ final \in [Stamps -> Archives \cup {None}]
  /\ note \in [Stamps -> Note]
  /\ disk \in [partial : [Stamps -> Archives \cup {None}],
               final : [Stamps -> Archives \cup {None}], note : [Stamps -> Note]]
  /\ todo \in [Procs -> SUBSET Stamps]
  /\ losses \in Nat
  /\ promised \subseteq Archives /\ warned \in BOOLEAN /\ unsure \in BOOLEAN

(* What a flush of the directory writes.                                   *)
Flushed == [partial |-> partial, final |-> final, note |-> note]

(* The note a run writes beside its archive.                               *)
NoteOf(a) == [missing |-> missing[a], settings |-> settings[a]]

(* Earlier runs left whole archives under names of their own, the note     *)
(* beside each either theirs or gone (an older version wrote none).        *)
Init ==
  /\ pc = [p \in Procs |-> "idle"]
  /\ name \in [Archives -> Stamps \cup {None}]
  /\ \A r \in Runs : name[r] = None
  /\ \A a \in Old : name[a] # None
  /\ \A a, b \in Old : name[a] = name[b] => a = b
  /\ settings \in [Archives -> Settings]
  /\ holds \in [Archives -> BOOLEAN] /\ \A r \in Runs : ~holds[r]
  /\ missing = [a \in Archives |-> IF holds[a] THEN "none" ELSE "some"]
  /\ whole = Old /\ synced = Old
  /\ partial = [n \in Stamps |-> None]
  /\ final = [n \in Stamps |->
                IF \E a \in Old : name[a] = n
                THEN CHOOSE a \in Old : name[a] = n ELSE None]
  /\ note \in [Stamps -> Note]
  /\ \A n \in Stamps : note[n] \in IF final[n] = None THEN {NoNote}
                                   ELSE {NoNote, NoteOf(final[n])}
  /\ disk = Flushed
  /\ todo = [p \in Procs |-> {}]
  /\ losses = 0 /\ promised = Old /\ warned = FALSE /\ unsure = FALSE

Goto(p, from, to) == pc[p] = from /\ pc' = [pc EXCEPT ![p] = to]

----------------------------------------------------------------------------
(* One backup run.                                                         *)

(* `prepare`: the name is made from the clock, or given by `--output`.     *)
(* The clock may have been set back, so the stamp need not be the newest.  *)
(* Two runs share a name when they start within one second or are given    *)
(* one `--output`; without SharedNames every run has a name of its own.    *)
Prepare(r, n) ==
  /\ Goto(r, "idle", "prepared")
  /\ SharedNames \/ \A a \in Archives : name[a] # n
  /\ name' = [name EXCEPT ![r] = n]
  /\ UNCHANGED <<settings, missing, holds, whole, synced, directory, disk, todo, losses, history>>

(* `Destination::open`: whatever has the `.partial` name is unlinked.      *)
Open(r) ==
  /\ Goto(r, "prepared", "writing")
  /\ partial' = [partial EXCEPT ![name[r]] = r]
  /\ UNCHANGED <<archive, final, note, disk, todo, losses, history>>

(* Mutant: the note is as lenient as the exit status.                      *)
missing_of_AsTheExit(dropped, sight) ==
  IF dropped \/ sight = "Blind" THEN "some" ELSE "none"

(* `is_incomplete` is the exit status, `missing` the stricter note.        *)
missing_of(dropped, sight) ==
  IF dropped \/ sight # "Seen" THEN "some" ELSE "none"

(* Keys, databases, each bundle that could be made, and the manifest last. *)
(* A repository left out is a dropped bundle, or one a selection judged    *)
(* with less than full sight never had; the latter shows nowhere.          *)
Write(r, dropped, sight, h) ==
  /\ Goto(r, "writing", "written")
  /\ h => ~dropped
  /\ (~dropped /\ sight = "Seen") => h
  /\ missing' = [missing EXCEPT ![r] = missing_of(dropped, sight)]
  /\ holds' = [holds EXCEPT ![r] = h]
  /\ whole' = whole \cup {r}
  /\ UNCHANGED <<name, settings, synced, directory, disk, todo, losses, history>>

(* Mutant: `flush`, which does nothing on a file, for `sync_all`.          *)
Sync_FlushOnly(r) ==
  /\ Goto(r, "written", "synced")
  /\ partial[name[r]] # None
  /\ UNCHANGED <<archive, directory, disk, todo, losses, history>>

(* `commit`: open the `.partial` by name and fsync what it finds, ...      *)
Sync(r) ==
  /\ Goto(r, "written", "synced")
  /\ partial[name[r]] # None
  /\ synced' = synced \cup ({partial[name[r]]} \cap whole)
  /\ UNCHANGED <<name, settings, missing, holds, whole, directory, disk, todo, losses, history>>

(* ... rename it over the final name, ...                                  *)
Rename(r) ==
  LET n == name[r] IN
  /\ Goto(r, "synced", "renamed")
  /\ partial[n] # None
  /\ final' = [final EXCEPT ![n] = partial[n]]
  /\ partial' = [partial EXCEPT ![n] = None]
  /\ UNCHANGED <<archive, note, disk, todo, losses, history>>

(* Mutant: the directory is not flushed.                                   *)
SyncDirectory_Skipped(r) ==
  /\ Goto(r, "renamed", "committed")
  /\ promised' = promised \cup {r}
  /\ UNCHANGED <<archive, directory, disk, todo, losses, warned, unsure>>

(* ... and fsync the directory, a failure of which is a warning.           *)
SyncDirectory(r) ==
  /\ Goto(r, "renamed", "committed")
  /\ \/ /\ disk' = Flushed
        /\ promised' = promised \cup {r}
        /\ UNCHANGED warned
     \/ warned' = TRUE /\ UNCHANGED <<disk, promised>>
  /\ UNCHANGED <<archive, directory, todo, losses, unsure>>

(* Any `?` before `committed` is set: the guard's Drop removes the         *)
(* `.partial` of that name, and ignores an error of the removal.           *)
Fail(r) ==
  /\ pc[r] \in {"prepared", "writing", "written", "synced"}
  /\ pc' = [pc EXCEPT ![r] = "failed"]
  /\ \E left \in {None, partial[name[r]]} : partial' = [partial EXCEPT ![name[r]] = left]
  /\ UNCHANGED <<archive, final, note, disk, todo, losses, history>>

(* `write_sidecar`, staged and renamed.  When it fails, a note an earlier  *)
(* archive left at this name is removed, unless that fails as well.        *)
WriteNote(r) ==
  /\ Goto(r, "committed", "noted")
  /\ \E said \in {NoteOf(r), NoNote, note[name[r]]} :
        note' = [note EXCEPT ![name[r]] = said]
  /\ UNCHANGED <<archive, partial, final, disk, todo, losses, history>>

(* A run without `--keep`, or one whose listing fails, sweeps nothing.     *)
NoSweep(r) ==
  /\ Goto(r, "noted", "done")
  /\ UNCHANGED <<archive, directory, disk, todo, losses, history>>

----------------------------------------------------------------------------
(* A sweep: by a run with `--keep` after its note, or by `prune`.          *)

Present == {n \in Stamps : final[n] # None}

(* `in_dir` lists the finished names.                                      *)
List(p) ==
  /\ Goto(p, IF p \in Runs THEN "noted" ELSE "idle", "listed")
  /\ todo' = [todo EXCEPT ![p] = Present]
  /\ UNCHANGED <<archive, directory, disk, losses, history>>

(* The notes are read after the listing, and the fates decided.  A run     *)
(* never sweeps the archive it has just written; `prune` asks first.       *)
Judged(p) == [n \in todo[p] |-> in_note(note[n])]

(* Mutant: the archive just written is swept like any other.               *)
Condemned_OwnToo(p, keep) == Doomed(Judged(p), keep)

Condemned(p, keep) ==
  Doomed(Judged(p), keep) \ (IF p \in Runs THEN {name[p]} ELSE {})

Judge(p, keep) ==
  /\ Goto(p, "listed", IF p \in Runs THEN "deleting" ELSE "confirming")
  /\ todo' = [todo EXCEPT ![p] = Condemned(p, keep)]
  /\ unsure' = (unsure \/ \E n \in Condemned(p, keep) : Judged(p)[n] = Unknown)
  /\ UNCHANGED <<archive, directory, disk, losses, promised, warned>>

Confirm(p) ==
  /\ Goto(p, "confirming", "deleting")
  /\ UNCHANGED <<archive, directory, disk, todo, losses, history>>

(* `--dry-run`, or an answer of no.                                        *)
Decline(p) ==
  /\ Goto(p, "confirming", "done")
  /\ todo' = [todo EXCEPT ![p] = {}]
  /\ UNCHANGED <<archive, directory, disk, losses, history>>

(* Newest first, the archive and then its note.                            *)
DeleteArchive(p) ==
  /\ todo[p] # {} /\ Goto(p, "deleting", "unnoting")
  /\ final[Max(todo[p])] # None
  /\ final' = [final EXCEPT ![Max(todo[p])] = None]
  /\ UNCHANGED <<archive, partial, note, disk, todo, losses, history>>

(* A note that stays is a warning.                                         *)
DeleteNote(p) ==
  LET n == Max(todo[p]) IN
  /\ Goto(p, "unnoting", "deleting")
  /\ \E said \in {NoNote, note[n]} : note' = [note EXCEPT ![n] = said]
  /\ todo' = [todo EXCEPT ![p] = @ \ {n}]
  /\ UNCHANGED <<archive, partial, final, disk, losses, history>>

(* The first archive that cannot be deleted, one gone already included,    *)
(* ends the sweep: a warning for a run, exit 1 for `prune`.                *)
DeleteFails(p) ==
  /\ todo[p] # {} /\ Goto(p, "deleting", "done")
  /\ todo' = [todo EXCEPT ![p] = {}]
  /\ UNCHANGED <<archive, directory, disk, losses, history>>

SweepDone(p) ==
  /\ todo[p] = {} /\ Goto(p, "deleting", "done")
  /\ UNCHANGED <<archive, directory, disk, todo, losses, history>>

----------------------------------------------------------------------------
(* The environment.                                                        *)

(* A signal kills a process without running any Drop.                      *)
Kill(p) ==
  /\ pc[p] \in Active
  /\ pc' = [pc EXCEPT ![p] = "dead"]
  /\ todo' = [todo EXCEPT ![p] = {}]
  /\ UNCHANGED <<archive, directory, disk, losses, history>>

(* Each entry is as it was in memory or as it was on disk.                 *)
Mixed(now, flushed) ==
  {f \in [Stamps -> Range(now) \cup Range(flushed)] :
     \A n \in Stamps : f[n] \in {now[n], flushed[n]}}

(* Every process dies.  A file keeps what was fsynced, and each directory  *)
(* entry changed since the last flush may have its old or its new value.   *)
PowerLoss ==
  /\ losses < MaxLosses /\ losses' = losses + 1
  /\ pc' = [p \in Procs |-> IF pc[p] \in Active THEN "dead" ELSE pc[p]]
  /\ todo' = [p \in Procs |-> {}]
  /\ whole' = whole \cap synced
  /\ partial' \in Mixed(partial, disk.partial) /\ final' \in Mixed(final, disk.final)
  /\ note' \in Mixed(note, disk.note)
  /\ disk' = Flushed'
  /\ UNCHANGED <<name, settings, missing, holds, synced, history>>

RunStep(r) ==
  \/ \E n \in Stamps : Prepare(r, n)
  \/ Open(r)
  \/ \E dropped, h \in BOOLEAN, sight \in {"Seen", "Guessed", "Blind"} :
        Write(r, dropped, sight, h)
  \/ Sync(r) \/ Rename(r) \/ SyncDirectory(r) \/ Fail(r)
  \/ WriteNote(r) \/ NoSweep(r)

PruneStep(p) == Confirm(p) \/ Decline(p)

SweepStep(p) ==
  \/ List(p) \/ (\E keep \in Keeps : Judge(p, keep))
  \/ DeleteArchive(p) \/ DeleteNote(p) \/ DeleteFails(p) \/ SweepDone(p)

Next ==
  \/ \E r \in Runs : RunStep(r)
  \/ \E p \in Prunes : PruneStep(p)
  \/ \E p \in Procs : SweepStep(p) \/ Kill(p)
  \/ PowerLoss

Spec == Init /\ [][Next]_vars

----------------------------------------------------------------------------

(* A file under a finished name is a whole archive: a kill, an error or a  *)
(* power loss at any moment leaves at worst a `.partial` (the comment on   *)
(* `Destination`, and the fsync before the rename in `commit`).            *)
FinishedNamesAreWhole == \A n \in Present : final[n] \in whole

(* Why that is so, when every run has a name of its own: an entry, on disk *)
(* or not yet, only ever points at the file of the run it is named for, so *)
(* what `commit` fsyncs and renames by name is the file the run has just   *)
(* written; and it is fsynced before any finished name points at it.       *)
Unique == \A a, b \in Archives : name[a] = name[b] => a = b \/ name[a] = None

PointsHome(entries) ==
  \A n \in Stamps : entries[n] # None => name[entries[n]] = n

Durable(entries) ==
  \A n \in Stamps : entries[n] # None => entries[n] \in whole \cap synced

Progress ==
  \A r \in Runs :
    /\ pc[r] = "idle" => name[r] = None
    /\ pc[r] \in Active => name[r] # None
    /\ pc[r] \in {"written", "synced"} => r \in whole
    /\ pc[r] = "synced" => r \in synced

PublishInv ==
  /\ Unique /\ Progress
  /\ PointsHome(partial) /\ PointsHome(final)
  /\ PointsHome(disk.partial) /\ PointsHome(disk.final)
  /\ Durable(final) /\ Durable(disk.final)

(* What notes and sweeps have to go by.  An archive is settled once its    *)
(* run has renamed it or ended, so what it lacks is decided; every entry   *)
(* and every stamp a sweep has listed is of a settled archive, and a note  *)
(* is the one its own run wrote, after its commit.                         *)
BeforeRename == {"idle", "prepared", "writing", "written", "synced"}
BeforeNote   == BeforeRename \cup {"renamed", "committed"}
Settled(a)   == a \in Old \/ pc[a] \notin BeforeRename
Noted(a)     == a \in Old \/ pc[a] \notin BeforeNote
Judging      == {"confirming", "deleting", "unnoting"}
Sentenced    == UNION {todo[p] : p \in {q \in Procs : pc[q] \in Judging}}
Listed       == UNION {todo[p] : p \in Procs}

SettledEntries(entries) ==
  \A n \in Stamps : entries[n] # None => Settled(entries[n])

OwnNotes(notes) ==
  \A n \in Stamps : notes[n] # NoNote =>
    \E a \in Archives : name[a] = n /\ Noted(a) /\ notes[n] = NoteOf(a)

ListedSettled == \A n \in Listed : \E a \in Archives : name[a] = n /\ Settled(a)
ClaimsTrue    == \A a \in Archives : missing[a] = "none" => holds[a]
OwnIsSpared   == \A r \in Runs : pc[r] \in Judging => name[r] \notin todo[r]
HasNext       == \A p \in Procs : pc[p] = "unnoting" => todo[p] # {}

EntryInv ==
  /\ SettledEntries(final) /\ SettledEntries(disk.final) /\ ListedSettled
  /\ OwnNotes(note) /\ OwnNotes(disk.note) /\ ClaimsTrue
  /\ OwnIsSpared /\ HasNext

(* Why sweeps that overlap lose nothing: a complete archive is sentenced   *)
(* only because of one that is promised and newer, so the newest of those  *)
(* is in nobody's list, and in the directory, in memory and on disk.       *)
KeptAs(a)    == a \in promised /\ missing[a] = "none"
Surpassed(n) == \E a \in Archives : KeptAs(a) /\ name[a] > n

Promises ==
  /\ \A a \in promised : Settled(a) /\ name[a] # None
  /\ \A r \in Runs : pc[r] = "committed" => r \in promised
PromisedNotes(notes) ==
  \A n \in Stamps : notes[n].missing = "none" =>
    \E a \in Archives : KeptAs(a) /\ name[a] = n
SentencedSurpassed ==
  \A a \in Archives : missing[a] = "none" /\ name[a] \in Sentenced => Surpassed(name[a])
RenamedThere ==
  \A r \in Runs : pc[r] = "renamed" /\ missing[r] = "none" =>
    final[name[r]] = r \/ Surpassed(name[r])
KeptThere ==
  \A a \in Archives : KeptAs(a) =>
    Surpassed(name[a]) \/ (final[name[a]] = a /\ disk.final[name[a]] = a)

KeptInv ==
  ~warned => /\ Promises /\ PromisedNotes(note) /\ PromisedNotes(disk.note)
             /\ SentencedSurpassed /\ RenamedThere /\ KeptThere

(* The same for each settings, by the notes: among the archives some sweep *)
(* may take for complete, the newest is there and in nobody's sentence.    *)
SaysComplete(n, s) == note[n] = [missing |-> "none", settings |-> s]
Candidates(s) == {n \in Present \cup Listed : SaysComplete(n, s)}

UnnotedStands ==
  \A r \in Runs : pc[r] \in {"renamed", "committed"} =>
    final[name[r]] = r /\ name[r] \notin Sentenced
NewestStands ==
  \A s \in Settings : Candidates(s) # {} =>
    \E k \in Candidates(s) :
      k \in Present \ Sentenced /\ \A n \in Candidates(s) : n <= k

StandInInv == ~unsure => UnnotedStands /\ NewestStands

SweepInv == EntryInv /\ KeptInv /\ StandInInv

(* A note that says `none` stands beside an archive that really holds      *)
(* every repository of the settings it names.  `fates` believes it.        *)
NotesAreTrue ==
  \A n \in Present : note[n].missing = "none" =>
     /\ holds[final[n]]
     /\ note[n].settings = settings[final[n]]

(* `--keep`: the newest archive with every repository it was asked to save *)
(* is always kept.  Once an archive judged complete is on disk, it or a    *)
(* newer complete one stays there, through any interleaving of sweeps,     *)
(* kills and power losses, unless a run has warned that its rename may not *)
(* survive one.                                                            *)
NewestCompleteKept ==
  warned \/ \A a \in promised : missing[a] = "none" =>
    \E n \in Present : n >= name[a] /\ final[n] \in whole /\ holds[final[n]]

Deletes(p) == pc[p] = "deleting" /\ pc'[p] = "unnoting"

HasStandIn(n) == \E m \in Present : m > n /\ note[m] = note[n] /\ holds[final[m]]

DeletesStoodInFor ==
  \A p \in Procs :
    Deletes(p) /\ ~unsure /\ note[Max(todo[p])].missing = "none" => HasStandIn(Max(todo[p]))

SparesItsOwn == \A r \in Runs : Deletes(r) => final'[name[r]] = final[name[r]]

(* A process deletes an archive whose note says it is complete only while  *)
(* a newer archive, complete for the same settings, is there to stand in.  *)
(* The note of the newer one was read when the sweep was judged, so other  *)
(* sweeps may have run since.  Archives condemned while their note was not *)
(* there are another matter: see StandsInOnlyForEqualSettings.             *)
DeletesOnlyWithStandIn == [][DeletesStoodInFor]_vars

(* A run never sweeps the archive it has just written, not even when the   *)
(* clock was set back and the archive is the oldest in the directory.      *)
RunKeepsItsOwnArchive == [][SparesItsOwn]_vars

(* The directory as somebody sees it who knows nothing of runs and sweeps: *)
(* finished names with whole archives, those that would survive a power    *)
(* loss, and the newest archive judged complete that was promised so far.  *)
ShownNames   == {n \in Stamps : final[n] # None /\ final[n] \in whole}
FlushedNames == {n \in Stamps : disk.final[n] # None /\ disk.final[n] \in whole}
KeptNames    == {name[a] : a \in {b \in Archives : KeptAs(b)}}
BestPromised == IF warned THEN 0 ELSE Max({0} \cup KeptNames)

Promised == INSTANCE Shelf WITH
  shown <- ShownNames, flushed <- FlushedNames, best <- BestPromised

(* All the runs, sweeps, kills and power losses together never do more to  *)
(* that picture than publish an archive nobody had, flush, discard one     *)
(* that is not the best, or lose what no flush had covered.                *)
KeepsItsPromises == Promised!Spec

(* The comment on `Settings`: "A complete archive stands in for an older   *)
(* one only when their settings are equal".  Stated of what the archives   *)
(* hold and not of their notes.                                            *)
StandsInOnlyForEqualSettings ==
  [][\A p \in Procs : Deletes(p) =>
       LET a == final[Max(todo[p])] IN
       missing[a] = "none" =>
         \E m \in Present : /\ m > Max(todo[p])
                            /\ holds[final[m]]
                            /\ settings[final[m]] = settings[a]]_vars

============================================================================
