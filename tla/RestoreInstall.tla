--------------------------- MODULE RestoreInstall ---------------------------
(***************************************************************************)
(* `rad backup restore` writing into a home that may hold another          *)
(* identity: the refusals, the displaced key, the files copied one after   *)
(* the other, kills between any two of them, and further restores into     *)
(* what they leave.  Beside the restores: a `move` that retires the key of *)
(* this home, and a user who does what the notes beside a retired key say. *)
(*                                                                         *)
(* Source: `run`, `install`, `retire_any_displaced_key` and                *)
(* `replay_policies` of src/cmd/restore.rs, `retire` and `retired_path` of *)
(* src/cmd/migrate.rs, src/perms.rs, and what a restore would overwrite in *)
(* src/home.rs.  A file is whose it is.  The node's probes are in          *)
(* NodeControl.                                                            *)
(***************************************************************************)
EXTENDS Naturals, Sequences

CONSTANTS Runs,      \* restore processes
          Ids,       \* identities
          None,      \* no file, or one that cannot be read as a key
          Archives,  \* records [id, has]: whose, and which files besides the keys
          Homes,     \* records [file, log, kept]: what a home can hold at first
          MaxKept,   \* bound: names for retired keys
          Together,  \* whether restores run at the same time
          User       \* what else the user does with retired keys

Databases == {"policies", "notifications", "node"}
Order     == <<"secret", "pub", "config", "policies", "notifications", "node">>
Files     == {"secret", "pub", "config"} \cup Databases
Slots     == 1..MaxKept
Owner     == Ids \cup {None}

ASSUME InstallAssumption ==
  /\ None \notin Ids /\ MaxKept \in Nat /\ 1 \in Slots
  /\ Together \in BOOLEAN /\ User \subseteq {"moves", "takesAway", "putsBack", "asIs"}
  /\ Archives \subseteq [id : Ids, has : SUBSET (Files \ {"secret", "pub"})]
  /\ Homes \subseteq [file : [Files -> Owner], log : [Databases -> Owner],
                      kept : [Slots -> Owner]]
  \* A key in place has its own public half beside it, or none that reads.
  /\ \A h \in Homes : h.file["secret"] # None => h.file["pub"] \in {None, h.file["secret"]}

VARIABLES
  pc, opt,  \* where each restore is; its archive, `--force`, `--replay-policies`
  at,       \* the file it copies next, a position of Order
  was,      \* whom it found in the home, by the public half
  to,       \* the name it has chosen for a displaced key
  file,     \* the home's files
  log,      \* write-ahead logs beside its databases
  kept,     \* retired private keys: radicle.retired, radicle.retired.2, ...
  keptPub,  \* the public halves beside them
  notes,    \* DISPLACED.txt: which name was whose
  had,      \* history: the keys this home has held
  safe      \* history: keys with a copy outside this home

run  == <<pc, opt, at, was, to>>
keys == <<kept, keptPub, notes, safe>>
vars == <<run, file, log, keys, had>>

Over   == {"done", "refused", "failed", "dead"}
Lone   == {i \in Ids : \A a \in Archives : a.id # i}  \* no archive holds them

TypeOK ==
  /\ pc \in [Runs -> {"idle", "unpacking", "looking", "confirming", "moving", "movingPub",
                      "noting", "copying", "storing"} \cup Over]
  /\ opt \in [Runs -> [arch : Archives, force : BOOLEAN, replay : BOOLEAN]]
  /\ at \in [Runs -> 1..Len(Order) + 1]
  /\ was \in [Runs -> Owner] /\ to \in [Runs -> Slots]
  /\ file \in [Files -> Owner] /\ log \in [Databases -> Owner]
  /\ kept \in [Slots -> Owner] /\ keptPub \in [Slots -> Owner]
  /\ notes \subseteq [slot : Slots, id : Owner]
  /\ had \subseteq Ids /\ safe \subseteq Ids

Init ==
  /\ \E h \in Homes :
       /\ file = h.file /\ log = h.log /\ kept = h.kept
       /\ had = ({h.file["secret"]} \cup {h.kept[s] : s \in Slots}) \ {None}
  /\ keptPub = [s \in Slots |-> None] /\ notes = {} /\ safe = {}
  /\ pc = [r \in Runs |-> "idle"]
  /\ opt \in [Runs -> [arch : Archives, force : BOOLEAN, replay : BOOLEAN]]
  /\ at = [r \in Runs |-> 1] /\ was = [r \in Runs |-> None] /\ to = [r \in Runs |-> 1]

Archived == {a.id : a \in Archives}
Sets(r, to_) == pc' = [pc EXCEPT ![r] = to_]
Goto(r, from, to_) == pc[r] = from /\ Sets(r, to_)
Active(r) == pc[r] \notin {"idle"} \cup Over
----------------------------------------------------------------------------
(* `run`, up to the installation.                                          *)

(* Without `--force` neither an identity nor anything else a restore would *)
(* overwrite may be there; a public half alone does not count.             *)
Blocked(r) ==
  /\ ~opt[r].force
  /\ \/ \E f \in Files \ {"pub"} : file[f] # None
     \/ \E d \in Databases : log[d] # None
     \/ \E s \in Slots : kept[s] # None \/ keptPub[s] # None

Begin(r) ==
  /\ Together \/ \A q \in Runs : ~Active(q)
  /\ Goto(r, "idle", IF Blocked(r) THEN "refused" ELSE "unpacking")
  /\ UNCHANGED <<opt, at, was, to, file, log, keys, had>>

(* The archive is unpacked beside the home and checked, its key proven to  *)
(* be the one it names, links and node asked about again.                  *)
Unpack(r, ok) ==
  /\ Goto(r, "unpacking", IF ok THEN "looking" ELSE "refused")
  /\ UNCHANGED <<opt, at, was, to, file, log, keys, had>>

----------------------------------------------------------------------------
(* `retire_any_displaced_key`.                                             *)

(* Mutant: a key that cannot be told from its public half is not another's.*)
Displaces_KnownOnly(r) == file["secret"] # None /\ file["pub"] \notin {None, opt[r].arch.id}

(* The halves compared are the public ones.                                *)
Displaces(r) == file["secret"] # None /\ file["pub"] # opt[r].arch.id

Look(r) ==
  /\ Goto(r, "looking", IF Displaces(r) THEN "confirming" ELSE "copying")
  /\ was' = [was EXCEPT ![r] = file["pub"]]
  /\ UNCHANGED <<opt, at, to, file, log, keys, had>>

Decline(r) ==
  /\ Goto(r, "confirming", "refused")
  /\ UNCHANGED <<opt, at, was, to, file, log, keys, had>>

(* Mutant: always the first name.                                          *)
retired_path_First(s) == s = 1

(* The first name nothing is at.                                           *)
retired_path(s) == kept[s] = None /\ \A t \in 1..s - 1 : kept[t] # None

ChooseName(r, s) ==
  /\ retired_path(s)
  /\ Goto(r, "confirming", "moving")
  /\ to' = [to EXCEPT ![r] = s]
  /\ UNCHANGED <<opt, at, was, file, log, keys, had>>

(* The rename: it fails without a key to rename, and replaces what has     *)
(* come to stand at the name.                                              *)
MoveSecret(r) ==
  /\ Goto(r, "moving", IF file["secret"] = None THEN "failed" ELSE "movingPub")
  /\ kept' = IF file["secret"] = None THEN kept ELSE [kept EXCEPT ![to[r]] = file["secret"]]
  /\ file' = [file EXCEPT !["secret"] = None]
  /\ UNCHANGED <<opt, at, was, to, log, keptPub, notes, safe, had>>

(* The public half follows if there is one; a failure only warns.          *)
MovePub(r, ok) ==
  /\ Goto(r, "movingPub", "noting")
  /\ IF ok /\ file["pub"] # None
     THEN /\ keptPub' = [keptPub EXCEPT ![to[r]] = file["pub"]]
          /\ file' = [file EXCEPT !["pub"] = None]
     ELSE UNCHANGED <<keptPub, file>>
  /\ UNCHANGED <<opt, at, was, to, log, kept, notes, safe, had>>

(* The note says whom the public half named; a failure ends the restore.   *)
WriteDisplacedNote(r, ok) ==
  /\ Goto(r, "noting", IF ok THEN "copying" ELSE "failed")
  /\ notes' = IF ok THEN notes \cup {[slot |-> to[r], id |-> was[r]]} ELSE notes
  /\ UNCHANGED <<opt, at, was, to, file, log, kept, keptPub, safe, had>>

----------------------------------------------------------------------------
(* The rest of `install`, one file after the other, and of `run`.          *)

Carries(r, f) == f \in {"secret", "pub"} \cup opt[r].arch.has

(* Mutant: what is there is not written over.                              *)
copied_OntoNothing(r, f) ==
  IF f = "policies" /\ opt[r].replay THEN None
  ELSE IF Carries(r, f) /\ file[f] = None THEN opt[r].arch.id ELSE file[f]

(* A file the archive's tier does not carry is skipped.  Under             *)
(* `--replay-policies` the policy database goes, and is not copied.        *)
copied(r, f) ==
  IF f = "policies" /\ opt[r].replay THEN None
  ELSE IF Carries(r, f) THEN opt[r].arch.id ELSE file[f]

(* `write_atomically`: the old file or the new.  Only a policy database    *)
(* about to be replayed loses its write-ahead log.                         *)
CopyNext(r) ==
  LET f == Order[at[r]] IN
  /\ at[r] \in DOMAIN Order
  /\ Goto(r, "copying", IF at[r] = Len(Order) THEN "storing" ELSE "copying")
  /\ file' = [file EXCEPT ![f] = copied(r, f)]
  /\ log' = IF f = "policies" /\ opt[r].replay THEN [log EXCEPT !["policies"] = None] ELSE log
  /\ at' = [at EXCEPT ![r] = at[r] + 1]
  /\ had' = IF f = "secret" THEN had \cup {opt[r].arch.id} ELSE had
  /\ UNCHANGED <<opt, was, to, keys>>

CopyFails(r) ==
  /\ Goto(r, "copying", "failed")
  /\ UNCHANGED <<opt, at, was, to, file, log, keys, had>>

(* Repositories, record, caches; then the policies are replayed through    *)
(* `rad`, from a policies.json that archives with policies have.           *)
Finish(r, ok) ==
  /\ Goto(r, "storing", IF ok THEN "done" ELSE "failed")
  /\ file' = IF ok /\ opt[r].replay /\ "policies" \in opt[r].arch.has
             THEN [file EXCEPT !["policies"] = opt[r].arch.id] ELSE file
  /\ UNCHANGED <<opt, at, was, to, log, keys, had>>

Kill(r) ==
  /\ Active(r) /\ Sets(r, "dead")
  /\ UNCHANGED <<opt, at, was, to, file, log, keys, had>>

----------------------------------------------------------------------------
(* Others in the same home.                                                *)

(* `retire` of a move, whose archive holds the key too.  It leaves the     *)
(* public half behind.                                                     *)
Retire(s) ==
  /\ "moves" \in User /\ (Together \/ \A r \in Runs : ~Active(r))
  /\ file["secret"] # None /\ retired_path(s)
  /\ kept' = [kept EXCEPT ![s] = file["secret"]]
  /\ file' = [file EXCEPT !["secret"] = None]
  /\ safe' = safe \cup {file["secret"]}
  /\ UNCHANGED <<run, log, keptPub, notes, had>>

(* DISPLACED.txt: "Put it back only into a home of its own".               *)
TakeAway(s) ==
  /\ "takesAway" \in User /\ kept[s] # None
  /\ kept' = [kept EXCEPT ![s] = None] /\ keptPub' = [keptPub EXCEPT ![s] = None]
  /\ safe' = safe \cup {kept[s]}
  /\ UNCHANGED <<run, file, log, notes, had>>

(* RETIRED.txt: "Put it back only if the move failed".  The user does not  *)
(* write over a key that is nowhere else, and minds the public half that   *)
(* is there, or takes it "asIs": the note does not speak of it.            *)
PutBack(s) ==
  /\ "putsBack" \in User /\ \A r \in Runs : ~Active(r)
  /\ kept[s] # None /\ file["secret"] \notin Lone \ safe
  /\ "asIs" \in User \/ file["pub"] \in {None, kept[s]}
  /\ file' = [file EXCEPT !["secret"] = kept[s]]
  /\ kept' = [kept EXCEPT ![s] = None]
  /\ UNCHANGED <<run, log, keptPub, notes, safe, had>>

RunStep(r) ==
  \/ Begin(r) \/ Look(r) \/ Decline(r) \/ MoveSecret(r) \/ CopyNext(r) \/ CopyFails(r)
  \/ \E s \in Slots : ChooseName(r, s)
  \/ \E ok \in BOOLEAN :
       Unpack(r, ok) \/ MovePub(r, ok) \/ WriteDisplacedNote(r, ok) \/ Finish(r, ok)
  \/ Kill(r)

Next ==
  \/ \E r \in Runs : RunStep(r)
  \/ \E s \in Slots : Retire(s) \/ TakeAway(s) \/ PutBack(s)

Spec == Init /\ [][Next]_vars
----------------------------------------------------------------------------
(* Properties.                                                             *)

(* SECURITY.md: a live key is renamed, never deleted.  A key this home     *)
(* held and no archive holds is in place, under a retired name, or outside *)
(* the home, wherever restores were killed and whatever they were told.    *)
KeysSurvive ==
  \A i \in had \cap Lone : file["secret"] = i \/ i \in safe \/ \E s \in Slots : kept[s] = i

(* A retired key stays under its name until the user takes it, or puts it  *)
(* back in place: a name found free is still free when it is renamed to.   *)
(* That is so as long as one process at a time is at work on the home.     *)
RetiredKeysStay ==
  [][\A s \in Slots : kept[s] # None =>
       kept'[s] = kept[s] \/ kept[s] \in safe' \/ file'["secret"] = kept[s]]_vars

(* README.md, "Restoring": no half identities.  A restore that reports     *)
(* success leaves the archive's key in both halves and every file the      *)
(* archive carries, whatever an earlier one left when it was killed.       *)
DoneIsWhole ==
  [][\A r \in Runs : pc[r] # "done" /\ pc'[r] = "done" =>
       \A f \in Files : Carries(r, f) => file'[f] = opt[r].arch.id]_vars

(* What both rest on, for restores that follow one another: only one is    *)
(* under way, the name it chose is free, the key it writes over is in an   *)
(* archive, the public half beside a lone key names no archive's identity, *)
(* and what it has copied stays as copied.                                 *)
InstallInv ==
  /\ \A q, r \in Runs : Active(q) /\ Active(r) => q = r
  /\ file["secret"] \in Lone => file["pub"] \notin Archived
  /\ \A r \in Runs :
       /\ pc[r] = "moving" => kept[to[r]] = None
       /\ pc[r] \in {"movingPub", "noting", "copying", "storing"} => file["secret"] \notin Lone
       /\ pc[r] \notin {"storing"} \cup Over => at[r] \in DOMAIN Order
       /\ pc[r] \notin {"copying", "storing"} \cup Over => at[r] = 1
       /\ pc[r] = "storing" => at[r] = Len(Order) + 1
       /\ pc[r] \in {"copying", "storing"} =>
            \A k \in 1..at[r] - 1 : Carries(r, Order[k]) => file[Order[k]] = copied(r, Order[k])
  /\ KeysSurvive

(* The note beside a displaced key says whose it is (restore.rs:484).      *)
NotesTellTheTruth ==
  \A n \in notes : n.id # None => kept[n.slot] \in {None, n.id}

(* SECURITY.md:11, of both places that move a live key: they "never reuse  *)
(* a name a note already points at".                                       *)
NamesAreNotReused ==
  [][\A n \in notes' \ notes : \A m \in notes : m.slot # n.slot]_vars

(* perms.rs:12: what an archive of a lower tier does not carry is skipped, *)
(* so the policies a home has outlive a restore that brings none.          *)
PoliciesAreNotDropped ==
  [][\A r \in Runs : "policies" \notin opt[r].arch.has => 
       (pc[r] = "copying" /\ file["policies"] # None => file'["policies"] # None)]_vars

(* restore.rs:638: a leftover of the overwritten home must not merge into  *)
(* the policies a restore brings.                                          *)
LogsBelong ==
  \A r \in Runs : pc[r] = "done" =>
    \A d \in Databases : Carries(r, d) => log[d] \in {None, file[d]}

=============================================================================
