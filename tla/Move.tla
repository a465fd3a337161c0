-------------------------------- MODULE Move --------------------------------
(***************************************************************************)
(* `rad backup move` on the machine an identity leaves: probe, full        *)
(* backup, deep check, question, retirement.  Beside it run the node of    *)
(* that machine, its user, other moves (there is no lock), and restores    *)
(* elsewhere of whatever archive a move has left on disk, a failed one     *)
(* included.                                                               *)
(*                                                                         *)
(* Source: src/cmd/migrate.rs; of src/cmd/backup/mod.rs what `run` does    *)
(* for a move; the verdict of src/cmd/verify.rs; `check_second_key_copy`   *)
(* of src/cmd/doctor.rs, which reads on the new machine what the manifest  *)
(* said.  The names a retired key gets and the note beside it are the      *)
(* subject of RestoreInstall.                                              *)
(***************************************************************************)
EXTENDS Naturals

CONSTANTS Moves,      \* `rad backup move` processes of the source machine
          Elsewhere,  \* homes of other machines
          Source,     \* the machine the identity leaves
          None,       \* not restored
          MaxSigned   \* bound: times the identity signs on the source machine

ASSUME MoveAssumption ==
  Source \notin Elsewhere /\ None \notin Moves /\ MaxSigned \in Nat

VARIABLES
  pc,         \* where each move is
  keeps,      \* moves given `--keep-source`
  held,       \* whether keys/radicle is in place on the source machine
  node,       \* whether its node is up
  signed,     \* how often the identity has signed its refs there
  copy,       \* what each move has read for its archive
  published,  \* moves whose archive has its final name
  checked,    \* moves that printed "the archive can restore your identity"
  from,       \* the archive each home elsewhere was restored from
  worked      \* history: whether the user has signed or started the node meanwhile

vars == <<pc, keeps, held, node, signed, copy, published, checked, from, worked>>

Active == {"reading", "writing", "judging", "checking", "asking", "noting"}
Copies == [upto : 0..MaxSigned, dropped : BOOLEAN, lacks : BOOLEAN, sound : BOOLEAN]

TypeOK ==
  /\ pc \in [Moves -> {"idle", "moved", "refused", "dead"} \cup Active]
  /\ keeps \subseteq Moves /\ published \subseteq Moves /\ checked \subseteq Moves
  /\ held \in BOOLEAN /\ node \in BOOLEAN /\ signed \in 0..MaxSigned
  /\ copy \in [Moves -> Copies] /\ worked \in BOOLEAN
  /\ from \in [Elsewhere -> Moves \cup {None}]

Init ==
  /\ pc = [m \in Moves |-> "idle"]
  /\ keeps = {} /\ published = {} /\ checked = {}
  /\ held = TRUE /\ node \in BOOLEAN /\ signed = 0 /\ worked = FALSE
  /\ copy = [m \in Moves |-> [upto |-> 0, dropped |-> FALSE, lacks |-> FALSE, sound |-> FALSE]]
  /\ from = [e \in Elsewhere |-> None]

Goto(m, at, to) == pc[m] = at /\ pc' = [pc EXCEPT ![m] = to]

----------------------------------------------------------------------------
(* The move.                                                               *)

(* Mutant: the node is not asked about.                                    *)
Begin_Unasked(m, keep, doubt) ==
  /\ held
  /\ Goto(m, "idle", "reading")
  /\ keeps' = IF keep THEN keeps \cup {m} ELSE keeps
  /\ UNCHANGED <<held, node, signed, copy, published, checked, from, worked>>

(* `run` up to the backup.  A probe in doubt refuses too.                  *)
Begin(m, keep, doubt) ==
  /\ held
  /\ Goto(m, "idle", IF node \/ doubt THEN "refused" ELSE "reading")
  /\ keeps' = IF keep THEN keeps \cup {m} ELSE keeps
  /\ UNCHANGED <<held, node, signed, copy, published, checked, from, worked>>

(* The backup reads key and repositories.  A repository that cannot be     *)
(* bundled is dropped; without a full view of what is the user's (no `rad`,*)
(* a listing that failed) one may be lacking that nobody knows of.  A      *)
(* second move finds no key once the first has retired it.                 *)
Read(m, dropped, guessed, lacks, sound) ==
  /\ dropped => lacks
  /\ lacks => dropped \/ guessed
  /\ Goto(m, "reading", IF held THEN "writing" ELSE "refused")
  /\ copy' = IF held
             THEN [copy EXCEPT ![m] = [upto |-> signed, dropped |-> dropped,
                                       lacks |-> lacks, sound |-> sound]]
             ELSE copy
  /\ UNCHANGED <<keeps, held, node, signed, published, checked, from, worked>>

Commit(m) ==
  /\ Goto(m, "writing", "judging")
  /\ published' = published \cup {m}
  /\ UNCHANGED <<keeps, held, node, signed, copy, checked, from, worked>>

(* Anything that fails before the archive is committed.                    *)
Fail(m) ==
  /\ Goto(m, "writing", "refused")
  /\ UNCHANGED <<keeps, held, node, signed, copy, published, checked, from, worked>>

(* Mutant: an archive is an archive.                                       *)
Judge_Accepts(m) ==
  /\ Goto(m, "judging", "checking")
  /\ UNCHANGED <<keeps, held, node, signed, copy, published, checked, from, worked>>

(* `is_incomplete`: of the ways a `mine` selection can fall short only a   *)
(* dropped repository sets it.                                             *)
Judge(m) ==
  /\ Goto(m, "judging", IF copy[m].dropped THEN "refused" ELSE "checking")
  /\ UNCHANGED <<keeps, held, node, signed, copy, published, checked, from, worked>>

(* Mutant: the report is printed and not acted on.                         *)
Verify_Ignored(m, ok) ==
  /\ ok => copy[m].sound
  /\ Goto(m, "checking", IF m \in keeps THEN "moved" ELSE "asking")
  /\ checked' = IF ok THEN checked \cup {m} ELSE checked
  /\ UNCHANGED <<keeps, held, node, signed, copy, published, from, worked>>

(* The deep check; it can also fail on a sound archive (no git, no space). *)
(* Under `--keep-source` the move ends here.                               *)
Verify(m, ok) ==
  /\ ok => copy[m].sound
  /\ Goto(m, "checking", IF ~ok THEN "refused" ELSE IF m \in keeps THEN "moved" ELSE "asking")
  /\ checked' = IF ok THEN checked \cup {m} ELSE checked
  /\ UNCHANGED <<keeps, held, node, signed, copy, published, from, worked>>

Decline(m) ==
  /\ Goto(m, "asking", "refused")
  /\ UNCHANGED <<keeps, held, node, signed, copy, published, checked, from, worked>>

(* The rename, which fails when another move was first.                    *)
Retire(m) ==
  /\ Goto(m, "asking", IF held THEN "noting" ELSE "refused")
  /\ held' = FALSE
  /\ UNCHANGED <<keeps, node, signed, copy, published, checked, from, worked>>

(* The note is best effort, the move succeeds either way.                  *)
WriteNote(m) ==
  /\ Goto(m, "noting", "moved")
  /\ UNCHANGED <<keeps, held, node, signed, copy, published, checked, from, worked>>

Kill(m) ==
  /\ pc[m] \in Active /\ pc' = [pc EXCEPT ![m] = "dead"]
  /\ UNCHANGED <<keeps, held, node, signed, copy, published, checked, from, worked>>

----------------------------------------------------------------------------
(* The source machine and the others.                                      *)

(* A move is past its probe, or has left an archive.                       *)
Begun == published # {} \/ \E m \in Moves : pc[m] \notin {"idle", "refused"}

(* A node needs the key to start and no longer once it is up.              *)
NodeStarts ==
  /\ held /\ ~node /\ node' = TRUE
  /\ worked' = (worked \/ Begun)
  /\ UNCHANGED <<pc, keeps, held, signed, copy, published, checked, from>>

NodeStops ==
  /\ node /\ node' = FALSE
  /\ UNCHANGED <<pc, keeps, held, signed, copy, published, checked, from, worked>>

(* The node signs, or the user does with `git push` or a `rad` command.    *)
Sign ==
  /\ node \/ held
  /\ signed < MaxSigned /\ signed' = signed + 1
  /\ worked' = (worked \/ (Begun /\ ~node))
  /\ UNCHANGED <<pc, keeps, held, node, copy, published, checked, from>>

(* A restore puts the key in place only from an archive that passes; the   *)
(* archive is taken from the disk as soon as it has its name.              *)
RestoreElsewhere(e, m) ==
  /\ from[e] = None /\ m \in published /\ copy[m].sound
  /\ from' = [from EXCEPT ![e] = m]
  /\ UNCHANGED <<pc, keeps, held, node, signed, copy, published, checked, worked>>

(* Mutant: a move is a move, whatever becomes of the source's key.         *)
retires_key_Always(m) == TRUE

(* What the manifest says about the source's key.                          *)
retires_key(m) == m \notin keeps

(* What doctor says of a restored home's second key copy.                  *)
key_copies(e) == IF retires_key(from[e]) THEN "Pass" ELSE "Warn"

MoveStep(m) ==
  \/ \E keep, doubt \in BOOLEAN : Begin(m, keep, doubt)
  \/ \E dropped, guessed, lacks, sound \in BOOLEAN : Read(m, dropped, guessed, lacks, sound)
  \/ Commit(m) \/ Fail(m) \/ Judge(m)
  \/ \E ok \in BOOLEAN : Verify(m, ok)
  \/ Decline(m) \/ Retire(m) \/ WriteNote(m) \/ Kill(m)

Next ==
  \/ \E m \in Moves : MoveStep(m)
  \/ NodeStarts \/ NodeStops \/ Sign
  \/ \E e \in Elsewhere, m \in Moves : RestoreElsewhere(e, m)

Spec == Init /\ [][Next]_vars
----------------------------------------------------------------------------
(* Properties.                                                             *)

(* README.md, "Moving to another machine": the key is retired only after a *)
(* deep check.  The machines that hold the key and the checked archives    *)
(* behave as KeyCustody.                                                   *)
Custody == INSTANCE KeyCustody WITH
  Here     <- Source,
  Machines <- {Source} \cup Elsewhere,
  inUse    <- (IF held THEN {Source} ELSE {}) \cup {e \in Elsewhere : from[e] # None},
  vouched  <- \E m \in checked : copy[m].sound

KeyChangesHandsInOrder == Custody!Spec

(* An archive a key may be retired for: finished, checked and sound, its   *)
(* manifest saying so, and nothing the backup reported missing from it.    *)
RetiredFor(m) ==
  m \in published /\ m \in checked /\ retires_key(m) /\ copy[m].sound /\ ~copy[m].dropped

(* migrate.rs:62: "A move retires the key here, so an archive missing      *)
(* repositories must not be the one the key is retired against", as far as *)
(* the backup reports what is missing, and whichever of several concurrent *)
(* moves retires it.                                                       *)
RetiredAgainstAnArchive == ~held => \E m \in Moves : RetiredFor(m)

(* Nobody can sign with a retired key, and nothing was signed between the  *)
(* copy and the retirement: when nobody works on the machine meanwhile, an *)
(* archive behind a retired key holds the last thing the identity signed,  *)
(* and the machine it is restored on cannot fork it.                       *)
NothingSignedSince ==
  ~held /\ ~worked => \E m \in Moves : RetiredFor(m) /\ copy[m].upto = signed

(* A home that doctor calls safe while the source still holds the key was  *)
(* restored from a move that did not end well: never from one that was     *)
(* told to keep the key, nor from one that reported success.               *)
SafeOnlyOnceMoved ==
  \A e \in Elsewhere :
    from[e] # None /\ key_copies(e) = "Pass" /\ held => pc[from[e]] # "moved"

(* What the theorems rest on: where a move's position puts its archive,    *)
(* and that a copy in the making while the key is there is up to date.     *)
MoveInv ==
  /\ \A m \in Moves :
       /\ pc[m] \in {"judging", "checking", "asking", "noting"} => m \in published
       /\ pc[m] \in {"checking", "asking", "noting"} => ~copy[m].dropped
       /\ pc[m] \in {"asking", "noting"} => m \in checked /\ m \notin keeps
       /\ pc[m] = "noting" => ~held
       /\ pc[m] = "moved" => m \in published /\ m \in checked
       /\ pc[m] = "moved" /\ m \notin keeps => ~held
       /\ m \in checked => copy[m].sound /\ pc[m] \notin {"idle", "reading", "writing"}
       /\ m \in published => pc[m] \notin {"idle", "reading", "writing"}
  /\ \A e \in Elsewhere : from[e] # None => from[e] \in published
  /\ RetiredAgainstAnArchive

(* The same while nobody works on the machine: the node is down from the   *)
(* moment a move has got past its probe, and every copy stays current.     *)
QuietInv ==
  Begun /\ ~worked =>
    /\ ~node
    /\ \A m \in Moves : pc[m] \in Active \ {"reading"} \/ m \in published => copy[m].upto = signed

(* migrate.rs:62, read with its refusal "the archive may be missing        *)
(* repositories".                                                          *)
RetiredAgainstAWholeArchive ==
  [][held /\ ~held' => \E m \in published : ~copy[m].lacks]_vars

(* migrate.rs:19: "The node must be proven stopped before its key is       *)
(* retired".                                                               *)
RetiredUnderNoNode == [][held /\ ~held' => ~node]_vars

(* ARCHIVE-FORMAT.md:131: retiresKey is true only in an archive written by *)
(* a move, "which retires the key on the machine it came from".            *)
RetiredWhenSaid ==
  \A m \in Moves : m \in published /\ retires_key(m) /\ pc[m] = "refused" => ~held

=============================================================================
