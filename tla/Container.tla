----------------------------- MODULE Container -----------------------------
(***************************************************************************)
(* The archive file itself: what a run reads out of a home that goes on    *)
(* changing and writes as a stream of entries with its own record of them  *)
(* last, what can happen to the file afterwards, and what `verify`,        *)
(* `verify --deep` and a restore then make of it.                          *)
(*                                                                         *)
(* Source: src/container.rs, src/cmd/verify.rs, the archiving half of      *)
(* `run` in src/cmd/backup/mod.rs, `prove_identity` of src/cmd/restore.rs. *)
(* A file is a sequence of blocks and a block is the hand it was written   *)
(* in, so a length is a number of blocks and the content stands for its    *)
(* own digest.  Encryption is in Sealing.                                  *)
(***************************************************************************)
EXTENDS Integers, FiniteSets, Sequences, SequencesExt

CONSTANTS Hands,       \* who wrote a block: a key's hand is its identity, a database's what it counts
          MaxLen,      \* bound: the longest file, in blocks
          MaxEntry,    \* the longest entry a reader accepts, MAX_ENTRY_BYTES
          MaxManifest, \* the most entries a record may name, MAX_MANIFEST_BYTES
          MaxChanges   \* bound: changes to the home and to the archive, together

Rot == -1     \* a block that is not what was written
Misread == -3 \* a word of the record that is not what was written
ASSUME ContainerAssumption ==
  /\ Hands \subseteq Nat /\ 0 \in Hands
  /\ MaxLen \in Nat \ {0} /\ MaxEntry \in Nat /\ MaxManifest \in Nat
  /\ MaxChanges \in Nat

VARIABLES
  pc,      \* "idle", "adding", "copying", "finished", "stopped"
  home,    \* [Files -> blocks], <<>> for a file that is not there
  changes, \* to the home under the run and to the archive after it
  told,    \* what the record says of the home, read before the first entry
  left,    \* the paths still to be added
  copy,    \* the file being copied in: its size by the header, what was read
  stream,  \* the entries so far
  file,    \* the file on disk
  heard,   \* what `verify` or a restore has just said
  moved,   \* history: the home changed after it was described
  damaged, \* history: the archive changed after it was written
  vouched  \* history: `verify --deep` passed on this very file

vars == <<pc, home, changes, told, left, copy, stream, file, heard, moved, damaged, vouched>>
rvars == <<pc, home, told, left, copy, stream, moved>>

Live == {"keys/radicle", "keys/radicle.pub", "config.json"} \* read where they lie
Copied == {"policies.db", "bundle"}                         \* read from a copy of one moment
Files == Live \cup Copied
Order == <<"keys/radicle", "keys/radicle.pub", "config.json", "policies.db", "bundle", "RESTORE.md">>
Unbundled == <<"keys/radicle", "keys/radicle.pub", "config.json", "policies.db", "RESTORE.md">>
Strays == {"stray", "../stray"}

Written(hand, n) == [i \in 1..n |-> hand]
Quiet == [by |-> "none"]
None == -2

(* The identity a key file shows; none when it is torn, damaged or absent. *)
owner(c) == IF c # <<>> /\ c[1] \in Hands /\ Range(c) = {c[1]} THEN c[1] ELSE None
count(c) == IF c = <<>> THEN 0 ELSE c[1]
----------------------------------------------------------------------------
(* The run.  The record's word on the home is read before any entry; the   *)
(* selection may leave the repository out.                                 *)
Describe ==
  /\ pc = "idle" /\ pc' = "adding"
  /\ \E bundled \in BOOLEAN :
       left' = IF bundled THEN Order ELSE Unbundled
  /\ told' = [did |-> owner(home["keys/radicle.pub"]), node |-> owner(home["keys/radicle.pub"]),
              seeded |-> count(home["policies.db"])]
  /\ UNCHANGED <<home, changes, damaged, copy, stream, file, heard, moved, vouched>>

reached(p) == pc = "adding" /\ left # <<>> /\ Head(left) = p

Put(p, size, content) ==
  /\ stream' = Append(stream, [path |-> p, size |-> size, content |-> content])
  /\ left' = Tail(left)

(* Settings or policies that are not there are left out, and so is a       *)
(* repository that would not be bundled.                                   *)
LeaveOut(p) ==
  /\ reached(p) /\ left' = Tail(left)
  /\ p # "bundle" => p \in {"config.json", "policies.db"} /\ home[p] = <<>>
  /\ UNCHANGED <<pc, home, changes, damaged, told, copy, stream, file, heard, moved, vouched>>

(* `add_file`: the header carries the size the file has now.               *)
AddFile(p) ==
  /\ reached(p) /\ p \in Live /\ home[p] # <<>>
  /\ pc' = "copying" /\ copy' = [size |-> Len(home[p]), got |-> <<>>]
  /\ UNCHANGED <<home, changes, damaged, told, left, stream, file, heard, moved, vouched>>

ReadBlock ==
  /\ pc = "copying" /\ Len(copy.got) < Len(home[Head(left)])
  /\ copy' = [copy EXCEPT !.got = Append(@, home[Head(left)][Len(@) + 1])]
  /\ UNCHANGED <<pc, home, changes, damaged, told, left, stream, file, heard, moved, vouched>>

(* Mutant: a file that changed its length is added all the same.           *)
is_whole_Any(c) == TRUE

is_whole(c) == Len(c.got) = c.size

EndOfFile ==
  /\ pc = "copying" /\ Len(copy.got) >= Len(home[Head(left)])
  /\ IF is_whole(copy) THEN pc' = "adding" /\ Put(Head(left), copy.size, copy.got)
     ELSE pc' = "stopped" /\ UNCHANGED <<left, stream>>
  /\ copy' = [size |-> 0, got |-> <<>>]
  /\ UNCHANGED <<home, changes, damaged, told, file, heard, moved, vouched>>

(* A database is copied by its own engine and a repository bundled, both   *)
(* into the scratch directory, before the copy is added.                   *)
AddCopy(p) ==
  /\ reached(p) /\ p \in Copied /\ home[p] # <<>>
  /\ Put(p, Len(home[p]), home[p])
  /\ UNCHANGED <<pc, home, changes, damaged, told, copy, file, heard, moved, vouched>>

AddBytes ==
  /\ reached("RESTORE.md") /\ Put("RESTORE.md", 1, <<0>>)
  /\ UNCHANGED <<pc, home, changes, damaged, told, copy, file, heard, moved, vouched>>

(* `finish` holds the record to the reader's ceiling.                      *)
record_fits(s) == Len(s) <= MaxManifest

(* The record carries each entry as it was written.                        *)
entries(s) ==
  [p \in {s[i].path : i \in DOMAIN s} |-> s[CHOOSE i \in DOMAIN s : s[i].path = p].content]

Finish ==
  /\ pc = "adding" /\ left = <<>>
  /\ IF record_fits(stream)
     THEN /\ pc' = "finished"
          /\ file' = [items |-> stream, closed |-> TRUE, record |-> "read",
                      entries |-> entries(stream), told |-> told,
                      carries |-> \E i \in DOMAIN stream : stream[i].path = "bundle"]
     ELSE pc' = "stopped" /\ UNCHANGED file
  /\ UNCHANGED <<home, changes, damaged, told, left, copy, stream, heard, moved, vouched>>

(* A run that fails or is killed leaves, where it wrote to a pipe, what    *)
(* the layers had let through.                                             *)
Killed ==
  /\ pc \in {"adding", "copying"} /\ pc' = "stopped"
  /\ \E n \in 0..Len(stream) :
       file' = [items |-> SubSeq(stream, 1, n), closed |-> FALSE, record |-> "none",
                entries |-> [p \in {} |-> <<>>], told |-> told, carries |-> FALSE]
  /\ UNCHANGED <<home, changes, damaged, told, left, copy, stream, heard, moved, vouched>>

(* The user's programs write the home, a file replaced or cut in place;    *)
(* what the run is done with no longer matters to it.                      *)
Edit(p) ==
  /\ pc \in {"adding", "copying"} /\ p \in Range(left)
  /\ changes < MaxChanges /\ changes' = changes + 1
  /\ \E h \in Hands, n \in 1..MaxLen : home' = [home EXCEPT ![p] = Written(h, n)]
  /\ home' # home /\ moved' = TRUE
  /\ UNCHANGED <<pc, damaged, told, left, copy, stream, file, heard, vouched>>
----------------------------------------------------------------------------
(* The file after the run.  *)
Harm(new) ==
  /\ heard = Quiet /\ changes < MaxChanges /\ changes' = changes + 1
  /\ file' = new /\ damaged' = TRUE /\ vouched' = FALSE
  /\ UNCHANGED <<rvars, heard>>

(* It did not arrive whole: neither the record nor the last frame is there. *)
Cut == \E n \in 0..Len(file.items) :
         Harm([file EXCEPT !.items = SubSeq(@, 1, n), !.closed = FALSE, !.record = "none"])

Decay == \E i \in DOMAIN file.items : \E k \in DOMAIN file.items[i].content :
           Harm([file EXCEPT !.items[i].content[k] = Rot])

Drop == \E i \in DOMAIN file.items : Harm([file EXCEPT !.items = RemoveAt(@, i)])

(* `tar -r`: an entry is added once more, or one no run wrote.             *)
AddAgain ==
  \E p \in Strays \cup {file.items[i].path : i \in DOMAIN file.items}, h \in Hands :
    Harm([file EXCEPT !.items = Append(@, [path |-> p, size |-> 1, content |-> <<h>>])])

DecayOfRecord ==
  \/ Harm([file EXCEPT !.record = "garbled"])
  \/ \E p \in DOMAIN file.entries : Harm([file EXCEPT !.entries[p] = <<Misread>>])
  \/ \E f \in {"did", "node", "seeded"} : Harm([file EXCEPT !.told[f] = Misread])
----------------------------------------------------------------------------
(* `Reader`: every entry is walked, under `unpack` into a staging          *)
(* directory; of two entries under one name the last stands.               *)
is_portable(p) == p # "../stray"

walks(f) ==
  /\ f.closed /\ f.record = "read"
  /\ \A i \in DOMAIN f.items :
       /\ is_portable(f.items[i].path)
       /\ Len(f.items[i].content) = f.items[i].size /\ f.items[i].size <= MaxEntry
  /\ Cardinality(DOMAIN f.entries) <= MaxManifest

observed(f) ==
  [p \in {f.items[i].path : i \in DOMAIN f.items} |->
     f.items[CHOOSE i \in DOMAIN f.items :
               f.items[i].path = p /\ \A j \in DOMAIN f.items : f.items[j].path = p => j <= i].content]

staged(f, p) == IF p \in DOMAIN observed(f) THEN observed(f)[p] ELSE <<>>

(* Mutant: an entry nobody listed is let through.                          *)
mismatches_ListedOnly(f) ==
  {p \in DOMAIN f.entries : staged(f, p) # f.entries[p]}

mismatches(f) ==
  {p \in DOMAIN f.entries : p \notin DOMAIN observed(f) \/ observed(f)[p] # f.entries[p]}
  \cup (DOMAIN observed(f) \ DOMAIN f.entries)

(* `check_unpacked_home` of `--deep`.  Mutant: the private half is not     *)
(* looked at.                                                              *)
keys_belong_PublicOnly(f) == owner(staged(f, "keys/radicle.pub")) = f.told.did

keys_belong(f) ==
  /\ owner(staged(f, "keys/radicle.pub")) = f.told.did
  /\ owner(staged(f, "keys/radicle")) = f.told.did

policies_agree(f) ==
  "policies.db" \in DOMAIN observed(f) => count(observed(f)["policies.db"]) = f.told.seeded

repositories_check(f, git) ==
  f.carries => git /\ staged(f, "bundle") # <<>> /\ staged(f, "bundle")[1] # Rot

check(f) == walks(f) /\ mismatches(f) = {} /\ staged(f, "keys/radicle") # <<>>

check_unpacked_home(f, git) == keys_belong(f) /\ policies_agree(f) /\ repositories_check(f, git)

(* `prove_identity` of a restore.                                          *)
prove_identity(f) == keys_belong(f) /\ f.told.node = f.told.did

Hear(by, passed) ==
  /\ file # Quiet /\ heard = Quiet
  /\ heard' = [by |-> by, passed |-> passed]
  /\ UNCHANGED <<rvars, changes, damaged, file>>

Verify == Hear("verify", check(file)) /\ UNCHANGED vouched

VerifyDeep(git) ==
  /\ Hear(IF git THEN "deep" ELSE "deep without git", check(file) /\ check_unpacked_home(file, git))
  /\ vouched' = (vouched \/ heard'.passed)

(* A restore that gets as far as touching the home.                        *)
Restore ==
  /\ Hear("restore", walks(file) /\ mismatches(file) = {} /\ prove_identity(file))
  /\ UNCHANGED vouched

Return == heard # Quiet /\ heard' = Quiet /\ UNCHANGED <<rvars, changes, damaged, file, vouched>>
----------------------------------------------------------------------------
Init ==
  /\ pc = "idle" /\ changes = 0 /\ moved = FALSE /\ damaged = FALSE /\ vouched = FALSE
  /\ \E n \in 1..MaxLen : \E absent \in SUBSET {"config.json", "policies.db"} :
       home = [p \in Files |-> IF p \in absent THEN <<>> ELSE Written(0, n)]
  /\ told = Quiet /\ left = <<>> /\ stream = <<>> /\ file = Quiet /\ heard = Quiet
  /\ copy = [size |-> 0, got |-> <<>>]

RunStep ==
  \/ Describe \/ ReadBlock \/ EndOfFile \/ AddBytes \/ Finish \/ Killed
  \/ \E p \in Files : LeaveOut(p) \/ AddFile(p) \/ AddCopy(p)
HarmStep == pc = "finished" /\ file.closed /\ (Cut \/ Decay \/ Drop \/ AddAgain \/ DecayOfRecord)
ReadStep == Verify \/ (\E git \in BOOLEAN : VerifyDeep(git)) \/ Restore \/ Return

Next == RunStep \/ (\E p \in Files : Edit(p)) \/ HarmStep \/ ReadStep

Spec == Init /\ [][Next]_vars
----------------------------------------------------------------------------
Paths == Files \cup {"RESTORE.md"}
Keys == {"keys/radicle", "keys/radicle.pub"}
Content == BoundedSeq(Hands \cup {Rot}, MaxLen)
Entries == [path : Paths \cup Strays, size : 0..MaxLen, content : Content]
Words == [did : Hands \cup {None, Misread}, node : Hands \cup {None, Misread},
          seeded : Hands \cup {Misread}]
Parts == {"items", "closed", "record", "entries", "told", "carries"}
IsArchive(f) ==
  /\ f = [part \in Parts |-> f[part]]
  /\ f.items \in Seq(Entries) /\ f.closed \in BOOLEAN /\ f.record \in {"read", "garbled", "none"}
  /\ DOMAIN f.entries \subseteq Paths
  /\ f.entries \in [DOMAIN f.entries -> Content \cup {<<Misread>>}]
  /\ f.told \in Words /\ f.carries \in BOOLEAN

TypeOK ==
  /\ pc \in {"idle", "adding", "copying", "finished", "stopped"}
  /\ home \in [Files -> BoundedSeq(Hands, MaxLen)]
  /\ changes \in 0..MaxChanges /\ left \in Seq(Paths) /\ stream \in Seq(Entries)
  /\ copy \in [size : 0..MaxLen, got : BoundedSeq(Hands, MaxLen)]
  /\ told \in Words \cup {Quiet} /\ (pc \in {"adding", "copying", "finished"} => told # Quiet)
  /\ (file # Quiet => IsArchive(file) /\ pc \in {"finished", "stopped"})
  /\ (pc = "finished" => file # Quiet)
  /\ heard \in [by : {"verify", "deep", "deep without git", "restore"}, passed : BOOLEAN] \cup {Quiet}
  /\ moved \in BOOLEAN /\ damaged \in BOOLEAN /\ vouched \in BOOLEAN

(* What was written: the stream of a run that finished stays as it was.    *)
written == entries(stream)

(* An archive `verify` calls complete reads back every entry as it was     *)
(* read out of the home, and nothing besides, whatever became of the file  *)
(* since and however the home changed under the run.                       *)
PassMeansAsWritten ==
  heard.by \notin {"none", "restore"} /\ heard.passed => pc = "finished" /\ observed(file) = written

(* What a restore is about to put into a home is what was written, with a  *)
(* private and a public key that are whole and one pair: a key replaced    *)
(* while it was read is refused here.                                      *)
PutBackIsWritten ==
  heard.by = "restore" /\ heard.passed =>
    /\ pc = "finished" /\ observed(file) = written
    /\ owner(written["keys/radicle"]) = owner(written["keys/radicle.pub"])
    /\ owner(written["keys/radicle"]) # None

(* A run that finished, whatever the home did meanwhile, wrote an archive  *)
(* `verify` passes, as long as no file was longer than a reader accepts.   *)
FinishedPasses ==
  /\ heard.by = "verify" /\ pc = "finished" /\ ~damaged
  /\ \A i \in DOMAIN stream : stream[i].size <= MaxEntry
  => heard.passed

(* The archive of a home that stood still passes `verify --deep` wherever  *)
(* git is found.                                                           *)
StillHomePassesDeep ==
  /\ heard.by = "deep" /\ pc = "finished" /\ ~damaged /\ ~moved
  /\ \A i \in DOMAIN stream : stream[i].size <= MaxEntry
  => heard.passed

(* An archive `verify --deep` passed and nothing touched since is one a    *)
(* restore accepts, if its record names the node of its own identity.      *)
DeepPassRestores ==
  heard.by = "restore" /\ vouched /\ file.told.node = file.told.did => heard.passed

(* The archive of a run that finished is good for what it was taken for.   *)
GoodArchivesPass == FinishedPasses /\ StillHomePassesDeep

(* A restore takes what was written, and takes it when `--deep` said so.   *)
WhatComesBackIsWritten == PutBackIsWritten /\ DeepPassRestores

(* What makes the three inductive.  The run: what is still to be added and *)
(* what has been are apart, no path is added twice, none empty or of       *)
(* another length than its header says, and both keys are on the way.      *)
Added == {stream[i].path : i \in DOMAIN stream}
AtWork == pc \in {"adding", "copying"}

StreamInv ==
  /\ pc = "idle" => stream = <<>>
  /\ AtWork => /\ \A i, j \in DOMAIN left : left[i] = left[j] => i = j
               /\ Range(left) \cap Added = {}
  /\ AtWork \/ pc = "finished" => Keys \subseteq Range(left) \cup Added
  /\ pc = "finished" => left = <<>> /\ Len(stream) <= MaxManifest
  /\ pc = "copying" => left # <<>> /\ Head(left) \in Live /\ copy.size > 0
  /\ \A i, j \in DOMAIN stream : stream[i].path = stream[j].path => i = j
  /\ \A i \in DOMAIN stream :
       /\ stream[i].path \in Paths /\ stream[i].content \in Seq(Hands) \ {<<>>}
       /\ Len(stream[i].content) = stream[i].size
  /\ \A p \in Keys : home[p] # <<>>

(* The home, for as long as it stands still, is what is read out of it.    *)
Untouched ==
  \E n \in 1..MaxLen : /\ \A p \in Files : home[p] \in {<<>>, Written(0, n)}
                       /\ \A p \in Keys : home[p] = Written(0, n)
StillInv ==
  /\ pc = "idle" => ~moved
  /\ pc # "idle" => told # Quiet /\ told.did \in Hands /\ told.node = told.did
  /\ ~moved =>
       /\ Untouched
       /\ pc # "idle" => told.did = 0 /\ told.seeded = count(home["policies.db"])
       /\ \A i \in DOMAIN stream :
            stream[i].path \in Files => stream[i].content = home[stream[i].path]
       /\ pc = "copying" => /\ copy.size = Len(home[Head(left)]) /\ Len(copy.got) <= copy.size
                            /\ \A k \in DOMAIN copy.got : copy.got[k] = home[Head(left)][k]

(* The file: only a finished run closes it, its record is that of the      *)
(* stream but where it decayed, and what was vouched for is still so.      *)
FileInv ==
  /\ heard # Quiet => file # Quiet
  /\ file # Quiet => (file.closed => pc = "finished")
  /\ pc = "finished" =>
       /\ DOMAIN file.entries = Added
       /\ \A p \in Added : file.entries[p] \in {written[p], <<Misread>>}
       /\ file.told.did \in {told.did, Misread}
       /\ ~damaged => file = [items |-> stream, closed |-> TRUE, record |-> "read",
                              entries |-> written, told |-> told,
                              carries |-> \E i \in DOMAIN stream : stream[i].path = "bundle"]
  /\ vouched => file # Quiet /\ walks(file) /\ mismatches(file) = {} /\ keys_belong(file)

(* What was said last stands for the file there is.                        *)
HeardInv ==
  /\ heard.by = "verify" => (heard.passed <=> check(file))
  /\ \A git \in BOOLEAN : heard.by = (IF git THEN "deep" ELSE "deep without git") =>
       (heard.passed <=> check(file) /\ check_unpacked_home(file, git))
  /\ heard.by = "restore" =>
       (heard.passed <=> walks(file) /\ mismatches(file) = {} /\ prove_identity(file))

(* src/cmd/verify.rs hints that --deep "also test[s] a restore": the       *)
(* record's node is not among what it compares.                            *)
DeepPassIsARestore == heard.by = "restore" /\ vouched => heard.passed

(* src/container.rs: "this tool never writes an archive it would refuse to *)
(* open".                                                                  *)
FinishedOpens == pc = "finished" /\ ~damaged /\ file # Quiet => walks(file)

(* An archive nothing touched, of a home that changed while it was read,   *)
(* passes `verify --deep` where the keys stayed: the policies are counted  *)
(* before they are copied.                                                 *)
FinishedPassesDeep ==
  /\ heard.by = "deep" /\ pc = "finished" /\ ~damaged /\ FinishedOpens
  /\ owner(written["keys/radicle"]) = file.told.did
  /\ owner(written["keys/radicle.pub"]) = file.told.did
  => heard.passed
=============================================================================
