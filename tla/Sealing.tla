------------------------------ MODULE Sealing ------------------------------
(***************************************************************************)
(* An archive is sealed and, later, opened again with whatever passphrase  *)
(* or key files are at hand, one key after another: what the tool says     *)
(* when it does not open, and what `doctor` makes of that.                 *)
(*                                                                         *)
(* Source: src/crypt.rs, `check_archive_encryption` of src/cmd/doctor.rs,  *)
(* `read_archive_passphrase` of src/cmd/mod.rs.  How age tries keys is     *)
(* external: in the order they were given, each against every stanza,      *)
(* asking for a locked key's passphrase, up to the first that opens the    *)
(* archive or fails to unlock.                                             *)
(***************************************************************************)
EXTENDS Passphrases, SequencesExt

CONSTANTS KeyFiles,
          kind,     \* what a key file holds, one of Kinds
          lock,     \* the passphrase of a locked one
          Asks,     \* what the sealing runs ask for
          Hands,    \* what is at hand for a passphrase
          Offers,   \* the `--identity` files, in order
          Works,    \* scrypt work factors of the machines that seal
          Target    \* this machine's own

Kinds == {"age",         \* an age key, or an ssh key without a passphrase
          "locked",      \* an ssh key behind a passphrase
          "foreign",     \* one behind a passphrase, of a type age cannot use
          "unsupported", \* one age says it cannot read
          "unparsed"}    \* no private key: the public half, a note, nothing at all
MAX_SCRYPT_WORK_FACTOR == 22

(* What a recipient may be written to: the public halves of these.         *)
Recipients == {k \in KeyFiles : kind[k] \in {"age", "locked", "unsupported"}}
Nobody == "nobody"
HandType == [file : STRING, variable : STRING, typed : Seq(STRING)]
ASSUME SealingAssumption ==
  /\ kind \in [KeyFiles -> Kinds] /\ \A k \in KeyFiles : kind[k] = "locked" => lock[k] # ""
  /\ Nobody \notin KeyFiles
  /\ Asks \subseteq [plaintext : BOOLEAN, recipients : Seq(KeyFiles)]
  /\ Hands \subseteq HandType
  /\ Offers \subseteq Seq(KeyFiles)
  /\ Works \subseteq Nat /\ Target \in Nat

VARIABLES
  pc,      \* "idle", "reading", "trying", "said"
  archive, \* the seal, what it was asked and with what, its work and its header
  opening, \* the command, the key files still to read, what is at hand for them
  offered, \* the keys handed to age, `OfferedKeys`
  skipped, \* files it was handed nothing for
  at,      \* the key and the stanza age is at
  answers, \* what each key file got when it was asked for its passphrase
  last,    \* the key file last given one
  failed,  \* history: the key that did not unlock
  asks,    \* history: how often a person was asked for a key file's passphrase
  said     \* what the command came to

vars == <<pc, archive, opening, offered, skipped, at, answers, last, failed, asks, said>>
kvars == <<offered, skipped, at, answers, last, failed, asks>>

Silence == [outcome |-> "none", culprit |-> {}, untried |-> {}, locked |-> {}]
NoArchive == [by |-> "absent"]
NoOpening == [command |-> "none", files |-> <<>>, left |-> <<>>,
              hand |-> [file |-> Unset, variable |-> Unset, typed |-> <<>>]]
Unasked == [k \in {} |-> Refused]
----------------------------------------------------------------------------
(* A backup seals its archive, on some machine; it may be damaged since.   *)
Create ==
  /\ pc = "idle" /\ archive = NoArchive
  /\ \E asked \in Asks, hand \in Hands, work \in Works, sound \in BOOLEAN :
       LET seal == ask_encryption(asked, hand, Recipients)
       IN  /\ seal.by # Refused
           /\ archive' = [by |-> seal.by, secret |-> seal.secret, to |-> seal.to, work |-> work,
                          sound |-> sound, asked |-> asked, hand |-> hand]
  /\ UNCHANGED <<pc, opening, kvars, said>>

Say(s) == pc' = "said" /\ said' = s
Outcome(o) == [Silence EXCEPT !.outcome = o]

excessive(work) == work > MAX_SCRYPT_WORK_FACTOR /\ work > Target + 4

scrypt_verdict(p) ==
  IF excessive(archive.work) THEN "too much work"
  ELSE IF p = archive.secret THEN "opened" ELSE "wrong passphrase"

(* `Reader::open` decides by the header: nothing, a passphrase, keys.      *)
OpenPlain(command) ==
  /\ archive.by = "none" /\ opening' = [NoOpening EXCEPT !.command = command]
  /\ Say(Outcome("opened"))
  /\ UNCHANGED <<archive, kvars>>

OpenDamaged(command) ==
  /\ archive.by \in {"passphrase", "recipients"} /\ ~archive.sound
  /\ opening' = [NoOpening EXCEPT !.command = command]
  /\ \E o \in {"damaged"} \cup (IF command = "doctor" THEN {"no key"} ELSE {}) : Say(Outcome(o))
  /\ UNCHANGED <<archive, kvars>>

(* The header says whether a passphrase is wanted; one that does not parse *)
(* wants none.                                                             *)
needs_passphrase == archive.by = "passphrase" /\ archive.sound

(* `doctor` leaves an archive sealed with a passphrase closed.             *)
OpenWithPassphrase ==
  /\ needs_passphrase
  /\ \E hand \in Hands :
       LET p == read_passphrase(hand, "Opening")
       IN  /\ opening' = [NoOpening EXCEPT !.command = "restore", !.hand = hand]
           /\ Say(Outcome(IF p = Refused THEN "no passphrase" ELSE scrypt_verdict(p)))
  /\ UNCHANGED <<archive, kvars>>

(* `doctor` offers the same keys and asks nobody.                          *)
at_hand(command, hand) == IF command = "doctor" THEN [hand EXCEPT !.typed = <<>>] ELSE hand

OpenWithKeys(command) ==
  /\ archive.by = "recipients" /\ archive.sound
  /\ \E files \in Offers, hand \in Hands :
       /\ opening' = [command |-> command, files |-> files, left |-> files,
                      hand |-> at_hand(command, hand)]
       /\ IF files = <<>> THEN Say(Outcome("no key")) ELSE pc' = "reading" /\ UNCHANGED said
  /\ UNCHANGED <<archive, kvars>>

Open ==
  /\ pc = "idle" /\ archive # NoArchive
  /\ \/ OpenWithPassphrase
     \/ \E command \in {"restore", "doctor"} :
          OpenPlain(command) \/ OpenDamaged(command) \/ OpenWithKeys(command)

(* `OfferedKeys::read`: a key age cannot use is skipped, a file that holds *)
(* none ends the run.                                                      *)
ReadKey ==
  /\ pc = "reading" /\ opening.left # <<>>
  /\ opening' = [opening EXCEPT !.left = Tail(@)]
  /\ LET k == Head(opening.left)
     IN  \/ /\ kind[k] = "unparsed" /\ Say([Outcome("no private key") EXCEPT !.culprit = {k}])
            /\ UNCHANGED <<offered, skipped>>
         \/ /\ kind[k] = "unsupported" /\ skipped' = skipped \cup {k}
            /\ UNCHANGED <<pc, said, offered>>
         \/ /\ kind[k] \in {"age", "locked", "foreign"} /\ offered' = Append(offered, k)
            /\ UNCHANGED <<pc, said, skipped>>
  /\ UNCHANGED <<archive, at, answers, last, failed, asks>>

AllRead ==
  /\ pc = "reading" /\ opening.left = <<>>
  /\ IF offered = <<>> THEN Say(Outcome("none can be used"))
     ELSE pc' = "trying" /\ UNCHANGED said
  /\ at' = [key |-> 1, stanza |-> 1]
  /\ UNCHANGED <<archive, opening, offered, skipped, answers, last, failed, asks>>

key == offered[at.key]

Advance ==
  at' = IF at.stanza < Len(archive.to) THEN [at EXCEPT !.stanza = @ + 1]
        ELSE [key |-> at.key + 1, stanza |-> 1]

Unwrap(unlocked) ==
  IF unlocked /\ archive.to[at.stanza] = key
  THEN Say(Outcome("opened")) /\ UNCHANGED at
  ELSE Advance /\ UNCHANGED <<pc, said>>

TryUnlocked ==
  /\ pc = "trying" /\ at.key <= Len(offered) /\ kind[key] = "age"
  /\ Unwrap(TRUE)
  /\ UNCHANGED <<archive, opening, offered, skipped, answers, last, failed, asks>>

last_answered(k, p) == IF p # Refused THEN k ELSE last

asks_a_person(hand) == hand.file = Unset /\ hand.variable = Unset /\ hand.typed # <<>>

(* `request_passphrase`; an answer is kept.                                *)
RequestPassphrase ==
  /\ pc = "trying" /\ at.key <= Len(offered) /\ kind[key] \in {"locked", "foreign"}
  /\ key \notin DOMAIN answers
  /\ \E typed \in IF asks_a_person(opening.hand) THEN {hand.typed : hand \in Hands} \ {<<>>}
                  ELSE {opening.hand.typed} :
       LET p == read_passphrase([opening.hand EXCEPT !.typed = typed], "Opening")
       IN  /\ answers' = [k \in DOMAIN answers \cup {key} |-> IF k = key THEN p ELSE answers[k]]
           /\ last' = last_answered(key, p)
  /\ asks' = [asks EXCEPT ![key] = @ + (IF asks_a_person(opening.hand) THEN 1 ELSE 0)]
  /\ IF answers'[key] = Refused THEN Advance ELSE UNCHANGED at
  /\ UNCHANGED <<pc, archive, opening, offered, skipped, failed, said>>

unlocks(k) == kind[k] = "locked" /\ answers[k] = lock[k]

(* `explain`, when age gave up on a key and when no key opened it.         *)
after(culprit) ==
  IF culprit = Nobody THEN {}
  ELSE {offered[i] : i \in {i \in DOMAIN offered :
         \E j \in 1..i - 1 : offered[j] = culprit}}

locked == {k \in DOMAIN answers : answers[k] = Refused}

(* Mutant: a key that stayed locked is one that does not match.            *)
explain_NoMatch_Unlocked == Outcome("none opens it")

explain_NoMatch ==
  IF locked # {} THEN [Outcome("stayed locked") EXCEPT !.locked = locked]
  ELSE Outcome("none opens it")

TryAnswered ==
  /\ pc = "trying" /\ at.key <= Len(offered) /\ kind[key] \in {"locked", "foreign"}
  /\ key \in DOMAIN answers
  /\ \/ /\ answers[key] = Refused
        /\ Advance /\ UNCHANGED <<pc, said, failed>>
     \/ /\ answers[key] # Refused /\ unlocks(key)
        /\ Unwrap(TRUE) /\ UNCHANGED failed
     \/ /\ answers[key] # Refused /\ ~unlocks(key)
        /\ failed' = at.key
        /\ Say([Outcome("not unlocked") EXCEPT !.culprit = {last}, !.untried = after(last)])
        /\ UNCHANGED at
  /\ UNCHANGED <<archive, opening, offered, skipped, answers, last, asks>>

NoKeyOpens ==
  /\ pc = "trying" /\ at.key > Len(offered)
  /\ Say(explain_NoMatch)
  /\ UNCHANGED <<archive, opening, kvars>>

NoKeys ==
  /\ offered = <<>> /\ skipped = {} /\ at = [key |-> 1, stanza |-> 1]
  /\ answers = Unasked /\ last = Nobody /\ failed = 0 /\ asks = [k \in KeyFiles |-> 0]

Return ==
  /\ pc = "said" /\ pc' = "idle" /\ said' = Silence /\ opening' = NoOpening
  /\ offered' = <<>> /\ skipped' = {} /\ at' = [key |-> 1, stanza |-> 1]
  /\ answers' = Unasked /\ last' = Nobody /\ failed' = 0 /\ asks' = [k \in KeyFiles |-> 0]
  /\ UNCHANGED archive
----------------------------------------------------------------------------
Init ==
  /\ pc = "idle" /\ archive = NoArchive /\ opening = NoOpening /\ said = Silence /\ NoKeys

Next ==
  \/ Create \/ Open \/ ReadKey \/ AllRead \/ TryUnlocked \/ RequestPassphrase \/ TryAnswered
  \/ NoKeyOpens \/ Return

Spec == Init /\ [][Next]_vars
----------------------------------------------------------------------------
(* `check_archive_encryption`.  Mutant: a key that did not unlock is the   *)
(* archive's fault.                                                        *)
verdict_Strict(o) ==
  CASE o = "opened" -> IF archive.by = "none" THEN "fail" ELSE "pass"
    [] o = "no key" -> "unknown"
    [] OTHER -> "fail"

verdict(o) ==
  CASE o = "opened" -> IF archive.by = "none" THEN "fail" ELSE "pass"
    [] o \in {"no key", "stayed locked", "not unlocked"} -> "unknown"
    [] OTHER -> "fail"

reported == opening.command = "doctor" /\ pc = "said"

ArchiveType ==
  [by : {"none", "passphrase", "recipients"},
   secret : {Refused} \cup {read_passphrase(hand, "Sealing") : hand \in Hands},
   to : Seq(KeyFiles), work : Works, sound : BOOLEAN, asked : Asks, hand : Hands]
HandsHad ==
  {NoOpening.hand} \cup {at_hand(c, h) : c \in {"restore", "doctor"}, h \in Hands}
OpeningType ==
  [command : {"none", "restore", "doctor"}, files : Seq(KeyFiles), left : Seq(KeyFiles),
   hand : HandsHad]
Outcomes ==
  {"none", "opened", "damaged", "no key", "stayed locked", "not unlocked", "no private key",
   "none can be used", "none opens it", "no passphrase", "wrong passphrase", "too much work"}

TypeOK ==
  /\ pc \in {"idle", "reading", "trying", "said"}
  /\ archive = NoArchive \/ archive \in ArchiveType
  /\ opening \in OpeningType /\ Range(opening.left) \subseteq Range(opening.files)
  /\ offered \in Seq(KeyFiles) /\ Range(offered) \subseteq Range(opening.files)
  /\ \A i \in DOMAIN offered : kind[offered[i]] \in {"age", "locked", "foreign"}
  /\ skipped \subseteq Range(opening.files)
  /\ at \in [key : 1..Len(offered) + 1, stanza : Nat \ {0}]
  /\ DOMAIN answers \subseteq Range(offered)
  /\ last # Nobody => last \in DOMAIN answers /\ answers[last] # Refused
  /\ asks \in [KeyFiles -> Nat] /\ failed \in 0..Len(offered)
  /\ said \in [outcome : Outcomes, culprit : SUBSET (KeyFiles \cup {Nobody}),
                untried : SUBSET KeyFiles, locked : SUBSET KeyFiles]

(* What the position says: a command starts with nothing asked and nothing *)
(* said, and `doctor` has nobody to ask.                                   *)
StagesInv ==
  /\ pc = "idle" => opening = NoOpening /\ NoKeys
  /\ pc # "said" => said = Silence
  /\ pc = "reading" =>
       at = [key |-> 1, stanza |-> 1] /\ answers = Unasked /\ last = Nobody /\ failed = 0
  /\ pc \in {"reading", "trying"} => archive.by = "recipients"
  /\ opening.command = "doctor" => opening.hand.typed = <<>>

(* What age has behind it: the keys before the present one were asked for  *)
(* their passphrase, and fit no stanza unless they stayed locked.          *)
BehindInv ==
  /\ \A j \in 1..at.key - 1 :
       /\ kind[offered[j]] # "age" => offered[j] \in DOMAIN answers
       /\ offered[j] \in Range(archive.to) => offered[j] \in locked
  /\ at.key <= Len(offered) =>
       \A s \in 1..at.stanza - 1 :
         s \in DOMAIN archive.to /\ archive.to[s] = key => key \in locked

(* A passphrase that was given unlocks its key, unless it was given just   *)
(* now and for the first time: then this key is the last one asked about.  *)
FirstAsked(k) ==
  at.key <= Len(offered) /\ k = key /\ k = last /\ \A j \in 1..at.key - 1 : offered[j] # k

AnswersInv ==
  /\ \A k \in DOMAIN answers : kind[k] \in {"locked", "foreign"}
  /\ pc = "trying" => \A k \in DOMAIN answers : k \in locked \/ unlocks(k) \/ FirstAsked(k)
  /\ \A k \in KeyFiles :
       asks[k] <= 1 /\ (asks[k] > 0 => k \in DOMAIN answers /\ opening.command # "doctor")

(* What each outcome is owed to.                                           *)
OutcomeInv ==
  pc = "said" =>
    /\ said.outcome # "none"
    /\ said.outcome = "damaged" => ~archive.sound
    /\ said.outcome = "no private key" =>
         \E k \in Range(opening.files) : kind[k] = "unparsed"
    /\ said.outcome = "none can be used" => offered = <<>>
    /\ said.outcome = "none opens it" => said.locked = {}
    /\ said.outcome \in {"no passphrase", "wrong passphrase", "too much work"} =>
         opening.command # "doctor"

(* When no key opened the archive, every key handed to age that would have *)
(* opened it is named as one that stayed locked: the holder of the right   *)
(* key is never told it is the wrong one.                                  *)
NoKeyIsMisjudged ==
  said.outcome \in {"none opens it", "stayed locked"} =>
    Range(offered) \cap Range(archive.to) \subseteq said.locked

(* A key said not to unlock is the one age stopped at, with a passphrase   *)
(* it really refuses, and the keys called untried are those behind it.     *)
CulpritFailed ==
  said.outcome = "not unlocked" =>
    /\ said.culprit = {offered[failed]} /\ ~unlocks(offered[failed])
    /\ said.untried = {offered[i] : i \in failed + 1..Len(offered)}

(* Nobody is asked for a key's passphrase twice, however many stanzas the  *)
(* archive has, and a health report asks nobody.                           *)
AskedAtMostOnce ==
  \A k \in KeyFiles : asks[k] <= (IF opening.command = "doctor" THEN 0 ELSE 1)

(* The passphrase an archive was sealed with is never called wrong, also   *)
(* on a machine too slow to check it.                                      *)
RightPassphraseIsNotCalledWrong ==
  said.outcome = "wrong passphrase" =>
    read_passphrase(opening.hand, "Opening") # archive.secret

(* Whoever tries to open an archive is asked no more than needed and told  *)
(* the truth about each key and about the passphrase.                      *)
OpeningIsFair ==
  NoKeyIsMisjudged /\ CulpritFailed /\ AskedAtMostOnce /\ RightPassphraseIsNotCalledWrong

(* An archive is left open only when that was asked for, and one sealed    *)
(* with a passphrase is sealed with one somebody can give again: not an    *)
(* empty one, nor one that was mistyped the first time.                    *)
SealsShut ==
  /\ archive.by = "none" => archive.asked.plaintext
  /\ archive.by = "passphrase" =>
       /\ archive.secret # ""
       /\ asks_a_person(archive.hand) => archive.hand.typed[2] = archive.secret

(* Together these hold at every step.                                      *)
SealingInv ==
  TypeOK /\ StagesInv /\ BehindInv /\ AnswersInv /\ OutcomeInv /\ OpeningIsFair /\ SealsShut

(* What reading the key files leaves: each is handed to age, skipped as a  *)
(* key age says it cannot read, or still to be read, unless the reading    *)
(* ended at one that holds no private key.                                 *)
usable(k) == kind[k] \in {"age", "locked"}

ReadInv ==
  /\ said.outcome = "no private key" =>
       said.culprit # {} /\ \A k \in said.culprit : k # Nobody /\ kind[k] = "unparsed"
  /\ \A k \in skipped : kind[k] = "unsupported"
  /\ opening.command # "none" /\ archive.by = "recipients" /\ said.outcome # "no private key" =>
       Range(opening.files) \subseteq Range(offered) \cup skipped \cup Range(opening.left)
  /\ pc \in {"reading", "trying"} => opening.command # "none"
  /\ pc = "trying" \/ said.outcome \in {"none can be used", "none opens it"} =>
       opening.left = <<>> /\ opening.command # "none" /\ archive.by = "recipients"

(* `doctor` fails an archive only when it is open to all or damaged, when  *)
(* it names a key file that holds no private key, or when none of all the  *)
(* key files offered that age can use is one the archive is sealed to: it  *)
(* never fails an archive over a locked key, and an unusable key hides     *)
(* none that fits but by ending the reading.                               *)
FailMeansUnopenable ==
  reported /\ verdict(said.outcome) = "fail" =>
    \/ archive.by = "none" \/ ~archive.sound
    \/ said.outcome = "no private key" /\ \E k \in said.culprit : kind[k] = "unparsed"
    \/ \A k \in Range(opening.files) : usable(k) => k \notin Range(archive.to)

(* src/crypt.rs: "One unusable key must not end a recovery".               *)
UnusableKeyEndsNothing == said.outcome # "no private key"

(* src/cmd/doctor.rs: a key "that age cannot use says nothing about the    *)
(* archive", so beside one that opens it, it does not fail the archive.    *)
FailIsOfTheArchive ==
  reported /\ verdict(said.outcome) = "fail" =>
    \/ archive.by = "none" \/ ~archive.sound
    \/ \A k \in Range(opening.files) : usable(k) => k \notin Range(archive.to)

(* And alone it does not either.                                           *)
UnusableKeyIsNoFail ==
  reported /\ verdict(said.outcome) = "fail" => said.outcome # "none can be used"
=============================================================================
