----------------------------- MODULE Retention -----------------------------
(***************************************************************************)
(* What a retention of `keep` does to the archives of one identity.        *)
(*                                                                         *)
(* A translation of `Completeness`, `Completeness::in_note` and `fates`    *)
(* (src/archives.rs), the rule `rad backup --keep` and `rad backup prune`  *)
(* share.  An archive is named by its stamp, a natural number, so that     *)
(* "newest first" is the order > on stamps; a listing is a function from   *)
(* the stamps present to what the note beside each archive says.           *)
(***************************************************************************)
EXTENDS Naturals, FiniteSets

CONSTANTS Settings,    \* the `--tier` and `--repos` an archive was taken with
          NoSettings,  \* `None`: the search made when no note names settings
          Keeps        \* the values of `--keep`

ASSUME SettingsAssumption == Settings # {} /\ NoSettings \notin Settings
ASSUME KeepsAssumption == Keeps \subseteq Nat \ {0}

Complete(s)   == [is |-> "Complete",   settings |-> s]
Incomplete(s) == [is |-> "Incomplete", settings |-> s]
Unknown       == [is |-> "Unknown"]

Completeness == {Complete(s) : s \in Settings}
                  \cup {Incomplete(s) : s \in Settings} \cup {Unknown}

(* What the two rows of a note say.  A note that is not there, or that     *)
(* cannot be read, or holds either row never or twice, says nothing.       *)
NoNote == [missing |-> "unsaid"]
Note   == [missing : {"none", "some"}, settings : Settings] \cup {NoNote}

in_note(note) ==
  CASE note.missing = "none"   -> Complete(note.settings)
    [] note.missing = "some"   -> Incomplete(note.settings)
    [] note.missing = "unsaid" -> Unknown

----------------------------------------------------------------------------

Newer(listing, n) == {m \in DOMAIN listing : m > n}

KnownSettings(listing) ==
  {s \in Settings : \E n \in DOMAIN listing :
                       listing[n] \in {Complete(s), Incomplete(s)}}

(* Mutant: with no settings known, no search is made at all.               *)
Searches_KnownOnly(listing) == KnownSettings(listing)

Searches(listing) ==
  IF KnownSettings(listing) = {} THEN {NoSettings} ELSE KnownSettings(listing)

(* Mutants of the search: it leaves out the archives without a note, walks *)
(* past the first complete archive, stops at an incomplete one as well, or *)
(* at one complete for any settings.                                       *)
Spares_KnownOnly(listing, wanted, n) ==
  /\ listing[n] = Complete(wanted)
  /\ \A m \in Newer(listing, n) : listing[m] # Complete(wanted)

Spares_Endless(listing, wanted, n) == listing[n] \in {Complete(wanted), Unknown}

Spares_StopsAtIncomplete(listing, wanted, n) ==
  /\ listing[n] \in {Complete(wanted), Unknown}
  /\ \A m \in Newer(listing, n) : listing[m] \notin {Complete(wanted), Incomplete(wanted)}

Spares_AnySettings(listing, wanted, n) ==
  /\ listing[n] \in {Complete(wanted), Unknown}
  /\ \A m \in Newer(listing, n) : listing[m].is # "Complete"

(* The search for `wanted` walks the listing newest first and stops at the *)
(* first archive complete for those settings, that one included.           *)
Spares(listing, wanted, n) ==
  /\ listing[n] \in {Complete(wanted), Unknown}
  /\ \A m \in Newer(listing, n) : listing[m] # Complete(wanted)

(* Mutant: a retention that only counts.                                   *)
fates_ByCount(listing, keep) ==
  [n \in DOMAIN listing |->
     IF Cardinality(Newer(listing, n)) < keep THEN "Kept" ELSE "Deleted"]

fates(listing, keep) ==
  [n \in DOMAIN listing |->
     IF Cardinality(Newer(listing, n)) < keep THEN "Kept"
     ELSE IF \E wanted \in Searches(listing) : Spares(listing, wanted, n)
          THEN "Spared"
          ELSE "Deleted"]

Doomed(listing, keep) ==
  {n \in DOMAIN listing : fates(listing, keep)[n] = "Deleted"}

============================================================================
