--------------------------- MODULE RetentionList ---------------------------
(***************************************************************************)
(* Every listing a directory can hold, one archive newer at a time, and    *)
(* what `fates` must do with it whatever the archives without a note are.  *)
(*                                                                         *)
(* A listing only tells what the notes say.  Its `Worlds` are all the      *)
(* truths it is compatible with: an archive whose note says nothing may be *)
(* complete or incomplete, for any settings at all.  The promises below    *)
(* are about every world, which is what the rule's comments are about      *)
(* (`may be`, `possibly`), and are stated without the rule's searches.     *)
(***************************************************************************)
EXTENDS Retention

CONSTANT MaxArchives \* bound: the number of archives in the directory

ASSUME MaxArchivesAssumption == MaxArchives \in Nat

VARIABLES listing, keeping

listingVars == <<listing, keeping>>

ListingInit == listing = [n \in {} |-> Unknown] /\ keeping \in Keeps

(* A run leaves one archive newer than all others.                         *)
Taken(c) ==
  LET n == Cardinality(DOMAIN listing) + 1 IN
  /\ n <= MaxArchives
  /\ listing' = [m \in 1..n |-> IF m = n THEN c ELSE listing[m]]
  /\ UNCHANGED keeping

ListingNext == \E c \in Completeness : Taken(c)

ListingSpec == ListingInit /\ [][ListingNext]_listingVars

----------------------------------------------------------------------------

ListingTypeOK ==
  /\ \E n \in 0..MaxArchives : listing \in [1..n -> Completeness]
  /\ keeping \in Keeps

Shown == DOMAIN listing

Worlds ==
  {w \in [Shown -> Completeness \ {Unknown}] :
      \A n \in Shown : listing[n] \in {w[n], Unknown}}

NewestComplete(w, s, n) ==
  /\ w[n] = Complete(s)
  /\ \A m \in Newer(listing, n) : w[m] # Complete(s)

NewestOfAny(w, n) ==
  /\ w[n].is = "Complete"
  /\ \A m \in Newer(listing, n) : w[m].is # "Complete"

(* `--keep`: the newest archive with every repository it was asked to save *)
(* is never deleted, whatever the archives without a note turn out to be.  *)
NewestCompleteOutlivesRetention ==
  \A w \in Worlds : \A n \in Doomed(listing, keeping) : ~NewestOfAny(w, n)

(* Past `keep`, the rule deletes exactly the archives that in no world are *)
(* the newest complete archive of settings some note in the listing names  *)
(* (of any settings when no note names any): it loses none of those, and   *)
(* keeps no archive without such a reason.                                 *)
Wanted == IF KnownSettings(listing) = {} THEN Settings ELSE KnownSettings(listing)

SparesExactlyThePossible ==
  Doomed(listing, keeping) =
    {n \in Shown :
       /\ Cardinality(Newer(listing, n)) >= keeping
       /\ \A w \in Worlds, s \in Wanted : ~NewestComplete(w, s, n)}

(* A deletion takes the notes with it, so the next sweep makes fewer       *)
(* searches and may delete what this one spared.  With no run in between   *)
(* it takes only archives whose notes say nothing, each of them older than *)
(* one that stays and whose note calls it complete.                        *)
Left == [n \in Shown \ Doomed(listing, keeping) |-> listing[n]]

NextSweepTakesOnlyTheUnsaid ==
  \A n \in Doomed(Left, keeping) :
    /\ listing[n] = Unknown
    /\ \E m \in Newer(Left, n) \ Doomed(Left, keeping) : listing[m].is = "Complete"

============================================================================
