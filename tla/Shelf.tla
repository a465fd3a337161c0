-------------------------------- MODULE Shelf --------------------------------
(***************************************************************************)
(* What the directory of archives promises whoever looks into it: an       *)
(* archive appears whole or not at all, what a flush has covered survives  *)
(* a power loss, and of the newest complete archive covered so far one     *)
(* never has to fear a retention.  Nothing is said of who publishes, who   *)
(* sweeps, or in how many steps.  Source: the comment on `Destination`     *)
(* (src/cmd/backup/destination.rs) and the help text of `--keep`           *)
(* (src/cli.rs); the module ArchiveDir implements this one.                *)
(***************************************************************************)
EXTENDS Naturals

CONSTANT Stamps \* the names archives go by, newest last; all above 0

VARIABLES shown,   \* the names under which there is a whole archive
          flushed, \* those under which there would be one after a power loss
          best     \* the newest complete archive a flush has covered, or 0

Init == shown \in SUBSET Stamps /\ flushed = shown /\ best \in shown \cup {0}

Publish(n) == n \notin shown /\ shown' = shown \cup {n} /\ UNCHANGED <<flushed, best>>

(* The directory reaches the disk, and with it perhaps a better archive.   *)
Flush ==
  /\ flushed' = shown
  /\ best' \in {best} \cup {n \in shown : n > best}
  /\ UNCHANGED shown

(* A retention takes any archive but the best one.                         *)
Discard(n) ==
  /\ n \in shown /\ n # best
  /\ shown' = shown \ {n}
  /\ UNCHANGED <<flushed, best>>

LosePower ==
  /\ shown \cap flushed \subseteq shown' /\ shown' \subseteq shown \cup flushed
  /\ flushed' = shown'
  /\ UNCHANGED best

(* A flush failed and its run said so: nothing is promised any more.       *)
Warn == best' = 0 /\ UNCHANGED <<shown, flushed>>

Next == Flush \/ LosePower \/ Warn \/ \E n \in Stamps : Publish(n) \/ Discard(n)

Spec == Init /\ [][Next]_<<shown, flushed, best>>

==============================================================================
