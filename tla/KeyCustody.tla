----------------------------- MODULE KeyCustody -----------------------------
(***************************************************************************)
(* What `rad backup move` promises about the one key of an identity: the   *)
(* machine it leaves gives the key up only against an archive that was     *)
(* found able to bring it back.  Source: README.md, "Moving to another     *)
(* machine", as src/cmd/migrate.rs carries it out; the module Move         *)
(* implements this one.                                                    *)
(***************************************************************************)
CONSTANTS Here,     \* the machine the key is on at first
          Machines  \* all machines, Here among them

VARIABLES inUse,   \* machines with the key in place
          vouched  \* whether an archive was found able to restore it

Init == inUse = {Here} /\ vouched = FALSE

Vouch     == vouched' = TRUE /\ UNCHANGED inUse
GiveUp    == vouched /\ inUse' = inUse \ {Here} /\ UNCHANGED vouched
TakeUp(m) == inUse' = inUse \cup {m} /\ UNCHANGED vouched

Next == Vouch \/ GiveUp \/ \E m \in Machines : TakeUp(m)

Spec == Init /\ [][Next]_<<inUse, vouched>>

=============================================================================
