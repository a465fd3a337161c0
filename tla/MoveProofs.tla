----------------------------- MODULE MoveProofs -----------------------------
(***************************************************************************)
(* What a move keeps true however many moves, machines and signatures      *)
(* there are.                                                              *)
(***************************************************************************)
EXTENDS Move, TLAPS

USE DEF Active, Copies, Goto

(* No step of a move, of the node, of its user or of another machine takes *)
(* a variable out of its type.                                             *)
LEMMA MoveTypeStep ==
  ASSUME TypeOK, [Next]_vars PROVE TypeOK'
<1> USE MoveAssumption DEF TypeOK
<1>1. CASE UNCHANGED vars
  BY <1>1 DEF vars
<1>2. CASE NodeStarts \/ NodeStops \/ Sign
  <2>1. CASE Sign
    BY <2>1 DEF Sign
  <2>2. CASE NodeStarts \/ NodeStops
    BY <2>2 DEF NodeStarts, NodeStops
  <2> QED
    BY <1>2, <2>1, <2>2
<1>3. ASSUME NEW e \in Elsewhere, NEW m \in Moves, RestoreElsewhere(e, m) PROVE TypeOK'
  BY <1>3 DEF RestoreElsewhere
<1>4. ASSUME NEW m \in Moves, MoveStep(m) PROVE TypeOK'
  <2>1. ASSUME NEW keep \in BOOLEAN, NEW doubt \in BOOLEAN, Begin(m, keep, doubt)
        PROVE  TypeOK'
    BY <2>1 DEF Begin
  <2>2. ASSUME NEW dropped \in BOOLEAN, NEW guessed \in BOOLEAN, NEW lacks \in BOOLEAN,
               NEW sound \in BOOLEAN, Read(m, dropped, guessed, lacks, sound)
        PROVE  TypeOK'
    BY <2>2 DEF Read
  <2>3. CASE Commit(m) \/ Fail(m) \/ Judge(m)
    BY <2>3 DEF Commit, Fail, Judge
  <2>4. ASSUME NEW ok \in BOOLEAN, Verify(m, ok) PROVE TypeOK'
    BY <2>4 DEF Verify
  <2>5. CASE Decline(m) \/ Retire(m) \/ WriteNote(m) \/ Kill(m)
    BY <2>5 DEF Decline, Retire, WriteNote, Kill
  <2> QED
    BY <1>4, <2>1, <2>2, <2>3, <2>4, <2>5 DEF MoveStep
<1> QED
  BY <1>1, <1>2, <1>3, <1>4 DEF Next

(* Every variable keeps its type.                                          *)
THEOREM MoveTypeCorrect == Spec => []TypeOK
<1>1. Init => TypeOK
  <2> SUFFICES ASSUME Init PROVE TypeOK
    OBVIOUS
  <2>1. worked \in BOOLEAN /\ held \in BOOLEAN /\ node \in BOOLEAN
    BY DEF Init
  <2>2. copy \in [Moves -> Copies]
    BY MoveAssumption DEF Init
  <2>3. signed \in 0..MaxSigned
    BY MoveAssumption DEF Init
  <2> QED
    BY <2>1, <2>2, <2>3, MoveAssumption DEF Init, TypeOK
<1> QED
  BY <1>1, MoveTypeStep, PTL DEF Spec

(* One step keeps MoveInv.  The retirement is the step that counts: the    *)
(* move that takes it is at its question, hence published, checked,        *)
(* dropped nothing and was not told to keep the key.                       *)
LEMMA MoveInvStep ==
  ASSUME TypeOK, MoveInv, [Next]_vars PROVE MoveInv'
<1> USE MoveAssumption DEF TypeOK, MoveInv, RetiredAgainstAnArchive, RetiredFor, retires_key
<1>1. ASSUME NEW m \in Moves, MoveStep(m) PROVE MoveInv'
  <2>1. ASSUME NEW keep \in BOOLEAN, NEW doubt \in BOOLEAN, Begin(m, keep, doubt)
        PROVE  MoveInv'
    BY <2>1 DEF Begin
  <2>2. ASSUME NEW dropped \in BOOLEAN, NEW guessed \in BOOLEAN, NEW lacks \in BOOLEAN,
               NEW sound \in BOOLEAN, Read(m, dropped, guessed, lacks, sound)
        PROVE  MoveInv'
    BY <2>2 DEF Read
  <2>3. CASE Commit(m)
    BY <2>3 DEF Commit
  <2>4. CASE Fail(m)
    BY <2>4 DEF Fail
  <2>5. CASE Judge(m)
    BY <2>5 DEF Judge
  <2>6. ASSUME NEW ok \in BOOLEAN, Verify(m, ok) PROVE MoveInv'
    BY <2>6 DEF Verify
  <2>7. CASE Decline(m)
    BY <2>7 DEF Decline
  <2>8. CASE Retire(m)
    BY <2>8 DEF Retire
  <2>9. CASE WriteNote(m)
    BY <2>9 DEF WriteNote
  <2>10. CASE Kill(m)
    BY <2>10 DEF Kill
  <2>11. QED
    BY <1>1, <2>1, <2>2, <2>3, <2>4, <2>5, <2>6, <2>7, <2>8, <2>9, <2>10 DEF MoveStep
<1>2. CASE NodeStarts \/ NodeStops \/ Sign
  BY <1>2 DEF NodeStarts, NodeStops, Sign
<1>3. ASSUME NEW e \in Elsewhere, NEW m \in Moves, RestoreElsewhere(e, m) PROVE MoveInv'
  BY <1>3 DEF RestoreElsewhere
<1>4. CASE UNCHANGED vars
  BY <1>4 DEF vars
<1>5. QED
  BY <1>1, <1>2, <1>3, <1>4 DEF Next

(* MoveInv holds in every reachable state.                                 *)
THEOREM MoveInvariant == Spec => []MoveInv
<1>1. Init => MoveInv
  BY DEF Init, MoveInv, RetiredAgainstAnArchive
<1>2. TypeOK /\ MoveInv /\ [Next]_vars => MoveInv'
  BY MoveInvStep
<1>3. QED
  BY <1>1, <1>2, MoveTypeCorrect, PTL DEF Spec

(* The key is retired only for a finished, checked, sound archive that     *)
(* says so, however many moves run at once.                                *)
THEOREM RetiredForGood == Spec => []RetiredAgainstAnArchive
<1>1. MoveInv => RetiredAgainstAnArchive
  BY DEF MoveInv
<1>2. QED
  BY <1>1, MoveInvariant, PTL

(* A home doctor calls safe while the source still holds its key was not   *)
(* restored from a move that reported success.                             *)
THEOREM SafeWord == Spec => []SafeOnlyOnceMoved
<1>1. TypeOK /\ MoveInv => SafeOnlyOnceMoved
  BY DEF TypeOK, MoveInv, SafeOnlyOnceMoved, key_copies, retires_key
<1>2. QED
  BY <1>1, MoveInvariant, MoveTypeCorrect, PTL

(* With nobody at work on the machine, nothing is signed between a copy    *)
(* and the retirement.                                                     *)
THEOREM NothingForks == Spec => []NothingSignedSince
<1> USE MoveAssumption DEF TypeOK, QuietInv, Begun
<1>1. Init => QuietInv
  BY DEF Init
<1>2. ASSUME TypeOK, MoveInv, QuietInv, [Next]_vars PROVE QuietInv'
  <2>1. ASSUME NEW m \in Moves, MoveStep(m) PROVE QuietInv'
    <3>1. ASSUME NEW keep \in BOOLEAN, NEW doubt \in BOOLEAN, Begin(m, keep, doubt)
          PROVE  QuietInv'
      BY <1>2, <3>1 DEF Begin, MoveInv
    <3>2. ASSUME NEW dropped \in BOOLEAN, NEW guessed \in BOOLEAN, NEW lacks \in BOOLEAN,
                 NEW sound \in BOOLEAN, Read(m, dropped, guessed, lacks, sound)
          PROVE  QuietInv'
      BY <1>2, <3>2 DEF Read, MoveInv
    <3>3. CASE Commit(m) \/ Fail(m)
      BY <1>2, <3>3 DEF Commit, Fail
    <3>4. CASE Judge(m)
      BY <1>2, <3>4 DEF Judge
    <3>5. ASSUME NEW ok \in BOOLEAN, Verify(m, ok) PROVE QuietInv'
      BY <1>2, <3>5 DEF Verify
    <3>6. CASE Decline(m) \/ Retire(m) \/ WriteNote(m) \/ Kill(m)
      BY <1>2, <3>6 DEF Decline, Retire, WriteNote, Kill
    <3>7. QED
      BY <2>1, <3>1, <3>2, <3>3, <3>4, <3>5, <3>6 DEF MoveStep
  <2>2. CASE NodeStarts \/ NodeStops \/ Sign
    BY <1>2, <2>2 DEF NodeStarts, NodeStops, Sign
  <2>3. ASSUME NEW e \in Elsewhere, NEW m \in Moves, RestoreElsewhere(e, m) PROVE QuietInv'
    BY <1>2, <2>3 DEF RestoreElsewhere
  <2>4. CASE UNCHANGED vars
    BY <1>2, <2>4 DEF vars
  <2>5. QED
    BY <1>2, <2>1, <2>2, <2>3, <2>4 DEF Next
<1>3. MoveInv /\ QuietInv => NothingSignedSince
  BY DEF MoveInv, RetiredAgainstAnArchive, NothingSignedSince, RetiredFor
<1>4. QED
  BY <1>1, <1>2, <1>3, MoveInvariant, MoveTypeCorrect, PTL DEF Spec

(* The detailed move implements the abstract custody: every step is a      *)
(* vouching, a giving up, a taking up, or leaves who holds the key alone.  *)
THEOREM ImplementsCustody == Spec => KeyChangesHandsInOrder
<1> DEFINE InUse   == (IF held THEN {Source} ELSE {}) \cup {e \in Elsewhere : from[e] # None}
           Vouched == \E m \in checked : copy[m].sound
<1>1. Init => Custody!Init
  BY DEF Init, Custody!Init
<1>2. ASSUME TypeOK, MoveInv, [Next]_vars
      PROVE  [Custody!Next]_<<InUse, Vouched>>
  <2> USE <1>2, MoveAssumption
          DEF TypeOK, Custody!Next, Custody!Vouch, Custody!GiveUp, Custody!TakeUp
  <2>1. ASSUME NEW m \in Moves, MoveStep(m)
        PROVE  [Custody!Next]_<<InUse, Vouched>>
    <3>1. ASSUME NEW keep \in BOOLEAN, NEW doubt \in BOOLEAN, Begin(m, keep, doubt)
          PROVE  UNCHANGED <<InUse, Vouched>>
      BY <3>1 DEF Begin
    <3>2. ASSUME NEW dropped \in BOOLEAN, NEW guessed \in BOOLEAN, NEW lacks \in BOOLEAN,
                 NEW sound \in BOOLEAN, Read(m, dropped, guessed, lacks, sound)
          PROVE  UNCHANGED <<InUse, Vouched>>
      BY <3>2 DEF Read, MoveInv
    <3>3. CASE Commit(m) \/ Fail(m) \/ Judge(m) \/ Decline(m) \/ WriteNote(m) \/ Kill(m)
      BY <3>3 DEF Commit, Fail, Judge, Decline, WriteNote, Kill
    <3>4. ASSUME NEW ok \in BOOLEAN, Verify(m, ok)
          PROVE  Custody!Vouch \/ UNCHANGED <<InUse, Vouched>>
      BY <3>4 DEF Verify
    <3>5. CASE Retire(m)
      <4>1. Vouched /\ UNCHANGED Vouched
        BY <3>5 DEF Retire, MoveInv
      <4>2. InUse' = InUse \ {Source}
        BY <3>5 DEF Retire
      <4>3. QED
        BY <4>1, <4>2
    <3>6. QED
      BY <2>1, <3>1, <3>2, <3>3, <3>4, <3>5 DEF MoveStep
  <2>2. CASE NodeStarts \/ NodeStops \/ Sign
    BY <2>2 DEF NodeStarts, NodeStops, Sign
  <2>3. ASSUME NEW e \in Elsewhere, NEW m \in Moves, RestoreElsewhere(e, m)
        PROVE  [Custody!Next]_<<InUse, Vouched>>
    <3>1. InUse' = InUse \cup {e} /\ UNCHANGED Vouched
      BY <2>3 DEF RestoreElsewhere
    <3>2. QED
      BY <3>1
  <2>4. CASE UNCHANGED vars
    BY <2>4 DEF vars
  <2>5. QED
    BY <2>1, <2>2, <2>3, <2>4 DEF Next
<1>3. QED
  BY <1>1, <1>2, MoveInvariant, MoveTypeCorrect, PTL
  DEF Spec, KeyChangesHandsInOrder, Custody!Spec

=============================================================================
