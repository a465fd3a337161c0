------------------------ MODULE RestoreInstallProofs ------------------------
(***************************************************************************)
(* Proofs about RestoreInstall, for any homes, archives and restores, and  *)
(* about the node of such a home (NodeControl), for any processes.         *)
(***************************************************************************)
EXTENDS RestoreInstall, NodeControl, TLAPS

(* What is in Order, spelled out once for the provers.                     *)
LEMMA OrderFacts ==
  /\ Len(Order) = 6 /\ DOMAIN Order = 1..6
  /\ Order[1] = "secret" /\ Order[2] = "pub" /\ Order[3] = "config"
  /\ Order[4] = "policies" /\ Order[5] = "notifications" /\ Order[6] = "node"
  /\ \A k \in 1..6 : Order[k] \in Files
  /\ \A f \in Files : \E k \in 1..6 : Order[k] = f
  /\ \A j, k \in 1..6 : Order[j] = Order[k] => j = k
BY DEF Order, Files, Databases

(* Every variable keeps its type.                                          *)
THEOREM InstallTypeCorrect == Spec => []TypeOK
<1>1. Init => TypeOK
  <2> SUFFICES ASSUME Init PROVE TypeOK
    OBVIOUS
  <2>1. PICK h \in Homes : /\ file = h.file /\ log = h.log /\ kept = h.kept
                           /\ had = ({h.file["secret"]} \cup {h.kept[s] : s \in Slots}) \ {None}
    BY DEF Init
  <2>2. h \in [file : [Files -> Owner], log : [Databases -> Owner], kept : [Slots -> Owner]]
    BY InstallAssumption
  <2>3. had \subseteq Ids
    BY <2>1, <2>2 DEF Owner, Files
  <2> QED
    BY <2>1, <2>2, <2>3, InstallAssumption, OrderFacts DEF Init, TypeOK, Owner, Over
<1>2. TypeOK /\ [Next]_vars => TypeOK'
  <2> SUFFICES ASSUME TypeOK, [Next]_vars PROVE TypeOK'
    OBVIOUS
  <2> USE DEF TypeOK, Sets, Goto, Over
  <2>1. ASSUME NEW r \in Runs, Begin(r) PROVE TypeOK'
    BY <2>1 DEF Begin, keys
  <2>2. ASSUME NEW r \in Runs, NEW ok \in BOOLEAN, Unpack(r, ok) PROVE TypeOK'
    BY <2>2 DEF Unpack, keys
  <2>3. ASSUME NEW r \in Runs, Look(r) PROVE TypeOK'
    BY <2>3 DEF Look, keys, Files
  <2>4. ASSUME NEW r \in Runs, Decline(r) PROVE TypeOK'
    BY <2>4 DEF Decline, keys
  <2>5. ASSUME NEW r \in Runs, NEW s \in Slots, ChooseName(r, s) PROVE TypeOK'
    BY <2>5 DEF ChooseName, keys
  <2>6. ASSUME NEW r \in Runs, MoveSecret(r) PROVE TypeOK'
    BY <2>6 DEF MoveSecret, Files, Owner
  <2>7. ASSUME NEW r \in Runs, NEW ok \in BOOLEAN, MovePub(r, ok) PROVE TypeOK'
    BY <2>7 DEF MovePub, Files, Owner
  <2>8. ASSUME NEW r \in Runs, NEW ok \in BOOLEAN, WriteDisplacedNote(r, ok) PROVE TypeOK'
    BY <2>8 DEF WriteDisplacedNote
  <2>9. ASSUME NEW r \in Runs, CopyNext(r) PROVE TypeOK'
    <3>1. opt[r].arch.id \in Ids
      BY InstallAssumption
    <3>2. copied(r, Order[at[r]]) \in Owner /\ Order[at[r]] \in Files
      BY <2>9, <3>1, OrderFacts DEF CopyNext, copied, Owner
    <3>3. at' \in [Runs -> 1..Len(Order) + 1]
      BY <2>9, OrderFacts DEF CopyNext
    <3>4. pc' \in [Runs -> {"idle", "unpacking", "looking", "confirming", "moving", "movingPub",
                            "noting", "copying", "storing"} \cup Over]
      BY <2>9 DEF CopyNext
    <3>5. file' \in [Files -> Owner] /\ log' \in [Databases -> Owner] /\ had' \subseteq Ids
      BY <2>9, <3>1, <3>2 DEF CopyNext, Owner, Databases
    <3> QED
      BY <2>9, <3>3, <3>4, <3>5 DEF CopyNext, keys
  <2>10. ASSUME NEW r \in Runs, CopyFails(r) PROVE TypeOK'
    BY <2>10 DEF CopyFails, keys
  <2>11. ASSUME NEW r \in Runs, NEW ok \in BOOLEAN, Finish(r, ok) PROVE TypeOK'
    <3>1. opt[r].arch.id \in Owner
      BY InstallAssumption DEF Owner
    <3> QED
      BY <2>11, <3>1 DEF Finish, keys, Files, Databases
  <2>12. ASSUME NEW r \in Runs, Kill(r) PROVE TypeOK'
    BY <2>12 DEF Kill, keys
  <2>13. ASSUME NEW s \in Slots, Retire(s) PROVE TypeOK'
    BY <2>13 DEF Retire, run, Files, Owner
  <2>14. ASSUME NEW s \in Slots, TakeAway(s) PROVE TypeOK'
    BY <2>14 DEF TakeAway, run, Owner
  <2>15. ASSUME NEW s \in Slots, PutBack(s) PROVE TypeOK'
    BY <2>15 DEF PutBack, run, Files, Owner
  <2>16. CASE UNCHANGED vars
    BY <2>16 DEF vars, run, keys
  <2> QED
    BY <2>1, <2>2, <2>3, <2>4, <2>5, <2>6, <2>7, <2>8, <2>9, <2>10, <2>11, <2>12,
       <2>13, <2>14, <2>15, <2>16 DEF Next, RunStep
<1> QED
  BY <1>1, <1>2, PTL DEF Spec

(* The invariant holds at first: whoever's key is in place, the public     *)
(* half beside it is its own or none.                                      *)
LEMMA InstallInvInit == Init => InstallInv
<1> SUFFICES ASSUME Init PROVE InstallInv
  OBVIOUS
<1>1. PICK h \in Homes : /\ file = h.file /\ log = h.log /\ kept = h.kept
                         /\ had = ({h.file["secret"]} \cup {h.kept[s] : s \in Slots}) \ {None}
  BY DEF Init
<1>2. file["secret"] \in Lone => file["pub"] \notin Archived
  <2>1. None \notin Archived
    BY InstallAssumption DEF Archived
  <2>2. \A i \in Lone : i # None /\ i \notin Archived
    BY InstallAssumption DEF Lone, Archived
  <2>3. file["secret"] # None => file["pub"] \in {None, file["secret"]}
    BY <1>1, InstallAssumption
  <2> QED
    BY <2>1, <2>2, <2>3
<1>3. KeysSurvive
  BY <1>1 DEF KeysSurvive, Lone
<1> QED
  BY <1>2, <1>3, OrderFacts DEF Init, InstallInv, Active, Over

(* One step of restores that follow one another, with nobody putting a     *)
(* retired key back beside another's public half.                          *)
LEMMA InstallInvStep ==
  ASSUME ~Together, "asIs" \notin User, TypeOK, InstallInv, [Next]_vars
  PROVE  InstallInv'
<1> USE DEF TypeOK, Sets, Goto, Over, Active
<1>a. \A a \in Archives : a.id \in Ids /\ a.id \notin Lone /\ a.id \in Archived
  BY InstallAssumption DEF Lone, Archived
<1>b. None \notin Lone
  BY InstallAssumption DEF Lone
<1>1. ASSUME NEW r \in Runs, Begin(r) PROVE InstallInv'
  BY <1>1 DEF Begin, keys, InstallInv, KeysSurvive, Carries, copied
<1>2. ASSUME NEW r \in Runs, NEW ok \in BOOLEAN, Unpack(r, ok) PROVE InstallInv'
  BY <1>2 DEF Unpack, keys, InstallInv, KeysSurvive, Carries, copied
<1>3. ASSUME NEW r \in Runs, Look(r) PROVE InstallInv'
  <2>1. ~Displaces(r) => file["secret"] \notin Lone
    BY <1>a, <1>b DEF Displaces, InstallInv
  <2>2. at[r] = 1
    BY <1>3 DEF Look, InstallInv
  <2> QED
    BY <1>3, <2>1, <2>2 DEF Look, keys, InstallInv, KeysSurvive, Carries, copied
<1>4. ASSUME NEW r \in Runs, Decline(r) PROVE InstallInv'
  BY <1>4 DEF Decline, keys, InstallInv, KeysSurvive, Carries, copied
<1>5. ASSUME NEW r \in Runs, NEW s \in Slots, ChooseName(r, s) PROVE InstallInv'
  BY <1>5 DEF ChooseName, retired_path, keys, InstallInv, KeysSurvive, Carries, copied
<1>6. ASSUME NEW r \in Runs, MoveSecret(r) PROVE InstallInv'
  <2>1. kept[to[r]] = None /\ file'["secret"] = None
    BY <1>6 DEF MoveSecret, InstallInv, Files
  <2>2. KeysSurvive'
    BY <1>6, <1>b, <2>1 DEF MoveSecret, InstallInv, KeysSurvive
  <2>3. \A q \in Runs : q # r => ~Active(q)
    BY <1>6 DEF MoveSecret, InstallInv
  <2> QED
    BY <1>6, <1>b, <2>1, <2>2, <2>3 DEF MoveSecret, InstallInv
<1>7. ASSUME NEW r \in Runs, NEW ok \in BOOLEAN, MovePub(r, ok) PROVE InstallInv'
  <2>1. file'["secret"] = file["secret"] /\ file["secret"] \notin Lone
    BY <1>7 DEF MovePub, InstallInv, Files
  <2>2. \A q \in Runs : q # r => ~Active(q)
    BY <1>7 DEF MovePub, InstallInv
  <2> QED
    BY <1>7, <2>1, <2>2 DEF MovePub, InstallInv, KeysSurvive
<1>8. ASSUME NEW r \in Runs, NEW ok \in BOOLEAN, WriteDisplacedNote(r, ok) PROVE InstallInv'
  <2>1. at[r] = 1
    BY <1>8 DEF WriteDisplacedNote, InstallInv
  <2> QED
    BY <1>8, <2>1 DEF WriteDisplacedNote, InstallInv, KeysSurvive, Carries, copied
<1>9. ASSUME NEW r \in Runs, CopyNext(r) PROVE InstallInv'
  <2> DEFINE f == Order[at[r]]
  <2>1. at[r] \in 1..6 /\ f \in Files /\ opt[r].arch \in Archives
    BY <1>9, OrderFacts DEF CopyNext
  <2>2. file["secret"] \notin Lone /\ file'["secret"] \notin Lone
    BY <1>9, <2>1, <1>a DEF CopyNext, InstallInv, copied, Carries, Files
  <2>3. KeysSurvive'
    BY <1>9, <1>a, <2>2 DEF CopyNext, InstallInv, KeysSurvive, keys
  <2>4. \A q \in Runs : q # r => ~Active(q)
    BY <1>9 DEF CopyNext, InstallInv
  <2>5. \A k \in 1..at[r] : Carries(r, Order[k]) => file'[Order[k]] = copied(r, Order[k])'
    <3> SUFFICES ASSUME NEW k \in 1..at[r], Carries(r, Order[k])
                 PROVE  file'[Order[k]] = copied(r, Order[k])'
      BY DEF Carries
    <3>1. k \in 1..6 /\ Order[k] \in Files
      BY <2>1, OrderFacts
    <3>2. CASE k = at[r]
      BY <1>9, <2>1, <3>2 DEF CopyNext, copied, Carries
    <3>3. CASE k # at[r]
      <4>1. k \in 1..at[r] - 1 /\ Order[k] # f
        BY <2>1, <3>1, <3>3, OrderFacts
      <4>2. file'[Order[k]] = file[Order[k]]
        BY <1>9, <3>1, <4>1 DEF CopyNext
      <4>3. file[Order[k]] = copied(r, Order[k])
        BY <1>9, <4>1 DEF CopyNext, InstallInv
      <4> QED
        BY <1>9, <4>2, <4>3 DEF CopyNext, copied, Carries
    <3> QED
      BY <3>2, <3>3
  <2>6. at'[r] = at[r] + 1 /\ pc'[r] = IF at[r] = 6 THEN "storing" ELSE "copying"
    BY <1>9, OrderFacts DEF CopyNext
  <2>7. \A q \in Runs : q # r => pc'[q] = pc[q] /\ at'[q] = at[q]
    BY <1>9 DEF CopyNext
  <2>8. at'[r] - 1 = at[r] /\ (at[r] # 6 => at'[r] \in 1..6)
    BY <2>1, <2>6
  <2>9. pc[r] = "copying" /\ opt' = opt /\ kept' = kept /\ to' = to
    BY <1>9 DEF CopyNext, keys
  <2>10. \A q \in Runs : q # r =>
           /\ pc[q] \in {"idle"} \cup Over
           /\ pc[q] = "idle" => at[q] \in 1..6 /\ at[q] = 1
    BY <2>4, OrderFacts DEF InstallInv
  <2>11. ASSUME NEW q \in Runs
         PROVE  /\ pc'[q] # "moving"
                /\ pc'[q] \notin {"storing"} \cup Over => at'[q] \in 1..6
                /\ pc'[q] \notin {"copying", "storing"} \cup Over => at'[q] = 1
                /\ pc'[q] = "storing" => at'[q] = 7
                /\ pc'[q] \in {"copying", "storing"} => q = r
    <3>1. CASE q = r
      BY <2>1, <2>6, <2>8, <3>1
    <3>2. CASE q # r
      BY <2>7, <2>10, <3>2
    <3> QED
      BY <3>1, <3>2
  <2>12. \A q1, q2 \in Runs : Active(q1)' /\ Active(q2)' => q1 = q2
    BY <2>4, <2>7
  <2>13. at'[r] - 1 = at[r] /\ \A k : Carries(r, Order[k])' = Carries(r, Order[k])
    BY <2>8, <2>9 DEF Carries
  <2> QED
    BY <2>2, <2>3, <2>5, <2>11, <2>12, <2>13, OrderFacts DEF InstallInv
<1>10. ASSUME NEW r \in Runs, CopyFails(r) PROVE InstallInv'
  BY <1>10 DEF CopyFails, keys, InstallInv, KeysSurvive, Carries, copied
<1>11. ASSUME NEW r \in Runs, NEW ok \in BOOLEAN, Finish(r, ok) PROVE InstallInv'
  <2>1. file'["secret"] = file["secret"] /\ file'["pub"] = file["pub"]
    BY <1>11 DEF Finish, Files
  <2>2. \A q \in Runs : ~Active(q)'
    BY <1>11 DEF Finish, InstallInv
  <2> QED
    BY <1>11, <2>1, <2>2 DEF Finish, keys, InstallInv, KeysSurvive
<1>12. ASSUME NEW r \in Runs, Kill(r) PROVE InstallInv'
  BY <1>12 DEF Kill, keys, InstallInv, KeysSurvive, Carries, copied
<1>13. ASSUME NEW s \in Slots, Retire(s) PROVE InstallInv'
  <2>1. file'["secret"] = None /\ file'["pub"] = file["pub"] /\ kept[s] = None
    BY <1>13 DEF Retire, retired_path, Files
  <2> QED
    BY <1>13, <1>b, <2>1 DEF Retire, run, InstallInv, KeysSurvive
<1>14. ASSUME NEW s \in Slots, TakeAway(s) PROVE InstallInv'
  BY <1>14 DEF TakeAway, run, InstallInv, KeysSurvive, Carries, copied
<1>15. ASSUME NEW s \in Slots, PutBack(s) PROVE InstallInv'
  <2>1. /\ file' = [file EXCEPT !["secret"] = kept[s]] /\ kept' = [kept EXCEPT ![s] = None]
        /\ file'["secret"] = kept[s] /\ file'["pub"] = file["pub"] /\ kept[s] \in Owner
        /\ file["pub"] \in {None, kept[s]} /\ file["secret"] \notin Lone \ safe
        /\ UNCHANGED <<pc, opt, at, to, had, safe>>
    BY <1>15 DEF PutBack, run, Files
  <2>2. file'["secret"] \in Lone => file'["pub"] \notin Archived
    BY <2>1, InstallAssumption DEF Lone, Archived
  <2>3. KeysSurvive'
    <3> SUFFICES ASSUME NEW i \in had \cap Lone
                 PROVE  file'["secret"] = i \/ i \in safe \/ \E t \in Slots : kept'[t] = i
      BY <2>1 DEF KeysSurvive, Lone
    <3>1. CASE file["secret"] = i
      BY <2>1, <3>1
    <3>2. CASE i \in safe
      BY <3>2
    <3>3. ASSUME NEW t \in Slots, kept[t] = i PROVE \E u \in Slots : kept'[u] = i \/ kept[s] = i
      BY <2>1, <3>3
    <3> QED
      BY <2>1, <3>1, <3>2, <3>3 DEF InstallInv, KeysSurvive
  <2>4. \A r \in Runs : ~Active(r) /\ ~Active(r)'
    BY <1>15, <2>1 DEF PutBack
  <2> QED
    BY <2>1, <2>2, <2>3, <2>4 DEF InstallInv
<1>16. CASE UNCHANGED vars
  BY <1>16 DEF vars, run, keys, InstallInv, KeysSurvive, Carries, copied
<1> QED
  BY <1>1, <1>2, <1>3, <1>4, <1>5, <1>6, <1>7, <1>8, <1>9, <1>10, <1>11, <1>12, <1>13,
     <1>14, <1>15, <1>16 DEF Next, RunStep

(* The invariant of restores that follow one another.                      *)
THEOREM InstallInvariant ==
  ASSUME ~Together, "asIs" \notin User
  PROVE  Spec => []InstallInv
<1>1. TypeOK /\ InstallInv /\ [Next]_vars => InstallInv'
  BY InstallInvStep
<1> QED
  BY <1>1, InstallInvInit, InstallTypeCorrect, PTL DEF Spec

(* No key that only this home has is lost, wherever restores are killed    *)
(* and whatever archives they are given, `--force` included.               *)
THEOREM KeysAreNotLost ==
  ASSUME ~Together, "asIs" \notin User
  PROVE  Spec => []KeysSurvive
<1>1. InstallInv => KeysSurvive
  BY DEF InstallInv
<1> QED
  BY <1>1, InstallInvariant, PTL

(* One process at a time, a retired key stays under its name until the     *)
(* user takes it away or puts it back in place, whatever was killed. Two   *)
(* at once can find one name free: nothing locks the home.                 *)
THEOREM RetiredNamesStay ==
  ASSUME ~Together, "asIs" \notin User
  PROVE  Spec => RetiredKeysStay
<1>1. ASSUME TypeOK, InstallInv, [Next]_vars, NEW s \in Slots, kept[s] # None
      PROVE  kept'[s] = kept[s] \/ kept[s] \in safe' \/ file'["secret"] = kept[s]
  <2>1. ASSUME NEW r \in Runs, MoveSecret(r) PROVE kept'[s] = kept[s]
    BY <1>1, <2>1 DEF MoveSecret, Goto, InstallInv, TypeOK
  <2>2. ASSUME NEW t \in Slots, Retire(t) \/ TakeAway(t) PROVE kept'[s] = kept[s] \/ kept[s] \in safe'
    BY <1>1, <2>2 DEF Retire, TakeAway, retired_path, TypeOK
  <2>3. ASSUME NEW t \in Slots, PutBack(t)
        PROVE  kept'[s] = kept[s] \/ file'["secret"] = kept[s]
    BY <1>1, <2>3 DEF PutBack, TypeOK, Files
  <2>4. ASSUME NEW r \in Runs, RunStep(r), ~MoveSecret(r) PROVE kept' = kept
    BY <2>4 DEF RunStep, Begin, Unpack, Look, Decline, ChooseName, MovePub,
       WriteDisplacedNote, CopyNext, CopyFails, Finish, Kill, keys
  <2>5. CASE UNCHANGED vars
    BY <2>5 DEF vars, keys
  <2> QED
    BY <1>1, <2>1, <2>2, <2>3, <2>4, <2>5 DEF Next
<1>2. TypeOK /\ InstallInv /\ [Next]_vars =>
        [\A s \in Slots : kept[s] # None =>
           kept'[s] = kept[s] \/ kept[s] \in safe' \/ file'["secret"] = kept[s]]_vars
  BY <1>1
<1> QED
  BY <1>2, InstallInvariant, InstallTypeCorrect, PTL DEF Spec, RetiredKeysStay

(* A restore that reports success has put in place all the archive         *)
(* carries, however many restores were killed half way before it.          *)
THEOREM DoneMeansWhole ==
  ASSUME ~Together, "asIs" \notin User
  PROVE  Spec => DoneIsWhole
<1>1. ASSUME TypeOK, InstallInv, [Next]_vars, NEW r \in Runs, pc[r] # "done", pc'[r] = "done",
             NEW f \in Files, Carries(r, f)
      PROVE  file'[f] = opt[r].arch.id
  <2>1. Finish(r, TRUE)
    <3>1. \A q \in Runs : RunStep(q) => q = r /\ \E ok \in BOOLEAN : Finish(r, ok)
      BY <1>1 DEF RunStep, Begin, Unpack, Look, Decline, ChooseName, MoveSecret, MovePub,
         WriteDisplacedNote, CopyNext, CopyFails, Finish, Kill, Goto, Sets, TypeOK
    <3>2. \A s \in Slots : ~(Retire(s) \/ TakeAway(s) \/ PutBack(s))
      BY <1>1 DEF Retire, TakeAway, PutBack, run
    <3>3. ~UNCHANGED vars
      BY <1>1 DEF vars, run
    <3>4. \A ok \in BOOLEAN : Finish(r, ok) => ok = TRUE
      BY <1>1 DEF Finish, Goto, Sets, TypeOK
    <3> QED
      BY <1>1, <3>1, <3>2, <3>3, <3>4 DEF Next
  <2>2. PICK k \in 1..6 : Order[k] = f
    BY <1>1, OrderFacts
  <2>3. file[f] = copied(r, f)
    BY <1>1, <2>1, <2>2, OrderFacts DEF Finish, Goto, InstallInv
  <2>4. CASE f = "policies" /\ opt[r].replay
    BY <1>1, <2>1, <2>4 DEF Finish, Carries, TypeOK
  <2>5. CASE ~(f = "policies" /\ opt[r].replay)
    BY <1>1, <2>1, <2>3, <2>5 DEF Finish, Carries, copied, TypeOK
  <2> QED
    BY <2>4, <2>5
<1>2. TypeOK /\ InstallInv /\ [Next]_vars =>
        [\A r \in Runs : pc[r] # "done" /\ pc'[r] = "done" =>
           \A f \in Files : Carries(r, f) => file'[f] = opt[r].arch.id]_vars
  BY <1>1
<1> QED
  BY <1>2, InstallInvariant, InstallTypeCorrect, PTL DEF Spec, DoneIsWhole

----------------------------------------------------------------------------
(* The node a restore must not write under, and the backups and restores   *)
(* that stop and start it: NodeControl, whatever the processes of a home.  *)

USE DEF Procs, Ended, Advance, flags, seen, AtWork, Writing, stop_node, start_node

(* Every variable keeps its type, whatever the processes.                  *)
THEOREM NodeTypeCorrect == NodeSpec => []NodeTypeOK
<1>1. NodeInit => NodeTypeOK
  BY DEF NodeInit, NodeTypeOK
<1>2. NodeTypeOK /\ [NodeNext]_nodeVars => NodeTypeOK'
  <2> SUFFICES ASSUME NodeTypeOK, [NodeNext]_nodeVars PROVE NodeTypeOK'
    OBVIOUS
  <2> USE DEF NodeTypeOK
  <2>1. ASSUME NEW b \in Backups, BackupStep(b) PROVE NodeTypeOK'
    <3>1. CASE Probe(b)
      BY <3>1 DEF Probe
    <3>2. CASE CannotAsk(b) \/ SeesItStopped(b) \/ CopyEnds(b)
      BY <3>2 DEF CannotAsk, SeesItStopped, CopyEnds
    <3>3. ASSUME NEW ok \in BOOLEAN, AskStop(b, ok) PROVE NodeTypeOK'
      BY <3>3 DEF AskStop
    <3>4. CASE DeadlinePasses(b)
      BY <3>4 DEF DeadlinePasses
    <3>5. ASSUME NEW ok \in BOOLEAN, Restart(b, ok) PROVE NodeTypeOK'
      BY <3>5 DEF Restart
    <3>6. QED
      BY <2>1, <3>1, <3>2, <3>3, <3>4, <3>5 DEF BackupStep
  <2>2. ASSUME NEW r \in Restores, RestoreStep(r) PROVE NodeTypeOK'
    <3>1. CASE Check(r) \/ Recheck(r) \/ Reconcile(r) \/ WaitTimesOut(r)
      BY <3>1 DEF Check, Recheck, Reconcile, WaitTimesOut
    <3>2. CASE SeesItRunning(r)
      BY <3>2 DEF SeesItRunning
    <3>3. ASSUME NEW ok \in BOOLEAN, UnpackFirst(r, ok) \/ Installed(r, ok) PROVE NodeTypeOK'
      BY <3>3 DEF UnpackFirst, Installed
    <3>4. ASSUME NEW ok \in BOOLEAN, Start(r, ok) PROVE NodeTypeOK'
      BY <3>4 DEF Start
    <3>5. ASSUME NEW ok \in BOOLEAN, CompareEnds(r, ok) PROVE NodeTypeOK'
      BY <3>5 DEF CompareEnds
    <3>6. QED
      BY <2>2, <3>1, <3>2, <3>3, <3>4, <3>5 DEF RestoreStep
  <2>3. ASSUME NEW p \in Procs, Signalled(p) PROVE NodeTypeOK'
    BY <2>3 DEF Signalled
  <2>6. ASSUME NEW r \in Restores, NEW yes \in BOOLEAN, Confirm(r, yes) PROVE NodeTypeOK'
    BY <2>6 DEF Confirm
  <2>4. CASE Stops \/ Starts \/ UserStarts
    BY <2>4 DEF Stops, Starts, UserStarts
  <2>5. CASE UNCHANGED nodeVars
    BY <2>5 DEF nodeVars
  <2> QED
    BY <2>1, <2>2, <2>3, <2>4, <2>5, <2>6 DEF NodeNext
<1>3. QED
  BY <1>1, <1>2, PTL DEF NodeSpec

(* One step keeps the invariant behind ExactCopy.  The node comes up under *)
(* a copy only when somebody else asked for it, and that one is marked.    *)
LEMMA ExactCopyStep ==
  ASSUME NodeTypeOK, ExactCopyInv, [NodeNext]_nodeVars
  PROVE  ExactCopyInv'
<1> USE ProcessesAssumption DEF NodeTypeOK, ExactCopyInv, ExactCopy
<1>1. is_stopped => node \in {"down", "starting"}
  BY DEF is_stopped, probe_node_state, Answers
<1>2. ASSUME NEW b \in Backups, BackupStep(b) PROVE ExactCopyInv'
  <2>1. CASE Probe(b)
    BY <2>1, <1>1 DEF Probe
  <2>2. CASE CannotAsk(b) \/ CopyEnds(b)
    BY <2>2 DEF CannotAsk, CopyEnds
  <2>3. ASSUME NEW ok \in BOOLEAN, AskStop(b, ok) PROVE ExactCopyInv'
    BY <2>3 DEF AskStop
  <2>4. CASE SeesItStopped(b)
    BY <2>4, <1>1 DEF SeesItStopped
  <2>5. CASE DeadlinePasses(b)
    BY <2>5 DEF DeadlinePasses
  <2>6. ASSUME NEW ok \in BOOLEAN, Restart(b, ok) PROVE ExactCopyInv'
    BY <2>6 DEF Restart
  <2>7. QED
    BY <1>2, <2>1, <2>2, <2>3, <2>4, <2>5, <2>6 DEF BackupStep
<1>3. ASSUME NEW r \in Restores, RestoreStep(r) PROVE ExactCopyInv'
  <2>1. CASE Check(r) \/ Recheck(r) \/ Reconcile(r) \/ SeesItRunning(r) \/ WaitTimesOut(r)
    BY <2>1 DEF Check, Recheck, Reconcile, SeesItRunning, WaitTimesOut
  <2>2. ASSUME NEW ok \in BOOLEAN, UnpackFirst(r, ok) \/ Installed(r, ok) PROVE ExactCopyInv'
    BY <2>2 DEF UnpackFirst, Installed
  <2>3. ASSUME NEW ok \in BOOLEAN, Start(r, ok) PROVE ExactCopyInv'
    BY <2>3 DEF Start
  <2>4. ASSUME NEW ok \in BOOLEAN, CompareEnds(r, ok) PROVE ExactCopyInv'
    BY <2>4 DEF CompareEnds
  <2>5. QED
    BY <1>3, <2>1, <2>2, <2>3, <2>4 DEF RestoreStep
<1>4. ASSUME NEW p \in Procs, Signalled(p) PROVE ExactCopyInv'
  BY <1>4 DEF Signalled
<1>9. ASSUME NEW r \in Restores, NEW yes \in BOOLEAN, Confirm(r, yes) PROVE ExactCopyInv'
  BY <1>9 DEF Confirm
<1>5. CASE Stops \/ Starts
  BY <1>5 DEF Stops, Starts
<1>6. CASE UserStarts
  BY <1>6 DEF UserStarts
<1>7. CASE UNCHANGED nodeVars
  BY <1>7 DEF nodeVars
<1>8. QED
  BY <1>2, <1>3, <1>4, <1>5, <1>6, <1>7, <1>9 DEF NodeNext

(* ... so every reachable state satisfies it.                              *)
THEOREM ExactCopyInvariant == NodeSpec => []ExactCopyInv
<1>1. NodeInit => ExactCopyInv
  BY ProcessesAssumption DEF NodeInit, ExactCopyInv, ExactCopy
<1>2. NodeTypeOK /\ ExactCopyInv /\ [NodeNext]_nodeVars => ExactCopyInv'
  BY ExactCopyStep
<1>3. QED
  BY <1>1, <1>2, NodeTypeCorrect, PTL DEF NodeSpec

(* Every run that was given `--stop-node` copies a storage no node is      *)
(* serving, whatever other backups and restores there are, the answers of  *)
(* the socket, the node's delays and the kills, unless another of them, or *)
(* the user, sets the node going around it.                                *)
THEOREM ExactCopies == NodeSpec => []ExactCopy
<1>1. ExactCopyInv => ExactCopy
  BY DEF ExactCopyInv
<1>2. QED
  BY <1>1, ExactCopyInvariant, PTL

(* What a restore's second probe saw stays true while the user is asked    *)
(* and while it writes, unless somebody starts the node after that probe:  *)
(* each way the node can leave "down" puts every such restore on record.   *)
LEMMA InstallsOverNoNodeStep ==
  ASSUME NodeTypeOK, InstallsOverNoNodeInv, [NodeNext]_nodeVars
  PROVE  InstallsOverNoNodeInv'
<1> USE ProcessesAssumption DEF NodeTypeOK, InstallsOverNoNodeInv
<1>1. is_stopped => node \in {"down", "starting"}
  BY DEF is_stopped, probe_node_state, Answers
<1>2. ASSUME NEW r \in Restores, RestoreStep(r) PROVE InstallsOverNoNodeInv'
  <2>1. CASE Recheck(r)
    BY <2>1, <1>1 DEF Recheck
  <2>2. CASE Check(r) \/ Reconcile(r) \/ SeesItRunning(r) \/ WaitTimesOut(r)
    BY <2>2 DEF Check, Reconcile, SeesItRunning, WaitTimesOut
  <2>3. ASSUME NEW ok \in BOOLEAN, UnpackFirst(r, ok) \/ Installed(r, ok)
        PROVE  InstallsOverNoNodeInv'
    BY <2>3 DEF UnpackFirst, Installed
  <2>4. ASSUME NEW ok \in BOOLEAN, Start(r, ok) \/ CompareEnds(r, ok)
        PROVE  InstallsOverNoNodeInv'
    BY <2>4 DEF Start, CompareEnds
  <2> QED
    BY <1>2, <2>1, <2>2, <2>3, <2>4 DEF RestoreStep
<1>3. ASSUME NEW r \in Restores, NEW yes \in BOOLEAN, Confirm(r, yes)
      PROVE  InstallsOverNoNodeInv'
  BY <1>3 DEF Confirm
<1>4. ASSUME NEW b \in Backups, BackupStep(b) PROVE InstallsOverNoNodeInv'
  <2>1. CASE Probe(b) \/ CannotAsk(b) \/ SeesItStopped(b) \/ DeadlinePasses(b) \/ CopyEnds(b)
    BY <2>1 DEF Probe, CannotAsk, SeesItStopped, DeadlinePasses, CopyEnds
  <2>2. ASSUME NEW ok \in BOOLEAN, AskStop(b, ok) PROVE InstallsOverNoNodeInv'
    BY <2>2 DEF AskStop
  <2>3. ASSUME NEW ok \in BOOLEAN, Restart(b, ok) PROVE InstallsOverNoNodeInv'
    BY <2>3 DEF Restart
  <2> QED
    BY <1>4, <2>1, <2>2, <2>3 DEF BackupStep
<1>5. ASSUME NEW p \in Procs, Signalled(p) PROVE InstallsOverNoNodeInv'
  BY <1>5 DEF Signalled
<1>6. CASE Stops \/ Starts \/ UserStarts
  BY <1>6 DEF Stops, Starts, UserStarts
<1>7. CASE UNCHANGED nodeVars
  BY <1>7 DEF nodeVars
<1> QED
  BY <1>2, <1>3, <1>4, <1>5, <1>6, <1>7 DEF NodeNext

(* No restore writes into a home whose node is not down, with any number   *)
(* of other restores, backups and nodes started by hand, unless the node   *)
(* was started by somebody else after the restore looked the second time.  *)
THEOREM InstallsAlone == NodeSpec => []InstallsOverNoNode
<1>1. NodeInit => InstallsOverNoNodeInv
  BY DEF NodeInit, InstallsOverNoNodeInv
<1>2. NodeTypeOK /\ InstallsOverNoNodeInv /\ [NodeNext]_nodeVars => InstallsOverNoNodeInv'
  BY InstallsOverNoNodeStep
<1>3. InstallsOverNoNodeInv => InstallsOverNoNode
  BY DEF InstallsOverNoNodeInv, InstallsOverNoNode
<1> QED
  BY <1>1, <1>2, <1>3, NodeTypeCorrect, PTL DEF NodeSpec

============================================================================
