-------------------------- MODULE ReconcileProofs --------------------------
(***************************************************************************)
(* What holds of the repositories a restore brings back, and of its word   *)
(* about them, for any archives, any number of runs, kills, failures and   *)
(* announcements.                                                          *)
(***************************************************************************)
EXTENDS Reconcile, TLAPS

(* A step of the comparison touches neither the disk nor the record, but   *)
(* for the list of what is left to fetch.                                  *)
LEMMA CompareLeavesTheDisk ==
  ASSUME CompareStep
  PROVE  /\ UNCHANGED <<manifest, runs, home, at, restored, dropped, record, stuck, before>>
         /\ pc \in {"compare", "starting", "fetching", "waiting", "comparing", "stopping", "report"}
         /\ pc' \in {"starting", "fetching", "waiting", "comparing", "stopping", "report",
                     "reported"}
         /\ todo' \in {todo, restored, {}} \cup {todo \ {r} : r \in Repos}
<1> USE DEF rvars, here, home
<1>1. CASE \E b \in BOOLEAN : CompareNothing(b) \/ ReadBaseline(b)
  BY <1>1 DEF CompareNothing, ReadBaseline
<1>2. CASE \E b \in BOOLEAN : Start(b)
  BY <1>2 DEF Start
<1>3. CASE \E b \in BOOLEAN : what_others_hold(b) \/ Stop(b) \/ Report(b)
  BY <1>3 DEF what_others_hold, Stop, Report
<1>4. CASE \E r \in Repos, ok \in BOOLEAN : Fetch(r, ok)
  BY <1>4 DEF Fetch
<1>5. CASE FetchesEnd \/ CompareEnds
  BY <1>5 DEF FetchesEnd, CompareEnds
<1>6. CASE \E r \in Repos, deaf \in SUBSET Heads, lost \in BOOLEAN : CompareOne(r, deaf, lost)
  BY <1>6 DEF CompareOne
<1> QED
  BY <1>1, <1>2, <1>3, <1>4, <1>5, <1>6 DEF CompareStep

(* A step of anybody else touches only what is known of the network.       *)
LEMMA OthersLeaveTheDisk ==
  ASSUME \/ NodeChanges
         \/ \E r \in Repos, h \in Heads : \E older \in SUBSET rows[r] : Hear(r, h, older)
  PROVE  UNCHANGED <<pc, rvars, asking, compared, exit>>
BY DEF NodeChanges, Hear

(* The variables of the restore keep their types.                          *)
LEMMA RepositoriesTypes ==
  ASSUME RepositoriesTypeOK, [Next]_vars
  PROVE  RepositoriesTypeOK'
<1> USE DEF RepositoriesTypeOK, home, here, Nowhere
<1>0. MaxRuns \in Nat /\ MaxHead \in Nat
  BY RepositoriesAssumption
<1>1. CASE \E force \in BOOLEAN : Begin(force)
  <2>1. runs' \in 0..MaxRuns
    BY <1>0, <1>1 DEF Begin
  <2> QED
    BY <1>1, <2>1 DEF Begin, Carried
<1>2. CASE NoGit
  BY <1>2 DEF NoGit, Carried
<1>3. CASE \E r \in Repos : CannotInit(r)
  BY <1>3 DEF CannotInit
<1>10. ASSUME NEW r \in Repos, InitBare(r) PROVE RepositoriesTypeOK'
  BY <1>10 DEF InitBare
<1>b. \A r \in Repos : manifest[r].bundled \in 0..MaxHead
  <2>1. \A r \in Repos : manifest[r] \in RepoRecord
    BY RepositoriesAssumption
  <2> QED
    BY <1>0, <2>1 DEF RepoRecord, Heads
<1>4. ASSUME NEW r \in Repos, FetchObjects(r) PROVE RepositoriesTypeOK'
  <2>1. history' \in [Repos -> 0..MaxHead]
    BY <1>4, <1>b DEF FetchObjects
  <2> QED
    BY <1>4, <2>1 DEF FetchObjects
<1>11. ASSUME NEW r \in Repos, ForceRefs(r) PROVE RepositoriesTypeOK'
  <2>1. refs' \in [Repos -> 0..MaxHead]
    BY <1>11, <1>b DEF ForceRefs
  <2> QED
    BY <1>11, <2>1 DEF ForceRefs
<1>12. ASSUME NEW r \in Repos, SetHeadAndConfig(r) PROVE RepositoriesTypeOK'
  BY <1>12 DEF SetHeadAndConfig
<1>5. ASSUME NEW r \in Repos, NEW left \in Leftovers, PutBackFails(r, left)
      PROVE  RepositoriesTypeOK'
  <2>1. refs' \in [Repos -> 0..MaxHead] /\ history' \in [Repos -> 0..MaxHead]
    BY <1>0, <1>5 DEF PutBackFails
  <2> QED
    BY <1>5, <2>1 DEF PutBackFails
<1>6. CASE \E write \in {"whole", "cut", "refused"} : Remember(write)
  BY <1>6 DEF Remember
<1>7. CASE Killed
  BY <1>7 DEF Killed
<1>8. CASE CompareStep
  BY <1>8, CompareLeavesTheDisk
<1>9. CASE UNCHANGED vars \/ UNCHANGED rvars
  BY <1>9 DEF vars, rvars
<1> QED
  BY <1>1, <1>2, <1>3, <1>4, <1>5, <1>6, <1>7, <1>8, <1>9, <1>10, <1>11, <1>12,
     OthersLeaveTheDisk
  DEF Next, Again, Restoring, RestoreStep, Kill

(* Only an archive's own restores write, so what it says stays.            *)
LEMMA StoreStep ==
  ASSUME RepositoriesTypeOK, StoreInv, [Next]_vars
  PROVE  StoreInv'
<1> USE DEF RepositoriesTypeOK, StoreInv, Shell, home, here, Nowhere, Whole
<1>0. \A r \in Repos : /\ manifest[r].bundled \in Nat \ {0}
                      /\ refs[r] \in Nat /\ history[r] \in Nat
  <2>1. \A r \in Repos : manifest[r] \in RepoRecord
    BY RepositoriesAssumption
  <2> QED
    BY <2>1, RepositoriesAssumption DEF RepoRecord, Heads
<1>1. ASSUME NEW force \in BOOLEAN, Begin(force) PROVE StoreInv'
  <2>1. UNCHANGED <<manifest, storage, refs, history, record, stuck>> /\ before' = storage
    BY <1>1 DEF Begin
  <2>2. at'.repo = {} /\ restored' = {}
    BY <1>1 DEF Begin
  <2>3. at.repo = {}
    BY <1>1 DEF Begin
  <2> QED
    BY <2>1, <2>2, <2>3
<1>2. CASE NoGit
  BY <1>2 DEF NoGit
<1>3. ASSUME NEW r \in Repos, CannotInit(r) PROVE StoreInv'
  BY <1>3 DEF CannotInit
<1>4. ASSUME NEW r \in Repos, InitBare(r) PROVE StoreInv'
  <2>1. /\ at.repo = {} /\ at'.repo = {r} /\ at'.existed = (r \in storage) /\ at'.stage = "made"
        /\ storage' = storage \cup {r} /\ pc = "repos" /\ pc' = "repos"
        /\ r \in todo /\ todo' = todo \ {r}
        /\ UNCHANGED <<manifest, refs, history, restored, record, stuck, before>>
    BY <1>4 DEF InitBare
  <2>2. restored \cup record \cup before \subseteq storage
    OBVIOUS
  <2> QED
    BY <2>1, <2>2
<1>5. ASSUME NEW r \in Repos, FetchObjects(r) PROVE StoreInv'
  <2>1. \A q \in Repos : history'[q] >= history[q] /\ (q # r => history'[q] = history[q])
    BY <1>0, <1>5 DEF FetchObjects
  <2>2. history'[r] >= manifest[r].bundled /\ history'[r] \in Nat
    BY <1>0, <1>5 DEF FetchObjects
  <2>3. /\ at.repo = {r} /\ at'.repo = {r} /\ at'.existed = at.existed /\ at'.stage = "objects"
        /\ UNCHANGED <<pc, manifest, refs, storage, todo, restored, record, stuck, before>>
    BY <1>5 DEF FetchObjects
  <2>4. Whole \subseteq Whole'
    BY <1>0, <2>1, <2>2, <2>3
  <2> QED
    BY <2>1, <2>2, <2>3, <2>4
<1>6. ASSUME NEW r \in Repos, ForceRefs(r) PROVE StoreInv'
  <2>1. /\ at.repo = {r} /\ at'.repo = {r} /\ at'.existed = at.existed /\ at'.stage = "refs"
        /\ UNCHANGED <<pc, manifest, history, storage, todo, restored, record, stuck, before>>
        /\ at.stage = "objects"
    BY <1>6 DEF ForceRefs
  <2>2. /\ refs'[r] = manifest[r].bundled /\ refs'[r] # 0
        /\ \A q \in Repos : q # r => refs'[q] = refs[q]
    BY <1>0, <1>6 DEF ForceRefs
  <2>3. Whole \subseteq Whole'
    BY <1>0, <2>1, <2>2
  <2> QED
    BY <1>0, <2>1, <2>2, <2>3
<1>7. ASSUME NEW r \in Repos, SetHeadAndConfig(r) PROVE StoreInv'
  <2>1. /\ at.repo = {r} /\ at'.repo = {} /\ at.stage = "refs" /\ pc' = pc
        /\ UNCHANGED <<manifest, refs, history, storage, todo, record, before>> /\ pc = "repos"
        /\ restored' = restored \cup {r} /\ stuck' = stuck \ {r}
    BY <1>7 DEF SetHeadAndConfig
  <2>2. r \in Whole /\ refs[r] # 0
    BY <1>0, <2>1
  <2> QED
    BY <2>1, <2>2
<1>8. ASSUME NEW r \in Repos, NEW left \in Leftovers, PutBackFails(r, left)
      PROVE  StoreInv'
  <2>1. /\ at.repo = {r} /\ at'.repo = {} /\ pc' = pc
        /\ UNCHANGED <<manifest, todo, restored, record, before>> /\ pc = "repos"
    BY <1>8 DEF PutBackFails
  <2>2. CASE at.existed
    BY <1>8, <2>1, <2>2 DEF PutBackFails
  <2>3. CASE ~at.existed
    <3>1. r \notin before \cup restored \cup record
      BY <2>1, <2>3
    <3>2. /\ \A q \in Repos : q # r => refs'[q] = refs[q] /\ history'[q] = history[q]
          /\ IF left = {} THEN storage' = storage \ {r} /\ refs'[r] = 0 /\ history'[r] = 0
                              /\ stuck' = stuck
             ELSE storage' = storage /\ stuck' = stuck \cup {r}
      BY <1>8, <2>3 DEF PutBackFails
    <3>3. Whole \ {r} \subseteq Whole'
      BY <2>1, <3>2
    <3> QED
      BY <2>1, <3>1, <3>2, <3>3
  <2> QED
    BY <2>2, <2>3
<1>9. CASE \E write \in {"whole", "cut", "refused"} : Remember(write)
  BY <1>9 DEF Remember
<1>10. CASE Killed
  BY <1>10 DEF Killed
<1>11. CASE CompareStep
  BY <1>11, CompareLeavesTheDisk
<1>12. CASE UNCHANGED vars \/ UNCHANGED <<pc, rvars>>
  BY <1>12 DEF vars, rvars
<1> QED
  BY <1>1, <1>2, <1>3, <1>4, <1>5, <1>6, <1>7, <1>8, <1>9, <1>10, <1>11, <1>12,
     OthersLeaveTheDisk
  DEF Next, Again, Restoring, RestoreStep, Kill

(* What was restored is on disk; the account of a run loses no repository. *)
LEMMA AccountStep ==
  ASSUME RepositoriesTypeOK, AccountInv, [Next]_vars
  PROVE  AccountInv'
<1> USE DEF RepositoriesTypeOK, AccountInv, home, here, Nowhere, Carried
<1>1. CASE \E force \in BOOLEAN : Begin(force)
  BY <1>1 DEF Begin
<1>2. CASE NoGit
  BY <1>2 DEF NoGit
<1>3. ASSUME NEW r \in Repos, CannotInit(r) \/ InitBare(r) PROVE AccountInv'
  BY <1>3 DEF CannotInit, InitBare
<1>4. ASSUME NEW r \in Repos, FetchObjects(r) \/ ForceRefs(r) \/ SetHeadAndConfig(r)
      PROVE  AccountInv'
  BY <1>4 DEF FetchObjects, ForceRefs, SetHeadAndConfig
<1>9. ASSUME NEW r \in Repos, NEW left \in Leftovers, PutBackFails(r, left) PROVE AccountInv'
  BY <1>9 DEF PutBackFails
<1>5. CASE \E write \in {"whole", "cut", "refused"} : Remember(write)
  BY <1>5 DEF Remember
<1>6. CASE Killed
  BY <1>6 DEF Killed
<1>7. CASE CompareStep
  BY <1>7, CompareLeavesTheDisk
<1>8. CASE UNCHANGED vars \/ UNCHANGED <<pc, rvars>>
  BY <1>8 DEF vars, rvars
<1> QED
  BY <1>1, <1>2, <1>3, <1>4, <1>5, <1>6, <1>7, <1>8, <1>9, OthersLeaveTheDisk
  DEF Next, Again, Restoring, RestoreStep, Kill

(* The worst of some standings is one of them, and no other is worse.      *)
LEMMA WorstIsThere ==
  ASSUME NEW S \in SUBSET Standing, S # {}
  PROVE  worse_of(S) \in S /\ \A t \in S : Severity[t] <= Severity[worse_of(S)]
<1> DEFINE IsWorst(s) == s \in S /\ \A t \in S : Severity[t] <= Severity[s]
<1>1. \A s \in Standing : Severity[s] \in 0..5
  BY DEF Standing, Severity
<1>2. \A s, t \in Standing : Severity[s] = Severity[t] => s = t
  BY DEF Standing, Severity
<1>3. \E s \in S : \A t \in S : Severity[t] <= Severity[s]
  <2> DEFINE Has(n) == \E s \in S : Severity[s] = n
  <2>1. \/ Has(5)
        \/ Has(4) /\ ~Has(5)
        \/ Has(3) /\ ~Has(4) /\ ~Has(5)
        \/ Has(2) /\ ~Has(3) /\ ~Has(4) /\ ~Has(5)
        \/ Has(1) /\ ~Has(2) /\ ~Has(3) /\ ~Has(4) /\ ~Has(5)
        \/ \A s \in S : Severity[s] = 0
    BY <1>1
  <2> QED
    BY <1>1, <2>1
<1> QED
  BY <1>3 DEF worse_of

(* What one row says is a standing, and one beyond the archive's head is   *)
(* never read as agreement.                                                *)
LEMMA ReadingWell ==
  ASSUME NEW r, NEW h, NEW deaf
  PROVE  /\ Reading(r, h, deaf) \in Standing
         /\ ~(h <= manifest[r].head) => Reading(r, h, deaf) \in {"PeerHoldsOther", "CouldNotAsk"}
BY DEF Reading, is_ancestor, resolve_git_failure, Standing, Severity

(* So is the standing of a repository, whatever rows there are besides.    *)
LEMMA ClassifyWell ==
  ASSUME NEW r, NEW deaf
  PROVE  /\ classify(r, deaf) \in Standing \ {"NothingToCompare"}
         /\ (\E h \in Evidence(r) : ~(h <= manifest[r].head)) =>
              classify(r, deaf) \in {"PeerHoldsOther", "CouldNotAsk"}
<1> DEFINE S == {"NothingSaysOtherwise"} \cup {Reading(r, h, deaf) : h \in Evidence(r)}
<1>1. S \in SUBSET Standing /\ S # {}
  BY ReadingWell DEF Standing, Severity
<1>2. "NothingToCompare" \notin S
  BY DEF Reading
<1>3. worse_of(S) \in S /\ \A t \in S : Severity[t] <= Severity[worse_of(S)]
  BY <1>1, WorstIsThere
<1>4. ASSUME NEW h \in Evidence(r), ~(h <= manifest[r].head)
      PROVE  worse_of(S) \in {"PeerHoldsOther", "CouldNotAsk"}
  <2>1. \E t \in S : t \in {"PeerHoldsOther", "CouldNotAsk"}
    BY <1>4, ReadingWell
  <2>2. Severity[worse_of(S)] \in {4, 5} /\ worse_of(S) \in Standing
    BY <1>1, <1>3, <2>1 DEF Severity, Standing
  <2> QED
    BY <2>2 DEF Severity, Standing
<1> QED
  BY <1>1, <1>2, <1>3, <1>4 DEF classify

(* The comparison's own variables keep their types.                        *)
LEMMA ComparisonTypes ==
  ASSUME TypeOK, [Next]_vars
  PROVE  TypeOK'
<1> USE DEF TypeOK, compared
<1>0. RepositoriesTypeOK'
  BY RepositoriesTypes
<1>1. CASE \E force \in BOOLEAN : Again(force)
  BY <1>0, <1>1 DEF Again, Begin, Forget, NoRows, Rows
<1>2. CASE Restoring
  BY <1>0, <1>2 DEF Restoring, RestoreStep, NoGit, CannotInit, InitBare, FetchObjects,
     ForceRefs, SetHeadAndConfig, PutBackFails,
     Remember, nvars
<1>3. CASE Kill
  BY <1>0, <1>3 DEF Kill, Killed, Forget, NoRows, Rows
<1>4. CASE NodeChanges
  BY <1>0, <1>4 DEF NodeChanges
<1>5. CASE \E r \in Repos, h \in Heads : \E older \in SUBSET rows[r] : Hear(r, h, older)
  BY <1>0, <1>5 DEF Hear, Rows
<1>6. CASE \E b \in BOOLEAN : CompareNothing(b)
  BY <1>0, <1>6 DEF CompareNothing, nothing_compared, Standing, Severity
<1>7. CASE \E b \in BOOLEAN : ReadBaseline(b)
  BY <1>0, <1>7 DEF ReadBaseline, NoRows, Rows
<1>8. CASE \E b \in BOOLEAN : Start(b)
  BY <1>0, <1>8 DEF Start, nothing_compared, Standing, Severity
<1>9. CASE \E b \in BOOLEAN : what_others_hold(b)
  BY <1>0, <1>9 DEF what_others_hold
<1>10. CASE \E b \in BOOLEAN : Stop(b) \/ Report(b)
  BY <1>0, <1>10 DEF Stop, Report, ExitCode
<1>11. CASE \E r \in Repos, ok \in BOOLEAN : Fetch(r, ok)
  BY <1>0, <1>11 DEF Fetch, Standing, Severity
<1>12. CASE FetchesEnd \/ CompareEnds
  BY <1>0, <1>12 DEF FetchesEnd, CompareEnds, nvars
<1>13. CASE UNCHANGED vars
  BY <1>0, <1>13 DEF vars, nvars
<1>14. ASSUME NEW r \in Repos, NEW deaf \in SUBSET Heads, NEW lost \in BOOLEAN,
              CompareOne(r, deaf, lost)
       PROVE  TypeOK'
  <2>1. standings' \in [Repos -> Standing \cup {NoStanding}]
    BY <1>14, ClassifyWell DEF CompareOne, without_a_head_of_ours, Standing, Severity
  <2> QED
    BY <1>0, <1>14, <2>1 DEF CompareOne
<1> QED
  BY <1>1, <1>2, <1>3, <1>4, <1>5, <1>6, <1>7, <1>8, <1>9, <1>10, <1>11, <1>12, <1>13, <1>14
  DEF Next, CompareStep

(* Positions in a chain are numbers, whatever a record holds.              *)
LEMMA HeadsAreNumbers ==
  ASSUME TypeOK, NEW r \in Repos
  PROVE  manifest[r].head \in Nat /\ UNION {f[r] : f \in held} \subseteq Nat
<1>1. manifest[r] \in RepoRecord
  BY RepositoriesAssumption DEF TypeOK, RepositoriesTypeOK
<1>2. manifest[r].head \in Nat
  BY <1>1, RepositoriesAssumption DEF RepoRecord
<1>3. \A f \in held : f[r] \subseteq Heads
  BY DEF TypeOK, Rows, Unknown
<1>4. Heads \subseteq Nat
  BY RepositoriesAssumption DEF Heads
<1> QED
  BY <1>2, <1>3, <1>4

(* Every repository stays answered for, by a standing that hides nothing.  *)
LEMMA WordStep ==
  ASSUME TypeOK, WordInv, [Next]_vars
  PROVE  WordInv'
<1> USE DEF WordInv, Comparing, compared, Reported
<1>a. (\A r \in Repos : standings[r] = nothing_compared[r]) => \A r \in Repos : Answered(r)
  BY DEF nothing_compared, Answered
<1>b. ASSUME UNCHANGED <<manifest, restored, standings, held>>
      PROVE  \A r \in Repos : Answered(r) => Answered(r)'
  BY <1>b DEF Answered, Beyond
<1>1. CASE \E force \in BOOLEAN : Again(force)
  BY <1>1 DEF Again, Begin, Forget
<1>2. CASE Restoring
  BY <1>2 DEF Restoring, RestoreStep, NoGit, CannotInit, InitBare, FetchObjects,
     ForceRefs, SetHeadAndConfig, PutBackFails,
     Remember, nvars
<1>3. CASE Kill
  BY <1>3 DEF Kill, Killed, Forget
<1>4. CASE \/ NodeChanges
           \/ \E r \in Repos, h \in Heads : \E older \in SUBSET rows[r] : Hear(r, h, older)
  BY <1>4, <1>b, OthersLeaveTheDisk DEF rvars, here, at_risk, not_checked, Of
<1>5. CASE \E b \in BOOLEAN : CompareNothing(b)
  BY <1>5 DEF CompareNothing, nothing_compared, Answered, rvars, here
<1>6. CASE \E b \in BOOLEAN : ReadBaseline(b)
  BY <1>6 DEF ReadBaseline
<1>7. CASE \E b \in BOOLEAN : Start(b)
  BY <1>7 DEF Start, nothing_compared, Answered
<1>8. CASE \E b \in BOOLEAN : what_others_hold(b)
  BY <1>8 DEF what_others_hold, Answered, rvars, here
<1>9. CASE \E b \in BOOLEAN : Stop(b)
  BY <1>9, <1>b DEF Stop, rvars, here
<1>10. CASE \E b \in BOOLEAN : Report(b)
  BY <1>10, <1>b DEF Report, ExitCode, rvars, here, at_risk, not_checked, Of
<1>11. ASSUME NEW r \in Repos, NEW ok \in BOOLEAN, Fetch(r, ok) PROVE WordInv'
  BY <1>11 DEF Fetch, Answered, TypeOK
<1>12. CASE FetchesEnd \/ CompareEnds
  BY <1>12, <1>b DEF FetchesEnd, CompareEnds, nvars, rvars, here
<1>13. ASSUME NEW r \in Repos, NEW deaf \in SUBSET Heads, NEW lost \in BOOLEAN,
              CompareOne(r, deaf, lost)
       PROVE  WordInv'
  <2>1. UNCHANGED <<manifest, restored, held>> /\ Beyond(r)' = Beyond(r)
    BY <1>13 DEF CompareOne, rvars, here, Beyond
  <2>2. ASSUME NEW h \in Beyond(r) PROVE h \in Evidence(r) /\ ~(h <= manifest[r].head)
    <3>1. h \in Nat /\ manifest[r].head \in Nat /\ h > manifest[r].head
      BY HeadsAreNumbers DEF Beyond
    <3>2. h # manifest[r].head /\ ~(h <= manifest[r].head)
      BY <3>1
    <3>3. h \in UNION {f[r] : f \in held}
      BY DEF Beyond
    <3> QED
      BY <3>2, <3>3 DEF Evidence
  <2>3. Beyond(r) # {} => UNION {f[r] : f \in held} # {}
    BY DEF Beyond
  <2>4. standings'[r] = IF held = Unknown THEN "CouldNotAsk"
                        ELSE IF manifest[r].head = NoHead THEN without_a_head_of_ours(r)
                        ELSE IF lost THEN "CouldNotAsk" ELSE classify(r, deaf)
    BY <1>13 DEF CompareOne, TypeOK
  <2>5. Answered(r)'
    <3>1. CASE held = Unknown
      BY <2>4, <3>1 DEF Answered
    <3>2. CASE held # Unknown /\ manifest[r].head = NoHead
      BY <2>1, <2>3, <2>4, <3>2 DEF Answered, without_a_head_of_ours, Standing, Severity
    <3>3. CASE held # Unknown /\ manifest[r].head # NoHead
      BY <2>1, <2>2, <2>4, <3>3, ClassifyWell DEF Answered
    <3> QED
      BY <3>1, <3>2, <3>3
  <2>6. \A q \in Repos \ {r} : Answered(q) => Answered(q)'
    BY <1>13 DEF CompareOne, Answered, Beyond, rvars, here, TypeOK
  <2> QED
    BY <1>13, <2>5, <2>6 DEF CompareOne
<1>14. CASE UNCHANGED vars
  BY <1>14, <1>b DEF vars, nvars, rvars, here, at_risk, not_checked, Of
<1> QED
  BY <1>1, <1>2, <1>3, <1>4, <1>5, <1>6, <1>7, <1>8, <1>9, <1>10, <1>11, <1>12, <1>13, <1>14
  DEF Next, CompareStep

(* The inductive invariant, with the types.                                *)
THEOREM ReconcileInvariant == Spec => [](TypeOK /\ ReconcileInv)
<1>1. Init => TypeOK /\ ReconcileInv
  <2> SUFFICES ASSUME Init PROVE TypeOK /\ ReconcileInv
    OBVIOUS
  <2>1. MaxHead \in Nat /\ MaxHead # 0 /\ 0 \in 0..MaxRuns
    BY RepositoriesAssumption
  <2>2. history \in [Repos -> 0..MaxHead] /\ \A r \in storage : history[r] # 0
    BY <2>1, RepositoriesAssumption DEF Init, RepositoriesInit
  <2>3. TypeOK
    BY <2>1, <2>2, RepositoriesAssumption, ReconcileAssumption
    DEF Init, RepositoriesInit, TypeOK, RepositoriesTypeOK, Nowhere, NoRows, Rows, Unknown
  <2>4. ReconcileInv
    BY <2>2, RepositoriesAssumption DEF Init, RepositoriesInit, ReconcileInv, StoreInv, Shell, AccountInv,
       WordInv, Comparing, Reported, Nowhere, Unknown
  <2> QED
    BY <2>3, <2>4
<1>2. TypeOK /\ ReconcileInv /\ [Next]_vars => TypeOK' /\ ReconcileInv'
  BY ComparisonTypes, StoreStep, AccountStep, WordStep DEF ReconcileInv, TypeOK
<1>3. QED
  BY <1>1, <1>2, PTL DEF Spec

(* The record never describes a repository the home does not hold whole.   *)
THEOREM RecordHolds == Spec => []RecordIsHeld
<1>1. ReconcileInv => RecordIsHeld
  BY DEF ReconcileInv, StoreInv, RecordIsHeld
<1> QED
  BY <1>1, ReconcileInvariant, PTL

(* A directory without history is left by a kill or a failed sweep only.   *)
THEOREM NoShell == Spec => []NoShellOfItsOwn
<1>1. ReconcileInv => NoShellOfItsOwn
  BY DEF ReconcileInv, StoreInv, NoShellOfItsOwn
<1> QED
  BY <1>1, ReconcileInvariant, PTL

(* No failure, at whatever step, costs the home a copy that the run did    *)
(* not create or has brought back; refs go back only to what the archive   *)
(* carries, once that is there.                                            *)
THEOREM CopiesAreSafe == Spec => CopiesSurvive
<1>1. TypeOK /\ ReconcileInv /\ [Next]_vars => [KeepsCopies]_<<pc, rvars>>
  <2> DEFINE Safe(r) ==
        /\ r \in storage' /\ history'[r] >= history[r]
        /\ refs'[r] < refs[r] => /\ r \in before /\ at.repo = {r}
                                /\ refs'[r] = manifest[r].bundled /\ history[r] >= refs'[r]
  <2> SUFFICES ASSUME TypeOK, StoreInv, [Next]_vars, NEW r \in Kept PROVE Safe(r)
    BY DEF ReconcileInv, KeepsCopies
  <2>1. /\ r \in Repos /\ r \in storage /\ history[r] \in Nat /\ refs[r] \in Nat
        /\ manifest[r].bundled \in Nat
    BY RepositoriesAssumption DEF TypeOK, RepositoriesTypeOK, RepoRecord, Heads, StoreInv, Kept, Whole
  <2>2. history[r] >= history[r] /\ ~(refs[r] < refs[r])
    BY <2>1
  <2>3. CASE UNCHANGED <<storage, refs, history>>
    BY <2>1, <2>2, <2>3
  <2>4. ASSUME NEW q \in Repos, InitBare(q) PROVE Safe(r)
    BY <2>1, <2>2, <2>4 DEF InitBare
  <2>5. ASSUME NEW q \in Repos, FetchObjects(q) PROVE Safe(r)
    BY <2>1, <2>2, <2>5 DEF FetchObjects, TypeOK, RepositoriesTypeOK
  <2>6. ASSUME NEW q \in Repos, ForceRefs(q) PROVE Safe(r)
    <3>1. CASE q # r
      BY <2>1, <2>2, <2>6, <3>1 DEF ForceRefs, TypeOK, RepositoriesTypeOK
    <3>2. CASE q = r
      <4>1. /\ at.repo = {r} /\ history[r] >= manifest[r].bundled
            /\ UNCHANGED <<storage, history>> /\ refs'[r] = manifest[r].bundled
        BY <2>1, <2>6, <3>2 DEF ForceRefs, StoreInv, TypeOK, RepositoriesTypeOK
      <4>2. r \notin restored
        BY <4>1 DEF StoreInv
      <4> QED
        BY <2>1, <2>2, <4>1, <4>2 DEF Kept
    <3> QED
      BY <3>1, <3>2
  <2>7. ASSUME NEW q \in Repos, NEW left \in Leftovers, PutBackFails(q, left) PROVE Safe(r)
    <3>1. CASE at.existed \/ q # r
      BY <2>1, <2>2, <2>7, <3>1 DEF PutBackFails, TypeOK, RepositoriesTypeOK
    <3>2. CASE ~at.existed /\ q = r
      BY <2>7, <3>2 DEF PutBackFails, StoreInv, Kept
    <3> QED
      BY <3>1, <3>2
  <2>8. CASE CompareStep
    BY <2>3, <2>8, CompareLeavesTheDisk DEF home
  <2>9. CASE UNCHANGED vars \/ UNCHANGED rvars
    BY <2>3, <2>9 DEF vars, rvars, home
  <2>10. CASE \/ \E force \in BOOLEAN : Begin(force)
              \/ NoGit \/ Killed
              \/ \E q \in Repos : CannotInit(q) \/ SetHeadAndConfig(q)
              \/ \E write \in {"whole", "cut", "refused"} : Remember(write)
    BY <2>3, <2>10 DEF Begin, NoGit, Killed, CannotInit, SetHeadAndConfig, Remember, home
  <2> QED
    BY <2>4, <2>5, <2>6, <2>7, <2>8, <2>9, <2>10, OthersLeaveTheDisk
    DEF Next, Again, Restoring, RestoreStep, Kill
<1> QED
  BY <1>1, ReconcileInvariant, PTL DEF Spec, CopiesSurvive

(* No head beyond the archive's, once read, is kept from the user.         *)
THEOREM ForksAreSaid == Spec => []ForksAreNamed
<1>1. TypeOK /\ ReconcileInv => ForksAreNamed
  <2> SUFFICES ASSUME TypeOK, WordInv, Reported, asking, held # Unknown, NEW r \in Repos,
                      standings[r] \in Standing \ {"NothingToCompare"}, Beyond(r) # {}
               PROVE  /\ r \in at_risk \cup not_checked
                      /\ ~nothing_was_reported_otherwise /\ exit = 3
    BY DEF ReconcileInv, ForksAreNamed
  <2>1. Answered(r)
    BY DEF WordInv, Reported, Comparing
  <2>2. r \in at_risk \cup not_checked
    BY <2>1 DEF Answered, at_risk, not_checked, Of, NoStanding, Standing, Severity
  <2>3. exit = 3
    BY <2>2 DEF WordInv, TypeOK
  <2> QED
    BY <2>2, <2>3 DEF nothing_was_reported_otherwise
<1> QED
  BY <1>1, ReconcileInvariant, PTL

(* A clean exit means that all came back and all was answered for.         *)
THEOREM CleanExits == Spec => []CleanExitIsEarned
<1>1. TypeOK /\ ReconcileInv => CleanExitIsEarned
  <2> SUFFICES ASSUME TypeOK, ReconcileInv, Reported, exit = 0
               PROVE  /\ Carried \subseteq Whole
                      /\ asking => \A r \in Carried : ~manifest[r].alone =>
                                     held # Unknown /\ Beyond(r) = {}
    BY DEF CleanExitIsEarned
  <2>1. at_risk = {} /\ dropped = {} /\ (asking => not_checked = {})
    BY DEF ReconcileInv, WordInv
  <2>2. Carried \subseteq restored /\ restored \subseteq Whole
    BY <2>1 DEF ReconcileInv, AccountInv, StoreInv, Reported
  <2>3. ASSUME asking, NEW r \in Carried, ~manifest[r].alone
        PROVE  held # Unknown /\ Beyond(r) = {}
    <3>1. r \in Repos /\ r \in restored
      BY <2>2 DEF Carried
    <3>2. Answered(r)
      BY <3>1 DEF ReconcileInv, WordInv, Reported, Comparing
    <3> QED
      BY <2>1, <2>3, <3>1, <3>2 DEF Answered, at_risk, not_checked, Of
  <2> QED
    BY <2>2, <2>3
<1> QED
  BY <1>1, ReconcileInvariant, PTL
(* A reading that says the archive is ahead is of a head the run heard     *)
(* since it first looked, and that the archive is beyond.                  *)
LEMMA AheadOfWhatWasHeard ==
  ASSUME TypeOK, FreshInv, NEW r \in Repos, NEW deaf, NEW h \in Evidence(r),
         Reading(r, h, deaf) = "ArchiveIsAhead"
  PROVE  h \in heard[r] /\ h < manifest[r].head
<1>1. IsNews(r, h) /\ is_ancestor(r, h, deaf) = "yes"
  BY DEF Reading, is_ancestor, resolve_git_failure
<1>2. h <= manifest[r].head
  BY <1>1 DEF is_ancestor, resolve_git_failure
<1>3. PICK g \in held : h \in g[r] /\ h # manifest[r].head
  BY DEF Evidence
<1>4. PICK f \in baseline : h \notin f[r]
  BY <1>1 DEF IsNews
<1>5. h \in heard[r]
  BY <1>3, <1>4 DEF FreshInv
<1>6. h \in Nat /\ manifest[r].head \in Nat
  BY <1>3, HeadsAreNumbers
<1>7. h < manifest[r].head
  BY <1>2, <1>3, <1>6
<1>8. QED
  BY <1>5, <1>7

(* Whatever the record gains is heard, and a run forgets what it heard     *)
(* only with the repositories it took to be ahead of it.                   *)
LEMMA FreshStep ==
  ASSUME TypeOK, WordInv, FreshInv, [Next]_vars
  PROVE  FreshInv'
<1> USE DEF FreshInv, compared
<1>1. ASSUME \/ \E force \in BOOLEAN : Again(force)
             \/ Kill
      PROVE  FreshInv'
  BY <1>1 DEF Again, Kill, Forget, Unknown
<1>2. ASSUME UNCHANGED <<manifest, baseline, rows, heard, held, ahead_of_someone>>,
             pc' \in {"repos", "compare"} => pc \in {"repos", "compare"}
      PROVE  FreshInv'
  BY <1>2
<1>3. CASE Restoring
  <2>1. pc = "repos" /\ manifest' = manifest
    BY <1>3 DEF Restoring, RestoreStep, NoGit, CannotInit, InitBare, FetchObjects,
     ForceRefs, SetHeadAndConfig, PutBackFails,
       Remember
  <2>2. QED
    BY <1>2, <1>3, <2>1 DEF Restoring, nvars
<1>4. CASE NodeChanges
  BY <1>2, <1>4 DEF NodeChanges, rvars
<1>5. ASSUME NEW r \in Repos, NEW h \in Heads, NEW older \in SUBSET rows[r], Hear(r, h, older)
      PROVE  FreshInv'
  <2>1. /\ rows' = [rows EXCEPT ![r] = (@ \ older) \cup {h}]
        /\ heard' = [heard EXCEPT ![r] = @ \cup {h}]
        /\ UNCHANGED <<pc, manifest, baseline, held, ahead_of_someone>>
    BY <1>5 DEF Hear, rvars
  <2>2. rows \in [Repos -> SUBSET Heads] /\ heard \in [Repos -> SUBSET Heads]
        /\ ahead_of_someone \subseteq Repos
    BY DEF TypeOK, Rows
  <2>3. \A q \in Repos : heard[q] \subseteq heard'[q] /\ rows'[q] \ rows[q] \subseteq heard'[q]
    BY <2>1, <2>2
  <2>4. ASSUME NEW q \in Repos, NEW f \in baseline, NEW g \in held \cup {rows}
        PROVE  g[q] \ f[q] \subseteq heard'[q]
    BY <2>3
  <2>5. ASSUME NEW q \in Repos, NEW f \in baseline PROVE rows'[q] \ f[q] \subseteq heard'[q]
    BY <2>3, <2>4
  <2>6. \A q \in ahead_of_someone : \E k \in heard'[q] : k < manifest[q].head
    BY <2>2, <2>3
  <2>7. QED
    BY <2>1, <2>4, <2>5, <2>6
<1>6. ASSUME NEW readable \in BOOLEAN, ReadBaseline(readable) PROVE FreshInv'
  <2>1. held = {} /\ ahead_of_someone = {} /\ held' = held /\ rows' = rows
        /\ ahead_of_someone' = ahead_of_someone
    BY <1>6 DEF ReadBaseline, WordInv, Unknown
  <2>2. baseline' \in {{}, {rows}}
    BY <1>6 DEF ReadBaseline, Unknown
  <2>3. QED
    BY <2>1, <2>2
<1>7. ASSUME NEW readable \in BOOLEAN, what_others_hold(readable) PROVE FreshInv'
  <2>1. held' \in {{}, {rows}}
    BY <1>7 DEF what_others_hold, Unknown
  <2>2. UNCHANGED <<manifest, baseline, rows, heard, ahead_of_someone>> /\ pc' = "comparing"
    BY <1>7 DEF what_others_hold, rvars
  <2>3. QED
    BY <2>1, <2>2
<1>8. ASSUME NEW b \in BOOLEAN, CompareNothing(b) \/ Start(b) \/ Stop(b) \/ Report(b)
      PROVE  FreshInv'
  BY <1>2, <1>8 DEF CompareNothing, Start, Stop, Report, rvars
<1>9. ASSUME NEW r \in Repos, NEW ok \in BOOLEAN, Fetch(r, ok) PROVE FreshInv'
  BY <1>2, <1>9 DEF Fetch
<1>10. CASE FetchesEnd \/ CompareEnds
  BY <1>2, <1>10 DEF FetchesEnd, CompareEnds, rvars, nvars
<1>11. ASSUME NEW r \in Repos, NEW deaf \in SUBSET Heads, NEW lost \in BOOLEAN,
              CompareOne(r, deaf, lost)
       PROVE  FreshInv'
  <2>1. UNCHANGED <<pc, manifest, baseline, rows, heard, held>> /\ pc = "comparing"
    BY <1>11 DEF CompareOne, rvars
  <2>2. CASE ahead_of_someone' = ahead_of_someone
    BY <1>2, <2>1, <2>2
  <2>3. CASE ahead_of_someone' # ahead_of_someone
    <3>1. PICK h \in Evidence(r) : Reading(r, h, deaf) = "ArchiveIsAhead"
      BY <1>11, <2>3 DEF CompareOne
    <3>2. ahead_of_someone' = ahead_of_someone \cup {r}
      BY <1>11, <2>3 DEF CompareOne
    <3>3. h \in heard[r] /\ h < manifest[r].head
      BY <3>1, AheadOfWhatWasHeard
    <3>4. QED
      BY <2>1, <3>2, <3>3
  <2>4. QED
    BY <2>2, <2>3
<1>12. CASE UNCHANGED vars
  BY <1>2, <1>12 DEF vars, nvars, rvars
<1>13. QED
  BY <1>1, <1>3, <1>4, <1>5, <1>6, <1>7, <1>8, <1>9, <1>10, <1>11, <1>12 DEF Next, CompareStep

(* The user is told to announce a repository only on the word of a node    *)
(* that was heard, since the run first looked, to be behind the archive.   *)
THEOREM AheadIsFresh == Spec => []AheadOnFreshWord
<1>1. Init => FreshInv
  BY DEF Init, FreshInv, Unknown
<1>2. TypeOK /\ ReconcileInv /\ FreshInv /\ [Next]_vars => FreshInv'
  BY FreshStep DEF ReconcileInv
<1>3. FreshInv => AheadOnFreshWord
  BY DEF FreshInv, AheadOnFreshWord, ahead
<1>4. QED
  BY <1>1, <1>2, <1>3, ReconcileInvariant, PTL DEF Spec

=============================================================================
