----------------------------- MODULE Reconcile -----------------------------
(***************************************************************************)
(* The last part of `rad backup restore`: what other nodes say they hold   *)
(* of this identity's signed refs, against what came out of the bundles.   *)
(* The home's node is started if it is down, every repository fetched, a   *)
(* while waited for gossip, and the node's record of announcements read    *)
(* once; the report tells which repositories must not be written in, and   *)
(* which should be announced.  A wrong word here forks a peer's history.   *)
(*                                                                         *)
(* Source: `reconcile`, `compare_with_network`, `classify` and what they   *)
(* call, `Verdict` and `report` of src/cmd/restore.rs, `read_synced_heads` *)
(* of src/db.rs.  How the node is probed, started and stopped is in        *)
(* NodeControl.                                                            *)
(***************************************************************************)
EXTENDS Repositories

CONSTANTS Asks,      \* bound: the runs, by number, that compare
          Past,      \* what the node's record can hold before the restore
          Elsewhere  \* [Repos -> SUBSET Heads]: what other nodes come to announce

VARIABLES
  asking,     \* whether `--no-reconcile` was not given
  up,         \* whether a node serves the home
  mine,       \* whether this run started it
  rows,       \* the node's record: the heads other nodes announced, by repository
  baseline,   \* what the record held before the comparison, as far as it could be read
  fetched,    \* repositories fetched, to be compared
  held,       \* the record as read after the wait
  standings,  \* [Repos -> Standing], NoStanding for what was not restored
  ahead_of_someone,
  exit,       \* exit code of the last run that reported
  heard       \* history: heads announced since this run first looked at the record

compared == <<fetched, held, standings, ahead_of_someone>>
nvars    == <<asking, up, mine, rows, baseline, compared, exit, heard>>
vars     == <<pc, rvars, nvars>>

Rows    == [Repos -> SUBSET Heads]
ASSUME ReconcileAssumption == Asks \subseteq 1..MaxRuns /\ Past \subseteq Rows /\ Elsewhere \in Rows
Unknown == {}  \* a record that could not be read; one that was is {f}, f in Rows
NoRows  == [r \in Repos |-> {}]

NoStanding == "none"

(* Mutant: what git could not read gives way to what another row says.     *)
Severity_LastlyUnasked ==
  [NothingToCompare |-> 0, NothingSaysOtherwise |-> 1,
   CouldNotAsk |-> 2, ArchiveIsAheadOfAStaleRecord |-> 3, ArchiveIsAhead |-> 4,
   PeerHoldsOther |-> 5]

Severity == [NothingToCompare |-> 0, NothingSaysOtherwise |-> 1,
             ArchiveIsAheadOfAStaleRecord |-> 2, ArchiveIsAhead |-> 3,
             CouldNotAsk |-> 4, PeerHoldsOther |-> 5]
Standing == DOMAIN Severity

TypeOK ==
  /\ pc \in {"idle", "repos", "compare", "starting", "fetching", "waiting", "comparing",
             "stopping", "report", "reported"}
  /\ RepositoriesTypeOK
  /\ asking \in BOOLEAN /\ up \in BOOLEAN /\ mine \in BOOLEAN
  /\ rows \in Rows /\ heard \in Rows
  /\ baseline \in {Unknown} \cup {{f} : f \in Rows} /\ held \in {Unknown} \cup {{f} : f \in Rows}
  /\ fetched \subseteq Repos /\ ahead_of_someone \subseteq Repos
  /\ standings \in [Repos -> Standing \cup {NoStanding}]
  /\ exit \in {0, 3}

Init ==
  /\ RepositoriesInit
  /\ asking = TRUE /\ up = FALSE /\ mine = FALSE
  /\ rows \in Past /\ baseline = Unknown /\ heard = NoRows
  /\ fetched = {} /\ held = Unknown /\ ahead_of_someone = {}
  /\ standings = [r \in Repos |-> NoStanding] /\ exit = 0
----------------------------------------------------------------------------
Listening == {"starting", "fetching", "waiting"}

(* Other nodes.  Each announces along the chain, so what the record holds  *)
(* gains a head, in the place of an older one or beside it.  What it holds *)
(* of a repository that is shared with nobody is never read, nor what      *)
(* comes after a run's second reading; what came before the first is Past. *)
Hear(r, h, older) ==
  /\ up /\ pc \in Listening /\ ~manifest[r].alone /\ h \in Elsewhere[r] \ rows[r]
  /\ older \subseteq {k \in rows[r] : k < h} /\ Cardinality(older) < 2
  /\ rows'  = [rows EXCEPT ![r] = (@ \ older) \cup {h}]
  /\ heard' = [heard EXCEPT ![r] = @ \cup {h}]
  /\ UNCHANGED <<pc, rvars, asking, up, mine, baseline, compared, exit>>

(* Somebody starts or stops the node, or one that was slow to start is up. *)
NodeChanges ==
  /\ pc \in {"idle", "compare", "reported"} \cup Listening /\ up' = ~up
  /\ UNCHANGED <<pc, rvars, asking, mine, rows, baseline, compared, exit, heard>>
----------------------------------------------------------------------------
nothing_compared ==
  [r \in Repos |-> IF r \notin restored THEN NoStanding
                   ELSE IF manifest[r].alone THEN "NothingToCompare" ELSE "CouldNotAsk"]

(* A run that compares nothing: it was told not to, nothing came back, or  *)
(* `rad` is not there.                                                     *)
CompareNothing(declined) ==
  /\ pc = "compare" /\ pc' = "report"
  /\ asking' = ~declined
  /\ standings' = nothing_compared
  /\ UNCHANGED <<rvars, up, mine, rows, baseline, fetched, held, ahead_of_someone, exit, heard>>

(* Mutant: a record that cannot be read is taken for one without a row.    *)
ReadBaseline_EmptyIfUnread(readable) ==
  /\ pc = "compare" /\ runs \in Asks /\ restored # {} /\ pc' = "starting"
  /\ baseline' = IF readable THEN {rows} ELSE {NoRows}
  /\ heard' = NoRows
  /\ UNCHANGED <<rvars, asking, up, mine, rows, compared, exit>>

(* The home's record, read before the node can write to it.                *)
ReadBaseline(readable) ==
  /\ pc = "compare" /\ runs \in Asks /\ restored # {} /\ pc' = "starting"
  /\ baseline' = IF readable THEN {rows} ELSE Unknown
  /\ heard' = NoRows
  /\ UNCHANGED <<rvars, asking, up, mine, rows, compared, exit>>

(* Mutant: no deadline for a node that does not come up.                   *)
Start_Waits(comesUp) ==
  /\ pc = "starting" /\ up /\ pc' = "fetching" /\ todo' = restored
  /\ UNCHANGED <<manifest, runs, home, at, restored, dropped, record, stuck, before,
                 asking, up, mine, rows, baseline, compared, exit, heard>>

(* The node is started only if it is down; one that does not come up in    *)
(* time leaves nothing compared, and may come up later.                    *)
Start(comesUp) ==
  /\ pc = "starting"
  /\ mine' = (~up /\ comesUp) /\ up' = (up \/ comesUp)
  /\ pc' = IF up' THEN "fetching" ELSE "report"
  /\ standings' = IF up' THEN standings ELSE nothing_compared
  /\ todo' = IF up' THEN restored ELSE {}
  /\ UNCHANGED <<manifest, runs, home, at, restored, dropped, record, stuck, before,
                 asking, rows, baseline, fetched, held, ahead_of_someone, exit, heard>>

(* A repository no node can hold is not fetched, one whose recorded head   *)
(* names no oid is not compared, and a fetch may fail.                     *)
Fetch(r, ok) ==
  /\ pc = "fetching" /\ r \in todo /\ todo' = todo \ {r}
  /\ \/ /\ manifest[r].alone
        /\ standings' = [standings EXCEPT ![r] = "NothingToCompare"] /\ UNCHANGED fetched
     \/ /\ ~manifest[r].alone /\ manifest[r].head # BadHead /\ ok /\ up
        /\ fetched' = fetched \cup {r} /\ UNCHANGED standings
     \/ /\ ~manifest[r].alone /\ (manifest[r].head = BadHead \/ ~ok)
        /\ standings' = [standings EXCEPT ![r] = "CouldNotAsk"] /\ UNCHANGED fetched
  /\ UNCHANGED <<pc, manifest, runs, home, at, restored, dropped, record, stuck, before,
                 asking, up, mine, rows, baseline, held, ahead_of_someone, exit, heard>>

FetchesEnd ==
  /\ pc = "fetching" /\ todo = {}
  /\ pc' = IF fetched = {} THEN "stopping" ELSE "waiting"
  /\ UNCHANGED <<rvars, nvars>>

(* One read of the record when the window for gossip is over.  A table     *)
(* that drifted, or that spells repositories another way, is no answer.    *)
what_others_hold(readable) ==
  /\ pc = "waiting" /\ pc' = "comparing"
  /\ held' = IF readable THEN {rows} ELSE Unknown
  /\ UNCHANGED <<rvars, asking, up, mine, rows, baseline, fetched, standings,
                 ahead_of_someone, exit, heard>>
----------------------------------------------------------------------------
(* `evidence_against` and `Before`: rows that agree are left out, and only *)
(* those the baseline did not hold are news.                               *)
Evidence(r)   == (UNION {f[r] : f \in held}) \ {manifest[r].head}
IsNews(r, h)  == \E f \in baseline : h \notin f[r]

(* `git merge-base` fails alike for a head that is absent here and for a   *)
(* store it cannot read; the archived head is the control.                 *)
resolve_git_failure(r, h, deaf) ==
  IF h \notin deaf /\ h > history[r] /\ manifest[r].head \notin deaf THEN "no" ELSE "couldNotAsk"

(* Whether head h is reachable from the archived one, `deaf` being the     *)
(* heads git fails over.                                                   *)
is_ancestor(r, h, deaf) ==
  IF h \in deaf \/ h > history[r] THEN resolve_git_failure(r, h, deaf)
  ELSE IF h <= manifest[r].head THEN "yes" ELSE "no"

(* What one row says.                                                      *)
Reading(r, h, deaf) ==
  LET answer == is_ancestor(r, h, deaf) IN
  IF answer = "no" THEN "PeerHoldsOther"
  ELSE IF answer = "couldNotAsk" THEN "CouldNotAsk"
  ELSE IF IsNews(r, h) THEN "ArchiveIsAhead" ELSE "ArchiveIsAheadOfAStaleRecord"

worse_of(S) == CHOOSE s \in S : \A t \in S : Severity[t] <= Severity[s]

classify(r, deaf) ==
  worse_of({"NothingSaysOtherwise"} \cup {Reading(r, h, deaf) : h \in Evidence(r)})

(* Signed refs of ours that another node holds and the archive has none.   *)
without_a_head_of_ours(r) ==
  IF UNION {f[r] : f \in held} # {} THEN "PeerHoldsOther" ELSE "NothingSaysOtherwise"

(* One repository; `lost` is a git that could not be run at all.           *)
CompareOne(r, deaf, lost) ==
  /\ pc = "comparing" /\ r \in fetched /\ fetched' = fetched \ {r}
  /\ standings' = [standings EXCEPT ![r] =
       IF held = Unknown THEN "CouldNotAsk"
       ELSE IF manifest[r].head = NoHead THEN without_a_head_of_ours(r)
       ELSE IF lost THEN "CouldNotAsk" ELSE classify(r, deaf)]
  /\ ahead_of_someone' = IF /\ held # Unknown /\ manifest[r].head # NoHead /\ ~lost
                            /\ \E h \in Evidence(r) : Reading(r, h, deaf) = "ArchiveIsAhead"
                         THEN ahead_of_someone \cup {r} ELSE ahead_of_someone
  /\ UNCHANGED <<pc, rvars, asking, up, mine, rows, baseline, held, exit, heard>>

CompareEnds ==
  /\ pc = "comparing" /\ fetched = {} /\ pc' = "stopping"
  /\ UNCHANGED <<rvars, nvars>>

(* The node this run started is stopped again; a refusal is a warning.     *)
Stop(stops) ==
  /\ pc = "stopping" /\ pc' = "report"
  /\ up' = (up /\ ~(mine /\ stops)) /\ mine' = FALSE
  /\ UNCHANGED <<rvars, asking, rows, baseline, compared, exit, heard>>
----------------------------------------------------------------------------
(* `Verdict::of`, the lists of the report.                                 *)
Of(s)       == {r \in Repos : standings[r] = s}
at_risk     == Of("PeerHoldsOther")
not_checked == Of("CouldNotAsk")

ahead == ahead_of_someone \ at_risk

nothing_was_reported_otherwise ==
  /\ at_risk = {} /\ not_checked = {}
  /\ \E r \in Repos : standings[r] \in {"NothingSaysOtherwise", "ArchiveIsAhead",
                                        "ArchiveIsAheadOfAStaleRecord"}

(* Mutant: what could not be asked costs the exit code nothing.            *)
ExitCode_Unchecked(policies_missed) ==
  IF at_risk = {} /\ dropped = {} /\ ~policies_missed THEN 0 ELSE 3

ExitCode(policies_missed) ==
  IF /\ at_risk = {} /\ dropped = {} /\ ~policies_missed
     /\ ~asking \/ not_checked = {}
  THEN 0 ELSE 3

Report(policies_missed) ==
  /\ pc = "report" /\ pc' = "reported" /\ exit' = ExitCode(policies_missed)
  /\ UNCHANGED <<rvars, asking, up, mine, rows, baseline, compared, heard>>

CompareStep ==
  \/ \E b \in BOOLEAN : \/ CompareNothing(b) \/ ReadBaseline(b) \/ Start(b)
                        \/ what_others_hold(b) \/ Stop(b) \/ Report(b)
  \/ \E r \in Repos, ok \in BOOLEAN : Fetch(r, ok)
  \/ FetchesEnd \/ CompareEnds
  \/ \E r \in Repos, deaf \in SUBSET Heads, lost \in BOOLEAN : CompareOne(r, deaf, lost)

Forget ==
  /\ asking' = TRUE /\ exit' = 0 /\ mine' = FALSE /\ baseline' = Unknown /\ heard' = NoRows
  /\ fetched' = {} /\ held' = Unknown /\ ahead_of_someone' = {}
  /\ standings' = [r \in Repos |-> NoStanding]

(* No restore begins unless the node is known to be down.                  *)
Again(force) == ~up /\ Begin(force) /\ Forget /\ UNCHANGED <<up, rows>>
Restoring    == RestoreStep /\ UNCHANGED nvars
Kill         == Killed /\ Forget /\ UNCHANGED <<up, rows>>

Next ==
  \/ \E force \in BOOLEAN : Again(force)
  \/ Restoring \/ CompareStep \/ Kill \/ NodeChanges
  \/ \E r \in Repos, h \in Heads : \E older \in SUBSET rows[r] : Hear(r, h, older)

(* A run makes its next step; nobody need announce anything, and nobody    *)
(* need run a restore.                                                     *)
Spec == Init /\ [][Next]_vars /\ WF_vars(Restoring \/ CompareStep)
----------------------------------------------------------------------------
Reported == pc = "reported"
Beyond(r) == {h \in UNION {f[r] : f \in held} : h > manifest[r].head}

(* What a run's place says of its lists: every carried repository is on    *)
(* one, every repository is still to be compared or answered for, with a   *)
(* standing that hides no head beyond the archive's, and a clean exit has  *)
(* looked at all of it.                                                    *)
Comparing == {"fetching", "waiting", "comparing"}
Answered(r) ==
  \/ standings[r] = NoStanding /\ r \notin restored
  \/ standings[r] = "NothingToCompare" /\ manifest[r].alone
  \/ standings[r] = "CouldNotAsk"
  \/ /\ held # Unknown /\ standings[r] \in Standing \ {"NothingToCompare"}
     /\ Beyond(r) # {} => standings[r] = "PeerHoldsOther"
AccountInv ==
  /\ pc = "repos" => Carried \subseteq todo \cup at.repo \cup restored \cup dropped
  /\ pc \notin {"idle", "repos"} => Carried \subseteq restored \cup dropped
WordInv ==
  /\ pc \notin Comparing => fetched = {}
  /\ pc \in {"repos", "compare", "starting", "fetching", "waiting"} => held = Unknown
  /\ pc \in {"repos", "compare", "starting"} => standings = [r \in Repos |-> NoStanding]
  /\ pc \in Comparing \cup {"stopping", "report", "reported"} =>
       \A r \in Repos : \/ Answered(r)
                        \/ r \in fetched
                        \/ pc = "fetching" /\ r \in todo
  /\ Reported /\ exit = 0 =>
       at_risk = {} /\ dropped = {} /\ (asking => not_checked = {})
ReconcileInv == StoreInv /\ AccountInv /\ WordInv

(* What the record gained since the run first read it was heard since, and *)
(* each repository taken to be ahead was set beside a head so heard.       *)
FreshInv ==
  /\ pc \in {"repos", "compare"} => ahead_of_someone = {}
  /\ \A r \in Repos : \A f \in baseline :
       \A g \in held \cup {rows} : g[r] \ f[r] \subseteq heard[r]
  /\ \A r \in ahead_of_someone : \E h \in heard[r] : h < manifest[r].head

(* A repository of which the record, when it was read, held a head beyond  *)
(* the archive's is never passed over: it is said to be at risk, or that   *)
(* it could not be checked, and the run neither exits 0 nor says that      *)
(* nothing was reported.  One that git could not read may all the same be  *)
(* among those to announce (AnnouncesNoFork).                              *)
ForksAreNamed ==
  Reported /\ asking /\ held # Unknown =>
    \A r \in Repos : standings[r] \in Standing \ {"NothingToCompare"} /\ Beyond(r) # {} =>
      /\ r \in at_risk \cup not_checked
      /\ ~nothing_was_reported_otherwise /\ exit = 3

(* The user is told to announce only work that some node has said, since   *)
(* the run looked at the record, it does not have: an older row may be as  *)
(* stale as the archive.                                                   *)
AheadOnFreshWord ==
  Reported => \A r \in ahead : \E h \in heard[r] : h < manifest[r].head

(* Exit code 0 of a run that meant to compare: everything the archive      *)
(* carries is back, and every repository another node can hold was put to  *)
(* the network and answered for, by a record without a head beyond it.     *)
CleanExitIsEarned ==
  Reported /\ exit = 0 =>
    /\ Carried \subseteq Whole
    /\ asking => \A r \in Carried : ~manifest[r].alone =>
                   held # Unknown /\ Beyond(r) = {}

(* What the report says of a repository at risk: a node announced a head   *)
(* that the restored copy lacks.  It does not hold of a repository that    *)
(* moved on between the reading of its refs and its bundle.                *)
AtRiskIsMissing ==
  Reported => \A r \in at_risk : \E f \in held : \E h \in f[r] : h > manifest[r].bundled

(* What the list to announce is said to be: work no reporting node has.    *)
NobodyElseHasIt == Reported => \A r \in ahead : \A f \in held : manifest[r].head \notin f[r]

(* No repository is announced over a fork, not even one that git could not *)
(* read.                                                                   *)
AnnouncesNoFork == Reported => \A r \in ahead : Beyond(r) = {}

(* A run that begins ends, in its report or by a kill.                     *)
RunsEnd == pc = "repos" ~> pc \in {"idle", "reported"}
=============================================================================
