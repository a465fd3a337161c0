---------------------------- MODULE NodeControl ----------------------------
(***************************************************************************)
(* The one node of a Radicle home and the processes that ask it to stop    *)
(* and start: `rad backup --stop-node`, which wants storage at rest while  *)
(* it copies, and `rad backup restore`, which must not write under a node  *)
(* and then needs one to compare with the network.                         *)
(*                                                                         *)
(* Source: src/cmd/backup/node.rs, `NodeState` and `probe_node_state` of   *)
(* src/home.rs, the node in `run` of src/cmd/backup/mod.rs, and the probes *)
(* of `run`, `install`, `reconcile` and `wait_for_node` in                 *)
(* src/cmd/restore.rs.  The node, `rad node stop` and `rad node start` are *)
(* external: a stop or a start that exits 0 has been accepted and takes    *)
(* effect later, one that does not has changed nothing.                    *)
(***************************************************************************)
EXTENDS Naturals

CONSTANTS Backups,    \* `rad backup` processes
          Restores,   \* `rad backup restore` processes
          StopNode,   \* the backups given `--stop-node`
          ByHand      \* whether the user may start the node meanwhile

Procs == Backups \cup Restores

ASSUME ProcessesAssumption ==
  /\ Backups \cap Restores = {} /\ StopNode \subseteq Backups
  /\ ByHand \in BOOLEAN

VARIABLES
  stage,     \* where each process is
  node,      \* the node
  blind,     \* why the control socket cannot be asked, if it cannot
  doubt,     \* backups whose first probe got neither answer
  running,   \* backups that took the node for running: the manifest says so
  accepted,  \* backups whose `rad node stop` exited 0
  owes,      \* backups that will start the node: `was_stopped_by_backup`
  started,   \* restores that started the node: `started_here`
  launched,  \* history: restores whose `rad node start` exited 0
  reported,  \* processes that told the user the node is not as they found it
  crossed,   \* history: processes the node was started or stopped under by another
  late       \* history: restores that somebody started it for after their last probe

flags    == <<doubt, running, accepted, owes, started, launched>>
seen     == <<crossed, late>>
nodeVars == <<stage, node, blind, flags, reported, seen>>

Ended == {"ended", "dead"}

NodeTypeOK ==
  /\ stage \in [Procs -> {"idle", "asking", "polling", "copying", "leaving",
                          "unpacking", "rechecking", "confirming", "installing",
                          "reconciling", "starting", "waiting", "comparing"} \cup Ended]
  /\ node \in {"up", "stopping", "down", "starting"}
  /\ blind \in {"no", "socket", "home"}
  /\ doubt \subseteq Backups /\ running \subseteq Backups
  /\ accepted \subseteq Backups /\ owes \subseteq Backups
  /\ started \subseteq Restores /\ launched \subseteq Restores /\ reported \subseteq Procs
  /\ crossed \subseteq Procs /\ late \subseteq Restores

NodeInit ==
  /\ stage = [p \in Procs |-> "idle"]
  /\ node \in {"up", "down"} /\ blind \in {"no", "socket", "home"}
  /\ doubt = {} /\ running = {} /\ accepted = {} /\ owes = {}
  /\ started = {} /\ launched = {} /\ reported = {} /\ crossed = {} /\ late = {}

Advance(p, from, to) == stage[p] = from /\ stage' = [stage EXCEPT ![p] = to]

----------------------------------------------------------------------------
(* The node.                                                               *)

(* It answers on its socket until it has finished serving, and from the    *)
(* moment it is up, which is after `rad node start` has returned.          *)
Answers == node \in {"up", "stopping"}

(* A socket this user may not open can only be told from none at all when  *)
(* it is there; in a node directory closed to this user not even that.     *)
probe_node_state ==
  IF blind = "home" \/ (blind = "socket" /\ Answers) THEN "Unknown"
  ELSE IF Answers THEN "Running" ELSE "Stopped"

(* Mutant: a doubt folded into stopped.                                    *)
is_stopped_UnlessRunning == probe_node_state # "Running"

is_stopped == probe_node_state = "Stopped"

AtWork == {p \in Procs : stage[p] \notin Ended \cup {"idle"}}

(* Restores that will not ask about the node again before they have written. *)
Writing == {r \in Restores : stage[r] \in {"confirming", "installing"}}

(* Asked by `by`; the others at work have it done under them.              *)
stop_node(ok, by) ==
  /\ UNCHANGED late
  /\ IF ok /\ node = "up" THEN node' = "stopping" /\ crossed' = crossed \cup (AtWork \ by)
     ELSE UNCHANGED <<node, crossed>>

start_node(ok, by) ==
  IF ok /\ node = "down"
  THEN /\ node' = "starting" /\ crossed' = crossed \cup (AtWork \ by)
       /\ late' = late \cup (Writing \ by)
  ELSE UNCHANGED <<node, seen>>

Stops  == node = "stopping" /\ node' = "down" /\ UNCHANGED <<stage, blind, flags, reported, seen>>
Starts == node = "starting" /\ node' = "up"   /\ UNCHANGED <<stage, blind, flags, reported, seen>>

UserStarts ==
  /\ ByHand /\ node = "down" /\ start_node(TRUE, {})
  /\ UNCHANGED <<stage, blind, flags, reported>>

----------------------------------------------------------------------------
(* A backup: `quiesce`, the copy, and the guard's restart.                 *)

(* The first probe.  A doubt is treated as running; without `--stop-node`  *)
(* a running node only costs a line of output.                             *)
Probe(b) ==
  /\ Advance(b, "idle", IF ~is_stopped /\ b \in StopNode THEN "asking" ELSE "copying")
  /\ running' = IF is_stopped THEN running ELSE running \cup {b}
  /\ doubt' = IF probe_node_state = "Unknown" THEN doubt \cup {b} ELSE doubt
  /\ crossed' = IF node = "starting" THEN crossed \cup {b} ELSE crossed
  /\ UNCHANGED <<node, blind, accepted, owes, started, launched, reported, late>>

(* `rad` is missing or cannot be run: refused, nothing was asked.          *)
CannotAsk(b) ==
  /\ Advance(b, "asking", "ended")
  /\ UNCHANGED <<node, blind, flags, reported, seen>>

(* The guard exists from here on, whatever `rad node stop` exits with.     *)
AskStop(b, ok) ==
  /\ Advance(b, "asking", "polling")
  /\ stop_node(ok, {b})
  /\ accepted' = IF ok THEN accepted \cup {b} ELSE accepted
  /\ owes' = owes \cup {b}
  /\ UNCHANGED <<blind, doubt, running, started, launched, reported>>

SeesItStopped(b) ==
  /\ is_stopped /\ Advance(b, "polling", "copying")
  /\ UNCHANGED <<node, blind, flags, reported, seen>>

owes_a_restart(b) == b \in accepted /\ b \in doubt

(* The deadline passes after a probe that did not say stopped; the node    *)
(* may have gone down since that probe.  The run is refused.               *)
DeadlinePasses(b) ==
  /\ ~is_stopped /\ Advance(b, "polling", "leaving")
  /\ owes' = IF owes_a_restart(b) THEN owes ELSE owes \ {b}
  /\ UNCHANGED <<node, blind, doubt, running, accepted, started, launched, reported, seen>>

(* The copy is over: the archive committed, an error on its way out, or a  *)
(* dry run's report.                                                       *)
CopyEnds(b) ==
  /\ Advance(b, "copying", "leaving")
  /\ UNCHANGED <<node, blind, flags, reported, seen>>

(* Mutant: the flag is read after it was cleared.                          *)
Restart_ClearedFirst(b, ok) ==
  /\ Advance(b, "leaving", "ended")
  /\ owes' = owes \ {b}
  /\ UNCHANGED <<node, blind, doubt, running, accepted, started, launched, reported, seen>>

(* `NodeGuard::restart`, called or dropped into.                           *)
Restart(b, ok) ==
  /\ Advance(b, "leaving", "ended")
  /\ owes' = owes \ {b}
  /\ start_node(ok /\ b \in owes, {b})
  /\ reported' = IF b \in owes /\ ~ok THEN reported \cup {b} ELSE reported
  /\ UNCHANGED <<blind, doubt, running, accepted, started, launched>>

----------------------------------------------------------------------------
(* A restore.                                                              *)

(* `run` refuses unless the node is proven stopped, before the unpacking   *)
(* and, in `install`, once more after it.                                  *)
Check(r) ==
  /\ Advance(r, "idle", IF is_stopped THEN "unpacking" ELSE "ended")
  /\ UNCHANGED <<node, blind, flags, reported, seen>>

(* A bad archive is refused before anything is written.                    *)
UnpackFirst(r, good) ==
  /\ Advance(r, "unpacking", IF good THEN "rechecking" ELSE "ended")
  /\ UNCHANGED <<node, blind, flags, reported, seen>>

(* Mutant: the probe before the unpacking is the only one.                 *)
Recheck_Skipped(r) ==
  /\ Advance(r, "rechecking", "confirming")
  /\ UNCHANGED <<node, blind, flags, reported, seen>>

(* The last probe.  A node somebody has just started does not answer yet.  *)
Recheck(r) ==
  /\ Advance(r, "rechecking", IF is_stopped THEN "confirming" ELSE "ended")
  /\ late' = IF node = "starting" THEN late \cup {r} ELSE late
  /\ UNCHANGED <<node, blind, flags, reported, crossed>>

(* `retire_any_displaced_key`: the user is asked, if another identity's    *)
(* key is in the way, and takes their time; the first write follows.       *)
Confirm(r, yes) ==
  /\ Advance(r, "confirming", IF yes THEN "installing" ELSE "ended")
  /\ UNCHANGED <<node, blind, flags, reported, seen>>

(* Keys, databases and repositories.  An error, `--no-reconcile`, a        *)
(* missing `rad` or no repository at all ends the restore here.            *)
Installed(r, reconciles) ==
  /\ Advance(r, "installing", IF reconciles THEN "reconciling" ELSE "ended")
  /\ UNCHANGED <<node, blind, flags, reported, seen>>

(* `reconcile` starts the node only when it is known to be down.           *)
Reconcile(r) ==
  /\ Advance(r, "reconciling", IF is_stopped THEN "starting" ELSE "comparing")
  /\ UNCHANGED <<node, blind, flags, reported, seen>>

Start(r, ok) ==
  /\ Advance(r, "starting", IF ok THEN "waiting" ELSE "ended")
  /\ start_node(ok, {r})
  /\ launched' = IF ok THEN launched \cup {r} ELSE launched
  /\ UNCHANGED <<blind, doubt, running, accepted, owes, started, reported>>

(* `wait_for_node` answered, ...                                           *)
SeesItRunning(r) ==
  /\ probe_node_state = "Running" /\ Advance(r, "waiting", "comparing")
  /\ started' = started \cup {r}
  /\ UNCHANGED <<node, blind, doubt, running, accepted, owes, launched, reported, seen>>

(* ... or ran out of time, and `reconcile` returns: "the node would not    *)
(* start, so nothing was compared with the network".                       *)
WaitTimesOut(r) ==
  /\ Advance(r, "waiting", "ended")
  /\ UNCHANGED <<node, blind, flags, reported, seen>>

(* Mutant: `started_here` is lost.                                         *)
CompareEnds_LeavesIt(r, ok) ==
  /\ Advance(r, "comparing", "ended")
  /\ UNCHANGED <<node, blind, flags, reported, seen>>

CompareEnds(r, ok) ==
  /\ Advance(r, "comparing", "ended")
  /\ stop_node(ok /\ r \in started, {r})
  /\ reported' = IF r \in started /\ ~ok THEN reported \cup {r} ELSE reported
  /\ UNCHANGED <<blind, flags>>

----------------------------------------------------------------------------

(* A signal; no Drop runs.                                                 *)
Signalled(p) ==
  /\ stage[p] \notin Ended \cup {"idle"}
  /\ stage' = [stage EXCEPT ![p] = "dead"]
  /\ UNCHANGED <<node, blind, flags, reported, seen>>

BackupStep(b) ==
  \/ Probe(b) \/ CannotAsk(b) \/ (\E ok \in BOOLEAN : AskStop(b, ok))
  \/ SeesItStopped(b) \/ DeadlinePasses(b) \/ CopyEnds(b)
  \/ \E ok \in BOOLEAN : Restart(b, ok)

RestoreStep(r) ==
  \/ Check(r) \/ Recheck(r) \/ Reconcile(r) \/ SeesItRunning(r) \/ WaitTimesOut(r)
  \/ \E ok \in BOOLEAN :
        UnpackFirst(r, ok) \/ Installed(r, ok) \/ Start(r, ok) \/ CompareEnds(r, ok)

NodeNext ==
  \/ \E b \in Backups : BackupStep(b)
  \/ \E r \in Restores : RestoreStep(r) \/ \E yes \in BOOLEAN : Confirm(r, yes)
  \/ \E p \in Procs : Signalled(p)
  \/ Stops \/ Starts \/ UserStarts

(* Every wait of a process has a deadline, so a process that is not killed *)
(* goes on; a node that accepted a stop or a start gets there.  Nobody has *)
(* to answer the question of a restore.                                    *)
Fairness ==
  /\ \A b \in Backups : WF_nodeVars(BackupStep(b))
  /\ \A r \in Restores : WF_nodeVars(RestoreStep(r))
  /\ WF_nodeVars(Stops) /\ WF_nodeVars(Starts)

NodeSpec == NodeInit /\ [][NodeNext]_nodeVars /\ Fairness

----------------------------------------------------------------------------

(* `--stop-node` makes "an exact copy": no node serves the storage while a *)
(* run that was given it copies, unless somebody else sets the node going  *)
(* in the middle of that run, or just before it.                           *)
ExactCopy ==
  \A b \in StopNode : stage[b] = "copying" => node = "down" \/ b \in crossed

(* Why: a node that is coming up was started by the run on its way out, or *)
(* by another.  The rest of the backups neither stop nor start a node.     *)
ExactCopyInv ==
  /\ \A b \in Backups : stage[b] \in {"asking", "polling"} => b \in StopNode
  /\ \A b \in Backups : b \in owes => b \in StopNode
  /\ \A b \in StopNode : node = "starting" /\ b \in AtWork => b \in crossed
  /\ ExactCopy

(* src/README.md: "Use --stop-node for an exact copy", whoever else is about. *)
ExactCopyWhoeverElse == \A b \in StopNode : stage[b] = "copying" => node = "down"

(* Once a run has seen the node it stopped go down, every way out of the   *)
(* run but a signal brings the node up again, or says that it is still     *)
(* stopped (the guard's Drop).                                             *)
StoppedNodeComesBack ==
  \A b \in StopNode :
    (stage[b] = "copying" /\ b \in owes /\ b \notin crossed) ~>
      (node = "up" \/ b \in reported \/ stage[b] = "dead")

(* "The guard exists from the moment the stop is asked, because           *)
(* `rad node stop` can succeed while the socket outlives the deadline":    *)
(* when every run has ended by itself and none reported a failed restart,  *)
(* a node that accepted a stop is not left down.                           *)
EveryWayOutRestarts ==
  ((\A p \in Procs : stage[p] = "ended") /\ accepted # {} /\ reported = {}) => node # "down"

(* A restore writes into a home whose node is down, however the probe was  *)
(* denied its answer and whoever started a node while the archive was      *)
(* unpacking, as long as nobody starts one after its second probe: while   *)
(* the user is asked about the key that is there, or while it writes.      *)
InstallsOverNoNode ==
  \A r \in Restores : stage[r] = "installing" => node = "down" \/ r \in late

(* Why: what the second probe saw is still so when the question has been   *)
(* answered, or a start in between is on record.                           *)
InstallsOverNoNodeInv ==
  \A r \in Writing : node = "down" \/ r \in late

(* "A node writing to the home while its databases are copied over         *)
(* corrupts both", whoever started it and when.                            *)
NoNodeUnderAnInstall ==
  \A r \in Restores : stage[r] = "installing" => ~Answers

(* A restore takes the node it started for its comparison down again, or   *)
(* says that it would not stop.                                            *)
StartedNodeGoesDown ==
  \A r \in Restores :
    (stage[r] = "comparing" /\ r \in started /\ r \notin crossed) ~>
      (node = "down" \/ r \in reported \/ stage[r] = "dead")

(* "`restore` starts one if needed and stops it again" (README): when all  *)
(* processes have ended by themselves and no restore reported a node that  *)
(* would not stop, the node a restore started is not left running.         *)
RestoreLeavesItDown ==
  ((\A p \in Procs : stage[p] = "ended") /\ launched # {} /\ reported = {}) => node # "up"

============================================================================
