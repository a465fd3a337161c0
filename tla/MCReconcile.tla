---------------------------- MODULE MCReconcile ----------------------------
EXTENDS Reconcile, TLC

CONSTANTS r1, r2

Says(head, bundled, alone) ==
  [bundle |-> TRUE, head |-> head, bundled |-> bundled, alone |-> alone]

(* Beside a repository with signed refs: one that moved on while it was    *)
(* bundled, one without signed refs of ours, a private one; and two of     *)
(* which one has a bad head.                                               *)
MCManifests ==
  {(r1 :> Says(2, 2, FALSE) @@ r2 :> Says(k[1], k[2], k[3])) :
     k \in {<<2, 3, FALSE>>, <<0, 1, FALSE>>, <<2, 2, TRUE>>, <<4, 2, FALSE>>}}

(* A sweep that works, and one that leaves the refs without what they name *)
(* (a kill leaves the other mixtures).                                     *)
MCLeftovers == {{}, {"directory", "refs"}}

MCCopies == {{}, {r1}}
MCPast == {(r1 :> s @@ r2 :> s) : s \in {{}, {1}}}
MCElsewhere == r1 :> {1, 2, 3} @@ r2 :> {3}
=============================================================================
