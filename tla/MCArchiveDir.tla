---------------------------- MODULE MCArchiveDir ----------------------------
(* Small directories: processes, archives and settings are model values.   *)
EXTENDS ArchiveDir, TLC

Symmetry == Permutations(Runs) \cup Permutations(Prunes) \cup Permutations(Old)
              \cup Permutations(Settings)

============================================================================
