-------------------------- MODULE MCRestoreInstall --------------------------
(* Identities A and B with archives, H with none; homes a restore can find.*)
EXTENDS RestoreInstall, TLC

CONSTANTS A, B, H

MCIds == {A, B, H}

SymmetricRuns == Permutations(Runs)

MCArchives == {
  [id |-> A, has |-> {"config", "policies", "notifications", "node"}],
  [id |-> A, has |-> {"config"}],
  [id |-> B, has |-> {"config", "policies", "notifications"}] }

Whose(secret, pub, rest) ==
  [f \in Files |-> CASE f = "secret" -> secret [] f = "pub" -> pub [] OTHER -> rest]
NoLog  == [d \in Databases |-> None]
NoKept == [s \in Slots |-> None]

MCHomes == {
  [file |-> Whose(None, None, None), log |-> NoLog, kept |-> NoKept],
  [file |-> Whose(H, H, H), log |-> [NoLog EXCEPT !["policies"] = H], kept |-> NoKept],
  [file |-> Whose(H, None, H), log |-> NoLog, kept |-> NoKept],       \* no public half
  [file |-> Whose(None, H, H), log |-> NoLog, kept |-> [NoKept EXCEPT ![1] = H]],  \* moved
  [file |-> Whose(A, A, A), log |-> NoLog, kept |-> NoKept] }

=============================================================================
