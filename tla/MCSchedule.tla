---------------------------- MODULE MCSchedule -----------------------------
(***************************************************************************)
(* Ways to ask: to a passphrase file with a retention, to whatever systemd *)
(* holds and the shell exports, to a key from relative paths, in the clear *)
(* on another home; three of them mistaken.                                *)
(***************************************************************************)
EXTENDS Schedule

Ask(home, output, keep, file, recipients, every) ==
  [home |-> home, output |-> output, keep |-> keep, file |-> file, exported |-> Unset,
   rad |-> "/bin/rad", plaintext |-> FALSE, recipients |-> recipients, every |-> every]

MCAsks == {
  Ask("default", "/mnt/backups", 7, "/passphrase", <<>>, "daily"),
  [Ask("default", "/mnt/backups", NoKeep, Unset, <<>>, "weekly") EXCEPT !.exported = "p"],
  Ask("other", "backups", NoKeep, Unset, <<"age1">>, "daily"),
  Ask("default", "/mnt/backups", 7, Unset, <<"nonsense">>, "daily"),
  Ask("default", "/mnt/backups", 0, "passphrase", <<>>, "daily"),
  [Ask("/other", "/mnt/backups", 7, "passphrase", <<>>, "never") EXCEPT !.rad = "rad"],
  [Ask("/other", "/mnt/other", NoKeep, Unset, <<>>, "daily") EXCEPT !.plaintext = TRUE]}
=============================================================================
