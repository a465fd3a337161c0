---------------------------- MODULE Passphrases ----------------------------
(***************************************************************************)
(* Where a passphrase comes from and what an archive is sealed with: the   *)
(* file a flag names, else the variable, else the person at the terminal,  *)
(* and never an empty one.  Used by Sealing, which opens the archives      *)
(* again, and by Schedule, whose runs have nobody to ask.                  *)
(*                                                                         *)
(* Source: `read_passphrase` of src/crypt.rs, `ask_encryption` of          *)
(* src/cmd/backup/mod.rs.  A passphrase is a string; what a run has at     *)
(* hand is [file, variable, typed], the last one empty when nobody is      *)
(* there.                                                                  *)
(***************************************************************************)
EXTENDS Naturals, Sequences

Unset == "unset"           \* no flag, no variable
Unreadable == "unreadable" \* the file a flag names does not read
Refused == "refused"

(* Mutant: what is set is taken, empty or not.                             *)
refuse_if_empty_Not(p) == p

refuse_if_empty(p) == IF p = "" THEN Refused ELSE p

typed_agrees(typed, purpose) ==
  typed # <<>> /\ (purpose = "Sealing" => typed[1] = typed[2])

read_passphrase(hand, purpose) ==
  CASE hand.file = Unreadable -> Refused
    [] hand.file \notin {Unset, Unreadable} -> refuse_if_empty(hand.file)
    [] hand.file = Unset /\ hand.variable # Unset -> refuse_if_empty(hand.variable)
    [] hand.file = Unset /\ hand.variable = Unset ->
         IF typed_agrees(hand.typed, purpose) THEN refuse_if_empty(hand.typed[1]) ELSE Refused

(* `asked` is [plaintext, recipients].  The seal is the mode, and what     *)
(* opens it again.                                                         *)
Seal(by, secret, to) == [by |-> by, secret |-> secret, to |-> to]

parse_recipients(specs, keys) ==
  Seal(IF \A i \in DOMAIN specs : specs[i] \in keys THEN "recipients" ELSE Refused, Refused, specs)

ask_encryption(asked, hand, keys) ==
  IF asked.plaintext THEN Seal("none", Refused, <<>>)
  ELSE IF asked.recipients # <<>> THEN parse_recipients(asked.recipients, keys)
  ELSE LET p == read_passphrase(hand, "Sealing")
       IN  Seal(IF p = Refused THEN Refused ELSE "passphrase", p, <<>>)
=============================================================================
