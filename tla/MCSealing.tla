----------------------------- MODULE MCSealing -----------------------------
(***************************************************************************)
(* Six key files: two locked under one passphrase and another, one free,   *)
(* one of a type age cannot use once unlocked, one it cannot read, and a   *)
(* public half.                                                            *)
(***************************************************************************)
EXTENDS Sealing

CONSTANTS free, locked1, locked2, ecdsa, pem, public_half

MCKind == [k \in KeyFiles |->
  CASE k = free -> "age" [] k \in {locked1, locked2} -> "locked" [] k = ecdsa -> "foreign"
    [] k = pem -> "unsupported" [] k = public_half -> "unparsed"]
MCLock == [k \in KeyFiles |-> IF k = locked2 THEN "q" ELSE "p"]

Asked(plaintext, recipients) == [plaintext |-> plaintext, recipients |-> recipients]
MCAsks == {Asked(TRUE, <<>>), Asked(FALSE, <<>>), Asked(FALSE, <<public_half>>)}
  \cup {Asked(FALSE, to) : to \in {<<free>>, <<locked1>>, <<pem>>, <<locked2, free>>,
                                   <<locked1, locked2>>}}

Hand(file, variable, typed) == [file |-> file, variable |-> variable, typed |-> typed]
MCHands == {Hand(Unset, Unset, typed) : typed \in {<<>>, <<"p", "p">>, <<"q", "p">>, <<"", "">>}}
  \cup {Hand(Unset, v, <<"p", "p">>) : v \in {"", "q"}}
  \cup {Hand(f, Unset, <<"q", "q">>) : f \in {"", "p", Unreadable}}

MCOffers == {<<>>} \cup {<<k>> : k \in KeyFiles} \cup {<<k, l>> : k, l \in KeyFiles}
  \cup {<<locked1, locked2, free>>, <<pem, locked2, locked1>>, <<locked2, ecdsa, free>>,
        <<locked1, locked2, locked1>>, <<free, locked2, public_half>>}
=============================================================================
