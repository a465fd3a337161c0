--------------------------- MODULE SealingProofs ---------------------------
(***************************************************************************)
(* What an opening says of keys and passphrases, and what a seal is worth, *)
(* for any key files in any order, any stanzas and any passphrases.        *)
(***************************************************************************)
EXTENDS Sealing, TLAPS

LEMMA RangeFacts ==
  /\ Range(<<>>) = {}
  /\ \A s \in Seq(KeyFiles) :
       /\ Range(s) \subseteq KeyFiles
       /\ \A i \in 1..Len(s) : s[i] \in Range(s)
       /\ \A e \in KeyFiles : Range(Append(s, e)) = Range(s) \cup {e}
       /\ s # <<>> => Head(s) \in Range(s) /\ Range(Tail(s)) \subseteq Range(s)
<1>1. Range(<<>>) = {}
  BY DEF Range
<1>2. ASSUME NEW s \in Seq(KeyFiles)
      PROVE  /\ Range(s) \subseteq KeyFiles
             /\ \A i \in 1..Len(s) : s[i] \in Range(s)
  BY DEF Range
<1>3. ASSUME NEW s \in Seq(KeyFiles), NEW e \in KeyFiles
      PROVE  Range(Append(s, e)) = Range(s) \cup {e}
  <2>1. /\ DOMAIN Append(s, e) = 1..Len(s) + 1 /\ DOMAIN s = 1..Len(s)
        /\ Append(s, e)[Len(s) + 1] = e
        /\ \A i \in 1..Len(s) : Append(s, e)[i] = s[i]
    OBVIOUS
  <2>2. Len(s) \in Nat
    OBVIOUS
  <2>3. \A x \in Range(Append(s, e)) : x \in Range(s) \cup {e}
    BY <2>1, <2>2 DEF Range
  <2>4. \A x \in Range(s) : x \in Range(Append(s, e))
    BY <2>1, <2>2 DEF Range
  <2>5. e \in Range(Append(s, e))
    BY <2>1, <2>2 DEF Range
  <2> QED
    BY <2>3, <2>4, <2>5
<1>4. ASSUME NEW s \in Seq(KeyFiles), s # <<>>
      PROVE  Head(s) \in Range(s) /\ Range(Tail(s)) \subseteq Range(s)
  <2>1. Len(s) \in Nat \ {0} /\ DOMAIN s = 1..Len(s) /\ Head(s) = s[1]
    BY <1>4
  <2>2. /\ DOMAIN Tail(s) = 1..Len(s) - 1
        /\ \A i \in 1..Len(s) - 1 : Tail(s)[i] = s[i + 1]
    BY <1>4, <2>1
  <2>3. Head(s) \in Range(s)
    BY <2>1 DEF Range
  <2>4. \A x \in Range(Tail(s)) : x \in Range(s)
    BY <2>1, <2>2 DEF Range
  <2> QED
    BY <2>3, <2>4
<1> QED
  BY <1>1, <1>2, <1>3, <1>4

(* A passphrase that was read is not empty, and one that a person sealed   *)
(* with was typed twice alike.                                             *)
LEMMA ReadWell ==
  ASSUME NEW hand, NEW purpose
  PROVE  LET p == read_passphrase(hand, purpose)
         IN  /\ p # ""
             /\ p # Refused /\ purpose = "Sealing" /\ asks_a_person(hand) => hand.typed[2] = p
<1> DEFINE p == read_passphrase(hand, purpose)
<1> SUFFICES /\ p # ""
             /\ p # Refused /\ purpose = "Sealing" /\ asks_a_person(hand) => hand.typed[2] = p
  OBVIOUS
<1>1. Refused # ""
  BY DEF Refused
<1>2. \A q : refuse_if_empty(q) # "" /\ (refuse_if_empty(q) # Refused => refuse_if_empty(q) = q)
  BY <1>1 DEF refuse_if_empty
<1>3. CASE hand.file = Unreadable
  <2>1. p = Refused
    BY <1>3 DEF read_passphrase, Unreadable, Unset
  <2> QED
    BY <1>1, <2>1
<1>4. CASE hand.file \notin {Unset, Unreadable}
  <2>1. p = refuse_if_empty(hand.file)
    BY <1>4 DEF read_passphrase, Unreadable, Unset
  <2> QED
    BY <1>2, <1>4, <2>1 DEF asks_a_person
<1>5. CASE hand.file = Unset /\ hand.variable # Unset
  <2>1. p = refuse_if_empty(hand.variable)
    BY <1>5 DEF read_passphrase, Unreadable, Unset
  <2> QED
    BY <1>2, <1>5, <2>1 DEF asks_a_person
<1>6. CASE hand.file = Unset /\ hand.variable = Unset
  <2>1. p = IF typed_agrees(hand.typed, purpose) THEN refuse_if_empty(hand.typed[1]) ELSE Refused
    BY <1>6 DEF read_passphrase, Unreadable, Unset
  <2>2. typed_agrees(hand.typed, purpose) /\ purpose = "Sealing" => hand.typed[2] = hand.typed[1]
    BY DEF typed_agrees
  <2> QED
    BY <1>1, <1>2, <2>1, <2>2
<1> QED
  BY <1>3, <1>4, <1>5, <1>6

(* What a seal is made of.                                                 *)
LEMMA SealWell ==
  ASSUME NEW asked \in Asks, NEW hand \in Hands,
         ask_encryption(asked, hand, Recipients).by # Refused
  PROVE  LET seal == ask_encryption(asked, hand, Recipients)
         IN  /\ seal.by \in {"none", "passphrase", "recipients"}
             /\ seal.secret \in {Refused} \cup {read_passphrase(h, "Sealing") : h \in Hands}
             /\ seal.to \in Seq(KeyFiles)
             /\ seal.by = "none" => asked.plaintext
             /\ seal.by = "passphrase" =>
                  seal.secret # "" /\ (asks_a_person(hand) => hand.typed[2] = seal.secret)
<1> DEFINE seal == ask_encryption(asked, hand, Recipients)
           p == read_passphrase(hand, "Sealing")
<1> SUFFICES /\ seal.by \in {"none", "passphrase", "recipients"}
             /\ seal.secret \in {Refused} \cup {read_passphrase(h, "Sealing") : h \in Hands}
             /\ seal.to \in Seq(KeyFiles)
             /\ seal.by = "none" => asked.plaintext
             /\ seal.by = "passphrase" =>
                  seal.secret # "" /\ (asks_a_person(hand) => hand.typed[2] = seal.secret)
  OBVIOUS
<1>1. \A by, secret, to : Seal(by, secret, to).by = by /\ Seal(by, secret, to).secret = secret
                          /\ Seal(by, secret, to).to = to
  BY DEF Seal
<1>2. asked.recipients \in Seq(KeyFiles) /\ <<>> \in Seq(KeyFiles)
  <2>1. asked \in [plaintext : BOOLEAN, recipients : Seq(KeyFiles)]
    BY SealingAssumption
  <2> QED
    BY <2>1
<1>3. CASE asked.plaintext
  <2>1. seal = Seal("none", Refused, <<>>)
    BY <1>3 DEF ask_encryption
  <2>2. seal.by = "none" /\ seal.secret = Refused /\ seal.to = <<>>
    BY <1>1, <2>1
  <2>3. "none" \in {"none", "passphrase", "recipients"} /\ "none" # "passphrase"
    OBVIOUS
  <2> HIDE DEF seal
  <2> QED
    BY <1>2, <1>3, <2>2, <2>3, Zenon
<1>4. CASE ~asked.plaintext /\ asked.recipients # <<>>
  <2>1. seal = parse_recipients(asked.recipients, Recipients)
    BY <1>4 DEF ask_encryption
  <2>2. \/ seal = Seal("recipients", Refused, asked.recipients)
        \/ seal = Seal(Refused, Refused, asked.recipients)
    BY <2>1 DEF parse_recipients
  <2>3. seal.by # Refused
    OBVIOUS
  <2>4. seal.by = "recipients" /\ seal.secret = Refused /\ seal.to = asked.recipients
    BY <1>1, <2>2, <2>3
  <2>5. /\ "recipients" \in {"none", "passphrase", "recipients"}
        /\ "recipients" # "passphrase" /\ "recipients" # "none"
    OBVIOUS
  <2> HIDE DEF seal
  <2> QED
    BY <1>2, <2>4, <2>5, Zenon
<1>5. CASE ~asked.plaintext /\ asked.recipients = <<>>
  <2>1. seal = Seal(IF p = Refused THEN Refused ELSE "passphrase", p, <<>>)
    BY <1>5 DEF ask_encryption
  <2>2. seal.by # Refused
    OBVIOUS
  <2>3. /\ p # ""
        /\ p # Refused /\ asks_a_person(hand) => hand.typed[2] = p
    BY ReadWell
  <2>4. p \in {read_passphrase(h, "Sealing") : h \in Hands}
    OBVIOUS
  <2> HIDE DEF p
  <2>5. p # Refused
    BY <1>1, <2>1, <2>2
  <2>6. seal.by = "passphrase" /\ seal.secret = p /\ seal.to = <<>>
    BY <1>1, <2>1, <2>5
  <2>7. "passphrase" \in {"none", "passphrase", "recipients"} /\ "passphrase" # "none"
    OBVIOUS
  <2> HIDE DEF seal
  <2> QED
    BY <1>2, <2>3, <2>4, <2>5, <2>6, <2>7, Zenon
<1> QED
  BY <1>3, <1>4, <1>5

LEMMA OutcomeIs ==
  ASSUME NEW o \in Outcomes
  PROVE  /\ Outcome(o).outcome = o /\ Outcome(o).locked = {}
         /\ Outcome(o) \in [outcome : Outcomes, culprit : SUBSET (KeyFiles \cup {Nobody}),
                            untried : SUBSET KeyFiles, locked : SUBSET KeyFiles]
BY DEF Outcome, Silence

(* Before the first key is tried, nothing is behind.                       *)
LEMMA Untried ==
  ASSUME at' = [key |-> 1, stanza |-> 1], answers' = Unasked, \A k \in KeyFiles : asks'[k] = 0
  PROVE  BehindInv' /\ AnswersInv' /\ AskedAtMostOnce'
<1>1. at'.key = 1 /\ at'.stanza = 1
  OBVIOUS
<1>2. 1..at'.key - 1 = {} /\ 1..at'.stanza - 1 = {}
  BY <1>1
<1>3. DOMAIN answers' = {}
  BY DEF Unasked
<1>4. BehindInv'
  BY <1>2 DEF BehindInv
<1>5. AnswersInv' /\ AskedAtMostOnce'
  BY <1>3 DEF AnswersInv, AskedAtMostOnce
<1> QED
  BY <1>4, <1>5

(* While nothing is said, nothing false is.                                *)
LEMMA Unsaid ==
  ASSUME said' = Silence, pc' # "said"
  PROVE  OutcomeInv' /\ NoKeyIsMisjudged' /\ CulpritFailed' /\ RightPassphraseIsNotCalledWrong'
BY DEF OutcomeInv, NoKeyIsMisjudged, CulpritFailed, RightPassphraseIsNotCalledWrong, Silence

(* What is not in question where no key was judged.                        *)
LEMMA SaidPlainly ==
  ASSUME NEW o \in Outcomes \ {"none opens it", "stayed locked", "not unlocked"},
         said' = Outcome(o) \/ \E k \in KeyFiles : said' = [Outcome(o) EXCEPT !.culprit = {k}]
  PROVE  /\ said'.outcome = o
         /\ said' \in [outcome : Outcomes, culprit : SUBSET (KeyFiles \cup {Nobody}),
                       untried : SUBSET KeyFiles, locked : SUBSET KeyFiles]
         /\ NoKeyIsMisjudged' /\ CulpritFailed'
<1>1. /\ said'.outcome = o
      /\ said' \in [outcome : Outcomes, culprit : SUBSET (KeyFiles \cup {Nobody}),
                    untried : SUBSET KeyFiles, locked : SUBSET KeyFiles]
  BY DEF Outcome, Silence
<1> QED
  BY <1>1 DEF NoKeyIsMisjudged, CulpritFailed

(* A new archive: everything else is at rest.                              *)
LEMMA CreateStep == ASSUME SealingInv, Create PROVE SealingInv'
<1>1. /\ pc = "idle" /\ pc' = pc /\ opening' = opening /\ said' = said /\ kvars' = kvars
      /\ opening = NoOpening /\ NoKeys /\ said = Silence
  BY DEF SealingInv, StagesInv, Create
<1>2. PICK asked \in Asks, hand \in Hands, work \in Works, sound \in BOOLEAN :
        LET seal == ask_encryption(asked, hand, Recipients)
        IN  /\ seal.by # Refused
            /\ archive' = [by |-> seal.by, secret |-> seal.secret, to |-> seal.to, work |-> work,
                           sound |-> sound, asked |-> asked, hand |-> hand]
  BY DEF Create
<1>3. /\ archive' \in ArchiveType
      /\ archive'.by = "none" => archive'.asked.plaintext
      /\ archive'.by = "passphrase" =>
           /\ archive'.secret # ""
           /\ asks_a_person(archive'.hand) => archive'.hand.typed[2] = archive'.secret
  <2> DEFINE seal == ask_encryption(asked, hand, Recipients)
  <2>1. /\ seal.by \in {"none", "passphrase", "recipients"}
        /\ seal.secret \in {Refused} \cup {read_passphrase(h, "Sealing") : h \in Hands}
        /\ seal.to \in Seq(KeyFiles)
        /\ seal.by = "none" => asked.plaintext
        /\ seal.by = "passphrase" =>
             seal.secret # "" /\ (asks_a_person(hand) => hand.typed[2] = seal.secret)
    BY <1>2, SealWell
  <2>2. archive' = [by |-> seal.by, secret |-> seal.secret, to |-> seal.to, work |-> work,
                    sound |-> sound, asked |-> asked, hand |-> hand]
    BY <1>2
  <2> HIDE DEF seal
  <2>3. /\ archive'.by = seal.by /\ archive'.secret = seal.secret
        /\ archive'.asked = asked /\ archive'.hand = hand
    BY <2>2
  <2>4. archive' \in ArchiveType
    BY <2>1, <2>2 DEF ArchiveType
  <2> QED
    BY <2>1, <2>3, <2>4, Zenon
<1>4. SealsShut'
  BY <1>3, Zenon DEF SealsShut
<1>5. TypeOK'
  <2>1. /\ offered' = offered /\ skipped' = skipped /\ at' = at /\ answers' = answers
        /\ last' = last /\ failed' = failed /\ asks' = asks
    BY <1>1 DEF kvars
  <2>2. TypeOK
    BY DEF SealingInv
  <2> QED
    BY <1>1, <1>3, <2>1, <2>2 DEF TypeOK
<1>6. StagesInv'
  BY <1>1 DEF SealingInv, StagesInv, kvars, NoKeys
<1>7. BehindInv' /\ AnswersInv' /\ AskedAtMostOnce'
  BY <1>1, Untried DEF kvars, NoKeys
<1>8. OutcomeInv' /\ NoKeyIsMisjudged' /\ CulpritFailed' /\ RightPassphraseIsNotCalledWrong'
  BY <1>1, Unsaid
<1> QED
  BY <1>4, <1>5, <1>6, <1>7, <1>8 DEF SealingInv, OpeningIsFair

(* An opening that ends before any key is read.                            *)
LEMMA SaidAtOnce ==
  ASSUME SealingInv, pc = "idle", UNCHANGED <<archive, kvars>>, opening' \in OpeningType,
         opening'.left = <<>>, opening'.command = "doctor" => opening'.hand.typed = <<>>,
         NEW o \in Outcomes \ {"none opens it", "stayed locked", "not unlocked", "none",
                               "no private key"},
         Say(Outcome(o)),
         o = "damaged" => ~archive.sound,
         o \in {"no passphrase", "wrong passphrase", "too much work"} =>
           opening'.command # "doctor",
         o = "wrong passphrase" => read_passphrase(opening'.hand, "Opening") # archive.secret
  PROVE  SealingInv'
<1>1. /\ pc' = "said" /\ said' = Outcome(o) /\ archive' = archive /\ kvars' = kvars /\ NoKeys
  BY DEF Say, SealingInv, StagesInv
<1>2. /\ said'.outcome = o /\ NoKeyIsMisjudged' /\ CulpritFailed'
      /\ said' \in [outcome : Outcomes, culprit : SUBSET (KeyFiles \cup {Nobody}),
                    untried : SUBSET KeyFiles, locked : SUBSET KeyFiles]
  BY <1>1, SaidPlainly
<1>3. SealsShut'
  BY <1>1, Zenon DEF SealsShut, SealingInv
<1>4. TypeOK'
  <2>1. /\ offered' = <<>> /\ skipped' = {} /\ at' = at /\ answers' = answers /\ last' = last
        /\ failed' = failed /\ asks' = asks /\ offered = <<>> /\ skipped = {}
    BY <1>1 DEF kvars, NoKeys
  <2>2. Range(offered') = {} /\ Range(opening'.left) = {}
    BY <2>1, RangeFacts
  <2> QED
    BY <1>1, <1>2, <2>1, <2>2 DEF TypeOK, SealingInv
<1>5. StagesInv'
  BY <1>1 DEF StagesInv
<1>6. BehindInv' /\ AnswersInv' /\ AskedAtMostOnce'
  BY <1>1, Untried DEF kvars, NoKeys
<1>7. OutcomeInv'
  <2>1. offered' = <<>>
    BY <1>1 DEF kvars, NoKeys
  <2> QED
    BY <1>1, <1>2, <2>1 DEF OutcomeInv
<1>8. RightPassphraseIsNotCalledWrong'
  BY <1>1, <1>2 DEF RightPassphraseIsNotCalledWrong
<1> QED
  BY <1>2, <1>3, <1>4, <1>5, <1>6, <1>7, <1>8 DEF SealingInv, OpeningIsFair

(* What a command that opens may have at hand.                             *)
LEMMA AtHand ==
  ASSUME NEW c \in {"restore", "doctor"}, NEW h \in Hands
  PROVE  /\ at_hand(c, h) \in HandsHad
         /\ c = "doctor" => at_hand(c, h).typed = <<>>
         /\ at_hand("restore", h) = h
<1>1. h \in HandType
  BY SealingAssumption
<1>2. [h EXCEPT !.typed = <<>>].typed = <<>>
  BY <1>1 DEF HandType
<1> QED
  BY <1>2 DEF at_hand, HandsHad

(* An opening without keys, but for its command and what is at hand.       *)
LEMMA OpeningSlots ==
  /\ NoOpening.files = <<>> /\ NoOpening.left = <<>> /\ NoOpening.hand.typed = <<>>
  /\ NoOpening.command # "doctor" /\ NoOpening \in OpeningType
  /\ \A c \in {"restore", "doctor"} : \A h \in HandsHad :
       LET o == [NoOpening EXCEPT !.command = c, !.hand = h]
       IN  /\ o.command = c /\ o.hand = h /\ o.files = <<>> /\ o.left = <<>> /\ o \in OpeningType
  /\ \A c \in {"restore", "doctor"} :
       LET o == [NoOpening EXCEPT !.command = c]
       IN  /\ o.command = c /\ o.hand = NoOpening.hand /\ o.files = <<>> /\ o.left = <<>>
           /\ o \in OpeningType
<1>1. NoOpening.hand \in HandsHad
  BY DEF HandsHad
<1>2. /\ NoOpening = [command |-> "none", files |-> <<>>, left |-> <<>>, hand |-> NoOpening.hand]
      /\ NoOpening.hand.typed = <<>>
  BY DEF NoOpening
<1>3. <<>> \in Seq(KeyFiles)
  OBVIOUS
<1>4. NoOpening.files = <<>> /\ NoOpening.left = <<>> /\ NoOpening.command = "none"
  BY DEF NoOpening
<1>5. ASSUME NEW c \in {"restore", "doctor"}
      PROVE  [NoOpening EXCEPT !.command = c]
             = [command |-> c, files |-> <<>>, left |-> <<>>, hand |-> NoOpening.hand]
  BY DEF NoOpening
<1>6. ASSUME NEW c \in {"none", "restore", "doctor"}, NEW h \in HandsHad
      PROVE  [command |-> c, files |-> <<>>, left |-> <<>>, hand |-> h] \in OpeningType
  BY <1>3 DEF OpeningType
<1>7. NoOpening \in OpeningType
  BY <1>1, <1>2, <1>6
<1>8. ASSUME NEW c \in {"restore", "doctor"}, NEW h \in HandsHad
      PROVE  LET o == [NoOpening EXCEPT !.command = c, !.hand = h]
             IN  /\ o.command = c /\ o.hand = h /\ o.files = <<>> /\ o.left = <<>>
                 /\ o \in OpeningType
  <2> DEFINE o == [NoOpening EXCEPT !.command = c, !.hand = h]
  <2>1. o \in OpeningType
    BY <1>7 DEF OpeningType
  <2>2. o.command = c /\ o.hand = h /\ o.files = <<>> /\ o.left = <<>>
    BY <1>2, <1>4
  <2> QED
    BY <2>1, <2>2
<1>9. ASSUME NEW c \in {"restore", "doctor"}
       PROVE  LET o == [NoOpening EXCEPT !.command = c]
              IN  /\ o.command = c /\ o.hand = NoOpening.hand /\ o.files = <<>>
                  /\ o.left = <<>> /\ o \in OpeningType
  BY <1>1, <1>5, <1>6
<1>10. NoOpening.command # "doctor"
  BY <1>4
<1> QED
  BY <1>2, <1>4, <1>7, <1>8, <1>9, <1>10, Zenon

LEMMA OpenPlainStep ==
  ASSUME SealingInv, pc = "idle", NEW command \in {"restore", "doctor"}, OpenPlain(command)
  PROVE  SealingInv'
<1>1. opening' = [NoOpening EXCEPT !.command = command]
  BY DEF OpenPlain
<1>2. /\ opening'.command = command /\ opening'.files = <<>> /\ opening'.left = <<>>
      /\ opening'.hand = NoOpening.hand /\ opening'.hand.typed = <<>>
      /\ opening' \in OpeningType
  BY <1>1, OpeningSlots
<1> QED
  BY <1>2, SaidAtOnce DEF OpenPlain, Outcomes

LEMMA OpenDamagedStep ==
  ASSUME SealingInv, pc = "idle", NEW command \in {"restore", "doctor"}, OpenDamaged(command)
  PROVE  SealingInv'
<1>1. opening' = [NoOpening EXCEPT !.command = command] /\ ~archive.sound
  BY DEF OpenDamaged
<1>2. /\ opening'.command = command /\ opening'.files = <<>> /\ opening'.left = <<>>
      /\ opening'.hand = NoOpening.hand /\ opening'.hand.typed = <<>>
      /\ opening' \in OpeningType
  BY <1>1, OpeningSlots
<1>3. PICK o \in {"damaged", "no key"} : Say(Outcome(o))
  BY DEF OpenDamaged
<1> QED
  BY <1>1, <1>2, <1>3, SaidAtOnce DEF OpenDamaged, Outcomes

LEMMA OpenWithPassphraseStep ==
  ASSUME SealingInv, pc = "idle", OpenWithPassphrase
  PROVE  SealingInv'
<1>1. PICK hand \in Hands :
        LET p == read_passphrase(hand, "Opening")
        IN  /\ opening' = [NoOpening EXCEPT !.command = "restore", !.hand = hand]
            /\ Say(Outcome(IF p = Refused THEN "no passphrase" ELSE scrypt_verdict(p)))
  BY DEF OpenWithPassphrase
<1> DEFINE p == read_passphrase(hand, "Opening")
           o == IF p = Refused THEN "no passphrase" ELSE scrypt_verdict(p)
<1>2. /\ opening'.command = "restore" /\ opening'.files = <<>> /\ opening'.left = <<>>
      /\ opening'.hand = hand
  BY <1>1 DEF NoOpening
<1>3. opening' \in OpeningType
  <2>1. hand \in HandsHad
    BY AtHand
  <2> QED
    BY <1>1, <2>1, OpeningSlots
<1>4. o \in {"no passphrase", "too much work", "opened", "wrong passphrase"}
  BY DEF scrypt_verdict
<1>5. o = "wrong passphrase" => p # archive.secret
  BY DEF scrypt_verdict
<1>6. Say(Outcome(o))
  BY <1>1
<1>7. UNCHANGED <<archive, kvars>>
  BY DEF OpenWithPassphrase
<1> HIDE DEF p, o
<1>8. o = "wrong passphrase" => read_passphrase(opening'.hand, "Opening") # archive.secret
  BY <1>2, <1>5 DEF p
<1> QED
  BY <1>2, <1>3, <1>4, <1>6, <1>7, <1>8, SaidAtOnce DEF Outcomes

LEMMA OpenWithKeysStep ==
  ASSUME SealingInv, pc = "idle", NEW command \in {"restore", "doctor"}, OpenWithKeys(command)
  PROVE  SealingInv'
<1>1. PICK files \in Offers, hand \in Hands :
        /\ opening' = [command |-> command, files |-> files, left |-> files,
                       hand |-> at_hand(command, hand)]
        /\ IF files = <<>> THEN Say(Outcome("no key")) ELSE pc' = "reading" /\ UNCHANGED said
  BY DEF OpenWithKeys
<1>2. UNCHANGED <<archive, kvars>> /\ archive.by = "recipients"
  BY DEF OpenWithKeys
<1>3. files \in Seq(KeyFiles)
  BY SealingAssumption
<1>4. /\ opening'.command = command /\ opening'.files = files /\ opening'.left = files
      /\ opening'.hand = at_hand(command, hand)
      /\ opening'.command = "doctor" => opening'.hand.typed = <<>>
  <2>1. /\ opening'.command = command /\ opening'.files = files /\ opening'.left = files
        /\ opening'.hand = at_hand(command, hand)
    BY <1>1
  <2> QED
    BY <2>1, AtHand
<1>5. opening' \in OpeningType
  <2>1. at_hand(command, hand) \in HandsHad
    BY AtHand
  <2> QED
    BY <1>1, <1>3, <2>1 DEF OpeningType
<1>6. CASE files = <<>>
  <2>1. Say(Outcome("no key"))
    BY <1>1, <1>6
  <2> QED
    BY <1>2, <1>4, <1>5, <1>6, <2>1, SaidAtOnce DEF Outcomes
<1>7. CASE files # <<>>
  <2>1. /\ pc' = "reading" /\ said' = said /\ archive' = archive /\ kvars' = kvars
        /\ NoKeys /\ said = Silence
    BY <1>1, <1>2, <1>7 DEF SealingInv, StagesInv
  <2>2. /\ offered' = <<>> /\ skipped' = {} /\ at' = at /\ answers' = answers /\ last' = last
        /\ failed' = failed /\ asks' = asks /\ offered = <<>> /\ skipped = {}
    BY <2>1 DEF kvars, NoKeys
  <2>3. Range(offered') = {}
    BY <2>2, RangeFacts
  <2>4. TypeOK'
    BY <1>4, <1>5, <2>1, <2>2, <2>3 DEF TypeOK, SealingInv
  <2>5. StagesInv'
    BY <1>2, <1>4, <2>1 DEF StagesInv, NoKeys, kvars
  <2>6. BehindInv' /\ AnswersInv' /\ AskedAtMostOnce'
    BY <2>1, Untried DEF kvars, NoKeys
  <2>7. OutcomeInv' /\ NoKeyIsMisjudged' /\ CulpritFailed' /\ RightPassphraseIsNotCalledWrong'
    BY <2>1, Unsaid
  <2>8. SealsShut'
    BY <2>1, Zenon DEF SealsShut, SealingInv
  <2> QED
    BY <2>4, <2>5, <2>6, <2>7, <2>8 DEF SealingInv, OpeningIsFair
<1> QED
  BY <1>6, <1>7

(* A key file is read, and its key is handed on, skipped or no key.        *)
LEMMA ReadKeyStep == ASSUME SealingInv, ReadKey PROVE SealingInv'
<1> DEFINE k == Head(opening.left)
<1>1. /\ pc = "reading" /\ opening.left # <<>> /\ opening' = [opening EXCEPT !.left = Tail(@)]
      /\ UNCHANGED <<archive, at, answers, last, failed, asks>>
  BY DEF ReadKey
<1>2. /\ at = [key |-> 1, stanza |-> 1] /\ answers = Unasked /\ last = Nobody /\ failed = 0
      /\ said = Silence /\ archive.by = "recipients"
      /\ opening.command = "doctor" => opening.hand.typed = <<>>
  BY <1>1 DEF SealingInv, StagesInv
<1>3. /\ opening \in OpeningType /\ Range(opening.left) \subseteq Range(opening.files)
      /\ offered \in Seq(KeyFiles) /\ Range(offered) \subseteq Range(opening.files)
      /\ \A i \in DOMAIN offered : kind[offered[i]] \in {"age", "locked", "foreign"}
      /\ skipped \subseteq Range(opening.files)
      /\ asks \in [KeyFiles -> Nat]
  BY DEF SealingInv, TypeOK
<1>4. /\ opening.left \in Seq(KeyFiles) /\ opening.files \in Seq(KeyFiles)
      /\ opening'.files = opening.files /\ opening'.left = Tail(opening.left)
      /\ opening'.hand = opening.hand /\ opening'.command = opening.command
      /\ opening' \in OpeningType
  <2>1. /\ opening.left \in Seq(KeyFiles) /\ opening.files \in Seq(KeyFiles)
        /\ opening.hand \in HandsHad /\ opening.command \in {"none", "restore", "doctor"}
        /\ opening = [command |-> opening.command, files |-> opening.files,
                      left |-> opening.left, hand |-> opening.hand]
    BY <1>3 DEF OpeningType
  <2>2. Tail(opening.left) \in Seq(KeyFiles)
    BY <1>1, <2>1
  <2>3. opening' = [command |-> opening.command, files |-> opening.files,
                    left |-> Tail(opening.left), hand |-> opening.hand]
    BY <1>1, <2>1
  <2> QED
    BY <2>1, <2>2, <2>3 DEF OpeningType
<1>5. /\ k \in Range(opening.files) /\ Range(opening'.left) \subseteq Range(opening'.files)
      /\ k \in KeyFiles
  BY <1>1, <1>3, <1>4, RangeFacts
<1>6. \A l \in KeyFiles : asks[l] = 0
  <2>1. DOMAIN answers = {}
    BY <1>2 DEF Unasked
  <2> QED
    BY <1>3, <2>1 DEF SealingInv, AnswersInv
<1> HIDE DEF k
<1>7. BehindInv' /\ AnswersInv' /\ AskedAtMostOnce'
  BY <1>1, <1>2, <1>6, Untried
<1>8. SealsShut'
  BY <1>1, Zenon DEF SealsShut, SealingInv
<1>9. CASE /\ kind[k] = "unparsed" /\ Say([Outcome("no private key") EXCEPT !.culprit = {k}])
           /\ UNCHANGED <<offered, skipped>>
  <2>1. /\ pc' = "said" /\ said' = [Outcome("no private key") EXCEPT !.culprit = {k}]
        /\ offered' = offered /\ skipped' = skipped
    BY <1>9 DEF Say
  <2>2. /\ said'.outcome = "no private key" /\ NoKeyIsMisjudged' /\ CulpritFailed'
        /\ said' \in [outcome : Outcomes, culprit : SUBSET (KeyFiles \cup {Nobody}),
                      untried : SUBSET KeyFiles, locked : SUBSET KeyFiles]
    BY <1>5, <2>1, SaidPlainly DEF Outcomes
  <2>3. TypeOK'
    BY <1>1, <1>3, <1>4, <1>5, <2>1, <2>2 DEF SealingInv, TypeOK
  <2>4. StagesInv'
    BY <1>2, <1>4, <2>1 DEF StagesInv
  <2>5. OutcomeInv'
    BY <1>4, <1>5, <1>9, <2>2 DEF OutcomeInv
  <2>6. RightPassphraseIsNotCalledWrong'
    BY <2>2 DEF RightPassphraseIsNotCalledWrong
  <2> QED
    BY <1>7, <1>8, <2>2, <2>3, <2>4, <2>5, <2>6 DEF SealingInv, OpeningIsFair
<1>10. CASE /\ kind[k] = "unsupported" /\ skipped' = skipped \cup {k}
            /\ UNCHANGED <<pc, said, offered>>
  <2>1. pc' = "reading" /\ said' = Silence /\ offered' = offered
    BY <1>1, <1>2, <1>10
  <2>2. TypeOK'
    BY <1>1, <1>3, <1>4, <1>5, <1>10 DEF SealingInv, TypeOK
  <2>3. StagesInv'
    BY <1>1, <1>2, <1>4, <2>1 DEF StagesInv
  <2>4. OutcomeInv' /\ NoKeyIsMisjudged' /\ CulpritFailed' /\ RightPassphraseIsNotCalledWrong'
    BY <2>1, Unsaid
  <2> QED
    BY <1>7, <1>8, <2>2, <2>3, <2>4 DEF SealingInv, OpeningIsFair
<1>11. CASE /\ kind[k] \in {"age", "locked", "foreign"} /\ offered' = Append(offered, k)
            /\ UNCHANGED <<pc, said, skipped>>
  <2>1. pc' = "reading" /\ said' = Silence /\ skipped' = skipped
    BY <1>1, <1>2, <1>11
  <2>2. /\ offered' \in Seq(KeyFiles) /\ Len(offered') = Len(offered) + 1
        /\ Range(offered') \subseteq Range(opening.files) /\ Len(offered) \in Nat
    BY <1>3, <1>5, <1>11, RangeFacts
  <2>3. \A i \in DOMAIN offered' : kind[offered'[i]] \in {"age", "locked", "foreign"}
    <3>1. /\ DOMAIN offered' = 1..Len(offered) + 1 /\ DOMAIN offered = 1..Len(offered)
          /\ offered'[Len(offered) + 1] = k /\ \A i \in 1..Len(offered) : offered'[i] = offered[i]
      BY <1>3, <1>5, <1>11
    <3> QED
      BY <1>3, <1>11, <2>2, <3>1
  <2>4. at' \in [key : 1..Len(offered') + 1, stanza : Nat \ {0}]
    BY <1>1, <1>2, <2>2
  <2>5. TypeOK'
    <3>1. /\ DOMAIN answers' = {} /\ last' = Nobody /\ failed' = 0 /\ asks' = asks
      BY <1>1, <1>2 DEF Unasked
    <3>2. said' = said /\ archive' = archive
      BY <1>1, <1>11
    <3> QED
      BY <1>3, <1>4, <1>5, <2>1, <2>2, <2>3, <2>4, <3>1, <3>2 DEF SealingInv, TypeOK
  <2>6. StagesInv'
    BY <1>1, <1>2, <1>4, <2>1 DEF StagesInv
  <2>7. OutcomeInv' /\ NoKeyIsMisjudged' /\ CulpritFailed' /\ RightPassphraseIsNotCalledWrong'
    BY <2>1, Unsaid
  <2> QED
    BY <1>7, <1>8, <2>5, <2>6, <2>7 DEF SealingInv, OpeningIsFair
<1> QED
  BY <1>9, <1>10, <1>11 DEF ReadKey, k

(* Nothing but what is said changes.                                       *)
LEMMA SaidOfKeys ==
  ASSUME SealingInv, pc \in {"reading", "trying"}, pc' = "said",
         UNCHANGED <<archive, opening, offered, skipped, at, answers, last, asks>>,
         failed' \in 0..Len(offered),
         said' \in [outcome : Outcomes, culprit : SUBSET (KeyFiles \cup {Nobody}),
                    untried : SUBSET KeyFiles, locked : SUBSET KeyFiles]
  PROVE  /\ TypeOK' /\ StagesInv' /\ BehindInv' /\ AnswersInv'
         /\ AskedAtMostOnce' /\ SealsShut'
<1>1. TypeOK /\ StagesInv /\ BehindInv /\ AnswersInv /\ AskedAtMostOnce /\ SealsShut
  BY DEF SealingInv, OpeningIsFair
<1>2. TypeOK'
  BY <1>1 DEF TypeOK
<1>3. StagesInv'
  BY <1>1 DEF StagesInv
<1>4. BehindInv'
  BY <1>1 DEF BehindInv, locked, key
<1>5. AnswersInv'
  BY <1>1 DEF AnswersInv
<1>6. AskedAtMostOnce' /\ SealsShut'
  BY <1>1, Zenon DEF AskedAtMostOnce, SealsShut
<1> QED
  BY <1>2, <1>3, <1>4, <1>5, <1>6

LEMMA AllReadStep == ASSUME SealingInv, AllRead PROVE SealingInv'
<1>1. /\ pc = "reading" /\ at' = [key |-> 1, stanza |-> 1]
      /\ UNCHANGED <<archive, opening, offered, skipped, answers, last, failed, asks>>
  BY DEF AllRead
<1>2. /\ at = [key |-> 1, stanza |-> 1] /\ answers = Unasked /\ last = Nobody /\ failed = 0
      /\ said = Silence /\ archive.by = "recipients"
  BY <1>1 DEF SealingInv, StagesInv
<1>3. TypeOK /\ SealsShut /\ StagesInv
  BY DEF SealingInv
<1>4. CASE offered = <<>> /\ Say(Outcome("none can be used"))
  <2>1. pc' = "said" /\ said' = Outcome("none can be used")
    BY <1>4 DEF Say
  <2>2. /\ said'.outcome = "none can be used" /\ NoKeyIsMisjudged' /\ CulpritFailed'
        /\ said' \in [outcome : Outcomes, culprit : SUBSET (KeyFiles \cup {Nobody}),
                      untried : SUBSET KeyFiles, locked : SUBSET KeyFiles]
    BY <2>1, SaidPlainly DEF Outcomes
  <2>3. failed' \in 0..Len(offered)
    BY <1>1, <1>3 DEF TypeOK
  <2>4. TypeOK' /\ StagesInv' /\ BehindInv' /\ AnswersInv' /\ AskedAtMostOnce' /\ SealsShut'
    BY <1>1, <1>2, <2>1, <2>2, <2>3, SaidOfKeys
  <2>5. OutcomeInv'
    BY <1>1, <1>4, <2>2 DEF OutcomeInv
  <2>6. RightPassphraseIsNotCalledWrong'
    BY <2>2 DEF RightPassphraseIsNotCalledWrong
  <2> QED
    BY <2>2, <2>4, <2>5, <2>6 DEF SealingInv, OpeningIsFair
<1>5. CASE pc' = "trying" /\ said' = said
  <2>1. at' = at
    BY <1>1, <1>2
  <2>2. TypeOK'
    BY <1>1, <1>3, <1>5, <2>1 DEF TypeOK
  <2>3. StagesInv'
    BY <1>1, <1>2, <1>3, <1>5 DEF StagesInv
  <2>4. \A k \in KeyFiles : asks'[k] = 0
    <3>1. DOMAIN answers = {} /\ asks \in [KeyFiles -> Nat]
      BY <1>2, <1>3 DEF Unasked, TypeOK
    <3> QED
      BY <1>1, <3>1 DEF SealingInv, AnswersInv
  <2>5. BehindInv' /\ AnswersInv' /\ AskedAtMostOnce'
    BY <1>1, <1>2, <2>4, Untried
  <2>6. OutcomeInv' /\ NoKeyIsMisjudged' /\ CulpritFailed' /\ RightPassphraseIsNotCalledWrong'
    BY <1>2, <1>5, Unsaid
  <2>7. SealsShut'
    BY <1>1, <1>3, Zenon DEF SealsShut
  <2> QED
    BY <2>2, <2>3, <2>5, <2>6, <2>7 DEF SealingInv, OpeningIsFair
<1> QED
  BY <1>4, <1>5 DEF AllRead

(* Where age stands while it tries keys.                                   *)
LEMMA Standing ==
  ASSUME SealingInv, pc = "trying", at.key <= Len(offered)
  PROVE  /\ offered \in Seq(KeyFiles) /\ Len(offered) \in Nat /\ at.key \in 1..Len(offered)
         /\ at.stanza \in Nat \ {0} /\ at = [key |-> at.key, stanza |-> at.stanza]
         /\ key = offered[at.key] /\ key \in KeyFiles /\ key \in Range(offered)
         /\ archive \in ArchiveType /\ archive.to \in Seq(KeyFiles)
         /\ kind[key] \in {"age", "locked", "foreign"}
<1>1. /\ offered \in Seq(KeyFiles) /\ at \in [key : 1..Len(offered) + 1, stanza : Nat \ {0}]
      /\ archive = NoArchive \/ archive \in ArchiveType
      /\ \A i \in DOMAIN offered : kind[offered[i]] \in {"age", "locked", "foreign"}
  BY DEF SealingInv, TypeOK
<1>2. /\ Len(offered) \in Nat /\ at.key \in 1..Len(offered)
      /\ at.stanza \in Nat \ {0} /\ at = [key |-> at.key, stanza |-> at.stanza]
  BY <1>1
<1>3. key = offered[at.key] /\ key \in KeyFiles /\ key \in Range(offered)
  BY <1>1, <1>2, RangeFacts DEF key
<1>4. archive \in ArchiveType /\ archive.to \in Seq(KeyFiles)
  <2>1. archive.by = "recipients"
    BY DEF SealingInv, StagesInv
  <2>2. NoArchive.by # "recipients"
    BY DEF NoArchive
  <2> QED
    BY <1>1, <2>1, <2>2 DEF ArchiveType
<1>5. kind[key] \in {"age", "locked", "foreign"}
  BY <1>1, <1>2, <1>3
<1> QED
  BY <1>1, <1>2, <1>3, <1>4, <1>5

(* age goes on to the next stanza, after the last one to the next key.     *)
LEMMA Advances ==
  ASSUME SealingInv, pc = "trying", at.key <= Len(offered), Advance,
         offered' = offered, archive' = archive,
         \A k \in DOMAIN answers : k \in DOMAIN answers' /\ answers'[k] = answers[k],
         kind[key] # "age" => key \in DOMAIN answers',
         archive.to[at.stanza] = key => key \in locked'
  PROVE  /\ at' \in [key : 1..Len(offered) + 1, stanza : Nat \ {0}]
         /\ BehindInv'
<1>1. /\ Len(offered) \in Nat /\ at.key \in 1..Len(offered) /\ at.stanza \in Nat \ {0}
      /\ at = [key |-> at.key, stanza |-> at.stanza] /\ key = offered[at.key]
      /\ archive.to \in Seq(KeyFiles)
  BY Standing
<1>2. /\ \A j \in 1..at.key - 1 :
           /\ kind[offered[j]] # "age" => offered[j] \in DOMAIN answers
           /\ offered[j] \in Range(archive.to) => offered[j] \in locked
      /\ \A s \in 1..at.stanza - 1 :
           s \in DOMAIN archive.to /\ archive.to[s] = key => key \in locked
  BY DEF SealingInv, BehindInv
<1>3. \A k \in locked : k \in locked'
  BY DEF locked
<1>4. DOMAIN archive.to = 1..Len(archive.to) /\ Len(archive.to) \in Nat
  BY <1>1
<1>5. CASE at.stanza < Len(archive.to)
  <2>1. at'.key = at.key /\ at'.stanza = at.stanza + 1
        /\ at' \in [key : 1..Len(offered) + 1, stanza : Nat \ {0}]
    BY <1>1, <1>5 DEF Advance
  <2>2. key' = key
    BY <1>1, <2>1 DEF key
  <2>3. \A s \in 1..at'.stanza - 1 :
          s \in DOMAIN archive'.to /\ archive'.to[s] = key' => key' \in locked'
    BY <1>1, <1>2, <1>3, <2>1, <2>2
  <2>4. \A j \in 1..at'.key - 1 :
          /\ kind[offered'[j]] # "age" => offered'[j] \in DOMAIN answers'
          /\ offered'[j] \in Range(archive'.to) => offered'[j] \in locked'
    BY <1>2, <1>3, <2>1
  <2> QED
    BY <2>1, <2>3, <2>4 DEF BehindInv
<1>6. CASE ~(at.stanza < Len(archive.to))
  <2>1. at'.key = at.key + 1 /\ at'.stanza = 1
        /\ at' \in [key : 1..Len(offered) + 1, stanza : Nat \ {0}]
    BY <1>1, <1>6 DEF Advance
  <2>2. key \in Range(archive.to) => key \in locked'
    <3> SUFFICES ASSUME NEW s \in DOMAIN archive.to, archive.to[s] = key PROVE key \in locked'
      BY DEF Range
    <3>1. s = at.stanza \/ s \in 1..at.stanza - 1
      BY <1>1, <1>4, <1>6
    <3> QED
      BY <1>2, <1>3, <3>1
  <2>3. ASSUME NEW j \in 1..at'.key - 1
        PROVE  /\ kind[offered'[j]] # "age" => offered'[j] \in DOMAIN answers'
               /\ offered'[j] \in Range(archive'.to) => offered'[j] \in locked'
    <3>1. j = at.key \/ j \in 1..at.key - 1
      BY <1>1, <2>1
    <3>2. CASE j = at.key
      BY <1>1, <2>2, <3>2
    <3>3. CASE j \in 1..at.key - 1
      BY <1>2, <1>3, <3>3
    <3> QED
      BY <3>1, <3>2, <3>3
  <2>4. 1..at'.stanza - 1 = {}
    BY <2>1
  <2> QED
    BY <2>1, <2>3, <2>4 DEF BehindInv
<1> QED
  BY <1>5, <1>6

(* A key that did not open the archive is left behind.                     *)
LEMMA GoesOn ==
  ASSUME SealingInv, pc = "trying", at.key <= Len(offered), Advance,
         UNCHANGED <<pc, archive, opening, offered, skipped, answers, last, failed, asks, said>>,
         kind[key] # "age" => key \in DOMAIN answers,
         archive.to[at.stanza] = key => key \in locked,
         key \in DOMAIN answers => key \in locked \/ unlocks(key)
  PROVE  SealingInv'
<1>1. TypeOK /\ StagesInv /\ AnswersInv /\ AskedAtMostOnce /\ SealsShut
  BY DEF SealingInv, OpeningIsFair
<1>2. locked' = locked
  BY DEF locked
<1>3. /\ at' \in [key : 1..Len(offered) + 1, stanza : Nat \ {0}]
      /\ BehindInv'
  BY <1>2, Advances
<1>4. TypeOK'
  BY <1>1, <1>3 DEF TypeOK
<1>5. StagesInv'
  BY <1>1 DEF StagesInv
<1>6. AnswersInv'
  <2>1. \A k \in DOMAIN answers : k \in locked \/ unlocks(k)
    BY <1>1 DEF AnswersInv, FirstAsked
  <2>2. \A k \in DOMAIN answers' : k \in locked' \/ unlocks(k)'
    BY <1>2, <2>1 DEF unlocks
  <2> QED
    BY <1>1, <2>2 DEF AnswersInv
<1>7. said = Silence
  BY <1>1 DEF StagesInv
<1>8. OutcomeInv' /\ NoKeyIsMisjudged' /\ CulpritFailed' /\ RightPassphraseIsNotCalledWrong'
  BY <1>7, Unsaid
<1>9. AskedAtMostOnce' /\ SealsShut'
  BY <1>1, Zenon DEF AskedAtMostOnce, SealsShut
<1> QED
  BY <1>3, <1>4, <1>5, <1>6, <1>8, <1>9 DEF SealingInv, OpeningIsFair

(* An unlocked key meets a stanza.                                         *)
LEMMA UnwrapStep ==
  ASSUME SealingInv, pc = "trying", at.key <= Len(offered), Unwrap(TRUE),
         UNCHANGED <<archive, opening, offered, skipped, answers, last, failed, asks>>,
         kind[key] # "age" => key \in DOMAIN answers,
         key \in DOMAIN answers => unlocks(key)
  PROVE  SealingInv'
<1>1. CASE archive.to[at.stanza] = key
  <2>1. pc' = "said" /\ said' = Outcome("opened") /\ at' = at
    BY <1>1 DEF Unwrap, Say
  <2>2. /\ said'.outcome = "opened" /\ NoKeyIsMisjudged' /\ CulpritFailed'
        /\ said' \in [outcome : Outcomes, culprit : SUBSET (KeyFiles \cup {Nobody}),
                      untried : SUBSET KeyFiles, locked : SUBSET KeyFiles]
    BY <2>1, SaidPlainly DEF Outcomes
  <2>3. failed' \in 0..Len(offered)
    BY DEF SealingInv, TypeOK
  <2>4. TypeOK' /\ StagesInv' /\ BehindInv' /\ AnswersInv' /\ AskedAtMostOnce' /\ SealsShut'
    BY <2>1, <2>2, <2>3, SaidOfKeys
  <2>5. OutcomeInv' /\ RightPassphraseIsNotCalledWrong'
    BY <2>2 DEF OutcomeInv, RightPassphraseIsNotCalledWrong
  <2> QED
    BY <2>2, <2>4, <2>5 DEF SealingInv, OpeningIsFair
<1>2. CASE archive.to[at.stanza] # key
  <2>1. Advance /\ UNCHANGED <<pc, said>>
    BY <1>2 DEF Unwrap
  <2> QED
    BY <1>2, <2>1, GoesOn
<1> QED
  BY <1>1, <1>2

LEMMA TryUnlockedStep == ASSUME SealingInv, TryUnlocked PROVE SealingInv'
<1>1. key \notin DOMAIN answers
  BY DEF TryUnlocked, SealingInv, AnswersInv
<1> QED
  BY <1>1, UnwrapStep DEF TryUnlocked

(* A key's passphrase is asked for: the answer, or that there was none, is *)
(* kept, and the key was not asked about before.                           *)
LEMMA RequestPassphraseStep == ASSUME SealingInv, RequestPassphrase PROVE SealingInv'
<1>1. /\ pc = "trying" /\ at.key <= Len(offered) /\ kind[key] \in {"locked", "foreign"}
      /\ key \notin DOMAIN answers
      /\ asks' = [asks EXCEPT ![key] = @ + (IF asks_a_person(opening.hand) THEN 1 ELSE 0)]
      /\ IF answers'[key] = Refused THEN Advance ELSE UNCHANGED at
      /\ UNCHANGED <<pc, archive, opening, offered, skipped, failed, said>>
  BY DEF RequestPassphrase
<1>2. PICK p : /\ answers' = [k \in DOMAIN answers \cup {key} |->
                                IF k = key THEN p ELSE answers[k]]
               /\ last' = last_answered(key, p)
  BY DEF RequestPassphrase
<1>3. /\ DOMAIN answers' = DOMAIN answers \cup {key} /\ answers'[key] = p
      /\ \A k \in DOMAIN answers : k \in DOMAIN answers' /\ answers'[k] = answers[k]
  BY <1>1, <1>2
<1>4. /\ TypeOK /\ StagesInv /\ BehindInv /\ AnswersInv /\ AskedAtMostOnce /\ SealsShut
      /\ said = Silence
  BY <1>1 DEF SealingInv, OpeningIsFair, StagesInv
<1>5. /\ Len(offered) \in Nat /\ at.key \in 1..Len(offered) /\ key = offered[at.key]
      /\ key \in KeyFiles /\ key \in Range(offered)
  BY <1>1, Standing
<1>6. \A k \in locked : k \in locked'
  BY <1>3 DEF locked
<1>7. at' \in [key : 1..Len(offered) + 1, stanza : Nat \ {0}] /\ BehindInv'
  <2>1. CASE p = Refused
    <3>1. Advance /\ key \in locked'
      BY <1>1, <1>3, <2>1 DEF locked
    <3> QED
      BY <1>1, <1>3, <3>1, Advances
  <2>2. CASE p # Refused
    <3>1. at' = at /\ key' = key /\ offered' = offered /\ archive' = archive
      BY <1>1, <1>3, <2>2 DEF key
    <3> QED
      BY <1>3, <1>4, <1>6, <3>1 DEF BehindInv, TypeOK
  <2> QED
    BY <2>1, <2>2
<1>8. asks[key] = 0
  <2>1. asks[key] \in Nat
    BY <1>4, <1>5 DEF TypeOK
  <2> QED
    BY <1>1, <1>4, <1>5, <2>1 DEF AnswersInv
<1>9. /\ asks' \in [KeyFiles -> Nat]
      /\ \A k \in KeyFiles \ {key} : asks'[k] = asks[k]
      /\ asks'[key] <= 1 /\ (asks'[key] > 0 => opening.command # "doctor")
  <2>1. asks_a_person(opening.hand) => opening.command # "doctor"
    BY <1>4 DEF asks_a_person, StagesInv
  <2>2. asks \in [KeyFiles -> Nat]
    BY <1>4 DEF TypeOK
  <2> DEFINE n == IF asks_a_person(opening.hand) THEN 1 ELSE 0
  <2>3. n \in {0, 1} /\ (n > 0 => opening.command # "doctor")
    BY <2>1
  <2>4. asks' = [asks EXCEPT ![key] = asks[key] + n]
    BY <1>1
  <2> HIDE DEF n
  <2> QED
    BY <1>5, <1>8, <2>2, <2>3, <2>4
<1>10. last' # Nobody => last' \in DOMAIN answers' /\ answers'[last'] # Refused
  <2>1. CASE p = Refused
    <3>1. last' = last
      BY <1>2, <2>1 DEF last_answered
    <3> QED
      BY <1>3, <1>4, <3>1 DEF TypeOK
  <2>2. CASE p # Refused
    <3>1. last' = key
      BY <1>2, <2>2 DEF last_answered
    <3> QED
      BY <1>3, <2>2, <3>1
  <2> QED
    BY <2>1, <2>2
<1>11. TypeOK'
  BY <1>1, <1>3, <1>4, <1>5, <1>7, <1>9, <1>10 DEF TypeOK
<1>12. StagesInv'
  BY <1>1, <1>4 DEF StagesInv
<1>13. AnswersInv'
  <2>1. \A k \in DOMAIN answers' : kind[k] \in {"locked", "foreign"}
    BY <1>1, <1>3, <1>4 DEF AnswersInv
  <2>2. ASSUME NEW k \in DOMAIN answers'
        PROVE  k \in locked' \/ unlocks(k)' \/ FirstAsked(k)'
    <3>1. CASE k = key /\ p = Refused
      BY <1>3, <3>1 DEF locked
    <3>2. CASE k = key /\ p # Refused
      <4>1. at' = at /\ key' = key /\ offered' = offered /\ last' = key
        BY <1>1, <1>2, <1>3, <3>2 DEF key, last_answered
      <4>2. \A j \in 1..at.key - 1 : offered[j] # key
        BY <1>1, <1>4 DEF BehindInv
      <4> QED
        BY <1>1, <3>2, <4>1, <4>2 DEF FirstAsked
    <3>3. CASE k # key
      <4>1. k \in DOMAIN answers /\ answers'[k] = answers[k]
        BY <1>3, <3>3
      <4>2. k \in locked \/ unlocks(k)
        BY <1>1, <1>4, <3>3, <4>1 DEF AnswersInv, FirstAsked
      <4>3. unlocks(k) => unlocks(k)'
        BY <4>1 DEF unlocks
      <4> QED
        BY <1>6, <4>2, <4>3
    <3> QED
      BY <3>1, <3>2, <3>3
  <2>3. \A k \in KeyFiles :
          /\ asks'[k] <= 1
          /\ asks'[k] > 0 => k \in DOMAIN answers' /\ opening'.command # "doctor"
    BY <1>1, <1>3, <1>4, <1>9 DEF AnswersInv
  <2> QED
    BY <2>1, <2>2, <2>3 DEF AnswersInv
<1>14. OutcomeInv' /\ NoKeyIsMisjudged' /\ CulpritFailed' /\ RightPassphraseIsNotCalledWrong'
  BY <1>1, <1>4, Unsaid
<1>15. AskedAtMostOnce'
  <2> SUFFICES ASSUME NEW k \in KeyFiles
               PROVE  asks'[k] <= (IF opening'.command = "doctor" THEN 0 ELSE 1)
    BY DEF AskedAtMostOnce
  <2>1. asks'[k] \in Nat
    BY <1>9
  <2> QED
    BY <1>13, <2>1 DEF AnswersInv
<1>16. SealsShut'
  BY <1>1, <1>4, Zenon DEF SealsShut
<1> QED
  BY <1>7, <1>11, <1>12, <1>13, <1>14, <1>15, <1>16 DEF SealingInv, OpeningIsFair

(* A key whose passphrase was asked for stays locked, unlocks, or ends the *)
(* opening: then it is the last one asked about, and for the first time.   *)
LEMMA TryAnsweredStep == ASSUME SealingInv, TryAnswered PROVE SealingInv'
<1>1. /\ pc = "trying" /\ at.key <= Len(offered) /\ key \in DOMAIN answers
      /\ UNCHANGED <<archive, opening, offered, skipped, answers, last, asks>>
  BY DEF TryAnswered
<1>2. CASE answers[key] = Refused /\ Advance /\ UNCHANGED <<pc, said, failed>>
  <2>1. key \in locked
    BY <1>1, <1>2 DEF locked
  <2> QED
    BY <1>1, <1>2, <2>1, GoesOn
<1>3. CASE unlocks(key) /\ Unwrap(TRUE) /\ UNCHANGED failed
  BY <1>1, <1>3, UnwrapStep
<1>4. CASE /\ answers[key] # Refused /\ ~unlocks(key)
           /\ failed' = at.key
           /\ Say([Outcome("not unlocked") EXCEPT !.culprit = {last}, !.untried = after(last)])
           /\ UNCHANGED at
  <2>1. /\ offered \in Seq(KeyFiles) /\ Len(offered) \in Nat /\ at.key \in 1..Len(offered)
        /\ key = offered[at.key] /\ key \in KeyFiles
    BY <1>1, Standing
  <2>2. FirstAsked(key)
    BY <1>1, <1>4 DEF SealingInv, AnswersInv, locked
  <2>3. last = key /\ last # Nobody
    BY <2>1, <2>2, SealingAssumption DEF FirstAsked
  <2>4. after(last) = {offered[i] : i \in at.key + 1..Len(offered)}
    <3> DEFINE Later == {i \in DOMAIN offered : \E j \in 1..i - 1 : offered[j] = last}
    <3>1. after(last) = {offered[i] : i \in Later}
      BY <2>3 DEF after
    <3>2. DOMAIN offered = 1..Len(offered)
      BY <2>1
    <3>3. ASSUME NEW i \in Later PROVE i \in at.key + 1..Len(offered)
      <4>1. PICK j \in 1..i - 1 : offered[j] = last
        OBVIOUS
      <4>2. i \in 1..Len(offered) /\ j \in Nat \ {0} /\ j < i
        BY <3>2, <4>1
      <4>3. ~(j \in 1..at.key - 1)
        BY <2>2, <2>3, <4>1 DEF FirstAsked
      <4> QED
        BY <2>1, <4>2, <4>3
    <3>4. ASSUME NEW i \in at.key + 1..Len(offered) PROVE i \in Later
      <4>1. i \in 1..Len(offered) /\ at.key \in 1..i - 1
        BY <2>1
      <4> QED
        BY <2>1, <2>3, <3>2, <4>1
    <3>5. Later = at.key + 1..Len(offered)
      <4> HIDE DEF Later
      <4>1. \A i \in Later : i \in at.key + 1..Len(offered)
        BY <3>3
      <4>2. \A i \in at.key + 1..Len(offered) : i \in Later
        BY <3>4
      <4> QED
        BY <4>1, <4>2
    <3> HIDE DEF Later
    <3> QED
      BY <3>1, <3>5
  <2>5. pc' = "said"
        /\ said' = [Outcome("not unlocked") EXCEPT !.culprit = {last}, !.untried = after(last)]
    BY <1>4 DEF Say
  <2>6. /\ said'.outcome = "not unlocked" /\ said'.culprit = {last}
        /\ said'.untried = after(last)
    BY <2>5 DEF Outcome, Silence
  <2>7. said' \in [outcome : Outcomes, culprit : SUBSET (KeyFiles \cup {Nobody}),
                   untried : SUBSET KeyFiles, locked : SUBSET KeyFiles]
    <3>1. \A i \in at.key + 1..Len(offered) : offered[i] \in KeyFiles
      BY <2>1
    <3>2. after(last) \subseteq KeyFiles
      BY <2>4, <3>1
    <3>3. Outcome("not unlocked") \in
            [outcome : Outcomes, culprit : SUBSET (KeyFiles \cup {Nobody}),
             untried : SUBSET KeyFiles, locked : SUBSET KeyFiles]
      BY OutcomeIs DEF Outcomes
    <3>4. {last} \in SUBSET (KeyFiles \cup {Nobody}) /\ after(last) \in SUBSET KeyFiles
      BY <2>1, <2>3, <3>2
    <3> QED
      BY <2>5, <3>3, <3>4
  <2>8. failed' \in 0..Len(offered)
    BY <1>4, <2>1
  <2>9. TypeOK' /\ StagesInv' /\ BehindInv' /\ AnswersInv' /\ AskedAtMostOnce' /\ SealsShut'
    BY <1>1, <1>4, <2>5, <2>7, <2>8, SaidOfKeys
  <2>10. CulpritFailed'
    <3>1. offered' = offered /\ failed' = at.key /\ answers' = answers
      BY <1>1, <1>4
    <3>2. ~(/\ kind[offered'[failed']] = "locked"
            /\ answers'[offered'[failed']] = lock[offered'[failed']])
      BY <1>4, <2>1, <3>1 DEF unlocks
    <3>3. said'.culprit = {offered'[failed']}
      BY <2>1, <2>3, <2>6, <3>1
    <3>4. said'.untried = {offered'[i] : i \in failed' + 1..Len(offered')}
      BY <2>4, <2>6, <3>1
    <3> QED
      BY <3>1, <3>2, <3>3, <3>4 DEF CulpritFailed, unlocks
  <2>11. OutcomeInv' /\ NoKeyIsMisjudged' /\ RightPassphraseIsNotCalledWrong'
    BY <2>6 DEF OutcomeInv, NoKeyIsMisjudged, RightPassphraseIsNotCalledWrong
  <2> QED
    BY <2>9, <2>10, <2>11 DEF SealingInv, OpeningIsFair
<1> QED
  BY <1>2, <1>3, <1>4 DEF TryAnswered

(* Every key was tried: the ones that would have opened the archive are    *)
(* among those that stayed locked.                                         *)
LEMMA NoKeyOpensStep == ASSUME SealingInv, NoKeyOpens PROVE SealingInv'
<1>1. /\ pc = "trying" /\ at.key > Len(offered) /\ pc' = "said" /\ said' = explain_NoMatch
      /\ UNCHANGED <<archive, opening, kvars>>
  BY DEF NoKeyOpens, Say
<1>2. /\ offered' = offered /\ skipped' = skipped /\ at' = at /\ answers' = answers
      /\ last' = last /\ failed' = failed /\ asks' = asks /\ archive' = archive
  BY <1>1 DEF kvars
<1>3. /\ offered \in Seq(KeyFiles) /\ at.key \in 1..Len(offered) + 1 /\ Len(offered) \in Nat
      /\ Range(offered) \subseteq KeyFiles /\ failed \in 0..Len(offered)
      /\ DOMAIN answers \subseteq Range(offered) /\ Range(offered) \subseteq KeyFiles
  BY RangeFacts DEF SealingInv, TypeOK
<1>4. locked \subseteq KeyFiles
  BY <1>3 DEF locked
<1>5. /\ said'.locked = locked
      /\ said'.outcome = IF locked # {} THEN "stayed locked" ELSE "none opens it"
      /\ said' \in [outcome : Outcomes, culprit : SUBSET (KeyFiles \cup {Nobody}),
                    untried : SUBSET KeyFiles, locked : SUBSET KeyFiles]
  <2>1. CASE locked # {}
    <3>1. said' = [Outcome("stayed locked") EXCEPT !.locked = locked]
      BY <1>1, <2>1 DEF explain_NoMatch
    <3> QED
      BY <1>4, <2>1, <3>1 DEF Outcome, Silence, Outcomes
  <2>2. CASE locked = {}
    <3>1. said' = Outcome("none opens it")
      BY <1>1, <2>2 DEF explain_NoMatch
    <3> QED
      BY <2>2, <3>1, OutcomeIs DEF Outcomes
  <2> QED
    BY <2>1, <2>2
<1>6. TypeOK' /\ StagesInv' /\ BehindInv' /\ AnswersInv' /\ AskedAtMostOnce' /\ SealsShut'
  BY <1>1, <1>2, <1>3, <1>5, SaidOfKeys
<1>7. NoKeyIsMisjudged'
  <2>1. Range(offered) \cap Range(archive.to) \subseteq locked
    <3> SUFFICES ASSUME NEW i \in DOMAIN offered, offered[i] \in Range(archive.to)
                 PROVE  offered[i] \in locked
      BY DEF Range
    <3>1. i \in 1..at.key - 1
      BY <1>1, <1>3
    <3> QED
      BY <3>1 DEF SealingInv, BehindInv
  <2> QED
    BY <1>2, <1>5, <2>1 DEF NoKeyIsMisjudged
<1>8. OutcomeInv' /\ CulpritFailed' /\ RightPassphraseIsNotCalledWrong'
  BY <1>5 DEF OutcomeInv, CulpritFailed, RightPassphraseIsNotCalledWrong
<1> QED
  BY <1>6, <1>7, <1>8 DEF SealingInv, OpeningIsFair

LEMMA ReturnStep == ASSUME SealingInv, Return PROVE SealingInv'
<1>1. /\ pc' = "idle" /\ said' = Silence /\ opening' = NoOpening /\ archive' = archive
      /\ NoKeys'
  BY DEF Return, NoKeys
<1>2. BehindInv' /\ AnswersInv' /\ AskedAtMostOnce'
  BY <1>1, Untried DEF NoKeys
<1>3. StagesInv'
  BY <1>1, OpeningSlots DEF StagesInv
<1>4. TypeOK'
  <2>1. /\ offered' = <<>> /\ skipped' = {} /\ at' = [key |-> 1, stanza |-> 1]
        /\ answers' = Unasked /\ last' = Nobody /\ failed' = 0
        /\ asks' = [k \in KeyFiles |-> 0]
    BY <1>1 DEF NoKeys
  <2>2. Range(offered') = {} /\ Range(opening'.left) = {} /\ opening' \in OpeningType
    BY <1>1, <2>1, RangeFacts, OpeningSlots
  <2>3. DOMAIN answers' = {}
    BY <2>1 DEF Unasked
  <2>4. said' \in [outcome : Outcomes, culprit : SUBSET (KeyFiles \cup {Nobody}),
                   untried : SUBSET KeyFiles, locked : SUBSET KeyFiles]
    BY <1>1 DEF Silence, Outcomes
  <2>5. archive' = NoArchive \/ archive' \in ArchiveType
    BY <1>1 DEF SealingInv, TypeOK
  <2> QED
    BY <1>1, <2>1, <2>2, <2>3, <2>4, <2>5 DEF TypeOK
<1>5. OutcomeInv' /\ NoKeyIsMisjudged' /\ CulpritFailed' /\ RightPassphraseIsNotCalledWrong'
  BY <1>1, Unsaid
<1>6. SealsShut'
  BY <1>1, Zenon DEF SealsShut, SealingInv
<1> QED
  BY <1>2, <1>3, <1>4, <1>5, <1>6 DEF SealingInv, OpeningIsFair

LEMMA Starts == Init => SealingInv
<1> SUFFICES ASSUME Init PROVE SealingInv
  OBVIOUS
<1>1. /\ pc = "idle" /\ archive = NoArchive /\ opening = NoOpening /\ said = Silence
      /\ offered = <<>> /\ skipped = {} /\ at = [key |-> 1, stanza |-> 1]
      /\ answers = Unasked /\ last = Nobody /\ failed = 0 /\ asks = [k \in KeyFiles |-> 0]
      /\ NoKeys
  BY DEF Init, NoKeys
<1>2. /\ Range(offered) = {} /\ Range(opening.left) = {} /\ opening \in OpeningType
      /\ DOMAIN answers = {} /\ 1..at.key - 1 = {} /\ 1..at.stanza - 1 = {}
  <2>1. at.key = 1 /\ at.stanza = 1
    BY <1>1
  <2>2. DOMAIN answers = {}
    BY <1>1 DEF Unasked
  <2>3. 1..at.key - 1 = {} /\ 1..at.stanza - 1 = {}
    BY <2>1
  <2>4. Range(offered) = {} /\ Range(opening.left) = {} /\ opening \in OpeningType
    BY <1>1, RangeFacts, OpeningSlots
  <2> QED
    BY <2>2, <2>3, <2>4
<1>3. said \in [outcome : Outcomes, culprit : SUBSET (KeyFiles \cup {Nobody}),
                untried : SUBSET KeyFiles, locked : SUBSET KeyFiles]
  BY <1>1 DEF Silence, Outcomes
<1>4. TypeOK
  BY <1>1, <1>2, <1>3 DEF TypeOK
<1>5. StagesInv
  BY <1>1, OpeningSlots DEF StagesInv
<1>6. BehindInv
  BY <1>2 DEF BehindInv
<1>7. AnswersInv /\ AskedAtMostOnce
  BY <1>1, <1>2 DEF AnswersInv, AskedAtMostOnce
<1>8. OutcomeInv /\ NoKeyIsMisjudged /\ CulpritFailed /\ RightPassphraseIsNotCalledWrong
  BY <1>1 DEF OutcomeInv, NoKeyIsMisjudged, CulpritFailed, RightPassphraseIsNotCalledWrong,
              Silence
<1>9. SealsShut
  BY <1>1 DEF SealsShut, NoArchive
<1> QED
  BY <1>4, <1>5, <1>6, <1>7, <1>8, <1>9 DEF SealingInv, OpeningIsFair

LEMMA Stutters == ASSUME SealingInv, UNCHANGED vars PROVE SealingInv'
<1>1. /\ pc' = pc /\ archive' = archive /\ opening' = opening /\ offered' = offered
      /\ skipped' = skipped /\ at' = at /\ answers' = answers /\ last' = last
      /\ failed' = failed /\ asks' = asks /\ said' = said
  BY DEF vars, kvars
<1>2. TypeOK' /\ OutcomeInv'
  BY <1>1 DEF SealingInv, TypeOK, OutcomeInv
<1>3. StagesInv'
  BY <1>1 DEF SealingInv, StagesInv, NoKeys
<1>4. BehindInv'
  BY <1>1 DEF SealingInv, BehindInv, locked, key
<1>5. AnswersInv'
  BY <1>1 DEF SealingInv, AnswersInv, unlocks, FirstAsked, locked, key
<1>6. OpeningIsFair'
  BY <1>1 DEF SealingInv, OpeningIsFair, NoKeyIsMisjudged, CulpritFailed, AskedAtMostOnce,
              RightPassphraseIsNotCalledWrong, unlocks
<1>7. SealsShut'
  BY <1>1, Zenon DEF SealingInv, SealsShut
<1> QED
  BY <1>2, <1>3, <1>4, <1>5, <1>6, <1>7 DEF SealingInv

(* Sealings and openings in any order keep the invariant: what age has     *)
(* behind it, whom it asked last, and what each outcome is owed to.        *)
THEOREM SealingInvariant == Spec => []SealingInv
<1>1. SealingInv /\ [Next]_vars => SealingInv'
  <2> SUFFICES ASSUME SealingInv, [Next]_vars PROVE SealingInv'
    OBVIOUS
  <2>1. CASE Create
    BY <2>1, CreateStep
  <2>2. CASE Open
    <3>1. pc = "idle"
      BY <2>2 DEF Open
    <3>2. CASE OpenWithPassphrase
      BY <3>1, <3>2, OpenWithPassphraseStep
    <3>3. CASE \E command \in {"restore", "doctor"} :
                 OpenPlain(command) \/ OpenDamaged(command) \/ OpenWithKeys(command)
      <4>1. PICK command \in {"restore", "doctor"} :
              OpenPlain(command) \/ OpenDamaged(command) \/ OpenWithKeys(command)
        BY <3>3
      <4>2. CASE OpenPlain(command)
        BY <3>1, <4>2, OpenPlainStep
      <4>3. CASE OpenDamaged(command)
        BY <3>1, <4>3, OpenDamagedStep
      <4>4. CASE OpenWithKeys(command)
        BY <3>1, <4>4, OpenWithKeysStep
      <4> QED
        BY <4>1, <4>2, <4>3, <4>4
    <3> QED
      BY <2>2, <3>2, <3>3 DEF Open
  <2>3. CASE ReadKey
    BY <2>3, ReadKeyStep
  <2>4. CASE AllRead
    BY <2>4, AllReadStep
  <2>5. CASE TryUnlocked
    BY <2>5, TryUnlockedStep
  <2>6. CASE RequestPassphrase
    BY <2>6, RequestPassphraseStep
  <2>7. CASE TryAnswered
    BY <2>7, TryAnsweredStep
  <2>8. CASE NoKeyOpens
    BY <2>8, NoKeyOpensStep
  <2>9. CASE Return
    BY <2>9, ReturnStep
  <2>10. CASE UNCHANGED vars
    BY <2>10, Stutters
  <2> QED
    BY <2>1, <2>2, <2>3, <2>4, <2>5, <2>6, <2>7, <2>8, <2>9, <2>10 DEF Next
<1> QED
  BY <1>1, Starts, PTL DEF Spec

(* Whoever opens an archive is asked no more than needed and told the      *)
(* truth about each key and about the passphrase, with any keys.           *)
THEOREM FairOpening == Spec => []OpeningIsFair
<1>1. SealingInv => OpeningIsFair
  BY DEF SealingInv
<1> QED
  BY <1>1, SealingInvariant, PTL

(* What the first key file still to read leaves of the rest.               *)
LEMMA HeadAndTail ==
  ASSUME NEW s \in Seq(KeyFiles), s # <<>>
  PROVE  Range(s) = {Head(s)} \cup Range(Tail(s))
<1>1. Len(s) \in Nat \ {0} /\ DOMAIN s = 1..Len(s) /\ Head(s) = s[1]
  OBVIOUS
<1>2. /\ DOMAIN Tail(s) = 1..Len(s) - 1 /\ Len(s) - 1 \in Nat
      /\ \A i \in 1..Len(s) - 1 : Tail(s)[i] = s[i + 1]
  BY <1>1
<1>3. ASSUME NEW x \in Range(s), x # Head(s) PROVE x \in Range(Tail(s))
  <2>1. PICK i \in 1..Len(s) : s[i] = x
    BY <1>1 DEF Range
  <2>2. i - 1 \in 1..Len(s) - 1 /\ Tail(s)[i - 1] = x
    BY <1>1, <1>2, <1>3, <2>1
  <2> QED
    BY <1>2, <2>2 DEF Range
<1>4. Head(s) \in Range(s) /\ Range(Tail(s)) \subseteq Range(s)
  BY RangeFacts
<1> QED
  BY <1>3, <1>4

(* Steps that read no key file: what was read stays what it was.           *)
LEMMA NothingRead ==
  ASSUME ReadInv, UNCHANGED <<archive, opening, offered, skipped>>,
         said.outcome # "no private key", said'.outcome # "no private key",
         pc = "trying"
  PROVE  ReadInv'
BY DEF ReadInv

(* Commands that read none: the archive is open to all, damaged, sealed    *)
(* with a passphrase, or no key file was given.                            *)
LEMMA NoneGiven ==
  ASSUME ReadInv, skipped' = skipped, pc' = "said", Range(opening'.files) = {},
         said'.outcome \notin {"no private key", "none can be used", "none opens it"}
  PROVE  ReadInv'
BY DEF ReadInv

(* Every key file offered is accounted for, with any files in any order:   *)
(* none that age can use is passed over while another remains to be tried. *)
THEOREM ReadInvariant == Spec => []ReadInv
<1>1. Init => ReadInv
  BY DEF Init, ReadInv, NoKeys, NoOpening, Silence
<1>2. SealingInv /\ ReadInv /\ [Next]_vars => ReadInv'
  <2> SUFFICES ASSUME SealingInv, ReadInv, [Next]_vars PROVE ReadInv'
    OBVIOUS
  <2>s. /\ pc # "said" => said = Silence
        /\ pc = "idle" => opening = NoOpening /\ skipped = {} /\ offered = <<>>
        /\ pc \in {"reading", "trying"} => archive.by = "recipients"
    BY DEF SealingInv, StagesInv, NoKeys
  <2>o. \A o \in Outcomes : Outcome(o).outcome = o
    BY OutcomeIs
  <2>q. Silence.outcome = "none"
    BY DEF Silence
  <2> CASE Create
    <3>1. pc = "idle" /\ UNCHANGED <<pc, opening, kvars, said>>
      BY DEF Create
    <3>2. opening'.command = "none" /\ skipped' = {} /\ said' = Silence /\ pc' = "idle"
      BY <2>s, <3>1 DEF NoOpening, kvars
    <3> QED
      BY <2>q, <3>2 DEF ReadInv
  <2> CASE Open
    <3>1. pc = "idle"
      BY DEF Open
    <3>2. CASE OpenWithPassphrase
      <4>1. PICK hand \in Hands :
              LET p == read_passphrase(hand, "Opening")
              IN  /\ opening' = [NoOpening EXCEPT !.command = "restore", !.hand = hand]
                  /\ Say(Outcome(IF p = Refused THEN "no passphrase" ELSE scrypt_verdict(p)))
        BY <3>2 DEF OpenWithPassphrase
      <4>2. Range(opening'.files) = {}
        BY <4>1, RangeFacts DEF NoOpening
      <4>3. /\ pc' = "said" /\ skipped' = skipped
            /\ said'.outcome \notin {"no private key", "none can be used", "none opens it"}
        BY <2>o, <3>2, <4>1 DEF OpenWithPassphrase, scrypt_verdict, Say, Outcomes, kvars
      <4> QED
        BY <4>2, <4>3, NoneGiven
    <3>3. ASSUME NEW command \in {"restore", "doctor"},
                 OpenPlain(command) \/ OpenDamaged(command)
          PROVE  ReadInv'
      <4>1. opening' = [NoOpening EXCEPT !.command = command] /\ skipped' = skipped
        BY <3>3 DEF OpenPlain, OpenDamaged, kvars
      <4>2. Range(opening'.files) = {}
        BY <4>1, RangeFacts DEF NoOpening
      <4>3. PICK o \in {"opened", "damaged", "no key"} : Say(Outcome(o))
        BY <3>3 DEF OpenPlain, OpenDamaged
      <4>4. pc' = "said" /\ said'.outcome = o
        BY <2>o, <4>3 DEF Say, Outcomes
      <4> QED
        BY <4>1, <4>2, <4>3, <4>4, NoneGiven
    <3>4. ASSUME NEW command \in {"restore", "doctor"}, OpenWithKeys(command)
          PROVE  ReadInv'
      <4>1. PICK files \in Offers, hand \in Hands :
              /\ opening' = [command |-> command, files |-> files, left |-> files,
                             hand |-> at_hand(command, hand)]
              /\ IF files = <<>> THEN Say(Outcome("no key"))
                 ELSE pc' = "reading" /\ UNCHANGED said
        BY <3>4 DEF OpenWithKeys
      <4>2. opening'.files = opening'.left /\ skipped' = skipped
        BY <3>4, <4>1 DEF OpenWithKeys, kvars
      <4>3. pc' # "trying" /\ said'.outcome \in {"no key", "none"} /\ opening'.command # "none"
        BY <2>s, <2>o, <2>q, <3>1, <4>1 DEF Say, Outcomes
      <4> QED
        BY <4>2, <4>3 DEF ReadInv
    <3> QED
      BY <3>2, <3>3, <3>4 DEF Open
  <2> CASE ReadKey
    <3> DEFINE k == Head(opening.left)
    <3>1. /\ pc = "reading" /\ opening.left # <<>> /\ archive' = archive
          /\ opening' = [opening EXCEPT !.left = Tail(@)]
      BY DEF ReadKey
    <3>2. opening \in OpeningType /\ offered \in Seq(KeyFiles)
      BY DEF SealingInv, TypeOK
    <3>3. /\ opening'.files = opening.files /\ opening'.left = Tail(opening.left)
          /\ opening'.command = opening.command
          /\ Range(opening.left) = {k} \cup Range(opening'.left) /\ k \in KeyFiles
      BY <3>1, <3>2, HeadAndTail, RangeFacts DEF OpeningType
    <3> HIDE DEF k
    <3>4. CASE /\ kind[k] = "unparsed" /\ Say([Outcome("no private key") EXCEPT !.culprit = {k}])
               /\ UNCHANGED <<offered, skipped>>
      <4>1. said'.outcome = "no private key" /\ said'.culprit = {k} /\ skipped' = skipped
            /\ pc' = "said" /\ k # Nobody
        BY <3>3, <3>4, SealingAssumption DEF Say, Outcome, Silence
      <4> QED
        BY <3>4, <4>1 DEF ReadInv
    <3>5. CASE /\ kind[k] = "unsupported" /\ skipped' = skipped \cup {k}
               /\ UNCHANGED <<pc, said, offered>>
      BY <2>s, <2>q, <3>1, <3>3, <3>5 DEF ReadInv
    <3>6. CASE /\ kind[k] \in {"age", "locked", "foreign"} /\ offered' = Append(offered, k)
               /\ UNCHANGED <<pc, said, skipped>>
      <4>1. Range(offered') = Range(offered) \cup {k}
        BY <3>2, <3>3, <3>6, RangeFacts
      <4> QED
        BY <2>s, <2>q, <3>1, <3>3, <3>6, <4>1 DEF ReadInv
    <3> QED
      BY <3>4, <3>5, <3>6 DEF ReadKey, k
  <2> CASE AllRead
    <3>1. pc = "reading" /\ opening.left = <<>>
          /\ UNCHANGED <<archive, opening, offered, skipped>>
      BY DEF AllRead
    <3>2. said'.outcome \in {"none", "none can be used"}
      BY <2>s, <2>o, <2>q, <3>1 DEF AllRead, Say, Outcomes
    <3>3. opening.command # "none" /\ archive.by = "recipients"
      BY <2>s, <3>1 DEF ReadInv
    <3> QED
      BY <2>s, <2>q, <3>1, <3>2, <3>3 DEF ReadInv
  <2> CASE TryUnlocked \/ TryAnswered
    <3>1. pc = "trying" /\ UNCHANGED <<archive, opening, offered, skipped>>
      BY DEF TryUnlocked, TryAnswered
    <3>2. \/ said' = said \/ said' = Outcome("opened")
          \/ said' = [Outcome("not unlocked") EXCEPT !.culprit = {last}, !.untried = after(last)]
      <4>1. ASSUME Unwrap(TRUE) PROVE said' = said \/ said' = Outcome("opened")
        BY <4>1, Zenon DEF Unwrap, Say
      <4>2. CASE TryUnlocked
        BY <4>1, <4>2 DEF TryUnlocked
      <4>3. CASE TryAnswered
        <5>1. CASE answers[key] = Refused
          BY <4>3, <5>1 DEF TryAnswered
        <5>2. CASE answers[key] # Refused /\ unlocks(key)
          BY <4>1, <4>3, <5>2 DEF TryAnswered
        <5>3. CASE answers[key] # Refused /\ ~unlocks(key)
          BY <4>3, <5>3 DEF TryAnswered, Say
        <5> QED
          BY <5>1, <5>2, <5>3
      <4> QED
        BY <4>2, <4>3
    <3>3. said'.outcome # "no private key"
      <4>1. CASE said' = said \/ said' = Outcome("opened")
        <5>1. Outcome("opened").outcome = "opened"
          BY DEF Outcome, Silence
        <5> QED
          BY <2>s, <2>q, <3>1, <4>1, <5>1
      <4>2. CASE said' = [Outcome("not unlocked")
                          EXCEPT !.culprit = {last}, !.untried = after(last)]
        <5>1. said'.outcome = "not unlocked"
          BY <4>2 DEF Outcome, Silence
        <5> QED
          BY <5>1
      <4> QED
        BY <3>2, <4>1, <4>2
    <3> QED
      BY <2>s, <2>q, <3>1, <3>3, NothingRead
  <2> CASE RequestPassphrase
    <3>1. pc = "trying" /\ UNCHANGED <<archive, opening, offered, skipped, said>>
      BY DEF RequestPassphrase
    <3> QED
      BY <2>s, <2>q, <3>1, NothingRead
  <2> CASE NoKeyOpens
    <3>1. pc = "trying" /\ UNCHANGED <<archive, opening, offered, skipped>>
      BY DEF NoKeyOpens, kvars
    <3>2. said'.outcome # "no private key"
      BY DEF NoKeyOpens, Say, explain_NoMatch, Outcome, Silence
    <3> QED
      BY <2>s, <2>q, <3>1, <3>2, NothingRead
  <2> CASE Return
    <3>1. /\ pc' = "idle" /\ said' = Silence /\ opening'.command = "none" /\ skipped' = {}
      BY DEF Return, NoOpening
    <3> QED
      BY <2>q, <3>1 DEF ReadInv
  <2> CASE UNCHANGED vars
    BY DEF vars, kvars, ReadInv
  <2> QED
    BY DEF Next
<1> QED
  BY <1>1, <1>2, SealingInvariant, PTL DEF Spec

(* `doctor` fails an archive only when it is open to all, damaged, or      *)
(* sealed to none of the key files offered that age can use, unless it     *)
(* names a file that holds no private key: that one ends the reading, so   *)
(* that a key offered beside it may well open the archive.                 *)
THEOREM FailIsEarned == Spec => []FailMeansUnopenable
<1>1. SealingInv /\ ReadInv => FailMeansUnopenable
  <2> SUFFICES ASSUME SealingInv, ReadInv, reported, verdict(said.outcome) = "fail"
               PROVE  \/ archive.by = "none" \/ ~archive.sound
                      \/ said.outcome = "no private key" /\ \E k \in said.culprit : kind[k] = "unparsed"
                      \/ \A k \in Range(opening.files) : usable(k) => k \notin Range(archive.to)
    BY DEF FailMeansUnopenable
  <2>1. opening.command = "doctor" /\ pc = "said" /\ said.outcome \in Outcomes /\ OutcomeInv
    BY DEF reported, SealingInv, TypeOK
  <2>2. said.outcome # "no key" /\ said.outcome # "stayed locked" /\ said.outcome # "not unlocked"
    BY DEF verdict
  <2>3. said.outcome = "opened" => archive.by = "none"
    BY DEF verdict
  <2>4. CASE said.outcome \in {"none can be used", "none opens it"}
    <3>1. opening.left = <<>> /\ Range(opening.files) \subseteq Range(offered) \cup skipped
      BY <2>4, RangeFacts DEF ReadInv
    <3>2. Range(offered) \cap Range(archive.to) = {}
      BY <2>1, <2>4, RangeFacts DEF OutcomeInv, SealingInv, OpeningIsFair, NoKeyIsMisjudged
    <3>3. \A k \in skipped : ~usable(k)
      BY DEF ReadInv, usable
    <3> QED
      BY <3>1, <3>2, <3>3
  <2>5. CASE said.outcome = "no private key"
    BY <2>5 DEF ReadInv
  <2>6. CASE said.outcome = "damaged"
    BY <2>1, <2>6 DEF OutcomeInv
  <2>7. said.outcome \notin {"no passphrase", "wrong passphrase", "too much work"}
    BY <2>1 DEF OutcomeInv
  <2>8. said.outcome # "none"
    BY <2>1 DEF OutcomeInv
  <2> QED
    BY <2>1, <2>2, <2>3, <2>4, <2>5, <2>6, <2>7, <2>8 DEF Outcomes
<1> QED
  BY <1>1, SealingInvariant, ReadInvariant, PTL

(* An archive is open to all only where that was asked for, and a          *)
(* passphrase it is sealed with is not empty and was typed twice alike.    *)
THEOREM ShutSeals == Spec => []SealsShut
<1>1. SealingInv => SealsShut
  BY DEF SealingInv
<1> QED
  BY <1>1, SealingInvariant, PTL
=============================================================================
