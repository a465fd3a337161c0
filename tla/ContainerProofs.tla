-------------------------- MODULE ContainerProofs --------------------------
(***************************************************************************)
(* What an archive file is good for, whatever the hands, the lengths and   *)
(* the limits, however the home changed under the run and whatever became  *)
(* of the file since.                                                      *)
(***************************************************************************)
EXTENDS Container, FiniteSetTheorems, SequenceTheorems, WellFoundedInduction, TLAPS

----------------------------------------------------------------------------
(* Sequences.                                                              *)

(* A bounded sequence is a sequence within its bound.                      *)
LEMMA Bounded ==
  ASSUME NEW S, NEW n \in Nat
  PROVE  \A c : c \in BoundedSeq(S, n) <=> c \in Seq(S) /\ Len(c) <= n
<1>1. ASSUME NEW c \in BoundedSeq(S, n) PROVE c \in Seq(S) /\ Len(c) <= n
  <2>1. PICK m \in 0..n : c \in [1..m -> S]
    BY <1>1 DEF BoundedSeq, SeqOf
  <2>2. c \in Seq(S)
    BY <2>1, SeqDef
  <2>3. Len(c) = m
    BY <2>1, <2>2, LenProperties
  <2>4. QED
    BY <2>1, <2>2, <2>3
<1>2. ASSUME NEW c \in Seq(S), Len(c) <= n PROVE c \in BoundedSeq(S, n)
  <2>1. Len(c) \in 0..n /\ c \in [1..Len(c) -> S]
    BY <1>2, LenProperties
  <2>2. QED
    BY <2>1 DEF BoundedSeq, SeqOf
<1>3. QED
  BY <1>1, <1>2

(* One hand, any number of blocks.                                         *)
LEMMA WrittenIs ==
  ASSUME NEW S, NEW h \in S, NEW n \in Nat
  PROVE  /\ Written(h, n) \in Seq(S) /\ Len(Written(h, n)) = n
         /\ DOMAIN Written(h, n) = 1..n /\ \A k \in 1..n : Written(h, n)[k] = h
<1>1. Written(h, n) \in [1..n -> S]
  BY DEF Written
<1>2. Written(h, n) \in Seq(S)
  BY <1>1, SeqDef
<1>3. QED
  BY <1>1, <1>2, LenProperties DEF Written

(* The first of what is left is taken off it.                              *)
LEMMA TakenOff ==
  ASSUME NEW S, NEW s \in Seq(S), s # <<>>, \A i, j \in DOMAIN s : s[i] = s[j] => i = j
  PROVE  /\ Head(s) \in S /\ Tail(s) \in Seq(S) /\ Range(s) = {Head(s)} \cup Range(Tail(s))
         /\ Head(s) \notin Range(Tail(s))
         /\ \A i, j \in DOMAIN Tail(s) : Tail(s)[i] = Tail(s)[j] => i = j
<1>1. /\ Head(s) = s[1] /\ Len(s) \in Nat \ {0} /\ DOMAIN s = 1..Len(s)
      /\ Head(s) \in S /\ Tail(s) \in Seq(S) /\ Len(Tail(s)) = Len(s) - 1
      /\ DOMAIN Tail(s) = 1..(Len(s) - 1)
      /\ \A i \in 1..(Len(s) - 1) : Tail(s)[i] = s[i + 1]
  BY HeadTailProperties, LenProperties, EmptySeq
<1>2. \A x : x \in Range(s) <=> \E i \in 1..Len(s) : x = s[i]
  BY <1>1 DEF Range
<1>3. \A x : x \in Range(Tail(s)) <=> \E i \in 1..(Len(s) - 1) : x = s[i + 1]
  <2> SUFFICES ASSUME NEW x
               PROVE  x \in Range(Tail(s)) <=> \E i \in 1..(Len(s) - 1) : x = s[i + 1]
    OBVIOUS
  <2>1. x \in Range(Tail(s)) <=> \E i \in DOMAIN Tail(s) : x = Tail(s)[i]
    BY DEF Range
  <2>2. (\E i \in DOMAIN Tail(s) : x = Tail(s)[i]) <=> \E i \in 1..(Len(s) - 1) : x = s[i + 1]
    BY <1>1
  <2>3. QED
    BY <2>1, <2>2
<1>4. \A x : x \in Range(s) <=> x = s[1] \/ \E i \in 1..(Len(s) - 1) : x = s[i + 1]
  <2>1. ASSUME NEW i \in 1..Len(s), i # 1
        PROVE  \E j \in 1..(Len(s) - 1) : s[i] = s[j + 1]
    <3>1. i - 1 \in 1..(Len(s) - 1) /\ (i - 1) + 1 = i
      BY <1>1, <2>1
    <3>2. QED
      BY <3>1
  <2>2. ASSUME NEW i \in 1..(Len(s) - 1) PROVE i + 1 \in 1..Len(s)
    BY <1>1
  <2>3. 1 \in 1..Len(s)
    BY <1>1
  <2>4. QED
    BY <1>2, <2>1, <2>2, <2>3
<1>5. Range(s) = {Head(s)} \cup Range(Tail(s))
  BY <1>1, <1>3, <1>4
<1>6. Head(s) \notin Range(Tail(s))
  <2>1. \A i \in 1..(Len(s) - 1) : i + 1 \in DOMAIN s /\ i + 1 # 1 /\ 1 \in DOMAIN s
    BY <1>1
  <2>2. QED
    BY <1>1, <1>3, <2>1
<1>7. ASSUME NEW i \in DOMAIN Tail(s), NEW j \in DOMAIN Tail(s), Tail(s)[i] = Tail(s)[j] PROVE i = j
  <2>1. i + 1 \in DOMAIN s /\ j + 1 \in DOMAIN s /\ s[i + 1] = s[j + 1]
    BY <1>1, <1>7
  <2>2. QED
    BY <1>1, <2>1
<1>8. QED
  BY <1>1, <1>5, <1>6, <1>7

(* Everything but one.                                                     *)
LEMMA Removed ==
  ASSUME NEW S, NEW s \in Seq(S), NEW i \in 1..Len(s)
  PROVE  RemoveAt(s, i) \in Seq(S)
<1>1. Len(s) \in Nat /\ \A k \in 1..Len(s) : s[k] \in S
  BY LenProperties
<1>2. SubSeq(s, 1, i - 1) \in Seq(S) /\ SubSeq(s, i + 1, Len(s)) \in Seq(S)
  <2>1. \A k \in 1..(i - 1) : s[k] \in S
    BY <1>1
  <2>2. \A k \in (i + 1)..Len(s) : s[k] \in S
    BY <1>1
  <2>3. i - 1 \in Int /\ i + 1 \in Int /\ Len(s) \in Int /\ 1 \in Int
    BY <1>1
  <2>4. QED
    BY <2>1, <2>2, <2>3, SubSeqProperties
<1>3. QED
  BY <1>2, ConcatProperties DEF RemoveAt

(* The beginning of it.                                                    *)
LEMMA Beginning ==
  ASSUME NEW S, NEW s \in Seq(S), NEW n \in 0..Len(s)
  PROVE  SubSeq(s, 1, n) \in Seq(S)
<1>1. \A k \in 1..n : s[k] \in S
  BY LenProperties
<1>2. QED
  BY <1>1, SubSeqProperties

(* Among the places of a sequence that meet a condition there is a last.   *)
LEMMA LastOf ==
  ASSUME NEW n \in Nat, NEW T \in SUBSET (1..n), T # {}
  PROVE  \E i \in T : \A j \in T : j <= i
<1> DEFINE R == {ss \in Nat \X Nat : ss[1] < ss[2]}
           D == {n - j : j \in T}
<1>1. D \in SUBSET Nat /\ D # {}
  <2>1. \A j \in T : n - j \in Nat
    OBVIOUS
  <2>2. PICK j \in T : TRUE
    OBVIOUS
  <2>3. n - j \in D
    OBVIOUS
  <2>4. QED
    BY <2>1, <2>3
<1>2. PICK x \in D : \A y \in D : ~ (<<y, x>> \in R)
  <2>1. IsWellFoundedOn(R, Nat)
    BY NatLessThanWellFounded DEF OpToRel
  <2>2. \E x \in D : \A y \in D : ~ (<<y, x>> \in R)
    <3> HIDE DEF R, D
    <3>1. QED
      BY <1>1, <2>1, WFMin
  <2>3. QED
    BY <2>2
<1>3. PICK i \in T : x = n - i
  BY DEF D
<1>4. ASSUME NEW j \in T PROVE j <= i
  <2>1. n - j \in D /\ n - j \in Nat /\ x \in Nat
    BY <1>1
  <2>2. ~ (n - j < x)
    BY <1>2, <2>1
  <2>3. QED
    BY <1>3, <2>1, <2>2
<1>5. QED
  BY <1>3, <1>4

----------------------------------------------------------------------------
(* Types.                                                                  *)

(* What is read out of a file is what may lie in one.                      *)
LEMMA Contents ==
  /\ \A c : c \in Content <=> c \in Seq(Hands \cup {Rot}) /\ Len(c) <= MaxLen
  /\ \A c : c \in BoundedSeq(Hands, MaxLen) <=> c \in Seq(Hands) /\ Len(c) <= MaxLen
  /\ BoundedSeq(Hands, MaxLen) \subseteq Content
<1>1. MaxLen \in Nat
  BY ContainerAssumption
<1>2. \A c : c \in Content <=> c \in Seq(Hands \cup {Rot}) /\ Len(c) <= MaxLen
  BY <1>1, Bounded DEF Content
<1>3. \A c : c \in BoundedSeq(Hands, MaxLen) <=> c \in Seq(Hands) /\ Len(c) <= MaxLen
  BY <1>1, Bounded
<1>4. \A c : c \in Seq(Hands) => c \in Seq(Hands \cup {Rot})
  BY SeqMonotonic
<1>5. QED
  BY <1>2, <1>3, <1>4

(* Nothing, and a single block.                                            *)
LEMMA Short ==
  /\ <<>> \in BoundedSeq(Hands, MaxLen)
  /\ \A h \in Hands : <<h>> \in Content
<1>1. <<>> \in Seq(Hands) /\ Len(<<>>) <= MaxLen
  BY EmptySeq, ContainerAssumption
<1>2. ASSUME NEW h \in Hands PROVE <<h>> \in Content
  <2>1. <<h>> \in Seq(Hands \cup {Rot}) /\ Len(<<h>>) <= MaxLen
    BY ContainerAssumption
  <2>2. QED
    BY <2>1, Contents, Zenon
<1>3. <<>> \in BoundedSeq(Hands, MaxLen)
  BY <1>1, Contents, Zenon
<1>4. QED
  BY <1>2, <1>3

(* The order of adding names every path once, the keys among them.         *)
LEMMA OrderIs ==
  ASSUME NEW s \in {Order, Unbundled}
  PROVE  /\ s \in Seq(Paths) /\ Keys \subseteq Range(s)
         /\ \A i, j \in DOMAIN s : s[i] = s[j] => i = j
<1>1. CASE s = Order
  <2>1. s \in Seq(Paths)
    BY <1>1 DEF Order, Paths, Files, Live, Copied
  <2>2. QED
    BY <1>1, <2>1 DEF Order, Range, Keys
<1>2. CASE s = Unbundled
  <2>1. s \in Seq(Paths)
    BY <1>2 DEF Unbundled, Paths, Files, Live, Copied
  <2>2. QED
    BY <1>2, <2>1 DEF Unbundled, Range, Keys
<1>3. QED
  BY <1>1, <1>2

(* The words on a home are an identity or none, and a count.               *)
LEMMA WordsOn ==
  /\ \A c : owner(c) \in Hands \cup {None}
  /\ \A c \in BoundedSeq(Hands, MaxLen) : count(c) \in Hands
<1>1. \A c : owner(c) \in Hands \cup {None}
  BY DEF owner
<1>2. ASSUME NEW c \in BoundedSeq(Hands, MaxLen) PROVE count(c) \in Hands
  <2>1. c \in Seq(Hands)
    BY Contents
  <2>2. c # <<>> => 1 \in 1..Len(c) /\ c[1] \in Hands
    BY <2>1, EmptySeq, ElementOfSeq
  <2>3. QED
    BY <2>2, ContainerAssumption DEF count
<1>3. QED
  BY <1>1, <1>2

(* A file in one hand is owned by it, ...                                  *)
LEMMA OneHand ==
  ASSUME NEW h \in Hands, NEW n \in Nat \ {0}
  PROVE  owner(Written(h, n)) = h /\ count(Written(h, n)) = h /\ Written(h, n) # <<>>
<1>1. /\ Written(h, n) \in Seq(Hands) /\ Len(Written(h, n)) = n
      /\ DOMAIN Written(h, n) = 1..n /\ \A k \in 1..n : Written(h, n)[k] = h
  BY WrittenIs
<1>2. Written(h, n) # <<>>
  BY <1>1, EmptySeq
<1>3. 1 \in 1..n /\ Written(h, n)[1] = h
  BY <1>1
<1>4. Range(Written(h, n)) = {h}
  BY <1>1, <1>3 DEF Range
<1>5. QED
  BY <1>2, <1>3, <1>4 DEF owner, count

(* ... and one may be added to the stream.                                 *)
LEMMA EntryIs ==
  \A p \in Paths \cup Strays, n \in 0..MaxLen, c \in Content :
    [path |-> p, size |-> n, content |-> c] \in Entries
BY DEF Entries

(* A file that is there is not the file that is not.                       *)
LEMMA IsThere == \A f : IsArchive(f) => f # Quiet
<1> SUFFICES ASSUME NEW f, IsArchive(f) PROVE f # Quiet
  OBVIOUS
<1>1. DOMAIN f = Parts
  BY DEF IsArchive
<1>2. DOMAIN Quiet = {"by"}
  BY DEF Quiet
<1>3. "items" \in Parts
  BY DEF Parts
<1>4. QED
  BY <1>1, <1>2, <1>3

(* What may become of a file: it stays an archive, its record names the    *)
(* same entries, and a word of it is what it was or misread.               *)
SameButDecayed(f, new) ==
  /\ IsArchive(new) /\ DOMAIN new.entries = DOMAIN f.entries
  /\ \A p \in DOMAIN f.entries : new.entries[p] \in {f.entries[p], <<Misread>>}
  /\ new.told.did \in {f.told.did, Misread}

(* One entry of a stream gone bad, as written in the model.                *)
LEMMA Decayed ==
  ASSUME NEW f, IsArchive(f), NEW i \in DOMAIN f.items, NEW k \in DOMAIN f.items[i].content
  PROVE  LET new == [f EXCEPT !.items[i].content[k] = Rot]
             bad == [f.items[i] EXCEPT !.content = [f.items[i].content EXCEPT ![k] = Rot]]
         IN  new = [f EXCEPT !.items = [f.items EXCEPT ![i] = bad]] /\ bad \in Entries
<1>1. f.items \in Seq(Entries) /\ f.items[i] \in Entries
  BY ElementOfSeq, LenProperties DEF IsArchive
<1> DEFINE c == f.items[i].content
           d == [c EXCEPT ![k] = Rot]
<1>2. c \in Seq(Hands \cup {Rot}) /\ Len(c) <= MaxLen
  BY <1>1, Contents DEF Entries
<1>3. k \in 1..Len(c)
  BY <1>2, LenProperties
<1>4. d \in Seq(Hands \cup {Rot}) /\ Len(d) = Len(c)
  BY <1>2, <1>3, ExceptSeq
<1>5. d \in Content
  BY <1>2, <1>4, Contents
<1> HIDE DEF d
<1>6. [f.items[i] EXCEPT !.content = d] \in Entries
  BY <1>1, <1>5 DEF Entries
<1>7. [f EXCEPT !.items[i].content[k] = Rot]
       = [f EXCEPT !.items = [f.items EXCEPT ![i] =
                                [f.items[i] EXCEPT !.content = [c EXCEPT ![k] = Rot]]]]
  OBVIOUS
<1>8. QED
  BY <1>6, <1>7 DEF d

(* Whatever happens to a finished file, it is the same but decayed.        *)
LEMMA Harmed ==
  ASSUME TypeOK, HarmStep
  PROVE  /\ SameButDecayed(file, file') /\ IsArchive(file) /\ pc = "finished"
         /\ damaged' = TRUE /\ vouched' = FALSE /\ heard = Quiet /\ heard' = Quiet
         /\ changes' \in 0..MaxChanges /\ UNCHANGED rvars
<1>1. IsArchive(file) /\ pc = "finished"
  BY DEF TypeOK, HarmStep
<1>2. /\ file = [part \in Parts |-> file[part]]
      /\ file.items \in Seq(Entries) /\ DOMAIN file.entries \subseteq Paths
      /\ file.entries \in [DOMAIN file.entries -> Content \cup {<<Misread>>}]
      /\ file.told \in Words /\ file.carries \in BOOLEAN /\ file.closed \in BOOLEAN
      /\ file.record \in {"read", "garbled", "none"}
  BY <1>1 DEF IsArchive
<1>3. Len(file.items) \in Nat /\ DOMAIN file.items = 1..Len(file.items)
  BY <1>2, LenProperties
<1>4. ASSUME NEW new, Harm(new), SameButDecayed(file, new)
      PROVE  /\ SameButDecayed(file, file')
             /\ damaged' = TRUE /\ vouched' = FALSE /\ heard = Quiet /\ heard' = Quiet
             /\ changes' \in 0..MaxChanges /\ UNCHANGED rvars
  BY <1>4, ContainerAssumption DEF Harm, TypeOK
<1>5. CASE Cut
  <2>1. PICK n \in 0..Len(file.items) :
          Harm([file EXCEPT !.items = SubSeq(@, 1, n), !.closed = FALSE, !.record = "none"])
    BY <1>5 DEF Cut
  <2> DEFINE s == SubSeq(file.items, 1, n)
             new == [file EXCEPT !.items = s, !.closed = FALSE, !.record = "none"]
  <2>2. s \in Seq(Entries)
    BY <1>2, Beginning
  <2>3. Harm(new)
    BY <2>1
  <2>4. /\ new = [part \in Parts |-> new[part]] /\ new.items = s
        /\ new.closed = FALSE /\ new.record = "none"
        /\ new.entries = file.entries /\ new.told = file.told /\ new.carries = file.carries
    BY <1>2 DEF Parts
  <2> HIDE DEF new, s
  <2>5. SameButDecayed(file, new)
    BY <1>2, <2>2, <2>4 DEF SameButDecayed, IsArchive
  <2>6. QED
    BY <1>1, <1>4, <2>3, <2>5
<1>6. ASSUME NEW s \in Seq(Entries), Harm([file EXCEPT !.items = s])
      PROVE  \E new : Harm(new) /\ SameButDecayed(file, new)
  <2> DEFINE new == [file EXCEPT !.items = s]
  <2>1. /\ new = [part \in Parts |-> new[part]] /\ new.items = s
        /\ new.closed = file.closed /\ new.record = file.record
        /\ new.entries = file.entries /\ new.told = file.told /\ new.carries = file.carries
    BY <1>2 DEF Parts
  <2>2. Harm(new)
    BY <1>6
  <2> HIDE DEF new
  <2>3. SameButDecayed(file, new)
    BY <1>2, <1>6, <2>1 DEF SameButDecayed, IsArchive
  <2>4. QED
    BY <2>2, <2>3
<1>7. CASE Decay
  <2>0. PICK i \in DOMAIN file.items :
          \E k \in DOMAIN file.items[i].content : Harm([file EXCEPT !.items[i].content[k] = Rot])
    BY <1>7 DEF Decay
  <2>1. PICK k \in DOMAIN file.items[i].content : Harm([file EXCEPT !.items[i].content[k] = Rot])
    BY <2>0
  <2> DEFINE bad == [file.items[i] EXCEPT !.content = [file.items[i].content EXCEPT ![k] = Rot]]
             s == [file.items EXCEPT ![i] = bad]
  <2>2. bad \in Entries /\ Harm([file EXCEPT !.items = s])
    BY <1>1, <2>1, Decayed
  <2> HIDE DEF bad
  <2>3. s \in Seq(Entries)
    BY <1>2, <1>3, <2>2, ExceptSeq
  <2>4. QED
    BY <1>1, <1>4, <1>6, <2>2, <2>3
<1>8. CASE Drop
  <2>1. PICK i \in 1..Len(file.items) : Harm([file EXCEPT !.items = RemoveAt(@, i)])
    BY <1>3, <1>8 DEF Drop
  <2>2. RemoveAt(file.items, i) \in Seq(Entries)
    BY <1>2, Removed
  <2>3. QED
    BY <1>1, <1>4, <1>6, <2>1, <2>2
<1>9. CASE AddAgain
  <2>1. PICK p \in Strays \cup {file.items[i].path : i \in DOMAIN file.items}, h \in Hands :
          Harm([file EXCEPT !.items = Append(@, [path |-> p, size |-> 1, content |-> <<h>>])])
    BY <1>9 DEF AddAgain
  <2>2. \A i \in DOMAIN file.items : file.items[i] \in Entries
    BY <1>2, <1>3, ElementOfSeq
  <2>3. p \in Paths \cup Strays /\ 1 \in 0..MaxLen
    BY <2>2, ContainerAssumption DEF Entries
  <2>4. <<h>> \in Content
    BY Short
  <2>5. Append(file.items, [path |-> p, size |-> 1, content |-> <<h>>]) \in Seq(Entries)
    BY <1>2, <2>3, <2>4, EntryIs, AppendProperties
  <2>6. QED
    BY <1>1, <1>4, <1>6, <2>1, <2>5
<1>10. CASE Harm([file EXCEPT !.record = "garbled"])
  <2> DEFINE new == [file EXCEPT !.record = "garbled"]
  <2>1. /\ new = [part \in Parts |-> new[part]] /\ new.record = "garbled"
        /\ new.items = file.items /\ new.closed = file.closed
        /\ new.entries = file.entries /\ new.told = file.told /\ new.carries = file.carries
    BY <1>2 DEF Parts
  <2>2. Harm(new)
    BY <1>10
  <2> HIDE DEF new
  <2>3. SameButDecayed(file, new)
    BY <1>2, <2>1 DEF SameButDecayed, IsArchive
  <2>4. QED
    BY <1>1, <1>4, <2>2, <2>3
<1>11. ASSUME NEW p \in DOMAIN file.entries, Harm([file EXCEPT !.entries[p] = <<Misread>>])
       PROVE  \E new : Harm(new) /\ SameButDecayed(file, new)
  <2> DEFINE e == [file.entries EXCEPT ![p] = <<Misread>>]
             new == [file EXCEPT !.entries = e]
  <2>1. /\ new = [part \in Parts |-> new[part]] /\ new.entries = e
        /\ new.items = file.items /\ new.closed = file.closed /\ new.record = file.record
        /\ new.told = file.told /\ new.carries = file.carries
    BY <1>2 DEF Parts
  <2>2. Harm(new)
    BY <1>11
  <2>3. /\ DOMAIN e = DOMAIN file.entries
        /\ e \in [DOMAIN file.entries -> Content \cup {<<Misread>>}]
        /\ \A q \in DOMAIN file.entries : e[q] \in {file.entries[q], <<Misread>>}
    BY <1>2
  <2> HIDE DEF new, e
  <2>4. SameButDecayed(file, new)
    BY <1>2, <2>1, <2>3 DEF SameButDecayed, IsArchive
  <2>5. QED
    BY <2>2, <2>4
<1>12. ASSUME NEW w \in {"did", "node", "seeded"}, Harm([file EXCEPT !.told[w] = Misread])
       PROVE  \E new : Harm(new) /\ SameButDecayed(file, new)
  <2> DEFINE t == [file.told EXCEPT ![w] = Misread]
             new == [file EXCEPT !.told = t]
  <2>1. /\ new = [part \in Parts |-> new[part]] /\ new.told = t
        /\ new.items = file.items /\ new.closed = file.closed /\ new.record = file.record
        /\ new.entries = file.entries /\ new.carries = file.carries
    BY <1>2 DEF Parts
  <2>2. Harm(new)
    BY <1>12
  <2>3. t \in Words /\ t.did \in {file.told.did, Misread}
    BY <1>2, <1>12 DEF Words
  <2> HIDE DEF new, t
  <2>4. SameButDecayed(file, new)
    BY <1>2, <2>1, <2>3 DEF SameButDecayed, IsArchive
  <2>5. QED
    BY <2>2, <2>4
<1>13. CASE DecayOfRecord
  BY <1>1, <1>4, <1>10, <1>11, <1>12, <1>13 DEF DecayOfRecord
<1>14. QED
  BY <1>5, <1>7, <1>8, <1>9, <1>13 DEF HarmStep

(* The record of a stream lists what is in it, as it is there.             *)
LEMMA EntriesOf ==
  ASSUME NEW s \in Seq(Entries)
  PROVE  /\ DOMAIN entries(s) = {s[i].path : i \in DOMAIN s}
         /\ \A p \in DOMAIN entries(s) : \E i \in DOMAIN s : s[i].path = p /\ entries(s)[p] = s[i].content
         /\ entries(s) \in [DOMAIN entries(s) -> Content]
<1>1. /\ DOMAIN entries(s) = {s[i].path : i \in DOMAIN s}
      /\ \A p \in DOMAIN entries(s) :
           entries(s)[p] = s[CHOOSE i \in DOMAIN s : s[i].path = p].content
      /\ entries(s) = [p \in DOMAIN entries(s) |-> entries(s)[p]]
  BY DEF entries
<1>2. \A p \in DOMAIN entries(s) : \E i \in DOMAIN s : s[i].path = p
  BY <1>1
<1>3. ASSUME NEW p \in DOMAIN entries(s)
      PROVE  \E i \in DOMAIN s : s[i].path = p /\ entries(s)[p] = s[i].content
  <2> DEFINE i == CHOOSE i \in DOMAIN s : s[i].path = p
  <2>1. i \in DOMAIN s /\ s[i].path = p
    BY <1>2
  <2>2. QED
    BY <1>1, <2>1
<1>4. \A i \in DOMAIN s : s[i].content \in Content
  <2>1. \A i \in DOMAIN s : s[i] \in Entries
    BY LenProperties, ElementOfSeq
  <2>2. QED
    BY <2>1 DEF Entries
<1>5. QED
  BY <1>1, <1>3, <1>4

(* The initial states have the types, ...                                  *)
LEMMA TypeInitially == Init => TypeOK
<1> SUFFICES ASSUME Init PROVE TypeOK
  OBVIOUS
<1>1. PICK n \in 1..MaxLen, absent \in SUBSET {"config.json", "policies.db"} :
        home = [p \in Files |-> IF p \in absent THEN <<>> ELSE Written(0, n)]
  BY DEF Init
<1>2. n \in Nat \ {0} /\ n <= MaxLen /\ 0 \in Hands /\ MaxLen \in Nat
  BY ContainerAssumption
<1>3. Written(0, n) \in BoundedSeq(Hands, MaxLen)
  BY <1>2, WrittenIs, Contents
<1>4. <<>> \in BoundedSeq(Hands, MaxLen)
  BY Short
<1>5. home \in [Files -> BoundedSeq(Hands, MaxLen)]
  BY <1>1, <1>3, <1>4
<1>6. copy \in [size : 0..MaxLen, got : BoundedSeq(Hands, MaxLen)]
  BY <1>2, <1>4 DEF Init
<1>7. left \in Seq(Paths) /\ stream \in Seq(Entries)
  BY EmptySeq DEF Init
<1>8. changes \in 0..MaxChanges
  BY ContainerAssumption DEF Init
<1>9. QED
  BY <1>5, <1>6, <1>7, <1>8 DEF Init, TypeOK

(* ... every step of the run keeps them, ...                               *)
LEMMA PutTypes ==
  ASSUME TypeOK, left # <<>>, NEW p \in Paths, NEW n \in 0..MaxLen, NEW c \in Content, Put(p, n, c)
  PROVE  stream' \in Seq(Entries) /\ left' \in Seq(Paths)
<1>1. [path |-> p, size |-> n, content |-> c] \in Entries
  BY EntryIs
<1>2. stream \in Seq(Entries) /\ left \in Seq(Paths)
  BY DEF TypeOK
<1>3. Append(stream, [path |-> p, size |-> n, content |-> c]) \in Seq(Entries)
  BY <1>1, <1>2, AppendProperties
<1>4. Tail(left) \in Seq(Paths)
  BY <1>2, HeadTailProperties
<1>5. QED
  BY <1>3, <1>4 DEF Put

LEMMA TypeOfRun ==
  ASSUME TypeOK, StreamInv, RunStep
  PROVE  TypeOK'
<1>t. /\ home \in [Files -> BoundedSeq(Hands, MaxLen)]
      /\ left \in Seq(Paths) /\ stream \in Seq(Entries)
      /\ copy \in [size : 0..MaxLen, got : BoundedSeq(Hands, MaxLen)]
      /\ told \in Words \cup {Quiet} /\ (AtWork => told # Quiet /\ file = Quiet)
  BY DEF TypeOK, AtWork
<1>m. MaxLen \in Nat /\ 1 \in 0..MaxLen /\ 0 \in 0..MaxLen
  BY ContainerAssumption
<1>h. ASSUME NEW p \in Files
      PROVE  /\ home[p] \in Content /\ home[p] \in Seq(Hands)
             /\ Len(home[p]) \in Nat /\ Len(home[p]) <= MaxLen
  <2>1. home[p] \in BoundedSeq(Hands, MaxLen)
    BY <1>t, <1>h
  <2>2. QED
    BY <2>1, Contents, LenProperties
<1>1. CASE Describe
  <2>1. /\ home["keys/radicle.pub"] \in BoundedSeq(Hands, MaxLen)
        /\ home["policies.db"] \in BoundedSeq(Hands, MaxLen)
    BY <1>t DEF Files, Live, Copied
  <2>2. told' \in Words
    BY <1>1, <2>1, WordsOn DEF Describe, Words
  <2>3. left' \in Seq(Paths)
    BY <1>1, OrderIs DEF Describe
  <2>4. told' # Quiet
    BY <1>1 DEF Describe, Quiet
  <2>5. file = Quiet
    BY <1>1 DEF Describe, TypeOK
  <2>6. QED
    BY <1>1, <2>2, <2>3, <2>4, <2>5 DEF Describe, TypeOK
<1>2. ASSUME NEW p \in Files, LeaveOut(p) PROVE TypeOK'
  <2>1. left' \in Seq(Paths)
    BY <1>2, <1>t, HeadTailProperties DEF LeaveOut, reached
  <2>2. QED
    BY <1>2, <2>1 DEF LeaveOut, TypeOK
<1>3. ASSUME NEW p \in Files, AddFile(p) PROVE TypeOK'
  <2>1. Len(home[p]) \in 0..MaxLen
    BY <1>m, <1>h
  <2>2. copy' \in [size : 0..MaxLen, got : BoundedSeq(Hands, MaxLen)]
    BY <1>3, <2>1, Short DEF AddFile
  <2>3. QED
    BY <1>3, <2>2 DEF AddFile, reached, TypeOK
<1>4. CASE ReadBlock
  <2>1. Head(left) \in Files
    BY <1>4 DEF ReadBlock, StreamInv, Files
  <2> DEFINE h == home[Head(left)]
             got == Append(copy.got, h[Len(copy.got) + 1])
  <2>2. h \in Seq(Hands) /\ Len(h) <= MaxLen /\ Len(h) \in Nat
    BY <2>1, <1>h
  <2>3. copy.got \in Seq(Hands) /\ Len(copy.got) \in Nat /\ Len(copy.got) < Len(h)
    BY <1>4, <1>t, Contents, LenProperties DEF ReadBlock
  <2>4. copy' = [copy EXCEPT !.got = got]
    BY <1>4 DEF ReadBlock
  <2>5. h[Len(copy.got) + 1] \in Hands
    <3> HIDE DEF h
    <3>1. Len(copy.got) + 1 \in 1..Len(h)
      BY <2>2, <2>3
    <3>2. QED
      BY <2>2, <3>1, ElementOfSeq
  <2> HIDE DEF h
  <2>6. got \in Seq(Hands) /\ Len(got) = Len(copy.got) + 1
    BY <2>3, <2>5, AppendProperties
  <2> HIDE DEF got
  <2>7. got \in BoundedSeq(Hands, MaxLen)
    BY <1>m, <2>2, <2>3, <2>6, Contents
  <2>8. copy' \in [size : 0..MaxLen, got : BoundedSeq(Hands, MaxLen)]
    BY <1>t, <2>4, <2>7
  <2>9. QED
    BY <1>4, <2>8 DEF ReadBlock, TypeOK
<1>5. CASE EndOfFile
  <2>1. Head(left) \in Paths /\ left # <<>>
    BY <1>5 DEF EndOfFile, StreamInv, Files, Paths
  <2>2. copy.size \in 0..MaxLen /\ copy.got \in Content
    BY <1>t, Contents
  <2>3. stream' \in Seq(Entries) /\ left' \in Seq(Paths)
    BY <1>5, <1>t, <2>1, <2>2, PutTypes DEF EndOfFile
  <2>4. copy' \in [size : 0..MaxLen, got : BoundedSeq(Hands, MaxLen)]
    BY <1>5, <1>m, Short DEF EndOfFile
  <2>5. file = Quiet /\ pc' \in {"adding", "stopped"} /\ told # Quiet
    BY <1>5, <1>t DEF EndOfFile, AtWork
  <2>6. QED
    BY <1>5, <2>3, <2>4, <2>5 DEF EndOfFile, TypeOK
<1>6. ASSUME NEW p \in Files, AddCopy(p) PROVE TypeOK'
  <2>1. Len(home[p]) \in 0..MaxLen
    BY <1>m, <1>h
  <2>2. stream' \in Seq(Entries) /\ left' \in Seq(Paths)
    BY <1>6, <1>h, <2>1, PutTypes DEF AddCopy, reached, Paths
  <2>3. QED
    BY <1>6, <2>2 DEF AddCopy, TypeOK
<1>7. CASE AddBytes
  <2>1. <<0>> \in Content /\ "RESTORE.md" \in Paths
    BY Short, ContainerAssumption DEF Paths
  <2>2. stream' \in Seq(Entries) /\ left' \in Seq(Paths)
    BY <1>7, <1>m, <2>1, PutTypes DEF AddBytes, reached
  <2>3. QED
    BY <1>7, <2>2 DEF AddBytes, TypeOK
<1>8. CASE Finish
  <2>1. CASE record_fits(stream)
    <3>1. DOMAIN entries(stream) = {stream[i].path : i \in DOMAIN stream}
          /\ entries(stream) \in [DOMAIN entries(stream) -> Content]
      BY <1>t, EntriesOf
    <3>2. DOMAIN entries(stream) \subseteq Paths
      BY <3>1 DEF StreamInv
    <3>3. told \in Words
      BY <1>8, <1>t DEF Finish, AtWork
    <3>4. /\ file' = [items |-> stream, closed |-> TRUE, record |-> "read",
                      entries |-> entries(stream), told |-> told,
                      carries |-> \E i \in DOMAIN stream : stream[i].path = "bundle"]
          /\ pc' = "finished" /\ UNCHANGED stream
      BY <1>8, <2>1 DEF Finish
    <3>5. /\ file' = [part \in Parts |-> file'[part]]
          /\ file'.items = stream /\ file'.closed = TRUE /\ file'.record = "read"
          /\ file'.entries = entries(stream) /\ file'.told = told
          /\ file'.carries = (\E i \in DOMAIN stream : stream[i].path = "bundle")
      BY <3>4 DEF Parts
    <3>6. IsArchive(file')
      BY <1>t, <3>1, <3>2, <3>3, <3>5 DEF IsArchive
    <3>7. file' # Quiet
      BY <3>6, IsThere
    <3>8. QED
      BY <1>8, <3>4, <3>6, <3>7 DEF TypeOK, Finish
  <2>2. CASE ~record_fits(stream)
    BY <1>8, <2>2 DEF Finish, TypeOK
  <2>3. QED
    BY <2>1, <2>2
<1>9. CASE Killed
  <2>1. PICK n \in 0..Len(stream) :
          file' = [items |-> SubSeq(stream, 1, n), closed |-> FALSE, record |-> "none",
                   entries |-> [p \in {} |-> <<>>], told |-> told, carries |-> FALSE]
    BY <1>9 DEF Killed
  <2>2. SubSeq(stream, 1, n) \in Seq(Entries)
    BY <1>t, Beginning
  <2>3. told \in Words
    BY <1>9, <1>t DEF Killed, AtWork
  <2> DEFINE e == [p \in {} |-> <<>>]
  <2>4. DOMAIN e = {} /\ e \in [DOMAIN e -> Content \cup {<<Misread>>}]
    OBVIOUS
  <2>5. /\ file' = [part \in Parts |-> file'[part]]
        /\ file'.items = SubSeq(stream, 1, n) /\ file'.closed = FALSE /\ file'.record = "none"
        /\ file'.entries = e /\ file'.told = told /\ file'.carries = FALSE
    BY <2>1 DEF Parts
  <2> HIDE DEF e
  <2>6. IsArchive(file')
    BY <2>2, <2>3, <2>4, <2>5 DEF IsArchive
  <2>7. QED
    BY <1>9, <2>6 DEF TypeOK, Killed
<1>10. QED
  BY <1>1, <1>2, <1>3, <1>4, <1>5, <1>6, <1>7, <1>8, <1>9 DEF RunStep

(* ... and so does every other step.                                       *)
LEMMA TypeStep ==
  ASSUME TypeOK, StreamInv, [Next]_vars
  PROVE  TypeOK'
<1>1. ASSUME NEW p \in Files, Edit(p) PROVE TypeOK'
  <2>1. PICK h \in Hands, n \in 1..MaxLen : home' = [home EXCEPT ![p] = Written(h, n)]
    BY <1>1 DEF Edit
  <2>2. Written(h, n) \in BoundedSeq(Hands, MaxLen)
    <3>1. n \in Nat /\ n <= MaxLen
      BY ContainerAssumption
    <3>2. QED
      BY <3>1, WrittenIs, Contents
  <2>3. home' \in [Files -> BoundedSeq(Hands, MaxLen)]
    BY <2>1, <2>2 DEF TypeOK
  <2>4. changes' \in 0..MaxChanges
    <3>1. changes \in 0..MaxChanges /\ changes < MaxChanges /\ changes' = changes + 1
      BY <1>1 DEF Edit, TypeOK
    <3>2. QED
      BY <3>1, ContainerAssumption
  <2>5. QED
    BY <1>1, <2>3, <2>4 DEF Edit, TypeOK
<1>2. CASE HarmStep
  <2>1. /\ IsArchive(file') /\ pc = "finished" /\ damaged' = TRUE /\ vouched' = FALSE
        /\ heard' = Quiet /\ changes' \in 0..MaxChanges /\ UNCHANGED rvars
    BY <1>2, Harmed DEF SameButDecayed
  <2>2. file' # Quiet
    BY <2>1, IsThere
  <2>3. QED
    BY <2>1, <2>2 DEF TypeOK, rvars
<1>3. ASSUME NEW by \in {"verify", "deep", "deep without git", "restore"}, NEW passed \in BOOLEAN,
             Hear(by, passed), vouched' \in BOOLEAN
      PROVE  TypeOK'
  BY <1>3 DEF Hear, rvars, TypeOK
<1>4. CASE Verify
  <2>1. check(file) \in BOOLEAN
    BY DEF check
  <2>2. QED
    BY <1>3, <1>4, <2>1 DEF Verify, TypeOK
<1>5. ASSUME NEW git \in BOOLEAN, VerifyDeep(git) PROVE TypeOK'
  <2> DEFINE passed == check(file) /\ check_unpacked_home(file, git)
  <2>1. passed \in BOOLEAN
    OBVIOUS
  <2>2. Hear(IF git THEN "deep" ELSE "deep without git", passed) /\ vouched' = (vouched \/ heard'.passed)
    BY <1>5 DEF VerifyDeep
  <2>3. vouched' \in BOOLEAN
    BY <2>2
  <2> HIDE DEF passed
  <2>4. QED
    BY <1>3, <2>1, <2>2, <2>3
<1>6. CASE Restore
  <2> DEFINE passed == walks(file) /\ mismatches(file) = {} /\ prove_identity(file)
  <2>1. passed \in BOOLEAN
    OBVIOUS
  <2>2. Hear("restore", passed) /\ UNCHANGED vouched
    BY <1>6 DEF Restore
  <2> HIDE DEF passed
  <2>3. QED
    BY <1>3, <2>1, <2>2 DEF TypeOK
<1>7. CASE Return
  BY <1>7 DEF Return, rvars, TypeOK
<1>8. CASE UNCHANGED vars
  BY <1>8 DEF vars, TypeOK
<1>9. QED
  BY <1>1, <1>2, <1>4, <1>5, <1>6, <1>7, <1>8, TypeOfRun DEF Next, ReadStep

----------------------------------------------------------------------------
(* The stream.                                                             *)

(* What one more entry leaves of what is to be added and what has been.    *)
LEMMA PutStream ==
  ASSUME TypeOK, StreamInv, AtWork, left # <<>>, NEW c \in Seq(Hands), c # <<>>,
         NEW n \in 0..MaxLen, Len(c) = n, c \in Content, Put(Head(left), n, c)
  PROVE  /\ \A i, j \in DOMAIN left' : left'[i] = left'[j] => i = j
         /\ Range(left') \cap Added' = {} /\ Keys \subseteq Range(left') \cup Added'
         /\ \A i, j \in DOMAIN stream' : stream'[i].path = stream'[j].path => i = j
         /\ \A i \in DOMAIN stream' :
              \/ i \in DOMAIN stream /\ stream'[i] = stream[i]
              \/ stream'[i] = [path |-> Head(left), size |-> n, content |-> c]
         /\ \A i \in DOMAIN stream' :
              /\ stream'[i].path \in Paths /\ stream'[i].content \in Seq(Hands) \ {<<>>}
              /\ Len(stream'[i].content) = stream'[i].size
<1> DEFINE new == [path |-> Head(left), size |-> n, content |-> c]
<1>1. /\ left \in Seq(Paths) /\ stream \in Seq(Entries) /\ Range(left) \cap Added = {}
      /\ \A i, j \in DOMAIN left : left[i] = left[j] => i = j
      /\ Keys \subseteq Range(left) \cup Added
      /\ \A i, j \in DOMAIN stream : stream[i].path = stream[j].path => i = j
      /\ \A i \in DOMAIN stream :
           /\ stream[i].path \in Paths /\ stream[i].content \in Seq(Hands) \ {<<>>}
           /\ Len(stream[i].content) = stream[i].size
  BY DEF TypeOK, StreamInv
<1>2. /\ Head(left) \in Paths /\ Range(left) = {Head(left)} \cup Range(Tail(left))
      /\ Head(left) \notin Range(Tail(left))
      /\ \A i, j \in DOMAIN Tail(left) : Tail(left)[i] = Tail(left)[j] => i = j
  BY <1>1, TakenOff
<1>3. left' = Tail(left) /\ stream' = Append(stream, new)
  BY DEF Put
<1>4. new \in Entries
  BY <1>2, EntryIs
<1>5. new.path = Head(left) /\ new.size = n /\ new.content = c
  OBVIOUS
<1> HIDE DEF new
<1>6. /\ stream' \in Seq(Entries) /\ Len(stream') = Len(stream) + 1 /\ Len(stream) \in Nat
      /\ \A i \in 1..Len(stream) : stream'[i] = stream[i]
      /\ stream'[Len(stream) + 1] = new
  BY <1>1, <1>3, <1>4, AppendProperties, LenProperties
<1>7. DOMAIN stream = 1..Len(stream) /\ DOMAIN stream' = 1..(Len(stream) + 1)
  BY <1>1, <1>6, LenProperties
<1>8. \A i \in DOMAIN stream' :
        \/ i \in DOMAIN stream /\ stream'[i] = stream[i]
        \/ i = Len(stream) + 1 /\ stream'[i] = new
  BY <1>6, <1>7
<1>9. \A i \in DOMAIN stream : i \in DOMAIN stream' /\ stream'[i] = stream[i]
  BY <1>6, <1>7
<1>10. Len(stream) + 1 \in DOMAIN stream'
  BY <1>6, <1>7
<1>11. Added' = Added \cup {Head(left)}
  BY <1>5, <1>6, <1>8, <1>9, <1>10 DEF Added
<1>12. \A i \in DOMAIN stream : stream[i].path # Head(left)
  BY <1>1, <1>2 DEF Added
<1>13. \A i, j \in DOMAIN stream' : stream'[i].path = stream'[j].path => i = j
  BY <1>1, <1>5, <1>8, <1>12
<1>14. \A i \in DOMAIN stream' :
         /\ stream'[i].path \in Paths /\ stream'[i].content \in Seq(Hands) \ {<<>>}
         /\ Len(stream'[i].content) = stream'[i].size
  BY <1>1, <1>2, <1>5, <1>8
<1>15. /\ Range(left') \cap Added' = {} /\ Keys \subseteq Range(left') \cup Added'
       /\ \A i, j \in DOMAIN left' : left'[i] = left'[j] => i = j
  BY <1>1, <1>2, <1>3, <1>11
<1>16. QED
  BY <1>8, <1>13, <1>14, <1>15 DEF new

(* A file of the home that is there has a length to be copied.             *)
LEMMA HomeIs ==
  ASSUME TypeOK, NEW p \in Files
  PROVE  /\ home[p] \in Content /\ home[p] \in Seq(Hands) /\ home[p] \in BoundedSeq(Hands, MaxLen)
         /\ Len(home[p]) \in 0..MaxLen /\ (home[p] # <<>> => Len(home[p]) > 0)
<1>1. home[p] \in BoundedSeq(Hands, MaxLen)
  BY DEF TypeOK
<1>2. home[p] \in Content /\ home[p] \in Seq(Hands) /\ Len(home[p]) <= MaxLen
  BY <1>1, Contents
<1>3. Len(home[p]) \in Nat /\ (home[p] # <<>> => Len(home[p]) > 0)
  BY <1>2, LenProperties, EmptySeq
<1>4. QED
  BY <1>1, <1>2, <1>3, ContainerAssumption

(* Every step keeps the stream and what is left of it in order.            *)
LEMMA StreamStep ==
  ASSUME TypeOK, StreamInv, [Next]_vars
  PROVE  StreamInv'
<1>k. Keys \subseteq Files
  BY DEF Keys, Files, Live
<1>1. ASSUME UNCHANGED rvars PROVE StreamInv'
  BY <1>1 DEF rvars, StreamInv, AtWork, Added
<1>2. CASE Describe
  <2>1. /\ left' \in {Order, Unbundled} /\ pc = "idle" /\ pc' = "adding"
        /\ stream = <<>> /\ UNCHANGED <<home, stream>>
    BY <1>2 DEF Describe, StreamInv
  <2>2. /\ Keys \subseteq Range(left') /\ \A i, j \in DOMAIN left' : left'[i] = left'[j] => i = j
    BY <2>1, OrderIs
  <2>3. Added' = {} /\ DOMAIN stream' = {}
    BY <2>1 DEF Added
  <2>4. QED
    BY <2>1, <2>2, <2>3 DEF StreamInv, AtWork
<1>3. ASSUME NEW p \in Files, LeaveOut(p) PROVE StreamInv'
  <2>1. /\ pc = "adding" /\ left # <<>> /\ Head(left) = p /\ left' = Tail(left)
        /\ UNCHANGED <<pc, home, stream, copy>> /\ p \notin Keys
    BY <1>3 DEF LeaveOut, reached, Keys
  <2>2. /\ Range(left) = {p} \cup Range(left') /\ \A i, j \in DOMAIN left' : left'[i] = left'[j] => i = j
    BY <2>1, TakenOff DEF TypeOK, StreamInv, AtWork
  <2>3. Added' = Added
    BY <2>1 DEF Added
  <2>4. QED
    BY <2>1, <2>2, <2>3 DEF StreamInv, AtWork
<1>4. ASSUME NEW p \in Files, AddFile(p) PROVE StreamInv'
  <2>1. /\ pc = "adding" /\ pc' = "copying" /\ left # <<>> /\ Head(left) \in Live
        /\ UNCHANGED <<home, stream, left>> /\ copy' = [size |-> Len(home[p]), got |-> <<>>]
        /\ home[p] # <<>>
    BY <1>4 DEF AddFile, reached
  <2>2. copy'.size > 0
    BY <2>1, HomeIs
  <2>3. Added' = Added
    BY <2>1 DEF Added
  <2>4. QED
    BY <2>1, <2>2, <2>3 DEF StreamInv, AtWork
<1>5. CASE ReadBlock
  <2>1. /\ pc = "copying" /\ UNCHANGED <<pc, home, stream, left>> /\ copy'.size = copy.size
    BY <1>5 DEF ReadBlock, TypeOK
  <2>2. Added' = Added
    BY <2>1 DEF Added
  <2>3. QED
    BY <2>1, <2>2 DEF StreamInv, AtWork
<1>6. CASE EndOfFile
  <2>1. pc = "copying" /\ left # <<>> /\ copy.size > 0 /\ copy.size \in 0..MaxLen /\ UNCHANGED home
    BY <1>6 DEF EndOfFile, StreamInv, TypeOK
  <2>2. CASE is_whole(copy)
    <3>1. copy.got \in Seq(Hands) /\ copy.got \in Content /\ Len(copy.got) = copy.size
      BY <2>2, Contents DEF TypeOK, is_whole
    <3>2. copy.got # <<>>
      BY <2>1, <3>1, EmptySeq
    <3>3. Put(Head(left), copy.size, copy.got) /\ pc' = "adding"
      BY <1>6, <2>2 DEF EndOfFile
    <3>4. AtWork
      BY <2>1 DEF AtWork
    <3>5. QED
      BY <2>1, <3>1, <3>2, <3>3, <3>4, PutStream DEF StreamInv
  <2>3. CASE ~is_whole(copy)
    <3>1. pc' = "stopped" /\ UNCHANGED <<left, stream>>
      BY <1>6, <2>3 DEF EndOfFile
    <3>2. QED
      BY <2>1, <3>1 DEF StreamInv, AtWork
  <2>4. QED
    BY <2>2, <2>3
<1>7. ASSUME NEW p \in Files, AddCopy(p) PROVE StreamInv'
  <2>1. /\ pc = "adding" /\ pc' = pc /\ left # <<>> /\ Head(left) = p /\ home[p] # <<>>
        /\ UNCHANGED home /\ Put(Head(left), Len(home[p]), home[p]) /\ AtWork
    BY <1>7 DEF AddCopy, reached, AtWork
  <2>2. QED
    BY <2>1, HomeIs, PutStream DEF StreamInv
<1>8. CASE AddBytes
  <2>1. /\ pc = "adding" /\ pc' = pc /\ left # <<>> /\ UNCHANGED home
        /\ Put(Head(left), 1, <<0>>) /\ AtWork
    BY <1>8 DEF AddBytes, reached, AtWork
  <2>2. /\ <<0>> \in Seq(Hands) /\ <<0>> # <<>> /\ Len(<<0>>) = 1 /\ 1 \in 0..MaxLen
    BY ContainerAssumption
  <2>3. <<0>> \in Content
    BY Short, ContainerAssumption
  <2>4. QED
    BY <2>1, <2>2, <2>3, PutStream DEF StreamInv
<1>9. CASE Finish
  <2>1. /\ pc = "adding" /\ left = <<>> /\ UNCHANGED <<home, left, stream>>
        /\ pc' \in {"finished", "stopped"} /\ (pc' = "finished" => Len(stream) <= MaxManifest)
    BY <1>9 DEF Finish, record_fits
  <2>2. Added' = Added
    BY <2>1 DEF Added
  <2>3. QED
    BY <2>1, <2>2 DEF StreamInv, AtWork
<1>10. CASE Killed
  BY <1>10 DEF Killed, StreamInv, AtWork
<1>11. ASSUME NEW p \in Files, Edit(p) PROVE StreamInv'
  <2>1. PICK h \in Hands, n \in 1..MaxLen : home' = [home EXCEPT ![p] = Written(h, n)]
    BY <1>11 DEF Edit
  <2>2. Written(h, n) # <<>>
    BY OneHand, ContainerAssumption
  <2>3. \A q \in Keys : home'[q] # <<>>
    BY <1>k, <2>1, <2>2 DEF StreamInv, TypeOK
  <2>4. Added' = Added /\ UNCHANGED <<pc, left, stream, copy>>
    BY <1>11 DEF Edit, Added
  <2>5. QED
    BY <2>3, <2>4 DEF StreamInv, AtWork
<1>12. CASE HarmStep
  BY <1>1, <1>12, Harmed
<1>13. CASE ReadStep
  BY <1>1, <1>13 DEF ReadStep, Verify, VerifyDeep, Restore, Return, Hear
<1>14. CASE UNCHANGED vars
  BY <1>1, <1>14 DEF vars, rvars
<1>15. QED
  BY <1>2, <1>3, <1>4, <1>5, <1>6, <1>7, <1>8, <1>9, <1>10, <1>11, <1>12, <1>13, <1>14
  DEF Next, RunStep

(* The home an installation starts from is one hand's throughout.          *)
LEMMA HomeInitially ==
  ASSUME Init
  PROVE  Untouched /\ \A p \in Keys : home[p] # <<>>
<1>1. PICK n \in 1..MaxLen, absent \in SUBSET {"config.json", "policies.db"} :
        home = [p \in Files |-> IF p \in absent THEN <<>> ELSE Written(0, n)]
  BY DEF Init
<1>2. Keys \subseteq Files /\ \A p \in Keys : p \notin absent
  BY DEF Keys, Files, Live
<1>3. \A p \in Keys : home[p] = Written(0, n)
  BY <1>1, <1>2
<1>4. \A p \in Files : home[p] \in {<<>>, Written(0, n)}
  BY <1>1
<1>5. Written(0, n) # <<>>
  BY OneHand, ContainerAssumption
<1>6. QED
  BY <1>3, <1>4, <1>5 DEF Untouched

(* Types and stream hold of every reachable state.                         *)
LEMMA StreamInitially == Init => StreamInv
<1> SUFFICES ASSUME Init PROVE StreamInv
  OBVIOUS
<1>1. pc = "idle" /\ stream = <<>> /\ \A p \in Keys : home[p] # <<>>
  BY HomeInitially DEF Init
<1>2. DOMAIN stream = {}
  BY <1>1
<1>3. QED
  BY <1>1, <1>2 DEF StreamInv, AtWork

(* Every variable keeps its type, and the stream its order.                *)
THEOREM ContainerTypeCorrect == Spec => [](TypeOK /\ StreamInv)
<1>1. Init => TypeOK /\ StreamInv
  BY TypeInitially, StreamInitially
<1>2. TypeOK /\ StreamInv /\ [Next]_vars => (TypeOK /\ StreamInv)'
  BY TypeStep, StreamStep
<1>3. QED
  BY <1>1, <1>2, PTL DEF Spec

----------------------------------------------------------------------------
(* The home that stands still.                                             *)

(* What the record of such a home says.                                    *)
LEMMA ToldOf ==
  ASSUME Untouched
  PROVE  owner(home["keys/radicle.pub"]) = 0 /\ owner(home["keys/radicle"]) = 0 /\ 0 \in Hands
<1>1. PICK n \in 1..MaxLen : \A p \in Keys : home[p] = Written(0, n)
  BY DEF Untouched
<1>2. 0 \in Hands /\ n \in Nat \ {0}
  BY ContainerAssumption
<1>3. QED
  BY <1>1, <1>2, OneHand DEF Keys

(* What is added of it is what is there.                                   *)
LEMMA PutStill ==
  ASSUME TypeOK, StreamInv, StillInv, AtWork, left # <<>>, NEW c \in Seq(Hands), c # <<>>,
         NEW n \in 0..MaxLen, Len(c) = n, c \in Content, Put(Head(left), n, c),
         UNCHANGED <<home, moved, told>>, pc' = "adding",
         ~moved /\ Head(left) \in Files => c = home[Head(left)]
  PROVE  StillInv'
<1>1. \A i \in DOMAIN stream' :
        \/ i \in DOMAIN stream /\ stream'[i] = stream[i]
        \/ stream'[i] = [path |-> Head(left), size |-> n, content |-> c]
  BY PutStream
<1>2. ASSUME ~moved
      PROVE  \A i \in DOMAIN stream' :
               stream'[i].path \in Files => stream'[i].content = home[stream'[i].path]
  BY <1>1, <1>2 DEF StillInv
<1>3. Untouched' <=> Untouched
  BY DEF Untouched
<1>4. QED
  BY <1>2, <1>3 DEF StillInv, AtWork

(* A home that stands still stays the one that was described and is read.  *)
LEMMA StillStep ==
  ASSUME TypeOK, StreamInv, StillInv, [Next]_vars
  PROVE  StillInv'
<1>1. ASSUME UNCHANGED rvars PROVE StillInv'
  BY <1>1 DEF rvars, StillInv, Untouched
<1>2. CASE Describe
  <2>1. /\ pc = "idle" /\ pc' = "adding" /\ UNCHANGED <<home, moved, stream>>
        /\ told' = [did |-> owner(home["keys/radicle.pub"]),
                    node |-> owner(home["keys/radicle.pub"]), seeded |-> count(home["policies.db"])]
    BY <1>2 DEF Describe
  <2>2. told' # Quiet
    BY <2>1 DEF Quiet
  <2>3. Untouched /\ ~moved
    BY <2>1 DEF StillInv
  <2>4. told'.did = 0 /\ told'.node = 0 /\ told'.seeded = count(home["policies.db"]) /\ 0 \in Hands
    BY <2>1, <2>3, ToldOf
  <2>5. Untouched' /\ DOMAIN stream' = {}
    BY <2>1, <2>3 DEF Untouched, StreamInv
  <2> QED
    BY <2>1, <2>2, <2>3, <2>4, <2>5 DEF StillInv
<1>3. ASSUME NEW p \in Files, LeaveOut(p) PROVE StillInv'
  <2>1. pc = "adding" /\ UNCHANGED <<pc, home, moved, told, stream>>
    BY <1>3 DEF LeaveOut, reached
  <2>2. QED
    BY <2>1 DEF StillInv, Untouched
<1>4. ASSUME NEW p \in Files, AddFile(p) PROVE StillInv'
  <2>1. /\ pc = "adding" /\ pc' = "copying" /\ Head(left) = p /\ left' = left
        /\ copy' = [size |-> Len(home[p]), got |-> <<>>] /\ UNCHANGED <<home, moved, told, stream>>
    BY <1>4 DEF AddFile, reached
  <2>2. copy'.size = Len(home'[Head(left')]) /\ Len(copy'.got) <= copy'.size /\ DOMAIN copy'.got = {}
    BY <2>1, HomeIs
  <2>3. QED
    BY <2>1, <2>2 DEF StillInv, Untouched
<1>5. CASE ReadBlock
  <2> DEFINE h == home[Head(left)]
             c == copy.got
  <2>1. /\ pc = "copying" /\ Len(c) < Len(h) /\ copy' = [copy EXCEPT !.got = Append(c, h[Len(c) + 1])]
        /\ UNCHANGED <<pc, home, moved, told, stream, left>> /\ Head(left) \in Files
    BY <1>5 DEF ReadBlock, StreamInv, Files
  <2>2. h \in Seq(Hands) /\ Len(h) \in Nat /\ c \in Seq(Hands) /\ Len(c) \in Nat
    BY <2>1, HomeIs, Contents, LenProperties DEF TypeOK
  <2>3. copy'.size = copy.size /\ copy'.got = Append(c, h[Len(c) + 1])
    BY <2>1 DEF TypeOK
  <2>4. ASSUME ~moved
        PROVE  /\ copy'.size = Len(h) /\ Len(copy'.got) <= copy'.size
               /\ \A k \in DOMAIN copy'.got : copy'.got[k] = h[k]
    <3>1. copy.size = Len(h) /\ Len(c) <= copy.size /\ \A k \in DOMAIN c : c[k] = h[k]
      BY <2>1, <2>4 DEF StillInv
    <3> HIDE DEF h, c
    <3>2. h[Len(c) + 1] \in Hands
      <4>1. Len(c) + 1 \in 1..Len(h)
        BY <2>1, <2>2
      <4>2. QED
        BY <2>2, <4>1, ElementOfSeq
    <3> DEFINE got == Append(c, h[Len(c) + 1])
    <3>3. /\ Len(got) = Len(c) + 1 /\ DOMAIN got = 1..(Len(c) + 1) /\ DOMAIN c = 1..Len(c)
          /\ \A k \in 1..Len(c) : got[k] = c[k]
          /\ got[Len(c) + 1] = h[Len(c) + 1]
      BY <2>2, <3>2, AppendProperties, LenProperties
    <3> HIDE DEF got
    <3>4. \A k \in DOMAIN got : got[k] = h[k]
      <4>1. \A k \in 1..(Len(c) + 1) : k \in 1..Len(c) \/ k = Len(c) + 1
        BY <2>2
      <4>2. QED
        BY <3>1, <3>3, <4>1
    <3>5. Len(got) <= Len(h)
      BY <2>1, <2>2, <3>3
    <3>6. QED
      BY <2>3, <3>1, <3>4, <3>5 DEF got
  <2> HIDE DEF c
  <2>5. QED
    BY <2>1, <2>4 DEF StillInv, Untouched
<1>6. CASE EndOfFile
  <2>1. /\ pc = "copying" /\ left # <<>> /\ copy.size > 0 /\ copy.size \in 0..MaxLen
        /\ UNCHANGED <<home, moved, told>> /\ Head(left) \in Files
        /\ Len(copy.got) >= Len(home[Head(left)])
    BY <1>6 DEF EndOfFile, StreamInv, TypeOK, Files
  <2>2. CASE is_whole(copy)
    <3>1. copy.got \in Seq(Hands) /\ copy.got \in Content /\ Len(copy.got) = copy.size
      BY <2>2, Contents DEF TypeOK, is_whole
    <3>2. copy.got # <<>>
      BY <2>1, <3>1, EmptySeq
    <3>3. Put(Head(left), copy.size, copy.got) /\ pc' = "adding"
      BY <1>6, <2>2 DEF EndOfFile
    <3>4. AtWork
      BY <2>1 DEF AtWork
    <3>5. ASSUME ~moved PROVE copy.got = home[Head(left)]
      <4>1. /\ copy.size = Len(home[Head(left)])
            /\ \A k \in DOMAIN copy.got : copy.got[k] = home[Head(left)][k]
        BY <2>1, <3>5 DEF StillInv
      <4>2. home[Head(left)] \in Seq(Hands) /\ DOMAIN copy.got = 1..Len(copy.got)
        BY <2>1, <3>1, HomeIs, LenProperties
      <4>3. QED
        BY <3>1, <4>1, <4>2, SeqEqual
    <3>6. QED
      BY <2>1, <3>1, <3>2, <3>3, <3>4, <3>5, PutStill
  <2>3. CASE ~is_whole(copy)
    <3>1. pc' = "stopped" /\ UNCHANGED <<left, stream>>
      BY <1>6, <2>3 DEF EndOfFile
    <3>2. QED
      BY <2>1, <3>1 DEF StillInv, Untouched
  <2>4. QED
    BY <2>2, <2>3
<1>7. ASSUME NEW p \in Files, AddCopy(p) PROVE StillInv'
  <2>1. /\ pc' = "adding" /\ left # <<>> /\ Head(left) = p /\ home[p] # <<>> /\ AtWork
        /\ UNCHANGED <<home, moved, told>> /\ Put(Head(left), Len(home[p]), home[p])
    BY <1>7 DEF AddCopy, reached, AtWork
  <2>2. QED
    BY <2>1, HomeIs, PutStill
<1>8. CASE AddBytes
  <2>1. /\ pc' = "adding" /\ left # <<>> /\ Head(left) = "RESTORE.md" /\ AtWork
        /\ UNCHANGED <<home, moved, told>> /\ Put(Head(left), 1, <<0>>)
    BY <1>8 DEF AddBytes, reached, AtWork
  <2>2. /\ <<0>> \in Seq(Hands) /\ <<0>> # <<>> /\ Len(<<0>>) = 1 /\ 1 \in 0..MaxLen
    BY ContainerAssumption
  <2>3. <<0>> \in Content
    BY Short, ContainerAssumption
  <2>4. "RESTORE.md" \notin Files
    BY DEF Files, Live, Copied
  <2>5. QED
    BY <2>1, <2>2, <2>3, <2>4, PutStill
<1>9. CASE Finish \/ Killed
  <2>1. /\ pc # "idle" /\ pc' \in {"finished", "stopped"} /\ UNCHANGED <<home, moved, told, stream>>
    BY <1>9 DEF Finish, Killed
  <2>2. QED
    BY <2>1 DEF StillInv, Untouched
<1>10. ASSUME NEW p \in Files, Edit(p) PROVE StillInv'
  <2>1. moved' = TRUE /\ pc # "idle" /\ UNCHANGED <<pc, told>>
    BY <1>10 DEF Edit
  <2>2. QED
    BY <2>1 DEF StillInv
<1>11. CASE HarmStep
  BY <1>1, <1>11, Harmed
<1>12. CASE ReadStep
  BY <1>1, <1>12 DEF ReadStep, Verify, VerifyDeep, Restore, Return, Hear
<1>13. CASE UNCHANGED vars
  BY <1>1, <1>13 DEF vars, rvars
<1>14. QED
  BY <1>2, <1>3, <1>4, <1>5, <1>6, <1>7, <1>8, <1>9, <1>10, <1>11, <1>12, <1>13
  DEF Next, RunStep

----------------------------------------------------------------------------
(* The file and what is said of it.                                        *)

(* What is said of a file is a reading of it, and nothing else changes.    *)
LEMMA Said ==
  ASSUME TypeOK, ReadStep
  PROVE  /\ UNCHANGED <<rvars, changes, damaged, file>>
         /\ \/ heard # Quiet /\ heard' = Quiet /\ vouched' = vouched
            \/ /\ file # Quiet /\ heard' = [by |-> "verify", passed |-> check(file)]
               /\ vouched' = vouched
            \/ \E git \in BOOLEAN :
                 /\ file # Quiet
                 /\ heard' = [by |-> IF git THEN "deep" ELSE "deep without git",
                             passed |-> check(file) /\ check_unpacked_home(file, git)]
                 /\ vouched' = (vouched \/ (check(file) /\ check_unpacked_home(file, git)))
            \/ /\ file # Quiet /\ vouched' = vouched
               /\ heard' = [by |-> "restore",
                           passed |-> walks(file) /\ mismatches(file) = {} /\ prove_identity(file)]
<1>1. CASE Verify
  BY <1>1 DEF Verify, Hear
<1>2. CASE Restore
  BY <1>2 DEF Restore, Hear
<1>3. CASE Return
  BY <1>3 DEF Return
<1>4. ASSUME NEW git \in BOOLEAN, VerifyDeep(git)
      PROVE  /\ UNCHANGED <<rvars, changes, damaged, file>> /\ file # Quiet
             /\ heard' = [by |-> IF git THEN "deep" ELSE "deep without git",
                         passed |-> check(file) /\ check_unpacked_home(file, git)]
             /\ vouched' = (vouched \/ (check(file) /\ check_unpacked_home(file, git)))
  BY <1>4 DEF VerifyDeep, Hear
<1>5. QED
  BY <1>1, <1>2, <1>3, <1>4 DEF ReadStep

(* A run at work leaves nothing to be said.                                *)
LEMMA Meanwhile ==
  ASSUME TypeOK, FileInv, pc \in {"idle", "adding", "copying"},
         UNCHANGED <<file, heard, vouched>>, pc' # "finished"
  PROVE  FileInv'
<1>1. file = Quiet /\ heard = Quiet /\ vouched = FALSE
  BY DEF TypeOK, FileInv
<1>2. QED
  BY <1>1 DEF FileInv

(* Every step keeps the file what the run made it, but where it decayed.   *)
LEMMA FileStep ==
  ASSUME TypeOK, StreamInv, FileInv, [Next]_vars
  PROVE  FileInv'
<1>1. ASSUME UNCHANGED <<rvars, damaged, file>>, heard' # Quiet => file # Quiet,
             vouched' => walks(file) /\ mismatches(file) = {} /\ keys_belong(file) /\ file # Quiet
      PROVE  FileInv'
  <2>1. file' = file /\ pc' = pc /\ damaged' = damaged /\ stream' = stream /\ told' = told
    BY <1>1 DEF rvars
  <2>2. Added' = Added /\ written' = written
    BY <2>1 DEF Added, written
  <2>3. walks(file)' = walks(file) /\ mismatches(file)' = mismatches(file) /\ keys_belong(file)' = keys_belong(file)
    BY <2>1
  <2>4. QED
    BY <1>1, <2>1, <2>2, <2>3 DEF FileInv
<1>2. CASE Describe \/ ReadBlock \/ EndOfFile \/ AddBytes
  <2>1. /\ pc \in {"idle", "adding", "copying"} /\ pc' # "finished"
        /\ UNCHANGED <<file, heard, vouched>>
    BY <1>2 DEF Describe, ReadBlock, EndOfFile, AddBytes, reached
  <2>2. QED
    BY <2>1, Meanwhile
<1>3. ASSUME NEW p \in Files, LeaveOut(p) \/ AddFile(p) \/ AddCopy(p) PROVE FileInv'
  <2>1. /\ pc = "adding" /\ pc' # "finished" /\ UNCHANGED <<file, heard, vouched>>
    BY <1>3 DEF LeaveOut, AddFile, AddCopy, reached
  <2>2. QED
    BY <2>1, Meanwhile
<1>4. ASSUME NEW p \in Files, Edit(p) PROVE FileInv'
  <2>1. pc \in {"adding", "copying"} /\ UNCHANGED <<pc, file, heard, vouched>>
    BY <1>4 DEF Edit
  <2>2. QED
    BY <2>1, Meanwhile
<1>5. CASE Finish
  <2>1. pc = "adding" /\ UNCHANGED <<told, stream, heard, damaged, vouched>>
    BY <1>5 DEF Finish
  <2>2. heard = Quiet /\ vouched = FALSE
    BY <2>1 DEF TypeOK, FileInv
  <2>3. CASE record_fits(stream)
    <3>1. /\ pc' = "finished"
          /\ file' = [items |-> stream, closed |-> TRUE, record |-> "read", entries |-> entries(stream),
                      told |-> told, carries |-> \E i \in DOMAIN stream : stream[i].path = "bundle"]
      BY <1>5, <2>3 DEF Finish
    <3>4. Added' = Added /\ written' = written /\ written = entries(stream) /\ DOMAIN written = Added
      BY <2>1 DEF Added, written, entries
    <3>5. file'.entries = written /\ file'.told = told /\ file'.closed
      BY <3>1, <3>4
    <3>6. QED
      BY <2>1, <2>2, <3>1, <3>4, <3>5 DEF FileInv
  <2>4. CASE ~record_fits(stream)
    <3>1. pc' = "stopped" /\ UNCHANGED file
      BY <1>5, <2>4 DEF Finish
    <3>2. QED
      BY <2>1, <3>1, Meanwhile
  <2>5. QED
    BY <2>3, <2>4
<1>6. CASE Killed
  <2>1. /\ pc \in {"adding", "copying"} /\ pc' = "stopped" /\ UNCHANGED <<heard, vouched>>
        /\ file'.closed = FALSE
    BY <1>6 DEF Killed
  <2>2. heard = Quiet /\ vouched = FALSE
    BY <2>1 DEF TypeOK, FileInv
  <2>3. QED
    BY <2>1, <2>2 DEF FileInv
<1>7. CASE HarmStep
  <2>1. /\ DOMAIN file'.entries = DOMAIN file.entries
        /\ \A p \in DOMAIN file.entries : file'.entries[p] \in {file.entries[p], <<Misread>>}
        /\ file'.told.did \in {file.told.did, Misread}
        /\ pc = "finished" /\ damaged' = TRUE /\ vouched' = FALSE /\ heard' = Quiet
        /\ UNCHANGED rvars
    BY <1>7, Harmed DEF SameButDecayed
  <2>2. /\ DOMAIN file.entries = Added
        /\ \A p \in Added : file.entries[p] \in {written[p], <<Misread>>}
        /\ file.told.did \in {told.did, Misread}
    BY <2>1 DEF FileInv
  <2>3. Added' = Added /\ written' = written /\ told' = told /\ pc' = pc
    BY <2>1 DEF Added, written, rvars
  <2>4. \A p \in Added : file'.entries[p] \in {written[p], <<Misread>>}
    BY <2>1, <2>2
  <2>5. file'.told.did \in {told.did, Misread}
    BY <2>1, <2>2
  <2> QED
    BY <2>1, <2>2, <2>3, <2>4, <2>5 DEF FileInv
<1>8. CASE ReadStep
  <2>1. UNCHANGED <<rvars, damaged, file>>
    BY <1>8, Said
  <2>2. heard' # Quiet => file # Quiet
    BY <1>8, Said
  <2>3. vouched' => \/ vouched
                    \/ file # Quiet /\ \E git \in BOOLEAN : check(file) /\ check_unpacked_home(file, git)
    BY <1>8, Said
  <2>4. vouched' => /\ walks(file) /\ mismatches(file) = {} /\ keys_belong(file) /\ file # Quiet
    BY <2>3 DEF FileInv, check, check_unpacked_home
  <2>5. QED
    BY <1>1, <2>1, <2>2, <2>4
<1>9. CASE UNCHANGED vars
  <2>1. UNCHANGED <<rvars, damaged, file, heard, vouched>>
    BY <1>9 DEF vars, rvars
  <2>2. QED
    BY <1>1, <2>1 DEF FileInv
<1>10. QED
  BY <1>2, <1>3, <1>4, <1>5, <1>6, <1>7, <1>8, <1>9 DEF Next, RunStep

(* What was said last stands for the file there is.                        *)
LEMMA HeardStep ==
  ASSUME TypeOK, FileInv, HeardInv, [Next]_vars
  PROVE  HeardInv'
<1>1. CASE heard' = Quiet
  BY <1>1 DEF HeardInv, Quiet
<1>2. CASE UNCHANGED <<heard, file>>
  BY <1>2 DEF HeardInv
<1>3. CASE ReadStep
  <2>1. file' = file
    BY <1>3, Said
  <2>2. CASE heard' = [by |-> "verify", passed |-> check(file)]
    BY <2>1, <2>2 DEF HeardInv
  <2>3. ASSUME NEW git \in BOOLEAN,
               heard' = [by |-> IF git THEN "deep" ELSE "deep without git",
                         passed |-> check(file) /\ check_unpacked_home(file, git)]
        PROVE  HeardInv'
    BY <2>1, <2>3 DEF HeardInv
  <2>4. CASE heard' = [by |-> "restore",
                       passed |-> walks(file) /\ mismatches(file) = {} /\ prove_identity(file)]
    BY <2>1, <2>4 DEF HeardInv
  <2>5. QED
    BY <1>1, <1>3, <2>2, <2>3, <2>4, Said
<1>4. CASE HarmStep
  BY <1>1, <1>4, Harmed
<1>5. CASE RunStep \/ \E p \in Files : Edit(p)
  <2>1. pc \in {"idle", "adding", "copying"} /\ heard' = heard
    BY <1>5 DEF RunStep, Describe, ReadBlock, EndOfFile, AddBytes, Finish, Killed, LeaveOut, AddFile,
                AddCopy, Edit, reached
  <2>2. heard = Quiet
    BY <2>1 DEF TypeOK, FileInv
  <2>3. QED
    BY <1>1, <2>1, <2>2
<1>6. CASE UNCHANGED vars
  BY <1>2, <1>6 DEF vars
<1>7. QED
  BY <1>3, <1>4, <1>5, <1>6 DEF Next

(* What a run wrote stays what its archive is held to: the stream in       *)
(* order, the home it stood for, the file but for its decay, and a word    *)
(* said of it that is a reading of that very file.                         *)
ArchiveInv == StillInv /\ FileInv /\ HeardInv

(* All three hold of every archive, harmed or not.                         *)
THEOREM ArchiveInvariant == Spec => []ArchiveInv
<1>1. Init => ArchiveInv
  <2> SUFFICES ASSUME Init PROVE ArchiveInv
    OBVIOUS
  <2>1. StillInv
    <3>1. pc = "idle" /\ stream = <<>> /\ DOMAIN stream = {} /\ moved = FALSE
      BY DEF Init
    <3>2. QED
      BY <3>1, HomeInitially DEF StillInv
  <2>2. FileInv
    BY DEF Init, FileInv
  <2>3. HeardInv
    BY DEF Init, HeardInv, Quiet
  <2>4. QED
    BY <2>1, <2>2, <2>3 DEF ArchiveInv
<1>2. (TypeOK /\ StreamInv) /\ ArchiveInv /\ [Next]_vars => ArchiveInv'
  BY StillStep, FileStep, HeardStep DEF ArchiveInv
<1>3. QED
  BY <1>1, <1>2, ContainerTypeCorrect, PTL DEF Spec

----------------------------------------------------------------------------
(* What is read back.                                                      *)

(* A reader gets, under every name in the stream, the last entry of that   *)
(* name.                                                                   *)
LEMMA ObservedOf ==
  ASSUME NEW f, f.items \in Seq(Entries)
  PROVE  /\ DOMAIN observed(f) = {f.items[i].path : i \in DOMAIN f.items}
         /\ observed(f) = [p \in DOMAIN observed(f) |-> observed(f)[p]]
         /\ \A p \in DOMAIN observed(f) :
              /\ \E i \in DOMAIN f.items : f.items[i].path = p /\ observed(f)[p] = f.items[i].content
              /\ observed(f)[p] \in Content
<1> DEFINE last(p) == CHOOSE i \in DOMAIN f.items :
                        f.items[i].path = p /\ \A j \in DOMAIN f.items : f.items[j].path = p => j <= i
<1>1. /\ DOMAIN observed(f) = {f.items[i].path : i \in DOMAIN f.items}
      /\ observed(f) = [p \in DOMAIN observed(f) |-> observed(f)[p]]
      /\ \A p \in DOMAIN observed(f) : observed(f)[p] = f.items[last(p)].content
  BY DEF observed
<1>2. DOMAIN f.items = 1..Len(f.items) /\ Len(f.items) \in Nat
  BY LenProperties
<1>3. \A i \in DOMAIN f.items : f.items[i] \in Entries
  BY <1>2, ElementOfSeq
<1>4. ASSUME NEW p \in DOMAIN observed(f)
      PROVE  last(p) \in DOMAIN f.items /\ f.items[last(p)].path = p
  <2> DEFINE T == {i \in 1..Len(f.items) : f.items[i].path = p}
  <2>1. T \in SUBSET (1..Len(f.items)) /\ T # {}
    BY <1>1, <1>2
  <2>2. \E i \in T : \A j \in T : j <= i
    <3> HIDE DEF T
    <3>1. QED
      BY <1>2, <2>1, LastOf
  <2>3. \E i \in DOMAIN f.items :
          f.items[i].path = p /\ \A j \in DOMAIN f.items : f.items[j].path = p => j <= i
    BY <1>2, <2>2
  <2>4. QED
    BY <2>3
<1> HIDE DEF last
<1>5. \A i \in DOMAIN f.items : f.items[i].content \in Content
  BY <1>3 DEF Entries
<1>6. QED
  BY <1>1, <1>4, <1>5

(* What the stream says of a path is what was written under it.            *)
LEMMA WrittenOf ==
  ASSUME TypeOK, StreamInv
  PROVE  /\ DOMAIN written = Added /\ written = [p \in Added |-> written[p]]
         /\ \A i \in DOMAIN stream : written[stream[i].path] = stream[i].content
         /\ \A p \in Added : written[p] \in Seq(Hands) /\ written[p] # <<>>
<1>1. DOMAIN written = Added /\ written = [p \in Added |-> written[p]]
  BY DEF written, entries, Added
<1>2. \A p \in DOMAIN written : \E i \in DOMAIN stream : stream[i].path = p /\ written[p] = stream[i].content
  BY EntriesOf DEF written, TypeOK
<1>3. /\ \A i, j \in DOMAIN stream : stream[i].path = stream[j].path => i = j
      /\ \A i \in DOMAIN stream : stream[i].content \in Seq(Hands) \ {<<>>}
  BY DEF StreamInv
<1>4. ASSUME NEW i \in DOMAIN stream PROVE written[stream[i].path] = stream[i].content
  <2>1. stream[i].path \in DOMAIN written
    BY <1>1 DEF Added
  <2>2. PICK j \in DOMAIN stream : stream[j].path = stream[i].path /\ written[stream[i].path] = stream[j].content
    BY <1>2, <2>1
  <2>3. QED
    BY <1>3, <2>2
<1>5. QED
  BY <1>1, <1>2, <1>3, <1>4

(* A file that walks and matches its record reads back what was written:   *)
(* a word of the record that was misread matches no content there is.      *)
LEMMA AsWritten ==
  ASSUME TypeOK, StreamInv, FileInv, file # Quiet, walks(file), mismatches(file) = {}
  PROVE  pc = "finished" /\ observed(file) = written
<1>1. IsArchive(file) /\ pc = "finished"
  BY DEF TypeOK, FileInv, walks
<1>2. DOMAIN file.entries = Added /\ \A p \in Added : file.entries[p] \in {written[p], <<Misread>>}
  BY <1>1 DEF FileInv
<1>3. /\ observed(file) = [p \in DOMAIN observed(file) |-> observed(file)[p]]
      /\ \A p \in DOMAIN observed(file) : observed(file)[p] \in Content
  BY <1>1, ObservedOf DEF IsArchive
<1>4. DOMAIN observed(file) = Added /\ \A p \in Added : observed(file)[p] = file.entries[p]
  BY <1>2 DEF mismatches
<1>5. <<Misread>> \notin Content
  <2> SUFFICES ASSUME <<Misread>> \in Content PROVE FALSE
    OBVIOUS
  <2>1. <<Misread>> \in Seq(Hands \cup {Rot})
    BY Contents, Zenon
  <2>2. Misread \in Hands \cup {Rot}
    BY <2>1
  <2>3. QED
    BY <2>2, ContainerAssumption DEF Misread, Rot
<1>6. \A p \in Added : observed(file)[p] = written[p]
  <2> SUFFICES ASSUME NEW p \in Added PROVE observed(file)[p] = written[p]
    OBVIOUS
  <2>1. observed(file)[p] \in Content /\ observed(file)[p] \in {written[p], <<Misread>>}
    BY <1>2, <1>3, <1>4
  <2>2. QED
    BY <1>5, <2>1, Zenon
<1>7. observed(file) = written
  <2>1. written = [p \in Added |-> written[p]]
    BY WrittenOf
  <2>2. observed(file) = [p \in Added |-> observed(file)[p]]
    BY <1>3, <1>4
  <2>3. [p \in Added |-> observed(file)[p]] = [p \in Added |-> written[p]]
    BY <1>6
  <2>4. QED
    BY <2>1, <2>2, <2>3, Zenon
<1>8. QED
  BY <1>1, <1>7

(* What a pass of `verify` in any depth rests on, and of a restore.        *)
LEMMA PassIs ==
  ASSUME TypeOK, FileInv, HeardInv, heard # Quiet, heard.passed
  PROVE  /\ file # Quiet /\ walks(file) /\ mismatches(file) = {}
         /\ (heard.by = "restore" => prove_identity(file))
<1>1. /\ file # Quiet /\ heard.by \in {"verify", "deep", "deep without git", "restore"}
  BY DEF TypeOK, FileInv
<1>2. CASE heard.by = "verify"
  BY <1>1, <1>2 DEF HeardInv, check
<1>3. CASE heard.by \in {"deep", "deep without git"}
  <2>1. \E git \in BOOLEAN : heard.by = (IF git THEN "deep" ELSE "deep without git")
    <3>1. heard.by = (IF TRUE THEN "deep" ELSE "deep without git") \/ heard.by = (IF FALSE THEN "deep" ELSE "deep without git")
      BY <1>3
    <3>2. QED
      BY <3>1
  <2>2. check(file)
    BY <2>1 DEF HeardInv
  <2>3. QED
    BY <1>1, <1>3, <2>2 DEF check
<1>4. CASE heard.by = "restore"
  BY <1>1, <1>4 DEF HeardInv
<1>5. QED
  BY <1>1, <1>2, <1>3, <1>4

(* A pass of `verify` means the archive reads back what the run wrote.     *)
THEOREM PassIsEarned == Spec => []PassMeansAsWritten
<1>1. TypeOK /\ StreamInv /\ ArchiveInv => PassMeansAsWritten
  <2> SUFFICES ASSUME TypeOK, StreamInv, ArchiveInv,
                      heard.by \notin {"none", "restore"}, heard.passed
               PROVE  pc = "finished" /\ observed(file) = written
    BY DEF PassMeansAsWritten
  <2>1. heard # Quiet
    BY DEF Quiet
  <2>2. QED
    BY <2>1, PassIs, AsWritten DEF ArchiveInv
<1>2. QED
  BY <1>1, ContainerTypeCorrect, ArchiveInvariant, PTL

(* There are no more paths in a stream than entries.                       *)
LEMMA PathsCounted ==
  ASSUME TypeOK
  PROVE  IsFiniteSet(Added) /\ Cardinality(Added) <= Len(stream)
<1>1. DOMAIN stream = 1..Len(stream) /\ Len(stream) \in Nat
  BY LenProperties DEF TypeOK
<1>2. IsFiniteSet(1..Len(stream)) /\ Cardinality(1..Len(stream)) = Len(stream)
  <2>1. ASSUME NEW n \in Nat PROVE IsFiniteSet(1..n) /\ Cardinality(1..n) = n
    BY <2>1, FS_Interval
  <2>2. QED
    BY <1>1, <2>1
<1> DEFINE g == [i \in 1..Len(stream) |-> stream[i].path]
<1>3. g \in Surjection(1..Len(stream), Added)
  <2>1. g \in [1..Len(stream) -> Added]
    BY <1>1 DEF Added
  <2>2. \A p \in Added : \E i \in 1..Len(stream) : g[i] = p
    BY <1>1 DEF Added
  <2>3. QED
    BY <2>1, <2>2 DEF Surjection
<1>4. QED
  BY <1>2, <1>3, FS_Surjection

(* A file nothing touched is what the run wrote, and reads back as that.   *)
LEMMA Untampered ==
  ASSUME TypeOK, StreamInv, FileInv, pc = "finished", ~damaged
  PROVE  /\ file # Quiet /\ file.told = told /\ observed(file) = written /\ mismatches(file) = {}
         /\ Keys \subseteq Added /\ (file.carries <=> "bundle" \in Added)
         /\ ((\A i \in DOMAIN stream : stream[i].size <= MaxEntry) => walks(file))
<1>1. /\ file.items = stream /\ file.closed = TRUE /\ file.record = "read"
      /\ file.entries = written /\ file.told = told
      /\ file.carries = (\E i \in DOMAIN stream : stream[i].path = "bundle")
  <2>1. file = [items |-> stream, closed |-> TRUE, record |-> "read", entries |-> written,
                told |-> told, carries |-> \E i \in DOMAIN stream : stream[i].path = "bundle"]
    BY DEF FileInv
  <2>2. QED
    BY <2>1
<1>2. file # Quiet /\ stream \in Seq(Entries)
  BY DEF TypeOK
<1>3. Range(left) = {}
  <2>1. left = <<>>
    BY DEF StreamInv
  <2>2. QED
    BY <2>1 DEF Range
<1>4. Keys \subseteq Added
  BY <1>3 DEF StreamInv
<1>5. /\ DOMAIN observed(file) = Added
      /\ observed(file) = [p \in DOMAIN observed(file) |-> observed(file)[p]]
      /\ \A p \in DOMAIN observed(file) :
           \E i \in DOMAIN stream : stream[i].path = p /\ observed(file)[p] = stream[i].content
  <2>1. file.items \in Seq(Entries)
    BY <1>1, <1>2
  <2>2. /\ DOMAIN observed(file) = {file.items[i].path : i \in DOMAIN file.items}
        /\ observed(file) = [p \in DOMAIN observed(file) |-> observed(file)[p]]
        /\ \A p \in DOMAIN observed(file) :
             \E i \in DOMAIN file.items :
               file.items[i].path = p /\ observed(file)[p] = file.items[i].content
    BY <2>1, ObservedOf
  <2>3. file.items = stream
    BY <1>1
  <2>4. QED
    BY <2>2, <2>3 DEF Added
<1>6. \A p \in Added : observed(file)[p] = written[p]
  BY <1>5, WrittenOf
<1>7. observed(file) = written
  <2>1. written = [p \in Added |-> written[p]]
    BY WrittenOf
  <2>2. observed(file) = [p \in Added |-> observed(file)[p]]
    BY <1>5
  <2>3. [p \in Added |-> observed(file)[p]] = [p \in Added |-> written[p]]
    BY <1>6
  <2>4. QED
    BY <2>1, <2>2, <2>3, Zenon
<1>8. mismatches(file) = {}
  BY <1>1, <1>5, <1>6, WrittenOf DEF mismatches
<1>9. ASSUME \A i \in DOMAIN stream : stream[i].size <= MaxEntry
      PROVE  walks(file)
  <2>1. Cardinality(DOMAIN file.entries) <= MaxManifest
    <3>1. Len(stream) <= MaxManifest /\ Len(stream) \in Nat
      BY <1>2, LenProperties DEF StreamInv
    <3>2. Cardinality(Added) \in Nat /\ Cardinality(Added) <= Len(stream)
      BY PathsCounted, FS_CardinalityType
    <3>3. DOMAIN file.entries = Added
      BY <1>1, WrittenOf
    <3>4. QED
      BY <3>1, <3>2, <3>3, ContainerAssumption
  <2>2. "../stray" \notin Paths
    BY DEF Paths, Files, Live, Copied
  <2>3. \A i \in DOMAIN stream :
          /\ is_portable(stream[i].path)
          /\ Len(stream[i].content) = stream[i].size /\ stream[i].size <= MaxEntry
    BY <1>9, <2>2 DEF StreamInv, is_portable
  <2>4. QED
    BY <1>1, <2>1, <2>3 DEF walks
<1>10. file.carries <=> "bundle" \in Added
  BY <1>1 DEF Added
<1>11. QED
  BY <1>1, <1>2, <1>4, <1>7, <1>8, <1>9, <1>10

(* A reader has the keys, and they are what was written.                   *)
LEMMA KeysRead ==
  ASSUME TypeOK, StreamInv, observed(file) = written, Keys \subseteq Added, NEW p \in Keys
  PROVE  staged(file, p) = written[p] /\ written[p] # <<>>
BY WrittenOf DEF staged

(* The archive of a run that finished passes; that of a home that stood    *)
(* still passes in depth.                                                  *)
THEOREM GoodArchives == Spec => []GoodArchivesPass
<1>1. TypeOK /\ StreamInv /\ ArchiveInv => FinishedPasses
  <2> SUFFICES ASSUME TypeOK, StreamInv, ArchiveInv, heard.by = "verify", pc = "finished", ~damaged,
                      \A i \in DOMAIN stream : stream[i].size <= MaxEntry
               PROVE  heard.passed
    BY DEF FinishedPasses
  <2>1. /\ walks(file) /\ mismatches(file) = {} /\ observed(file) = written /\ Keys \subseteq Added
    BY Untampered DEF ArchiveInv
  <2>2. staged(file, "keys/radicle") # <<>>
    BY <2>1, KeysRead DEF Keys
  <2>3. QED
    BY <2>1, <2>2 DEF ArchiveInv, HeardInv, check
<1>2. TypeOK /\ StreamInv /\ ArchiveInv => StillHomePassesDeep
  <2> SUFFICES ASSUME TypeOK, StreamInv, ArchiveInv, heard.by = "deep", pc = "finished",
                      ~damaged, ~moved, \A i \in DOMAIN stream : stream[i].size <= MaxEntry
               PROVE  heard.passed
    BY DEF StillHomePassesDeep
  <2>1. /\ walks(file) /\ mismatches(file) = {} /\ observed(file) = written /\ Keys \subseteq Added
        /\ file.told = told /\ (file.carries <=> "bundle" \in Added)
    BY Untampered DEF ArchiveInv
  <2>2. \A p \in Keys : staged(file, p) = written[p] /\ written[p] # <<>>
    BY <2>1, KeysRead
  <2>3. /\ Untouched /\ told.did = 0 /\ told.seeded = count(home["policies.db"])
        /\ \A i \in DOMAIN stream :
             stream[i].path \in Files => stream[i].content = home[stream[i].path]
    BY DEF ArchiveInv, StillInv
  <2>4. \A p \in Added : p \in Files => written[p] = home[p]
    BY <2>3, WrittenOf DEF Added
  <2>5. /\ "keys/radicle" \in Keys /\ "keys/radicle.pub" \in Keys /\ Keys \subseteq Files
        /\ "policies.db" \in Files
    BY DEF Keys, Files, Live, Copied
  <2>6. keys_belong(file)
    <3>1. staged(file, "keys/radicle") = home["keys/radicle"]
      BY <2>1, <2>2, <2>4, <2>5
    <3>2. staged(file, "keys/radicle.pub") = home["keys/radicle.pub"]
      BY <2>1, <2>2, <2>4, <2>5
    <3>3. QED
      BY <2>1, <2>3, <3>1, <3>2, ToldOf DEF keys_belong
  <2>7. policies_agree(file)
    BY <2>1, <2>3, <2>4, <2>5, WrittenOf DEF policies_agree
  <2>8. repositories_check(file, TRUE)
    <3> SUFFICES ASSUME file.carries
                 PROVE  staged(file, "bundle") # <<>> /\ staged(file, "bundle")[1] # Rot
      BY DEF repositories_check
    <3>1. "bundle" \in Added
      BY <2>1
    <3>2. staged(file, "bundle") = written["bundle"]
      BY <2>1, <3>1, WrittenOf DEF staged
    <3>3. written["bundle"] \in Seq(Hands) /\ written["bundle"] # <<>>
      BY <3>1, WrittenOf
    <3>4. 1 \in 1..Len(written["bundle"])
      BY <3>3, EmptySeq
    <3>5. written["bundle"][1] \in Hands
      BY <3>3, <3>4, ElementOfSeq
    <3>6. QED
      BY <3>2, <3>3, <3>5, ContainerAssumption DEF Rot
  <2>9. check(file)
    BY <2>1, <2>2, <2>5 DEF check
  <2>10. heard.by = (IF TRUE THEN "deep" ELSE "deep without git")
    OBVIOUS
  <2>11. QED
    BY <2>6, <2>7, <2>8, <2>9, <2>10 DEF ArchiveInv, HeardInv, check_unpacked_home
<1>3. QED
  BY <1>1, <1>2, ContainerTypeCorrect, ArchiveInvariant, PTL DEF GoodArchivesPass

(* What a restore takes is what was written, with a pair of keys that is   *)
(* whole, and it takes what a deep pass vouched for.                       *)
THEOREM ComesBackAsWritten == Spec => []WhatComesBackIsWritten
<1>1. TypeOK /\ StreamInv /\ ArchiveInv => PutBackIsWritten
  <2> SUFFICES ASSUME TypeOK, StreamInv, ArchiveInv, heard.by = "restore", heard.passed
               PROVE  /\ pc = "finished" /\ observed(file) = written
                      /\ owner(written["keys/radicle"]) = owner(written["keys/radicle.pub"])
                      /\ owner(written["keys/radicle"]) # None
    BY DEF PutBackIsWritten
  <2>1. heard # Quiet
    BY DEF Quiet
  <2>2. file # Quiet /\ walks(file) /\ mismatches(file) = {} /\ prove_identity(file)
    BY <2>1, PassIs DEF ArchiveInv
  <2>3. pc = "finished" /\ observed(file) = written
    BY <2>2, AsWritten DEF ArchiveInv
  <2>4. Keys \subseteq Added
    <3>1. left = <<>>
      BY <2>3 DEF StreamInv
    <3>2. Range(left) = {}
      BY <3>1 DEF Range
    <3>3. QED
      BY <2>3, <3>2 DEF StreamInv
  <2>5. /\ staged(file, "keys/radicle") = written["keys/radicle"]
        /\ staged(file, "keys/radicle.pub") = written["keys/radicle.pub"]
    BY <2>3, <2>4, KeysRead DEF Keys
  <2>6. /\ owner(written["keys/radicle"]) = file.told.did
        /\ owner(written["keys/radicle.pub"]) = file.told.did
    BY <2>2, <2>5 DEF prove_identity, keys_belong
  <2>7. file.told.did \in Hands \cup {Misread}
    BY <2>3 DEF ArchiveInv, FileInv, StillInv
  <2>8. file.told.did # None
    BY <2>7, ContainerAssumption DEF Misread, None
  <2>9. QED
    BY <2>3, <2>6, <2>8
<1>2. TypeOK /\ StreamInv /\ ArchiveInv => DeepPassRestores
  BY DEF DeepPassRestores, ArchiveInv, FileInv, HeardInv, prove_identity
<1>3. QED
  BY <1>1, <1>2, ContainerTypeCorrect, ArchiveInvariant, PTL DEF WhatComesBackIsWritten

============================================================================
