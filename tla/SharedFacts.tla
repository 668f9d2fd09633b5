----------------------------- MODULE SharedFacts -----------------------------
(***************************************************************************)
(* Facts that several proofs rest on: what Circular_Buffer::push_back      *)
(* keeps, induction for a set of numbers, the bytes of a word.             *)
(***************************************************************************)
EXTENDS Integers, Sequences, SequenceTheorems, WellFoundedInduction, TLAPS

\* The newest `depth` entries of a longer sequence.
LEMMA NewestEntries ==
    ASSUME NEW T, NEW s \in Seq(T), NEW depth \in Nat, Len(s) > depth
    PROVE  /\ SubSeq(s, Len(s) - depth + 1, Len(s)) \in Seq(T)
           /\ Len(SubSeq(s, Len(s) - depth + 1, Len(s))) = depth
           /\ \A i \in 1..depth :
                  SubSeq(s, Len(s) - depth + 1, Len(s))[i] = s[Len(s) - depth + i]
  <1> DEFINE first == Len(s) - depth + 1
             last  == Len(s)
  <1>1. first \in Int /\ last \in Int /\ first <= last + 1 /\ 1 <= first
    BY LenProperties
  <1>2. \A i \in first..last : s[i] \in T
    BY <1>1, ElementOfSeq
  <1>3. /\ SubSeq(s, first, last) \in Seq(T)
        /\ Len(SubSeq(s, first, last)) = IF first <= last THEN last - first + 1 ELSE 0
        /\ \A i \in 1..last - first + 1 : SubSeq(s, first, last)[i] = s[first + i - 1]
    <2> HIDE DEF first, last
    <2>1. QED
      BY <1>1, <1>2, SubSeqProperties
  <1>4. last - first + 1 = depth /\ \A i \in 1..depth : first + i - 1 = last - depth + i
    BY <1>1
  <1>5. QED
    BY <1>1, <1>3, <1>4

\* Circular_Buffer::push_back of several entries in a row.
PushBack(queue, entries, depth) ==
    LET all == queue \o entries
    IN  IF Len(all) <= depth THEN all
        ELSE SubSeq(all, Len(all) - depth + 1, Len(all))

\* The last entries of one queue followed by those of another, in their order.
Newest(kept, queue, entries) ==
    \A i \in 1..Len(kept) :
        \E j \in 1..Len(queue) + Len(entries) :
            /\ Len(queue) + Len(entries) - j = Len(kept) - i
            /\ kept[i] = IF j <= Len(queue) THEN queue[j] ELSE entries[j - Len(queue)]

\* It keeps as many entries as fit, the newest, in their order.
LEMMA PushBackFacts ==
    ASSUME NEW T, NEW queue \in Seq(T), NEW entries \in Seq(T), NEW depth \in Nat
    PROVE  /\ PushBack(queue, entries, depth) \in Seq(T)
           /\ Len(PushBack(queue, entries, depth)) =
                  IF Len(queue) + Len(entries) <= depth THEN Len(queue) + Len(entries)
                  ELSE depth
           /\ Newest(PushBack(queue, entries, depth), queue, entries)
  <1> DEFINE all  == queue \o entries
             size == Len(queue) + Len(entries)
             kept == PushBack(queue, entries, depth)
  <1>1. /\ all \in Seq(T) /\ Len(all) = size /\ size \in Nat
        /\ \A j \in 1..size :
               all[j] = IF j <= Len(queue) THEN queue[j] ELSE entries[j - Len(queue)]
    BY ConcatProperties, LenProperties
  <1>2. kept = IF Len(all) <= depth THEN all
               ELSE SubSeq(all, Len(all) - depth + 1, Len(all))
    BY DEF PushBack
  <1> HIDE DEF all, size, kept
  <1>3. /\ kept \in Seq(T) /\ Len(kept) = IF size <= depth THEN size ELSE depth
        /\ \A i \in 1..Len(kept) : kept[i] = all[size - Len(kept) + i]
    <2>1. CASE size <= depth
      <3>1. kept = all /\ Len(kept) = size
        BY <1>1, <1>2, <2>1
      <3>2. \A i \in 1..size : size - size + i = i
        BY <1>1
      <3>3. QED
        BY <1>1, <2>1, <3>1, <3>2
    <2>2. CASE ~(size <= depth)
      <3>1. kept = SubSeq(all, Len(all) - depth + 1, Len(all)) /\ Len(all) > depth
        BY <1>1, <1>2, <2>2
      <3>2. /\ kept \in Seq(T) /\ Len(kept) = depth
            /\ \A i \in 1..depth : kept[i] = all[size - depth + i]
        BY <1>1, <3>1, NewestEntries
      <3>3. QED
        BY <2>2, <3>2
    <2>3. QED
      BY <2>1, <2>2
  <1>4. Len(kept) \in 0..size
    BY <1>1, <1>3
  <1>5. \A i \in 1..Len(kept) : size - Len(kept) + i \in 1..size
    BY <1>1, <1>4
  <1>6. ASSUME NEW i \in 1..Len(kept)
        PROVE  \E j \in 1..size :
                   /\ size - j = Len(kept) - i
                   /\ kept[i] = IF j <= Len(queue) THEN queue[j]
                                ELSE entries[j - Len(queue)]
    <2>1. PICK j \in 1..size : j = size - Len(kept) + i
      BY <1>5
    <2>2. kept[i] = all[j] /\ size - j = Len(kept) - i
      BY <1>1, <1>3, <1>4, <2>1
    <2>3. all[j] = IF j <= Len(queue) THEN queue[j] ELSE entries[j - Len(queue)]
      BY <1>1
    <2>4. QED
      BY <2>2, <2>3
  <1>7. QED
    BY <1>3, <1>6 DEF size, kept, Newest

\* Induction, for a set of numbers.
LEMMA SetInduction ==
    ASSUME NEW S, 0 \in S, \A n \in Nat : n \in S => n + 1 \in S
    PROVE  Nat \subseteq S
  <1> DEFINE Others == Nat \ S
             Below  == {p \in Nat \X Nat : p[1] < p[2]}
  <1> SUFFICES ASSUME Others # {} PROVE FALSE
    OBVIOUS
  <1>1. IsWellFoundedOn(Below, Nat)
    BY NatLessThanWellFounded DEF OpToRel
  <1>2. PICK m \in Others : \A k \in Others : <<k, m>> \notin Below
    <2>1. Others \subseteq Nat
      OBVIOUS
    <2> HIDE DEF Others, Below
    <2>2. QED
      BY <1>1, <2>1, WFMin
  <1>3. m # 0 /\ m - 1 \in Nat /\ <<m - 1, m>> \in Below
    OBVIOUS
  <1>4. m - 1 \in S
    BY <1>2, <1>3
  <1>5. QED
    BY <1>3, <1>4

\* The higher byte of a word.
LEMMA HighByte ==
    ASSUME NEW word \in Nat, NEW size \in Nat \ {0}, word < size * size
    PROVE  word \div size \in Nat /\ word \div size < size
  BY SMTT(60)
=============================================================================
