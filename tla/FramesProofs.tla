--------------------------- MODULE FramesProofs ---------------------------
(***************************************************************************)
(* Theorems about Frames, whatever the lengths of the fields of variable   *)
(* length: a reader stays within the bytes that arrived, reads its own     *)
(* frames and no part of one or more, and takes no frame for another       *)
(* message.                                                                *)
(***************************************************************************)
EXTENDS Frames, TLAPS, SequenceTheorems, WellFoundedInduction

----------------------------------------------------------------------------
(* Induction, as a fact about sets.                                        *)

\* A set with 0 and the successors of its members has every natural number.
LEMMA Induction ==
  ASSUME NEW S, 0 \in S, \A n \in Nat : n \in S => n + 1 \in S
  PROVE  Nat \subseteq S
<1>. DEFINE T == {n \in Nat : n \notin S}
<1>. SUFFICES ASSUME T # {} PROVE FALSE
  OBVIOUS
<1>1. PICK m \in T : \A k \in T : <<k, m>> \notin OpToRel(<, Nat)
  BY WFMin, NatLessThanWellFounded, Zenon
<1>2. m \in Nat /\ m # 0 /\ m - 1 \in Nat
  OBVIOUS
<1>3. m - 1 \notin T
  <2>1. m - 1 \in Nat /\ m \in Nat /\ m - 1 < m
    BY <1>2
  <2>2. <<m - 1, m>> \in OpToRel(<, Nat)
    BY <2>1 DEF OpToRel
  <2>. QED
    BY <1>1, <2>2, Zenon
<1>. QED
  BY <1>2, <1>3

----------------------------------------------------------------------------
(* Bytes.                                                                  *)

\* g is the recursive function in the definition of Bytes.
Summed(s, n, g) == g = [i \in 0..n |-> IF i = 0 THEN 0 ELSE g[i - 1] + s[i].width]

LEMMA SummedMeans ==
  ASSUME NEW s, NEW n \in Nat, NEW g, Summed(s, n, g)
  PROVE  g[0] = 0 /\ \A i \in 1..n : g[i] = g[i - 1] + s[i].width
<1>. DEFINE h == [i \in 0..n |-> IF i = 0 THEN 0 ELSE g[i - 1] + s[i].width]
<1>1. g = h
  BY Zenon DEF Summed
<1>2. \A i \in 0..n : h[i] = IF i = 0 THEN 0 ELSE g[i - 1] + s[i].width
  BY Zenon
<1>3. 0 \in 0..n /\ \A i \in 1..n : i \in 0..n /\ i # 0
  OBVIOUS
<1>. HIDE DEF h
<1>. QED
  BY <1>1, <1>2, <1>3, Zenon

LEMMA MeansSummed ==
  ASSUME NEW s, NEW n \in Nat, NEW g, g = [i \in 0..n |-> g[i]],
         g[0] = 0, \A i \in 1..n : g[i] = g[i - 1] + s[i].width
  PROVE  Summed(s, n, g)
<1>1. \A i \in 0..n : i = 0 \/ i \in 1..n
  OBVIOUS
<1>2. \A i \in 0..n : g[i] = IF i = 0 THEN 0 ELSE g[i - 1] + s[i].width
  BY <1>1, Zenon
<1>. QED
  BY <1>2, Zenon DEF Summed

LEMMA SummedExists ==
  ASSUME NEW s, NEW m \in Nat
  PROVE  \E g : Summed(s, m, g)
<1>. DEFINE S == {n \in Nat : \E g : Summed(s, n, g)}
<1>1. 0 \in S
  <2>. DEFINE g == [i \in 0..0 |-> 0]
  <2>1. /\ g = [i \in 0..0 |-> g[i]] /\ g[0] = 0
        /\ \A i \in 1..0 : g[i] = g[i - 1] + s[i].width
    OBVIOUS
  <2>. HIDE DEF g
  <2>2. Summed(s, 0, g)
    BY <2>1, MeansSummed
  <2>. QED
    BY <2>2
<1>2. ASSUME NEW n \in Nat, n \in S PROVE n + 1 \in S
  <2>1. PICK g : Summed(s, n, g)
    BY <1>2
  <2>. DEFINE h == [i \in 0..(n + 1) |-> IF i = n + 1 THEN g[n] + s[n + 1].width ELSE g[i]]
  <2>2. g[0] = 0 /\ \A i \in 1..n : g[i] = g[i - 1] + s[i].width
    BY <2>1, SummedMeans
  <2>3. h[0] = 0 /\ h[n + 1] = g[n] + s[n + 1].width /\ \A i \in 0..n : h[i] = g[i]
    BY <2>2
  <2>4. h = [i \in 0..(n + 1) |-> h[i]]
    OBVIOUS
  <2>. HIDE DEF h
  <2>5. ASSUME NEW i \in 1..(n + 1) PROVE h[i] = h[i - 1] + s[i].width
    <3>1. CASE i = n + 1
      <4>1. i - 1 = n /\ n \in 0..n
        BY <3>1
      <4>. QED
        BY <2>3, <3>1, <4>1, Zenon
    <3>2. CASE i \in 1..n
      <4>1. i - 1 \in 0..n /\ i \in 0..n
        BY <3>2
      <4>. QED
        BY <2>2, <2>3, <3>2, <4>1, Zenon
    <3>3. i = n + 1 \/ i \in 1..n
      OBVIOUS
    <3>. QED
      BY <3>1, <3>2, <3>3, Zenon
  <2>6. n + 1 \in Nat
    OBVIOUS
  <2>7. Summed(s, n + 1, h)
    BY <2>3, <2>4, <2>5, <2>6, MeansSummed, Zenon
  <2>. QED
    BY <2>6, <2>7
<1>. HIDE DEF S
<1>3. Nat \subseteq S
  BY <1>1, <1>2, Induction
<1>. QED
  BY <1>3 DEF S

LEMMA BytesMeans ==
  ASSUME NEW s, NEW n \in Nat
  PROVE  \E g : Summed(s, n, g) /\ Bytes(s, n) = g[n]
<1>. DEFINE g == CHOOSE g : Summed(s, n, g)
<1>1. Summed(s, n, g)
  BY SummedExists
<1>2. Bytes(s, n) = g[n]
  BY Zenon DEF Bytes, Summed
<1>. QED
  BY <1>1, <1>2

\* The sums of sequences that begin alike.
LEMMA SummedAgree ==
  ASSUME NEW s, NEW t, NEW n \in Nat, NEW m \in Nat, NEW g, NEW h,
         Summed(s, n, g), Summed(t, m, h), n <= m, \A i \in 1..n : s[i] = t[i]
  PROVE  \A i \in 0..n : g[i] = h[i]
<1>. DEFINE S == {k \in Nat : k <= n => g[k] = h[k]}
<1>1. /\ g[0] = 0 /\ \A i \in 1..n : g[i] = g[i - 1] + s[i].width
      /\ h[0] = 0 /\ \A i \in 1..m : h[i] = h[i - 1] + t[i].width
  BY SummedMeans
<1>2. 0 \in S
  BY <1>1
<1>3. ASSUME NEW k \in Nat, k \in S PROVE k + 1 \in S
  <2>1. SUFFICES ASSUME k + 1 <= n PROVE g[k + 1] = h[k + 1]
    OBVIOUS
  <2>2. k + 1 \in 1..n /\ k + 1 \in 1..m /\ (k + 1) - 1 = k /\ g[k] = h[k]
    BY <1>3, <2>1
  <2>3. g[k + 1] = g[k] + s[k + 1].width /\ h[k + 1] = h[k] + t[k + 1].width
    BY <1>1, <2>2, Zenon
  <2>. QED
    BY <2>2, <2>3, Zenon
<1>. HIDE DEF S
<1>4. Nat \subseteq S
  BY <1>2, <1>3, Induction
<1>. QED
  BY <1>4 DEF S

\* The recursion of Bytes, without its function.
LEMMA BytesStep ==
  ASSUME NEW s
  PROVE  /\ Bytes(s, 0) = 0
         /\ \A n \in Nat : Bytes(s, n + 1) = Bytes(s, n) + s[n + 1].width
<1>1. Bytes(s, 0) = 0
  <2>1. 0 \in Nat
    OBVIOUS
  <2>2. PICK g : Summed(s, 0, g) /\ Bytes(s, 0) = g[0]
    BY <2>1, BytesMeans, Zenon
  <2>. QED
    BY <2>1, <2>2, SummedMeans
<1>2. ASSUME NEW n \in Nat PROVE Bytes(s, n + 1) = Bytes(s, n) + s[n + 1].width
  <2>1. n + 1 \in Nat /\ n <= n + 1 /\ n \in 0..n /\ n + 1 \in 1..(n + 1) /\ (n + 1) - 1 = n
    OBVIOUS
  <2>2. PICK g : Summed(s, n, g) /\ Bytes(s, n) = g[n]
    BY BytesMeans, Zenon
  <2>3. PICK h : Summed(s, n + 1, h) /\ Bytes(s, n + 1) = h[n + 1]
    BY <2>1, BytesMeans, Zenon
  <2>4. g[n] = h[n]
    BY <2>1, <2>2, <2>3, SummedAgree
  <2>5. h[n + 1] = h[n] + s[n + 1].width
    BY <2>1, <2>3, SummedMeans
  <2>. QED
    BY <2>2, <2>3, <2>4, <2>5, Zenon
<1>. QED
  BY <1>1, <1>2

\* Sequences that begin alike have the same bytes there.
LEMMA BytesAgree ==
  ASSUME NEW s, NEW t, NEW n \in Nat, \A i \in 1..n : s[i] = t[i]
  PROVE  Bytes(s, n) = Bytes(t, n)
<1>. DEFINE S == {k \in Nat : k <= n => Bytes(s, k) = Bytes(t, k)}
<1>1. 0 \in S
  BY BytesStep
<1>2. ASSUME NEW k \in Nat, k \in S PROVE k + 1 \in S
  <2>1. SUFFICES ASSUME k + 1 <= n PROVE Bytes(s, k + 1) = Bytes(t, k + 1)
    OBVIOUS
  <2>2. k + 1 \in 1..n /\ Bytes(s, k) = Bytes(t, k)
    BY <1>2, <2>1
  <2>3. Bytes(s, k + 1) = Bytes(s, k) + s[k + 1].width
    BY BytesStep
  <2>4. Bytes(t, k + 1) = Bytes(t, k) + t[k + 1].width
    BY BytesStep
  <2>. QED
    BY <2>2, <2>3, <2>4, Zenon
<1>. HIDE DEF S
<1>3. Nat \subseteq S
  BY <1>1, <1>2, Induction
<1>. QED
  BY <1>3 DEF S

LEMMA BytesType ==
  ASSUME NEW s \in Seq(Parts)
  PROVE  \A n \in 0..Len(s) : Bytes(s, n) \in Nat
<1>. DEFINE S == {k \in Nat : k <= Len(s) => Bytes(s, k) \in Nat}
<1>1. 0 \in S
  BY BytesStep
<1>2. ASSUME NEW k \in Nat, k \in S PROVE k + 1 \in S
  <2>1. SUFFICES ASSUME k + 1 <= Len(s) PROVE Bytes(s, k + 1) \in Nat
    OBVIOUS
  <2>2. s[k + 1] \in Parts /\ Bytes(s, k) \in Nat
    BY <1>2, <2>1
  <2>3. Bytes(s, k + 1) = Bytes(s, k) + s[k + 1].width
    BY BytesStep
  <2>. QED
    BY <2>2, <2>3 DEF Parts
<1>. HIDE DEF S
<1>3. Nat \subseteq S
  BY <1>1, <1>2, Induction
<1>. QED
  BY <1>3 DEF S

\* A part more is that part's width more.
LEMMA BytesNext ==
  ASSUME NEW s \in Seq(Parts), NEW i \in 1..Len(s)
  PROVE  /\ s[i] \in Parts /\ s[i].width \in Nat
         /\ Bytes(s, i - 1) \in Nat /\ Bytes(s, i) \in Nat
         /\ Bytes(s, i) = Bytes(s, i - 1) + s[i].width
<1>1. i - 1 \in Nat /\ (i - 1) + 1 = i /\ i \in 0..Len(s) /\ i - 1 \in 0..Len(s)
  OBVIOUS
<1>2. Bytes(s, (i - 1) + 1) = Bytes(s, i - 1) + s[(i - 1) + 1].width
  BY <1>1, BytesStep
<1>3. s[i] \in Parts
  OBVIOUS
<1>. QED
  BY <1>1, <1>2, <1>3, BytesType DEF Parts

LEMMA BytesMonotonic ==
  ASSUME NEW s \in Seq(Parts), NEW i \in 0..Len(s), NEW j \in 0..Len(s), i <= j
  PROVE  Bytes(s, i) <= Bytes(s, j)
<1>. DEFINE S == {k \in Nat : i + k <= Len(s) => Bytes(s, i) <= Bytes(s, i + k)}
<1>1. 0 \in S
  BY BytesType
<1>2. ASSUME NEW k \in Nat, k \in S PROVE k + 1 \in S
  <2>1. SUFFICES ASSUME i + (k + 1) <= Len(s) PROVE Bytes(s, i) <= Bytes(s, i + (k + 1))
    OBVIOUS
  <2>2. /\ i + (k + 1) \in 1..Len(s) /\ (i + (k + 1)) - 1 = i + k
        /\ Bytes(s, i) <= Bytes(s, i + k)
    BY <1>2, <2>1
  <2>3. /\ s[i + (k + 1)].width \in Nat
        /\ Bytes(s, i + k) \in Nat /\ Bytes(s, i + (k + 1)) \in Nat
        /\ Bytes(s, i + (k + 1)) = Bytes(s, i + k) + s[i + (k + 1)].width
    BY <2>2, BytesNext
  <2>4. Bytes(s, i) \in Nat
    BY BytesType
  <2>. QED
    BY <2>2, <2>3, <2>4
<1>. HIDE DEF S
<1>3. Nat \subseteq S
  BY <1>1, <1>2, Induction
<1>4. j - i \in S /\ i + (j - i) = j /\ j <= Len(s)
  BY <1>3
<1>. QED
  BY <1>4 DEF S

----------------------------------------------------------------------------
(* Where a part begins.                                                    *)

\* Of two parts in a row one is not empty.
Apart(s) == \A i \in 1..(Len(s) - 1) : s[i].width > 0 \/ s[i + 1].width > 0

LEMMA LaterBegins ==
  ASSUME NEW s \in Seq(Parts), Apart(s), NEW i \in 1..Len(s), NEW j \in 1..Len(s),
         s[i].width = s[j].width, i < j
  PROVE  Bytes(s, i - 1) # Bytes(s, j - 1)
<1>1. /\ s[i].width \in Nat /\ Bytes(s, i - 1) \in Nat /\ Bytes(s, i) \in Nat
      /\ Bytes(s, i) = Bytes(s, i - 1) + s[i].width
  BY BytesNext
<1>2. Bytes(s, j - 1) \in Nat
  BY BytesNext
<1>3. CASE s[i].width > 0
  <2>1. Bytes(s, i) <= Bytes(s, j - 1)
    BY BytesMonotonic
  <2>. QED
    BY <1>1, <1>2, <1>3, <2>1
<1>4. CASE s[i].width = 0
  <2>1. i \in 1..(Len(s) - 1) /\ i + 1 \in 1..Len(s) /\ (i + 1) - 1 = i
    OBVIOUS
  <2>2. s[i + 1].width > 0
    BY <1>4, <2>1 DEF Apart
  <2>3. i + 1 # j
    <3>1. i + 1 = j => s[i + 1].width = 0
      BY <1>4, Zenon
    <3>. QED
      BY <2>2, <3>1
  <2>4. /\ Bytes(s, i + 1) \in Nat
        /\ Bytes(s, i + 1) = Bytes(s, i) + s[i + 1].width /\ s[i + 1].width \in Nat
    BY <2>1, BytesNext
  <2>5. Bytes(s, i + 1) <= Bytes(s, j - 1)
    <3>1. i + 1 \in 0..Len(s) /\ j - 1 \in 0..Len(s) /\ i + 1 <= j - 1
      BY <2>1, <2>3
    <3>. QED
      BY <3>1, BytesMonotonic
  <2>6. Bytes(s, i) = Bytes(s, i - 1)
    BY <1>1, <1>4
  <2>7. Bytes(s, i) < Bytes(s, i + 1)
    BY <1>1, <2>2, <2>4
  <2>. QED
    BY <1>1, <1>2, <2>4, <2>5, <2>6, <2>7
<1>. QED
  BY <1>1, <1>3, <1>4

\* Looking where a part begins for something of its width finds that part.
LEMMA AtPart ==
  ASSUME frame \in Seq(Parts), Apart(frame), NEW i \in 1..Len(frame)
  PROVE  At(Bytes(frame, i - 1), frame[i].width) = frame[i]
<1>. DEFINE begins == {j \in DOMAIN frame :
                         frame[j].width = frame[i].width /\ Bytes(frame, j - 1) = Bytes(frame, i - 1)}
<1>1. i \in begins
  OBVIOUS
<1>2. ASSUME NEW j \in begins PROVE j = i
  <2>1. j \in 1..Len(frame)
    OBVIOUS
  <2>2. i < j \/ j < i \/ j = i
    BY <2>1
  <2>. QED
    BY <2>1, <2>2, LaterBegins
<1>. HIDE DEF begins
<1>3. (CHOOSE j \in begins : TRUE) = i
  BY <1>1, <1>2
<1>4. At(Bytes(frame, i - 1), frame[i].width) =
         IF begins # {} THEN frame[CHOOSE j \in begins : TRUE]
         ELSE Part("junk", frame[i].width,
                   IF Bytes(frame, i - 1) + frame[i].width <= len
                   THEN len - (Bytes(frame, i - 1) + frame[i].width) ELSE 0)
  BY Zenon DEF At, begins
<1>. QED
  BY <1>1, <1>3, <1>4, Zenon

----------------------------------------------------------------------------
(* Written.                                                                *)

\* g is the recursive function in the definition of Written.
Wrote(m, lengths, n, g) ==
    g = [i \in 0..n |->
            IF i = 0 THEN <<Part("tag", 1, m.tag)>> ELSE g[i - 1] \o Put(m.puts[i], lengths)]

\* What it does: from the tag, field by field.
Grown(m, lengths, n, g) ==
    /\ g[0] = <<Part("tag", 1, m.tag)>>
    /\ \A i \in 1..n : g[i] = g[i - 1] \o Put(m.puts[i], lengths)

LEMMA WroteMeans ==
  ASSUME NEW m, NEW lengths, NEW n \in Nat, NEW g, Wrote(m, lengths, n, g)
  PROVE  Grown(m, lengths, n, g)
<1>. DEFINE h == [i \in 0..n |->
            IF i = 0 THEN <<Part("tag", 1, m.tag)>> ELSE g[i - 1] \o Put(m.puts[i], lengths)]
<1>1. g = h
  BY Zenon DEF Wrote
<1>2. \A i \in 0..n :
         h[i] = IF i = 0 THEN <<Part("tag", 1, m.tag)>> ELSE g[i - 1] \o Put(m.puts[i], lengths)
  BY Zenon
<1>3. 0 \in 0..n /\ \A i \in 1..n : i \in 0..n /\ i # 0
  OBVIOUS
<1>. HIDE DEF h
<1>. QED
  BY <1>1, <1>2, <1>3, Zenon DEF Grown

LEMMA MeansWrote ==
  ASSUME NEW m, NEW lengths, NEW n \in Nat, NEW g, g = [i \in 0..n |-> g[i]],
         Grown(m, lengths, n, g)
  PROVE  Wrote(m, lengths, n, g)
<1>1. \A i \in 0..n : i = 0 \/ i \in 1..n
  OBVIOUS
<1>2. \A i \in 0..n :
         g[i] = IF i = 0 THEN <<Part("tag", 1, m.tag)>> ELSE g[i - 1] \o Put(m.puts[i], lengths)
  BY <1>1, Zenon DEF Grown
<1>. QED
  BY <1>2, Zenon DEF Wrote

LEMMA WroteExists ==
  ASSUME NEW m, NEW lengths, NEW last \in Nat
  PROVE  \E g : Wrote(m, lengths, last, g)
<1>. DEFINE S == {n \in Nat : \E g : Wrote(m, lengths, n, g)}
            tag == <<Part("tag", 1, m.tag)>>
<1>1. 0 \in S
  <2>. DEFINE g == [i \in 0..0 |-> tag]
  <2>. HIDE DEF tag
  <2>1. g = [i \in 0..0 |-> g[i]] /\ g[0] = tag
    OBVIOUS
  <2>2. \A i \in 1..0 : g[i] = g[i - 1] \o Put(m.puts[i], lengths)
    OBVIOUS
  <2>. HIDE DEF g
  <2>3. 0 \in Nat
    OBVIOUS
  <2>4. Grown(m, lengths, 0, g)
    BY <2>1, <2>2, Zenon DEF Grown, tag
  <2>5. Wrote(m, lengths, 0, g)
    BY <2>1, <2>3, <2>4, MeansWrote, Zenon
  <2>. QED
    BY <2>3, <2>5, Zenon
<1>2. ASSUME NEW n \in Nat, n \in S PROVE n + 1 \in S
  <2>1. PICK g : Wrote(m, lengths, n, g)
    BY <1>2
  <2>. DEFINE new == g[n] \o Put(m.puts[n + 1], lengths)
              h == [i \in 0..(n + 1) |-> IF i = n + 1 THEN new ELSE g[i]]
  <2>2. g[0] = tag /\ \A i \in 1..n : g[i] = g[i - 1] \o Put(m.puts[i], lengths)
    <3>1. Grown(m, lengths, n, g)
      BY <2>1, WroteMeans
    <3>. QED
      BY <3>1, Zenon DEF Grown
  <2>. HIDE DEF new, tag
  <2>3. h[0] = tag /\ h[n + 1] = new /\ \A i \in 0..n : h[i] = g[i]
    BY <2>2
  <2>4. h = [i \in 0..(n + 1) |-> h[i]]
    OBVIOUS
  <2>. HIDE DEF h
  <2>5. ASSUME NEW i \in 1..(n + 1) PROVE h[i] = h[i - 1] \o Put(m.puts[i], lengths)
    <3>1. CASE i = n + 1
      <4>1. i - 1 = n /\ n \in 0..n
        BY <3>1
      <4>. QED
        BY <2>3, <3>1, <4>1, Zenon DEF new
    <3>2. CASE i \in 1..n
      <4>1. i - 1 \in 0..n /\ i \in 0..n
        BY <3>2
      <4>. QED
        BY <2>2, <2>3, <3>2, <4>1, Zenon
    <3>3. i = n + 1 \/ i \in 1..n
      OBVIOUS
    <3>. QED
      BY <3>1, <3>2, <3>3, Zenon
  <2>6. n + 1 \in Nat
    OBVIOUS
  <2>7. Wrote(m, lengths, n + 1, h)
    <3>1. Grown(m, lengths, n + 1, h)
      BY <2>3, <2>5, Zenon DEF Grown, tag
    <3>. QED
      BY <2>4, <2>6, <3>1, MeansWrote
  <2>. QED
    BY <2>6, <2>7
<1>. HIDE DEF S
<1>3. Nat \subseteq S
  BY <1>1, <1>2, Induction
<1>. QED
  BY <1>3 DEF S

LEMMA WrittenMeans ==
  ASSUME NEW m, NEW lengths, NEW n \in Nat
  PROVE  \E g : Wrote(m, lengths, n, g) /\ Written(m, lengths, n) = g[n]
<1>. DEFINE g == CHOOSE g : Wrote(m, lengths, n, g)
<1>1. Wrote(m, lengths, n, g)
  BY WroteExists
<1>2. Written(m, lengths, n) = g[n]
  BY Zenon DEF Written, Wrote
<1>. QED
  BY <1>1, <1>2

\* The recursion of Written, without its function.
LEMMA WrittenStep ==
  ASSUME NEW m, NEW lengths
  PROVE  /\ Written(m, lengths, 0) = <<Part("tag", 1, m.tag)>>
         /\ \A n \in Nat :
               Written(m, lengths, n + 1) = Written(m, lengths, n) \o Put(m.puts[n + 1], lengths)
<1>1. Written(m, lengths, 0) = <<Part("tag", 1, m.tag)>>
  <2>1. 0 \in Nat
    OBVIOUS
  <2>2. PICK g : Wrote(m, lengths, 0, g) /\ Written(m, lengths, 0) = g[0]
    BY <2>1, WrittenMeans, Zenon
  <2>3. Grown(m, lengths, 0, g)
    BY <2>1, <2>2, WroteMeans
  <2>. QED
    BY <2>2, <2>3, Zenon DEF Grown
<1>2. ASSUME NEW n \in Nat
      PROVE  Written(m, lengths, n + 1) = Written(m, lengths, n) \o Put(m.puts[n + 1], lengths)
  <2>1. n + 1 \in Nat /\ n <= n /\ n + 1 \in 1..(n + 1) /\ (n + 1) - 1 = n
    OBVIOUS
  <2>2. PICK g : Wrote(m, lengths, n, g) /\ Written(m, lengths, n) = g[n]
    BY WrittenMeans, Zenon
  <2>3. PICK h : Wrote(m, lengths, n + 1, h) /\ Written(m, lengths, n + 1) = h[n + 1]
    BY <2>1, WrittenMeans, Zenon
  <2>4. /\ g[0] = h[0] /\ \A i \in 1..n : g[i] = g[i - 1] \o Put(m.puts[i], lengths)
        /\ \A i \in 1..(n + 1) : h[i] = h[i - 1] \o Put(m.puts[i], lengths)
    <3>1. Grown(m, lengths, n, g)
      BY <2>2, WroteMeans
    <3>2. Grown(m, lengths, n + 1, h)
      BY <2>1, <2>3, WroteMeans
    <3>. QED
      BY <3>1, <3>2, Zenon DEF Grown
  <2>. DEFINE S == {k \in Nat : k <= n => g[k] = h[k]}
  <2>5. 0 \in S
    BY <2>4, Zenon
  <2>6. ASSUME NEW k \in Nat, k \in S PROVE k + 1 \in S
    <3>1. SUFFICES ASSUME k + 1 <= n PROVE g[k + 1] = h[k + 1]
      OBVIOUS
    <3>2. k + 1 \in 1..n /\ k + 1 \in 1..(n + 1) /\ (k + 1) - 1 = k /\ k <= n
      BY <3>1
    <3>3. g[k] = h[k]
      BY <2>6, <3>2
    <3>. QED
      BY <2>4, <3>2, <3>3, Zenon
  <2>. HIDE DEF S
  <2>7. Nat \subseteq S
    BY <2>5, <2>6, Induction
  <2>8. g[n] = h[n]
    BY <2>1, <2>7 DEF S
  <2>9. h[n + 1] = h[(n + 1) - 1] \o Put(m.puts[n + 1], lengths)
    BY <2>1, <2>4, Zenon
  <2>. QED
    BY <2>1, <2>2, <2>3, <2>8, <2>9, Zenon
<1>. QED
  BY <1>1, <1>2, Zenon

----------------------------------------------------------------------------
(* The frame of a message, and where its fields are.                       *)

LEMMA Widths ==
  ASSUME NEW field \in Fixed
  PROVE  field \notin Variable /\ field \in Names /\ Width(field) \in Nat \ {0}
<1>1. field \in Names
  BY DEF Names
<1>2. CASE field \in Points
  BY <1>1, <1>2 DEF Points, Nonces, Scalars, Variable, Width
<1>3. CASE field \in Nonces
  BY <1>1, <1>3 DEF Points, Nonces, Scalars, Variable, Width
<1>4. CASE field \in Scalars
  BY <1>1, <1>4 DEF Points, Nonces, Scalars, Variable, Width
<1>5. CASE field \in {"input", "amount", "stake_sats", "fee_sats", "refund_locktime",
                     "alice_timeout", "scheme"}
  BY <1>1, <1>5 DEF Points, Nonces, Scalars, Variable, Width
<1>. QED
  BY <1>2, <1>3, <1>4, <1>5 DEF Fixed

LEMMA PartType ==
  ASSUME NEW of \in Names, NEW width \in Nat, NEW is \in Nat
  PROVE  /\ Part(of, width, is) \in Parts
         /\ Part(of, width, is).of = of
         /\ Part(of, width, is).width = width
         /\ Part(of, width, is).is = is
BY DEF Part, Parts

\* A message as the codec has them, and lengths for its variable fields.
Writable(m, lengths) ==
    /\ m.tag \in Nat
    /\ m.puts \in Seq(Fixed \union Variable)
    /\ \A i \in 1..Len(m.puts) : m.puts[i] \in Variable => lengths[m.puts[i]] \in Nat

\* The parts of a field: the first is never empty, and two never are.
LEMMA PutFacts ==
  ASSUME NEW field \in Fixed \union Variable, NEW lengths,
         field \in Variable => lengths[field] \in Nat
  PROVE  /\ Put(field, lengths) \in Seq(Parts)
         /\ Put(field, lengths)[1].width > 0
         /\ field \in Variable =>
               /\ Len(Put(field, lengths)) = 2
               /\ Put(field, lengths)[1] = Part("length", 4, lengths[field])
               /\ Put(field, lengths)[2] = Part(field, lengths[field], 0)
         /\ field \in Fixed =>
               /\ Len(Put(field, lengths)) = 1
               /\ Put(field, lengths)[1] = Part(field, Width(field), 0)
<1>1. CASE field \in Variable
  <2>1. field \notin Fixed /\ field \in Names /\ "length" \in Names
    BY <1>1, Widths DEF Names
  <2>. DEFINE a == Part("length", 4, lengths[field])
              b == Part(field, lengths[field], 0)
  <2>2. Put(field, lengths) = <<a, b>>
    BY <1>1 DEF Put
  <2>3. a \in Parts /\ b \in Parts /\ a.width > 0
    BY <1>1, <2>1, PartType
  <2>. HIDE DEF a, b
  <2>4. <<a, b>> \in Seq(Parts) /\ Len(<<a, b>>) = 2 /\ <<a, b>>[1] = a /\ <<a, b>>[2] = b
    BY <2>3
  <2>. QED
    BY <2>1, <2>2, <2>3, <2>4, Zenon DEF a, b
<1>2. CASE field \in Fixed
  <2>1. field \notin Variable /\ field \in Names /\ Width(field) \in Nat \ {0}
    BY <1>2, Widths
  <2>. DEFINE a == Part(field, Width(field), 0)
  <2>2. Put(field, lengths) = <<a>>
    BY <2>1 DEF Put
  <2>3. a \in Parts /\ a.width > 0
    BY <2>1, PartType
  <2>. HIDE DEF a
  <2>4. <<a>> \in Seq(Parts) /\ Len(<<a>>) = 1 /\ <<a>>[1] = a
    BY <2>3
  <2>. QED
    BY <2>1, <2>2, <2>3, <2>4, Zenon DEF a
<1>. QED
  BY <1>1, <1>2

\* One field more.
LEMMA WrittenNext ==
  ASSUME NEW m, NEW lengths, Writable(m, lengths), NEW n \in Nat, n < Len(m.puts),
         Written(m, lengths, n) \in Seq(Parts)
  PROVE  LET s == Written(m, lengths, n)
             t == Written(m, lengths, n + 1)
             put == Put(m.puts[n + 1], lengths)
         IN  /\ t \in Seq(Parts) /\ put \in Seq(Parts)
             /\ Len(s) \in Nat /\ Len(put) \in {1, 2} /\ Len(t) = Len(s) + Len(put)
             /\ \A i \in 1..Len(s) : t[i] = s[i]
             /\ \A i \in 1..Len(put) : t[Len(s) + i] = put[i]
<1>. DEFINE s == Written(m, lengths, n)
            t == Written(m, lengths, n + 1)
            put == Put(m.puts[n + 1], lengths)
<1>1. /\ m.puts[n + 1] \in Fixed \union Variable
      /\ m.puts[n + 1] \in Variable => lengths[m.puts[n + 1]] \in Nat
  <2>1. n + 1 \in 1..Len(m.puts)
    BY DEF Writable
  <2>. QED
    BY <2>1 DEF Writable
<1>2. put \in Seq(Parts) /\ Len(put) \in {1, 2}
  BY <1>1, PutFacts
<1>3. t = s \o put
  BY WrittenStep
<1>4. s \in Seq(Parts)
  OBVIOUS
<1>. HIDE DEF s, t, put
<1>5. /\ s \o put \in Seq(Parts) /\ Len(s \o put) = Len(s) + Len(put)
      /\ \A i \in 1..(Len(s) + Len(put)) :
            (s \o put)[i] = IF i <= Len(s) THEN s[i] ELSE put[i - Len(s)]
  BY <1>2, <1>4, ConcatProperties
<1>6. ASSUME NEW i \in 1..Len(s) PROVE t[i] = s[i]
  <2>1. i \in 1..(Len(s) + Len(put)) /\ i <= Len(s)
    BY <1>2, <1>4
  <2>. QED
    BY <1>3, <1>5, <2>1, Zenon
<1>7. ASSUME NEW i \in 1..Len(put) PROVE t[Len(s) + i] = put[i]
  <2>1. /\ Len(s) + i \in 1..(Len(s) + Len(put)) /\ ~(Len(s) + i <= Len(s))
        /\ (Len(s) + i) - Len(s) = i
    BY <1>2, <1>4
  <2>. QED
    BY <1>3, <1>5, <2>1, Zenon
<1>8. Len(s) \in Nat
  BY <1>4
<1>. QED
  BY <1>2, <1>3, <1>5, <1>6, <1>7, <1>8, Zenon DEF s, t, put

\* Of two parts in a row that are not both old, the first is the last old one
\* or both are new.
LEMMA Straddle ==
  ASSUME NEW a \in Nat, NEW b \in {1, 2}, NEW c, c = a + b, NEW i \in 1..(c - 1), i >= a
  PROVE  i = a \/ (i = a + 1 /\ b = 2)
OBVIOUS

\* What is written is parts, the first of them the tag, no two in a row empty.
LEMMA WrittenType ==
  ASSUME NEW m, NEW lengths, Writable(m, lengths)
  PROVE  \A n \in 0..Len(m.puts) :
            /\ Written(m, lengths, n) \in Seq(Parts)
            /\ Len(Written(m, lengths, n)) >= 1
            /\ Written(m, lengths, n)[1] = Part("tag", 1, m.tag)
            /\ Apart(Written(m, lengths, n))
<1>. DEFINE Good(s) == /\ s \in Seq(Parts) /\ Len(s) >= 1
                       /\ s[1] = Part("tag", 1, m.tag) /\ Apart(s)
            S == {n \in Nat : n <= Len(m.puts) => Good(Written(m, lengths, n))}
<1>1. 0 \in S
  <2>. DEFINE tag == Part("tag", 1, m.tag)
  <2>1. Written(m, lengths, 0) = <<tag>>
    BY WrittenStep
  <2>2. tag \in Parts
    BY PartType DEF Writable, Names
  <2>. HIDE DEF tag
  <2>3. /\ <<tag>> \in Seq(Parts) /\ Len(<<tag>>) = 1 /\ <<tag>>[1] = tag
        /\ Len(<<tag>>) >= 1 /\ Apart(<<tag>>)
    BY <2>2 DEF Apart
  <2>. QED
    BY <2>1, <2>3, Zenon DEF tag
<1>2. ASSUME NEW n \in Nat, n \in S PROVE n + 1 \in S
  <2>1. SUFFICES ASSUME n + 1 <= Len(m.puts) PROVE Good(Written(m, lengths, n + 1))
    OBVIOUS
  <2>2. Len(m.puts) \in Nat
    BY DEF Writable
  <2>3. n < Len(m.puts) /\ n <= Len(m.puts) /\ n + 1 \in 1..Len(m.puts)
    BY <2>1, <2>2
  <2>. DEFINE s == Written(m, lengths, n)
              t == Written(m, lengths, n + 1)
              put == Put(m.puts[n + 1], lengths)
  <2>4. Good(s)
    BY <1>2, <2>3
  <2>5. /\ t \in Seq(Parts) /\ put \in Seq(Parts)
        /\ Len(s) \in Nat /\ Len(put) \in {1, 2} /\ Len(t) = Len(s) + Len(put)
        /\ \A i \in 1..Len(s) : t[i] = s[i]
        /\ \A i \in 1..Len(put) : t[Len(s) + i] = put[i]
    BY <2>3, <2>4, WrittenNext
  <2>6. put[1].width > 0
    BY <2>3, PutFacts DEF Writable
  <2>. HIDE DEF s, t, put
  <2>7. Len(t) >= 1 /\ t[1] = Part("tag", 1, m.tag)
    <3>1. 1 \in 1..Len(s) /\ Len(t) >= 1
      BY <2>4, <2>5
    <3>. QED
      BY <2>4, <2>5, <3>1, Zenon
  <2>8. ASSUME NEW i \in 1..(Len(t) - 1) PROVE t[i].width > 0 \/ t[i + 1].width > 0
    <3>1. CASE i < Len(s)
      <4>1. i \in 1..Len(s) /\ i + 1 \in 1..Len(s) /\ i \in 1..(Len(s) - 1)
        BY <2>5, <3>1
      <4>2. t[i] = s[i] /\ t[i + 1] = s[i + 1]
        BY <2>5, <4>1, Zenon
      <4>. QED
        BY <2>4, <4>1, <4>2, Zenon DEF Apart
    <3>2. CASE i >= Len(s)
      <4>. Len(s) \in Nat /\ Len(put) \in {1, 2} /\ Len(t) = Len(s) + Len(put)
        BY <2>5, Zenon
      <4>1. i = Len(s) \/ (i = Len(s) + 1 /\ Len(put) = 2)
        BY <3>2, Straddle, Zenon
      <4>2. 1 \in 1..Len(put)
        OBVIOUS
      <4>3. t[Len(s) + 1] = put[1]
        BY <2>5, <4>2, Zenon
      <4>. QED
        BY <2>6, <4>1, <4>3, Zenon
    <3>. QED
      BY <2>5, <3>1, <3>2
  <2>. QED
    BY <2>5, <2>7, <2>8, Zenon DEF Apart, t
<1>. HIDE DEF S
<1>3. Nat \subseteq S
  BY <1>1, <1>2, Induction
<1>4. ASSUME NEW n \in 0..Len(m.puts) PROVE Good(Written(m, lengths, n))
  <2>1. n \in Nat /\ n <= Len(m.puts)
    BY DEF Writable
  <2>. HIDE DEF Good
  <2>. QED
    BY <1>3, <2>1, Zenon DEF S
<1>. QED
  BY <1>4

\* What is written later leaves what is written.
LEMMA WrittenPrefix ==
  ASSUME NEW m, NEW lengths, Writable(m, lengths),
         NEW j \in 0..Len(m.puts), NEW n \in 0..Len(m.puts), j <= n
  PROVE  /\ Len(Written(m, lengths, j)) <= Len(Written(m, lengths, n))
         /\ \A i \in 1..Len(Written(m, lengths, j)) :
               Written(m, lengths, n)[i] = Written(m, lengths, j)[i]
<1>. DEFINE W(k) == Written(m, lengths, k)
            Begins(s, t) == Len(s) <= Len(t) /\ \A i \in 1..Len(s) : t[i] = s[i]
            S == {k \in Nat : j + k <= Len(m.puts) => Begins(W(j), W(j + k))}
<1>. Len(m.puts) \in Nat /\ j \in Nat /\ n \in Nat
  BY DEF Writable
<1>1. 0 \in S
  <2>1. W(j) \in Seq(Parts) /\ j + 0 = j
    BY WrittenType
  <2>. HIDE DEF W
  <2>2. Begins(W(j), W(j))
    BY <2>1
  <2>. QED
    BY <2>1, <2>2
<1>2. ASSUME NEW k \in Nat, k \in S PROVE k + 1 \in S
  <2>1. SUFFICES ASSUME j + (k + 1) <= Len(m.puts) PROVE Begins(W(j), W(j + (k + 1)))
    OBVIOUS
  <2>2. /\ j + k \in Nat /\ j + k < Len(m.puts) /\ j + k \in 0..Len(m.puts)
        /\ j + (k + 1) = (j + k) + 1 /\ j + k <= Len(m.puts)
    BY <2>1
  <2>3. W(j) \in Seq(Parts) /\ W(j + k) \in Seq(Parts)
    BY <2>2, WrittenType
  <2>4. /\ Len(W(j + k)) <= Len(W((j + k) + 1))
        /\ \A i \in 1..Len(W(j + k)) : W((j + k) + 1)[i] = W(j + k)[i]
    <3>. DEFINE put == Put(m.puts[(j + k) + 1], lengths)
    <3>1. /\ Len(W(j + k)) \in Nat /\ Len(put) \in {1, 2}
          /\ Len(W((j + k) + 1)) = Len(W(j + k)) + Len(put)
          /\ \A i \in 1..Len(W(j + k)) : W((j + k) + 1)[i] = W(j + k)[i]
      BY <2>2, <2>3, WrittenNext
    <3>. HIDE DEF put, W
    <3>. QED
      BY <3>1
  <2>. HIDE DEF W
  <2>5. Begins(W(j), W(j + k))
    BY <1>2, <2>2
  <2>6. Len(W(j)) \in Nat /\ Len(W(j + k)) \in Nat
    BY <2>3
  <2>7. Begins(W(j), W((j + k) + 1))
    <3>1. Len(W((j + k) + 1)) \in Nat
      <4>1. W((j + k) + 1) \in Seq(Parts)
        BY <2>1, <2>2, WrittenType DEF W
      <4>. QED
        BY <4>1
    <3>2. Len(W(j)) <= Len(W((j + k) + 1))
      BY <2>4, <2>5, <2>6, <3>1
    <3>3. ASSUME NEW i \in 1..Len(W(j)) PROVE W((j + k) + 1)[i] = W(j)[i]
      <4>1. i \in 1..Len(W(j + k))
        BY <2>5, <2>6
      <4>. QED
        BY <2>4, <2>5, <4>1, Zenon
    <3>. QED
      BY <3>2, <3>3
  <2>. QED
    BY <2>2, <2>7, Zenon
<1>. HIDE DEF S
<1>3. Nat \subseteq S
  BY <1>1, <1>2, Induction
<1>4. n - j \in Nat /\ j + (n - j) = n /\ n <= Len(m.puts)
  OBVIOUS
<1>5. Begins(W(j), W(n))
  <2>1. n - j \in S
    BY <1>3, <1>4
  <2>2. Begins(W(j), W(j + (n - j)))
    BY <1>4, <2>1, Zenon DEF S
  <2>. QED
    BY <1>4, <2>2, Zenon
<1>. QED
  BY <1>5

\* Where the j-th field of a frame ends.
Offset(m, lengths, j) == Bytes(Encode(m, lengths), Len(Written(m, lengths, j)))

LEMMA OffsetEnds ==
  ASSUME NEW m, NEW lengths, Writable(m, lengths)
  PROVE  /\ Encode(m, lengths) \in Seq(Parts) /\ Apart(Encode(m, lengths))
         /\ Len(Encode(m, lengths)) >= 1
         /\ Encode(m, lengths)[1] = Part("tag", 1, m.tag)
         /\ Size(Encode(m, lengths)) \in Nat
         /\ Offset(m, lengths, 0) = 1
         /\ Offset(m, lengths, Len(m.puts)) = Size(Encode(m, lengths))
         /\ \A j \in 0..Len(m.puts) :
               /\ Offset(m, lengths, j) \in Nat
               /\ Offset(m, lengths, j) <= Size(Encode(m, lengths))
<1>. DEFINE frm == Encode(m, lengths)
            W(k) == Written(m, lengths, k)
<1>. Len(m.puts) \in Nat
  BY DEF Writable
<1>1. /\ frm \in Seq(Parts) /\ Apart(frm) /\ Len(frm) >= 1 /\ frm[1] = Part("tag", 1, m.tag)
      /\ frm = W(Len(m.puts))
  BY WrittenType DEF Encode
<1>2. Len(frm) \in Nat /\ Size(frm) \in Nat
  <2>. HIDE DEF frm
  <2>1. Len(frm) \in 0..Len(frm)
    BY <1>1
  <2>. QED
    BY <1>1, <2>1, BytesType DEF Size
<1>3. Offset(m, lengths, Len(m.puts)) = Size(frm)
  BY <1>1, Zenon DEF Offset, Size
<1>4. Offset(m, lengths, 0) = 1
  <2>1. Len(Written(m, lengths, 0)) = 1
    <3>. DEFINE tag == Part("tag", 1, m.tag)
    <3>1. Written(m, lengths, 0) = <<tag>>
      BY WrittenStep
    <3>. HIDE DEF tag
    <3>. QED
      BY <3>1
  <2>2. frm[1].width = 1
    BY <1>1 DEF Part
  <2>3. 0 \in Nat /\ 0 + 1 = 1 /\ 0 + 1 \in Nat
    OBVIOUS
  <2>4. Bytes(frm, 0) = 0 /\ Bytes(frm, 0 + 1) = Bytes(frm, 0) + frm[0 + 1].width
    BY <2>3, BytesStep
  <2>. HIDE DEF frm
  <2>5. Bytes(frm, 1) = 1
    BY <2>2, <2>4
  <2>. QED
    BY <2>1, <2>5, Zenon DEF Offset, frm
<1>5. ASSUME NEW j \in 0..Len(m.puts)
      PROVE  Offset(m, lengths, j) \in Nat /\ Offset(m, lengths, j) <= Size(frm)
  <2>1. W(j) \in Seq(Parts)
    BY WrittenType
  <2>2. Len(W(j)) <= Len(frm)
    BY <1>1, WrittenPrefix
  <2>. HIDE DEF frm, W
  <2>3. Len(W(j)) \in 0..Len(frm) /\ Len(frm) \in 0..Len(frm)
    BY <1>2, <2>1, <2>2
  <2>4. Bytes(frm, Len(W(j))) \in Nat /\ Bytes(frm, Len(W(j))) <= Size(frm)
    BY <1>1, <1>2, <2>2, <2>3, BytesType, BytesMonotonic DEF Size
  <2>. QED
    BY <2>4, Zenon DEF Offset, frm, W
<1>. QED
  BY <1>1, <1>2, <1>3, <1>4, <1>5, Zenon

\* A reader that stands where a field begins finds it there.
LEMMA FieldFound ==
  ASSUME NEW m, NEW lengths, Writable(m, lengths), frame = Encode(m, lengths),
         NEW j \in 1..Len(m.puts)
  PROVE  LET field == m.puts[j]
             p == Offset(m, lengths, j - 1)
         IN  /\ field \in Fixed =>
                   /\ At(p, Width(field)).of = field
                   /\ Offset(m, lengths, j) = p + Width(field)
             /\ field \in Variable =>
                   /\ At(p, 4).is = lengths[field]
                   /\ At(p + 4, lengths[field]).of = field
                   /\ Offset(m, lengths, j) = p + 4 + lengths[field]
<1>. DEFINE field == m.puts[j]
            p == Offset(m, lengths, j - 1)
            s == Written(m, lengths, j - 1)
            t == Written(m, lengths, j)
            put == Put(field, lengths)
            a == Len(s)
<1>. Len(m.puts) \in Nat
  BY DEF Writable
<1>1. /\ j - 1 \in Nat /\ j - 1 < Len(m.puts) /\ (j - 1) + 1 = j
      /\ j - 1 \in 0..Len(m.puts) /\ j \in 0..Len(m.puts) /\ Len(m.puts) \in 0..Len(m.puts)
  OBVIOUS
<1>2. field \in Fixed \union Variable /\ (field \in Variable => lengths[field] \in Nat)
  BY DEF Writable
<1>3. /\ s \in Seq(Parts) /\ t \in Seq(Parts) /\ a \in Nat /\ Len(put) \in {1, 2}
      /\ Len(t) = a + Len(put)
      /\ \A i \in 1..Len(put) : t[a + i] = put[i]
  <2>1. s \in Seq(Parts)
    BY <1>1, WrittenType
  <2>. QED
    BY <1>1, <2>1, WrittenNext
<1>4. /\ Len(t) <= Len(frame) /\ \A i \in 1..Len(t) : frame[i] = t[i]
  BY <1>1, WrittenPrefix DEF Encode
<1>5. /\ frame \in Seq(Parts) /\ Apart(frame)
  BY OffsetEnds
<1>6. p = Bytes(frame, a) /\ Offset(m, lengths, j) = Bytes(frame, Len(t))
  BY DEF Offset
<1>7. CASE field \in Fixed
  <2>1. Len(put) = 1 /\ put[1] = Part(field, Width(field), 0)
    BY <1>7, PutFacts, <1>2
  <2>2. field \notin Variable /\ field \in Names /\ Width(field) \in Nat
    BY <1>7, Widths
  <2>3. put[1].of = field /\ put[1].width = Width(field)
    BY <2>1, <2>2, PartType
  <2>. HIDE DEF field, p, s, t, put, a
  <2>4. /\ 1 \in 1..Len(put) /\ a + 1 \in 1..Len(t) /\ a + 1 \in 1..Len(frame)
        /\ (a + 1) - 1 = a /\ Len(t) = a + 1
    BY <1>3, <1>4, <1>5, <2>1
  <2>5. frame[a + 1] = put[1]
    BY <1>3, <1>4, <2>4, Zenon
  <2>6. At(Bytes(frame, (a + 1) - 1), frame[a + 1].width) = frame[a + 1]
    BY <1>5, <2>4, AtPart, Zenon
  <2>7. At(p, Width(field)).of = field
    BY <1>6, <2>3, <2>4, <2>5, <2>6, Zenon
  <2>8. Bytes(frame, a + 1) = Bytes(frame, a) + frame[a + 1].width
    BY <1>3, BytesStep
  <2>9. Offset(m, lengths, j) = p + Width(field)
    BY <1>6, <2>3, <2>4, <2>5, <2>8, Zenon
  <2>. QED
    BY <2>2, <2>7, <2>9, Zenon DEF field, p
<1>8. CASE field \in Variable
  <2>1. /\ Len(put) = 2 /\ put[1] = Part("length", 4, lengths[field])
        /\ put[2] = Part(field, lengths[field], 0) /\ lengths[field] \in Nat
    BY <1>8, <1>2, PutFacts
  <2>2. field \notin Fixed /\ field \in Names /\ "length" \in Names /\ 4 \in Nat /\ 0 \in Nat
    BY <1>8, Widths DEF Names
  <2>. HIDE DEF field, p, s, t, put, a
  <2>3. /\ put[1].is = lengths[field] /\ put[1].width = 4
        /\ put[2].of = field /\ put[2].width = lengths[field]
    BY <2>1 DEF Part
  <2>4. /\ 1 \in 1..Len(put) /\ 2 \in 1..Len(put) /\ a + 1 \in 1..Len(t) /\ a + 2 \in 1..Len(t)
        /\ a + 1 \in 1..Len(frame) /\ a + 2 \in 1..Len(frame)
        /\ (a + 1) - 1 = a /\ (a + 2) - 1 = a + 1 /\ Len(t) = a + 2
        /\ a + 1 \in Nat /\ (a + 1) + 1 = a + 2
    BY <1>3, <1>4, <1>5, <2>1
  <2>5. frame[a + 1] = put[1] /\ frame[a + 2] = put[2]
    BY <1>3, <1>4, <2>4, Zenon
  <2>6. Bytes(frame, a + 1) = Bytes(frame, a) + frame[a + 1].width
    BY <1>3, BytesStep
  <2>7. Bytes(frame, (a + 1) + 1) = Bytes(frame, a + 1) + frame[(a + 1) + 1].width
    BY <2>4, BytesStep
  <2>8. At(Bytes(frame, (a + 1) - 1), frame[a + 1].width) = frame[a + 1]
    BY <1>5, <2>4, AtPart, Zenon
  <2>9. At(Bytes(frame, (a + 2) - 1), frame[a + 2].width) = frame[a + 2]
    BY <1>5, <2>4, AtPart, Zenon
  <2>10. At(p, 4).is = lengths[field]
    BY <1>6, <2>3, <2>4, <2>5, <2>8, Zenon
  <2>11. Bytes(frame, a + 1) = p + 4
    BY <1>6, <2>3, <2>5, <2>6, Zenon
  <2>12. At(p + 4, lengths[field]).of = field
    BY <2>3, <2>4, <2>5, <2>9, <2>11, Zenon
  <2>13. Offset(m, lengths, j) = p + 4 + lengths[field]
    BY <1>6, <2>3, <2>4, <2>5, <2>7, <2>11, Zenon
  <2>. QED
    BY <2>2, <2>10, <2>12, <2>13, Zenon DEF field, p
<1>. QED
  BY <1>2, <1>7, <1>8, Zenon

----------------------------------------------------------------------------
(* The codec.                                                              *)

LEMMA Kinds ==
  /\ DOMAIN Flights = {"AliceOpen", "BobCommit", "AliceReveal", "BobAuth", "FundOpen",
                       "FundReply", "FundSign", "FundFinal", "CoopReveal"}
  /\ DOMAIN Controls = {"ProposeTerms", "HELLO", "ACCEPT", "REJECT"}
  /\ DOMAIN Codec = DOMAIN Flights \union DOMAIN Controls
  /\ \A k \in DOMAIN Flights : Codec[k] = Flights[k]
  /\ \A k \in DOMAIN Controls : Codec[k] = Controls[k] /\ k \notin DOMAIN Flights
<1>1. DOMAIN Flights = {"AliceOpen", "BobCommit", "AliceReveal", "BobAuth", "FundOpen",
                        "FundReply", "FundSign", "FundFinal", "CoopReveal"}
  BY DEF Flights
<1>2. DOMAIN Controls = {"ProposeTerms", "HELLO", "ACCEPT", "REJECT"}
  BY DEF Controls
<1>3. Codec = [k \in DOMAIN Flights \union DOMAIN Controls |->
                  IF k \in DOMAIN Flights THEN Flights[k] ELSE Controls[k]]
  BY DEF Codec
<1>4. \A k \in DOMAIN Controls : k \notin DOMAIN Flights
  BY <1>1, <1>2
<1>. QED
  BY <1>1, <1>2, <1>3, <1>4, Zenon

\* The codec, message by message.
LEMMA Messages ==
  /\ Codec["AliceOpen"] = AliceOpen /\ Codec["BobCommit"] = BobCommit
  /\ Codec["AliceReveal"] = AliceReveal /\ Codec["BobAuth"] = BobAuth
  /\ Codec["FundOpen"] = FundOpen /\ Codec["FundReply"] = FundReply
  /\ Codec["FundSign"] = FundSign /\ Codec["FundFinal"] = FundFinal
  /\ Codec["CoopReveal"] = CoopReveal /\ Codec["ProposeTerms"] = ProposeTerms
  /\ Codec["HELLO"] = HELLO /\ Codec["ACCEPT"] = ACCEPT /\ Codec["REJECT"] = REJECT
BY Kinds DEF Flights, Controls

\* What decode takes is what encode puts.
LEMMA MessageForm ==
  ASSUME NEW k \in DOMAIN Codec
  PROVE  /\ Codec[k].tag \in Nat
         /\ Codec[k].puts \in Seq(Fixed \union Variable)
         /\ Codec[k].takes = Codec[k].puts
         /\ k \in DOMAIN Flights => Len(Codec[k].puts) >= 1
<1>. DEFINE Form(m) == /\ m.tag \in Nat /\ m.puts \in Seq(Fixed \union Variable)
                       /\ m.takes = m.puts
<1>1. Form(AliceOpen) /\ Len(AliceOpen.puts) >= 1
  BY DEF AliceOpen, Message, Fixed, Variable, Points, Nonces, Scalars
<1>2. Form(BobCommit) /\ Len(BobCommit.puts) >= 1
  BY DEF BobCommit, Message, Fixed, Variable, Points, Nonces, Scalars
<1>3. Form(AliceReveal) /\ Len(AliceReveal.puts) >= 1
  BY DEF AliceReveal, Message, Fixed, Variable, Points, Nonces, Scalars
<1>4. Form(BobAuth) /\ Len(BobAuth.puts) >= 1
  BY DEF BobAuth, Message, Fixed, Variable, Points, Nonces, Scalars
<1>5. Form(FundOpen) /\ Len(FundOpen.puts) >= 1
  BY DEF FundOpen, Message, Fixed, Variable, Points, Nonces, Scalars
<1>6. Form(FundReply) /\ Len(FundReply.puts) >= 1
  BY DEF FundReply, Message, Fixed, Variable, Points, Nonces, Scalars
<1>7. Form(FundSign) /\ Len(FundSign.puts) >= 1
  BY DEF FundSign, Message, Fixed, Variable, Points, Nonces, Scalars
<1>8. Form(FundFinal) /\ Len(FundFinal.puts) >= 1
  BY DEF FundFinal, Message, Fixed, Variable, Points, Nonces, Scalars
<1>9. Form(CoopReveal) /\ Len(CoopReveal.puts) >= 1
  BY DEF CoopReveal, Message, Fixed, Variable, Points, Nonces, Scalars
<1>10. Form(ProposeTerms)
  BY DEF ProposeTerms, Message, Fixed, Variable, Points, Nonces, Scalars
<1>11. Form(HELLO)
  BY DEF HELLO, Message, Fixed, Variable, Points, Nonces, Scalars
<1>12. Form(ACCEPT)
  BY DEF ACCEPT, Message, Fixed, Variable, Points, Nonces, Scalars
<1>13. Form(REJECT)
  BY DEF REJECT, Message, Fixed, Variable, Points, Nonces, Scalars
<1>. HIDE DEF Form
<1>14. Form(Codec[k])
  BY Kinds, Messages, <1>1, <1>2, <1>3, <1>4, <1>5, <1>6, <1>7, <1>8, <1>9, <1>10, <1>11, <1>12, <1>13
<1>15. k \in DOMAIN Flights => Len(Codec[k].puts) >= 1
  BY Kinds, Messages, <1>1, <1>2, <1>3, <1>4, <1>5, <1>6, <1>7, <1>8, <1>9
<1>. QED
  BY <1>14, <1>15 DEF Form

LEMMA Tags ==
  /\ Codec["AliceOpen"].tag = 1 /\ Codec["BobCommit"].tag = 2 /\ Codec["AliceReveal"].tag = 3
  /\ Codec["BobAuth"].tag = 4 /\ Codec["FundOpen"].tag = 5 /\ Codec["FundReply"].tag = 6
  /\ Codec["FundFinal"].tag = 7 /\ Codec["CoopReveal"].tag = 8 /\ Codec["FundSign"].tag = 11
  /\ Codec["ProposeTerms"].tag = 1 /\ Codec["HELLO"].tag = 0
  /\ Codec["ACCEPT"].tag = 2 /\ Codec["REJECT"].tag = 3
BY Messages DEF AliceOpen, BobCommit, AliceReveal, BobAuth, FundOpen, FundReply, FundSign,
    FundFinal, CoopReveal, ProposeTerms, HELLO, ACCEPT, REJECT, Message

Opening == {"AliceOpen", "BobCommit", "AliceReveal"}
Short == {"ProposeTerms", "ACCEPT", "REJECT"}

\* Only the first three flights share a tag, with a control message each.
LEMMA TagShared ==
  ASSUME NEW k \in DOMAIN Codec, NEW r \in DOMAIN Codec, k # r, Codec[k].tag = Codec[r].tag
  PROVE  (k \in Short /\ r \in Opening) \/ (k \in Opening /\ r \in Short)
BY Tags, Kinds DEF Opening, Short

\* The first three flights begin with a point or a nonce.
LEMMA OpeningFirst ==
  ASSUME NEW k \in Opening
  PROVE  /\ k \in DOMAIN Codec /\ Len(Codec[k].puts) >= 1
         /\ Codec[k].puts[1] \in Fixed /\ Width(Codec[k].puts[1]) >= 33
<1>1. Codec[k].puts[1] \in Points \union Nonces
  BY Messages DEF Opening, AliceOpen, BobCommit, AliceReveal, Message, Points, Nonces
<1>2. k \in DOMAIN Codec /\ Len(Codec[k].puts) >= 1
  BY Kinds, MessageForm DEF Opening
<1>3. \A f \in Points \union Nonces : Width(f) >= 33
  BY DEF Width, Points, Nonces, Scalars
<1>. QED
  BY <1>1, <1>2, <1>3 DEF Fixed

----------------------------------------------------------------------------
(* The invariant.                                                          *)

LengthsOf(m) == [ToSet(m.puts) \intersect Variable -> Lengths]

\* The frame of the message that was encoded, with some lengths.
Sent(lengths) == lengths \in LengthsOf(Codec[kind]) /\ frame = Encode(Codec[kind], lengths)

\* A reader of the right kind stands at the end of a field, and has read the
\* fields up to there.
Along(lengths) ==
    /\ pos = 0 => fields = <<>>
    /\ pos > 0 => /\ pos = Offset(Codec[kind], lengths, Len(fields))
                  /\ \A i \in 1..Len(fields) : fields[i] = Codec[kind].takes[i]
    /\ status = "decoded" => pos > 0 /\ pos = len /\ Len(fields) = Len(Codec[kind].takes)
    /\ status = "refused" => len # Size(frame)

\* A flight's reader gets past the tag of a frame of another kind only when the
\* tags are alike, and never past the first field.
Astray ==
    /\ fields = <<>> /\ status # "decoded"
    /\ pos > 0 => pos = 1 /\ Codec[kind].tag = Codec[reader].tag

\* A control message is read in one step.
Answered ==
    /\ status = "reading" => pos = 0 /\ fields = <<>>
    /\ ReadsOwnFrames /\ NeverMisread

FramesInv ==
    /\ FramesTypeOK
    /\ \E lengths : Sent(lengths) /\ (kind = reader /\ reader \in DOMAIN Flights => Along(lengths))
    /\ kind # reader /\ reader \in DOMAIN Flights => Astray
    /\ reader \in DOMAIN Controls => Answered

LEMMA SentWritable ==
  ASSUME NEW k \in DOMAIN Codec, NEW lengths \in LengthsOf(Codec[k])
  PROVE  Writable(Codec[k], lengths)
<1>1. Codec[k].tag \in Nat /\ Codec[k].puts \in Seq(Fixed \union Variable)
  BY MessageForm
<1>2. ASSUME NEW i \in 1..Len(Codec[k].puts), Codec[k].puts[i] \in Variable
      PROVE  lengths[Codec[k].puts[i]] \in Nat
  <2>1. Codec[k].puts[i] \in ToSet(Codec[k].puts) \intersect Variable
    BY <1>1, <1>2 DEF ToSet
  <2>. QED
    BY <2>1, FramesAssumption DEF LengthsOf
<1>. QED
  BY <1>1, <1>2 DEF Writable

\* A frame begins with its tag.
LEMMA TagFound ==
  ASSUME kind \in DOMAIN Codec, NEW lengths, Sent(lengths)
  PROVE  /\ Writable(Codec[kind], lengths)
         /\ frame \in Seq(Parts)
         /\ Size(frame) \in Nat /\ Size(frame) >= 1
         /\ At(0, 1).is = Codec[kind].tag
<1>1. Writable(Codec[kind], lengths)
  BY SentWritable DEF Sent
<1>2. /\ frame \in Seq(Parts) /\ Apart(frame) /\ Len(frame) >= 1
      /\ frame[1] = Part("tag", 1, Codec[kind].tag) /\ Size(frame) \in Nat
  BY <1>1, OffsetEnds DEF Sent
<1>3. Size(frame) >= 1
  <2>1. Len(Codec[kind].puts) \in Nat
    BY <1>1 DEF Writable
  <2>2. 0 \in 0..Len(Codec[kind].puts)
    BY <2>1
  <2>3. 1 <= Size(frame)
    BY <1>1, <2>2, OffsetEnds DEF Sent
  <2>. QED
    BY <1>2, <2>3
<1>4. 1 \in 1..Len(frame) /\ 1 - 1 = 0
  BY <1>2
<1>5. At(Bytes(frame, 1 - 1), frame[1].width) = frame[1]
  BY <1>2, <1>4, AtPart, Zenon
<1>6. Bytes(frame, 1 - 1) = 0
  BY <1>4, BytesStep
<1>7. frame[1].width = 1 /\ frame[1].is = Codec[kind].tag
  BY <1>2 DEF Part
<1>. QED
  BY <1>1, <1>2, <1>3, <1>5, <1>6, <1>7, Zenon

\* The fixed offsets of ProposeTerms::decode.
LEMMA TermsOffsets ==
  ASSUME kind = "ProposeTerms", NEW lengths, Writable(Codec[kind], lengths),
         frame = Encode(Codec[kind], lengths)
  PROVE  /\ Size(frame) = 24
         /\ <<At(1, 8).of, At(9, 8).of, At(17, 4).of, At(21, 2).of, At(23, 1).of>>
               = ProposeTerms.takes
<1>. DEFINE m == Codec[kind]
<1>1. m = ProposeTerms
  BY Messages
<1>2. /\ Len(m.puts) = 5 /\ ProposeTerms.takes = m.puts
      /\ m.puts = <<"stake_sats", "fee_sats", "refund_locktime", "alice_timeout", "scheme">>
      /\ m.puts[1] = "stake_sats" /\ m.puts[2] = "fee_sats" /\ m.puts[3] = "refund_locktime"
      /\ m.puts[4] = "alice_timeout" /\ m.puts[5] = "scheme"
  BY <1>1 DEF ProposeTerms, Message
<1>3. /\ "stake_sats" \in Fixed /\ "fee_sats" \in Fixed /\ "refund_locktime" \in Fixed
      /\ "alice_timeout" \in Fixed /\ "scheme" \in Fixed
  BY DEF Fixed
<1>4. /\ Width("stake_sats") = 8 /\ Width("fee_sats") = 8 /\ Width("refund_locktime") = 4
      /\ Width("alice_timeout") = 2 /\ Width("scheme") = 1
  BY DEF Width, Points, Nonces, Scalars
<1>5. Offset(m, lengths, 0) = 1 /\ Offset(m, lengths, 5) = Size(frame)
  BY <1>2, OffsetEnds
<1>6. ASSUME NEW j \in 1..5
      PROVE  /\ At(Offset(m, lengths, j - 1), Width(m.puts[j])).of = m.puts[j]
             /\ Offset(m, lengths, j) = Offset(m, lengths, j - 1) + Width(m.puts[j])
  <2>1. m.puts[j] \in Fixed /\ j \in 1..Len(m.puts)
    BY <1>2, <1>3
  <2>. QED
    BY <2>1, FieldFound
<1>. HIDE DEF m
<1>7. At(1, 8).of = "stake_sats" /\ Offset(m, lengths, 1) = 9
  <2>1. 1 \in 1..5 /\ 1 - 1 = 0 /\ 1 + 8 = 9
    OBVIOUS
  <2>2. /\ At(Offset(m, lengths, 1 - 1), Width(m.puts[1])).of = m.puts[1]
        /\ Offset(m, lengths, 1) = Offset(m, lengths, 1 - 1) + Width(m.puts[1])
    BY <1>6, <2>1, Zenon
  <2>. QED
    BY <1>2, <1>4, <1>5, <2>1, <2>2, Zenon
<1>8. At(9, 8).of = "fee_sats" /\ Offset(m, lengths, 2) = 17
  <2>1. 2 \in 1..5 /\ 2 - 1 = 1 /\ 9 + 8 = 17
    OBVIOUS
  <2>2. /\ At(Offset(m, lengths, 2 - 1), Width(m.puts[2])).of = m.puts[2]
        /\ Offset(m, lengths, 2) = Offset(m, lengths, 2 - 1) + Width(m.puts[2])
    BY <1>6, <2>1, Zenon
  <2>. QED
    BY <1>2, <1>4, <1>7, <2>1, <2>2, Zenon
<1>9. At(17, 4).of = "refund_locktime" /\ Offset(m, lengths, 3) = 21
  <2>1. 3 \in 1..5 /\ 3 - 1 = 2 /\ 17 + 4 = 21
    OBVIOUS
  <2>2. /\ At(Offset(m, lengths, 3 - 1), Width(m.puts[3])).of = m.puts[3]
        /\ Offset(m, lengths, 3) = Offset(m, lengths, 3 - 1) + Width(m.puts[3])
    BY <1>6, <2>1, Zenon
  <2>. QED
    BY <1>2, <1>4, <1>8, <2>1, <2>2, Zenon
<1>10. At(21, 2).of = "alice_timeout" /\ Offset(m, lengths, 4) = 23
  <2>1. 4 \in 1..5 /\ 4 - 1 = 3 /\ 21 + 2 = 23
    OBVIOUS
  <2>2. /\ At(Offset(m, lengths, 4 - 1), Width(m.puts[4])).of = m.puts[4]
        /\ Offset(m, lengths, 4) = Offset(m, lengths, 4 - 1) + Width(m.puts[4])
    BY <1>6, <2>1, Zenon
  <2>. QED
    BY <1>2, <1>4, <1>9, <2>1, <2>2, Zenon
<1>11. At(23, 1).of = "scheme" /\ Offset(m, lengths, 5) = 24
  <2>1. 5 \in 1..5 /\ 5 - 1 = 4 /\ 23 + 1 = 24
    OBVIOUS
  <2>2. /\ At(Offset(m, lengths, 5 - 1), Width(m.puts[5])).of = m.puts[5]
        /\ Offset(m, lengths, 5) = Offset(m, lengths, 5 - 1) + Width(m.puts[5])
    BY <1>6, <2>1, Zenon
  <2>. QED
    BY <1>2, <1>4, <1>10, <2>1, <2>2, Zenon
<1>. QED
  BY <1>2, <1>5, <1>7, <1>8, <1>9, <1>10, <1>11, Zenon

\* The sizes that keep two messages of one tag apart.
LEMMA Sizes ==
  ASSUME kind \in DOMAIN Codec, NEW lengths, Sent(lengths)
  PROVE  /\ kind \in Opening => Size(frame) >= 34
         /\ kind \in {"ACCEPT", "REJECT"} => Size(frame) = 1
         /\ kind = "ProposeTerms" => Size(frame) = 24
<1>. DEFINE m == Codec[kind]
<1>1. Writable(m, lengths) /\ frame = Encode(m, lengths) /\ Len(m.puts) \in Nat
  BY TagFound DEF Sent, Writable
<1>2. /\ Offset(m, lengths, 0) = 1 /\ Offset(m, lengths, Len(m.puts)) = Size(frame)
      /\ Size(frame) \in Nat
      /\ \A j \in 0..Len(m.puts) : Offset(m, lengths, j) \in Nat /\ Offset(m, lengths, j) <= Size(frame)
  BY <1>1, OffsetEnds
<1>3. CASE kind \in Opening
  <2>1. m.puts[1] \in Fixed /\ Width(m.puts[1]) >= 33 /\ Len(m.puts) >= 1
    BY <1>3, OpeningFirst
  <2>2. 1 \in 1..Len(m.puts) /\ 1 \in 0..Len(m.puts) /\ 1 - 1 = 0
    BY <1>1, <2>1
  <2>3. Width(m.puts[1]) \in Nat
    BY <2>1, Widths
  <2>. HIDE DEF m
  <2>4. Offset(m, lengths, 1) = Offset(m, lengths, 1 - 1) + Width(m.puts[1])
    BY <1>1, <2>1, <2>2, FieldFound
  <2>5. Offset(m, lengths, 1) <= Size(frame)
    BY <1>2, <2>2
  <2>6. Offset(m, lengths, 1) = 1 + Width(m.puts[1])
    BY <1>2, <2>2, <2>4, Zenon
  <2>7. Size(frame) >= 34
    BY <1>2, <2>1, <2>3, <2>5, <2>6
  <2>. QED
    BY <1>3, <2>7 DEF Opening
<1>4. CASE kind \in {"ACCEPT", "REJECT"}
  <2>1. Len(m.puts) = 0
    BY <1>4, Messages DEF ACCEPT, REJECT, Message
  <2>. QED
    BY <1>2, <1>4, <2>1 DEF Opening
<1>5. CASE kind = "ProposeTerms"
  <2>1. Size(frame) = 24
    BY <1>1, <1>2, <1>5, TermsOffsets
  <2>. QED
    BY <1>5, <2>1 DEF Opening
<1>. QED
  BY <1>3, <1>4, <1>5

----------------------------------------------------------------------------
(* The invariant holds initially and every step keeps it.                  *)

LEMMA InitInv == Init => FramesInv
<1>. SUFFICES ASSUME Init PROVE FramesInv
  OBVIOUS
<1>1. PICK lengths : Sent(lengths)
  BY DEF Init, Sent, LengthsOf
<1>2. frame \in Seq(Parts) /\ Size(frame) \in Nat /\ kind \in DOMAIN Codec
  BY <1>1, TagFound DEF Init
<1>3. FramesTypeOK
  <2>1. /\ reader \in Readers /\ len \in 0..(Size(frame) + 1) /\ pos = 0 /\ fields = <<>>
        /\ status = "reading"
    BY DEF Init
  <2>2. reader \in DOMAIN Codec
    BY <2>1 DEF Readers
  <2>3. Len(Codec[reader].takes) \in Nat
    BY <2>2, MessageForm
  <2>4. <<>> \in Seq(Names) /\ Len(<<>>) = 0 /\ 0 \in 0..len
    BY <1>2, <2>1
  <2>. QED
    BY <1>2, <2>1, <2>3, <2>4 DEF FramesTypeOK
<1>4. Along(lengths)
  BY DEF Init, Along
<1>5. Astray /\ Answered
  BY DEF Init, Astray, Answered, ReadsOwnFrames, NeverMisread
<1>. QED
  BY <1>1, <1>3, <1>4, <1>5 DEF FramesInv

\* Whatever a reader looks at is a part, of the frame or not.
LEMMA AtType ==
  ASSUME frame \in Seq(Parts), len \in Nat, NEW p \in Nat, NEW n \in Nat
  PROVE  At(p, n) \in Parts /\ At(p, n).of \in Names /\ At(p, n).is \in Nat
<1>. DEFINE begins == {i \in DOMAIN frame : frame[i].width = n /\ Bytes(frame, i - 1) = p}
            rest == IF p + n <= len THEN len - (p + n) ELSE 0
<1>1. At(p, n) = IF begins # {} THEN frame[CHOOSE i \in begins : TRUE] ELSE Part("junk", n, rest)
  BY Zenon DEF At
<1>2. rest \in Nat /\ "junk" \in Names
  BY DEF Names
<1>. HIDE DEF rest
<1>3. Part("junk", n, rest) \in Parts
  BY <1>2, PartType
<1>4. CASE begins # {}
  <2>1. (CHOOSE i \in begins : TRUE) \in begins
    BY <1>4, Zenon
  <2>. DEFINE i == CHOOSE i \in begins : TRUE
  <2>2. i \in 1..Len(frame)
    BY <2>1
  <2>. HIDE DEF i
  <2>3. frame[i] \in Parts
    BY <2>2
  <2>4. At(p, n) = frame[i]
    BY <1>1, <1>4, Zenon DEF i
  <2>. QED
    BY <2>3, <2>4 DEF Parts
<1>5. CASE begins = {}
  BY <1>1, <1>3, <1>5 DEF Parts
<1>. QED
  BY <1>4, <1>5

\* What every state of the invariant gives a step.
LEMMA Facts ==
  ASSUME FramesInv
  PROVE  /\ kind \in DOMAIN Codec /\ reader \in DOMAIN Codec /\ reader # "HELLO"
         /\ frame \in Seq(Parts) /\ Size(frame) \in Nat /\ Size(frame) >= 1
         /\ len \in Nat /\ len <= Size(frame) + 1 /\ pos \in Nat /\ pos <= len
         /\ fields \in Seq(Names) /\ Len(fields) \in Nat
         /\ Len(fields) <= Len(Codec[reader].takes)
         /\ Codec[reader].takes \in Seq(Fixed \union Variable)
         /\ Len(Codec[reader].takes) \in Nat
         /\ At(0, 1).is = Codec[kind].tag
<1>1. PICK lengths : Sent(lengths)
  BY DEF FramesInv
<1>2. /\ kind \in DOMAIN Codec /\ reader \in Readers /\ len \in 0..(Size(frame) + 1)
      /\ pos \in 0..len /\ fields \in Seq(Names) /\ Len(fields) <= Len(Codec[reader].takes)
  BY DEF FramesInv, FramesTypeOK
<1>3. /\ frame \in Seq(Parts) /\ Size(frame) \in Nat /\ Size(frame) >= 1
      /\ At(0, 1).is = Codec[kind].tag
  BY <1>1, <1>2, TagFound
<1>4. reader \in DOMAIN Codec /\ reader # "HELLO"
  BY <1>2 DEF Readers
<1>5. Codec[reader].takes \in Seq(Fixed \union Variable)
  BY <1>4, MessageForm
<1>6. Len(Codec[reader].takes) \in Nat /\ Len(fields) \in Nat
  BY <1>2, <1>5
<1>. QED
  BY <1>2, <1>3, <1>4, <1>5, <1>6

\* A step of a flight's reader keeps the invariant when it stays in type, along
\* its own frame or astray of another.
LEMMA FlightKept ==
  ASSUME FramesInv, Given, reader \in DOMAIN Flights, FramesTypeOK',
         ASSUME NEW lengths, Sent(lengths), kind = reader, Along(lengths) PROVE Along(lengths)',
         kind # reader /\ Astray => Astray'
  PROVE  FramesInv'
<1>1. reader \notin DOMAIN Controls
  BY Kinds
<1>2. kind' = kind /\ frame' = frame /\ len' = len /\ reader' = reader
  BY DEF Given
<1>3. PICK lengths : Sent(lengths) /\ (kind = reader => Along(lengths))
  BY DEF FramesInv
<1>4. Sent(lengths)'
  BY <1>2, <1>3 DEF Sent
<1>5. kind = reader => Along(lengths)'
  BY <1>3
<1>6. kind # reader => Astray'
  BY DEF FramesInv
<1>. QED
  BY <1>1, <1>2, <1>4, <1>5, <1>6 DEF FramesInv

\* The type of a reader that refuses, or goes on.
LEMMA RefuseType ==
  ASSUME FramesInv, Given, Refuse
  PROVE  FramesTypeOK'
BY DEF FramesInv, FramesTypeOK, Given, Refuse

LEMMA TookType ==
  ASSUME FramesInv, Given, Awaits, NEW p \in Nat, p <= len, NEW field \in Names, Took(p, field)
  PROVE  /\ FramesTypeOK'
         /\ pos' = p /\ Len(fields') = Len(fields) + 1 /\ fields'[Len(fields) + 1] = field
         /\ \A i \in 1..Len(fields) : fields'[i] = fields[i]
         /\ status' = "reading"
<1>1. fields' = Append(fields, field) /\ pos' = p /\ status' = status /\ status = "reading"
  BY DEF Took, Awaits, Reading
<1>2. fields \in Seq(Names) /\ Len(fields) \in Nat /\ Len(fields) < Len(Codec[reader].takes)
      /\ Len(Codec[reader].takes) \in Nat /\ len \in Nat
  BY Facts DEF Awaits
<1>3. /\ Append(fields, field) \in Seq(Names) /\ Len(Append(fields, field)) = Len(fields) + 1
      /\ Append(fields, field)[Len(fields) + 1] = field
      /\ \A i \in 1..Len(fields) : Append(fields, field)[i] = fields[i]
  BY <1>2
<1>4. p \in 0..len /\ Len(fields) + 1 <= Len(Codec[reader].takes)
  BY <1>2
<1>5. FramesTypeOK'
  BY <1>1, <1>3, <1>4 DEF FramesInv, FramesTypeOK, Given
<1>. QED
  BY <1>1, <1>3, <1>5, Zenon

LEMMA ReadTagInv ==
  ASSUME FramesInv, ReadTag
  PROVE  FramesInv'
<1>1. /\ reader \in DOMAIN Flights /\ pos = 0 /\ status = "reading" /\ Given
      /\ kind' = kind /\ frame' = frame /\ len' = len /\ reader' = reader
  BY DEF ReadTag, Reading, Given
<1>2. CASE Enough(1) /\ At(0, 1).is = Codec[reader].tag
  <2>1. pos' = 1 /\ fields' = fields /\ status' = status /\ 1 <= len
    BY <1>1, <1>2 DEF ReadTag, Enough
  <2>2. FramesTypeOK'
    <3>1. 1 \in 0..len
      BY <2>1, Facts
    <3>. QED
      BY <1>1, <2>1, <3>1 DEF FramesInv, FramesTypeOK
  <2>3. ASSUME NEW lengths, Sent(lengths), kind = reader, Along(lengths) PROVE Along(lengths)'
    <3>1. fields = <<>> /\ Len(fields) = 0
      BY <1>1, <2>3 DEF Along
    <3>2. Offset(Codec[kind], lengths, 0) = 1
      BY <2>3, Facts, TagFound, OffsetEnds
    <3>. QED
      BY <1>1, <2>1, <3>1, <3>2 DEF Along
  <2>4. kind # reader /\ Astray => Astray'
    BY <1>1, <1>2, <2>1, Facts DEF Astray
  <2>. QED
    BY <1>1, <2>2, <2>3, <2>4, FlightKept
<1>3. CASE ~(Enough(1) /\ At(0, 1).is = Codec[reader].tag)
  <2>1. Refuse /\ pos' = pos /\ fields' = fields /\ status' = "refused"
    BY <1>3 DEF ReadTag, Refuse
  <2>2. ASSUME NEW lengths, Sent(lengths), kind = reader, Along(lengths) PROVE Along(lengths)'
    <3>1. len # Size(frame)
      BY <1>1, <1>3, <2>2, Facts DEF Enough
    <3>. QED
      BY <1>1, <2>1, <2>2, <3>1 DEF Along
  <2>3. kind # reader /\ Astray => Astray'
    BY <1>1, <2>1 DEF Astray
  <2>. QED
    BY <1>1, <2>1, <2>2, <2>3, RefuseType, FlightKept
<1>. QED
  BY <1>2, <1>3

\* A reader on a frame of another kind that has passed its tag refuses it.
LEMMA AstrayRefuses ==
  ASSUME FramesInv, Awaits, kind # reader, Astray
  PROVE  Due \in Fixed /\ ~Enough(Width(Due))
<1>1. /\ reader \in DOMAIN Flights /\ pos = 1 /\ fields = <<>> /\ Len(fields) + 1 = 1
      /\ Codec[kind].tag = Codec[reader].tag
  BY DEF Awaits, Reading, Astray
<1>2. kind \in Short /\ reader \in Opening
  <2>1. reader \notin Short
    BY <1>1, Kinds DEF Short
  <2>. QED
    BY <1>1, <2>1, Facts, TagShared
<1>3. Due = Codec[reader].puts[1]
  BY <1>1, Facts, MessageForm DEF Due
<1>4. Due \in Fixed /\ Width(Due) >= 33 /\ Width(Due) \in Nat
  BY <1>2, <1>3, OpeningFirst, Widths
<1>5. Size(frame) <= 24
  <2>1. PICK lengths : Sent(lengths)
    BY DEF FramesInv
  <2>2. /\ kind \in {"ACCEPT", "REJECT"} => Size(frame) = 1
        /\ kind = "ProposeTerms" => Size(frame) = 24
    BY <2>1, Facts, Sizes
  <2>. QED
    BY <1>2, <2>2 DEF Short
<1>. QED
  BY <1>1, <1>4, <1>5, Facts DEF Enough

\* On its own frame, a reader that awaits a field stands where it begins.
LEMMA AlongNext ==
  ASSUME FramesInv, Awaits, NEW lengths, Sent(lengths), kind = reader, Along(lengths)
  PROVE  LET next == Offset(Codec[kind], lengths, Len(fields) + 1)
         IN  /\ next \in Nat /\ next <= Size(frame)
             /\ Due \in Fixed => At(pos, Width(Due)).of = Due /\ next = pos + Width(Due)
             /\ Due \in Variable => /\ At(pos + 4, At(pos, 4).is).of = Due
                                    /\ next = pos + 4 + At(pos, 4).is
<1>. DEFINE m == Codec[kind]
            j == Len(fields) + 1
<1>1. Writable(m, lengths) /\ frame = Encode(m, lengths)
  BY Facts, TagFound DEF Sent
<1>2. Due = m.puts[j] /\ Len(m.puts) = Len(Codec[reader].takes)
  BY Facts, MessageForm DEF Due
<1>3. j \in 1..Len(m.puts) /\ j \in 0..Len(m.puts) /\ j - 1 = Len(fields)
  BY <1>2, Facts DEF Awaits
<1>4. pos = Offset(m, lengths, j - 1)
  BY <1>3 DEF Along, Awaits
<1>. HIDE DEF j, m
<1>5. Offset(m, lengths, j) \in Nat /\ Offset(m, lengths, j) <= Size(frame)
  BY <1>1, <1>3, OffsetEnds
<1>6. /\ Due \in Fixed => /\ At(pos, Width(Due)).of = Due
                          /\ Offset(m, lengths, j) = pos + Width(Due)
      /\ Due \in Variable => /\ At(pos, 4).is = lengths[Due]
                             /\ At(pos + 4, lengths[Due]).of = Due
                             /\ Offset(m, lengths, j) = pos + 4 + lengths[Due]
  BY <1>1, <1>2, <1>3, <1>4, FieldFound
<1>. QED
  BY <1>5, <1>6, Zenon DEF j, m

\* Having read the field it awaited, it stands where that field ends.
LEMMA AlongTook ==
  ASSUME FramesInv, Given, Awaits, NEW lengths, Sent(lengths), kind = reader, Along(lengths),
         NEW p \in Nat, p <= len, Took(p, Due), p > 0, Due \in Names,
         p = Offset(Codec[kind], lengths, Len(fields) + 1)
  PROVE  Along(lengths)'
<1>1. /\ pos' = p /\ Len(fields') = Len(fields) + 1 /\ fields'[Len(fields) + 1] = Due
      /\ \A i \in 1..Len(fields) : fields'[i] = fields[i]
      /\ status' = "reading"
  BY TookType
<1>2. /\ kind' = kind /\ frame' = frame /\ len' = len /\ reader' = reader
  BY DEF Given
<1>3. ASSUME NEW i \in 1..(Len(fields) + 1) PROVE fields'[i] = Codec[kind].takes[i]
  <2>1. i \in 1..Len(fields) \/ i = Len(fields) + 1
    BY Facts
  <2>2. CASE i \in 1..Len(fields)
    <3>1. fields[i] = Codec[kind].takes[i]
      BY <2>2 DEF Along, Awaits
    <3>. QED
      BY <1>1, <2>2, <3>1
  <2>3. CASE i = Len(fields) + 1
    BY <1>1, <2>3 DEF Due
  <2>. QED
    BY <2>1, <2>2, <2>3
<1>. QED
  BY <1>1, <1>2, <1>3 DEF Along

LEMMA ReadFixedInv ==
  ASSUME FramesInv, ReadFixed
  PROVE  FramesInv'
<1>1. Awaits /\ Due \notin Variable /\ Given /\ reader \in DOMAIN Flights
  BY DEF ReadFixed, Awaits, Reading
<1>2. Due \in Fixed /\ Due \in Names /\ Width(Due) \in Nat \ {0}
  <2>1. Len(fields) + 1 \in 1..Len(Codec[reader].takes)
    BY <1>1, Facts DEF Awaits
  <2>2. Due \in Fixed \union Variable
    BY <2>1, Facts DEF Due
  <2>. QED
    BY <1>1, <2>2, Widths
<1>. DEFINE p == pos + Width(Due)
            field == At(pos, Width(Due)).of
<1>3. p \in Nat /\ p > 0 /\ field \in Names
  BY <1>2, Facts, AtType
<1>4. CASE Enough(Width(Due))
  <2>1. Took(p, field) /\ p <= len
    BY <1>4 DEF ReadFixed, Enough
  <2>. HIDE DEF p, field
  <2>2. FramesTypeOK'
    BY <1>1, <1>3, <2>1, TookType
  <2>3. ASSUME NEW lengths, Sent(lengths), kind = reader, Along(lengths) PROVE Along(lengths)'
    <3>1. field = Due /\ p = Offset(Codec[kind], lengths, Len(fields) + 1)
      BY <1>1, <1>2, <2>3, AlongNext DEF p, field
    <3>. QED
      BY <1>1, <1>2, <1>3, <2>1, <2>3, <3>1, AlongTook
  <2>4. ~(kind # reader /\ Astray)
    BY <1>1, <1>4, AstrayRefuses
  <2>. QED
    BY <1>1, <2>2, <2>3, <2>4, FlightKept
<1>5. CASE ~Enough(Width(Due))
  <2>1. Refuse
    BY <1>5 DEF ReadFixed
  <2>2. /\ pos' = pos /\ fields' = fields /\ status' = "refused" /\ kind' = kind
        /\ frame' = frame /\ len' = len /\ reader' = reader /\ pos > 0
    BY <1>1, <2>1 DEF Refuse, Given, Awaits
  <2>3. ASSUME NEW lengths, Sent(lengths), kind = reader, Along(lengths) PROVE Along(lengths)'
    <3>1. p <= Size(frame)
      BY <1>1, <1>2, <2>3, AlongNext
    <3>2. len # Size(frame)
      BY <1>3, <1>5, <3>1, Facts DEF Enough
    <3>. QED
      BY <2>2, <2>3, <3>2 DEF Along
  <2>4. kind # reader /\ Astray => Astray'
    BY <2>2 DEF Astray
  <2>. QED
    BY <1>1, <2>1, <2>3, <2>4, RefuseType, FlightKept
<1>. QED
  BY <1>4, <1>5

LEMMA ReadVariableInv ==
  ASSUME FramesInv, ReadVariable
  PROVE  FramesInv'
<1>1. Awaits /\ Due \in Variable /\ Given /\ reader \in DOMAIN Flights
  BY DEF ReadVariable, Awaits, Reading
<1>2. Due \in Names /\ Due \notin Fixed
  BY <1>1, Widths DEF Names
<1>. DEFINE n == At(pos, 4).is
            p == pos + 4 + n
            field == At(pos + 4, n).of
<1>3. n \in Nat /\ p \in Nat /\ p > 0 /\ field \in Names
  <2>1. n \in Nat /\ pos + 4 \in Nat
    BY Facts, AtType
  <2>. HIDE DEF n
  <2>2. p \in Nat /\ p > 0
    BY <2>1, Facts
  <2>3. field \in Names
    BY <2>1, Facts, AtType
  <2>. QED
    BY <2>1, <2>2, <2>3
<1>4. ~(kind # reader /\ Astray)
  BY <1>1, <1>2, AstrayRefuses
<1>5. CASE Enough(4) /\ Enough(4 + n)
  <2>1. Took(p, field) /\ p <= len
    <3>1. Took(p, field)
      BY <1>5 DEF ReadVariable
    <3>. HIDE DEF n
    <3>2. p <= len
      BY <1>3, <1>5, Facts DEF Enough
    <3>. QED
      BY <3>1, <3>2
  <2>. HIDE DEF p, field
  <2>2. FramesTypeOK'
    BY <1>1, <1>3, <2>1, TookType
  <2>3. ASSUME NEW lengths, Sent(lengths), kind = reader, Along(lengths) PROVE Along(lengths)'
    <3>1. field = Due /\ p = Offset(Codec[kind], lengths, Len(fields) + 1)
      BY <1>1, <2>3, AlongNext DEF p, field
    <3>. QED
      BY <1>1, <1>2, <1>3, <2>1, <2>3, <3>1, AlongTook
  <2>. QED
    BY <1>1, <1>4, <2>2, <2>3, FlightKept
<1>6. CASE ~(Enough(4) /\ Enough(4 + n))
  <2>1. Refuse
    BY <1>6 DEF ReadVariable
  <2>2. /\ pos' = pos /\ fields' = fields /\ status' = "refused" /\ kind' = kind
        /\ frame' = frame /\ len' = len /\ reader' = reader /\ pos > 0
    BY <1>1, <2>1 DEF Refuse, Given, Awaits
  <2>3. ASSUME NEW lengths, Sent(lengths), kind = reader, Along(lengths) PROVE Along(lengths)'
    <3>1. p <= Size(frame)
      BY <1>1, <2>3, AlongNext
    <3>. HIDE DEF n
    <3>2. len # Size(frame)
      BY <1>3, <1>6, <3>1, Facts DEF Enough
    <3>. QED
      BY <2>2, <2>3, <3>2 DEF Along
  <2>. QED
    BY <1>1, <1>4, <2>1, <2>3, RefuseType, FlightKept
<1>. QED
  BY <1>5, <1>6

LEMMA FinishInv ==
  ASSUME FramesInv, Finish
  PROVE  FramesInv'
<1>1. /\ reader \in DOMAIN Flights /\ Given /\ pos > 0
      /\ Len(fields) = Len(Codec[reader].takes)
      /\ kind' = kind /\ frame' = frame /\ len' = len /\ reader' = reader
      /\ pos' = pos /\ fields' = fields
      /\ status' = IF pos = len THEN "decoded" ELSE "refused"
  BY DEF Finish, AllRead, Reading, Given, Refuse
<1>2. FramesTypeOK'
  BY <1>1 DEF FramesInv, FramesTypeOK
<1>3. ASSUME NEW lengths, Sent(lengths), kind = reader, Along(lengths) PROVE Along(lengths)'
  <2>1. pos = Offset(Codec[kind], lengths, Len(fields))
    BY <1>1, <1>3 DEF Along
  <2>2. Len(fields) = Len(Codec[kind].puts)
    BY <1>1, <1>3, Facts, MessageForm
  <2>3. pos = Size(frame)
    <3>1. Writable(Codec[kind], lengths) /\ frame = Encode(Codec[kind], lengths)
      BY <1>3, Facts, TagFound DEF Sent
    <3>. QED
      BY <2>1, <2>2, <3>1, OffsetEnds
  <2>. QED
    BY <1>1, <1>3, <2>3 DEF Along
<1>4. ~(kind # reader /\ Astray)
  <2>1. Len(Codec[reader].takes) >= 1
    BY <1>1, Facts, MessageForm
  <2>. QED
    BY <1>1, <2>1 DEF Astray
<1>. QED
  BY <1>1, <1>2, <1>3, <1>4, FlightKept

\* A step of a control message's reader keeps the invariant when it stays in
\* type and answers right.
LEMMA ControlKept ==
  ASSUME FramesInv, Given, reader \in DOMAIN Controls, FramesTypeOK', Answered'
  PROVE  FramesInv'
<1>1. reader \notin DOMAIN Flights
  BY Kinds
<1>2. kind' = kind /\ frame' = frame /\ len' = len /\ reader' = reader
  BY DEF Given
<1>3. PICK lengths : Sent(lengths)
  BY DEF FramesInv
<1>4. Sent(lengths)'
  BY <1>2, <1>3 DEF Sent
<1>. QED
  BY <1>1, <1>2, <1>4 DEF FramesInv

\* A control message's reader that finds its tag and no more bytes than its own
\* message has was sent that message, or part of one.
LEMMA TagTells ==
  ASSUME FramesInv, reader \in Short, Codec[kind].tag = Codec[reader].tag, len <= 24,
         len >= Size(frame)
  PROVE  kind = reader
<1>. SUFFICES ASSUME kind # reader PROVE FALSE
  OBVIOUS
<1>1. PICK lengths : Sent(lengths)
  BY DEF FramesInv
<1>2. kind \in Opening
  <2>1. reader \notin Opening
    BY DEF Opening, Short
  <2>. QED
    BY <2>1, Facts, TagShared
<1>3. Size(frame) >= 34
  BY <1>1, <1>2, Facts, Sizes
<1>. QED
  BY <1>3, Facts

LEMMA DecodeTermsInv ==
  ASSUME FramesInv, DecodeTerms
  PROVE  FramesInv'
<1>1. /\ reader = "ProposeTerms" /\ reader \in DOMAIN Controls /\ reader \in Short
      /\ status = "reading" /\ Given /\ pos = 0 /\ fields = <<>>
      /\ kind' = kind /\ frame' = frame /\ len' = len /\ reader' = reader
  BY Kinds DEF DecodeTerms, Polls, Given, FramesInv, Answered, Short
<1>. DEFINE found == <<At(1, 8).of, At(9, 8).of, At(17, 4).of, At(21, 2).of, At(23, 1).of>>
<1>2. Codec[reader].tag = 1 /\ Len(Codec[reader].takes) = 5 /\ Codec[reader] = ProposeTerms
  BY <1>1, Messages DEF ProposeTerms, Message
<1>3. CASE len = 24 /\ At(0, 1).is = 1
  <2>1. status' = "decoded" /\ pos' = len /\ fields' = found
    BY <1>3 DEF DecodeTerms
  <2>2. found \in Seq(Names) /\ Len(found) = 5
    <3>1. /\ At(1, 8).of \in Names /\ At(9, 8).of \in Names /\ At(17, 4).of \in Names
          /\ At(21, 2).of \in Names /\ At(23, 1).of \in Names
      BY Facts, AtType
    <3>. QED
      BY <3>1
  <2>3. FramesTypeOK'
    <3>1. len \in 0..len
      BY Facts
    <3>. HIDE DEF found
    <3>. QED
      BY <1>1, <1>2, <2>1, <2>2, <3>1 DEF FramesInv, FramesTypeOK
  <2>4. kind = reader => found = Codec[reader].takes
    <3>1. PICK lengths : Sent(lengths)
      BY DEF FramesInv
    <3>2. Writable(Codec[kind], lengths)
      BY <3>1, Facts, TagFound
    <3>. HIDE DEF found
    <3>3. kind = reader => found = ProposeTerms.takes
      BY <1>1, <3>1, <3>2, TermsOffsets DEF Sent, found
    <3>. QED
      BY <1>2, <3>3
  <2>5. len >= Size(frame) => kind = reader
    BY <1>1, <1>2, <1>3, Facts, TagTells
  <2>. HIDE DEF found
  <2>6. Answered'
    BY <1>1, <2>1, <2>4, <2>5 DEF Answered, ReadsOwnFrames, NeverMisread
  <2>. QED
    BY <1>1, <2>3, <2>6, ControlKept
<1>4. CASE ~(len = 24 /\ At(0, 1).is = 1)
  <2>1. Refuse /\ status' = "refused" /\ fields' = fields
    BY <1>4 DEF DecodeTerms, Refuse
  <2>2. kind = reader => len # Size(frame)
    <3>1. PICK lengths : Sent(lengths)
      BY DEF FramesInv
    <3>2. kind = reader => Size(frame) = 24
      BY <1>1, <3>1, Facts, Sizes
    <3>. QED
      BY <1>2, <1>4, <3>2, Facts
  <2>3. Answered'
    BY <1>1, <2>1, <2>2 DEF Answered, ReadsOwnFrames, NeverMisread
  <2>. QED
    BY <1>1, <2>1, <2>3, RefuseType, ControlKept
<1>. QED
  BY <1>3, <1>4

LEMMA CompareAnswerInv ==
  ASSUME FramesInv, CompareAnswer
  PROVE  FramesInv'
<1>1. PICK answer \in {"ACCEPT", "REJECT"} :
         /\ Polls(answer)
         /\ IF len = 1 /\ At(0, 1).is = Codec[answer].tag
            THEN status' = "decoded" /\ pos' = 1 /\ UNCHANGED fields
            ELSE Refuse
  BY DEF CompareAnswer
<1>2. /\ reader = answer /\ reader \in DOMAIN Controls /\ reader \in Short
      /\ status = "reading" /\ Given /\ pos = 0 /\ fields = <<>>
      /\ kind' = kind /\ frame' = frame /\ len' = len /\ reader' = reader
  BY <1>1, Kinds DEF CompareAnswer, Polls, Given, FramesInv, Answered, Short
<1>3. Codec[reader].takes = <<>>
  BY <1>1, <1>2, Messages DEF ACCEPT, REJECT, Message
<1>4. CASE len = 1 /\ At(0, 1).is = Codec[reader].tag
  <2>1. status' = "decoded" /\ pos' = 1 /\ fields' = fields
    BY <1>1, <1>2, <1>4
  <2>2. FramesTypeOK'
    BY <1>2, <1>4, <2>1 DEF FramesInv, FramesTypeOK
  <2>3. len >= Size(frame) => kind = reader
    BY <1>2, <1>4, Facts, TagTells
  <2>4. Answered'
    BY <1>2, <1>3, <2>1, <2>3 DEF Answered, ReadsOwnFrames, NeverMisread
  <2>. QED
    BY <1>2, <2>2, <2>4, ControlKept
<1>5. CASE ~(len = 1 /\ At(0, 1).is = Codec[reader].tag)
  <2>1. Refuse /\ status' = "refused" /\ fields' = fields
    BY <1>1, <1>2, <1>5 DEF Refuse
  <2>2. kind = reader => len # Size(frame)
    <3>1. PICK lengths : Sent(lengths)
      BY DEF FramesInv
    <3>2. kind = reader => Size(frame) = 1
      BY <1>1, <1>2, <3>1, Facts, Sizes
    <3>. QED
      BY <1>5, <3>2, Facts
  <2>3. Answered'
    BY <1>2, <2>1, <2>2 DEF Answered, ReadsOwnFrames, NeverMisread
  <2>. QED
    BY <1>2, <2>1, <2>3, RefuseType, ControlKept
<1>. QED
  BY <1>4, <1>5

LEMMA StepInv == FramesInv /\ [Next]_vars => FramesInv'
<1>. SUFFICES ASSUME FramesInv, [Next]_vars PROVE FramesInv'
  OBVIOUS
<1>1. CASE ReadTag
  BY <1>1, ReadTagInv
<1>2. CASE ReadFixed
  BY <1>2, ReadFixedInv
<1>3. CASE ReadVariable
  BY <1>3, ReadVariableInv
<1>4. CASE Finish
  BY <1>4, FinishInv
<1>5. CASE DecodeTerms
  BY <1>5, DecodeTermsInv
<1>6. CASE CompareAnswer
  BY <1>6, CompareAnswerInv
<1>7. CASE UNCHANGED vars
  BY <1>7 DEF vars, FramesInv, FramesTypeOK, Sent, Along, Astray, Answered, ReadsOwnFrames,
     NeverMisread
<1>. QED
  BY <1>1, <1>2, <1>3, <1>4, <1>5, <1>6, <1>7 DEF Next

----------------------------------------------------------------------------
(* Theorems.                                                               *)

\* Every reader of a flight stands between two fields of its own frame or at
\* most behind the tag of another, and every reader of a control message reads
\* it at once.
THEOREM FramesInvariant == Spec => []FramesInv
<1>. QED
  BY InitInv, StepInv, PTL DEF Spec

\* A reader never leaves the bytes that arrived, however the frame was cut and
\* whatever its lengths say.
THEOREM FramesTypeCorrect == Spec => []FramesTypeOK
<1>1. FramesInv => FramesTypeOK
  BY DEF FramesInv
<1>. QED
  BY <1>1, FramesInvariant, PTL

\* What encode wrote, decode reads: the same fields with the same contents, for
\* every length of every field of variable length.
THEOREM OwnFramesRead == Spec => []ReadsOwnFrames
<1>1. FramesInv => ReadsOwnFrames
  <2>. SUFFICES ASSUME FramesInv, kind = reader, len = Size(frame)
                PROVE  /\ status # "refused"
                       /\ status = "decoded" => fields = Codec[reader].takes
    BY DEF ReadsOwnFrames
  <2>1. CASE reader \in DOMAIN Flights
    <3>1. PICK lengths : Along(lengths)
      BY <2>1 DEF FramesInv
    <3>2. ASSUME status = "decoded" PROVE fields = Codec[reader].takes
      <4>1. /\ Len(fields) = Len(Codec[reader].takes)
            /\ \A i \in 1..Len(fields) : fields[i] = Codec[reader].takes[i]
        BY <3>1, <3>2 DEF Along
      <4>2. fields \in Seq(Names) /\ Codec[reader].takes \in Seq(Names)
        <5>1. Fixed \union Variable \subseteq Names
          BY DEF Names
        <5>. QED
          BY <5>1, Facts
      <4>. QED
        BY <4>1, <4>2, SeqEqual
    <3>. QED
      BY <3>1, <3>2 DEF Along
  <2>2. CASE reader \in DOMAIN Controls
    BY <2>2 DEF FramesInv, Answered, ReadsOwnFrames
  <2>. QED
    BY <2>1, <2>2, Facts, Kinds
<1>. QED
  BY <1>1, FramesInvariant, PTL

\* No whole frame is taken for another message, although the tags 1 to 3 are
\* those of both a flight and a control message.
THEOREM FramesToldApart == Spec => []NeverMisread
<1>1. FramesInv => NeverMisread
  <2>. SUFFICES ASSUME FramesInv, status = "decoded", len >= Size(frame), kind # reader
                PROVE  FALSE
    BY DEF NeverMisread
  <2>1. CASE reader \in DOMAIN Flights
    BY <2>1 DEF FramesInv, Astray
  <2>2. CASE reader \in DOMAIN Controls
    BY <2>2 DEF FramesInv, Answered, NeverMisread
  <2>. QED
    BY <2>1, <2>2, Facts, Kinds
<1>. QED
  BY <1>1, FramesInvariant, PTL

\* No part of a flight is ever taken for one, nor a flight and more.
THEOREM FlightsWhole == Spec => []WholeOrNothing
<1>1. FramesInv => WholeOrNothing
  <2>. SUFFICES ASSUME FramesInv, status = "decoded", reader \in DOMAIN Flights
                PROVE  len = Size(frame)
    BY DEF WholeOrNothing
  <2>1. kind = reader
    BY DEF FramesInv, Astray
  <2>2. PICK lengths : Sent(lengths) /\ Along(lengths)
    BY <2>1 DEF FramesInv
  <2>3. /\ len = Offset(Codec[kind], lengths, Len(Codec[kind].puts))
    BY <2>1, <2>2, Facts, MessageForm DEF Along
  <2>4. Writable(Codec[kind], lengths) /\ frame = Encode(Codec[kind], lengths)
    BY <2>2, Facts, TagFound DEF Sent
  <2>. QED
    BY <2>3, <2>4, OffsetEnds
<1>. QED
  BY <1>1, FramesInvariant, PTL
============================================================================
