---------------------------- MODULE LinkProofs ----------------------------
(***************************************************************************)
(* Theorems about Link, for all nodes, connections and hosts: types and    *)
(* the budget, who is registered as a peer, and that probing, seeding,     *)
(* draining and buffering together are the channel of Pipe.                *)
(***************************************************************************)
EXTENDS Link, TLAPS, SequenceTheorems, WellFoundedInduction

----------------------------------------------------------------------------
(* Induction, as a fact about sets: what follows uses it for sets of the   *)
(* indices up to which something is true.                                  *)

\* A set with 0 and the successors of its members has every natural number.
LEMMA Induction ==
  ASSUME NEW S, 0 \in S, \A n \in Nat : n \in S => n + 1 \in S
  PROVE  Nat \subseteq S
<1>. DEFINE T == {n \in Nat : n \notin S}
<1>. SUFFICES ASSUME T # {} PROVE FALSE
  OBVIOUS
<1>1. PICK m \in T : \A k \in T : <<k, m>> \notin OpToRel(<, Nat)
  BY WFMin, NatLessThanWellFounded, Zenon
<1>2. m \in Nat /\ m # 0 /\ m - 1 \in Nat
  OBVIOUS
<1>3. m - 1 \notin T
  <2>1. m - 1 \in Nat /\ m \in Nat /\ m - 1 < m
    BY <1>2
  <2>2. <<m - 1, m>> \in OpToRel(<, Nat)
    BY <2>1 DEF OpToRel
  <2>. QED
    BY <1>1, <2>2, Zenon
<1>. QED
  BY <1>2, <1>3

----------------------------------------------------------------------------
(* The filter Ours.                                                        *)

\* g is the recursive function in the definition of Ours, up to n packets.
Upto(s, n, g) == g = [i \in 0..n |-> IF i = 0 THEN <<>> ELSE g[i - 1] \o Strip(s[i])]

\* What that says of each value.
LEMMA UptoMeans ==
  ASSUME NEW s, NEW n \in Nat, NEW g, Upto(s, n, g)
  PROVE  g[0] = <<>> /\ \A i \in 1..n : g[i] = g[i - 1] \o Strip(s[i])
<1>. DEFINE h == [i \in 0..n |-> IF i = 0 THEN <<>> ELSE g[i - 1] \o Strip(s[i])]
<1>1. g = h
  BY Zenon DEF Upto
<1>2. \A i \in 0..n : h[i] = IF i = 0 THEN <<>> ELSE g[i - 1] \o Strip(s[i])
  BY Zenon
<1>3. 0 \in 0..n /\ \A i \in 1..n : i \in 0..n /\ i # 0
  OBVIOUS
<1>. HIDE DEF h
<1>. QED
  BY <1>1, <1>2, <1>3, Zenon

\* And the converse, for a function with the right domain.
LEMMA MeansUpto ==
  ASSUME NEW s, NEW n \in Nat, NEW g,
         g = [i \in 0..n |-> g[i]],
         g[0] = <<>>,
         \A i \in 1..n : g[i] = g[i - 1] \o Strip(s[i])
  PROVE  Upto(s, n, g)
<1>1. \A i \in 0..n : i = 0 \/ i \in 1..n
  OBVIOUS
<1>2. \A i \in 0..n : g[i] = IF i = 0 THEN <<>> ELSE g[i - 1] \o Strip(s[i])
  BY <1>1, Zenon
<1>. QED
  BY <1>2, Zenon DEF Upto

\* The recursion defines a function: each one extends to the next packet.
LEMMA UptoExists ==
  ASSUME NEW s, NEW m \in Nat
  PROVE  \E g : Upto(s, m, g)
<1>. DEFINE S == {n \in Nat : \E g : Upto(s, n, g)}
<1>1. 0 \in S
  <2>. DEFINE g == [i \in {0} |-> <<>>]
  <2>1. /\ g = [i \in 0..0 |-> g[i]] /\ g[0] = <<>>
        /\ \A i \in 1..0 : g[i] = g[i - 1] \o Strip(s[i])
    OBVIOUS
  <2>. HIDE DEF g
  <2>2. Upto(s, 0, g)
    BY <2>1, MeansUpto
  <2>. QED
    BY <2>2
<1>2. ASSUME NEW n \in Nat, n \in S PROVE n + 1 \in S
  <2>1. PICK g : Upto(s, n, g)
    BY <1>2
  <2>. DEFINE h == [i \in 0..(n + 1) |-> IF i = n + 1 THEN g[n] \o Strip(s[n + 1]) ELSE g[i]]
  <2>2. g[0] = <<>> /\ \A i \in 1..n : g[i] = g[i - 1] \o Strip(s[i])
    BY <2>1, UptoMeans
  <2>3. h[0] = <<>> /\ h[n + 1] = g[n] \o Strip(s[n + 1]) /\ \A i \in 0..n : h[i] = g[i]
    BY <2>2
  <2>4. h = [i \in 0..(n + 1) |-> h[i]]
    OBVIOUS
  <2>. HIDE DEF h
  <2>5. ASSUME NEW i \in 1..(n + 1) PROVE h[i] = h[i - 1] \o Strip(s[i])
    <3>1. CASE i = n + 1
      <4>1. i - 1 = n /\ n \in 0..n
        BY <3>1
      <4>. QED
        BY <2>3, <3>1, <4>1, Zenon
    <3>2. CASE i \in 1..n
      <4>1. i - 1 \in 0..n /\ i \in 0..n
        BY <3>2
      <4>. QED
        BY <2>2, <2>3, <3>2, <4>1, Zenon
    <3>3. i = n + 1 \/ i \in 1..n
      OBVIOUS
    <3>. QED
      BY <3>1, <3>2, <3>3, Zenon
  <2>6. n + 1 \in Nat
    OBVIOUS
  <2>7. Upto(s, n + 1, h)
    BY <2>3, <2>4, <2>5, <2>6, MeansUpto, Zenon
  <2>. QED
    BY <2>6, <2>7
<1>. HIDE DEF S
<1>3. Nat \subseteq S
  BY <1>1, <1>2, Induction
<1>. QED
  BY <1>3 DEF S

\* So Ours is the last value of it.
LEMMA OursMeans ==
  ASSUME NEW s, Len(s) \in Nat
  PROVE  \E g : Upto(s, Len(s), g) /\ Ours(s) = g[Len(s)]
<1>. DEFINE g == CHOOSE g : Upto(s, Len(s), g)
<1>1. Upto(s, Len(s), g)
  BY UptoExists
<1>2. Ours(s) = g[Len(s)]
  BY Zenon DEF Ours, Upto
<1>. QED
  BY <1>1, <1>2

Packets == Seq(Nat)

\* One packet.
LEMMA StripFacts ==
  ASSUME NEW x \in Nat
  PROVE  /\ Strip(x) \in Packets
         /\ x = Generic => Strip(x) = <<>>
         /\ x # Generic => Strip(x) = <<x>>
BY DEF Strip, Packets

\* The values depend on the packets up to them only.
LEMMA UptoAgree ==
  ASSUME NEW s, NEW t, NEW n \in Nat, NEW m \in Nat, NEW g, NEW h,
         Upto(s, n, g), Upto(t, m, h), n <= m, \A i \in 1..n : s[i] = t[i]
  PROVE  \A i \in 0..n : g[i] = h[i]
<1>. DEFINE S == {k \in Nat : k <= n => g[k] = h[k]}
<1>1. /\ g[0] = <<>> /\ \A i \in 1..n : g[i] = g[i - 1] \o Strip(s[i])
      /\ h[0] = <<>> /\ \A i \in 1..m : h[i] = h[i - 1] \o Strip(t[i])
  BY UptoMeans
<1>2. 0 \in S
  BY <1>1
<1>3. ASSUME NEW k \in Nat, k \in S PROVE k + 1 \in S
  <2>1. SUFFICES ASSUME k + 1 <= n PROVE g[k + 1] = h[k + 1]
    OBVIOUS
  <2>2. k + 1 \in 1..n /\ k + 1 \in 1..m /\ (k + 1) - 1 = k /\ g[k] = h[k]
    BY <1>3, <2>1
  <2>3. g[k + 1] = g[k] \o Strip(s[k + 1]) /\ h[k + 1] = h[k] \o Strip(t[k + 1])
    BY <1>1, <2>2
  <2>. QED
    BY <2>2, <2>3
<1>. HIDE DEF S
<1>4. Nat \subseteq S
  BY <1>2, <1>3, Induction
<1>. QED
  BY <1>4 DEF S

\* They are sequences of what the packets hold.
LEMMA UptoType ==
  ASSUME NEW Y, NEW s, NEW n \in Nat, NEW g, Upto(s, n, g),
         \A i \in 1..n : Strip(s[i]) \in Seq(Y)
  PROVE  \A i \in 0..n : g[i] \in Seq(Y)
<1>. DEFINE S == {k \in Nat : k <= n => g[k] \in Seq(Y)}
<1>1. g[0] = <<>> /\ \A i \in 1..n : g[i] = g[i - 1] \o Strip(s[i])
  BY UptoMeans
<1>2. 0 \in S
  <2>1. <<>> \in Seq(Y) /\ 0 \in Nat
    OBVIOUS
  <2>. QED
    BY <1>1, <2>1, Zenon
<1>3. ASSUME NEW k \in Nat, k \in S PROVE k + 1 \in S
  <2>1. SUFFICES ASSUME k + 1 <= n PROVE g[k + 1] \in Seq(Y)
    OBVIOUS
  <2>2. k + 1 \in 1..n /\ (k + 1) - 1 = k /\ g[k] \in Seq(Y)
    BY <1>3, <2>1
  <2>3. g[k + 1] = g[k] \o Strip(s[k + 1])
    BY <1>1, <2>2, Zenon
  <2>4. Strip(s[k + 1]) \in Seq(Y)
    BY <2>2, Zenon
  <2>. QED
    BY <2>2, <2>3, <2>4, ConcatProperties, Zenon
<1>. HIDE DEF S
<1>4. Nat \subseteq S
  BY <1>2, <1>3, Induction
<1>. QED
  BY <1>4 DEF S

\* No packets, no frames.
LEMMA OursEmpty == Ours(<<>>) = <<>>
<1>1. Len(<<>>) = 0 /\ 0 \in Nat
  OBVIOUS
<1>2. PICK g : Upto(<<>>, 0, g) /\ Ours(<<>>) = g[0]
  BY <1>1, OursMeans, Zenon
<1>. QED
  BY <1>1, <1>2, UptoMeans, Zenon

\* A packet that comes last is filtered last.
LEMMA OursAppend ==
  ASSUME NEW s \in Packets, NEW x \in Nat
  PROVE  Ours(Append(s, x)) = Ours(s) \o Strip(x)
<1>. DEFINE t == Append(s, x)
            n == Len(s)
<1>1. /\ n \in Nat /\ n + 1 \in Nat /\ Len(t) = n + 1 /\ n <= n + 1 /\ n \in 0..n
      /\ (n + 1) - 1 = n /\ n + 1 \in 1..(n + 1) /\ t[n + 1] = x
      /\ \A i \in 1..n : s[i] = t[i]
  BY DEF Packets
<1>. HIDE DEF t, n
<1>2. PICK g : Upto(s, n, g) /\ Ours(s) = g[n]
  BY <1>1, OursMeans, Zenon DEF n
<1>3. PICK h : Upto(t, n + 1, h) /\ Ours(t) = h[n + 1]
  BY <1>1, OursMeans, Zenon
<1>4. \A i \in 0..n : g[i] = h[i]
  <2>1. Upto(s, n, g) /\ Upto(t, n + 1, h) /\ n \in Nat /\ n + 1 \in Nat /\ n <= n + 1
    BY <1>1, <1>2, <1>3, Zenon
  <2>2. \A i \in 1..n : s[i] = t[i]
    BY <1>1, Zenon
  <2>. QED
    BY <2>1, <2>2, UptoAgree
<1>5. \A i \in 1..(n + 1) : h[i] = h[i - 1] \o Strip(t[i])
  BY <1>1, <1>3, UptoMeans, Zenon
<1>6. h[n + 1] = h[n] \o Strip(x)
  BY <1>1, <1>5, Zenon
<1>. QED
  BY <1>1, <1>2, <1>3, <1>4, <1>6, Zenon DEF t

\* A packet that comes first is filtered first.
LEMMA OursHead ==
  ASSUME NEW s \in Packets, s # <<>>
  PROVE  Ours(s) = Strip(Head(s)) \o Ours(Tail(s))
<1>. DEFINE t == Tail(s)
            m == Len(t)
            x == Strip(Head(s))
<1>1. /\ t \in Packets /\ m \in Nat /\ m + 1 \in Nat /\ Len(s) = m + 1
      /\ Head(s) = s[1] /\ Head(s) \in Nat /\ \A i \in 1..m : t[i] = s[i + 1]
  BY DEF Packets
<1>2. x \in Packets
  BY <1>1, StripFacts
<1>. HIDE DEF t, m, x
<1>3. PICK g : Upto(s, m + 1, g) /\ Ours(s) = g[m + 1]
  BY <1>1, OursMeans, Zenon
<1>4. PICK h : Upto(t, m, h) /\ Ours(t) = h[m]
  BY <1>1, OursMeans, Zenon DEF m
<1>5. g[0] = <<>> /\ \A i \in 1..(m + 1) : g[i] = g[i - 1] \o Strip(s[i])
  BY <1>1, <1>3, UptoMeans, Zenon
<1>6. h[0] = <<>> /\ \A i \in 1..m : h[i] = h[i - 1] \o Strip(t[i])
  BY <1>1, <1>4, UptoMeans, Zenon
<1>7. ASSUME NEW i \in 1..m PROVE Strip(t[i]) \in Packets
  <2>1. t \in Seq(Nat) /\ i \in 1..Len(t)
    BY <1>1, Zenon DEF Packets, m
  <2>2. t[i] \in Nat
    BY <2>1
  <2>. QED
    BY <2>2, StripFacts
<1>8. \A i \in 0..m : h[i] \in Packets
  BY <1>1, <1>4, <1>7, UptoType, Zenon DEF Packets
<1>. DEFINE S == {k \in Nat : k <= m => g[k + 1] = x \o h[k]}
<1>9. 0 \in S
  <2>1. 1 \in 1..(m + 1) /\ 1 - 1 = 0 /\ 0 + 1 = 1 /\ 0 \in Nat
    BY <1>1
  <2>2. g[1] = <<>> \o x
    BY <1>1, <1>5, <2>1, Zenon DEF x
  <2>3. <<>> \o x = x /\ x \o <<>> = x
    BY <1>2, ConcatEmptySeq DEF Packets
  <2>. QED
    BY <1>6, <2>1, <2>2, <2>3, Zenon
<1>10. ASSUME NEW k \in Nat, k \in S PROVE k + 1 \in S
  <2>1. SUFFICES ASSUME k + 1 <= m PROVE g[(k + 1) + 1] = x \o h[k + 1]
    OBVIOUS
  <2>2. /\ k + 1 \in 1..m /\ (k + 1) + 1 \in 1..(m + 1) /\ ((k + 1) + 1) - 1 = k + 1
        /\ (k + 1) - 1 = k /\ k \in 0..m /\ k <= m
    BY <1>1, <2>1
  <2>3. g[k + 1] = x \o h[k]
    BY <1>10, <2>2, Zenon
  <2>. DEFINE y == Strip(t[k + 1])
  <2>4. s[(k + 1) + 1] = t[k + 1]
    BY <1>1, <2>2, Zenon
  <2>5. g[(k + 1) + 1] = (x \o h[k]) \o y
    BY <1>5, <2>2, <2>3, <2>4, Zenon
  <2>6. h[k + 1] = h[k] \o y
    BY <1>6, <2>2, Zenon
  <2>7. x \in Seq(Nat) /\ h[k] \in Seq(Nat) /\ y \in Seq(Nat)
    BY <1>2, <1>7, <1>8, <2>2, Zenon DEF Packets
  <2>. HIDE DEF y
  <2>8. (x \o h[k]) \o y = x \o (h[k] \o y)
    <3>1. \A a, b, c \in Seq(Nat) : (a \o b) \o c = a \o (b \o c)
      BY ConcatAssociative
    <3>. QED
      BY <2>7, <3>1, Zenon
  <2>. QED
    BY <2>5, <2>6, <2>8, Zenon
<1>. HIDE DEF S
<1>11. Nat \subseteq S
  BY <1>9, <1>10, Induction
<1>12. m \in S /\ m <= m
  BY <1>1, <1>11
<1>13. g[m + 1] = x \o h[m]
  BY <1>12, Zenon DEF S
<1>. QED
  BY <1>3, <1>4, <1>13, Zenon DEF x, t

\* The frames are the packets that are not generic.
LEMMA OursType ==
  ASSUME NEW X \in SUBSET Nat, NEW s \in Seq(X)
  PROVE  Ours(s) \in Seq(X \ {Generic})
<1>. DEFINE n == Len(s)
<1>1. n \in Nat /\ n \in 0..n /\ \A i \in 1..n : s[i] \in X
  OBVIOUS
<1>2. ASSUME NEW i \in 1..n PROVE Strip(s[i]) \in Seq(X \ {Generic})
  <2>1. CASE s[i] = Generic
    <3>1. Strip(s[i]) = <<>>
      BY <2>1, Zenon DEF Strip
    <3>2. <<>> \in Seq(X \ {Generic})
      OBVIOUS
    <3>. QED
      BY <3>1, <3>2, Zenon
  <2>2. CASE s[i] # Generic
    <3>1. Strip(s[i]) = <<s[i]>> /\ s[i] \in X \ {Generic}
      BY <1>1, <2>2, Zenon DEF Strip
    <3>2. ASSUME NEW x \in X \ {Generic} PROVE <<x>> \in Seq(X \ {Generic})
      OBVIOUS
    <3>. QED
      BY <3>1, <3>2, Zenon
  <2>. QED
    BY <2>1, <2>2, Zenon
<1>3. PICK g : Upto(s, n, g) /\ Ours(s) = g[n]
  BY <1>1, OursMeans, Zenon
<1>. HIDE DEF n
<1>4. \A i \in 0..n : g[i] \in Seq(X \ {Generic})
  BY <1>1, <1>2, <1>3, UptoType, Zenon
<1>. QED
  BY <1>1, <1>3, <1>4, Zenon

\* Nothing but generic packets has no frame.
LEMMA OursSome ==
  ASSUME NEW s \in Packets, Ours(s) # <<>>
  PROVE  \E i \in DOMAIN s : s[i] # Generic
<1>. SUFFICES ASSUME \A i \in DOMAIN s : s[i] = Generic PROVE FALSE
  OBVIOUS
<1>1. s \in Seq({Generic})
  BY DEF Packets
<1>2. {Generic} \in SUBSET Nat
  BY DEF Generic
<1>3. Ours(s) \in Seq({Generic} \ {Generic})
  BY <1>1, <1>2, OursType, Zenon
<1>4. Ours(s) = <<>>
  <2>1. {Generic} \ {Generic} = {}
    OBVIOUS
  <2>2. \A r \in Seq({}) : r = <<>>
    OBVIOUS
  <2>. QED
    BY <1>3, <2>1, <2>2, Zenon
<1>. QED
  BY <1>4

----------------------------------------------------------------------------
(* The inductive invariant.                                                *)

\* A worker's connection is one of its node, it has sent nothing before its
\* hello, and a node without a peer has sent nothing at all.
Places ==
    \A n \in Babilonia :
        /\ peer[n] # NoLink => Touches(peer[n], n)
        /\ peer[n] = NoLink \/ greeting[n] => sent[n] = 0
        /\ greeting[n] => peer[n] # NoLink

\* Who sends to an end.
From(e) == Other(e[1], e[2])

\* A frame comes from a node of ours that registered the connection it came on.
Carried(e, packets) ==
    \A i \in DOMAIN packets :
        packets[i] # Generic => From(e) \in Babilonia /\ peer[From(e)] = e[1]

\* And one of ours never has more packets on their way than it has sent: its
\* own decoys are all it sends.
Flow ==
    \A e \in End :
        /\ Carried(e, wire[e]) /\ Carried(e, buffer[e])
        /\ From(e) \in Babilonia => Len(wire[e]) + Len(buffer[e]) <= sent[From(e)]

LinkInv == LinkTypeOK /\ Places /\ Flow /\ RegisteredBack

\* The two ends of a connection.
LEMMA OtherFacts ==
  ASSUME NEW l \in Connections, NEW n, Touches(l, n)
  PROVE  /\ Other(l, n) # n /\ Touches(l, Other(l, n)) /\ Other(l, Other(l, n)) = n
         /\ n \in Node /\ Other(l, n) \in Node
<1>1. l[1] \in Node /\ l[2] \in Node /\ l[1] # l[2]
  BY LinkAssumption
<1>. QED
  BY <1>1 DEF Touches, Other

\* An end is a connection and a node of ours on it.
LEMMA EndFacts ==
  ASSUME NEW e \in End
  PROVE  /\ e[1] \in Connections /\ e[2] \in Babilonia /\ Touches(e[1], e[2])
         /\ e = <<e[1], e[2]>> /\ From(e) # e[2] /\ Other(e[1], From(e)) = e[2]
<1>1. /\ e[1] \in Connections /\ e[2] \in Babilonia /\ Touches(e[1], e[2])
      /\ e = <<e[1], e[2]>>
  BY DEF End
<1>. QED
  BY <1>1, OtherFacts, Zenon DEF From

\* And so is any pair of the two.
LEMMA PairIsEnd ==
  ASSUME NEW l \in Connections, NEW n \in Babilonia, Touches(l, n)
  PROVE  /\ <<l, n>> \in End /\ From(<<l, n>>) = Other(l, n)
         /\ <<l, n>>[1] = l /\ <<l, n>>[2] = n
BY DEF End, From

\* No worker leaves its connection: what holds of the packets on their way is
\* kept by a step that only moves them and adds frames of those registered.
LEMMA FlowKept ==
  ASSUME LinkInv,
         \A n \in Babilonia : peer[n] # NoLink => peer'[n] = peer[n],
         \A e \in End : \A i \in DOMAIN wire'[e] :
            wire'[e][i] # Generic => From(e) \in Babilonia /\ peer[From(e)] = e[1],
         \A e \in End : \A i \in DOMAIN buffer'[e] :
            buffer'[e][i] # Generic => From(e) \in Babilonia /\ peer[From(e)] = e[1],
         \A e \in End : From(e) \in Babilonia =>
            Len(wire'[e]) + Len(buffer'[e]) <= sent'[From(e)]
  PROVE  Flow'
<1>1. ASSUME NEW e \in End, From(e) \in Babilonia, peer[From(e)] = e[1]
      PROVE  peer'[From(e)] = e[1]
  <2>1. e[1] # NoLink
    BY EndFacts, LinkAssumption
  <2>. QED
    BY <1>1, <2>1, Zenon
<1>2. \A e \in End : Carried(e, wire[e])'
  BY <1>1, Zenon DEF Carried, From, Other
<1>3. \A e \in End : Carried(e, buffer[e])'
  BY <1>1, Zenon DEF Carried, From, Other
<1>. QED
  BY <1>2, <1>3, Zenon DEF Flow, From, Other

\* A peer who registered a connection keeps it, so who was registered back is.
LEMMA BackKept ==
  ASSUME LinkInv,
         \A n \in Babilonia : peer[n] # NoLink => peer'[n] = peer[n],
         \A n \in Babilonia : dialed'[n] = NoNode => dialed[n] = NoNode,
         \A n \in Babilonia :
            peer[n] = NoLink /\ peer'[n] # NoLink /\ dialed'[n] = NoNode =>
                /\ peer'[n] \in Connections
                /\ Other(peer'[n], n) \in Babilonia
                /\ peer[Other(peer'[n], n)] = peer'[n]
  PROVE  RegisteredBack'
<1>1. SUFFICES ASSUME NEW n \in Babilonia, peer'[n] # NoLink, dialed'[n] = NoNode
               PROVE  /\ Other(peer'[n], n) \in Babilonia
                      /\ peer'[Other(peer'[n], n)] = peer'[n]
  BY Zenon DEF RegisteredBack, Other
<1>2. /\ Other(peer'[n], n) \in Babilonia
      /\ peer[Other(peer'[n], n)] = peer'[n]
  <2>1. CASE peer[n] = NoLink
    BY <1>1, <2>1, Zenon
  <2>2. CASE peer[n] # NoLink
    <3>1. peer'[n] = peer[n] /\ dialed[n] = NoNode
      BY <1>1, <2>2, Zenon
    <3>. QED
      BY <2>2, <3>1, Zenon DEF LinkInv, RegisteredBack
  <2>. QED
    BY <2>1, <2>2, Zenon
<1>. QED
  BY <1>1, <1>2, Zenon

LEMMA InitInv == Init => LinkInv
<1>. SUFFICES ASSUME Init PROVE LinkInv
  OBVIOUS
<1>1. LinkTypeOK
  <2>1. \A X : <<>> \in Seq(X)
    OBVIOUS
  <2>2. Len(<<>>) <= Budget
    BY LinkAssumption
  <2>. QED
    BY <2>1, <2>2, LinkAssumption DEF Init, LinkTypeOK
<1>2. Places
  BY DEF Init, Places
<1>3. Flow
  BY DEF Init, Flow, Carried
<1>4. RegisteredBack
  BY DEF Init, RegisteredBack
<1>. QED
  BY <1>1, <1>2, <1>3, <1>4 DEF LinkInv

\* What is in the packets of an end, from the types and Flow.
LEMMA Held ==
  ASSUME LinkInv, NEW e \in End
  PROVE  /\ wire[e] \in Seq(0..MaxFrames) /\ buffer[e] \in Seq(0..MaxFrames)
         /\ wire[e] \in Packets /\ buffer[e] \in Packets
         /\ \A i \in DOMAIN wire[e] :
               wire[e][i] # Generic => From(e) \in Babilonia /\ peer[From(e)] = e[1]
         /\ \A i \in DOMAIN buffer[e] :
               buffer[e][i] # Generic => From(e) \in Babilonia /\ peer[From(e)] = e[1]
         /\ From(e) \in Babilonia =>
               /\ Len(wire[e]) + Len(buffer[e]) <= sent[From(e)]
               /\ sent[From(e)] \in 0..MaxFrames
<1>1. wire[e] \in Seq(0..MaxFrames) /\ buffer[e] \in Seq(0..MaxFrames)
  BY DEF LinkInv, LinkTypeOK
<1>2. wire[e] \in Packets /\ buffer[e] \in Packets
  BY <1>1, SeqMonotonic, LinkAssumption DEF Packets
<1>. QED
  BY <1>1, <1>2 DEF LinkInv, Flow, Carried, LinkTypeOK

\* The first element of a sequence and the others.
LEMMA TailFacts ==
  ASSUME NEW X, NEW s \in Seq(X), s # <<>>
  PROVE  /\ Tail(s) \in Seq(X) /\ Head(s) \in X
         /\ Len(s) \in Nat /\ Len(Tail(s)) = Len(s) - 1
         /\ 1 \in DOMAIN s /\ Head(s) = s[1]
         /\ \A i \in DOMAIN Tail(s) : i + 1 \in DOMAIN s /\ Tail(s)[i] = s[i + 1]
OBVIOUS

\* A sequence and one element more.
LEMMA AppendFacts ==
  ASSUME NEW X, NEW s \in Seq(X), NEW x \in X
  PROVE  /\ Append(s, x) \in Seq(X)
         /\ Len(s) \in Nat /\ Len(Append(s, x)) = Len(s) + 1
         /\ \A i \in DOMAIN Append(s, x) :
               Append(s, x)[i] = x \/ (i \in DOMAIN s /\ Append(s, x)[i] = s[i])
<1>. DEFINE t == Append(s, x)
<1>1. t \in Seq(X) /\ Len(s) \in Nat /\ Len(t) = Len(s) + 1
  OBVIOUS
<1>2. ASSUME NEW i \in DOMAIN t
      PROVE  t[i] = x \/ (i \in DOMAIN s /\ t[i] = s[i])
  <2>1. i \in 1..(Len(s) + 1)
    BY <1>1
  <2>2. CASE i = Len(s) + 1
    BY <1>1, <2>2
  <2>3. CASE i \in 1..Len(s)
    BY <1>1, <2>3
  <2>. QED
    BY <1>1, <2>1, <2>2, <2>3
<1>. QED
  BY <1>1, <1>2, Zenon

LEMMA ConnectInv ==
  ASSUME LinkInv, NEW l \in Connections, Connect(l)
  PROVE  LinkInv'
<1>1. UNCHANGED <<dialed, peer, greeting, wire, buffer, inbox, sent, noise>>
  BY DEF Connect, core
<1>2. LinkTypeOK'
  BY <1>1 DEF LinkInv, LinkTypeOK, Connect
<1>3. Places'
  BY <1>1 DEF LinkInv, Places, Touches
<1>4. Flow'
  BY <1>1, Zenon DEF LinkInv, Flow, Carried, From, Other
<1>5. RegisteredBack'
  BY <1>1, Zenon DEF LinkInv, RegisteredBack, Other
<1>. QED
  BY <1>2, <1>3, <1>4, <1>5 DEF LinkInv

LEMMA DisconnectInv ==
  ASSUME LinkInv, NEW l \in Connections, Disconnect(l)
  PROVE  LinkInv'
<1>1. UNCHANGED <<dialed, peer, greeting, inbox, sent, noise>>
  BY DEF Disconnect, core
<1>2. ASSUME NEW e \in End
      PROVE  /\ wire'[e] = IF e[1] = l THEN <<>> ELSE wire[e]
             /\ buffer'[e] = IF e[1] = l THEN <<>> ELSE buffer[e]
  BY DEF Disconnect
<1>3. \A X : <<>> \in Seq(X) /\ Len(<<>>) = 0 /\ DOMAIN <<>> = {}
  OBVIOUS
<1>4. LinkTypeOK'
  <2>1. /\ wire' \in [End -> Seq(0..MaxFrames)]
        /\ buffer' \in [End -> Seq(0..MaxFrames)]
    BY <1>3 DEF LinkInv, LinkTypeOK, Disconnect
  <2>2. \A e \in End : Len(buffer'[e]) <= Budget
    BY <1>2, <1>3, LinkAssumption DEF LinkInv, LinkTypeOK
  <2>. QED
    BY <1>1, <2>1, <2>2 DEF LinkInv, LinkTypeOK, Disconnect
<1>5. Places'
  BY <1>1 DEF LinkInv, Places, Touches
<1>6. Flow'
  <2>1. ASSUME NEW e \in End
        PROVE  /\ \A i \in DOMAIN wire'[e] : wire'[e][i] # Generic =>
                     From(e) \in Babilonia /\ peer[From(e)] = e[1]
               /\ \A i \in DOMAIN buffer'[e] : buffer'[e][i] # Generic =>
                     From(e) \in Babilonia /\ peer[From(e)] = e[1]
               /\ From(e) \in Babilonia =>
                     Len(wire'[e]) + Len(buffer'[e]) <= sent'[From(e)]
    <3>1. CASE e[1] = l
      <4>1. wire'[e] = <<>> /\ buffer'[e] = <<>>
        BY <1>2, <3>1
      <4>2. Len(wire'[e]) + Len(buffer'[e]) = 0 /\ sent' = sent
        BY <1>1, <1>3, <4>1
      <4>3. From(e) \in Babilonia => 0 <= sent[From(e)]
        <5>1. From(e) \in Babilonia => sent[From(e)] \in 0..MaxFrames
          BY Held, Zenon
        <5>. QED
          BY <5>1, LinkAssumption
      <4>4. \A i \in DOMAIN <<>> : FALSE
        BY <1>3
      <4>5. /\ \A i \in DOMAIN wire'[e] : wire'[e][i] # Generic =>
                  From(e) \in Babilonia /\ peer[From(e)] = e[1]
            /\ \A i \in DOMAIN buffer'[e] : buffer'[e][i] # Generic =>
                  From(e) \in Babilonia /\ peer[From(e)] = e[1]
        BY <4>1, <4>4
      <4>6. From(e) \in Babilonia => Len(wire'[e]) + Len(buffer'[e]) <= sent'[From(e)]
        BY <4>2, <4>3, Zenon
      <4>. QED
        BY <4>5, <4>6, Zenon
    <3>2. CASE e[1] # l
      <4>1. wire'[e] = wire[e] /\ buffer'[e] = buffer[e] /\ sent' = sent
        BY <1>1, <1>2, <3>2
      <4>. QED
        BY <4>1, Held, Zenon
    <3>. QED
      BY <3>1, <3>2
  <2>. QED
    BY <1>1, <2>1, FlowKept, Zenon
<1>7. RegisteredBack'
  BY <1>1, BackKept, Zenon
<1>. QED
  BY <1>4, <1>5, <1>6, <1>7 DEF LinkInv

LEMMA DeliverInv ==
  ASSUME LinkInv, NEW f \in End, Deliver(f)
  PROVE  LinkInv'
<1>1. UNCHANGED <<state, dialed, peer, greeting, inbox, sent, noise>>
  BY DEF Deliver, core
<1>. DEFINE p == Head(wire[f])
            more == IF Len(buffer[f]) < Budget THEN Append(buffer[f], p) ELSE buffer[f]
<1>2. /\ wire' = [wire EXCEPT ![f] = Tail(wire[f])]
      /\ buffer' = [buffer EXCEPT ![f] = more]
      /\ wire[f] # <<>>
  BY DEF Deliver
<1>3. /\ Tail(wire[f]) \in Seq(0..MaxFrames) /\ p \in 0..MaxFrames
      /\ Len(wire[f]) \in Nat /\ Len(Tail(wire[f])) = Len(wire[f]) - 1
      /\ p = wire[f][1] /\ 1 \in DOMAIN wire[f]
      /\ \A i \in DOMAIN Tail(wire[f]) :
            i + 1 \in DOMAIN wire[f] /\ Tail(wire[f])[i] = wire[f][i + 1]
  BY <1>2, Held, TailFacts, Zenon
<1>4. /\ more \in Seq(0..MaxFrames) /\ Len(more) \in Nat
      /\ Len(buffer[f]) \in Nat /\ Len(more) <= Len(buffer[f]) + 1
      /\ \A i \in DOMAIN more : more[i] = p \/ (i \in DOMAIN buffer[f] /\ more[i] = buffer[f][i])
  <2>. DEFINE longer == Append(buffer[f], p)
  <2>1. buffer[f] \in Seq(0..MaxFrames)
    BY Held, Zenon
  <2>2. /\ longer \in Seq(0..MaxFrames)
        /\ Len(buffer[f]) \in Nat /\ Len(longer) = Len(buffer[f]) + 1
        /\ \A i \in DOMAIN longer :
              longer[i] = p \/ (i \in DOMAIN buffer[f] /\ longer[i] = buffer[f][i])
    <3>. HIDE DEF p
    <3>. QED
      BY <1>3, <2>1, AppendFacts
  <2>3. more = longer \/ more = buffer[f]
    BY Zenon
  <2>. HIDE DEF longer, more
  <2>. QED
    BY <2>1, <2>2, <2>3
<1>5. Len(more) <= Budget
  BY <1>3, Held, LinkAssumption DEF LinkInv, LinkTypeOK
<1>. HIDE DEF p, more
<1>6. LinkTypeOK'
  <2>1. /\ wire' \in [End -> Seq(0..MaxFrames)]
        /\ buffer' \in [End -> Seq(0..MaxFrames)]
    BY <1>2, <1>3, <1>4 DEF LinkInv, LinkTypeOK
  <2>2. \A e \in End : Len(buffer'[e]) <= Budget
    BY <1>2, <1>5 DEF LinkInv, LinkTypeOK
  <2>. QED
    BY <1>1, <2>1, <2>2 DEF LinkInv, LinkTypeOK
<1>7. Places'
  BY <1>1 DEF LinkInv, Places, Touches
<1>8. Flow'
  <2>1. ASSUME NEW e \in End
        PROVE  /\ \A i \in DOMAIN wire'[e] : wire'[e][i] # Generic =>
                     From(e) \in Babilonia /\ peer[From(e)] = e[1]
               /\ \A i \in DOMAIN buffer'[e] : buffer'[e][i] # Generic =>
                     From(e) \in Babilonia /\ peer[From(e)] = e[1]
               /\ From(e) \in Babilonia =>
                     Len(wire'[e]) + Len(buffer'[e]) <= sent'[From(e)]
    <3>1. CASE e = f
      <4>1. wire'[f] = Tail(wire[f]) /\ buffer'[f] = more /\ sent' = sent
        BY <1>1, <1>2 DEF LinkInv, LinkTypeOK
      <4>2. p # Generic => From(f) \in Babilonia /\ peer[From(f)] = f[1]
        BY <1>3, Held, Zenon
      <4>3. \A i \in DOMAIN wire'[f] : wire'[f][i] # Generic =>
               From(f) \in Babilonia /\ peer[From(f)] = f[1]
        BY <1>3, <4>1, Held, Zenon
      <4>4. \A i \in DOMAIN buffer'[f] : buffer'[f][i] # Generic =>
               From(f) \in Babilonia /\ peer[From(f)] = f[1]
        BY <1>4, <4>1, <4>2, Held, Zenon
      <4>5. From(f) \in Babilonia => Len(wire'[f]) + Len(buffer'[f]) <= sent'[From(f)]
        <5>. SUFFICES ASSUME From(f) \in Babilonia
                      PROVE  Len(wire'[f]) + Len(buffer'[f]) <= sent[From(f)]
          BY <4>1, Zenon
        <5>1.   /\ Len(wire[f]) + Len(buffer[f]) <= sent[From(f)]
                /\ sent[From(f)] \in 0..MaxFrames
          BY Held, Zenon
        <5>2. /\ Len(wire'[f]) = Len(wire[f]) - 1
              /\ Len(buffer'[f]) <= Len(buffer[f]) + 1 /\ Len(buffer'[f]) \in Nat
          BY <1>3, <1>4, <4>1
        <5>3. MaxFrames \in Nat
          BY LinkAssumption
        <5>4. Len(wire[f]) \in Nat /\ Len(buffer[f]) \in Nat
          BY <1>3, <1>4, Zenon
        <5>5. \A w, b, w1, b1, q \in Nat :
                w1 = w - 1 /\ b1 <= b + 1 /\ w + b <= q => w1 + b1 <= q
          OBVIOUS
        <5>6. Len(wire'[f]) \in Nat /\ sent[From(f)] \in Nat
          BY <5>1, <5>2, <5>3
        <5>. QED
          BY <5>1, <5>2, <5>4, <5>5, <5>6, Zenon
      <4>. QED
        BY <3>1, <4>3, <4>4, <4>5, Zenon
    <3>2. CASE e # f
      <4>1. wire'[e] = wire[e] /\ buffer'[e] = buffer[e] /\ sent' = sent
        BY <1>1, <1>2, <3>2 DEF LinkInv, LinkTypeOK
      <4>. QED
        BY <4>1, Held, Zenon
    <3>. QED
      BY <3>1, <3>2
  <2>. QED
    BY <1>1, <2>1, FlowKept, Zenon
<1>9. RegisteredBack'
  BY <1>1, BackKept, Zenon
<1>. QED
  BY <1>6, <1>7, <1>8, <1>9 DEF LinkInv

LEMMA DialInv ==
  ASSUME LinkInv, NEW n \in Babilonia, NEW m \in Babilonia, Dial(n, m)
  PROVE  LinkInv'
<1>1. UNCHANGED <<state, peer, greeting, wire, buffer, inbox, sent, noise>>
  BY DEF Dial
<1>2. LinkTypeOK'
  BY <1>1 DEF LinkInv, LinkTypeOK, Dial
<1>3. Places'
  BY <1>1 DEF LinkInv, Places, Touches
<1>4. Flow'
  BY <1>1, Zenon DEF LinkInv, Flow, Carried, From, Other
<1>5. RegisteredBack'
  <2>1. \A k \in Babilonia : dialed'[k] = NoNode => dialed[k] = NoNode
    BY LinkAssumption DEF Dial, LinkInv, LinkTypeOK
  <2>. QED
    BY <1>1, <2>1, BackKept, Zenon
<1>. QED
  BY <1>2, <1>3, <1>4, <1>5 DEF LinkInv

\* A packet on its way to f, if f is one of ours.
LEMMA PostFacts ==
  ASSUME LinkInv, NEW f, NEW x \in 0..MaxFrames, Post(f, x)
  PROVE  /\ wire' \in [End -> Seq(0..MaxFrames)]
         /\ \A e \in End : wire'[e] = IF e = f THEN Append(wire[e], x) ELSE wire[e]
         /\ \A e \in End : Append(wire[e], x) \in Seq(0..MaxFrames)
<1>1. wire \in [End -> Seq(0..MaxFrames)]
  BY DEF LinkInv, LinkTypeOK
<1>2. ASSUME NEW e \in End PROVE Append(wire[e], x) \in Seq(0..MaxFrames)
  BY <1>1, AppendFacts
<1>3. CASE f \in End
  <2>1. wire' = [wire EXCEPT ![f] = Append(wire[f], x)]
    BY <1>3 DEF Post
  <2>. QED
    BY <1>1, <1>2, <1>3, <2>1
<1>4. CASE f \notin End
  <2>1. wire' = wire
    BY <1>4 DEF Post
  <2>. QED
    BY <1>1, <1>2, <1>4, <2>1
<1>. QED
  BY <1>3, <1>4

LEMMA PadInv ==
  ASSUME LinkInv, NEW l \in Connections, NEW n \in Node, Pad(l, n)
  PROVE  LinkInv'
<1>. DEFINE f == <<l, Other(l, n)>>
<1>1. /\ UNCHANGED <<state, dialed, peer, greeting, buffer, inbox, sent>>
      /\ Touches(l, n) /\ n \notin Babilonia /\ noise < MaxNoise /\ noise' = noise + 1
      /\ Post(f, Generic)
  BY DEF Pad, core, Up
<1>2. Generic \in 0..MaxFrames
  BY LinkAssumption DEF Generic
<1>3. /\ wire' \in [End -> Seq(0..MaxFrames)]
      /\ \A e \in End : wire'[e] = IF e = f THEN Append(wire[e], Generic) ELSE wire[e]
  BY <1>1, <1>2, PostFacts, Zenon
<1>4. ASSUME NEW e \in End, e = f PROVE From(e) = n
  <2>1. e[1] = l /\ e[2] = Other(l, n)
    BY <1>4
  <2>2. Other(l, Other(l, n)) = n
    BY <1>1, OtherFacts
  <2>. QED
    BY <2>1, <2>2, Zenon DEF From
<1>. HIDE DEF f
<1>5. LinkTypeOK'
  BY <1>1, <1>3, LinkAssumption DEF LinkInv, LinkTypeOK
<1>6. Places'
  BY <1>1 DEF LinkInv, Places, Touches
<1>7. Flow'
  <2>1. ASSUME NEW e \in End
        PROVE  /\ \A i \in DOMAIN wire'[e] : wire'[e][i] # Generic =>
                     From(e) \in Babilonia /\ peer[From(e)] = e[1]
               /\ \A i \in DOMAIN buffer'[e] : buffer'[e][i] # Generic =>
                     From(e) \in Babilonia /\ peer[From(e)] = e[1]
               /\ From(e) \in Babilonia =>
                     Len(wire'[e]) + Len(buffer'[e]) <= sent'[From(e)]
    <3>1. CASE e = f
      <4>1. wire'[e] = Append(wire[e], Generic) /\ buffer' = buffer
        BY <1>1, <1>3, <3>1, Zenon
      <4>2. \A i \in DOMAIN wire'[e] :
               wire'[e][i] = Generic \/ (i \in DOMAIN wire[e] /\ wire'[e][i] = wire[e][i])
        <5>1. wire[e] \in Seq(0..MaxFrames)
          BY Held, Zenon
        <5>. QED
          BY <1>2, <4>1, <5>1, AppendFacts
      <4>3. From(e) \notin Babilonia
        BY <1>1, <1>4, <3>1, Zenon
      <4>. QED
        BY <4>1, <4>2, <4>3, Held, Zenon
    <3>2. CASE e # f
      <4>1. wire'[e] = wire[e] /\ buffer' = buffer /\ sent' = sent
        BY <1>1, <1>3, <3>2, Zenon
      <4>. QED
        BY <4>1, Held, Zenon
    <3>. QED
      BY <3>1, <3>2
  <2>. QED
    BY <1>1, <2>1, FlowKept, Zenon
<1>8. RegisteredBack'
  BY <1>1, BackKept, Zenon
<1>. QED
  BY <1>5, <1>6, <1>7, <1>8 DEF LinkInv

\* The part of the invariant a frame that is sent could disturb.
LEMMA SendFrameInv ==
  ASSUME LinkInv, NEW n \in Babilonia, peer[n] # NoLink, sent[n] < MaxFrames,
         SendFrame(n), UNCHANGED <<peer, buffer>>
  PROVE  /\ wire' \in [End -> Seq(0..MaxFrames)]
         /\ sent' \in [Babilonia -> 0..MaxFrames]
         /\ \A m \in Babilonia : m # n => sent'[m] = sent[m]
         /\ Flow'
<1>. DEFINE l == peer[n]
            f == <<l, Other(l, n)>>
            x == sent[n] + 1
<1>1. l \in Connections /\ Touches(l, n)
  BY DEF LinkInv, LinkTypeOK, Places
<1>2. /\ sent \in [Babilonia -> 0..MaxFrames] /\ wire \in [End -> Seq(0..MaxFrames)]
      /\ x \in 0..MaxFrames
  BY LinkAssumption DEF LinkInv, LinkTypeOK
<1>3. CASE state[l] # "up"
  <2>1. UNCHANGED <<wire, sent>>
    BY <1>3 DEF SendFrame
  <2>. QED
    BY <1>2, <2>1, Zenon DEF LinkInv, Flow, Carried, From, Other
<1>4. CASE state[l] = "up"
  <2>1. Post(f, x) /\ sent' = [sent EXCEPT ![n] = x]
    BY <1>4 DEF SendFrame
  <2>2. ASSUME NEW e \in End, e = f PROVE From(e) = n /\ e[1] = l
    <3>1. e[1] = l /\ e[2] = Other(l, n)
      BY <2>2
    <3>. QED
      BY <1>1, <3>1, OtherFacts, Zenon DEF From
  <2>3. sent'[n] = sent[n] + 1 /\ \A m \in Babilonia : m # n => sent'[m] = sent[m]
    BY <1>2, <2>1
  <2>4. sent' \in [Babilonia -> 0..MaxFrames]
    BY <1>2, <2>1
  <2>. HIDE DEF f, x, l
  <2>5. /\ wire' \in [End -> Seq(0..MaxFrames)]
        /\ \A e \in End : wire'[e] = IF e = f THEN Append(wire[e], x) ELSE wire[e]
    BY <1>2, <2>1, PostFacts, Zenon
  <2>6. ASSUME NEW e \in End
        PROVE  /\ \A i \in DOMAIN wire'[e] : wire'[e][i] # Generic =>
                     From(e) \in Babilonia /\ peer[From(e)] = e[1]
               /\ \A i \in DOMAIN buffer'[e] : buffer'[e][i] # Generic =>
                     From(e) \in Babilonia /\ peer[From(e)] = e[1]
               /\ From(e) \in Babilonia =>
                     Len(wire'[e]) + Len(buffer'[e]) <= sent'[From(e)]
    <3>1. CASE e = f
      <4>1. wire'[e] = Append(wire[e], x) /\ buffer' = buffer
        BY <2>5, <3>1, Zenon
      <4>2. /\ \A i \in DOMAIN wire'[e] :
                 wire'[e][i] = x \/ (i \in DOMAIN wire[e] /\ wire'[e][i] = wire[e][i])
            /\ Len(wire[e]) \in Nat /\ Len(wire'[e]) = Len(wire[e]) + 1
        <5>1. wire[e] \in Seq(0..MaxFrames)
          BY Held, Zenon
        <5>. QED
          BY <1>2, <4>1, <5>1, AppendFacts
      <4>3. From(e) = n /\ peer[From(e)] = e[1]
        BY <2>2, <3>1, Zenon DEF l
      <4>4. Len(wire'[e]) + Len(buffer'[e]) <= sent'[n]
        <5>1. Len(wire[e]) + Len(buffer[e]) <= sent[n] /\ sent[n] \in 0..MaxFrames
          BY <4>3, Held, Zenon
        <5>2. Len(buffer[e]) \in Nat
          BY Held DEF Packets
        <5>3. \A w, b, q \in Nat : w + b <= q => (w + 1) + b <= q + 1
          OBVIOUS
        <5>4. sent[n] \in Nat
          BY <5>1, LinkAssumption
        <5>. QED
          BY <2>3, <4>1, <4>2, <5>1, <5>2, <5>3, <5>4, Zenon
      <4>. QED
        BY <4>1, <4>2, <4>3, <4>4, Held, Zenon
    <3>2. CASE e # f
      <4>1. wire'[e] = wire[e] /\ buffer' = buffer
        BY <2>5, <3>2, Zenon
      <4>2. From(e) \in Babilonia => Len(wire'[e]) + Len(buffer'[e]) <= sent'[From(e)]
        <5>1. CASE From(e) = n
          <6>1. Len(wire[e]) + Len(buffer[e]) <= sent[n] /\ sent[n] \in 0..MaxFrames
            BY <5>1, Held, Zenon
          <6>2. Len(buffer[e]) \in Nat /\ Len(wire[e]) \in Nat
            BY Held DEF Packets
          <6>3. \A w, b, q \in Nat : w + b <= q => w + b <= q + 1
            OBVIOUS
          <6>4. sent[n] \in Nat
            BY <6>1, LinkAssumption
          <6>. QED
            BY <2>3, <4>1, <5>1, <6>1, <6>2, <6>3, <6>4, Zenon
        <5>2. CASE From(e) # n
          BY <2>3, <4>1, <5>2, Held, Zenon
        <5>. QED
          BY <5>1, <5>2
      <4>. QED
        BY <4>1, <4>2, Held, Zenon
    <3>. QED
      BY <3>1, <3>2
  <2>7. Flow'
    BY <2>6, FlowKept, Zenon
  <2>. QED
    BY <2>3, <2>4, <2>5, <2>7
<1>. QED
  BY <1>3, <1>4

LEMMA HelloInv ==
  ASSUME LinkInv, NEW n \in Babilonia, Hello(n)
  PROVE  LinkInv'
<1>1. /\ UNCHANGED <<state, dialed, peer, buffer, inbox, noise>>
      /\ greeting' = [greeting EXCEPT ![n] = FALSE] /\ greeting[n] /\ SendFrame(n)
  BY DEF Hello
<1>2. peer[n] # NoLink /\ sent[n] = 0 /\ sent[n] < MaxFrames
  BY <1>1, LinkAssumption DEF LinkInv, Places
<1>3. /\ wire' \in [End -> Seq(0..MaxFrames)]
      /\ sent' \in [Babilonia -> 0..MaxFrames]
      /\ \A m \in Babilonia : m # n => sent'[m] = sent[m]
      /\ Flow'
  BY <1>1, <1>2, SendFrameInv, Zenon
<1>4. LinkTypeOK'
  BY <1>1, <1>3 DEF LinkInv, LinkTypeOK
<1>5. Places'
  BY <1>1, <1>2, <1>3 DEF LinkInv, LinkTypeOK, Places, Touches
<1>6. RegisteredBack'
  BY <1>1, BackKept, Zenon
<1>. QED
  BY <1>3, <1>4, <1>5, <1>6 DEF LinkInv

LEMMA SendInv ==
  ASSUME LinkInv, NEW n \in Babilonia, Send(n)
  PROVE  LinkInv'
<1>1. /\ UNCHANGED <<state, dialed, peer, greeting, buffer, inbox, noise>>
      /\ peer[n] # NoLink /\ ~greeting[n] /\ sent[n] < MaxFrames /\ SendFrame(n)
  BY DEF Send, core
<1>3. /\ wire' \in [End -> Seq(0..MaxFrames)]
      /\ sent' \in [Babilonia -> 0..MaxFrames]
      /\ \A m \in Babilonia : m # n => sent'[m] = sent[m]
      /\ Flow'
  BY <1>1, SendFrameInv, Zenon
<1>4. LinkTypeOK'
  BY <1>1, <1>3 DEF LinkInv, LinkTypeOK
<1>5. Places'
  BY <1>1, <1>3 DEF LinkInv, LinkTypeOK, Places, Touches
<1>6. RegisteredBack'
  BY <1>1, BackKept, Zenon
<1>. QED
  BY <1>3, <1>4, <1>5, <1>6 DEF LinkInv

\* A node whose worker is spawned had no peer.
LEMMA SpawnPeerInv ==
  ASSUME LinkInv, NEW n \in Babilonia, NEW l \in Connections, Touches(l, n),
         NEW seed \in Seq(1..MaxFrames), NEW send_hello \in BOOLEAN,
         peer[n] = NoLink, SpawnPeer(n, l, seed, send_hello), UNCHANGED sent
  PROVE  /\ peer' \in [Babilonia -> Connections \union {NoLink}]
         /\ greeting' \in [Babilonia -> BOOLEAN]
         /\ inbox' \in [Babilonia -> Seq(1..MaxFrames)]
         /\ peer'[n] = l
         /\ \A m \in Babilonia : m # n => peer'[m] = peer[m]
         /\ Places'
<1>1. /\ peer' = [peer EXCEPT ![n] = l]
      /\ greeting' = [greeting EXCEPT ![n] = send_hello]
      /\ inbox' = [inbox EXCEPT ![n] = seed]
  BY DEF SpawnPeer
<1>2. /\ peer' \in [Babilonia -> Connections \union {NoLink}]
      /\ greeting' \in [Babilonia -> BOOLEAN]
      /\ inbox' \in [Babilonia -> Seq(1..MaxFrames)]
      /\ peer'[n] = l
      /\ \A m \in Babilonia : m # n => peer'[m] = peer[m] /\ greeting'[m] = greeting[m]
  BY <1>1 DEF LinkInv, LinkTypeOK
<1>3. sent[n] = 0 /\ l # NoLink
  BY LinkAssumption DEF LinkInv, Places
<1>4. Places'
  BY <1>2, <1>3 DEF LinkInv, Places, Touches
<1>. QED
  BY <1>2, <1>4

LEMMA RegisterDialedInv ==
  ASSUME LinkInv, NEW n \in Babilonia, NEW l \in Connections, RegisterDialed(n, l)
  PROVE  LinkInv'
<1>1. /\ UNCHANGED <<state, dialed, wire, buffer, sent, noise>>
      /\ peer[n] = NoLink /\ dialed[n] # NoNode /\ Touches(l, n)
      /\ SpawnPeer(n, l, <<>>, TRUE)
  BY DEF RegisterDialed, Up
<1>2. <<>> \in Seq(1..MaxFrames)
  OBVIOUS
<1>3. /\ peer' \in [Babilonia -> Connections \union {NoLink}]
      /\ greeting' \in [Babilonia -> BOOLEAN]
      /\ inbox' \in [Babilonia -> Seq(1..MaxFrames)]
      /\ peer'[n] = l
      /\ \A m \in Babilonia : m # n => peer'[m] = peer[m]
      /\ Places'
  BY <1>1, <1>2, SpawnPeerInv
<1>4. LinkTypeOK'
  BY <1>1, <1>3 DEF LinkInv, LinkTypeOK
<1>5. \A m \in Babilonia : peer[m] # NoLink => peer'[m] = peer[m]
  BY <1>1, <1>3, Zenon
<1>6. Flow'
  BY <1>1, <1>5, Held, FlowKept, Zenon
<1>7. RegisteredBack'
  <2>1. \A m \in Babilonia : peer[m] = NoLink /\ peer'[m] # NoLink => dialed'[m] # NoNode
    BY <1>1, <1>3, Zenon
  <2>. QED
    BY <1>1, <1>5, <2>1, BackKept, Zenon
<1>. QED
  BY <1>3, <1>4, <1>6, <1>7 DEF LinkInv

\* The packets of an end are frames once they are filtered.
LEMMA OursFrames ==
  ASSUME LinkInv, NEW e \in End
  PROVE  Ours(buffer[e]) \in Seq(1..MaxFrames) /\ Ours(wire[e]) \in Seq(1..MaxFrames)
<1>1. (0..MaxFrames) \in SUBSET Nat /\ (0..MaxFrames) \ {Generic} = 1..MaxFrames
  BY LinkAssumption DEF Generic
<1>. QED
  BY <1>1, Held, OursType, Zenon

\* The part of the invariant a drained buffer could disturb.
LEMMA DrainedInv ==
  ASSUME LinkInv, NEW f \in End, Drained(f), UNCHANGED <<wire, sent>>,
         \A m \in Babilonia : peer[m] # NoLink => peer'[m] = peer[m]
  PROVE  /\ buffer' \in [End -> Seq(0..MaxFrames)]
         /\ \A e \in End : Len(buffer'[e]) <= Budget
         /\ Flow'
<1>1. \A X : <<>> \in Seq(X) /\ Len(<<>>) = 0 /\ DOMAIN <<>> = {}
  OBVIOUS
<1>2. /\ buffer' \in [End -> Seq(0..MaxFrames)]
      /\ buffer'[f] = <<>>
      /\ \A e \in End : e # f => buffer'[e] = buffer[e]
  BY <1>1 DEF Drained, LinkInv, LinkTypeOK
<1>3. ASSUME NEW e \in End PROVE Len(buffer'[e]) <= Budget
  <2>1. CASE e = f
    <3>1. Len(buffer'[e]) = 0
      BY <1>1, <1>2, <2>1, Zenon
    <3>. QED
      BY <3>1, LinkAssumption
  <2>2. CASE e # f
    BY <1>2, <2>2, Zenon DEF LinkInv, LinkTypeOK
  <2>. QED
    BY <2>1, <2>2
<1>4. ASSUME NEW e \in End
      PROVE  /\ \A i \in DOMAIN buffer'[e] : buffer'[e][i] # Generic =>
                   From(e) \in Babilonia /\ peer[From(e)] = e[1]
             /\ From(e) \in Babilonia =>
                   Len(wire'[e]) + Len(buffer'[e]) <= sent'[From(e)]
  <2>1. CASE e = f
    <3>1. \A i \in DOMAIN buffer'[e] : FALSE
      BY <1>1, <1>2, <2>1
    <3>2. Len(buffer'[e]) = 0 /\ wire'[e] = wire[e] /\ sent' = sent
      BY <1>1, <1>2, <2>1
    <3>3. Len(wire[e]) \in Nat /\ Len(buffer[e]) \in Nat
      BY Held DEF Packets
    <3>4. ASSUME From(e) \in Babilonia
          PROVE  Len(wire'[e]) + Len(buffer'[e]) <= sent'[From(e)]
      <4>1. Len(wire[e]) + Len(buffer[e]) <= sent[From(e)] /\ sent[From(e)] \in 0..MaxFrames
        BY <3>4, Held, Zenon
      <4>2. sent[From(e)] \in Nat
        BY <4>1, LinkAssumption
      <4>3. \A w, b, q \in Nat : w + b <= q => w + 0 <= q
        OBVIOUS
      <4>. QED
        BY <3>2, <3>3, <4>1, <4>2, <4>3, Zenon
    <3>. QED
      BY <3>1, <3>4, Zenon
  <2>2. CASE e # f
    <3>1. buffer'[e] = buffer[e] /\ wire' = wire /\ sent' = sent
      BY <1>2, <2>2
    <3>. QED
      BY <3>1, Held, Zenon
  <2>. QED
    BY <2>1, <2>2
<1>5. Flow'
  BY <1>4, Held, FlowKept, Zenon
<1>. QED
  BY <1>2, <1>3, <1>5

LEMMA ProbeInv ==
  ASSUME LinkInv, NEW n \in Babilonia, NEW l \in Connections, Probe(n, l)
  PROVE  LinkInv'
<1>. DEFINE f == <<l, n>>
            seed == Ours(buffer[f])
<1>1. /\ UNCHANGED <<state, dialed, wire, sent, noise>>
      /\ peer[n] = NoLink /\ dialed[n] = NoNode /\ Touches(l, n)
      /\ Drained(f)
      /\ IF seed # <<>> THEN SpawnPeer(n, l, seed, FALSE) ELSE UNCHANGED <<peer, greeting, inbox>>
  BY DEF Probe, Up
<1>2. f \in End /\ From(f) = Other(l, n) /\ f[1] = l
  BY <1>1, PairIsEnd
<1>3. seed \in Seq(1..MaxFrames)
  BY <1>2, OursFrames
<1>4. seed # <<>> => Other(l, n) \in Babilonia /\ peer[Other(l, n)] = l
  <2>1. buffer[f] \in Packets
    BY <1>2, Held, Zenon
  <2>2. seed # <<>> => \E i \in DOMAIN buffer[f] : buffer[f][i] # Generic
    BY <2>1, OursSome, Zenon
  <2>. QED
    BY <1>2, <2>2, Held, Zenon
<1>. HIDE DEF f, seed
<1>5. /\ peer' \in [Babilonia -> Connections \union {NoLink}]
      /\ greeting' \in [Babilonia -> BOOLEAN]
      /\ inbox' \in [Babilonia -> Seq(1..MaxFrames)]
      /\ peer'[n] # NoLink => seed # <<>> /\ peer'[n] = l
      /\ \A m \in Babilonia : m # n => peer'[m] = peer[m]
      /\ Places'
  <2>1. CASE seed # <<>>
    BY <1>1, <1>3, <2>1, SpawnPeerInv
  <2>2. CASE seed = <<>>
    <3>1. UNCHANGED <<peer, greeting, inbox, sent>>
      BY <1>1, <2>2
    <3>2. Places'
      BY <3>1 DEF LinkInv, Places, Touches
    <3>. QED
      BY <1>1, <3>1, <3>2 DEF LinkInv, LinkTypeOK
  <2>. QED
    BY <2>1, <2>2
<1>6. \A m \in Babilonia : peer[m] # NoLink => peer'[m] = peer[m]
  BY <1>1, <1>5, Zenon
<1>7. /\ buffer' \in [End -> Seq(0..MaxFrames)]
      /\ \A e \in End : Len(buffer'[e]) <= Budget
      /\ Flow'
  BY <1>1, <1>2, <1>6, DrainedInv, Zenon
<1>8. LinkTypeOK'
  BY <1>1, <1>5, <1>7 DEF LinkInv, LinkTypeOK
<1>9. RegisteredBack'
  <2>1. ASSUME NEW m \in Babilonia, peer[m] = NoLink, peer'[m] # NoLink
        PROVE  /\ peer'[m] \in Connections
               /\ Other(peer'[m], m) \in Babilonia
               /\ peer[Other(peer'[m], m)] = peer'[m]
    <3>1. m = n /\ peer'[m] = l
      BY <1>5, <2>1, Zenon
    <3>. QED
      BY <1>4, <1>5, <3>1, <2>1, Zenon
  <2>. QED
    BY <1>1, <1>6, <2>1, BackKept, Zenon
<1>. QED
  BY <1>5, <1>7, <1>8, <1>9 DEF LinkInv

LEMMA DrainInv ==
  ASSUME LinkInv, NEW n \in Babilonia, Drain(n)
  PROVE  LinkInv'
<1>. DEFINE f == <<peer[n], n>>
<1>1. /\ UNCHANGED <<state, dialed, peer, greeting, wire, sent, noise>>
      /\ peer[n] # NoLink /\ Drained(f)
      /\ inbox' = [inbox EXCEPT ![n] = Ours(buffer[f])]
  BY DEF Drain, core
<1>2. f \in End
  BY <1>1, PairIsEnd DEF LinkInv, LinkTypeOK, Places
<1>3. Ours(buffer[f]) \in Seq(1..MaxFrames)
  BY <1>2, OursFrames
<1>. HIDE DEF f
<1>4. /\ buffer' \in [End -> Seq(0..MaxFrames)]
      /\ \A e \in End : Len(buffer'[e]) <= Budget
      /\ Flow'
  BY <1>1, <1>2, DrainedInv, Zenon
<1>5. LinkTypeOK'
  BY <1>1, <1>3, <1>4 DEF LinkInv, LinkTypeOK
<1>6. Places'
  BY <1>1 DEF LinkInv, Places, Touches
<1>7. RegisteredBack'
  BY <1>1, BackKept, Zenon
<1>. QED
  BY <1>4, <1>5, <1>6, <1>7 DEF LinkInv

LEMMA ReceiveInv ==
  ASSUME LinkInv, NEW n \in Babilonia, Receive(n)
  PROVE  LinkInv'
<1>1. /\ UNCHANGED <<state, dialed, peer, greeting, wire, buffer, sent, noise>>
      /\ inbox[n] # <<>> /\ inbox' = [inbox EXCEPT ![n] = Tail(inbox[n])]
  BY DEF Receive, core
<1>2. Tail(inbox[n]) \in Seq(1..MaxFrames)
  BY <1>1, TailFacts DEF LinkInv, LinkTypeOK
<1>3. LinkTypeOK'
  BY <1>1, <1>2 DEF LinkInv, LinkTypeOK
<1>4. Places'
  BY <1>1 DEF LinkInv, Places, Touches
<1>5. Flow'
  BY <1>1, Zenon DEF LinkInv, Flow, Carried, From, Other
<1>6. RegisteredBack'
  BY <1>1, BackKept, Zenon
<1>. QED
  BY <1>3, <1>4, <1>5, <1>6 DEF LinkInv

LEMMA StepInv == LinkInv /\ [Next]_vars => LinkInv'
<1>. SUFFICES ASSUME LinkInv, [Next]_vars PROVE LinkInv'
  OBVIOUS
<1>1. ASSUME NEW l \in Connections, Connect(l) PROVE LinkInv'
  BY <1>1, ConnectInv
<1>2. ASSUME NEW l \in Connections, Disconnect(l) PROVE LinkInv'
  BY <1>2, DisconnectInv
<1>3. ASSUME NEW l \in Connections, NEW n \in Node, Pad(l, n) PROVE LinkInv'
  BY <1>3, PadInv
<1>4. ASSUME NEW e \in End, Deliver(e) PROVE LinkInv'
  BY <1>4, DeliverInv
<1>5. ASSUME NEW n \in Babilonia, NEW m \in Babilonia, Dial(n, m) PROVE LinkInv'
  BY <1>5, DialInv
<1>6. ASSUME NEW n \in Babilonia, NEW l \in Connections, RegisterDialed(n, l) PROVE LinkInv'
  BY <1>6, RegisterDialedInv
<1>7. ASSUME NEW n \in Babilonia, NEW l \in Connections, Probe(n, l) PROVE LinkInv'
  BY <1>7, ProbeInv
<1>8. ASSUME NEW n \in Babilonia, Hello(n) PROVE LinkInv'
  BY <1>8, HelloInv
<1>9. ASSUME NEW n \in Babilonia, Drain(n) PROVE LinkInv'
  BY <1>9, DrainInv
<1>10. ASSUME NEW n \in Babilonia, Receive(n) PROVE LinkInv'
  BY <1>10, ReceiveInv
<1>11. ASSUME NEW n \in Babilonia, Send(n) PROVE LinkInv'
  BY <1>11, SendInv
<1>12. CASE UNCHANGED vars
  BY <1>12, Zenon DEF vars, LinkInv, LinkTypeOK, Places, Touches, Flow, Carried, From, Other,
                      RegisteredBack
<1>. QED
  BY <1>1, <1>2, <1>3, <1>4, <1>5, <1>6, <1>7, <1>8, <1>9, <1>10, <1>11, <1>12, Zenon
  DEF Next, Registration, Worker

THEOREM LinkInvariant == Spec => []LinkInv
BY InitInv, StepInv, PTL DEF Spec

\* Types, and what a node holds of the decoys of a connection stays within the
\* memory set aside for them, however many come.
THEOREM LinkTypeCorrect == Spec => []LinkTypeOK
<1>1. LinkInv => LinkTypeOK
  BY DEF LinkInv
<1>. QED
  BY <1>1, LinkInvariant, PTL

\* Among any nodes and connections, a node that waits registers nobody who
\* did not register the same connection.
THEOREM RegistersBack == Spec => []RegisteredBack
<1>1. LinkInv => RegisteredBack
  BY DEF LinkInv
<1>. QED
  BY <1>1, LinkInvariant, PTL

----------------------------------------------------------------------------
(* Link implements Pipe: each step sends, receives or loses at an end, or  *)
(* only moves frames between the worker, its node and the wire.            *)

Frame == 1..MaxFrames

Closed(e) == state[e[1]] = "down"

\* What the worker at an end has in hand.
Awaited(e) == IF peer[e[2]] = e[1] THEN inbox[e[2]] ELSE <<>>

Queue(e) == Awaited(e) \o Ours(buffer[e]) \o Ours(wire[e])

Moved(e) == Queue(e)' = Queue(e) /\ Closed(e)' = Closed(e)

Sent(e) ==
    /\ ~Closed(e) /\ Closed(e)' = Closed(e)
    /\ \E f \in Frame : Queue(e)' = Append(Queue(e), f)

Received(e) ==
    /\ Queue(e) # <<>> /\ Queue(e)' = Tail(Queue(e))
    /\ Closed(e)' = Closed(e)

Lost(e) ==
    /\ ~Closed(e) /\ Closed(e)'
    /\ \E k \in 0..Len(Queue(e)) : Queue(e)' = SubSeq(Queue(e), 1, k)

\* These are the steps of the channel.
LEMMA StepsOfChannel ==
  ASSUME \A e \in End : Moved(e) \/ Sent(e) \/ Received(e) \/ Lost(e)
  PROVE  Channel!Next
<1>1. \A e \in End : Pending[e] = Queue(e)
  BY DEF Pending, Queue, Awaited
<1>2. \A e \in End : Pending'[e] = Queue(e)'
  BY DEF Pending, Queue, Awaited
<1>. DEFINE closed == [e \in End |-> state[e[1]] = "down"]
<1>3. \A e \in End : closed[e] = Closed(e) /\ closed'[e] = Closed(e)'
  BY Zenon DEF Closed
<1>. HIDE DEF closed
<1>4. SUFFICES ASSUME NEW e \in End
               PROVE  \/ Pending'[e] = Pending[e] /\ closed'[e] = closed[e]
                      \/ /\ ~closed[e] /\ closed'[e] = closed[e]
                         /\ \E f \in Frame : Pending'[e] = Append(Pending[e], f)
                      \/ /\ Pending[e] # <<>> /\ Pending'[e] = Tail(Pending[e])
                         /\ closed'[e] = closed[e]
                      \/ /\ ~closed[e] /\ closed'[e]
                         /\ \E k \in 0..Len(Pending[e]) : Pending'[e] = SubSeq(Pending[e], 1, k)
  BY Zenon DEF Channel!Next, Channel!Send, Channel!Receive, Channel!Lose, closed, Frame
<1>. QED
  BY <1>1, <1>2, <1>3, Zenon DEF Moved, Sent, Received, Lost

LEMMA InitRefines == Init => Channel!Init
<1>. SUFFICES ASSUME Init, NEW e \in End PROVE Queue(e) = <<>> /\ ~Closed(e)
  BY Zenon DEF Channel!Init, Pending, Queue, Awaited, Closed
<1>1. e[1] \in Connections /\ e[2] \in Babilonia
  BY EndFacts
<1>2. state[e[1]] # "down" /\ inbox[e[2]] = <<>> /\ buffer[e] = <<>> /\ wire[e] = <<>>
  BY <1>1 DEF Init
<1>3. Queue(e) = <<>> \o <<>> \o <<>>
  BY <1>2, OursEmpty, Zenon DEF Queue, Awaited
<1>4. <<>> \o <<>> \o <<>> = <<>>
  BY ConcatEmptySeq, EmptySeq
<1>. QED
  BY <1>2, <1>3, <1>4 DEF Closed

\* Facts about sequences these steps rest on.
LEMMA ConcatFacts ==
  ASSUME NEW X, NEW a \in Seq(X), NEW b \in Seq(X), NEW c \in Seq(X)
  PROVE  /\ a \o b \in Seq(X)
         /\ (a \o b) \o c = a \o (b \o c)
         /\ <<>> \in Seq(X) /\ a \o <<>> = a /\ <<>> \o a = a
BY ConcatAssociative, ConcatEmptySeq, ConcatProperties, EmptySeq

\* With a name of its own, the provers do not look into a concatenation.
Cat(a, b) == a \o b

LEMMA CatFacts ==
  ASSUME NEW X, NEW a \in Seq(X), NEW b \in Seq(X), NEW c \in Seq(X)
  PROVE  Cat(a, b) \in Seq(X) /\ Cat(Cat(a, b), c) = Cat(a, Cat(b, c))
BY ConcatFacts, SMTT(30) DEF Cat

LEMMA ConcatFour ==
  ASSUME NEW X, NEW a \in Seq(X), NEW b \in Seq(X), NEW c \in Seq(X), NEW d \in Seq(X)
  PROVE  Cat(Cat(a, b), Cat(c, d)) = Cat(Cat(a, Cat(b, c)), d)
<1>1. Cat(b, c) \in Seq(X) /\ Cat(c, d) \in Seq(X)
  BY CatFacts
<1>2. Cat(Cat(a, b), Cat(c, d)) = Cat(a, Cat(b, Cat(c, d)))
  BY <1>1, CatFacts
<1>3. Cat(Cat(b, c), d) = Cat(b, Cat(c, d))
  BY CatFacts
<1>4. Cat(Cat(a, Cat(b, c)), d) = Cat(a, Cat(Cat(b, c), d))
  BY <1>1, CatFacts
<1>. QED
  BY <1>2, <1>3, <1>4, Zenon

LEMMA ConcatParts ==
  ASSUME NEW X, NEW a \in Seq(X), NEW b \in Seq(X)
  PROVE  /\ Len(a) \in 0..Len(a \o b) /\ SubSeq(a \o b, 1, Len(a)) = a
         /\ a # <<>> => a \o b # <<>> /\ Tail(a \o b) = Tail(a) \o b
         /\ \A x \in X : a \o (b \o <<x>>) = Append(a \o b, x)
<1>. DEFINE ab == a \o b
<1>1. /\ ab \in Seq(X) /\ Len(ab) = Len(a) + Len(b) /\ Len(a) \in Nat /\ Len(b) \in Nat
      /\ \A i \in 1..(Len(a) + Len(b)) :
            ab[i] = IF i <= Len(a) THEN a[i] ELSE b[i - Len(a)]
  BY ConcatProperties
<1>2. /\ SubSeq(ab, 1, Len(a)) \in Seq(X) /\ Len(SubSeq(ab, 1, Len(a))) = Len(a)
      /\ \A i \in 1..Len(a) : SubSeq(ab, 1, Len(a))[i] = a[i]
  BY <1>1
<1>3. SubSeq(ab, 1, Len(a)) = a
  BY <1>2, SeqEqual
<1>4. ASSUME a # <<>> PROVE ab # <<>> /\ Tail(ab) = Tail(a) \o b
  <2>1. /\ Tail(a) \in Seq(X) /\ Len(Tail(a)) = Len(a) - 1 /\ Len(a) >= 1
        /\ \A i \in 1..(Len(a) - 1) : Tail(a)[i] = a[i + 1]
    BY <1>4
  <2>2. /\ ab # <<>> /\ Tail(ab) \in Seq(X) /\ Len(Tail(ab)) = Len(a) + Len(b) - 1
        /\ \A i \in 1..(Len(a) + Len(b) - 1) : Tail(ab)[i] = ab[i + 1]
    BY <1>1, <2>1
  <2>. DEFINE tb == Tail(a) \o b
  <2>3. /\ tb \in Seq(X) /\ Len(tb) = Len(a) - 1 + Len(b)
        /\ \A i \in 1..(Len(a) - 1 + Len(b)) :
              tb[i] = IF i <= Len(a) - 1 THEN Tail(a)[i] ELSE b[i - (Len(a) - 1)]
    BY <2>1, ConcatProperties
  <2>. HIDE DEF ab, tb
  <2>4. ASSUME NEW i \in 1..Len(Tail(ab)) PROVE Tail(ab)[i] = tb[i]
    <3>1. Tail(ab)[i] = ab[i + 1] /\ i + 1 \in 1..(Len(a) + Len(b))
      BY <1>1, <2>1, <2>2
    <3>2. CASE i <= Len(a) - 1
      <4>1. ab[i + 1] = a[i + 1] /\ i \in 1..(Len(a) - 1)
        BY <1>1, <3>1, <3>2
      <4>. QED
        BY <1>1, <2>1, <2>2, <2>3, <3>1, <3>2, <4>1
    <3>3. CASE i > Len(a) - 1
      <4>1. ab[i + 1] = b[(i + 1) - Len(a)] /\ tb[i] = b[i - (Len(a) - 1)]
        BY <1>1, <2>1, <2>2, <2>3, <3>1, <3>3
      <4>2. (i + 1) - Len(a) = i - (Len(a) - 1)
        BY <1>1
      <4>. QED
        BY <3>1, <4>1, <4>2, Zenon
    <3>. QED
      BY <1>1, <3>2, <3>3
  <2>5. Len(Tail(ab)) = Len(tb)
    BY <1>1, <2>2, <2>3
  <2>6. Tail(ab) = tb
    BY <2>2, <2>3, <2>4, <2>5, SeqEqual
  <2>. QED
    BY <2>2, <2>6 DEF tb
<1>5. ASSUME NEW x \in X PROVE a \o (b \o <<x>>) = Append(ab, x)
  <2>1. <<x>> \in Seq(X)
    OBVIOUS
  <2>2. (a \o b) \o <<x>> = a \o (b \o <<x>>)
    BY <2>1, ConcatAssociative
  <2>3. Append(ab, x) = ab \o <<x>>
    BY <1>1, AppendIsConcat
  <2>. QED
    BY <2>2, <2>3, Zenon
<1>. QED
  BY <1>1, <1>3, <1>4, <1>5

\* The parts of a queue are sequences of frames.
LEMMA QueueParts ==
  ASSUME LinkInv, NEW e \in End
  PROVE  /\ Awaited(e) \in Seq(Frame)
         /\ Ours(buffer[e]) \in Seq(Frame) /\ Ours(wire[e]) \in Seq(Frame)
<1>1. inbox[e[2]] \in Seq(Frame)
  BY EndFacts DEF LinkInv, LinkTypeOK, Frame
<1>2. <<>> \in Seq(Frame)
  OBVIOUS
<1>. QED
  BY <1>1, <1>2, OursFrames, Zenon DEF Awaited, Frame

\* An end no part of which changes.
LEMMA StaysPut ==
  ASSUME NEW e \in End, state'[e[1]] = "down" <=> state[e[1]] = "down",
         Awaited(e)' = Awaited(e), buffer'[e] = buffer[e], wire'[e] = wire[e]
  PROVE  Moved(e)
BY Zenon DEF Moved, Queue, Closed

LEMMA ConnectRefines ==
  ASSUME LinkInv, NEW l \in Connections, Connect(l), NEW e \in End
  PROVE  Moved(e)
<1>1. UNCHANGED <<peer, wire, buffer, inbox>>
  BY DEF Connect, core
<1>2. state'[e[1]] = "down" <=> state[e[1]] = "down"
  BY EndFacts DEF Connect, LinkInv, LinkTypeOK
<1>3. Awaited(e)' = Awaited(e)
  BY <1>1, Zenon DEF Awaited
<1>. QED
  BY <1>1, <1>2, <1>3, StaysPut, Zenon

\* What its reader has in hand is what is left of a lost connection.
LEMMA DisconnectRefines ==
  ASSUME LinkInv, NEW l \in Connections, Disconnect(l), NEW e \in End
  PROVE  Moved(e) \/ Lost(e)
<1>1. /\ UNCHANGED <<peer, inbox>>
      /\ state[l] = "up"
      /\ state'[e[1]] = IF e[1] = l THEN "down" ELSE state[e[1]]
      /\ buffer'[e] = IF e[1] = l THEN <<>> ELSE buffer[e]
      /\ wire'[e] = IF e[1] = l THEN <<>> ELSE wire[e]
  BY EndFacts DEF Disconnect, core, LinkInv, LinkTypeOK
<1>2. Awaited(e)' = Awaited(e)
  BY <1>1, Zenon DEF Awaited
<1>3. CASE e[1] # l
  BY <1>1, <1>2, <1>3, StaysPut, Zenon
<1>4. CASE e[1] = l
  <2>1. ~Closed(e) /\ Closed(e)'
    BY <1>1, <1>4 DEF Closed
  <2>. DEFINE a == Awaited(e)
              b == Ours(buffer[e]) \o Ours(wire[e])
  <2>2. a \in Seq(Frame) /\ b \in Seq(Frame) /\ Queue(e) = a \o b
    BY QueueParts, ConcatFacts DEF Queue
  <2>3. Queue(e)' = a
    <3>1. Queue(e)' = a \o <<>> \o <<>>
      BY <1>1, <1>2, <1>4, OursEmpty, Zenon DEF Queue
    <3>2. a \o <<>> = a
      BY <2>2, ConcatFacts
    <3>. QED
      BY <3>1, <3>2, Zenon
  <2>. HIDE DEF a, b
  <2>4. Len(a) \in 0..Len(Queue(e)) /\ Queue(e)' = SubSeq(Queue(e), 1, Len(a))
    BY <2>2, <2>3, ConcatParts
  <2>. QED
    BY <2>1, <2>4, Zenon DEF Lost
<1>. QED
  BY <1>3, <1>4

\* Padding is no frame.
LEMMA PadRefines ==
  ASSUME LinkInv, NEW l \in Connections, NEW n \in Node, Pad(l, n), NEW e \in End
  PROVE  Moved(e)
<1>. DEFINE f == <<l, Other(l, n)>>
<1>1. UNCHANGED <<state, peer, inbox, buffer>> /\ Post(f, Generic)
  BY DEF Pad, core
<1>2. Generic \in 0..MaxFrames /\ Generic \in Nat
  BY LinkAssumption DEF Generic
<1>3. wire'[e] = IF e = f THEN Append(wire[e], Generic) ELSE wire[e]
  BY <1>1, <1>2, PostFacts
<1>4. Ours(wire'[e]) = Ours(wire[e])
  <2>1. wire[e] \in Packets
    BY Held, Zenon
  <2>2. Ours(Append(wire[e], Generic)) = Ours(wire[e]) \o <<>>
    BY <1>2, <2>1, OursAppend, StripFacts
  <2>3. Ours(wire[e]) \o <<>> = Ours(wire[e])
    BY QueueParts, ConcatFacts
  <2>. QED
    BY <1>3, <2>2, <2>3, Zenon
<1>5. Queue(e)' = Queue(e)
  BY <1>1, <1>4, Zenon DEF Queue, Awaited
<1>. QED
  BY <1>1, <1>5, Zenon DEF Moved, Closed

\* A frame is never met by a full buffer: its sender's own come to less than
\* the budget and nobody else sends there.
LEMMA DeliverRefines ==
  ASSUME LinkInv, NEW f \in End, Deliver(f), NEW e \in End
  PROVE  Moved(e)
<1>. DEFINE x == Head(wire[f])
            more == IF Len(buffer[f]) < Budget THEN Append(buffer[f], x) ELSE buffer[f]
<1>1. /\ UNCHANGED <<state, peer, inbox>> /\ wire[f] # <<>>
      /\ wire' = [wire EXCEPT ![f] = Tail(wire[f])]
      /\ buffer' = [buffer EXCEPT ![f] = more]
  BY DEF Deliver, core
<1>2. Awaited(e)' = Awaited(e) /\ Closed(e)' = Closed(e)
  BY <1>1, Zenon DEF Awaited, Closed
<1>3. CASE e # f
  <2>1. wire'[e] = wire[e] /\ buffer'[e] = buffer[e]
    BY <1>1, <1>3 DEF LinkInv, LinkTypeOK
  <2>. QED
    BY <1>2, <2>1, Zenon DEF Moved, Queue
<1>4. CASE e = f
  <2>1. wire'[e] = Tail(wire[e]) /\ buffer'[e] = more
    BY <1>1, <1>4 DEF LinkInv, LinkTypeOK
  <2>2. /\ wire[e] \in Packets /\ buffer[e] \in Packets /\ wire[e] # <<>>
        /\ x \in Nat /\ Tail(wire[e]) \in Packets
        /\ Len(wire[e]) \in Nat /\ Len(Tail(wire[e])) = Len(wire[e]) - 1
        /\ Len(Tail(wire[e])) \in Nat /\ Len(buffer[e]) \in Nat
        /\ 1 \in DOMAIN wire[e] /\ x = wire[e][1]
    <3>1. wire[e] \in Seq(Nat) /\ buffer[e] \in Seq(Nat) /\ wire[e] # <<>>
      BY <1>1, <1>4, Held, Zenon DEF Packets
    <3>2. /\ Tail(wire[e]) \in Seq(Nat) /\ Head(wire[e]) \in Nat
          /\ Len(wire[e]) \in Nat /\ Len(Tail(wire[e])) = Len(wire[e]) - 1
          /\ 1 \in DOMAIN wire[e] /\ Head(wire[e]) = wire[e][1]
      BY <3>1, TailFacts
    <3>3. Len(Tail(wire[e])) \in Nat /\ Len(buffer[e]) \in Nat
      BY <3>1, <3>2, LenProperties
    <3>. QED
      BY <1>4, <3>1, <3>2, <3>3, Zenon DEF Packets
  <2>3. Len(buffer[e]) < Budget \/ x = Generic
    <3>. SUFFICES ASSUME x # Generic PROVE Len(buffer[e]) < Budget
      OBVIOUS
    <3>1. From(e) \in Babilonia
      BY <2>2, Held, Zenon
    <3>2. /\ Len(wire[e]) + Len(buffer[e]) <= sent[From(e)]
          /\ sent[From(e)] \in 0..MaxFrames
      BY <3>1, Held, Zenon
    <3>3. /\ sent[From(e)] \in Nat /\ sent[From(e)] <= Budget
          /\ Budget \in Nat
      BY <3>2, LinkAssumption
    <3>4. Len(wire[e]) # 0
      BY <2>2
    <3>5. \A w, b, q, m \in Nat : w + b <= q /\ q <= m /\ w # 0 => b < m
      OBVIOUS
    <3>. QED
      BY <2>2, <3>2, <3>3, <3>4, <3>5, Zenon
  <2>4. Ours(more) = Ours(buffer[e]) \o Strip(x)
    <3>1. CASE Len(buffer[e]) < Budget
      BY <1>4, <2>2, <3>1, OursAppend
    <3>2. CASE ~(Len(buffer[e]) < Budget)
      <4>1. Strip(x) = <<>> /\ more = buffer[e]
        BY <1>4, <2>2, <2>3, <3>2, StripFacts
      <4>2. Ours(buffer[e]) \o <<>> = Ours(buffer[e])
        BY QueueParts, ConcatFacts
      <4>. QED
        BY <4>1, <4>2, Zenon
    <3>. QED
      BY <3>1, <3>2
  <2>5. Ours(wire[e]) = Strip(x) \o Ours(Tail(wire[e]))
    BY <1>4, <2>2, OursHead
  <2>6. /\ Queue(e) = Cat(Cat(Awaited(e), Ours(buffer[e])), Cat(Strip(x), Ours(Tail(wire[e]))))
        /\ Queue(e)' = Cat(Cat(Awaited(e), Cat(Ours(buffer[e]), Strip(x))), Ours(Tail(wire[e])))
    BY <1>2, <2>1, <2>4, <2>5, Zenon DEF Queue, Cat
  <2>7. /\ Awaited(e) \in Seq(Nat) /\ Ours(buffer[e]) \in Seq(Nat)
        /\ Strip(x) \in Seq(Nat) /\ Ours(Tail(wire[e])) \in Seq(Nat)
    <3>1. Frame \subseteq Nat
      BY DEF Frame
    <3>2. Awaited(e) \in Seq(Nat) /\ Ours(buffer[e]) \in Seq(Nat)
      BY <3>1, QueueParts, SeqMonotonic
    <3>3. Strip(x) \in Seq(Nat)
      BY <2>2, StripFacts DEF Packets
    <3>4. Ours(Tail(wire[e])) \in Seq(Nat \ {Generic})
      BY <2>2, OursType DEF Packets
    <3>5. Ours(Tail(wire[e])) \in Seq(Nat)
      BY <3>4, SeqMonotonic
    <3>. QED
      BY <3>2, <3>3, <3>5
  <2>. HIDE DEF x, more
  <2>8. Queue(e)' = Queue(e)
    BY <2>6, <2>7, ConcatFour
  <2>. QED
    BY <1>2, <2>8, Zenon DEF Moved
<1>. QED
  BY <1>3, <1>4

LEMMA DialRefines ==
  ASSUME NEW n \in Babilonia, NEW m \in Babilonia, Dial(n, m), NEW e \in End
  PROVE  Moved(e)
<1>1. UNCHANGED <<state, peer, wire, buffer, inbox>>
  BY DEF Dial
<1>. QED
  BY <1>1, Zenon DEF Moved, Queue, Awaited, Closed

\* No frame waits for a worker before it is spawned.
LEMMA RegisterDialedRefines ==
  ASSUME LinkInv, NEW n \in Babilonia, NEW l \in Connections, RegisterDialed(n, l),
         NEW e \in End
  PROVE  Moved(e)
<1>1. /\ UNCHANGED <<state, wire, buffer>> /\ peer[n] = NoLink
      /\ peer' = [peer EXCEPT ![n] = l] /\ inbox' = [inbox EXCEPT ![n] = <<>>]
  BY DEF RegisterDialed, SpawnPeer
<1>2. e[2] \in Babilonia /\ e[1] # NoLink
  BY EndFacts, LinkAssumption
<1>3. Awaited(e)' = Awaited(e)
  BY <1>1, <1>2 DEF Awaited, LinkInv, LinkTypeOK
<1>. QED
  BY <1>1, <1>3, StaysPut, Zenon

\* The frames in a buffer become those the worker has in hand.
LEMMA HandedOver ==
  ASSUME LinkInv, NEW e \in End, Awaited(e) = <<>>, Awaited(e)' = Ours(buffer[e]),
         buffer'[e] = <<>>, UNCHANGED <<state, wire>>
  PROVE  Moved(e)
<1>1. Ours(buffer[e]) \in Seq(Frame)
  BY QueueParts
<1>2. Ours(buffer[e]) \o <<>> = Ours(buffer[e]) /\ <<>> \o Ours(buffer[e]) = Ours(buffer[e])
  BY <1>1, ConcatFacts
<1>3. Queue(e)' = Ours(buffer[e]) \o <<>> \o Ours(wire[e])
  BY OursEmpty, Zenon DEF Queue
<1>4. Queue(e) = <<>> \o Ours(buffer[e]) \o Ours(wire[e])
  BY Zenon DEF Queue
<1>. QED
  BY <1>2, <1>3, <1>4, Zenon DEF Moved, Closed

\* What was read while probing is handed to the worker.
LEMMA ProbeRefines ==
  ASSUME LinkInv, NEW n \in Babilonia, NEW l \in Connections, Probe(n, l), NEW e \in End
  PROVE  Moved(e)
<1>. DEFINE f == <<l, n>>
            seed == Ours(buffer[f])
<1>1. /\ UNCHANGED <<state, wire>> /\ peer[n] = NoLink
      /\ buffer' = [buffer EXCEPT ![f] = <<>>]
      /\ \/ /\ seed # <<>> /\ peer' = [peer EXCEPT ![n] = l]
            /\ inbox' = [inbox EXCEPT ![n] = seed]
         \/ seed = <<>> /\ UNCHANGED <<peer, inbox>>
  BY DEF Probe, SpawnPeer, Drained
<1>2. /\ e[2] \in Babilonia /\ e[1] \in Connections /\ e[1] # NoLink
      /\ e = <<e[1], e[2]>>
  BY EndFacts, LinkAssumption
<1>3. e[2] = n => Awaited(e) = <<>>
  BY <1>1, <1>2, Zenon DEF Awaited
<1>4. CASE e = f
  <2>1. e[1] = l /\ e[2] = n /\ buffer'[e] = <<>>
    BY <1>1, <1>4 DEF LinkInv, LinkTypeOK
  <2>2. Awaited(e)' = seed
    <3>1. CASE seed # <<>>
      BY <1>1, <2>1, <3>1 DEF Awaited, LinkInv, LinkTypeOK
    <3>2. CASE seed = <<>>
      <4>1. UNCHANGED <<peer, inbox>>
        BY <1>1, <3>2, Zenon
      <4>. QED
        BY <1>1, <1>2, <2>1, <3>2, <4>1, Zenon DEF Awaited
    <3>. QED
      BY <3>1, <3>2
  <2>. QED
    BY <1>1, <1>3, <1>4, <2>1, <2>2, HandedOver, Zenon
<1>5. CASE e # f
  <2>1. buffer'[e] = buffer[e]
    BY <1>1, <1>5 DEF LinkInv, LinkTypeOK
  <2>2. Awaited(e)' = Awaited(e)
    <3>1. CASE e[2] = n
      <4>1. e[1] # l
        BY <1>2, <1>5, <3>1, Zenon
      <4>2. peer'[n] # e[1]
        BY <1>1, <1>2, <4>1 DEF LinkInv, LinkTypeOK
      <4>. QED
        BY <1>3, <3>1, <4>2, Zenon DEF Awaited
    <3>2. CASE e[2] # n
      BY <1>1, <1>2, <3>2 DEF Awaited, LinkInv, LinkTypeOK
    <3>. QED
      BY <3>1, <3>2
  <2>. QED
    BY <1>1, <2>1, <2>2, StaysPut, Zenon
<1>. QED
  BY <1>4, <1>5

LEMMA DrainRefines ==
  ASSUME LinkInv, NEW n \in Babilonia, Drain(n), NEW e \in End
  PROVE  Moved(e)
<1>. DEFINE f == <<peer[n], n>>
<1>1. /\ UNCHANGED <<state, peer, wire>> /\ peer[n] # NoLink /\ inbox[n] = <<>>
      /\ buffer' = [buffer EXCEPT ![f] = <<>>]
      /\ inbox' = [inbox EXCEPT ![n] = Ours(buffer[f])]
  BY DEF Drain, Drained, core
<1>2. e[2] \in Babilonia /\ e = <<e[1], e[2]>>
  BY EndFacts
<1>3. CASE e = f
  <2>1. e[1] = peer[n] /\ e[2] = n
    BY <1>3
  <2>2. Awaited(e) = <<>> /\ Awaited(e)' = Ours(buffer[e]) /\ buffer'[e] = <<>>
    BY <1>1, <1>3, <2>1 DEF Awaited, LinkInv, LinkTypeOK
  <2>. QED
    BY <1>1, <2>2, HandedOver, Zenon
<1>4. CASE e # f
  <2>1. e[2] # n \/ e[1] # peer[n]
    BY <1>2, <1>4, Zenon
  <2>2. Awaited(e)' = Awaited(e) /\ buffer'[e] = buffer[e]
    BY <1>1, <1>2, <1>4, <2>1 DEF Awaited, LinkInv, LinkTypeOK
  <2>. QED
    BY <1>1, <2>2, StaysPut, Zenon
<1>. QED
  BY <1>3, <1>4

\* A frame that goes out is the last of those on their way to the other end,
\* if that is one of ours.
LEMMA SendFrameRefines ==
  ASSUME LinkInv, NEW n \in Babilonia, peer[n] # NoLink, sent[n] < MaxFrames,
         SendFrame(n), UNCHANGED <<state, peer, buffer, inbox>>, NEW e \in End
  PROVE  Moved(e) \/ Sent(e)
<1>. DEFINE f == <<peer[n], Other(peer[n], n)>>
            x == sent[n] + 1
<1>1. Awaited(e)' = Awaited(e)
  BY Zenon DEF Awaited
<1>2. CASE state[peer[n]] = "up" /\ e = f
  <2>1. Post(f, x) /\ ~Closed(e) /\ Closed(e)' = Closed(e)
    BY <1>2 DEF SendFrame, Closed
  <2>2. x \in Nat /\ x \in 0..MaxFrames /\ x \in Frame /\ x # Generic
    BY LinkAssumption DEF LinkInv, LinkTypeOK, Frame, Generic
  <2>. HIDE DEF f, x
  <2>3. wire'[e] = Append(wire[e], x)
    BY <1>2, <2>1, <2>2, PostFacts, Zenon
  <2>4. Ours(wire'[e]) = Ours(wire[e]) \o <<x>>
    BY <2>2, <2>3, Held, OursAppend, StripFacts
  <2>5. Queue(e)' = Awaited(e) \o Ours(buffer[e]) \o (Ours(wire[e]) \o <<x>>)
    BY <1>1, <2>4, Zenon DEF Queue
  <2>6. Awaited(e) \o Ours(buffer[e]) \in Seq(Frame) /\ Ours(wire[e]) \in Seq(Frame)
    BY QueueParts, ConcatFacts
  <2>7. Queue(e)' = Append(Queue(e), x)
    <3>. DEFINE a == Awaited(e) \o Ours(buffer[e])
                b == Ours(wire[e])
    <3>1. a \in Seq(Frame) /\ b \in Seq(Frame)
      BY <2>6
    <3>. HIDE DEF a, b
    <3>2. a \o (b \o <<x>>) = Append(a \o b, x)
      BY <2>2, <3>1, ConcatParts
    <3>. QED
      BY <2>5, <3>2, Zenon DEF Queue, a, b
  <2>. QED
    BY <2>1, <2>2, <2>7, Zenon DEF Sent
<1>3. CASE ~(state[peer[n]] = "up" /\ e = f)
  <2>1. wire'[e] = wire[e]
    <3>1. CASE state[peer[n]] = "up"
      <4>1. Post(f, x) /\ e # f
        BY <1>3, <3>1 DEF SendFrame
      <4>2. x \in 0..MaxFrames
        BY LinkAssumption DEF LinkInv, LinkTypeOK
      <4>. HIDE DEF f, x
      <4>. QED
        BY <4>1, <4>2, PostFacts, Zenon
    <3>2. CASE state[peer[n]] # "up"
      BY <3>2 DEF SendFrame
    <3>. QED
      BY <3>1, <3>2
  <2>. QED
    BY <1>1, <2>1, StaysPut, Zenon
<1>. QED
  BY <1>2, <1>3

LEMMA ReceiveRefines ==
  ASSUME LinkInv, NEW n \in Babilonia, Receive(n), NEW e \in End
  PROVE  Moved(e) \/ Received(e)
<1>1. /\ UNCHANGED <<state, peer, wire, buffer>>
      /\ inbox[n] # <<>> /\ inbox' = [inbox EXCEPT ![n] = Tail(inbox[n])]
  BY DEF Receive, core
<1>2. e[2] \in Babilonia
  BY EndFacts
<1>3. CASE e[2] = n /\ peer[n] = e[1]
  <2>. DEFINE a == Awaited(e)
              b == Ours(buffer[e]) \o Ours(wire[e])
  <2>1. a # <<>> /\ Awaited(e)' = Tail(a)
    BY <1>1, <1>2, <1>3 DEF Awaited, LinkInv, LinkTypeOK
  <2>2. a \in Seq(Frame) /\ b \in Seq(Frame) /\ Tail(a) \in Seq(Frame)
    BY <2>1, QueueParts, ConcatFacts, TailFacts
  <2>3. Queue(e) = a \o b
    BY QueueParts, ConcatFacts DEF Queue
  <2>4. Queue(e)' = Tail(a) \o b
    <3>1. Queue(e)' = Tail(a) \o Ours(buffer[e]) \o Ours(wire[e])
      BY <1>1, <2>1, Zenon DEF Queue
    <3>. QED
      BY <2>2, <3>1, QueueParts, ConcatFacts
  <2>. HIDE DEF a, b
  <2>5. a \o b # <<>> /\ Tail(a \o b) = Tail(a) \o b
    BY <2>1, <2>2, ConcatParts
  <2>6. Closed(e)' = Closed(e)
    BY <1>1, Zenon DEF Closed
  <2>. QED
    BY <2>3, <2>4, <2>5, <2>6, Zenon DEF Received
<1>4. CASE ~(e[2] = n /\ peer[n] = e[1])
  <2>1. Awaited(e)' = Awaited(e)
    BY <1>1, <1>2, <1>4 DEF Awaited, LinkInv, LinkTypeOK
  <2>. QED
    BY <1>1, <2>1, StaysPut, Zenon
<1>. QED
  BY <1>3, <1>4

LEMMA StepRefines ==
  ASSUME LinkInv, [Next]_vars
  PROVE  [Channel!Next]_<<Pending, [e \in End |-> state[e[1]] = "down"]>>
<1>1. CASE UNCHANGED vars
  <2>1. UNCHANGED <<state, peer, wire, buffer, inbox>>
    BY <1>1 DEF vars
  <2>. QED
    BY <2>1, Zenon DEF Pending
<1>2. CASE Next
  <2>. SUFFICES ASSUME NEW e \in End
                PROVE  Moved(e) \/ Sent(e) \/ Received(e) \/ Lost(e)
    BY StepsOfChannel
  <2>1. ASSUME NEW l \in Connections, Connect(l) \/ Disconnect(l)
        PROVE  Moved(e) \/ Lost(e)
    BY <2>1, ConnectRefines, DisconnectRefines
  <2>2. ASSUME NEW l \in Connections, NEW n \in Node, Pad(l, n) PROVE Moved(e)
    BY <2>2, PadRefines
  <2>3. ASSUME NEW f \in End, Deliver(f) PROVE Moved(e)
    BY <2>3, DeliverRefines
  <2>4. ASSUME NEW n \in Babilonia, NEW m \in Babilonia, Dial(n, m) PROVE Moved(e)
    BY <2>4, DialRefines
  <2>5. ASSUME NEW n \in Babilonia, NEW l \in Connections, Registration(n, l)
        PROVE  Moved(e)
    BY <2>5, RegisterDialedRefines, ProbeRefines DEF Registration
  <2>6. ASSUME NEW n \in Babilonia, Hello(n) \/ Send(n) PROVE Moved(e) \/ Sent(e)
    <3>1. /\ UNCHANGED <<state, peer, buffer, inbox>> /\ SendFrame(n)
          /\ peer[n] # NoLink /\ sent[n] < MaxFrames
      BY <2>6, LinkAssumption DEF Hello, Send, core, LinkInv, Places
    <3>. QED
      BY <3>1, SendFrameRefines
  <2>7. ASSUME NEW n \in Babilonia, Drain(n) PROVE Moved(e)
    BY <2>7, DrainRefines
  <2>8. ASSUME NEW n \in Babilonia, Receive(n) PROVE Moved(e) \/ Received(e)
    BY <2>8, ReceiveRefines
  <2>. QED
    BY <1>2, <2>1, <2>2, <2>3, <2>4, <2>5, <2>6, <2>7, <2>8, Zenon DEF Next, Worker
<1>. QED
  BY <1>1, <1>2

\* Between any nodes, with whatever bystanders, a transport is the channel its
\* trait promises: the probing and seeding at one end, the draining, and the
\* buffer with its budget together lose, repeat and reorder nothing.
THEOREM LinkImplementsPipe == Spec => ImplementsChannel
<1>1. Init => LinkInv /\ Channel!Init
  BY InitInv, InitRefines
<1>2. LinkInv /\ [Next]_vars => LinkInv'
  BY StepInv
<1>3. LinkInv /\ [Next]_vars => [Channel!Next]_<<Pending, [e \in End |-> state[e[1]] = "down"]>>
  BY StepRefines
<1>. QED
  BY <1>1, <1>2, <1>3, PTL DEF Spec, ImplementsChannel, Channel!Spec
============================================================================
