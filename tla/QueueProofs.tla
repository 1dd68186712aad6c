---------------------------- MODULE QueueProofs ----------------------------
(***************************************************************************)
(* Lemmas about queues in which nobody waits twice: what Leave takes out   *)
(* and what it keeps.                                                      *)
(***************************************************************************)
EXTENDS Queues, SequenceTheorems, WellFoundedInduction, TLAPS

Items(q)    == {q[i] : i \in DOMAIN q}
Distinct(q) == \A i, j \in DOMAIN q : q[i] = q[j] => i = j

\* What a concatenation is, for any elements.
LEMMA Concatenated ==
  ASSUME NEW S, NEW s \in Seq(S), NEW u \in Seq(S)
  PROVE  /\ s \o u \in Seq(S) /\ Len(s \o u) = Len(s) + Len(u)
         /\ \A i \in 1 .. Len(s) + Len(u) :
              (s \o u)[i] = IF i <= Len(s) THEN s[i] ELSE u[i - Len(s)]
BY ConcatProperties

\* Whoever stands behind the one that leaves moves up.
LEMMA LeaveMovesUp ==
  ASSUME NEW S, NEW q \in Seq(S), Distinct(q), NEW m \in DOMAIN q
  PROVE  Leave(q, q[m]) = [i \in 1 .. Len(q) - 1 |-> IF i < m THEN q[i] ELSE q[i + 1]]
<1> DEFINE I == {i \in 1 .. Len(q) : q[i] = q[m]}
           n == CHOOSE i \in I : \A j \in I : i =< j
           front == SubSeq(q, 1, m - 1)
           back == SubSeq(q, m + 1, Len(q))
<1>1. I = {m} /\ m \in Nat /\ Len(q) \in Nat /\ m <= Len(q) /\ 1 <= m
  BY DEF Distinct
<1>2. n = m
  BY <1>1
<1>3. I # {}
  BY <1>1
<1>4. Leave(q, q[m]) = SubSeq(q, 1, n - 1) \o SubSeq(q, n + 1, Len(q))
  BY <1>3 DEF Leave, Seqs!RemoveFirst, Seqs!SelectInSeq, Seqs!RemoveAt, Seqs!Min
<1>5. Leave(q, q[m]) = front \o back
  BY <1>2, <1>4
<1>6. /\ front \in Seq(S) /\ Len(front) = m - 1 /\ \A i \in 1 .. m - 1 : front[i] = q[i]
      /\ back \in Seq(S) /\ Len(back) = Len(q) - m /\ \A i \in 1 .. Len(q) - m : back[i] = q[i + m]
  BY <1>1
<1> DEFINE joined == front \o back
<1>7. /\ joined \in Seq(S) /\ Len(joined) = Len(front) + Len(back)
      /\ \A i \in 1 .. Len(front) + Len(back) :
           joined[i] = IF i <= Len(front) THEN front[i] ELSE back[i - Len(front)]
  <2> HIDE DEF front, back
  <2>1. front \in Seq(S) /\ back \in Seq(S)
    BY <1>6
  <2>2. QED  BY <2>1, Concatenated
<1> HIDE DEF front, back, joined
<1>8. Len(joined) = Len(q) - 1
  BY <1>1, <1>6, <1>7
<1>9. ASSUME NEW i \in 1 .. Len(q) - 1
      PROVE  joined[i] = IF i < m THEN q[i] ELSE q[i + 1]
  <2>1. i \in 1 .. Len(front) + Len(back) /\ (i <= Len(front) <=> i < m)
    BY <1>1, <1>6
  <2>2. CASE i < m
    <3>1. joined[i] = front[i]
      BY <1>7, <2>1, <2>2
    <3>2. i \in 1 .. m - 1
      BY <1>1, <2>2
    <3>3. QED  BY <1>6, <2>2, <3>1, <3>2
  <2>3. CASE ~(i < m)
    <3>1. joined[i] = back[i - (m - 1)] /\ i - (m - 1) \in 1 .. Len(q) - m
      <4>1. ~(i <= Len(front))
        BY <2>1, <2>3
      <4>2. joined[i] = back[i - Len(front)]
        BY <1>7, <2>1, <4>1
      <4>3. Len(front) = m - 1 /\ i \in Int /\ i <= Len(q) - 1
        BY <1>1, <1>6
      <4>4. QED  BY <1>1, <2>3, <4>2, <4>3
    <3> DEFINE k == i - (m - 1)
    <3>2. k + m = i + 1
      BY <1>1
    <3>3. k \in 1 .. Len(q) - m /\ joined[i] = back[k]
      BY <3>1
    <3> HIDE DEF k
    <3>4. back[k] = q[k + m]
      BY <1>6, <3>3
    <3>5. QED  BY <2>3, <3>2, <3>3, <3>4
  <2>4. QED  BY <2>2, <2>3
<1>10. joined = [i \in 1 .. Len(q) - 1 |-> joined[i]]
  BY <1>7, <1>8
<1>11. QED  BY <1>5, <1>9, <1>10 DEF joined

\* Nobody but the one that leaves is lost, and the others keep their order.
LEMMA LeaveKeeps ==
  ASSUME NEW S, NEW q \in Seq(S), Distinct(q), NEW x \in Items(q)
  PROVE  /\ Leave(q, x) \in Seq(S) /\ Len(Leave(q, x)) = Len(q) - 1
         /\ Distinct(Leave(q, x))
         /\ Items(Leave(q, x)) = Items(q) \ {x}
         /\ \A i, j \in DOMAIN Leave(q, x) : i < j =>
              \E k, l \in DOMAIN q : k < l /\ Leave(q, x)[i] = q[k] /\ Leave(q, x)[j] = q[l]
         /\ Head(q) # x => Leave(q, x) # <<>> /\ Head(Leave(q, x)) = Head(q)
         /\ Head(q) = x => Leave(q, x) = Tail(q)
<1>1. PICK m \in DOMAIN q : x = q[m]
  BY DEF Items
<1> DEFINE p == [i \in 1 .. Len(q) - 1 |-> IF i < m THEN q[i] ELSE q[i + 1]]
<1>2. Leave(q, x) = p
  BY <1>1, LeaveMovesUp
<1>3. /\ DOMAIN q = 1 .. Len(q) /\ Len(q) \in Nat /\ m \in Nat /\ 1 <= m /\ m <= Len(q)
      /\ \A i \in DOMAIN q : q[i] \in S
  OBVIOUS
<1>4. p \in Seq(S) /\ Len(p) = Len(q) - 1 /\ DOMAIN p = 1 .. Len(q) - 1
  BY <1>3
<1>5. \A i \in DOMAIN p : p[i] = IF i < m THEN q[i] ELSE q[i + 1]
  BY <1>4
<1> HIDE DEF p
<1>6. Distinct(p)
  BY <1>3, <1>4, <1>5 DEF Distinct
<1>7. \A i, j \in DOMAIN p : i < j => \E k, l \in DOMAIN q : k < l /\ p[i] = q[k] /\ p[j] = q[l]
  <2> SUFFICES ASSUME NEW i \in DOMAIN p, NEW j \in DOMAIN p, i < j
               PROVE  \E k, l \in DOMAIN q : k < l /\ p[i] = q[k] /\ p[j] = q[l]
    OBVIOUS
  <2> DEFINE k == IF i < m THEN i ELSE i + 1
             l == IF j < m THEN j ELSE j + 1
  <2>1. k \in DOMAIN q /\ l \in DOMAIN q /\ k < l
    BY <1>3, <1>4
  <2>2. p[i] = q[k] /\ p[j] = q[l]
    BY <1>5
  <2>3. QED  BY <2>1, <2>2
<1>8. Items(p) = Items(q) \ {x}
  <2>1. ASSUME NEW i \in DOMAIN p
        PROVE  p[i] \in Items(q) \ {x}
    <3> DEFINE k == IF i < m THEN i ELSE i + 1
    <3>1. k \in DOMAIN q /\ k # m /\ p[i] = q[k]
      BY <1>3, <1>4, <1>5
    <3>2. q[k] # q[m]
      BY <3>1 DEF Distinct
    <3>3. QED  BY <1>1, <3>1, <3>2 DEF Items
  <2>2. ASSUME NEW k \in DOMAIN q, q[k] # x
        PROVE  q[k] \in Items(p)
    <3> DEFINE i == IF k < m THEN k ELSE k - 1
    <3>1. k # m
      BY <1>1, <2>2
    <3>2. i \in DOMAIN p /\ p[i] = q[k]
      BY <1>3, <1>4, <1>5, <3>1
    <3> HIDE DEF i
    <3>3. QED  BY <3>2 DEF Items
  <2>3. QED  BY <2>1, <2>2 DEF Items
<1>9. Head(q) # x => p # <<>> /\ Head(p) = Head(q)
  BY <1>1, <1>3, <1>4, <1>5
<1>10. Head(q) = x => p = Tail(q)
  <2> SUFFICES ASSUME Head(q) = x
               PROVE  p = Tail(q)
    OBVIOUS
  <2>1. m = 1
    BY <1>1, <1>3 DEF Distinct
  <2>2. Tail(q) \in Seq(S) /\ Len(Tail(q)) = Len(q) - 1 /\ \A i \in 1 .. Len(q) - 1 : Tail(q)[i] = q[i + 1]
    BY <1>3
  <2>3. \A i \in 1 .. Len(q) - 1 : p[i] = Tail(q)[i]
    BY <1>3, <1>4, <1>5, <2>1, <2>2
  <2>4. QED  BY <1>4, <2>2, <2>3, SeqEqual
<1>11. QED  BY <1>2, <1>4, <1>6, <1>7, <1>8, <1>9, <1>10

\* Nothing happens if nobody leaves.
LEMMA LeaveNobody ==
  ASSUME NEW S, NEW q \in Seq(S), NEW x, x \notin Items(q)
  PROVE  Leave(q, x) = q
<1>1. ~ \E i \in 1 .. Len(q) : q[i] = x
  BY DEF Items
<1>2. QED  BY <1>1 DEF Leave, Seqs!RemoveFirst

\* Whoever has not been in the queue comes last.
LEMMA AppendKeeps ==
  ASSUME NEW S, NEW q \in Seq(S), Distinct(q), NEW x \in S, x \notin Items(q)
  PROVE  /\ Append(q, x) \in Seq(S) /\ Append(q, x) # <<>> /\ Distinct(Append(q, x))
         /\ Items(Append(q, x)) = Items(q) \cup {x}
         /\ \A i, j \in DOMAIN Append(q, x) : i < j =>
              /\ i \in DOMAIN q /\ Append(q, x)[i] = q[i]
              /\ \/ j \in DOMAIN q /\ Append(q, x)[j] = q[j]
                 \/ Append(q, x)[j] = x
         /\ q # <<>> => Head(Append(q, x)) = Head(q)
         /\ q = <<>> => Head(Append(q, x)) = x
<1> DEFINE p == Append(q, x)
<1>1. /\ p \in Seq(S) /\ Len(p) = Len(q) + 1 /\ Len(q) \in Nat
      /\ DOMAIN p = 1 .. Len(q) + 1 /\ DOMAIN q = 1 .. Len(q)
      /\ \A i \in DOMAIN q : p[i] = q[i]
      /\ p[Len(q) + 1] = x
  OBVIOUS
<1>2. \A i \in DOMAIN q : q[i] # x
  BY DEF Items
<1>3. p # <<>>
  BY <1>1
<1> HIDE DEF p
<1>4. Distinct(p)
  BY <1>1, <1>2 DEF Distinct
<1>5. Items(p) = Items(q) \cup {x}
  <2>1. \A i \in DOMAIN p : p[i] \in Items(q) \cup {x}
    BY <1>1 DEF Items
  <2>2. \A i \in DOMAIN q : q[i] \in Items(p)
    BY <1>1 DEF Items
  <2>3. x \in Items(p)
    BY <1>1 DEF Items
  <2>4. QED  BY <2>1, <2>2, <2>3 DEF Items
<1>6. \A i, j \in DOMAIN p : i < j => /\ i \in DOMAIN q /\ p[i] = q[i]
                                      /\ (j \in DOMAIN q /\ p[j] = q[j]) \/ p[j] = x
  BY <1>1
<1>7. q # <<>> => Head(p) = Head(q)
  BY <1>1
<1>8. q = <<>> => Head(p) = x
  BY <1>1
<1>9. QED  BY <1>1, <1>3, <1>4, <1>5, <1>6, <1>7, <1>8 DEF p

\* A set of numbers has a least one.
LEMMA LeastNumber ==
  ASSUME NEW T, T \subseteq Nat, T # {}
  PROVE  \E n \in T : \A m \in T : n <= m
<1> DEFINE R == OpToRel(<, Nat)
<1>1. IsWellFoundedOn(R, Nat)
  BY NatLessThanWellFounded
<1>2. \A m, n \in Nat : m < n => <<m, n>> \in R
  BY DEF OpToRel
<1> HIDE DEF R
<1>3. PICK n \in T : \A m \in T : ~(<<m, n>> \in R)
  BY <1>1, WFMin
<1>4. \A m \in T : m \in Nat /\ n \in Nat /\ ~(m < n)
  BY <1>2, <1>3
<1>5. \A m \in T : n <= m
  BY <1>4
<1>6. QED  BY <1>5
=============================================================================
