---------------------------- MODULE SharedLemmas ----------------------------
(* Facts about numbers and sequences that the proofs share                 *)
EXTENDS Integers, SequenceTheorems, WellFoundedInduction, TLAPS

\* A set of numbers that is not empty has a smallest one.
LEMMA SmallestExists ==
  ASSUME NEW S, S \subseteq Nat, S # {}
  PROVE  \E x \in S : \A y \in S : x <= y
<1> DEFINE R == OpToRel(<, Nat)
<1>1. IsWellFoundedOn(R, Nat)
  BY NatLessThanWellFounded
<1> HIDE DEF R
<1>2. PICK x \in S : \A y \in S : <<y, x>> \notin R
  BY <1>1, WFMin
<1>3. ASSUME NEW y \in S PROVE x <= y
  <2>1. x \in Nat /\ y \in Nat
    OBVIOUS
  <2>2. y < x => <<y, x>> \in R
    BY <2>1 DEF R, OpToRel
  <2> QED
    BY <1>2, <2>1, <2>2
<1> QED
  BY <1>3

-----------------------------------------------------------------------------
\* Appending at the end of a concatenation is appending to its second part.
LEMMA AppendToConcat ==
  ASSUME NEW S, NEW s \in Seq(S), NEW t \in Seq(S), NEW e \in S
  PROVE  s \o Append(t, e) = Append(s \o t, e)
<1>1. <<e>> \in Seq(S)
  OBVIOUS
<1>2. Append(t, e) = t \o <<e>>
  BY AppendIsConcat
<1>3. s \o t \in Seq(S)
  BY ConcatProperties
<1>4. Append(s \o t, e) = (s \o t) \o <<e>>
  BY <1>3, AppendIsConcat
<1>5. QED
  BY <1>1, <1>2, <1>4, ConcatAssociative

\* Moving the head of a sequence to the end of the one before it changes
\* nothing for their concatenation.
LEMMA MoveHead ==
  ASSUME NEW S, NEW s \in Seq(S), NEW t \in Seq(S), t # <<>>
  PROVE  Append(s, Head(t)) \o Tail(t) = s \o t
<1>1. Head(t) \in S /\ Tail(t) \in Seq(S) /\ Len(Tail(t)) = Len(t) - 1
  BY HeadTailProperties
<1>2. /\ Append(s, Head(t)) \in Seq(S)
      /\ Len(Append(s, Head(t))) = Len(s) + 1
  BY <1>1, AppendProperties
<1>3. /\ Append(s, Head(t)) \o Tail(t) \in Seq(S)
      /\ s \o t \in Seq(S)
      /\ Len(Append(s, Head(t)) \o Tail(t)) = Len(s \o t)
  <2>1. Len(Append(s, Head(t)) \o Tail(t)) = (Len(s) + 1) + (Len(t) - 1)
    BY <1>1, <1>2, ConcatProperties
  <2>2. Len(s \o t) = Len(s) + Len(t)
    BY ConcatProperties
  <2>3. Len(s) \in Nat /\ Len(t) \in Nat
    BY LenProperties
  <2>4. QED
    BY <1>1, <1>2, <2>1, <2>2, <2>3, ConcatProperties
<1>4. ASSUME NEW i \in 1..Len(s \o t)
      PROVE  (Append(s, Head(t)) \o Tail(t))[i] = (s \o t)[i]
  <2>1. /\ Len(s) \in Nat /\ Len(t) \in Nat
        /\ Len(s \o t) = Len(s) + Len(t)
    BY LenProperties, ConcatProperties
  <2>2. (s \o t)[i] = IF i <= Len(s) THEN s[i] ELSE t[i - Len(s)]
    BY <2>1, ConcatProperties
  <2>3. (Append(s, Head(t)) \o Tail(t))[i]
          = IF i <= Len(s) + 1 THEN Append(s, Head(t))[i]
                               ELSE Tail(t)[i - (Len(s) + 1)]
    BY <1>1, <1>2, <2>1, ConcatProperties
  <2>4. CASE i <= Len(s)
    BY <1>1, <2>1, <2>2, <2>3, <2>4, AppendProperties
  <2>5. CASE i = Len(s) + 1
    <3>1. Append(s, Head(t))[i] = Head(t)
      BY <1>1, <2>5, AppendProperties
    <3>2. Head(t) = t[1]
      OBVIOUS
    <3>3. QED
      BY <2>1, <2>2, <2>3, <2>5, <3>1, <3>2
  <2>6. CASE i > Len(s) + 1
    <3>1. i - (Len(s) + 1) \in 1..Len(Tail(t))
      BY <1>1, <2>1, <2>6
    <3>2. Tail(t)[i - (Len(s) + 1)] = t[i - Len(s)]
      BY <2>1, <3>1, HeadTailProperties
    <3>3. QED
      BY <2>1, <2>2, <2>3, <2>6, <3>2
  <2>7. QED
    BY <2>1, <2>4, <2>5, <2>6
<1>5. QED
  BY <1>3, <1>4, SeqEqual

\* A sequence without the part in the middle is in order if it was before.
LEMMA CutMiddle ==
  ASSUME NEW S, NEW s \in Seq(S), NEW m \in Seq(S), NEW t \in Seq(S),
         NEW n \in Nat, S \subseteq Nat,
         \A i, j \in 1..Len(s \o m \o t) :
           i < j => (s \o m \o t)[i] < (s \o m \o t)[j],
         \A i \in 1..Len(s \o m \o t) : (s \o m \o t)[i] <= n
  PROVE  /\ \A i, j \in 1..Len(s \o t) : i < j => (s \o t)[i] < (s \o t)[j]
         /\ \A i \in 1..Len(s \o t) : (s \o t)[i] <= n
<1> DEFINE whole == s \o m \o t
           cut == s \o t
           place(i) == IF i <= Len(s) THEN i ELSE i + Len(m)
<1>1. Len(s) \in Nat /\ Len(m) \in Nat /\ Len(t) \in Nat
  BY LenProperties
<1>2. /\ s \o m \in Seq(S) /\ Len(s \o m) = Len(s) + Len(m)
      /\ Len(whole) = Len(s) + Len(m) + Len(t)
      /\ Len(cut) = Len(s) + Len(t)
  BY <1>1, ConcatProperties
<1>3. ASSUME NEW i \in 1..Len(cut)
      PROVE  place(i) \in 1..Len(whole) /\ cut[i] = whole[place(i)]
  <2>1. place(i) \in 1..Len(whole)
    BY <1>1, <1>2
  <2>2. cut[i] = IF i <= Len(s) THEN s[i] ELSE t[i - Len(s)]
    BY <1>1, <1>2, ConcatProperties
  <2>3. whole[place(i)] = IF place(i) <= Len(s) + Len(m)
                            THEN (s \o m)[place(i)]
                            ELSE t[place(i) - (Len(s) + Len(m))]
    BY <1>1, <1>2, <2>1, ConcatProperties
  <2>4. CASE i <= Len(s)
    <3>1. i \in 1..Len(s \o m)
      BY <1>1, <1>2, <2>4
    <3>2. (s \o m)[i] = s[i]
      BY <1>1, <1>2, <2>4, <3>1, ConcatProperties
    <3>3. place(i) = i /\ place(i) <= Len(s) + Len(m)
      BY <1>1, <1>2, <2>4
    <3> QED
      BY <2>1, <2>2, <2>3, <2>4, <3>2, <3>3
  <2>5. CASE i > Len(s)
    <3>1. place(i) = i + Len(m) /\ ~(place(i) <= Len(s) + Len(m))
      BY <1>1, <1>2, <2>5
    <3>2. place(i) - (Len(s) + Len(m)) = i - Len(s)
      BY <1>1, <1>2, <3>1
    <3> QED
      BY <1>1, <1>2, <2>1, <2>2, <2>3, <2>5, <3>1, <3>2
  <2> QED
    BY <1>1, <1>2, <2>4, <2>5
<1>4. \A i, j \in 1..Len(cut) : i < j => place(i) < place(j)
  BY <1>1, <1>2
<1> HIDE DEF whole, cut, place
<1>5. /\ \A i, j \in 1..Len(cut) : i < j => cut[i] < cut[j]
      /\ \A i \in 1..Len(cut) : cut[i] <= n
  <2>1. /\ \A i, j \in 1..Len(whole) : i < j => whole[i] < whole[j]
        /\ \A i \in 1..Len(whole) : whole[i] <= n
    BY DEF whole
  <2> QED
    BY <1>3, <1>4, <2>1
<1> QED
  BY <1>5 DEF cut

\* A sequence in order whose elements are at most n stays so when a greater
\* element replaces the last.
LEMMA ReplaceLast ==
  ASSUME NEW S, NEW s \in Seq(S), NEW t \in Seq(S), t # <<>>,
         NEW n \in Nat, NEW e \in S, n < e, S \subseteq Nat,
         \A i, j \in 1..Len(s \o t) : i < j => (s \o t)[i] < (s \o t)[j],
         \A i \in 1..Len(s \o t) : (s \o t)[i] <= n
  PROVE  LET new == s \o [t EXCEPT ![Len(t)] = e]
         IN  /\ \A i, j \in 1..Len(new) : i < j => new[i] < new[j]
             /\ \A i \in 1..Len(new) : new[i] <= e
<1> DEFINE u == [t EXCEPT ![Len(t)] = e]
           old == s \o t
           new == s \o u
<1>1. Len(s) \in Nat /\ Len(t) \in Nat \ {0} /\ Len(t) \in 1..Len(t)
  BY LenProperties, EmptySeq
<1>2. /\ u \in Seq(S) /\ Len(u) = Len(t)
      /\ \A i \in 1..Len(t) : u[i] = IF i = Len(t) THEN e ELSE t[i]
  BY <1>1, ExceptSeq
<1> HIDE DEF u
<1>3. /\ Len(old) = Len(s) + Len(t) /\ Len(new) = Len(s) + Len(t)
      /\ \A i \in 1..Len(s) + Len(t) :
           old[i] = IF i <= Len(s) THEN s[i] ELSE t[i - Len(s)]
      /\ \A i \in 1..Len(s) + Len(t) :
           new[i] = IF i <= Len(s) THEN s[i] ELSE u[i - Len(s)]
  <2>1. u \in Seq(S) /\ Len(u) = Len(t)
    BY <1>2
  <2>2. /\ Len(old) = Len(s) + Len(t)
        /\ \A i \in 1..Len(s) + Len(t) :
             old[i] = IF i <= Len(s) THEN s[i] ELSE t[i - Len(s)]
    BY ONLY s \in Seq(S), t \in Seq(S), ConcatProperties
  <2>3. /\ Len(new) = Len(s) + Len(u)
        /\ \A i \in 1..Len(s) + Len(u) :
             new[i] = IF i <= Len(s) THEN s[i] ELSE u[i - Len(s)]
    BY ONLY s \in Seq(S), <2>1, ConcatProperties
  <2> QED
    BY <2>1, <2>2, <2>3
<1>4. \A i \in 1..Len(old) : old[i] \in Nat
  <2>1. old \in Seq(S)
    BY ConcatProperties
  <2> QED
    BY <2>1, ElementOfSeq
<1>5. ASSUME NEW i \in 1..Len(old)
      PROVE  new[i] = IF i = Len(old) THEN e ELSE old[i]
  <2>1. CASE i <= Len(s)
    BY <1>1, <1>3, <2>1
  <2>2. CASE i > Len(s)
    <3>1. i - Len(s) \in 1..Len(t) /\ (i - Len(s) = Len(t) <=> i = Len(old))
      BY <1>1, <1>3, <2>2
    <3>2. i \in 1..Len(s) + Len(t) /\ ~ (i <= Len(s))
      BY <1>1, <1>3, <2>2
    <3>3. old[i] = t[i - Len(s)] /\ new[i] = u[i - Len(s)]
      BY ONLY <1>3, <3>2
    <3>4. u[i - Len(s)] = IF i - Len(s) = Len(t) THEN e ELSE t[i - Len(s)]
      BY ONLY <1>2, <3>1
    <3> QED
      BY ONLY <3>1, <3>3, <3>4
  <2> QED
    BY <1>1, <1>3, <2>1, <2>2
<1>6. Len(new) = Len(old) /\ Len(old) \in Nat /\ e \in Nat
  BY <1>1, <1>3
<1>7. /\ \A i, j \in 1..Len(old) : i < j => old[i] < old[j]
      /\ \A i \in 1..Len(old) : old[i] <= n
  OBVIOUS
<1> HIDE DEF old, new
<1>8. /\ \A i, j \in 1..Len(new) : i < j => new[i] < new[j]
      /\ \A i \in 1..Len(new) : new[i] <= e
  <2>1. ASSUME NEW i \in 1..Len(new)
        PROVE  /\ i # Len(old) => new[i] = old[i]
               /\ i = Len(old) => new[i] = e
               /\ old[i] \in Nat /\ old[i] <= n
    BY ONLY <1>4, <1>5, <1>6, <1>7, <2>1
  <2>2. ASSUME NEW i \in 1..Len(new)
        PROVE  new[i] <= e
    BY ONLY <1>6, <2>1, n \in Nat, n < e, i \in 1..Len(new)
  <2>3. ASSUME NEW i \in 1..Len(new), NEW j \in 1..Len(new), i < j
        PROVE  new[i] < new[j]
    <3>1. i # Len(old) /\ new[i] = old[i] /\ old[i] <= n
      BY <1>6, <2>1, <2>3
    <3>2. CASE j = Len(old)
      BY <1>6, <2>1, <3>1, <3>2
    <3>3. CASE j # Len(old)
      BY <1>6, <1>7, <2>1, <2>3, <3>1, <3>3
    <3> QED
      BY <3>2, <3>3
  <2> QED
    BY <2>2, <2>3
<1> QED
  BY <1>8 DEF new, u

\* A sequence in order whose elements are at most n stays so when n + 1 is
\* appended.
LEMMA AppendNext ==
  ASSUME NEW S, NEW s \in Seq(S), NEW n \in Nat, n + 1 \in S, S \subseteq Nat,
         \A i, j \in 1..Len(s) : i < j => s[i] < s[j],
         \A i \in 1..Len(s) : s[i] <= n
  PROVE  LET new == Append(s, n + 1)
         IN  /\ \A i, j \in 1..Len(new) : i < j => new[i] < new[j]
             /\ \A i \in 1..Len(new) : new[i] <= n + 1
<1> DEFINE new == Append(s, n + 1)
<1>1. /\ Len(s) \in Nat /\ Len(new) = Len(s) + 1
      /\ \A i \in 1..Len(s) : new[i] = s[i]
      /\ new[Len(s) + 1] = n + 1
  BY AppendProperties, LenProperties
<1>2. \A i \in 1..Len(s) : s[i] \in Nat
  BY ElementOfSeq
<1> HIDE DEF new
<1>3. \A i \in 1..Len(new) :
        \/ i \in 1..Len(s) /\ new[i] = s[i]
        \/ i = Len(s) + 1 /\ new[i] = n + 1
  BY <1>1
<1>4. /\ \A i, j \in 1..Len(new) : i < j => new[i] < new[j]
      /\ \A i \in 1..Len(new) : new[i] <= n + 1
  BY <1>1, <1>2, <1>3
<1> QED
  BY <1>4 DEF new

-----------------------------------------------------------------------------
\* Concatenations may be regrouped.
LEMMA Regroup ==
  ASSUME NEW a \in Seq(Nat), NEW b \in Seq(Nat), NEW c \in Seq(Nat)
  PROVE  (a \o b) \o c = a \o (b \o c)
BY ConcatAssociative, SMTT(60)

\* A selection that leaves nothing out is the whole.
LEMMA SelectAll ==
  ASSUME NEW front \in Seq(Nat), NEW sel \in Seq(Nat), NEW way \in Seq(Nat),
         Len(sel) = Len(way), Len(way) = Len(front),
         \A i \in 1..Len(way) : sel[i] = front[way[i]],
         \A i \in 1..Len(front) : way[i] = i
  PROVE  sel = front
<1>1. ASSUME NEW i \in 1..Len(sel)
      PROVE  sel[i] = front[i]
  <2>1. sel[i] = front[way[i]] /\ way[i] = i
    OBVIOUS
  <2> QED
    BY ONLY <2>1, Zenon
<1> QED
  BY <1>1, SeqEqual

\* A sequence in order stays so when some of its front part is left out.
LEMMA SelectFront ==
  ASSUME NEW front \in Seq(Nat), NEW rest \in Seq(Nat),
         NEW way \in Seq(Nat), NEW sel \in Seq(Nat), Len(sel) = Len(way),
         \A i \in 1..Len(way) :
           way[i] \in 1..Len(front) /\ sel[i] = front[way[i]],
         \A i, j \in 1..Len(way) : i < j => way[i] < way[j],
         \A i, j \in 1..Len(front \o rest) :
           i < j => (front \o rest)[i] < (front \o rest)[j]
  PROVE  \A i, j \in 1..Len(sel \o rest) :
           i < j => (sel \o rest)[i] < (sel \o rest)[j]
<1> DEFINE whole == front \o rest
           cut == sel \o rest
           place(i) == IF i <= Len(sel) THEN way[i] ELSE i - Len(sel) + Len(front)
<1>1. /\ Len(front) \in Nat /\ Len(rest) \in Nat /\ Len(sel) \in Nat
      /\ Len(way) \in Nat
  BY LenProperties
<1>2. /\ Len(whole) = Len(front) + Len(rest)
      /\ \A i \in 1..(Len(front) + Len(rest)) :
           whole[i] = IF i <= Len(front) THEN front[i] ELSE rest[i - Len(front)]
  BY ConcatProperties
<1>3. /\ Len(cut) = Len(sel) + Len(rest)
      /\ \A i \in 1..(Len(sel) + Len(rest)) :
           cut[i] = IF i <= Len(sel) THEN sel[i] ELSE rest[i - Len(sel)]
  BY ConcatProperties
<1>4. \A i, j \in 1..Len(whole) : i < j => whole[i] < whole[j]
  OBVIOUS
<1> HIDE DEF whole, cut
<1>0. \A k \in 1..Len(front) :
        k \in 1..(Len(front) + Len(rest)) /\ whole[k] = front[k]
  BY ONLY <1>1, <1>2
<1>5. ASSUME NEW i \in 1..Len(cut)
      PROVE  place(i) \in 1..Len(whole) /\ cut[i] = whole[place(i)]
  <2>1. CASE i <= Len(sel)
    <3>1. i \in 1..Len(way) /\ i \in 1..(Len(sel) + Len(rest))
      BY <1>1, <1>3, <2>1
    <3>2. /\ way[i] \in 1..Len(front) /\ sel[i] = front[way[i]]
          /\ cut[i] = sel[i]
      BY <1>3, <2>1, <3>1
    <3>3. /\ way[i] \in 1..(Len(front) + Len(rest))
          /\ whole[way[i]] = front[way[i]]
      BY ONLY <1>0, <3>2, Zenon
    <3>4. place(i) = way[i]
      BY ONLY <2>1
    <3> QED
      BY ONLY <1>2, <3>2, <3>3, <3>4
  <2>2. CASE ~(i <= Len(sel))
    <3>1. /\ i \in 1..(Len(sel) + Len(rest))
          /\ place(i) \in 1..(Len(front) + Len(rest))
          /\ ~(place(i) <= Len(front))
          /\ place(i) - Len(front) = i - Len(sel)
      BY <1>1, <1>3, <2>2
    <3> HIDE DEF place
    <3>2. cut[i] = rest[i - Len(sel)] /\ whole[place(i)] = rest[i - Len(sel)]
      BY <1>2, <1>3, <2>2, <3>1
    <3> QED
      BY <1>2, <3>1, <3>2
  <2> QED
    BY <2>1, <2>2
<1>6. ASSUME NEW i \in 1..Len(cut), NEW j \in 1..Len(cut), i < j
      PROVE  place(i) < place(j)
  <2>1. CASE j <= Len(sel)
    <3>1. i \in 1..Len(way) /\ j \in 1..Len(way) /\ i <= Len(sel)
      BY <1>1, <1>3, <1>6, <2>1
    <3> QED
      BY <1>6, <2>1, <3>1
  <2>2. CASE ~(j <= Len(sel)) /\ i <= Len(sel)
    <3>1. i \in 1..Len(way) /\ Len(front) < j - Len(sel) + Len(front)
      BY <1>1, <1>3, <2>2
    <3>2. way[i] \in 1..Len(front)
      BY <3>1
    <3>3. way[i] < j - Len(sel) + Len(front)
      BY ONLY <1>1, <1>3, <1>6, <3>1, <3>2, j \in 1..Len(cut)
    <3>4. place(i) = way[i] /\ place(j) = j - Len(sel) + Len(front)
      BY ONLY <2>2
    <3> QED
      BY ONLY <3>3, <3>4
  <2>3. CASE ~(j <= Len(sel)) /\ ~(i <= Len(sel))
    BY <1>1, <1>3, <1>6, <2>3
  <2> QED
    BY <2>1, <2>2, <2>3
<1> HIDE DEF place
<1>7. \A i, j \in 1..Len(cut) : i < j => cut[i] < cut[j]
  BY ONLY <1>4, <1>5, <1>6
<1> QED
  BY <1>7 DEF cut
=============================================================================
