---------------------------- MODULE SequenceFacts ----------------------------
(***************************************************************************)
(* Facts about sequences that are appended, flattened and compared.  What  *)
(* holds of every length is proved from the least length at which it would *)
(* not (Least), which makes induction a statement about a set of numbers   *)
(* (Upwards).                                                              *)
(***************************************************************************)
EXTENDS SequencesExt, Integers, SequenceTheorems, FiniteSetTheorems, WellFoundedInduction, TLAPS

\* s is a sequence, whatever its elements.
IsSeq(s) == s \in Seq(ToSet(s))

-----------------------------------------------------------------------------
(* Numbers.                                                                *)

\* A set of numbers has a least one.
LEMMA Least ==
    ASSUME NEW T, T \subseteq Nat, T # {}
    PROVE  \E x \in T : \A y \in T : x <= y
  <1>1. IsWellFoundedOn(OpToRel(<, Nat), Nat)
    BY NatLessThanWellFounded
  <1>2. PICK x \in T : \A y \in T : ~ (<<y, x>> \in OpToRel(<, Nat))
    BY <1>1, WFMin
  <1>3. \A y \in T : ~(y < x)
    BY <1>2 DEF OpToRel
  <1>4. QED
    BY <1>3

\* A set with 0, and with the successor of each number in it, has them all.
LEMMA Upwards ==
    ASSUME NEW T, 0 \in T, \A k \in Nat : k \in T => k + 1 \in T
    PROVE  Nat \subseteq T
  <1> DEFINE Bad == Nat \ T
  <1> SUFFICES ASSUME Bad # {} PROVE FALSE
    OBVIOUS
  <1>1. PICK k \in Bad : \A j \in Bad : k <= j
    <2>1. Bad \subseteq Nat
      OBVIOUS
    <2> HIDE DEF Bad
    <2>2. QED
      BY <2>1, Least
  <1>2. k # 0 /\ k - 1 \in Nat /\ k - 1 \notin Bad
    BY <1>1
  <1>3. QED
    BY <1>2

\* Induction in the form it is needed here: a set that has 1, and k + 1 with k,
\* has all of 1..n.
LEMMA UpTo ==
    ASSUME NEW n \in Nat, NEW T, 1 \in T, \A k \in 1..(n - 1) : k \in T => k + 1 \in T
    PROVE  1..n \subseteq T
  <1> DEFINE Good == {k \in Nat : k \in 1..n => k \in T}
  <1>1. 0 \in Good
    OBVIOUS
  <1>2. ASSUME NEW k \in Nat, k \in Good PROVE k + 1 \in Good
    <2>1. CASE k = 0
      BY <2>1
    <2>2. CASE k \in 1..(n - 1)
      BY <1>2, <2>2
    <2>3. CASE k >= n
      BY <2>3
    <2>4. QED
      BY <2>1, <2>2, <2>3
  <1>3. Nat \subseteq Good
    <2> HIDE DEF Good
    <2>1. QED
      BY <1>1, <1>2, Upwards
  <1>4. QED
    BY <1>3

-----------------------------------------------------------------------------
(* Elements and concatenation.                                             *)

\* A sequence is a function on 1..Len(s).
LEMMA SeqFacts ==
    ASSUME NEW s, IsSeq(s)
    PROVE  /\ Len(s) \in Nat
           /\ DOMAIN s = 1..Len(s)
           /\ \A S : ToSet(s) \subseteq S => s \in Seq(S)
  BY DEF IsSeq, ToSet

\* ToSet, element by element.
LEMMA Elements ==
    ASSUME NEW s, IsSeq(s)
    PROVE  /\ \A i \in 1..Len(s) : s[i] \in ToSet(s)
           /\ \A x \in ToSet(s) : \E i \in 1..Len(s) : x = s[i]
  BY SeqFacts DEF ToSet

\* A member of Seq(S) is a sequence of elements of S.
LEMMA SeqFromSet ==
    ASSUME NEW S, NEW s \in Seq(S)
    PROVE  IsSeq(s) /\ ToSet(s) \subseteq S
  BY DEF IsSeq, ToSet

\* The sequences of no, one, two and three elements.
LEMMA EmptyIsSeq == IsSeq(<<>>) /\ ToSet(<<>>) = {}
  BY DEF IsSeq, ToSet

\* Of one.
LEMMA OneIsSeq == \A x : IsSeq(<<x>>) /\ ToSet(<<x>>) = {x}
  BY DEF IsSeq, ToSet

\* Of two.
LEMMA TwoIsSeq == \A x, y : IsSeq(<<x, y>>) /\ ToSet(<<x, y>>) = {x, y}
  BY DEF IsSeq, ToSet

\* Of three.
LEMMA ThreeIsSeq == \A x, y, z : IsSeq(<<x, y, z>>)
  BY DEF IsSeq, ToSet

\* A function on 1..n is a sequence.
LEMMA FunctionIsSeq ==
    ASSUME NEW n \in Nat, NEW f, f = [i \in 1..n |-> f[i]]
    PROVE  IsSeq(f) /\ Len(f) = n
  <1>1. ToSet(f) = {f[i] : i \in 1..n}
    BY DEF ToSet
  <1>2. f \in [1..n -> ToSet(f)]
    BY <1>1
  <1>3. QED
    BY <1>2 DEF IsSeq

\* Two sequences of one length with the same elements are equal.
LEMMA SeqEquality ==
    ASSUME NEW s, NEW t, IsSeq(s), IsSeq(t), Len(s) = Len(t),
           \A i \in 1..Len(s) : s[i] = t[i]
    PROVE  s = t
  <1>1. s \in Seq(ToSet(s) \cup ToSet(t)) /\ t \in Seq(ToSet(s) \cup ToSet(t))
    BY SeqFacts
  <1> HIDE DEF ToSet
  <1>2. QED
    BY <1>1

\* Length, elements and set of elements of s \o t.
LEMMA Concatenation ==
    ASSUME NEW s, NEW t, IsSeq(s), IsSeq(t)
    PROVE  /\ IsSeq(s \o t)
           /\ Len(s \o t) = Len(s) + Len(t)
           /\ \A i \in 1..Len(s) : (s \o t)[i] = s[i]
           /\ \A i \in 1..Len(t) : (s \o t)[Len(s) + i] = t[i]
           /\ ToSet(s \o t) = ToSet(s) \cup ToSet(t)
  <1> DEFINE S == ToSet(s) \cup ToSet(t)
  <1>1. s \in Seq(S) /\ t \in Seq(S)
    BY SeqFacts
  <1>2. /\ DOMAIN s = 1..Len(s) /\ DOMAIN t = 1..Len(t)
        /\ Len(s) \in Nat /\ Len(t) \in Nat
    BY SeqFacts
  <1> HIDE DEF S
  <1>3. /\ s \o t \in Seq(S)
        /\ Len(s \o t) = Len(s) + Len(t)
        /\ \A i \in 1..Len(s) : (s \o t)[i] = s[i]
        /\ \A i \in 1..Len(t) : (s \o t)[Len(s) + i] = t[i]
    BY <1>1
  <1>4. DOMAIN (s \o t) = 1..(Len(s) + Len(t))
    BY <1>3
  <1>5. ASSUME NEW x \in ToSet(s \o t) PROVE x \in ToSet(s) \cup ToSet(t)
    <2>1. PICK i \in 1..(Len(s) + Len(t)) : x = (s \o t)[i]
      BY <1>4 DEF ToSet
    <2>2. CASE i \in 1..Len(s)
      BY <1>2, <1>3, <2>1, <2>2 DEF ToSet
    <2>3. CASE i - Len(s) \in 1..Len(t)
      <3>1. i = Len(s) + (i - Len(s))
        BY <1>2
      <3>2. x = t[i - Len(s)]
        BY <1>3, <2>1, <2>3, <3>1
      <3>3. QED
        BY <1>2, <2>3, <3>2 DEF ToSet
    <2>4. QED
      BY <1>2, <2>2, <2>3
  <1>6. ASSUME NEW x \in ToSet(s) PROVE x \in ToSet(s \o t)
    <2>1. PICK i \in 1..Len(s) : x = s[i]
      BY <1>2 DEF ToSet
    <2>2. i \in 1..(Len(s) + Len(t)) /\ (s \o t)[i] = x
      BY <1>2, <1>3, <2>1
    <2>3. QED
      BY <1>4, <2>2 DEF ToSet
  <1>7. ASSUME NEW x \in ToSet(t) PROVE x \in ToSet(s \o t)
    <2>1. PICK i \in 1..Len(t) : x = t[i]
      BY <1>2 DEF ToSet
    <2>2. Len(s) + i \in 1..(Len(s) + Len(t)) /\ (s \o t)[Len(s) + i] = x
      BY <1>2, <1>3, <2>1
    <2>3. QED
      BY <1>4, <2>2 DEF ToSet
  <1>8. ToSet(s \o t) = ToSet(s) \cup ToSet(t)
    BY <1>5, <1>6, <1>7
  <1>9. IsSeq(s \o t)
    BY <1>3, SeqFromSet
  <1>10. QED
    BY <1>3, <1>8, <1>9

-----------------------------------------------------------------------------
(* Flattening.                                                             *)

\* The function by which FlattenSeq appends one sequence after the other.
LEMMA FlattenRecursion ==
    ASSUME NEW seqs, IsSeq(seqs), Len(seqs) > 0
    PROVE  \E f : /\ FlattenSeq(seqs) = f[Len(seqs)]
                  /\ f = [i \in 1..Len(seqs) |-> IF i = 1 THEN seqs[i] ELSE f[i-1] \o seqs[i]]
  <1> DEFINE n == Len(seqs)
             Up(g, k) == g = [i \in 1..k |-> IF i = 1 THEN seqs[i] ELSE g[i-1] \o seqs[i]]
             Good == {k \in Nat : \E g : Up(g, k)}
  <1>0. n \in Nat
    BY SeqFacts
  <1>1. 0 \in Good
    <2>1. Up([i \in 1..0 |-> seqs[i]], 0)
      OBVIOUS
    <2>2. QED
      BY <2>1
  <1>2. ASSUME NEW k \in Nat, k \in Good PROVE k + 1 \in Good
    <2>1. PICK g : Up(g, k)
      BY <1>2
    <2>2. \A i \in 1..k : g[i] = IF i = 1 THEN seqs[i] ELSE g[i-1] \o seqs[i]
      BY <2>1
    <2> DEFINE h == [i \in 1..(k + 1) |-> IF i = 1 THEN seqs[i] ELSE g[i-1] \o seqs[i]]
    <2>3. \A i \in 1..k : h[i] = g[i]
      <3>1. \A i \in 1..k : h[i] = IF i = 1 THEN seqs[i] ELSE g[i-1] \o seqs[i]
        OBVIOUS
      <3> HIDE DEF h
      <3>2. QED
        BY <2>2, <3>1
    <2>4. \A i \in 1..(k + 1) : i # 1 => i - 1 \in 1..k
      OBVIOUS
    <2>5. \A i \in 1..(k + 1) : h[i] = IF i = 1 THEN seqs[i] ELSE h[i-1] \o seqs[i]
      <3>1. \A i \in 1..(k + 1) : h[i] = IF i = 1 THEN seqs[i] ELSE g[i-1] \o seqs[i]
        OBVIOUS
      <3> HIDE DEF h
      <3>2. QED
        BY <2>3, <2>4, <3>1
    <2>6. h = [i \in 1..(k + 1) |-> h[i]]
      OBVIOUS
    <2> HIDE DEF h
    <2>7. Up(h, k + 1)
      BY <2>5, <2>6
    <2> HIDE DEF Up
    <2>8. QED
      BY <2>7
  <1>3. n \in Good
    <2> HIDE DEF Good, n
    <2>1. QED
      BY <1>0, <1>1, <1>2, Upwards
  <1>4. \E g : Up(g, n)
    BY <1>3
  <1>5. Up(CHOOSE g : Up(g, n), n)
    BY <1>4
  <1>6. FlattenSeq(seqs) = (CHOOSE g : Up(g, n))[n]
    BY DEF FlattenSeq
  <1>7. QED
    BY <1>5, <1>6

\* f[k] is what the first k sequences are, flattened.
LEMMA FlattenPrefixes ==
    ASSUME NEW seqs, IsSeq(seqs), Len(seqs) > 0
    PROVE  \E f : /\ FlattenSeq(seqs) = f[Len(seqs)]
                 /\ f[1] = seqs[1]
                 /\ \A k \in 1..(Len(seqs) - 1) : f[k + 1] = f[k] \o seqs[k + 1]
  <1>1. Len(seqs) \in Nat
    BY SeqFacts
  <1>2. PICK f : /\ FlattenSeq(seqs) = f[Len(seqs)]
                 /\ f = [i \in 1..Len(seqs) |-> IF i = 1 THEN seqs[i] ELSE f[i-1] \o seqs[i]]
    BY FlattenRecursion
  <1>3. \A i \in 1..Len(seqs) : f[i] = IF i = 1 THEN seqs[i] ELSE f[i-1] \o seqs[i]
    BY <1>2
  <1>4. f[1] = seqs[1]
    <2>1. 1 \in 1..Len(seqs)
      BY <1>1
    <2>2. QED
      BY <1>3, <2>1
  <1>5. ASSUME NEW k \in 1..(Len(seqs) - 1) PROVE f[k + 1] = f[k] \o seqs[k + 1]
    <2>1. k + 1 \in 1..Len(seqs) /\ k + 1 # 1 /\ (k + 1) - 1 = k
      BY <1>1
    <2>2. QED
      BY <1>3, <2>1
  <1>6. QED
    BY <1>2, <1>4, <1>5

\* The elements of the sequences, and no others.
LEMMA Flattening ==
    ASSUME NEW seqs, IsSeq(seqs), \A i \in 1..Len(seqs) : IsSeq(seqs[i])
    PROVE  /\ IsSeq(FlattenSeq(seqs))
           /\ ToSet(FlattenSeq(seqs)) = UNION {ToSet(seqs[i]) : i \in 1..Len(seqs)}
  <1>0. Len(seqs) \in Nat
    BY SeqFacts
  <1>1. CASE Len(seqs) = 0
    <2>1. seqs = <<>>
      BY <1>1, EmptyIsSeq, SeqEquality
    <2>2. FlattenSeq(seqs) = <<>>
      BY <2>1, <1>1 DEF FlattenSeq
    <2>3. QED
      BY <1>1, <2>2, EmptyIsSeq
  <1>2. CASE Len(seqs) > 0
    <2>1. PICK f : /\ FlattenSeq(seqs) = f[Len(seqs)]
                   /\ f[1] = seqs[1]
                   /\ \A k \in 1..(Len(seqs) - 1) : f[k + 1] = f[k] \o seqs[k + 1]
      BY <1>2, FlattenPrefixes
    <2> DEFINE Of(k) == UNION {ToSet(seqs[i]) : i \in 1..k}
               T == {k \in 1..Len(seqs) : IsSeq(f[k]) /\ ToSet(f[k]) = Of(k)}
    <2>2. 1 \in T
      BY <1>0, <1>2, <2>1
    <2>3. ASSUME NEW k \in 1..(Len(seqs) - 1), k \in T PROVE k + 1 \in T
      <3> DEFINE u == seqs[k + 1]
                 s == f[k]
      <3>1. IsSeq(s) /\ IsSeq(u) /\ k + 1 \in 1..Len(seqs)
        BY <1>0, <2>3
      <3>2. IsSeq(s \o u) /\ ToSet(s \o u) = ToSet(s) \cup ToSet(u)
        <4> HIDE DEF s, u
        <4>1. QED
          BY <3>1, Concatenation
      <3>3. Of(k + 1) = Of(k) \cup ToSet(u)
        BY <1>0
      <3>4. f[k + 1] = s \o u /\ ToSet(s) = Of(k)
        BY <2>1, <2>3
      <3> HIDE DEF Of, s, u
      <3>5. QED
        BY <3>1, <3>2, <3>3, <3>4
    <2>4. Len(seqs) \in T
      <3>1. 1..Len(seqs) \subseteq T
        <4> HIDE DEF T
        <4>1. QED
          BY <1>0, <2>2, <2>3, UpTo
      <3> HIDE DEF T
      <3>2. QED
        BY <1>0, <1>2, <3>1
    <2>5. QED
      BY <2>1, <2>4
  <1>3. QED
    BY <1>0, <1>1, <1>2

-----------------------------------------------------------------------------
(* Concat, as it expands: one list per element of s, flattened.            *)

\* f is op(s[1]), op(s[2]), ... .
IsMap(f, s) == f = [i \in DOMAIN s |-> f[i]] /\ \A i \in 1..Len(s) : IsSeq(f[i])

\* What FlattenSeq of a list per element is: a sequence of the elements of
\* those lists.
LEMMA MapElements ==
    ASSUME NEW s, IsSeq(s), NEW f, IsMap(f, s)
    PROVE  /\ IsSeq(FlattenSeq(f))
           /\ \A x : x \in ToSet(FlattenSeq(f)) <=> \E i \in 1..Len(s) : x \in ToSet(f[i])
  <1>1. Len(s) \in Nat /\ DOMAIN s = 1..Len(s)
    BY SeqFacts
  <1>2. IsSeq(f) /\ Len(f) = Len(s)
    <2>1. f = [i \in 1..Len(s) |-> f[i]]
      BY <1>1 DEF IsMap
    <2>2. QED
      BY <1>1, <2>1, FunctionIsSeq
  <1>3. /\ IsSeq(FlattenSeq(f))
        /\ ToSet(FlattenSeq(f)) = UNION {ToSet(f[i]) : i \in 1..Len(s)}
    BY <1>2, Flattening DEF IsMap
  <1>4. QED
    BY <1>3

\* Where, as it expands: f[i] is s[i] alone, or nothing.
LEMMA FilterElements ==
    ASSUME NEW s, IsSeq(s), NEW f, IsMap(f, s), NEW T, T \subseteq ToSet(s),
           \A i \in 1..Len(s) : ToSet(f[i]) = IF s[i] \in T THEN {s[i]} ELSE {}
    PROVE  IsSeq(FlattenSeq(f)) /\ ToSet(FlattenSeq(f)) = T
  <1>1. /\ IsSeq(FlattenSeq(f))
        /\ \A x : x \in ToSet(FlattenSeq(f)) <=> \E i \in 1..Len(s) : x \in ToSet(f[i])
    BY MapElements
  <1>2. \A x \in ToSet(s) : \E i \in 1..Len(s) : x = s[i]
    BY SeqFacts DEF ToSet
  <1>3. ASSUME NEW x \in T PROVE \E i \in 1..Len(s) : x \in ToSet(f[i])
    <2>1. PICK i \in 1..Len(s) : x = s[i]
      BY <1>2
    <2>2. ToSet(f[i]) = {x}
      BY <2>1
    <2>3. QED
      BY <2>2
  <1>4. ASSUME NEW i \in 1..Len(s), NEW x \in ToSet(f[i]) PROVE x \in T
    OBVIOUS
  <1>5. QED
    BY <1>1, <1>3, <1>4

\* g says where in s the elements of u come from: in order, and exactly those of
\* the first k whose list is not empty.
Picks(g, u, s, f, k) ==
    /\ \A i \in 1..Len(u) : g[i] \in 1..k /\ f[g[i]] # <<>> /\ u[i] = s[g[i]]
    /\ \A i, j \in 1..Len(u) : i < j => g[i] < g[j]
    /\ \A m \in 1..k : f[m] # <<>> => \E i \in 1..Len(u) : g[i] = m

\* One element more.
LEMMA PicksNext ==
    ASSUME NEW u, IsSeq(u), NEW s, NEW f, NEW k \in Nat, NEW g, Picks(g, u, s, f, k),
           f[k + 1] \in {<<>>, <<s[k + 1]>>}
    PROVE  \E h : Picks(h, u \o f[k + 1], s, f, k + 1)
  <1>0. Len(u) \in Nat
    BY SeqFacts
  <1>1. CASE f[k + 1] = <<>>
    <2>1. IsSeq(u \o <<>>) /\ Len(u \o <<>>) = Len(u) /\ \A i \in 1..Len(u) : (u \o <<>>)[i] = u[i]
      BY <1>0, EmptyIsSeq, Concatenation
    <2>2. \A m \in 1..(k + 1) : m \in 1..k \/ m = k + 1
      OBVIOUS
    <2>3. \A m \in 1..k : m \in 1..(k + 1)
      OBVIOUS
    <2>4. Picks(g, u \o <<>>, s, f, k + 1)
      BY <1>1, <2>1, <2>2, <2>3 DEF Picks
    <2>5. QED
      BY <1>1, <2>4
  <1>2. CASE f[k + 1] = <<s[k + 1]>>
    <2> DEFINE n == Len(u)
               x == s[k + 1]
               v == u \o <<x>>
               h == [i \in 1..(n + 1) |-> IF i = n + 1 THEN k + 1 ELSE g[i]]
    <2>1. Len(v) = n + 1 /\ \A i \in 1..n : v[i] = u[i]
      BY OneIsSeq, Concatenation
    <2>2. v[n + 1] = x
      <3>1. 1 \in 1..Len(<<x>>) /\ <<x>>[1] = x
        OBVIOUS
      <3> HIDE DEF x
      <3>2. QED
        BY <3>1, OneIsSeq, Concatenation
    <2>3. /\ \A i \in 1..n : h[i] = g[i] /\ i \in 1..(n + 1) /\ i < n + 1
          /\ h[n + 1] = k + 1 /\ n + 1 \in 1..(n + 1)
          /\ \A i \in 1..(n + 1) : i \in 1..n \/ i = n + 1
      BY <1>0
    <2>4. /\ \A m \in 1..k : m \in 1..(k + 1) /\ m < k + 1
          /\ \A m \in 1..(k + 1) : m \in 1..k \/ m = k + 1
          /\ k + 1 \in 1..(k + 1)
      OBVIOUS
    <2>5. f[k + 1] # <<>>
      <3>1. Len(<<x>>) = 1 /\ Len(<<>>) = 0
        OBVIOUS
      <3>2. QED
        BY <1>2, <3>1
    <2> HIDE DEF h, v, x, n
    <2>6. ASSUME NEW i \in 1..(n + 1)
          PROVE  h[i] \in 1..(k + 1) /\ f[h[i]] # <<>> /\ v[i] = s[h[i]]
      <3>1. CASE i \in 1..n
        BY <2>1, <2>3, <2>4, <3>1 DEF Picks, n
      <3>2. CASE i = n + 1
        BY <2>2, <2>3, <2>4, <2>5, <3>2 DEF x
      <3>3. QED
        BY <2>3, <3>1, <3>2
    <2>7. ASSUME NEW i \in 1..(n + 1), NEW j \in 1..(n + 1), i < j
          PROVE  h[i] < h[j]
      <3>1. i \in 1..n
        BY <1>0, <2>7 DEF n
      <3>2. CASE j \in 1..n
        BY <2>3, <2>7, <3>1, <3>2 DEF Picks, n
      <3>3. CASE j = n + 1
        <4>1. g[i] \in 1..k
          BY <3>1 DEF Picks, n
        <4>2. QED
          BY <2>3, <2>4, <3>1, <3>3, <4>1
      <3>4. QED
        BY <2>3, <3>2, <3>3
    <2>8. ASSUME NEW m \in 1..(k + 1), f[m] # <<>>
          PROVE  \E i \in 1..(n + 1) : h[i] = m
      <3>1. CASE m \in 1..k
        <4>1. PICK i \in 1..n : g[i] = m
          BY <2>8, <3>1 DEF Picks, n
        <4>2. QED
          BY <2>3, <4>1
      <3>2. CASE m = k + 1
        BY <2>3, <3>2
      <3>3. QED
        BY <2>4, <3>1, <3>2
    <2>9. Picks(h, v, s, f, k + 1)
      BY <2>1, <2>6, <2>7, <2>8 DEF Picks
    <2>10. QED
      BY <1>2, <2>9 DEF v, x
  <1>3. QED
    BY <1>1, <1>2

\* Where keeps the order: what it leaves comes from increasing places.
LEMMA FilterIndex ==
    ASSUME NEW s, IsSeq(s), NEW f, IsMap(f, s), \A i \in 1..Len(s) : f[i] \in {<<>>, <<s[i]>>}
    PROVE  \E g : Picks(g, FlattenSeq(f), s, f, Len(s))
  <1>1. Len(s) \in Nat /\ DOMAIN s = 1..Len(s)
    BY SeqFacts
  <1>2. IsSeq(f) /\ Len(f) = Len(s)
    <2>1. f = [i \in 1..Len(s) |-> f[i]]
      BY <1>1 DEF IsMap
    <2>2. QED
      BY <1>1, <2>1, FunctionIsSeq
  <1>3. CASE Len(s) = 0
    <2>1. IsSeq(FlattenSeq(f)) /\ ToSet(FlattenSeq(f)) = {}
      <3>1. 1..Len(s) = {}
        BY <1>3
      <3>2. QED
        BY <3>1, MapElements
    <2>2. Len(FlattenSeq(f)) = 0
      BY <2>1, SeqFacts, Elements
    <2>3. Picks(<<>>, FlattenSeq(f), s, f, Len(s))
      BY <1>3, <2>2 DEF Picks
    <2>4. QED
      BY <2>3
  <1>4. CASE Len(s) > 0
    <2>0. Len(f) > 0
      BY <1>2, <1>4
    <2>1. PICK p : /\ FlattenSeq(f) = p[Len(f)]
                   /\ p[1] = f[1]
                   /\ \A k \in 1..(Len(f) - 1) : p[k + 1] = p[k] \o f[k + 1]
      BY <1>2, <2>0, FlattenPrefixes
    <2> DEFINE T == {k \in 1..Len(s) : IsSeq(p[k]) /\ \E g : Picks(g, p[k], s, f, k)}
    <2>2. 1 \in T
      <3>1. 1 \in 1..Len(s) /\ IsSeq(f[1])
        BY <1>1, <1>4 DEF IsMap
      <3>2. Picks(<<>>, <<>>, s, f, 0)
        BY DEF Picks
      <3>3. \E h : Picks(h, <<>> \o f[0 + 1], s, f, 0 + 1)
        <4>1. f[0 + 1] \in {<<>>, <<s[0 + 1]>>}
          BY <3>1
        <4> HIDE DEF Picks
        <4>2. QED
          BY <3>2, <4>1, EmptyIsSeq, PicksNext
      <3>4. <<>> \o f[1] = f[1]
        <4>1. Len(<<>>) = 0
          OBVIOUS
        <4>2. /\ IsSeq(<<>> \o f[1]) /\ Len(<<>> \o f[1]) = Len(f[1]) /\ Len(f[1]) \in Nat
              /\ \A i \in 1..Len(f[1]) : (<<>> \o f[1])[0 + i] = f[1][i]
          BY <3>1, <4>1, EmptyIsSeq, Concatenation, SeqFacts
        <4>3. \A i \in 1..Len(f[1]) : (<<>> \o f[1])[i] = f[1][i]
          <5>1. \A i \in 1..Len(f[1]) : 0 + i = i
            OBVIOUS
          <5>2. QED
            BY <4>2, <5>1
        <4>4. QED
          BY <3>1, <4>2, <4>3, SeqEquality
      <3>5. \E h : Picks(h, p[1], s, f, 1)
        BY <2>1, <3>3, <3>4
      <3>6. QED
        BY <2>1, <3>1, <3>5
    <2>3. ASSUME NEW k \in 1..(Len(s) - 1), k \in T PROVE k + 1 \in T
      <3>1. PICK g : IsSeq(p[k]) /\ Picks(g, p[k], s, f, k)
        BY <2>3
      <3>2. k \in Nat /\ k + 1 \in 1..Len(s)
        BY <1>1
      <3>3. f[k + 1] \in {<<>>, <<s[k + 1]>>} /\ IsSeq(f[k + 1])
        BY <3>2 DEF IsMap
      <3>4. \E h : Picks(h, p[k] \o f[k + 1], s, f, k + 1)
        BY <3>1, <3>2, <3>3, PicksNext
      <3>5. IsSeq(p[k] \o f[k + 1])
        BY <3>1, <3>3, Concatenation
      <3>6. p[k + 1] = p[k] \o f[k + 1]
        BY <1>2, <2>1
      <3>7. QED
        BY <3>2, <3>4, <3>5, <3>6
    <2>4. Len(s) \in T
      <3>1. 1..Len(s) \subseteq T
        <4> HIDE DEF T
        <4>1. QED
          BY <1>1, <2>2, <2>3, UpTo
      <3> HIDE DEF T
      <3>2. QED
        BY <1>1, <1>4, <3>1
    <2>5. QED
      BY <1>2, <2>1, <2>4
  <1>5. QED
    BY <1>1, <1>3, <1>4

\* If Where keeps everything, nothing changes.
LEMMA FilterAll ==
    ASSUME NEW s, IsSeq(s), NEW f, IsMap(f, s), \A i \in 1..Len(s) : f[i] = <<s[i]>>
    PROVE  FlattenSeq(f) = s
  <1>1. Len(s) \in Nat /\ DOMAIN s = 1..Len(s)
    BY SeqFacts
  <1>2. IsSeq(f) /\ Len(f) = Len(s)
    <2>1. f = [i \in 1..Len(s) |-> f[i]]
      BY <1>1 DEF IsMap
    <2>2. QED
      BY <1>1, <2>1, FunctionIsSeq
  <1>3. CASE Len(s) = 0
    <2>1. IsSeq(FlattenSeq(f)) /\ ToSet(FlattenSeq(f)) = {}
      <3>1. 1..Len(s) = {}
        BY <1>3
      <3>2. QED
        BY <3>1, MapElements
    <2>2. Len(FlattenSeq(f)) = 0
      BY <2>1, SeqFacts, Elements
    <2>3. QED
      BY <1>3, <2>1, <2>2, SeqEquality
  <1>4. CASE Len(s) > 0
    <2>0. Len(f) > 0
      BY <1>2, <1>4
    <2>1. PICK p : /\ FlattenSeq(f) = p[Len(f)]
                   /\ p[1] = f[1]
                   /\ \A k \in 1..(Len(f) - 1) : p[k + 1] = p[k] \o f[k + 1]
      BY <1>2, <2>0, FlattenPrefixes
    <2> DEFINE T == {k \in 1..Len(s) : /\ IsSeq(p[k]) /\ Len(p[k]) = k
                                       /\ \A i \in 1..k : p[k][i] = s[i]}
    <2>2. 1 \in T
      <3>1. 1 \in 1..Len(s)
        BY <1>1, <1>4
      <3>2. p[1] = <<s[1]>>
        BY <2>1, <3>1
      <3>3. Len(<<s[1]>>) = 1 /\ <<s[1]>>[1] = s[1]
        OBVIOUS
      <3>4. IsSeq(<<s[1]>>) /\ \A i \in 1..1 : i = 1
        BY OneIsSeq
      <3>5. QED
        BY <3>1, <3>2, <3>3, <3>4
    <2>3. ASSUME NEW k \in 1..(Len(s) - 1), k \in T PROVE k + 1 \in T
      <3> DEFINE x == s[k + 1]
                 u == p[k] \o <<x>>
      <3>1. IsSeq(p[k]) /\ Len(p[k]) = k /\ \A i \in 1..k : p[k][i] = s[i]
        BY <2>3
      <3>2. k \in Nat /\ k + 1 \in 1..Len(s)
        BY <1>1
      <3>3. p[k + 1] = u
        BY <1>2, <2>1, <3>2
      <3>4. IsSeq(<<x>>) /\ Len(<<x>>) = 1 /\ <<x>>[1] = x /\ 1 \in 1..1
        BY OneIsSeq
      <3>5. IsSeq(u) /\ Len(u) = k + 1 /\ (\A i \in 1..k : u[i] = s[i]) /\ u[k + 1] = x
        <4> DEFINE o == <<x>>
                   a == p[k]
        <4>1. IsSeq(o) /\ Len(o) = 1 /\ o[1] = x /\ IsSeq(a) /\ Len(a) = k
          BY <3>1, <3>4
        <4> HIDE DEF x, o, a
        <4>2. /\ IsSeq(a \o o) /\ Len(a \o o) = Len(a) + Len(o)
              /\ \A i \in 1..Len(a) : (a \o o)[i] = a[i]
              /\ \A i \in 1..Len(o) : (a \o o)[Len(a) + i] = o[i]
          <5>1. IsSeq(a)
            BY <4>1
          <5>2. IsSeq(o)
            BY <4>1
          <5>3. QED
            BY <5>1, <5>2, Concatenation
        <4>3. \A i \in 1..k : a[i] = s[i]
          BY <3>1 DEF a
        <4>4. QED
          BY <3>4, <4>1, <4>2, <4>3 DEF o, a
      <3>6. \A i \in 1..(k + 1) : i \in 1..k \/ i = k + 1
        OBVIOUS
      <3>7. \A i \in 1..(k + 1) : u[i] = s[i]
        <4> HIDE DEF u
        <4>1. QED
          BY <3>5, <3>6
      <3> HIDE DEF u
      <3>8. QED
        BY <3>2, <3>3, <3>5, <3>7
    <2>4. Len(s) \in T
      <3>1. 1..Len(s) \subseteq T
        <4> HIDE DEF T
        <4>1. QED
          BY <1>1, <2>2, <2>3, UpTo
      <3> HIDE DEF T
      <3>2. QED
        BY <1>1, <1>4, <3>1
    <2>5. /\ IsSeq(FlattenSeq(f)) /\ Len(FlattenSeq(f)) = Len(s)
          /\ \A i \in 1..Len(s) : FlattenSeq(f)[i] = s[i]
      BY <1>2, <2>1, <2>4
    <2>6. QED
      BY <2>5, SeqEquality
  <1>5. QED
    BY <1>1, <1>3, <1>4

-----------------------------------------------------------------------------
(* One element more, one less.                                             *)

\* A bounded set of numbers has a greatest one.
LEMMA Greatest ==
    ASSUME NEW n \in Nat, NEW T, T \subseteq 1..n, T # {}
    PROVE  \E x \in T : \A y \in T : x >= y
  <1> DEFINE D == {n - x : x \in T}
  <1>1. D \subseteq Nat /\ D # {}
    <2>1. ASSUME NEW x \in T PROVE n - x \in Nat
      <3>1. x \in 1..n
        OBVIOUS
      <3>2. QED
        BY <3>1
    <2>2. QED
      BY <2>1
  <1>2. PICK d \in D : \A e \in D : d <= e
    <2> HIDE DEF D
    <2>1. QED
      BY <1>1, Least
  <1>3. PICK x \in T : d = n - x
    OBVIOUS
  <1>4. ASSUME NEW y \in T PROVE x >= y
    <2>1. n - y \in D
      OBVIOUS
    <2>2. d <= n - y
      BY <1>2, <2>1
    <2>3. QED
      BY <1>3, <2>2
  <1>5. QED
    BY <1>4

\* The parts of a sequence.
LEMMA SubSeqFacts ==
    ASSUME NEW s, IsSeq(s), NEW m \in Nat, m > 0, NEW n \in Nat, n <= Len(s), m <= n + 1
    PROVE  /\ IsSeq(SubSeq(s, m, n)) /\ Len(SubSeq(s, m, n)) = n - m + 1
           /\ \A i \in 1..(n - m + 1) : SubSeq(s, m, n)[i] = s[m + i - 1]
  <1>1. Len(s) \in Nat
    BY SeqFacts
  <1>2. \A i \in m..n : s[i] \in ToSet(s)
    <2>1. \A i \in m..n : i \in 1..Len(s)
      BY <1>1
    <2>2. QED
      BY <2>1, Elements
  <1>3. /\ SubSeq(s, m, n) \in Seq(ToSet(s))
        /\ Len(SubSeq(s, m, n)) = IF m <= n THEN n - m + 1 ELSE 0
        /\ \A i \in 1..(n - m + 1) : SubSeq(s, m, n)[i] = s[m + i - 1]
    BY <1>2, SubSeqProperties
  <1>4. IsSeq(SubSeq(s, m, n))
    BY <1>3, SeqFromSet
  <1>5. QED
    BY <1>3, <1>4

\* x is put behind the first k elements.
LEMMA Inserting ==
    ASSUME NEW s, IsSeq(s), NEW k \in 0..Len(s), NEW x
    PROVE  /\ IsSeq(InsertAt(s, k + 1, x)) /\ Len(InsertAt(s, k + 1, x)) = Len(s) + 1
           /\ \A i \in 1..k : InsertAt(s, k + 1, x)[i] = s[i]
           /\ InsertAt(s, k + 1, x)[k + 1] = x
           /\ \A i \in (k + 1)..Len(s) : InsertAt(s, k + 1, x)[i + 1] = s[i]
  <1>1. Len(s) \in Nat
    BY SeqFacts
  <1> DEFINE a == SubSeq(s, 1, k)
             b == SubSeq(s, k + 1, Len(s))
             o == <<x>>
  <1>2. IsSeq(a) /\ Len(a) = k /\ \A i \in 1..k : a[i] = s[i]
    <2>1. k \in Nat /\ k <= Len(s) /\ 1 <= k + 1 /\ k - 1 + 1 = k
      BY <1>1
    <2>2. IsSeq(a) /\ Len(a) = k /\ \A i \in 1..k : a[i] = s[1 + i - 1]
      <3>1. /\ IsSeq(SubSeq(s, 1, k)) /\ Len(SubSeq(s, 1, k)) = k - 1 + 1
            /\ \A i \in 1..(k - 1 + 1) : SubSeq(s, 1, k)[i] = s[1 + i - 1]
        BY <2>1, SubSeqFacts
      <3>2. QED
        BY <2>1, <3>1
    <2>3. \A i \in 1..k : 1 + i - 1 = i
      BY <2>1
    <2>4. QED
      BY <2>2, <2>3
  <1>3. IsSeq(b) /\ Len(b) = Len(s) - k /\ \A i \in 1..(Len(s) - k) : b[i] = s[k + i]
    <2> DEFINE m == k + 1
    <2>1. m \in Nat /\ m > 0 /\ m <= Len(s) + 1 /\ Len(s) <= Len(s) /\ Len(s) - (k + 1) + 1 = Len(s) - k
      BY <1>1
    <2>0. /\ IsSeq(SubSeq(s, m, Len(s))) /\ Len(SubSeq(s, m, Len(s))) = Len(s) - m + 1
          /\ \A i \in 1..(Len(s) - m + 1) : SubSeq(s, m, Len(s))[i] = s[m + i - 1]
      <3> HIDE DEF m
      <3>1. QED
        BY <1>1, <2>1, SubSeqFacts
    <2>2. /\ IsSeq(SubSeq(s, k + 1, Len(s))) /\ Len(SubSeq(s, k + 1, Len(s))) = Len(s) - (k + 1) + 1
          /\ \A i \in 1..(Len(s) - (k + 1) + 1) : SubSeq(s, k + 1, Len(s))[i] = s[k + 1 + i - 1]
      BY <2>0
    <2>3. \A i \in 1..(Len(s) - k) : k + 1 + i - 1 = k + i
      BY <1>1
    <2>4. QED
      BY <2>1, <2>2, <2>3
  <1>4. InsertAt(s, k + 1, x) = (a \o o) \o b
    <2>1. (k + 1) - 1 = k
      BY <1>1
    <2>2. QED
      BY <2>1 DEF InsertAt
  <1>5. IsSeq(o) /\ Len(o) = 1 /\ o[1] = x
    BY OneIsSeq
  <1> HIDE DEF a, b, o
  <1> DEFINE c == a \o o
  <1>6. IsSeq(c) /\ Len(c) = k + 1 /\ (\A i \in 1..k : c[i] = s[i]) /\ c[k + 1] = x
    <2>1. /\ IsSeq(a \o o) /\ Len(a \o o) = Len(a) + Len(o)
          /\ \A i \in 1..Len(a) : (a \o o)[i] = a[i]
          /\ \A i \in 1..Len(o) : (a \o o)[Len(a) + i] = o[i]
      <3>1. IsSeq(a)
        BY <1>2, <1>5
      <3>2. IsSeq(o)
        BY <1>2, <1>5
      <3>3. QED
        BY <3>1, <3>2, Concatenation
    <2>2. 1 \in 1..1
      OBVIOUS
    <2>3. QED
      BY <1>2, <1>5, <2>1, <2>2
  <1> HIDE DEF c
  <1> DEFINE u == c \o b
  <1>7. /\ IsSeq(u) /\ Len(u) = k + 1 + (Len(s) - k)
        /\ \A i \in 1..(k + 1) : u[i] = c[i]
        /\ \A i \in 1..(Len(s) - k) : u[k + 1 + i] = s[k + i]
    <2>1. /\ IsSeq(c \o b) /\ Len(c \o b) = Len(c) + Len(b)
          /\ \A i \in 1..Len(c) : (c \o b)[i] = c[i]
          /\ \A i \in 1..Len(b) : (c \o b)[Len(c) + i] = b[i]
      <3>1. IsSeq(c)
        BY <1>3, <1>6
      <3>2. IsSeq(b)
        BY <1>3, <1>6
      <3>3. QED
        BY <3>1, <3>2, Concatenation
    <2>2. QED
      BY <1>3, <1>6, <2>1
  <1>8. u = InsertAt(s, k + 1, x)
    BY <1>4 DEF c
  <1> HIDE DEF u
  <1>9. Len(u) = Len(s) + 1
    BY <1>1, <1>7
  <1>10. ASSUME NEW i \in 1..k PROVE u[i] = s[i]
    <2>1. i \in 1..(k + 1)
      BY <1>1
    <2>2. QED
      BY <1>6, <1>7, <2>1
  <1>11. u[k + 1] = x
    <2>1. k + 1 \in 1..(k + 1)
      BY <1>1
    <2>2. QED
      BY <1>6, <1>7, <2>1
  <1>12. ASSUME NEW i \in (k + 1)..Len(s) PROVE u[i + 1] = s[i]
    <2>1. i - k \in 1..(Len(s) - k) /\ k + 1 + (i - k) = i + 1 /\ k + (i - k) = i
      BY <1>1
    <2>2. QED
      BY <1>7, <2>1
  <1>13. QED
    BY <1>7, <1>8, <1>9, <1>10, <1>11, <1>12

\* The k-th element is taken out.
LEMMA Removing ==
    ASSUME NEW s, IsSeq(s), NEW k \in 1..Len(s)
    PROVE  /\ IsSeq(RemoveAt(s, k)) /\ Len(RemoveAt(s, k)) = Len(s) - 1
           /\ \A i \in 1..(k - 1) : RemoveAt(s, k)[i] = s[i]
           /\ \A i \in k..(Len(s) - 1) : RemoveAt(s, k)[i] = s[i + 1]
  <1>1. Len(s) \in Nat
    BY SeqFacts
  <1> DEFINE a == SubSeq(s, 1, k - 1)
             b == SubSeq(s, k + 1, Len(s))
  <1>2. IsSeq(a) /\ Len(a) = k - 1 /\ \A i \in 1..(k - 1) : a[i] = s[i]
    <2>1. k - 1 \in Nat /\ k - 1 <= Len(s) /\ 1 <= (k - 1) + 1 /\ (k - 1) - 1 + 1 = k - 1
      BY <1>1
    <2>2. /\ IsSeq(SubSeq(s, 1, k - 1)) /\ Len(SubSeq(s, 1, k - 1)) = (k - 1) - 1 + 1
          /\ \A i \in 1..((k - 1) - 1 + 1) : SubSeq(s, 1, k - 1)[i] = s[1 + i - 1]
      BY <2>1, SubSeqFacts
    <2>3. \A i \in 1..(k - 1) : 1 + i - 1 = i
      BY <2>1
    <2>4. QED
      BY <2>1, <2>2, <2>3
  <1>3. IsSeq(b) /\ Len(b) = Len(s) - k /\ \A i \in 1..(Len(s) - k) : b[i] = s[k + i]
    <2> DEFINE m == k + 1
    <2>1. m \in Nat /\ m > 0 /\ m <= Len(s) + 1 /\ Len(s) <= Len(s) /\ Len(s) - (k + 1) + 1 = Len(s) - k
      BY <1>1
    <2>0. /\ IsSeq(SubSeq(s, m, Len(s))) /\ Len(SubSeq(s, m, Len(s))) = Len(s) - m + 1
          /\ \A i \in 1..(Len(s) - m + 1) : SubSeq(s, m, Len(s))[i] = s[m + i - 1]
      <3> HIDE DEF m
      <3>1. QED
        BY <1>1, <2>1, SubSeqFacts
    <2>2. /\ IsSeq(SubSeq(s, k + 1, Len(s))) /\ Len(SubSeq(s, k + 1, Len(s))) = Len(s) - (k + 1) + 1
          /\ \A i \in 1..(Len(s) - (k + 1) + 1) : SubSeq(s, k + 1, Len(s))[i] = s[k + 1 + i - 1]
      BY <2>0
    <2>3. \A i \in 1..(Len(s) - k) : k + 1 + i - 1 = k + i
      BY <1>1
    <2>4. QED
      BY <2>1, <2>2, <2>3
  <1>4. RemoveAt(s, k) = a \o b
    BY DEF RemoveAt
  <1> HIDE DEF a, b
  <1> DEFINE u == a \o b
  <1>5. /\ IsSeq(u) /\ Len(u) = (k - 1) + (Len(s) - k)
        /\ \A i \in 1..(k - 1) : u[i] = s[i]
        /\ \A i \in 1..(Len(s) - k) : u[(k - 1) + i] = s[k + i]
    <2>1. /\ IsSeq(a \o b) /\ Len(a \o b) = Len(a) + Len(b)
          /\ \A i \in 1..Len(a) : (a \o b)[i] = a[i]
          /\ \A i \in 1..Len(b) : (a \o b)[Len(a) + i] = b[i]
      <3>1. IsSeq(a)
        BY <1>2, <1>3
      <3>2. IsSeq(b)
        BY <1>2, <1>3
      <3>3. QED
        BY <3>1, <3>2, Concatenation
    <2>2. QED
      BY <1>2, <1>3, <2>1
  <1>6. u = RemoveAt(s, k)
    BY <1>4
  <1> HIDE DEF u
  <1>7. Len(u) = Len(s) - 1
    BY <1>1, <1>5
  <1>8. ASSUME NEW i \in k..(Len(s) - 1) PROVE u[i] = s[i + 1]
    <2>1. i - k + 1 \in 1..(Len(s) - k) /\ (k - 1) + (i - k + 1) = i /\ k + (i - k + 1) = i + 1
      BY <1>1
    <2>2. QED
      BY <1>5, <2>1
  <1>9. QED
    BY <1>5, <1>6, <1>7, <1>8

-----------------------------------------------------------------------------
(* Prefixes and suffixes cancel.                                           *)

\* What was appended can be taken away again.
ButLast(s) == [i \in 1..(Len(s) - 1) |-> s[i]]
LastOf(s) == s[Len(s)]

\* The rest and the last of what was appended to.
LEMMA Appended ==
    ASSUME NEW s, IsSeq(s), NEW x
    PROVE  ButLast(s \o <<x>>) = s /\ LastOf(s \o <<x>>) = x
  <1> DEFINE u == s \o <<x>>
  <1>1. /\ Len(s) \in Nat /\ Len(u) = Len(s) + 1 /\ u[Len(s) + 1] = x
        /\ \A i \in 1..Len(s) : u[i] = s[i]
    BY OneIsSeq, SeqFacts, Concatenation
  <1> HIDE DEF u
  <1>2. s = [i \in 1..Len(s) |-> s[i]]
    BY DEF IsSeq
  <1>3. ButLast(u) = [i \in 1..Len(s) |-> s[i]]
    BY <1>1 DEF ButLast
  <1>4. LastOf(u) = x
    BY <1>1 DEF LastOf
  <1>5. QED
    BY <1>2, <1>3, <1>4 DEF u

\* So can what was put in front.
LEMMA CancelPrefix ==
    ASSUME NEW p, NEW s, NEW t, IsSeq(p), IsSeq(s), IsSeq(t), p \o s = p \o t
    PROVE  s = t
  <1>1. /\ Len(s) \in Nat /\ Len(t) \in Nat /\ Len(p) \in Nat
        /\ Len(p \o s) = Len(p) + Len(s) /\ Len(p \o t) = Len(p) + Len(t)
        /\ \A i \in 1..Len(s) : (p \o s)[Len(p) + i] = s[i]
        /\ \A i \in 1..Len(t) : (p \o t)[Len(p) + i] = t[i]
    BY SeqFacts, Concatenation
  <1>2. Len(s) = Len(t)
    BY <1>1
  <1>3. \A i \in 1..Len(s) : s[i] = t[i]
    BY <1>1, <1>2
  <1>4. QED
    BY <1>2, <1>3, SeqEquality

\* Grouping does not matter for \o.
LEMMA ConcatRegroups ==
    ASSUME NEW p, NEW q, NEW s, IsSeq(p), IsSeq(q), IsSeq(s)
    PROVE  (p \o q) \o s = p \o (q \o s)
  <1> DEFINE a == p \o q
             b == q \o s
             x == a \o s
             y == p \o b
  <1>1. Len(p) \in Nat /\ Len(q) \in Nat /\ Len(s) \in Nat
    BY SeqFacts
  <1>2. /\ IsSeq(a) /\ Len(a) = Len(p) + Len(q)
        /\ \A i \in 1..Len(p) : a[i] = p[i]
        /\ \A i \in 1..Len(q) : a[Len(p) + i] = q[i]
    BY Concatenation
  <1>3. /\ IsSeq(b) /\ Len(b) = Len(q) + Len(s)
        /\ \A i \in 1..Len(q) : b[i] = q[i]
        /\ \A i \in 1..Len(s) : b[Len(q) + i] = s[i]
    BY Concatenation
  <1> HIDE DEF a, b
  <1>4. /\ IsSeq(x) /\ Len(x) = Len(a) + Len(s)
        /\ \A i \in 1..Len(a) : x[i] = a[i]
        /\ \A i \in 1..Len(s) : x[Len(a) + i] = s[i]
    BY <1>2, Concatenation
  <1>5. /\ IsSeq(y) /\ Len(y) = Len(p) + Len(b)
        /\ \A i \in 1..Len(p) : y[i] = p[i]
        /\ \A i \in 1..Len(b) : y[Len(p) + i] = b[i]
    BY <1>3, Concatenation
  <1> HIDE DEF x, y
  <1>6. Len(x) = Len(p) + Len(q) + Len(s) /\ Len(y) = Len(x)
    BY <1>1, <1>2, <1>3, <1>4, <1>5
  <1>7. ASSUME NEW i \in 1..Len(x) PROVE x[i] = y[i]
    <2>1. CASE i \in 1..Len(p)
      <3>1. i \in 1..Len(a)
        BY <1>1, <1>2, <2>1
      <3>2. QED
        BY <1>2, <1>4, <1>5, <2>1, <3>1
    <2>2. CASE i - Len(p) \in 1..Len(q)
      <3> DEFINE j == i - Len(p)
      <3>1. i = Len(p) + j /\ i \in 1..Len(a) /\ j \in 1..Len(b)
        BY <1>1, <1>2, <1>3, <2>2
      <3>2. x[i] = a[i] /\ a[Len(p) + j] = q[j] /\ y[Len(p) + j] = b[j] /\ b[j] = q[j]
        BY <1>2, <1>3, <1>4, <1>5, <2>2, <3>1
      <3>3. QED
        BY <3>1, <3>2
    <2>3. CASE i - Len(p) - Len(q) \in 1..Len(s)
      <3> DEFINE k == i - Len(p) - Len(q)
      <3>1. i = Len(a) + k /\ i = Len(p) + (Len(q) + k) /\ Len(q) + k \in 1..Len(b)
        BY <1>1, <1>2, <1>3, <2>3
      <3>2. x[Len(a) + k] = s[k] /\ b[Len(q) + k] = s[k]
        BY <1>3, <1>4, <2>3
      <3> DEFINE j == Len(q) + k
      <3>3. y[Len(p) + j] = b[j]
        <4>1. j \in 1..Len(b)
          BY <3>1
        <4> HIDE DEF j
        <4>2. QED
          BY <1>5, <4>1
      <3>4. QED
        BY <3>1, <3>2, <3>3
    <2>4. QED
      BY <1>1, <1>6, <2>1, <2>2, <2>3
  <1>8. QED
    BY <1>4, <1>5, <1>6, <1>7, SeqEquality DEF x, y, a, b

-----------------------------------------------------------------------------
(* No two elements of a list in a relation, which is a set of pairs.       *)

Free(s, R) == \A i, j \in 1..Len(s) : i # j => <<s[i], s[j]>> \notin R
\* No element of one list with one of the other.
Clear(s, t, R) == \A x \in ToSet(s), y \in ToSet(t) : <<x, y>> \notin R /\ <<y, x>> \notin R

\* Of two lists in a row.
LEMMA FreeConcat ==
    ASSUME NEW s, NEW t, IsSeq(s), IsSeq(t), NEW R
    PROVE  Free(s \o t, R) <=> Free(s, R) /\ Free(t, R) /\ Clear(s, t, R)
  <1> DEFINE u == s \o t
             n == Len(s)
             m == Len(t)
  <1>1. n \in Nat /\ m \in Nat /\ Len(u) = n + m
    BY SeqFacts, Concatenation
  <1>2. (\A i \in 1..n : u[i] = s[i]) /\ (\A i \in 1..m : u[n + i] = t[i])
    BY Concatenation
  <1>3. (\A i \in 1..n : s[i] \in ToSet(s)) /\ (\A i \in 1..m : t[i] \in ToSet(t))
        /\ (\A x \in ToSet(s) : \E i \in 1..n : x = s[i]) /\ (\A x \in ToSet(t) : \E i \in 1..m : x = t[i])
    BY Elements
  <1>4. Free(s, R) <=> \A i, j \in 1..n : i # j => <<s[i], s[j]>> \notin R
    BY DEF Free
  <1>5. Free(t, R) <=> \A i, j \in 1..m : i # j => <<t[i], t[j]>> \notin R
    BY DEF Free
  <1>6. Free(u, R) <=> \A i, j \in 1..(n + m) : i # j => <<u[i], u[j]>> \notin R
    BY <1>1 DEF Free
  <1> HIDE DEF u, n, m
  <1>7. ASSUME Free(u, R) PROVE Free(s, R) /\ Free(t, R) /\ Clear(s, t, R)
    <2>1. Free(s, R)
      BY <1>1, <1>2, <1>4, <1>6, <1>7
    <2>2. ASSUME NEW i \in 1..m, NEW j \in 1..m, i # j PROVE <<t[i], t[j]>> \notin R
      <3>1. n + i \in 1..(n + m) /\ n + j \in 1..(n + m) /\ n + i # n + j
        BY <1>1, <2>2
      <3>2. <<u[n + i], u[n + j]>> \notin R
        BY <1>6, <1>7, <3>1
      <3>3. QED
        BY <1>2, <3>2
    <2>3. ASSUME NEW x \in ToSet(s), NEW y \in ToSet(t) PROVE <<x, y>> \notin R /\ <<y, x>> \notin R
      <3>1. PICK i \in 1..n : x = s[i]
        BY <1>3
      <3>2. PICK j \in 1..m : y = t[j]
        BY <1>3
      <3>3. i \in 1..(n + m) /\ n + j \in 1..(n + m) /\ i # n + j
        BY <1>1
      <3>4. <<u[i], u[n + j]>> \notin R /\ <<u[n + j], u[i]>> \notin R
        BY <1>6, <1>7, <3>3
      <3>5. QED
        BY <1>2, <3>1, <3>2, <3>4
    <2>4. QED
      BY <1>5, <2>1, <2>2, <2>3 DEF Clear
  <1>8. ASSUME Free(s, R), Free(t, R), Clear(s, t, R), NEW i \in 1..(n + m), NEW j \in 1..(n + m), i # j
        PROVE  <<u[i], u[j]>> \notin R
    <2>1. CASE i \in 1..n /\ j \in 1..n
      BY <1>2, <1>4, <1>8, <2>1
    <2>2. CASE i \in 1..n /\ j \notin 1..n
      <3>1. j - n \in 1..m /\ j = n + (j - n)
        BY <1>1, <2>2
      <3>2. u[i] = s[i] /\ u[j] = t[j - n]
        BY <1>2, <2>2, <3>1
      <3>3. QED
        BY <1>3, <1>8, <2>2, <3>1, <3>2 DEF Clear
    <2>3. CASE i \notin 1..n /\ j \in 1..n
      <3>1. i - n \in 1..m /\ i = n + (i - n)
        BY <1>1, <2>3
      <3>2. u[j] = s[j] /\ u[i] = t[i - n]
        BY <1>2, <2>3, <3>1
      <3>3. QED
        BY <1>3, <1>8, <2>3, <3>1, <3>2 DEF Clear
    <2>4. CASE i \notin 1..n /\ j \notin 1..n
      <3>1. i - n \in 1..m /\ i = n + (i - n) /\ j - n \in 1..m /\ j = n + (j - n) /\ i - n # j - n
        BY <1>1, <1>8, <2>4
      <3>2. u[i] = t[i - n] /\ u[j] = t[j - n]
        BY <1>2, <3>1
      <3>3. QED
        BY <1>5, <1>8, <3>1, <3>2
    <2>5. QED
      BY <2>1, <2>2, <2>3, <2>4
  <1>9. QED
    BY <1>6, <1>7, <1>8 DEF u

\* Nothing before or after changes nothing.
LEMMA ConcatEmpty ==
    ASSUME NEW s, IsSeq(s)
    PROVE  s \o <<>> = s /\ <<>> \o s = s
  <1> DEFINE o == <<>>
  <1>1. IsSeq(o) /\ Len(o) = 0 /\ Len(s) \in Nat
    BY EmptyIsSeq, SeqFacts
  <1> HIDE DEF o
  <1>2. /\ IsSeq(s \o o) /\ Len(s \o o) = Len(s) /\ \A i \in 1..Len(s) : (s \o o)[i] = s[i]
        /\ IsSeq(o \o s) /\ Len(o \o s) = Len(s) /\ \A i \in 1..Len(s) : (o \o s)[0 + i] = s[i]
    BY <1>1, Concatenation
  <1>3. s \o o = s
    BY <1>2, SeqEquality
  <1>4. o \o s = s
    <2>1. \A i \in 1..Len(s) : (o \o s)[i] = s[i]
      BY <1>1, <1>2
    <2>2. QED
      BY <1>2, <2>1, SeqEquality
  <1>5. QED
    BY <1>3, <1>4 DEF o

\* Of one element, and of none.
LEMMA FreeOne == \A R : Free(<<>>, R) /\ \A x : Free(<<x>>, R)
  <1>1. Len(<<>>) = 0 /\ \A x : Len(<<x>>) = 1
    OBVIOUS
  <1>2. QED
    BY <1>1 DEF Free

\* Of many lists flattened.
LEMMA FreeFlatten ==
    ASSUME NEW seqs, IsSeq(seqs), \A i \in 1..Len(seqs) : IsSeq(seqs[i]), NEW R
    PROVE  Free(FlattenSeq(seqs), R) <=>
               /\ \A i \in 1..Len(seqs) : Free(seqs[i], R)
               /\ \A i, j \in 1..Len(seqs) : i < j => Clear(seqs[i], seqs[j], R)
  <1>0. Len(seqs) \in Nat
    BY SeqFacts
  <1>1. CASE Len(seqs) = 0
    <2>1. seqs = <<>>
      BY <1>1, EmptyIsSeq, SeqEquality
    <2>2. FlattenSeq(seqs) = <<>>
      BY <2>1, <1>1 DEF FlattenSeq
    <2>3. QED
      BY <1>1, <2>2, FreeOne
  <1>2. CASE Len(seqs) > 0
    <2>1. PICK f : /\ FlattenSeq(seqs) = f[Len(seqs)]
                   /\ f[1] = seqs[1]
                   /\ \A k \in 1..(Len(seqs) - 1) : f[k + 1] = f[k] \o seqs[k + 1]
      BY <1>2, FlattenPrefixes
    <2> DEFINE Apart(k) == /\ \A i \in 1..k : Free(seqs[i], R)
                           /\ \A i, j \in 1..k : i < j => Clear(seqs[i], seqs[j], R)
               T == {k \in 1..Len(seqs) : /\ IsSeq(f[k])
                                          /\ \A x : x \in ToSet(f[k]) <=> \E i \in 1..k : x \in ToSet(seqs[i])
                                          /\ Free(f[k], R) <=> Apart(k)}
    <2>2. 1 \in T
      <3>1. \A i \in 1..1 : i = 1
        OBVIOUS
      <3>2. Free(f[1], R) <=> Apart(1)
        BY <2>1, <3>1
      <3>3. \A x : x \in ToSet(f[1]) <=> \E i \in 1..1 : x \in ToSet(seqs[i])
        BY <2>1, <3>1
      <3> HIDE DEF Apart
      <3>4. QED
        BY <1>0, <1>2, <2>1, <3>2, <3>3
    <2>3. ASSUME NEW k \in 1..(Len(seqs) - 1), k \in T PROVE k + 1 \in T
      <3> DEFINE u == seqs[k + 1]
                 s == f[k]
      <3>1. IsSeq(s) /\ IsSeq(u) /\ k + 1 \in 1..Len(seqs) /\ k \in Nat
        BY <1>0, <2>3
      <3>2. f[k + 1] = s \o u
        BY <2>1
      <3>3. (\A x : x \in ToSet(s) <=> \E i \in 1..k : x \in ToSet(seqs[i])) /\ (Free(s, R) <=> Apart(k))
        BY <2>3
      <3>4. Clear(s, u, R) <=> \A i \in 1..k : Clear(seqs[i], u, R)
        BY <3>3 DEF Clear
      <3>5. Apart(k + 1) <=> Apart(k) /\ Free(u, R) /\ \A i \in 1..k : Clear(seqs[i], u, R)
        <4>1. \A i \in 1..(k + 1) : i \in 1..k \/ i = k + 1
          BY <3>1
        <4>2. \A i \in 1..k : i \in 1..(k + 1) /\ i < k + 1
          BY <3>1
        <4>3. k + 1 \in 1..(k + 1)
          BY <3>1
        <4>4. ASSUME Apart(k + 1) PROVE Apart(k) /\ Free(u, R) /\ \A i \in 1..k : Clear(seqs[i], u, R)
          BY <4>2, <4>3, <4>4
        <4>5. ASSUME Apart(k), Free(u, R), \A i \in 1..k : Clear(seqs[i], u, R) PROVE Apart(k + 1)
          <5>1. \A i \in 1..(k + 1) : Free(seqs[i], R)
            BY <4>1, <4>5
          <5>2. ASSUME NEW i \in 1..(k + 1), NEW j \in 1..(k + 1), i < j PROVE Clear(seqs[i], seqs[j], R)
            <6>1. i \in 1..k
              BY <3>1, <5>2
            <6>2. CASE j \in 1..k
              BY <4>5, <5>2, <6>1, <6>2
            <6>3. CASE j = k + 1
              BY <4>5, <6>1, <6>3
            <6>4. QED
              BY <4>1, <6>2, <6>3
          <5>3. QED
            BY <5>1, <5>2
        <4> HIDE DEF Apart
        <4>6. QED
          BY <4>4, <4>5
      <3>6. \A x : x \in ToSet(s \o u) <=> \E i \in 1..(k + 1) : x \in ToSet(seqs[i])
        <4> HIDE DEF s
        <4>1. ToSet(s \o u) = ToSet(s) \cup ToSet(u)
          <5> HIDE DEF u
          <5>1. QED
            BY <3>1, Concatenation
        <4>2. \A i \in 1..(k + 1) : i \in 1..k \/ i = k + 1
          BY <3>1
        <4>3. (\A i \in 1..k : i \in 1..(k + 1)) /\ k + 1 \in 1..(k + 1)
          BY <3>1
        <4>4. QED
          BY <3>3, <4>1, <4>2, <4>3
      <3> HIDE DEF Apart, s, u
      <3>7. IsSeq(s \o u) /\ (Free(s \o u, R) <=> Free(s, R) /\ Free(u, R) /\ Clear(s, u, R))
        BY <3>1, Concatenation, FreeConcat
      <3>8. Free(s \o u, R) <=> Apart(k + 1)
        BY <3>3, <3>4, <3>5, <3>7
      <3>9. QED
        BY <3>1, <3>2, <3>6, <3>7, <3>8
    <2>4. Len(seqs) \in T
      <3>1. 1..Len(seqs) \subseteq T
        <4> HIDE DEF T
        <4>1. QED
          BY <1>0, <2>2, <2>3, UpTo
      <3> HIDE DEF T
      <3>2. QED
        BY <1>0, <1>2, <3>1
    <2>5. QED
      BY <2>1, <2>4
  <1>3. QED
    BY <1>0, <1>1, <1>2

\* Repetitions: the pairs of equal elements.
Same(S) == {<<x, x>> : x \in S}

\* A sequence without repetitions has no such pair.
LEMMA InjectiveIsFree ==
    ASSUME NEW s, IsSeq(s), NEW S, ToSet(s) \subseteq S
    PROVE  IsInjective(s) <=> Free(s, Same(S))
  <1>1. DOMAIN s = 1..Len(s) /\ \A i \in 1..Len(s) : s[i] \in S
    BY SeqFacts, Elements
  <1>2. \A x, y : x \in S => (<<x, y>> \in Same(S) <=> x = y)
    BY DEF Same
  <1>3. QED
    BY <1>1, <1>2 DEF IsInjective, Free

\* And of elements with one value of a field.
Alike(S, f) == {p \in S \X S : p[1][f] = p[2][f]}

\* Two elements are such a pair if the field is equal.
LEMMA AlikePairs ==
    ASSUME NEW S, NEW f, NEW x \in S, NEW y \in S
    PROVE  <<x, y>> \in Alike(S, f) <=> x[f] = y[f]
  BY DEF Alike

\* A field that no two elements share, as a relation that no two are in.
LEMMA FieldsAreFree ==
    ASSUME NEW s, IsSeq(s), NEW S, ToSet(s) \subseteq S, NEW f
    PROVE  IsInjective([i \in DOMAIN s |-> s[i][f]]) <=> Free(s, Alike(S, f))
  <1> DEFINE g == [i \in DOMAIN s |-> s[i][f]]
  <1>1. DOMAIN s = 1..Len(s) /\ \A i \in 1..Len(s) : s[i] \in S
    BY SeqFacts, Elements
  <1>2. DOMAIN g = 1..Len(s) /\ \A i \in 1..Len(s) : g[i] = s[i][f]
    BY <1>1
  <1> HIDE DEF g
  <1>3. \A i, j \in 1..Len(s) : <<s[i], s[j]>> \in Alike(S, f) <=> g[i] = g[j]
    BY <1>1, <1>2, AlikePairs
  <1>4. IsInjective(g) <=> Free(s, Alike(S, f))
    BY <1>2, <1>3 DEF IsInjective, Free
  <1>5. QED
    BY <1>4 DEF g

\* Of two sequences with one end, the beginnings tell them apart.
LEMMA CancelSuffix ==
    ASSUME NEW a, NEW b, NEW c, IsSeq(a), IsSeq(b), IsSeq(c), a \o c = b \o c
    PROVE  a = b
  <1>1. Len(a) \in Nat /\ Len(b) \in Nat /\ Len(c) \in Nat
    BY SeqFacts
  <1>2. /\ Len(a \o c) = Len(a) + Len(c) /\ Len(b \o c) = Len(b) + Len(c)
        /\ \A i \in 1..Len(a) : (a \o c)[i] = a[i]
        /\ \A i \in 1..Len(b) : (b \o c)[i] = b[i]
    BY Concatenation
  <1> DEFINE u == a \o c
             v == b \o c
  <1>3. u = v
    OBVIOUS
  <1>4. Len(u) = Len(a) + Len(c) /\ Len(v) = Len(b) + Len(c) /\ (\A i \in 1..Len(a) : u[i] = a[i]) /\ (\A i \in 1..Len(b) : v[i] = b[i])
    BY <1>2
  <1> HIDE DEF u, v
  <1>5. Len(a) = Len(b)
    BY <1>1, <1>3, <1>4
  <1>6. \A i \in 1..Len(a) : a[i] = b[i]
    BY <1>3, <1>4, <1>5
  <1>7. QED
    BY <1>5, <1>6, SeqEquality

\* And a sequence of six.
LEMMA SixIsSeq ==
    ASSUME NEW a, NEW b, NEW c, NEW d, NEW e, NEW f
    PROVE  LET s == <<a, b, c, d, e, f>>
           IN  /\ IsSeq(s) /\ Len(s) = 6 /\ ToSet(s) = {a, b, c, d, e, f}
               /\ s[1] = a /\ s[2] = b /\ s[3] = c /\ s[4] = d /\ s[5] = e /\ s[6] = f
  <1> DEFINE s == <<a, b, c, d, e, f>>
             S == {a, b, c, d, e, f}
  <1>1. s \in Seq(S) /\ Len(s) = 6 /\ s[1] = a /\ s[2] = b /\ s[3] = c /\ s[4] = d /\ s[5] = e /\ s[6] = f
    OBVIOUS
  <1> HIDE DEF s
  <1>2. IsSeq(s)
    BY <1>1, SeqFromSet
  <1>3. \A x : x \in ToSet(s) <=> \E i \in 1..6 : x = s[i]
    BY <1>1, <1>2, Elements
  <1>4. \A x : x \in ToSet(s) <=> x \in S
    <2>1. \A i \in 1..6 : i = 1 \/ i = 2 \/ i = 3 \/ i = 4 \/ i = 5 \/ i = 6
      OBVIOUS
    <2>2. 1 \in 1..6 /\ 2 \in 1..6 /\ 3 \in 1..6 /\ 4 \in 1..6 /\ 5 \in 1..6 /\ 6 \in 1..6
      OBVIOUS
    <2>3. QED
      BY <1>1, <1>3, <2>1, <2>2
  <1>5. QED
    BY <1>1, <1>2, <1>4 DEF s

\* The list of a finite set has its elements, each once.
LEMMA SetListed ==
    ASSUME NEW S, IsFiniteSet(S)
    PROVE  IsSeq(SetToSeq(S)) /\ ToSet(SetToSeq(S)) \subseteq S /\ IsInjective(SetToSeq(S))
  <1> DEFINE n == Cardinality(S)
             f == SetToSeq(S)
  <1>1. n \in Nat /\ ExistsBijection(1..n, S)
    BY FS_CardinalityType
  <1>2. \E g \in [1..n -> S] : IsInjective(g)
    BY <1>1 DEF ExistsBijection, Bijection, Injection
  <1>3. f \in [1..n -> S] /\ IsInjective(f)
    BY <1>2 DEF SetToSeq
  <1> HIDE DEF f, n
  <1>4. f \in Seq(S)
    BY <1>1, <1>3
  <1>5. IsSeq(f)
    BY <1>4, SeqFromSet
  <1>6. ToSet(f) \subseteq S
    BY <1>3 DEF ToSet
  <1>7. QED
    BY <1>3, <1>5, <1>6 DEF f

\* Lists have nothing in common when no element of one is an element of the other.
LEMMA ClearOfSame ==
    ASSUME NEW s, NEW t, NEW S
    PROVE  /\ (\A x \in ToSet(s), y \in ToSet(t) : x # y) => Clear(s, t, Same(S))
           /\ (Clear(s, t, Same(S)) /\ ToSet(s) \subseteq S) => \A x \in ToSet(s), y \in ToSet(t) : x # y
  BY DEF Clear, Same

\* Six lists in a row without repetitions.
LEMMA SixInARow ==
    ASSUME NEW a, NEW b, NEW c, NEW d, NEW e, NEW f,
           IsSeq(a), IsSeq(b), IsSeq(c), IsSeq(d), IsSeq(e), IsSeq(f),
           IsInjective(a \o b \o c \o d \o e \o f)
    PROVE  /\ \A x \in ToSet(a), y \in ToSet(f) : x # y
           /\ \A x \in ToSet(b), y \in ToSet(d) \cup ToSet(e) : x # y
           /\ \A x \in ToSet(c), y \in ToSet(f) : x # y
           /\ \A x \in ToSet(d), y \in ToSet(e) : x # y
           /\ IsSeq(a \o b \o c \o d \o e \o f)
           /\ ToSet(a \o b \o c \o d \o e \o f) = ToSet(a) \cup ToSet(b) \cup ToSet(c) \cup ToSet(d) \cup ToSet(e) \cup ToSet(f)
  <1> DEFINE ab == a \o b
             ac == ab \o c
             ad == ac \o d
             ae == ad \o e
             af == ae \o f
             R == Same(ToSet(af))
  <1>1. IsSeq(ab) /\ ToSet(ab) = ToSet(a) \cup ToSet(b)
    BY Concatenation
  <1>2. IsSeq(ac) /\ ToSet(ac) = ToSet(ab) \cup ToSet(c)
    <2> HIDE DEF ab
    <2>1. QED
      BY <1>1, Concatenation
  <1>3. IsSeq(ad) /\ ToSet(ad) = ToSet(ac) \cup ToSet(d)
    <2> HIDE DEF ac
    <2>1. QED
      BY <1>2, Concatenation
  <1>4. IsSeq(ae) /\ ToSet(ae) = ToSet(ad) \cup ToSet(e)
    <2> HIDE DEF ad
    <2>1. QED
      BY <1>3, Concatenation
  <1>5. IsSeq(af) /\ ToSet(af) = ToSet(ae) \cup ToSet(f)
    <2> HIDE DEF ae
    <2>1. QED
      BY <1>4, Concatenation
  <1>6. Free(af, R)
    <2>1. IsInjective(af)
      OBVIOUS
    <2> HIDE DEF af
    <2>2. QED
      BY <1>5, <2>1, InjectiveIsFree
  <1>7. Free(ae, R) /\ Clear(ae, f, R)
    <2> HIDE DEF ae, R
    <2>1. QED
      BY <1>4, <1>6, FreeConcat
  <1>8. Free(ad, R) /\ Clear(ad, e, R)
    <2> HIDE DEF ad, R
    <2>1. QED
      BY <1>3, <1>7, FreeConcat
  <1>9. Free(ac, R) /\ Clear(ac, d, R)
    <2> HIDE DEF ac, R
    <2>1. QED
      BY <1>2, <1>8, FreeConcat
  <1>10. QED
    <2> HIDE DEF ab, ac, ad, ae
    <2>1. ToSet(ae) \subseteq ToSet(af) /\ ToSet(ad) \subseteq ToSet(af) /\ ToSet(ac) \subseteq ToSet(af)
      BY <1>3, <1>4, <1>5
    <2>2. /\ \A x \in ToSet(ae), y \in ToSet(f) : x # y
          /\ \A x \in ToSet(ad), y \in ToSet(e) : x # y
          /\ \A x \in ToSet(ac), y \in ToSet(d) : x # y
      <3> HIDE DEF af
      <3>1. QED
        BY <1>7, <1>8, <1>9, <2>1, ClearOfSame DEF R
    <2>3. /\ \A x \in ToSet(a), y \in ToSet(f) : x # y
          /\ \A x \in ToSet(b), y \in ToSet(d) \cup ToSet(e) : x # y
          /\ \A x \in ToSet(c), y \in ToSet(f) : x # y
          /\ \A x \in ToSet(d), y \in ToSet(e) : x # y
      BY <1>1, <1>2, <1>3, <1>4, <2>2
    <2>4. IsSeq(af) /\ ToSet(af) = ToSet(a) \cup ToSet(b) \cup ToSet(c) \cup ToSet(d) \cup ToSet(e) \cup ToSet(f)
      BY <1>1, <1>2, <1>3, <1>4, <1>5
    <2>5. QED
      BY <2>3, <2>4 DEF af, ae, ad, ac, ab

\* Four lists that have nothing in common, in a row.
LEMMA FourInARow ==
    ASSUME NEW a, NEW b, NEW c, NEW d, IsSeq(a), IsSeq(b), IsSeq(c), IsSeq(d),
           IsInjective(a), IsInjective(b), IsInjective(c), IsInjective(d),
           \A x \in ToSet(a), y \in ToSet(b) \cup ToSet(c) \cup ToSet(d) : x # y,
           \A x \in ToSet(b), y \in ToSet(c) \cup ToSet(d) : x # y,
           \A x \in ToSet(c), y \in ToSet(d) : x # y
    PROVE  IsInjective(a \o b \o c \o d)
  <1> DEFINE ab == a \o b
             ac == ab \o c
             ad == ac \o d
             S == ToSet(ad)
             R == Same(S)
  <1>1. IsSeq(ab) /\ ToSet(ab) = ToSet(a) \cup ToSet(b)
    BY Concatenation
  <1>2. IsSeq(ac) /\ ToSet(ac) = ToSet(ab) \cup ToSet(c)
    <2> HIDE DEF ab
    <2>1. QED
      BY <1>1, Concatenation
  <1>3. IsSeq(ad) /\ S = ToSet(ac) \cup ToSet(d)
    <2> HIDE DEF ac
    <2>1. QED
      BY <1>2, Concatenation
  <1> HIDE DEF S
  <1>4. ToSet(a) \subseteq S /\ ToSet(b) \subseteq S /\ ToSet(c) \subseteq S /\ ToSet(d) \subseteq S
    <2> HIDE DEF ab, ac
    <2>1. QED
      BY <1>1, <1>2, <1>3
  <1>5. Free(a, R) /\ Free(b, R) /\ Free(c, R) /\ Free(d, R)
    BY <1>4, InjectiveIsFree
  <1>6. Free(ab, R)
    <2>1. Clear(a, b, R)
      BY ClearOfSame
    <2> HIDE DEF R
    <2>2. QED
      BY <1>5, <2>1, FreeConcat
  <1> HIDE DEF ab
  <1>7. Free(ac, R)
    <2>1. Clear(ab, c, R)
      BY <1>1, ClearOfSame
    <2> HIDE DEF R
    <2>2. QED
      BY <1>1, <1>5, <1>6, <2>1, FreeConcat
  <1> HIDE DEF ac
  <1>8. Free(ad, R)
    <2>1. \A x \in ToSet(ac), y \in ToSet(d) : x # y
      BY <1>1, <1>2
    <2>2. Clear(ac, d, R)
      BY <2>1, ClearOfSame
    <2> HIDE DEF R
    <2>3. QED
      BY <1>2, <1>5, <1>7, <2>2, FreeConcat
  <1>9. IsInjective(ad)
    <2>1. ToSet(ad) \subseteq S
      BY DEF S
    <2> HIDE DEF ad
    <2>2. QED
      BY <1>3, <1>8, <2>1, InjectiveIsFree
  <1>10. QED
    BY <1>9 DEF ad, ac, ab

-----------------------------------------------------------------------------
(* The beginnings of a sequence.                                           *)

UpToPlace(s, k) == [i \in 1..k |-> s[i]]

\* They are sequences, and one more element is put behind.
LEMMA Beginnings ==
    ASSUME NEW s, IsSeq(s)
    PROVE  /\ \A k \in 0..Len(s) : IsSeq(UpToPlace(s, k)) /\ Len(UpToPlace(s, k)) = k
           /\ \A k \in 0..(Len(s) - 1) : UpToPlace(s, k + 1) = UpToPlace(s, k) \o <<s[k + 1]>>
           /\ UpToPlace(s, 0) = <<>> /\ UpToPlace(s, Len(s)) = s
  <1>1. Len(s) \in Nat /\ s = [i \in 1..Len(s) |-> s[i]]
    BY DEF IsSeq
  <1>2. ASSUME NEW k \in Nat PROVE IsSeq(UpToPlace(s, k)) /\ Len(UpToPlace(s, k)) = k
    <2>1. UpToPlace(s, k) = [i \in 1..k |-> UpToPlace(s, k)[i]]
      BY DEF UpToPlace
    <2>2. QED
      BY <2>1, FunctionIsSeq
  <1>3. ASSUME NEW k \in 0..(Len(s) - 1) PROVE UpToPlace(s, k + 1) = UpToPlace(s, k) \o <<s[k + 1]>>
    <2> DEFINE a == UpToPlace(s, k + 1)
               b == UpToPlace(s, k)
               c == <<s[k + 1]>>
    <2>1. k \in Nat /\ k + 1 \in Nat
      BY <1>1
    <2>2. IsSeq(a) /\ Len(a) = k + 1 /\ IsSeq(b) /\ Len(b) = k
      BY <1>2, <2>1
    <2>3. IsSeq(c) /\ Len(c) = 1 /\ c[1] = s[k + 1]
      BY OneIsSeq
    <2>4. (\A i \in 1..(k + 1) : a[i] = s[i]) /\ \A i \in 1..k : b[i] = s[i]
      BY <2>1 DEF UpToPlace
    <2> HIDE DEF a, b, c
    <2>5. IsSeq(b \o c) /\ Len(b \o c) = k + 1 /\ (\A i \in 1..k : (b \o c)[i] = b[i]) /\ (b \o c)[k + 1] = c[1]
      <3>0. IsSeq(b) /\ IsSeq(c)
        BY <2>2, <2>3
      <3>1. /\ IsSeq(b \o c) /\ Len(b \o c) = Len(b) + Len(c)
            /\ \A i \in 1..Len(b) : (b \o c)[i] = b[i]
            /\ \A i \in 1..Len(c) : (b \o c)[Len(b) + i] = c[i]
        BY ONLY <3>0, Concatenation
      <3>2. 1 \in 1..Len(c)
        BY <2>3
      <3>3. (b \o c)[Len(b) + 1] = c[1]
        BY <3>1, <3>2
      <3>4. QED
        BY <2>2, <2>3, <3>1, <3>3
    <2>6. \A i \in 1..Len(a) : a[i] = (b \o c)[i]
      BY <2>1, <2>2, <2>3, <2>4, <2>5
    <2>7. a = b \o c
      BY <2>2, <2>5, <2>6, SeqEquality
    <2>8. QED
      BY <2>7 DEF a, b, c
  <1>4. UpToPlace(s, 0) = <<>> /\ UpToPlace(s, Len(s)) = s
    BY <1>1 DEF UpToPlace
  <1>5. QED
    BY <1>1, <1>2, <1>3, <1>4

\* Flattening one list more appends it.
LEMMA FlattenAppended ==
    ASSUME NEW s, IsSeq(s), NEW x, IsSeq(x)
    PROVE  FlattenSeq(s \o <<x>>) = FlattenSeq(s) \o x
  <1> DEFINE r == s \o <<x>>
             n == Len(s)
  <1>1. /\ IsSeq(r) /\ Len(r) = n + 1 /\ n \in Nat /\ r[n + 1] = x /\ \A i \in 1..n : r[i] = s[i]
    <2>1. IsSeq(<<x>>) /\ Len(<<x>>) = 1 /\ <<x>>[1] = x
      BY OneIsSeq
    <2>2. QED
      BY <2>1, Concatenation, SeqFacts
  <1> HIDE DEF r
  <1>2. PICK f : FlattenSeq(r) = f[n + 1] /\ f[1] = r[1] /\ \A k \in 1..n : f[k + 1] = f[k] \o r[k + 1]
    <2>1. Len(r) > 0 /\ Len(r) - 1 = n
      BY <1>1
    <2>2. \E f : FlattenSeq(r) = f[Len(r)] /\ f[1] = r[1] /\ \A k \in 1..(Len(r) - 1) : f[k + 1] = f[k] \o r[k + 1]
      BY <1>1, <2>1, FlattenPrefixes
    <2>3. QED
      BY <1>1, <2>1, <2>2
  <1>3. CASE n = 0
    <2>1. s = <<>>
      BY <1>3 DEF IsSeq
    <2>2. FlattenSeq(s) = <<>>
      BY <2>1 DEF FlattenSeq
    <2>3. FlattenSeq(r) = x
      BY <1>1, <1>2, <1>3
    <2>4. QED
      BY <2>2, <2>3, ConcatEmpty DEF r
  <1>4. CASE n > 0
    <2>1. PICK g : /\ FlattenSeq(s) = g[n] /\ g[1] = s[1]
                   /\ \A k \in 1..(n - 1) : g[k + 1] = g[k] \o s[k + 1]
      BY <1>4, FlattenPrefixes
    <2> DEFINE T == {k \in 1..n : f[k] = g[k]}
    <2>2. 1 \in T
      BY <1>1, <1>2, <1>4, <2>1
    <2>3. ASSUME NEW k \in 1..(n - 1), k \in T PROVE k + 1 \in T
      <3>1. k \in 1..n /\ k + 1 \in 1..n
        BY <1>1
      <3>2. r[k + 1] = s[k + 1] /\ f[k] = g[k]
        BY <1>1, <2>3, <3>1
      <3>3. f[k + 1] = f[k] \o r[k + 1] /\ g[k + 1] = g[k] \o s[k + 1]
        BY <1>2, <2>1, <3>1
      <3>4. QED
        BY <3>1, <3>2, <3>3
    <2> HIDE DEF T
    <2>4. 1..n \subseteq T
      BY <1>1, <2>2, <2>3, UpTo
    <2>5. f[n] = g[n]
      BY <1>1, <1>4, <2>4 DEF T
    <2>6. FlattenSeq(r) = f[n] \o x
      <3>1. n \in 1..n
        BY <1>1, <1>4
      <3>2. f[n + 1] = f[n] \o r[n + 1]
        BY <1>2, <3>1
      <3>3. QED
        BY <1>1, <1>2, <3>2
    <2>7. QED
      BY <2>1, <2>5, <2>6 DEF r
  <1>5. QED
    BY <1>1, <1>3, <1>4

\* What the first k lists are, flattened, is where all begin.
LEMMA FlattenBegins ==
    ASSUME NEW s, IsSeq(s), \A i \in 1..Len(s) : IsSeq(s[i])
    PROVE  /\ FlattenSeq(UpToPlace(s, 0)) = <<>>
           /\ \A k \in 0..(Len(s) - 1) : FlattenSeq(UpToPlace(s, k + 1)) = FlattenSeq(UpToPlace(s, k)) \o s[k + 1]
           /\ \A k \in 0..Len(s) : IsSeq(FlattenSeq(UpToPlace(s, k)))
           /\ \A k \in 0..Len(s) : \A i \in 1..Len(FlattenSeq(UpToPlace(s, k))) :
                 /\ i \in 1..Len(FlattenSeq(s)) /\ FlattenSeq(s)[i] = FlattenSeq(UpToPlace(s, k))[i]
  <1> DEFINE P(k) == FlattenSeq(UpToPlace(s, k))
             n == Len(s)
  <1>1. n \in Nat
    BY SeqFacts
  <1>2. P(0) = <<>>
    <2>1. UpToPlace(s, 0) = <<>>
      BY Beginnings
    <2>2. QED
      BY <2>1 DEF FlattenSeq
  <1>3. ASSUME NEW k \in 0..(n - 1) PROVE P(k + 1) = P(k) \o s[k + 1]
    <2>0. k \in 0..n
      BY <1>1
    <2>1. UpToPlace(s, k + 1) = UpToPlace(s, k) \o <<s[k + 1]>> /\ IsSeq(UpToPlace(s, k))
      BY <2>0, Beginnings
    <2>2. IsSeq(s[k + 1])
      BY <1>1
    <2>3. QED
      BY <2>1, <2>2, FlattenAppended
  <1>4. P(n) = FlattenSeq(s)
    BY Beginnings
  <1> HIDE DEF P
  <1>5. \A k \in 0..n : IsSeq(P(k))
    <2> DEFINE T == {k \in Nat : k \in 0..n => IsSeq(P(k))}
    <2>1. 0 \in T
      BY <1>2, EmptyIsSeq
    <2>2. ASSUME NEW k \in Nat, k \in T PROVE k + 1 \in T
      <3>1. SUFFICES ASSUME k + 1 \in 0..n PROVE IsSeq(P(k + 1))
        OBVIOUS
      <3>2. k \in 0..(n - 1) /\ k + 1 \in 1..n /\ IsSeq(P(k))
        BY <1>1, <2>2, <3>1
      <3>3. IsSeq(s[k + 1])
        BY <3>2
      <3>4. P(k + 1) = P(k) \o s[k + 1]
        BY <1>3, <3>2
      <3>5. IsSeq(P(k) \o s[k + 1])
        BY <3>2, <3>3, Concatenation
      <3>6. QED
        BY <3>4, <3>5
    <2> HIDE DEF T
    <2>3. Nat \subseteq T
      BY <2>1, <2>2, Upwards
    <2>4. QED
      BY <1>1, <2>3 DEF T
  <1>6. ASSUME NEW k \in 0..n
        PROVE  \A i \in 1..Len(P(k)) : i \in 1..Len(FlattenSeq(s)) /\ FlattenSeq(s)[i] = P(k)[i]
    <2> DEFINE B(j) == \A i \in 1..Len(P(k)) : i \in 1..Len(P(k + j)) /\ P(k + j)[i] = P(k)[i]
               T == {j \in Nat : k + j \in 0..n => B(j)}
    <2>1. 0 \in T
      BY <1>1
    <2>2. ASSUME NEW j \in Nat, j \in T PROVE j + 1 \in T
      <3>1. SUFFICES ASSUME k + (j + 1) \in 0..n PROVE B(j + 1)
        OBVIOUS
      <3>2. k + j \in 0..(n - 1) /\ k + j \in 0..n /\ k + (j + 1) = (k + j) + 1 /\ (k + j) + 1 \in 1..n /\ B(j)
        BY <1>1, <2>2, <3>1
      <3>3. P(k + (j + 1)) = P(k + j) \o s[(k + j) + 1]
        BY <1>3, <3>2
      <3>4. IsSeq(P(k + j)) /\ IsSeq(s[(k + j) + 1])
        BY <1>5, <3>2
      <3> DEFINE a == P(k + j)
                 b == s[(k + j) + 1]
                 c == P(k + (j + 1))
      <3>5. c = a \o b /\ IsSeq(a) /\ IsSeq(b) /\ \A i \in 1..Len(P(k)) : i \in 1..Len(a) /\ a[i] = P(k)[i]
        BY <3>2, <3>3, <3>4
      <3> HIDE DEF a, b, c
      <3>6. Len(a) \in Nat /\ Len(b) \in Nat /\ Len(c) = Len(a) + Len(b) /\ \A i \in 1..Len(a) : c[i] = a[i]
        BY <3>5, Concatenation, SeqFacts
      <3>7. \A i \in 1..Len(P(k)) : i \in 1..Len(c) /\ c[i] = P(k)[i]
        BY <3>5, <3>6
      <3>8. QED
        BY <3>7 DEF c
    <2> HIDE DEF T
    <2>3. Nat \subseteq T
      BY <2>1, <2>2, Upwards
    <2>4. n - k \in Nat /\ k + (n - k) = n /\ n \in 0..n
      BY <1>1
    <2>5. B(n - k)
      BY <2>3, <2>4 DEF T
    <2>6. P(k + (n - k)) = FlattenSeq(s)
      BY <1>4, <2>4
    <2>7. QED
      BY <2>5, <2>6
  <1>7. QED
    BY <1>2, <1>3, <1>5, <1>6 DEF P

\* One element behind.
LEMMA OneBehind ==
    ASSUME NEW s, IsSeq(s), NEW x
    PROVE  /\ IsSeq(s \o <<x>>) /\ Len(s \o <<x>>) = Len(s) + 1 /\ Len(s) \in Nat
           /\ (s \o <<x>>)[Len(s) + 1] = x
           /\ \A i \in 1..Len(s) : (s \o <<x>>)[i] = s[i]
  <1> DEFINE o == <<x>>
  <1>1. IsSeq(o) /\ Len(o) = 1 /\ o[1] = x
    BY OneIsSeq
  <1> HIDE DEF o
  <1>2. IsSeq(s) /\ IsSeq(o)
    BY <1>1
  <1>3. /\ IsSeq(s \o o) /\ Len(s \o o) = Len(s) + Len(o)
        /\ \A i \in 1..Len(s) : (s \o o)[i] = s[i]
        /\ \A i \in 1..Len(o) : (s \o o)[Len(s) + i] = o[i]
    BY ONLY <1>2, Concatenation
  <1>4. 1 \in 1..Len(o)
    BY <1>1
  <1>5. (s \o o)[Len(s) + 1] = x
    BY <1>1, <1>3, <1>4
  <1>6. Len(s) \in Nat
    BY SeqFacts
  <1>7. QED
    BY <1>1, <1>3, <1>5, <1>6 DEF o
==============================================================================
