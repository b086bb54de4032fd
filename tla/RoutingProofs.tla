---------------------------- MODULE RoutingProofs ----------------------------
(***************************************************************************)
(* Facts about the rule lists of RoutingRules and about what the first     *)
(* matching rule of a list decides, for any topology.                      *)
(***************************************************************************)
EXTENDS TrafficPath, SequenceFacts

-----------------------------------------------------------------------------
(* First match.                                                            *)

\* If any rule matches, there is a first one that does.
LEMMA FirstMatch ==
    ASSUME NEW rules, IsSeq(rules), NEW c, Decides(rules, c)
    PROVE  \E i \in 1..Len(rules) : /\ Matches(rules[i], c)
                                    /\ \A j \in 1..(i - 1) : ~Matches(rules[j], c)
                                    /\ Decision(rules, c) = rules[i].to
  <1> DEFINE Hit == {i \in 1..Len(rules) : Matches(rules[i], c)}
             Is(i) == /\ i \in DOMAIN rules
                      /\ Matches(rules[i], c) /\ \A j \in 1..(i - 1) : ~Matches(rules[j], c)
  <1>1. Len(rules) \in Nat /\ DOMAIN rules = 1..Len(rules)
    BY SeqFacts
  <1>2. Hit \subseteq Nat /\ Hit # {}
    BY <1>1 DEF Decides
  <1>3. PICK i \in Hit : \A j \in Hit : i <= j
    <2> HIDE DEF Hit
    <2>1. QED
      BY <1>2, Least
  <1>4. Is(i)
    <2>1. \A j \in 1..(i - 1) : j \in 1..Len(rules) /\ ~(i <= j)
      BY <1>1, <1>3
    <2>2. QED
      BY <1>1, <1>3, <2>1
  <1>5. Is(CHOOSE k : Is(k))
    BY <1>4
  <1>6. Decision(rules, c) = rules[CHOOSE k : Is(k)].to
    BY DEF Decision
  <1>7. QED
    BY <1>1, <1>5, <1>6

\* The first rule that matches decides.
LEMMA DecisionIs ==
    ASSUME NEW rules, IsSeq(rules), NEW c, NEW i \in 1..Len(rules), Matches(rules[i], c),
           \A j \in 1..(i - 1) : ~Matches(rules[j], c)
    PROVE  Decides(rules, c) /\ Decision(rules, c) = rules[i].to
  <1>1. Len(rules) \in Nat /\ DOMAIN rules = 1..Len(rules)
    BY SeqFacts
  <1>2. Decides(rules, c)
    BY <1>1 DEF Decides
  <1>3. PICK k \in 1..Len(rules) : /\ Matches(rules[k], c)
                                   /\ \A j \in 1..(k - 1) : ~Matches(rules[j], c)
                                   /\ Decision(rules, c) = rules[k].to
    BY <1>2, FirstMatch
  <1>4. k = i
    <2>1. ~(k < i) /\ ~(i < k)
      <3>1. ~(k \in 1..(i - 1)) /\ ~(i \in 1..(k - 1))
        BY <1>3
      <3>2. QED
        BY <1>1, <3>1
    <2>2. QED
      BY <1>1, <2>1
  <1>5. QED
    BY <1>2, <1>3, <1>4

\* A list decides as its first part does, if that one does.
LEMMA DecisionConcat ==
    ASSUME NEW s, NEW t, IsSeq(s), IsSeq(t), NEW c
    PROVE  /\ Decides(s \o t, c) <=> Decides(s, c) \/ Decides(t, c)
           /\ Decides(s, c) => Decision(s \o t, c) = Decision(s, c)
           /\ (~Decides(s, c) /\ Decides(t, c)) => Decision(s \o t, c) = Decision(t, c)
  <1> DEFINE u == s \o t
  <1>1. /\ Len(s) \in Nat /\ Len(t) \in Nat
        /\ DOMAIN s = 1..Len(s) /\ DOMAIN t = 1..Len(t)
        /\ IsSeq(u) /\ Len(u) = Len(s) + Len(t)
        /\ \A i \in 1..Len(s) : u[i] = s[i]
        /\ \A i \in 1..Len(t) : u[Len(s) + i] = t[i]
    BY SeqFacts, Concatenation
  <1>2. DOMAIN u = 1..(Len(s) + Len(t))
    BY <1>1, SeqFacts
  <1> HIDE DEF u
  <1>3. ASSUME Decides(s, c)
        PROVE  Decides(u, c) /\ Decision(u, c) = Decision(s, c)
    <2>1. PICK i \in 1..Len(s) : /\ Matches(s[i], c)
                                 /\ \A j \in 1..(i - 1) : ~Matches(s[j], c)
                                 /\ Decision(s, c) = s[i].to
      BY <1>3, FirstMatch
    <2>2. /\ i \in 1..Len(u)
          /\ Matches(u[i], c)
          /\ \A j \in 1..(i - 1) : ~Matches(u[j], c)
      <3>1. \A j \in 1..(i - 1) : j \in 1..Len(s)
        BY <1>1
      <3>2. QED
        BY <1>1, <2>1, <3>1
    <2>3. Decides(u, c) /\ Decision(u, c) = u[i].to
      BY <1>1, <2>2, DecisionIs
    <2>4. QED
      BY <1>1, <2>1, <2>3
  <1>4. ASSUME ~Decides(s, c), Decides(t, c)
        PROVE  Decides(u, c) /\ Decision(u, c) = Decision(t, c)
    <2>1. PICK i \in 1..Len(t) : /\ Matches(t[i], c)
                                 /\ \A j \in 1..(i - 1) : ~Matches(t[j], c)
                                 /\ Decision(t, c) = t[i].to
      BY <1>4, FirstMatch
    <2>2. \A j \in 1..Len(s) : ~Matches(s[j], c)
      BY <1>1, <1>4 DEF Decides
    <2>3. \A j \in 1..(Len(s) + i - 1) : j \in 1..Len(s) \/ (j - Len(s) \in 1..(i - 1) /\ j = Len(s) + (j - Len(s)))
      BY <1>1
    <2>4. \A j \in 1..(i - 1) : j \in 1..Len(t)
      BY <1>1
    <2>5. \A j \in 1..(Len(s) + i - 1) : ~Matches(u[j], c)
      BY <1>1, <2>1, <2>2, <2>3, <2>4
    <2>6. Len(s) + i \in 1..Len(u) /\ Matches(u[Len(s) + i], c)
      BY <1>1, <2>1
    <2>7. Decides(u, c) /\ Decision(u, c) = u[Len(s) + i].to
      <3> DEFINE k == Len(s) + i
      <3>1. k \in 1..Len(u) /\ Matches(u[k], c) /\ \A j \in 1..(k - 1) : ~Matches(u[j], c)
        BY <2>5, <2>6
      <3> HIDE DEF k
      <3>2. Decides(u, c) /\ Decision(u, c) = u[k].to
        BY <1>1, <3>1, DecisionIs
      <3>3. QED
        BY <3>2 DEF k
    <2>8. QED
      BY <1>1, <2>1, <2>7
  <1>5. ASSUME Decides(u, c), ~Decides(s, c)
        PROVE  Decides(t, c)
    <2>1. PICK i \in 1..(Len(s) + Len(t)) : Matches(u[i], c)
      BY <1>2, <1>5 DEF Decides
    <2>2. i \notin 1..Len(s)
      BY <1>1, <1>5, <2>1 DEF Decides
    <2>3. i - Len(s) \in 1..Len(t) /\ i = Len(s) + (i - Len(s))
      BY <1>1, <2>2
    <2>4. Matches(t[i - Len(s)], c)
      BY <1>1, <2>1, <2>3
    <2>5. QED
      BY <1>1, <2>3, <2>4 DEF Decides
  <1>6. QED
    BY <1>3, <1>4, <1>5 DEF u

\* The first list that decides, of four and of five one after the other.
LEMMA FourLists ==
    ASSUME NEW s1, NEW s2, NEW s3, NEW s4, IsSeq(s1), IsSeq(s2), IsSeq(s3), IsSeq(s4), NEW c
    PROVE  LET s == s1 \o s2 \o s3 \o s4
           IN  /\ IsSeq(s)
               /\ Decides(s, c) <=> Decides(s1, c) \/ Decides(s2, c) \/ Decides(s3, c) \/ Decides(s4, c)
               /\ Decides(s1, c) => Decision(s, c) = Decision(s1, c)
               /\ (~Decides(s1, c) /\ Decides(s2, c)) => Decision(s, c) = Decision(s2, c)
               /\ (~Decides(s1, c) /\ ~Decides(s2, c) /\ Decides(s3, c))
                      => Decision(s, c) = Decision(s3, c)
               /\ (~Decides(s1, c) /\ ~Decides(s2, c) /\ ~Decides(s3, c) /\ Decides(s4, c))
                      => Decision(s, c) = Decision(s4, c)
  <1> DEFINE u == s1 \o s2
             v == u \o s3
             w == v \o s4
  <1>1. /\ IsSeq(u)
        /\ Decides(u, c) <=> Decides(s1, c) \/ Decides(s2, c)
        /\ Decides(s1, c) => Decision(u, c) = Decision(s1, c)
        /\ (~Decides(s1, c) /\ Decides(s2, c)) => Decision(u, c) = Decision(s2, c)
    BY Concatenation, DecisionConcat
  <1> HIDE DEF u
  <1>2. /\ IsSeq(v)
        /\ Decides(v, c) <=> Decides(u, c) \/ Decides(s3, c)
        /\ Decides(u, c) => Decision(v, c) = Decision(u, c)
        /\ (~Decides(u, c) /\ Decides(s3, c)) => Decision(v, c) = Decision(s3, c)
    BY <1>1, Concatenation, DecisionConcat
  <1> HIDE DEF v
  <1>3. /\ IsSeq(w)
        /\ Decides(w, c) <=> Decides(v, c) \/ Decides(s4, c)
        /\ Decides(v, c) => Decision(w, c) = Decision(v, c)
        /\ (~Decides(v, c) /\ Decides(s4, c)) => Decision(w, c) = Decision(s4, c)
    BY <1>2, Concatenation, DecisionConcat
  <1>4. s1 \o s2 \o s3 \o s4 = w
    BY DEF u, v
  <1> HIDE DEF w
  <1>5. QED
    BY <1>1, <1>2, <1>3, <1>4

\* Five lists one after the other: the first that decides at all decides.
LEMMA FiveLists ==
    ASSUME NEW s1, NEW s2, NEW s3, NEW s4, NEW s5,
           IsSeq(s1), IsSeq(s2), IsSeq(s3), IsSeq(s4), IsSeq(s5), NEW c
    PROVE  LET s == s1 \o s2 \o s3 \o s4 \o s5
           IN  /\ IsSeq(s)
               /\ Decides(s, c) <=> \/ Decides(s1, c) \/ Decides(s2, c) \/ Decides(s3, c)
                                    \/ Decides(s4, c) \/ Decides(s5, c)
               /\ Decides(s1, c) => Decision(s, c) = Decision(s1, c)
               /\ (~Decides(s1, c) /\ Decides(s2, c)) => Decision(s, c) = Decision(s2, c)
               /\ (~Decides(s1, c) /\ ~Decides(s2, c) /\ Decides(s3, c))
                      => Decision(s, c) = Decision(s3, c)
               /\ (~Decides(s1, c) /\ ~Decides(s2, c) /\ ~Decides(s3, c) /\ Decides(s4, c))
                      => Decision(s, c) = Decision(s4, c)
               /\ (/\ ~Decides(s1, c) /\ ~Decides(s2, c) /\ ~Decides(s3, c) /\ ~Decides(s4, c)
                   /\ Decides(s5, c))
                      => Decision(s, c) = Decision(s5, c)
  <1> DEFINE u == s1 \o s2 \o s3 \o s4
             w == u \o s5
  <1>1. /\ IsSeq(u)
        /\ Decides(u, c) <=> Decides(s1, c) \/ Decides(s2, c) \/ Decides(s3, c) \/ Decides(s4, c)
        /\ Decides(s1, c) => Decision(u, c) = Decision(s1, c)
        /\ (~Decides(s1, c) /\ Decides(s2, c)) => Decision(u, c) = Decision(s2, c)
        /\ (~Decides(s1, c) /\ ~Decides(s2, c) /\ Decides(s3, c)) => Decision(u, c) = Decision(s3, c)
        /\ (~Decides(s1, c) /\ ~Decides(s2, c) /\ ~Decides(s3, c) /\ Decides(s4, c))
               => Decision(u, c) = Decision(s4, c)
    BY FourLists
  <1> HIDE DEF u
  <1>2. /\ IsSeq(w)
        /\ Decides(w, c) <=> Decides(u, c) \/ Decides(s5, c)
        /\ Decides(u, c) => Decision(w, c) = Decision(u, c)
        /\ (~Decides(u, c) /\ Decides(s5, c)) => Decision(w, c) = Decision(s5, c)
    BY <1>1, Concatenation, DecisionConcat
  <1>3. s1 \o s2 \o s3 \o s4 \o s5 = w
    BY DEF u
  <1> HIDE DEF w
  <1>4. QED
    BY <1>1, <1>2, <1>3

\* A list of one rule.
LEMMA DecisionOne ==
    ASSUME NEW r, NEW c
    PROVE  /\ Decides(<<r>>, c) <=> Matches(r, c)
           /\ Matches(r, c) => Decision(<<r>>, c) = r.to
  <1>1. IsSeq(<<r>>) /\ Len(<<r>>) = 1 /\ DOMAIN <<r>> = 1..1 /\ <<r>>[1] = r
    BY OneIsSeq
  <1>2. Decides(<<r>>, c) <=> Matches(r, c)
    BY <1>1 DEF Decides
  <1>3. ASSUME Matches(r, c) PROVE Decision(<<r>>, c) = r.to
    <2>1. 1 \in 1..Len(<<r>>) /\ 1..(1 - 1) = {}
      BY <1>1
    <2>2. QED
      BY <1>1, <1>3, <2>1, DecisionIs
  <1>4. QED
    BY <1>2, <1>3

\* Of two rules the first decides if it matches.
LEMMA FirstOfTwo ==
    ASSUME NEW x, NEW y, NEW c, Matches(x, c)
    PROVE  IsSeq(<<x, y>>) /\ Decides(<<x, y>>, c) /\ Decision(<<x, y>>, c) = x.to
  <1> DEFINE s == <<x, y>>
  <1>1. IsSeq(s) /\ Len(s) = 2 /\ s[1] = x
    BY TwoIsSeq
  <1> HIDE DEF s
  <1>2. 1 \in 1..Len(s) /\ 1..(1 - 1) = {}
    BY <1>1
  <1>3. Decides(s, c) /\ Decision(s, c) = x.to
    BY <1>1, <1>2, DecisionIs
  <1>4. QED
    BY <1>1, <1>3 DEF s

\* No rules decide nothing.
LEMMA DecidesEmpty == \A c : ~Decides(<<>>, c)
  BY DEF Decides

\* Flattened lists decide as the first of them that decides does.
LEMMA DecisionFlatten ==
    ASSUME NEW seqs, IsSeq(seqs), \A i \in 1..Len(seqs) : IsSeq(seqs[i]), NEW c
    PROVE  /\ Decides(FlattenSeq(seqs), c) <=> \E i \in 1..Len(seqs) : Decides(seqs[i], c)
           /\ \A i \in 1..Len(seqs) :
                 (Decides(seqs[i], c) /\ \A j \in 1..(i - 1) : ~Decides(seqs[j], c))
                     => Decision(FlattenSeq(seqs), c) = Decision(seqs[i], c)
  <1>0. Len(seqs) \in Nat
    BY SeqFacts
  <1>1. CASE Len(seqs) = 0
    <2>1. seqs = <<>>
      BY <1>1, EmptyIsSeq, SeqEquality
    <2>2. FlattenSeq(seqs) = <<>>
      BY <2>1, <1>1 DEF FlattenSeq
    <2>3. 1..Len(seqs) = {}
      BY <1>1
    <2>4. QED
      BY <2>2, <2>3, DecidesEmpty
  <1>2. CASE Len(seqs) > 0
    <2>1. PICK f : /\ FlattenSeq(seqs) = f[Len(seqs)]
                   /\ f[1] = seqs[1]
                   /\ \A k \in 1..(Len(seqs) - 1) : f[k + 1] = f[k] \o seqs[k + 1]
      BY <1>2, FlattenPrefixes
    <2> DEFINE Some(k) == \E i \in 1..k : Decides(seqs[i], c)
               Is(i) == Decides(seqs[i], c) /\ \A j \in 1..(i - 1) : ~Decides(seqs[j], c)
               T == {k \in 1..Len(seqs) :
                        /\ IsSeq(f[k])
                        /\ Decides(f[k], c) <=> Some(k)
                        /\ \A i \in 1..k : Is(i) => Decision(f[k], c) = Decision(seqs[i], c)}
    <2>2. 1 \in T
      BY <1>0, <1>2, <2>1
    <2>3. ASSUME NEW k \in 1..(Len(seqs) - 1), k \in T PROVE k + 1 \in T
      <3> DEFINE u == seqs[k + 1]
                 s == f[k]
      <3>1. IsSeq(s) /\ IsSeq(u) /\ k + 1 \in 1..Len(seqs)
        BY <1>0, <2>3
      <3>2. /\ IsSeq(s \o u)
            /\ Decides(s \o u, c) <=> Decides(s, c) \/ Decides(u, c)
            /\ Decides(s, c) => Decision(s \o u, c) = Decision(s, c)
            /\ (~Decides(s, c) /\ Decides(u, c)) => Decision(s \o u, c) = Decision(u, c)
        <4> HIDE DEF s, u
        <4>1. QED
          BY <3>1, Concatenation, DecisionConcat
      <3>3. Some(k + 1) <=> Some(k) \/ Decides(u, c)
        <4>1. \A i : i \in 1..(k + 1) <=> (i \in 1..k \/ i = k + 1)
          OBVIOUS
        <4>2. QED
          BY <4>1
      <3>4. f[k + 1] = s \o u
        BY <2>1
      <3>5. Decides(s, c) <=> Some(k)
        BY <2>3
      <3>6. ASSUME NEW i \in 1..(k + 1), Is(i) PROVE Decision(s \o u, c) = Decision(seqs[i], c)
        <4>1. CASE i \in 1..k
          <5>1. Some(k) /\ Decision(s, c) = Decision(seqs[i], c)
            BY <2>3, <3>6, <4>1
          <5> HIDE DEF s, u, Some, Is
          <5>2. QED
            BY <3>2, <3>5, <5>1
        <4>2. CASE i = k + 1
          <5>1. ~Some(k) /\ Decides(u, c) /\ u = seqs[i]
            <6>1. (k + 1) - 1 = k
              OBVIOUS
            <6>2. QED
              BY <3>6, <4>2, <6>1
          <5> HIDE DEF s, u, Some, Is
          <5>2. QED
            BY <3>2, <3>5, <5>1
        <4>3. QED
          BY <4>1, <4>2
      <3> HIDE DEF Some, Is, s, u
      <3>7. QED
        BY <3>1, <3>2, <3>3, <3>4, <3>5, <3>6
    <2>4. Len(seqs) \in T
      <3>1. 1..Len(seqs) \subseteq T
        <4> HIDE DEF T
        <4>1. QED
          BY <1>0, <2>2, <2>3, UpTo
      <3> HIDE DEF T
      <3>2. QED
        BY <1>0, <1>2, <3>1
    <2>5. QED
      BY <2>1, <2>4, Zenon
  <1>3. Len(seqs) = 0 \/ Len(seqs) > 0
    BY <1>0
  <1>4. QED
    BY <1>1, <1>2, <1>3, Zenon

-----------------------------------------------------------------------------
(* Concat, as it expands: one list per element of s, flattened.            *)

\* It decides if one of the lists does, and the first that does gives the
\* target.
LEMMA MapDecision ==
    ASSUME NEW s, IsSeq(s), NEW f, IsMap(f, s), NEW c
    PROVE  /\ Decides(FlattenSeq(f), c) <=> \E i \in 1..Len(s) : Decides(f[i], c)
           /\ \A i \in 1..Len(s) :
                 (Decides(f[i], c) /\ \A j \in 1..(i - 1) : ~Decides(f[j], c))
                     => Decision(FlattenSeq(f), c) = Decision(f[i], c)
           /\ Decides(FlattenSeq(f), c) =>
                 \E i \in 1..Len(s) : /\ Decides(f[i], c)
                                      /\ \A j \in 1..(i - 1) : ~Decides(f[j], c)
                                      /\ Decision(FlattenSeq(f), c) = Decision(f[i], c)
  <1>1. Len(s) \in Nat /\ DOMAIN s = 1..Len(s)
    BY SeqFacts
  <1>2. IsSeq(f) /\ Len(f) = Len(s) /\ \A i \in 1..Len(f) : IsSeq(f[i])
    <2>1. f = [i \in 1..Len(s) |-> f[i]]
      BY <1>1 DEF IsMap
    <2>2. QED
      BY <1>1, <2>1, FunctionIsSeq DEF IsMap
  <1>3. /\ Decides(FlattenSeq(f), c) <=> \E i \in 1..Len(s) : Decides(f[i], c)
        /\ \A i \in 1..Len(s) :
              (Decides(f[i], c) /\ \A j \in 1..(i - 1) : ~Decides(f[j], c))
                  => Decision(FlattenSeq(f), c) = Decision(f[i], c)
    BY <1>2, DecisionFlatten
  <1>4. ASSUME NEW k \in 1..Len(s), Decides(f[k], c)
        PROVE  \E i \in 1..Len(s) : Decides(f[i], c) /\ \A j \in 1..(i - 1) : ~Decides(f[j], c)
    <2> DEFINE Hit == {i \in 1..Len(s) : Decides(f[i], c)}
    <2>1. Hit \subseteq Nat /\ Hit # {}
      BY <1>1, <1>4
    <2>2. PICK i \in Hit : \A j \in Hit : i <= j
      <3> HIDE DEF Hit
      <3>1. QED
        BY <2>1, Least
    <2>3. \A j \in 1..(i - 1) : j \in 1..Len(s) /\ ~(i <= j)
      BY <1>1, <2>2
    <2>4. QED
      BY <2>2, <2>3
  <1>5. QED
    BY <1>3, <1>4

\* Only: elements and decision.
LEMMA OnlyFacts ==
    ASSUME NEW b \in BOOLEAN, NEW x
    PROVE  /\ IsSeq(Only(b, x))
           /\ ToSet(Only(b, x)) = IF b THEN {x} ELSE {}
           /\ \A c : /\ Decides(Only(b, x), c) <=> b /\ Matches(x, c)
                     /\ (b /\ Matches(x, c)) => Decision(Only(b, x), c) = x.to
  <1>1. CASE b
    BY <1>1, OneIsSeq, DecisionOne DEF Only
  <1>2. CASE ~b
    BY <1>2, EmptyIsSeq, DecidesEmpty DEF Only
  <1>3. QED
    BY <1>1, <1>2

\* The lists of a topology are sequences.
LEMMA Shapes ==
    ASSUME NEW t \in TopologyRecords
    PROVE  /\ t.exits \in Seq(ExitRegionRecords) /\ IsSeq(t.exits)
           /\ t.portals \in Seq(PortalRecords) /\ IsSeq(t.portals)
           /\ t.routes \in Seq(HubRouteRecords) /\ IsSeq(t.routes)
           /\ t.globals \in Seq(ExitRouteRecords) /\ IsSeq(t.globals)
           /\ \A r \in ToSet(t.exits) : /\ r \in ExitRegionRecords
                                        /\ IsSeq(r.nodes) /\ IsSeq(r.routes) /\ IsSeq(r.id)
                                        /\ \A n \in ToSet(r.nodes) :
                                              n \in ExitNodeRecords /\ IsSeq(n.id)
           /\ \A p \in ToSet(t.portals) : /\ p \in PortalRecords /\ IsSeq(p.id)
                                          /\ IsSeq(p.publish)
                                          /\ ToSet(p.publish) \subseteq PublishRecords
           /\ ToSet(t.routes) \subseteq HubRouteRecords
  <1>1. /\ t.exits \in Seq(ExitRegionRecords) /\ t.portals \in Seq(PortalRecords)
        /\ t.routes \in Seq(HubRouteRecords) /\ t.globals \in Seq(ExitRouteRecords)
    BY DEF TopologyRecords
  <1>2. /\ IsSeq(t.exits) /\ IsSeq(t.portals) /\ IsSeq(t.routes) /\ IsSeq(t.globals)
        /\ ToSet(t.exits) \subseteq ExitRegionRecords /\ ToSet(t.portals) \subseteq PortalRecords
        /\ ToSet(t.routes) \subseteq HubRouteRecords
    BY <1>1, SeqFromSet
  <1>3. ASSUME NEW r \in ToSet(t.exits)
        PROVE  /\ r \in ExitRegionRecords
               /\ IsSeq(r.nodes) /\ IsSeq(r.routes) /\ IsSeq(r.id)
               /\ \A n \in ToSet(r.nodes) : n \in ExitNodeRecords /\ IsSeq(n.id)
    <2>1. r \in ExitRegionRecords
      BY <1>2
    <2>2. /\ r.nodes \in Seq(ExitNodeRecords) /\ r.routes \in Seq(ExitRouteRecords)
          /\ r.id \in Seq(STRING)
      BY <2>1 DEF ExitRegionRecords, Id
    <2>3. /\ IsSeq(r.nodes) /\ IsSeq(r.routes) /\ IsSeq(r.id)
          /\ ToSet(r.nodes) \subseteq ExitNodeRecords
      BY <2>2, SeqFromSet
    <2>4. \A n \in ExitNodeRecords : n.id \in Seq(STRING)
      BY DEF ExitNodeRecords, Id
    <2>5. QED
      BY <2>1, <2>3, <2>4, SeqFromSet
  <1>4. ASSUME NEW p \in ToSet(t.portals)
        PROVE  /\ p \in PortalRecords /\ IsSeq(p.id) /\ IsSeq(p.publish)
               /\ ToSet(p.publish) \subseteq PublishRecords
    <2>1. p \in PortalRecords
      BY <1>2
    <2>2. p.publish \in Seq(PublishRecords) /\ p.id \in Seq(STRING)
      BY <2>1 DEF PortalRecords, Id
    <2>3. QED
      BY <2>1, <2>2, SeqFromSet
  <1>5. QED
    BY <1>1, <1>2, <1>3, <1>4

-----------------------------------------------------------------------------
(* Regions, balancers and links.                                           *)

\* The rendered regions are those with nodes.
LEMMA RenderedElements ==
    ASSUME NEW t \in TopologyRecords
    PROVE  /\ IsSeq(RenderedExits(t))
           /\ ToSet(RenderedExits(t)) = {r \in ToSet(t.exits) : r.nodes # <<>>}
  <1> DEFINE f == [i \in DOMAIN t.exits |-> Only(t.exits[i].nodes # <<>>, t.exits[i])]
  <1>1. RenderedExits(t) = FlattenSeq(f)
    BY DEF RenderedExits, Where, Concat
  <1>2. IsSeq(t.exits) /\ DOMAIN t.exits = 1..Len(t.exits)
    BY Shapes, SeqFacts
  <1>3. \A i \in 1..Len(t.exits) :
            /\ IsSeq(f[i])
            /\ ToSet(f[i]) = IF t.exits[i].nodes # <<>> THEN {t.exits[i]} ELSE {}
    BY <1>2, OnlyFacts
  <1>4. IsMap(f, t.exits)
    BY <1>2, <1>3 DEF IsMap
  <1> HIDE DEF f
  <1> DEFINE T == {r \in ToSet(t.exits) : r.nodes # <<>>}
  <1>5. \A i \in 1..Len(t.exits) : t.exits[i] \in T <=> t.exits[i].nodes # <<>>
    BY <1>2 DEF ToSet
  <1>6. T \subseteq ToSet(t.exits)
    OBVIOUS
  <1> HIDE DEF T
  <1>7. \A i \in 1..Len(t.exits) :
            ToSet(f[i]) = IF t.exits[i] \in T THEN {t.exits[i]} ELSE {}
    BY <1>3, <1>5
  <1>8. IsSeq(FlattenSeq(f)) /\ ToSet(FlattenSeq(f)) = T
    BY <1>2, <1>4, <1>6, <1>7, FilterElements
  <1>9. QED
    BY <1>1, <1>8 DEF T

\* One balancer per balanced region, and one for its warp.
LEMMA BalancerElements ==
    ASSUME NEW t \in TopologyRecords
    PROVE  \A b : b \in ToSet(Balancers(t)) <=>
               \E r \in ToSet(t.exits) :
                   /\ Balanced(r)
                   /\ \/ b = BalancerOf(r.id, FallbackTag(r))
                      \/ /\ r.warp # NoRoute
                         /\ b = BalancerOf(WarpPrefix \o r.id, WarpPrefix \o FallbackTag(r))
  <1> DEFINE f == [i \in DOMAIN t.exits |-> Only(Balanced(t.exits[i]), t.exits[i])]
             w == FlattenSeq(f)
             Of(r) == <<BalancerOf(r.id, FallbackTag(r))>>
                      \o Only(r.warp # NoRoute,
                              BalancerOf(WarpPrefix \o r.id, WarpPrefix \o FallbackTag(r)))
             g == [i \in DOMAIN w |-> Of(w[i])]
  <1>1. Balancers(t) = FlattenSeq(g)
    BY DEF Balancers, Where, Concat
  <1>2. IsSeq(t.exits) /\ DOMAIN t.exits = 1..Len(t.exits)
    BY Shapes, SeqFacts
  <1>3. \A i \in 1..Len(t.exits) :
            IsSeq(f[i]) /\ ToSet(f[i]) = IF Balanced(t.exits[i]) THEN {t.exits[i]} ELSE {}
    BY <1>2, OnlyFacts DEF Balanced
  <1>4. IsMap(f, t.exits)
    BY <1>2, <1>3 DEF IsMap
  <1>5. IsSeq(w) /\ ToSet(w) = {x \in ToSet(t.exits) : Balanced(x)}
    <2> HIDE DEF f
    <2> DEFINE T == {x \in ToSet(t.exits) : Balanced(x)}
    <2>1. \A i \in 1..Len(t.exits) : t.exits[i] \in T <=> Balanced(t.exits[i])
      BY <1>2 DEF ToSet
    <2>2. T \subseteq ToSet(t.exits)
      OBVIOUS
    <2> HIDE DEF T
    <2>3. \A i \in 1..Len(t.exits) :
              ToSet(f[i]) = IF t.exits[i] \in T THEN {t.exits[i]} ELSE {}
      BY <1>3, <2>1
    <2> HIDE DEF f
    <2>4. IsSeq(FlattenSeq(f)) /\ ToSet(FlattenSeq(f)) = T
      BY <1>2, <1>4, <2>2, <2>3, FilterElements
    <2>5. QED
      BY <2>4 DEF T
  <1>6. \A r : /\ IsSeq(Of(r))
               /\ \A b : b \in ToSet(Of(r)) <=>
                     \/ b = BalancerOf(r.id, FallbackTag(r))
                     \/ /\ r.warp # NoRoute
                        /\ b = BalancerOf(WarpPrefix \o r.id, WarpPrefix \o FallbackTag(r))
    <2> TAKE r
    <2> DEFINE a == <<BalancerOf(r.id, FallbackTag(r))>>
               x == BalancerOf(WarpPrefix \o r.id, WarpPrefix \o FallbackTag(r))
               b == Only(r.warp # NoRoute, x)
    <2>1. IsSeq(a) /\ ToSet(a) = {BalancerOf(r.id, FallbackTag(r))}
      BY OneIsSeq
    <2>2. IsSeq(b) /\ ToSet(b) = IF r.warp # NoRoute THEN {x} ELSE {}
      BY OnlyFacts
    <2>3. IsSeq(a \o b) /\ ToSet(a \o b) = ToSet(a) \cup ToSet(b)
      <3> HIDE DEF a, b
      <3>1. QED
        BY <2>1, <2>2, Concatenation
    <2>4. QED
      BY <2>1, <2>2, <2>3
  <1> HIDE DEF w, Of
  <1>7. DOMAIN w = 1..Len(w) /\ ToSet(w) = {w[i] : i \in 1..Len(w)}
    BY <1>5, SeqFacts DEF ToSet
  <1>8. IsMap(g, w) /\ \A i \in 1..Len(w) : g[i] = Of(w[i])
    BY <1>6, <1>7 DEF IsMap
  <1> HIDE DEF g
  <1>9. \A x : x \in ToSet(FlattenSeq(g)) <=> \E i \in 1..Len(w) : x \in ToSet(g[i])
    BY <1>5, <1>8, MapElements
  <1>10. \A x : x \in ToSet(FlattenSeq(g)) <=> \E r \in ToSet(w) : x \in ToSet(Of(r))
    BY <1>7, <1>8, <1>9
  <1>11. QED
    BY <1>1, <1>5, <1>6, <1>10

-----------------------------------------------------------------------------
(* Published ports.                                                        *)

OnHub(p, hub) == {e \in ToSet(p.publish) : e.nodes = Everywhere \/ hub \in e.nodes}
Pub(p, e) == [tag |-> PublishTag(p.id, e.port), portal |-> p.id, target |-> e.target, allow |-> e.allow]

PublishedOf(p, hub) ==
    Concat(Where(p.publish, LAMBDA e : e.nodes = Everywhere \/ hub \in e.nodes),
           LAMBDA e : <<Pub(p, e)>>)

\* The ports of one portal that a hub binds.
LEMMA PublishedOfPortal ==
    ASSUME NEW p, IsSeq(p.publish), NEW hub
    PROVE  /\ IsSeq(PublishedOf(p, hub))
           /\ \A x : x \in ToSet(PublishedOf(p, hub)) <=> \E e \in OnHub(p, hub) : x = Pub(p, e)
  <1> DEFINE s == p.publish
             w == Where(s, LAMBDA e : e.nodes = Everywhere \/ hub \in e.nodes)
             g == [i \in DOMAIN w |-> <<Pub(p, w[i])>>]
             f == [i \in DOMAIN s |-> Only(s[i].nodes = Everywhere \/ hub \in s[i].nodes, s[i])]
  <1>0. PublishedOf(p, hub) = FlattenSeq(g)
    BY DEF PublishedOf, Concat
  <1>1. w = FlattenSeq(f)
    BY DEF Where, Concat
  <1> HIDE DEF w
  <1>2. DOMAIN s = 1..Len(s) /\ \A i \in 1..Len(s) : s[i] \in ToSet(s)
    BY SeqFacts DEF ToSet
  <1>3. \A i \in 1..Len(s) :
            /\ IsSeq(f[i])
            /\ ToSet(f[i]) = IF s[i].nodes = Everywhere \/ hub \in s[i].nodes THEN {s[i]} ELSE {}
    <2> TAKE i \in 1..Len(s)
    <2> DEFINE b == s[i].nodes = Everywhere \/ hub \in s[i].nodes
               x == s[i]
    <2>1. f[i] = Only(b, x)
      BY <1>2
    <2>2. b \in BOOLEAN
      OBVIOUS
    <2> HIDE DEF b, x, f
    <2>3. IsSeq(f[i]) /\ ToSet(f[i]) = IF b THEN {x} ELSE {}
      BY <2>1, <2>2, OnlyFacts
    <2>4. QED
      BY <2>3 DEF b, x
  <1>4. IsMap(f, s)
    BY <1>2, <1>3 DEF IsMap
  <1>5. OnHub(p, hub) \subseteq ToSet(s)
    BY DEF OnHub
  <1>6. \A i \in 1..Len(s) : ToSet(f[i]) = IF s[i] \in OnHub(p, hub) THEN {s[i]} ELSE {}
    BY <1>2, <1>3 DEF OnHub
  <1>7. IsSeq(w) /\ ToSet(w) = OnHub(p, hub)
    <2> HIDE DEF f, s
    <2>1. IsSeq(s)
      BY DEF s
    <2>2. QED
      BY <1>1, <1>4, <1>5, <1>6, <2>1, FilterElements
  <1>8. /\ DOMAIN w = 1..Len(w)
        /\ \A i \in 1..Len(w) : w[i] \in ToSet(w)
        /\ \A y \in ToSet(w) : \E i \in 1..Len(w) : y = w[i]
    BY <1>7, SeqFacts, Elements
  <1>9. IsMap(g, w) /\ \A i \in 1..Len(w) : ToSet(g[i]) = {Pub(p, w[i])}
    BY <1>8, OneIsSeq DEF IsMap
  <1> HIDE DEF g
  <1>10. /\ IsSeq(FlattenSeq(g))
         /\ \A x : x \in ToSet(FlattenSeq(g)) <=> \E i \in 1..Len(w) : x \in ToSet(g[i])
    BY <1>7, <1>9, MapElements
  <1>11. \A x : x \in ToSet(FlattenSeq(g)) <=> \E e \in ToSet(w) : x = Pub(p, e)
    <2>1. ASSUME NEW e \in ToSet(w) PROVE Pub(p, e) \in ToSet(FlattenSeq(g))
      BY <1>8, <1>9, <1>10
    <2>2. ASSUME NEW x \in ToSet(FlattenSeq(g)) PROVE \E e \in ToSet(w) : x = Pub(p, e)
      BY <1>8, <1>9, <1>10
    <2>3. QED
      BY <2>1, <2>2
  <1>12. QED
    BY <1>0, <1>7, <1>10, <1>11

\* The ports a hub binds are those published for it.
LEMMA PublishedElements ==
    ASSUME NEW t \in TopologyRecords, NEW hub
    PROVE  /\ IsSeq(Published(t, hub))
           /\ \A x : x \in ToSet(Published(t, hub)) <=>
                 \E p \in ToSet(t.portals) : \E e \in OnHub(p, hub) : x = Pub(p, e)
  <1> DEFINE s == t.portals
             f == [i \in DOMAIN s |-> PublishedOf(s[i], hub)]
  <1>1. Published(t, hub) = FlattenSeq(f)
    BY DEF Published, Concat, Pub, PublishedOf
  <1>2. /\ IsSeq(s) /\ DOMAIN s = 1..Len(s)
        /\ \A i \in 1..Len(s) : s[i] \in ToSet(s)
        /\ \A p \in ToSet(s) : IsSeq(p.publish) /\ \E i \in 1..Len(s) : p = s[i]
    BY Shapes, SeqFacts, Elements
  <1>3. \A i \in 1..Len(s) :
            /\ IsSeq(f[i])
            /\ \A x : x \in ToSet(f[i]) <=> \E e \in OnHub(s[i], hub) : x = Pub(s[i], e)
    <2> HIDE DEF s
    <2>1. QED
      BY <1>2, PublishedOfPortal
  <1>4. IsMap(f, s)
    BY <1>2, <1>3 DEF IsMap
  <1> HIDE DEF f, s
  <1>5. /\ IsSeq(FlattenSeq(f))
        /\ \A x : x \in ToSet(FlattenSeq(f)) <=> \E i \in 1..Len(s) : x \in ToSet(f[i])
    BY <1>2, <1>4, MapElements
  <1>6. \A x : x \in ToSet(FlattenSeq(f)) <=>
            \E p \in ToSet(s) : \E e \in OnHub(p, hub) : x = Pub(p, e)
    <2>1. ASSUME NEW p \in ToSet(s), NEW e \in OnHub(p, hub)
          PROVE  Pub(p, e) \in ToSet(FlattenSeq(f))
      BY <1>2, <1>3, <1>5
    <2>2. ASSUME NEW x \in ToSet(FlattenSeq(f))
          PROVE  \E p \in ToSet(s) : \E e \in OnHub(p, hub) : x = Pub(p, e)
      BY <1>2, <1>3, <1>5
    <2>3. QED
      BY <2>1, <2>2
  <1>7. QED
    BY <1>1, <1>5, <1>6 DEF s

\* What a published port decides: its tunnel for allowed sources, else nothing.
PublishTarget(pub, source) ==
    IF pub.allow = {} \/ source \in pub.allow THEN Outbound(PortalTag(pub.portal))
    ELSE Outbound(Blocked)

\* The rules of published ports look at the inbound first: only its own
\* portal's tunnel, or blocked.
LEMMA PublishDecision ==
    ASSUME NEW t \in TopologyRecords, NEW hub, NEW c
    PROVE  /\ IsSeq(PublishRules(t, hub))
           /\ Decides(PublishRules(t, hub), c) <=> \E pub \in ToSet(Published(t, hub)) : c.in = pub.tag
           /\ Decides(PublishRules(t, hub), c) =>
                 \E pub \in ToSet(Published(t, hub)) :
                     /\ c.in = pub.tag
                     /\ Decision(PublishRules(t, hub), c) = PublishTarget(pub, c.source)
  <1> DEFINE Of(pub) ==
               IF pub.allow = {}
               THEN <<Rule([in |-> {pub.tag}], Outbound(PortalTag(pub.portal)))>>
               ELSE <<Rule([in |-> {pub.tag}, source |-> pub.allow], Outbound(PortalTag(pub.portal))),
                      Rule([in |-> {pub.tag}], Outbound(Blocked))>>
             s == Published(t, hub)
             f == [i \in DOMAIN s |-> Of(s[i])]
  <1>1. PublishRules(t, hub) = FlattenSeq(f)
    BY DEF PublishRules, Concat
  <1>2. /\ IsSeq(s) /\ DOMAIN s = 1..Len(s)
        /\ \A i \in 1..Len(s) : s[i] \in ToSet(s)
        /\ \A pub \in ToSet(s) : \E i \in 1..Len(s) : pub = s[i]
    BY PublishedElements, SeqFacts, Elements
  <1>3. ASSUME NEW pub
        PROVE  /\ IsSeq(Of(pub))
               /\ Decides(Of(pub), c) <=> c.in = pub.tag
               /\ Decides(Of(pub), c) => Decision(Of(pub), c) = PublishTarget(pub, c.source)
    <2>1. CASE pub.allow = {}
      <3> DEFINE r == Rule([in |-> {pub.tag}], Outbound(PortalTag(pub.portal)))
      <3>1. Of(pub) = <<r>>
        BY <2>1
      <3>2. /\ Matches(r, c) <=> c.in = pub.tag
            /\ r.to = PublishTarget(pub, c.source)
        BY <2>1 DEF Matches, Rule, PublishTarget
      <3> HIDE DEF r, Of
      <3>3. QED
        BY <3>1, <3>2, DecisionOne, OneIsSeq
    <2>2. CASE pub.allow # {}
      <3> DEFINE r == Rule([in |-> {pub.tag}, source |-> pub.allow], Outbound(PortalTag(pub.portal)))
                 q == Rule([in |-> {pub.tag}], Outbound(Blocked))
      <3>1. Of(pub) = <<r>> \o <<q>>
        BY <2>2
      <3>2. /\ Matches(r, c) <=> c.in = pub.tag /\ c.source \in pub.allow
            /\ Matches(q, c) <=> c.in = pub.tag
            /\ c.source \in pub.allow => r.to = PublishTarget(pub, c.source)
            /\ c.source \notin pub.allow => q.to = PublishTarget(pub, c.source)
        BY <2>2 DEF Matches, Rule, PublishTarget
      <3> DEFINE a == <<r>>
                 b == <<q>>
      <3>3. /\ IsSeq(a) /\ IsSeq(b)
            /\ Decides(a, c) <=> Matches(r, c)
            /\ Matches(r, c) => Decision(a, c) = r.to
            /\ Decides(b, c) <=> Matches(q, c)
            /\ Matches(q, c) => Decision(b, c) = q.to
        <4> HIDE DEF r, q
        <4>1. QED
          BY DecisionOne, OneIsSeq
      <3>4. /\ IsSeq(a \o b)
            /\ Decides(a \o b, c) <=> Decides(a, c) \/ Decides(b, c)
            /\ Decides(a, c) => Decision(a \o b, c) = Decision(a, c)
            /\ (~Decides(a, c) /\ Decides(b, c)) => Decision(a \o b, c) = Decision(b, c)
        <4> HIDE DEF a, b
        <4>1. QED
          BY <3>3, Concatenation, DecisionConcat
      <3>5. Of(pub) = a \o b
        BY <3>1
      <3> HIDE DEF r, q, a, b, Of
      <3>6. QED
        BY <3>2, <3>3, <3>4, <3>5
    <2>3. QED
      BY <2>1, <2>2
  <1> HIDE DEF Of
  <1>4. IsMap(f, s) /\ \A i \in 1..Len(s) : f[i] = Of(s[i])
    BY <1>2, <1>3 DEF IsMap
  <1> HIDE DEF f, s
  <1>5. /\ IsSeq(FlattenSeq(f))
        /\ Decides(FlattenSeq(f), c) <=> \E i \in 1..Len(s) : Decides(f[i], c)
        /\ Decides(FlattenSeq(f), c) =>
              \E i \in 1..Len(s) : Decides(f[i], c) /\ Decision(FlattenSeq(f), c) = Decision(f[i], c)
    BY <1>2, <1>4, MapElements, MapDecision
  <1>6. Decides(FlattenSeq(f), c) <=> \E pub \in ToSet(s) : c.in = pub.tag
    BY <1>2, <1>3, <1>4, <1>5
  <1>7. ASSUME Decides(FlattenSeq(f), c)
        PROVE  \E pub \in ToSet(s) :
                  c.in = pub.tag /\ Decision(FlattenSeq(f), c) = PublishTarget(pub, c.source)
    <2>1. PICK i \in 1..Len(s) : Decides(f[i], c) /\ Decision(FlattenSeq(f), c) = Decision(f[i], c)
      BY <1>5, <1>7
    <2>2. /\ s[i] \in ToSet(s) /\ c.in = s[i].tag
          /\ Decision(FlattenSeq(f), c) = PublishTarget(s[i], c.source)
      BY <1>2, <1>3, <1>4, <2>1
    <2>3. QED
      BY <2>2
  <1>8. QED
    BY <1>1, <1>5, <1>6, <1>7 DEF s

\* When the rule of the resolvers matches.
LEMMA DnsMatches ==
    ASSUME NEW t, NEW c
    PROVE  /\ Matches(DnsRule(t), c) <=> c.ip \in t.dns /\ c.port = DnsPort
           /\ DnsRule(t).to = Outbound(Direct)
  BY DEF Matches, DnsRule, Rule

-----------------------------------------------------------------------------
(* The vless routes of regions.                                            *)

\* The vless rules decide for the routes of rendered regions, and lead to that
\* region or its warp.
LEMMA VlessDecision ==
    ASSUME NEW t \in TopologyRecords, NEW c
    PROVE  /\ IsSeq(VlessRules(t))
           /\ \A r \in ToSet(t.exits) :
                 (r.nodes # <<>> /\ (c.vroute = r.vroute \/ (r.warp # NoRoute /\ c.vroute = r.warp)))
                     => Decides(VlessRules(t), c)
           /\ Decides(VlessRules(t), c) =>
                 \E r \in ToSet(t.exits) :
                     /\ r.nodes # <<>>
                     /\ \/ /\ c.vroute = r.vroute
                           /\ Decision(VlessRules(t), c) = RegionTarget(r)
                        \/ /\ r.warp # NoRoute /\ c.vroute = r.warp
                           /\ Decision(VlessRules(t), c) = RegionWarpTarget(r)
  <1> DEFINE s == RenderedExits(t)
             f == [i \in DOMAIN s |-> <<Rule([vroute |-> {s[i].vroute}], RegionTarget(s[i]))>>]
             g == [i \in DOMAIN s |->
                      Only(s[i].warp # NoRoute, Rule([vroute |-> {s[i].warp}], RegionWarpTarget(s[i])))]
             a == FlattenSeq(f)
             b == FlattenSeq(g)
  <1>1. VlessRules(t) = a \o b
    BY DEF VlessRules, Concat
  <1>2. /\ IsSeq(s) /\ DOMAIN s = 1..Len(s)
        /\ \A r \in ToSet(s) : r \in ToSet(t.exits) /\ r.nodes # <<>>
        /\ \A r \in ToSet(t.exits) : r.nodes # <<>> => r \in ToSet(s)
        /\ \A i \in 1..Len(s) : s[i] \in ToSet(s)
        /\ \A r \in ToSet(s) : \E i \in 1..Len(s) : r = s[i]
    <2>1. IsSeq(s) /\ ToSet(s) = {r \in ToSet(t.exits) : r.nodes # <<>>}
      BY RenderedElements
    <2> HIDE DEF s
    <2>2. QED
      BY <2>1, SeqFacts, Elements
  <1> HIDE DEF s
  <1>3. \A i \in 1..Len(s) :
            /\ IsSeq(f[i])
            /\ Decides(f[i], c) <=> c.vroute = s[i].vroute
            /\ Decides(f[i], c) => Decision(f[i], c) = RegionTarget(s[i])
    <2> TAKE i \in 1..Len(s)
    <2> DEFINE x == Rule([vroute |-> {s[i].vroute}], RegionTarget(s[i]))
    <2>1. (Matches(x, c) <=> c.vroute = s[i].vroute) /\ x.to = RegionTarget(s[i])
      BY DEF Matches, Rule
    <2>2. f[i] = <<x>>
      BY <1>2
    <2> HIDE DEF x, f
    <2>3. QED
      BY <2>1, <2>2, OneIsSeq, DecisionOne
  <1>4. \A i \in 1..Len(s) :
            /\ IsSeq(g[i])
            /\ Decides(g[i], c) <=> (s[i].warp # NoRoute /\ c.vroute = s[i].warp)
            /\ Decides(g[i], c) => Decision(g[i], c) = RegionWarpTarget(s[i])
    <2> TAKE i \in 1..Len(s)
    <2> DEFINE x == Rule([vroute |-> {s[i].warp}], RegionWarpTarget(s[i]))
               d == s[i].warp # NoRoute
    <2>1. (Matches(x, c) <=> c.vroute = s[i].warp) /\ x.to = RegionWarpTarget(s[i])
      BY DEF Matches, Rule
    <2>2. g[i] = Only(d, x) /\ d \in BOOLEAN
      BY <1>2
    <2>3. /\ IsSeq(g[i])
          /\ Decides(g[i], c) <=> d /\ Matches(x, c)
          /\ (d /\ Matches(x, c)) => Decision(g[i], c) = x.to
      <3> HIDE DEF x, d, g
      <3>1. QED
        BY <2>2, OnlyFacts
    <2> HIDE DEF x, g
    <2>4. QED
      BY <2>1, <2>3
  <1>5. IsMap(f, s) /\ IsMap(g, s)
    BY <1>2, <1>3, <1>4 DEF IsMap
  <1> HIDE DEF f, g
  <1>6. /\ IsSeq(a)
        /\ Decides(a, c) <=> \E i \in 1..Len(s) : Decides(f[i], c)
        /\ Decides(a, c) => \E i \in 1..Len(s) : Decides(f[i], c) /\ Decision(a, c) = Decision(f[i], c)
    BY <1>2, <1>5, MapElements, MapDecision
  <1>7. /\ IsSeq(b)
        /\ Decides(b, c) <=> \E i \in 1..Len(s) : Decides(g[i], c)
        /\ Decides(b, c) => \E i \in 1..Len(s) : Decides(g[i], c) /\ Decision(b, c) = Decision(g[i], c)
    BY <1>2, <1>5, MapElements, MapDecision
  <1> HIDE DEF a, b
  <1>8. /\ IsSeq(a \o b)
        /\ Decides(a \o b, c) <=> Decides(a, c) \/ Decides(b, c)
        /\ Decides(a, c) => Decision(a \o b, c) = Decision(a, c)
        /\ (~Decides(a, c) /\ Decides(b, c)) => Decision(a \o b, c) = Decision(b, c)
    BY <1>6, <1>7, Concatenation, DecisionConcat
  <1>9. ASSUME NEW r \in ToSet(t.exits), r.nodes # <<>>,
               c.vroute = r.vroute \/ (r.warp # NoRoute /\ c.vroute = r.warp)
        PROVE  Decides(a \o b, c)
    <2>1. PICK i \in 1..Len(s) : r = s[i]
      BY <1>2, <1>9
    <2>2. QED
      BY <1>3, <1>4, <1>6, <1>7, <1>8, <1>9, <2>1
  <1>10. ASSUME Decides(a, c)
         PROVE  \E r \in ToSet(t.exits) :
                   r.nodes # <<>> /\ c.vroute = r.vroute /\ Decision(a \o b, c) = RegionTarget(r)
    <2>1. PICK i \in 1..Len(s) : Decides(f[i], c) /\ Decision(a, c) = Decision(f[i], c)
      BY <1>6, <1>10
    <2>2. s[i] \in ToSet(t.exits) /\ s[i].nodes # <<>>
      BY <1>2
    <2>3. QED
      BY <1>3, <1>8, <1>10, <2>1, <2>2
  <1>11. ASSUME ~Decides(a, c), Decides(b, c)
         PROVE  \E r \in ToSet(t.exits) :
                   /\ r.nodes # <<>> /\ r.warp # NoRoute /\ c.vroute = r.warp
                   /\ Decision(a \o b, c) = RegionWarpTarget(r)
    <2>1. PICK i \in 1..Len(s) : Decides(g[i], c) /\ Decision(b, c) = Decision(g[i], c)
      BY <1>7, <1>11
    <2>2. s[i] \in ToSet(t.exits) /\ s[i].nodes # <<>>
      BY <1>2
    <2>3. QED
      BY <1>4, <1>8, <1>11, <2>1, <2>2
  <1>12. QED
    BY <1>1, <1>8, <1>9, <1>10, <1>11

-----------------------------------------------------------------------------
(* Portals' members and hub_routes.                                        *)

\* s is a list that decides whether `hit` holds, always the same way.
Decisive(s, c, hit, to) ==
    /\ IsSeq(s)
    /\ Decides(s, c) <=> hit
    /\ Decides(s, c) => Decision(s, c) = to

\* Two lists that lead to one target, one after the other.
LEMMA DecisiveConcat ==
    ASSUME NEW s, NEW t, NEW c, NEW to, NEW a \in BOOLEAN, NEW b \in BOOLEAN,
           Decisive(s, c, a, to), Decisive(t, c, b, to)
    PROVE  Decisive(s \o t, c, a \/ b, to)
  BY Concatenation, DecisionConcat DEF Decisive

\* A rule that is there under a condition.
LEMMA DecisiveOnly ==
    ASSUME NEW d \in BOOLEAN, NEW r, NEW c, NEW hit \in BOOLEAN, NEW to,
           (d /\ Matches(r, c)) <=> hit, r.to = to
    PROVE  Decisive(Only(d, r), c, hit, to)
  BY OnlyFacts DEF Decisive

\* What rules about a connection's name or address and its user match.
LEMMA DomainUserMatches ==
    ASSUME NEW D, NEW U, NEW to, NEW c, NEW x, x = Rule([domain |-> D, user |-> U], to)
    PROVE  /\ Matches(x, c) <=> c.user \in U /\ c.domain \in D
           /\ x.to = to
  BY DEF Matches, Rule

\* What rules of each shape compare.
LEMMA IpUserMatches ==
    ASSUME NEW D, NEW U, NEW to, NEW c, NEW x, x = Rule([ip |-> D, user |-> U], to)
    PROVE  /\ Matches(x, c) <=> c.user \in U /\ c.ip \in D
           /\ x.to = to
  BY DEF Matches, Rule

LEMMA UserMatches ==
    ASSUME NEW U, NEW to, NEW c, NEW x, x = Rule([user |-> U], to)
    PROVE  /\ Matches(x, c) <=> c.user \in U
           /\ x.to = to
  BY DEF Matches, Rule

LEMMA FilteredDomainMatches ==
    ASSUME NEW D, NEW U, NEW to, NEW c, NEW x, x = Rule(Filtered([domain |-> D], U), to)
    PROVE  /\ Matches(x, c) <=> (U = {} \/ c.user \in U) /\ c.domain \in D
           /\ x.to = to
  <1>1. CASE U = {}
    BY <1>1 DEF Filtered, Matches, Rule
  <1>2. CASE U # {}
    <2> DEFINE w == [domain |-> D]
    <2>1. DOMAIN w = {"domain"} /\ w["domain"] = D
      OBVIOUS
    <2>2. Filtered(w, U) = [f \in {"domain", "user"} |-> IF f = "user" THEN U ELSE w[f]]
      BY <1>2, <2>1 DEF Filtered
    <2>3. [f \in {"domain", "user"} |-> IF f = "user" THEN U ELSE w[f]] = [domain |-> D, user |-> U]
      BY <2>1
    <2>4. x = Rule([domain |-> D, user |-> U], to)
      BY <2>2, <2>3
    <2>5. QED
      BY <1>2, <2>4, DomainUserMatches
  <1>3. QED
    BY <1>1, <1>2

LEMMA FilteredIpMatches ==
    ASSUME NEW D, NEW U, NEW to, NEW c, NEW x, x = Rule(Filtered([ip |-> D], U), to)
    PROVE  /\ Matches(x, c) <=> (U = {} \/ c.user \in U) /\ c.ip \in D
           /\ x.to = to
  <1>1. CASE U = {}
    BY <1>1 DEF Filtered, Matches, Rule
  <1>2. CASE U # {}
    <2> DEFINE w == [ip |-> D]
    <2>1. DOMAIN w = {"ip"} /\ w["ip"] = D
      OBVIOUS
    <2>2. Filtered(w, U) = [f \in {"ip", "user"} |-> IF f = "user" THEN U ELSE w[f]]
      BY <1>2, <2>1 DEF Filtered
    <2>3. [f \in {"ip", "user"} |-> IF f = "user" THEN U ELSE w[f]] = [ip |-> D, user |-> U]
      BY <2>1
    <2>4. x = Rule([ip |-> D, user |-> U], to)
      BY <2>2, <2>3
    <2>5. QED
      BY <1>2, <2>4, IpUserMatches
  <1>3. QED
    BY <1>1, <1>2

ByMember(t, p, c) ==
    /\ c.user \in {UserEmail(t, u) : u \in p.users}
    /\ c.domain \in p.domains \/ c.ip \in p.ips

\* The rules of portals decide for their members only, and lead into their
\* portal's tunnel.
LEMMA PortalDecision ==
    ASSUME NEW t \in TopologyRecords, NEW c
    PROVE  /\ IsSeq(PortalRoutes(t))
           /\ Decides(PortalRoutes(t), c) =>
                 \E p \in ToSet(t.portals) :
                     ByMember(t, p, c) /\ Decision(PortalRoutes(t), c) = Outbound(PortalTag(p.id))
  <1> DEFINE s == t.portals
             U(p) == {UserEmail(t, u) : u \in p.users}
             To(p) == Outbound(PortalTag(p.id))
             Of(p) == Only(p.domains # {}, Rule([domain |-> p.domains, user |-> U(p)], To(p)))
                      \o Only(p.ips # {}, Rule([ip |-> p.ips, user |-> U(p)], To(p)))
             f == [i \in DOMAIN s |-> Of(s[i])]
  <1>1. PortalRoutes(t) = FlattenSeq(f)
    BY DEF PortalRoutes, Concat
  <1>2. /\ IsSeq(s) /\ DOMAIN s = 1..Len(s)
        /\ \A i \in 1..Len(s) : s[i] \in ToSet(s)
    BY Shapes, SeqFacts, Elements
  <1>3. ASSUME NEW p PROVE Decisive(Of(p), c, ByMember(t, p, c), To(p))
    <2> DEFINE x == Rule([domain |-> p.domains, user |-> U(p)], To(p))
               y == Rule([ip |-> p.ips, user |-> U(p)], To(p))
               d == p.domains # {}
               e == p.ips # {}
               a == c.user \in U(p) /\ c.domain \in p.domains
               b == c.user \in U(p) /\ c.ip \in p.ips
    <2>1. /\ Matches(x, c) <=> a
          /\ Matches(y, c) <=> b
          /\ x.to = To(p) /\ y.to = To(p)
      <3> DEFINE D == p.domains
                 I == p.ips
                 V == U(p)
                 to == To(p)
      <3>1. x = Rule([domain |-> D, user |-> V], to) /\ y = Rule([ip |-> I, user |-> V], to)
        OBVIOUS
      <3>2. (a <=> c.user \in V /\ c.domain \in D) /\ (b <=> c.user \in V /\ c.ip \in I)
        OBVIOUS
      <3> HIDE DEF D, I, V, to, x, y, a, b
      <3>3. (Matches(x, c) <=> c.user \in V /\ c.domain \in D) /\ x.to = to
        BY <3>1, DomainUserMatches
      <3>4. (Matches(y, c) <=> c.user \in V /\ c.ip \in I) /\ y.to = to
        BY <3>1, IpUserMatches
      <3>5. QED
        BY <3>2, <3>3, <3>4 DEF to
    <2>2. (d /\ Matches(x, c) <=> a) /\ (e /\ Matches(y, c) <=> b)
      BY <2>1
    <2>3. Decisive(Only(d, x), c, a, To(p)) /\ Decisive(Only(e, y), c, b, To(p))
      <3>1. d \in BOOLEAN /\ e \in BOOLEAN /\ a \in BOOLEAN /\ b \in BOOLEAN
        OBVIOUS
      <3> HIDE DEF x, y, d, e, a, b, To
      <3>2. QED
        BY <2>1, <2>2, <3>1, DecisiveOnly
    <2>4. Decisive(Only(d, x) \o Only(e, y), c, a \/ b, To(p))
      <3>1. a \in BOOLEAN /\ b \in BOOLEAN
        OBVIOUS
      <3> DEFINE v == Only(d, x)
                 w == Only(e, y)
      <3> HIDE DEF v, w, a, b, To
      <3>2. Decisive(v, c, a, To(p)) /\ Decisive(w, c, b, To(p))
        BY <2>3 DEF v, w
      <3>3. Decisive(v \o w, c, a \/ b, To(p))
        BY <3>1, <3>2, DecisiveConcat
      <3>4. QED
        BY <3>3 DEF v, w
    <2>5. (a \/ b) <=> ByMember(t, p, c)
      BY DEF ByMember
    <2> HIDE DEF a, b, d, e, x, y
    <2>6. QED
      BY <2>4, <2>5 DEF Decisive, x, y, d, e
  <1>4. \A i \in 1..Len(s) : f[i] = Of(s[i])
    BY <1>2
  <1> HIDE DEF Of, To
  <1>5. IsMap(f, s)
    BY <1>2, <1>3, <1>4 DEF IsMap, Decisive
  <1> HIDE DEF f, s
  <1>6. /\ IsSeq(FlattenSeq(f))
        /\ Decides(FlattenSeq(f), c) =>
              \E i \in 1..Len(s) : Decides(f[i], c) /\ Decision(FlattenSeq(f), c) = Decision(f[i], c)
    BY <1>2, <1>5, MapElements, MapDecision
  <1>7. ASSUME Decides(FlattenSeq(f), c)
        PROVE  \E p \in ToSet(s) : ByMember(t, p, c) /\ Decision(FlattenSeq(f), c) = To(p)
    <2>1. PICK i \in 1..Len(s) : Decides(f[i], c) /\ Decision(FlattenSeq(f), c) = Decision(f[i], c)
      BY <1>6, <1>7
    <2>2. Decisive(f[i], c, ByMember(t, s[i], c), To(s[i]))
      BY <1>3, <1>4
    <2>3. QED
      BY <1>2, <2>1, <2>2 DEF Decisive
  <1>8. QED
    BY <1>1, <1>6, <1>7 DEF s, To

\* Without portals there are none.
LEMMA NoPortalRoutes ==
    ASSUME NEW t \in TopologyRecords, NEW c, t.portals = <<>>
    PROVE  ~Decides(PortalRoutes(t), c)
  <1>1. ToSet(t.portals) = {}
    BY EmptyIsSeq
  <1>2. QED
    BY <1>1, PortalDecision

\* Who a route is for, and where to.
ForUser(t, route, c) == RouteUsers(t, route) = {} \/ c.user \in RouteUsers(t, route)
ByDomain(t, route, c) == ForUser(t, route, c) /\ c.domain \in route.domains
ByIp(t, route, c) == ForUser(t, route, c) /\ c.ip \in route.ips
ByUserOnly(t, route, c) == /\ route.domains = {} /\ route.ips = {}
                           /\ c.user \in RouteUsers(t, route)

\* What the rules of one route decide, by matcher.
LEMMA RouteDecisions ==
    ASSUME NEW t, NEW route, NEW c, NEW to
    PROVE  /\ Decisive(DomainRule(t, route, to), c, ByDomain(t, route, c), to)
           /\ Decisive(IpRule(t, route, to), c, ByIp(t, route, c), to)
           /\ Decisive(UserRule(t, route, to), c, ByUserOnly(t, route, c), to)
  <1> DEFINE U == RouteUsers(t, route)
             x == Rule(Filtered([domain |-> route.domains], U), to)
             y == Rule(Filtered([ip |-> route.ips], U), to)
             z == Rule([user |-> U], to)
  <1>1. /\ Matches(x, c) <=> ByDomain(t, route, c)
        /\ Matches(y, c) <=> ByIp(t, route, c)
        /\ Matches(z, c) <=> c.user \in U
        /\ x.to = to /\ y.to = to /\ z.to = to
    <2>1. /\ ByDomain(t, route, c) <=> (U = {} \/ c.user \in U) /\ c.domain \in route.domains
          /\ ByIp(t, route, c) <=> (U = {} \/ c.user \in U) /\ c.ip \in route.ips
      BY DEF ByDomain, ByIp, ForUser
    <2> DEFINE D == route.domains
               I == route.ips
    <2>2. x = Rule(Filtered([domain |-> D], U), to)
      OBVIOUS
    <2>3. y = Rule(Filtered([ip |-> I], U), to)
      OBVIOUS
    <2>4. z = Rule([user |-> U], to)
      OBVIOUS
    <2> HIDE DEF U, D, I, x, y, z
    <2>5. (Matches(x, c) <=> (U = {} \/ c.user \in U) /\ c.domain \in D) /\ x.to = to
      BY <2>2, FilteredDomainMatches
    <2>6. (Matches(y, c) <=> (U = {} \/ c.user \in U) /\ c.ip \in I) /\ y.to = to
      BY <2>3, FilteredIpMatches
    <2>7. (Matches(z, c) <=> c.user \in U) /\ z.to = to
      BY <2>4, UserMatches
    <2>8. QED
      BY <2>1, <2>5, <2>6, <2>7 DEF D, I
  <1>2. /\ (route.domains # {} /\ Matches(x, c)) <=> ByDomain(t, route, c)
        /\ (route.ips # {} /\ Matches(y, c)) <=> ByIp(t, route, c)
        /\ ((route.domains = {} /\ route.ips = {}) /\ Matches(z, c)) <=> ByUserOnly(t, route, c)
    BY <1>1 DEF ByDomain, ByIp, ByUserOnly
  <1>3. /\ ByDomain(t, route, c) \in BOOLEAN /\ ByIp(t, route, c) \in BOOLEAN
        /\ ByUserOnly(t, route, c) \in BOOLEAN
    BY DEF ByDomain, ByIp, ByUserOnly
  <1>4. Decisive(Only(route.domains # {}, x), c, ByDomain(t, route, c), to)
    <2> HIDE DEF x
    <2>1. QED
      BY <1>1, <1>2, <1>3, DecisiveOnly
  <1>5. Decisive(Only(route.ips # {}, y), c, ByIp(t, route, c), to)
    <2> HIDE DEF y
    <2>1. QED
      BY <1>1, <1>2, <1>3, DecisiveOnly
  <1>6. Decisive(Only(route.domains = {} /\ route.ips = {}, z), c, ByUserOnly(t, route, c), to)
    <2> HIDE DEF z
    <2>1. QED
      BY <1>1, <1>2, <1>3, DecisiveOnly
  <1>7. QED
    BY <1>4, <1>5, <1>6 DEF DomainRule, IpRule, UserRule

-----------------------------------------------------------------------------
(* hub_routes.                                                             *)

\* s decides as the first of the positions `hits` says.
FirstHit(s, c, hits, to) ==
    /\ IsSeq(s)
    /\ Decides(s, c) <=> hits # {}
    /\ Decides(s, c) => \E i \in hits : (\A j \in hits : i <= j) /\ Decision(s, c) = to[i]

\* One list per element, each with a condition and a target: the first hit
\* decides.
LEMMA MapFirstHit ==
    ASSUME NEW s, IsSeq(s), NEW f, IsMap(f, s), NEW c, NEW to,
           NEW hits, hits \subseteq 1..Len(s),
           \A i \in 1..Len(s) : Decides(f[i], c) <=> i \in hits,
           \A i \in hits : Decision(f[i], c) = to[i]
    PROVE  FirstHit(FlattenSeq(f), c, hits, to)
  <1> DEFINE u == FlattenSeq(f)
  <1>1. /\ IsSeq(u)
        /\ Decides(u, c) <=> \E i \in 1..Len(s) : Decides(f[i], c)
        /\ Decides(u, c) =>
              \E i \in 1..Len(s) : /\ Decides(f[i], c)
                                   /\ \A j \in 1..(i - 1) : ~Decides(f[j], c)
                                   /\ Decision(u, c) = Decision(f[i], c)
    BY MapElements, MapDecision
  <1> HIDE DEF u
  <1>2. Len(s) \in Nat
    BY SeqFacts
  <1>3. ASSUME Decides(u, c)
        PROVE  \E i \in hits : (\A j \in hits : i <= j) /\ Decision(u, c) = to[i]
    <2>1. PICK i \in 1..Len(s) :
              /\ Decides(f[i], c)
              /\ \A j \in 1..(i - 1) : ~Decides(f[j], c)
              /\ Decision(u, c) = Decision(f[i], c)
      BY <1>1, <1>3
    <2>2. i \in hits
      BY <2>1
    <2>3. ASSUME NEW j \in hits PROVE i <= j
      <3>1. j \in 1..Len(s) /\ Decides(f[j], c)
        OBVIOUS
      <3>2. ~(j \in 1..(i - 1))
        BY <2>1, <3>1
      <3>3. QED
        BY <1>2, <3>1, <3>2
    <2>4. Decision(f[i], c) = to[i]
      BY <2>2
    <2>5. Decision(u, c) = to[i]
      BY <2>1, <2>4
    <2>6. QED
      BY <2>2, <2>3, <2>5
  <1>4. QED
    BY <1>1, <1>3 DEF FirstHit, u

\* What a route matches, whatever its destination.
Accepts(t, route, c) == ByDomain(t, route, c) \/ ByIp(t, route, c) \/ ByUserOnly(t, route, c)
Early(t, route, c) == ByDomain(t, route, c) \/ ByUserOnly(t, route, c)

AcceptedTo(t, dests, c) ==
    {i \in 1..Len(t.routes) : t.routes[i].dest \in dests /\ Accepts(t, t.routes[i], c)}
BlockedEarly(t, c) ==
    {i \in 1..Len(t.routes) : t.routes[i].dest \in {Blocked} /\ Early(t, t.routes[i], c)}
BlockedLate(t, c) ==
    {i \in 1..Len(t.routes) : t.routes[i].dest \in {Blocked} /\ ByIp(t, t.routes[i], c)}
RouteTargets(t) == [i \in 1..Len(t.routes) |-> DestTarget(t, t.routes[i].dest)]
BlockedTargets(t) == [i \in 1..Len(t.routes) |-> Outbound(Blocked)]

\* A route to a region, a node, warp or direct.
LEMMA AllRulesDecision ==
    ASSUME NEW t, NEW route, NEW c
    PROVE  Decisive(AllRules(t, route), c, Accepts(t, route, c), DestTarget(t, route.dest))
  <1> DEFINE to == DestTarget(t, route.dest)
             r == DomainRule(t, route, to)
             s == IpRule(t, route, to)
             u == UserRule(t, route, to)
             x == ByDomain(t, route, c)
             y == ByIp(t, route, c)
             z == ByUserOnly(t, route, c)
  <1>1. x \in BOOLEAN /\ y \in BOOLEAN /\ z \in BOOLEAN
    BY DEF ByDomain, ByIp, ByUserOnly
  <1>2. AllRules(t, route) = r \o s \o u
    BY DEF AllRules
  <1>3. (x \/ y) \/ z <=> Accepts(t, route, c)
    BY DEF Accepts
  <1> HIDE DEF to
  <1>4. Decisive(r, c, x, to) /\ Decisive(s, c, y, to) /\ Decisive(u, c, z, to)
    BY RouteDecisions
  <1> HIDE DEF r, s, u, x, y, z
  <1>5. Decisive(r \o s, c, x \/ y, to)
    BY <1>1, <1>4, DecisiveConcat
  <1> DEFINE v == r \o s
             b == x \/ y
  <1>6. Decisive(v, c, b, to) /\ b \in BOOLEAN
    BY <1>5
  <1> HIDE DEF v, b
  <1>7. Decisive(v \o u, c, b \/ z, to)
    BY <1>1, <1>4, <1>6, DecisiveConcat
  <1>8. Decisive(v \o u, c, Accepts(t, route, c), to)
    BY <1>3, <1>7 DEF b, Decisive
  <1>9. QED
    BY <1>2, <1>8 DEF v, to

\* A route to blocked: names and users early, networks late.
LEMMA BlockedDecisions ==
    ASSUME NEW t, NEW route, NEW c
    PROVE  /\ Decisive(BlockedFirst(t, route), c, Early(t, route, c), Outbound(Blocked))
           /\ Decisive(BlockedLast(t, route), c, ByIp(t, route, c), Outbound(Blocked))
  <1> DEFINE to == Outbound(Blocked)
             r == DomainRule(t, route, to)
             u == UserRule(t, route, to)
             x == ByDomain(t, route, c)
             z == ByUserOnly(t, route, c)
  <1>1. x \in BOOLEAN /\ z \in BOOLEAN
    BY DEF ByDomain, ByUserOnly
  <1>2. BlockedFirst(t, route) = r \o u /\ BlockedLast(t, route) = IpRule(t, route, to)
    BY DEF BlockedFirst, BlockedLast
  <1>3. x \/ z <=> Early(t, route, c)
    BY DEF Early
  <1> HIDE DEF to
  <1>4. /\ Decisive(r, c, x, to) /\ Decisive(u, c, z, to)
        /\ Decisive(IpRule(t, route, to), c, ByIp(t, route, c), to)
    BY RouteDecisions
  <1> HIDE DEF r, u, x, z
  <1>5. Decisive(r \o u, c, x \/ z, to)
    BY <1>1, <1>4, DecisiveConcat
  <1>6. Decisive(r \o u, c, Early(t, route, c), to)
    BY <1>3, <1>5 DEF Decisive
  <1>7. QED
    BY <1>2, <1>4, <1>6 DEF to

\* The routes to some destinations: the first in file order that accepts the
\* connection decides.
LEMMA RoutesDecision ==
    ASSUME NEW t \in TopologyRecords, NEW c, NEW dests
    PROVE  FirstHit(RoutesTo(t, dests, AllRules), c, AcceptedTo(t, dests, c), RouteTargets(t))
  <1> DEFINE s == t.routes
             f == [i \in DOMAIN s |-> IF s[i].dest \in dests THEN AllRules(t, s[i]) ELSE <<>>]
             hits == AcceptedTo(t, dests, c)
             to == RouteTargets(t)
  <1>1. RoutesTo(t, dests, AllRules) = FlattenSeq(f)
    BY DEF RoutesTo, Concat
  <1>2. IsSeq(s) /\ DOMAIN s = 1..Len(s)
    BY Shapes, SeqFacts
  <1>3. /\ hits \subseteq 1..Len(s)
        /\ \A i \in 1..Len(s) : i \in hits <=> s[i].dest \in dests /\ Accepts(t, s[i], c)
        /\ \A i \in 1..Len(s) : to[i] = DestTarget(t, s[i].dest)
    BY DEF AcceptedTo, RouteTargets
  <1>4. ASSUME NEW i \in 1..Len(s)
        PROVE  /\ IsSeq(f[i])
               /\ Decides(f[i], c) <=> i \in hits
               /\ i \in hits => Decision(f[i], c) = to[i]
    <2>1. CASE s[i].dest \in dests
      <3>1. f[i] = AllRules(t, s[i])
        BY <1>2, <2>1
      <3>2. Decisive(AllRules(t, s[i]), c, Accepts(t, s[i], c), DestTarget(t, s[i].dest))
        BY AllRulesDecision
      <3> HIDE DEF f, hits, to, s
      <3>3. QED
        BY <1>3, <2>1, <3>1, <3>2 DEF Decisive
    <2>2. CASE s[i].dest \notin dests
      <3>1. f[i] = <<>>
        BY <1>2, <2>2
      <3> HIDE DEF f, hits, to, s
      <3>2. QED
        BY <1>3, <2>2, <3>1, EmptyIsSeq, DecidesEmpty
    <2>3. QED
      BY <2>1, <2>2
  <1>5. IsMap(f, s)
    BY <1>2, <1>4 DEF IsMap
  <1> HIDE DEF f, s, hits, to
  <1>6. FirstHit(FlattenSeq(f), c, hits, to)
    BY <1>2, <1>3, <1>4, <1>5, MapFirstHit
  <1>7. QED
    BY <1>1, <1>6 DEF hits, to

\* The same of what routes to blocked say early ...
LEMMA BlockedEarlyDecision ==
    ASSUME NEW t \in TopologyRecords, NEW c
    PROVE  FirstHit(RoutesTo(t, {Blocked}, BlockedFirst), c, BlockedEarly(t, c), BlockedTargets(t))
  <1> DEFINE s == t.routes
             f == [i \in DOMAIN s |-> IF s[i].dest \in {Blocked} THEN BlockedFirst(t, s[i]) ELSE <<>>]
             hits == BlockedEarly(t, c)
             to == BlockedTargets(t)
  <1>1. RoutesTo(t, {Blocked}, BlockedFirst) = FlattenSeq(f)
    BY DEF RoutesTo, Concat
  <1>2. IsSeq(s) /\ DOMAIN s = 1..Len(s)
    BY Shapes, SeqFacts
  <1>3. /\ hits \subseteq 1..Len(s)
        /\ \A i \in 1..Len(s) : i \in hits <=> s[i].dest \in {Blocked} /\ Early(t, s[i], c)
        /\ \A i \in 1..Len(s) : to[i] = Outbound(Blocked)
    BY DEF BlockedEarly, BlockedTargets
  <1>4. ASSUME NEW i \in 1..Len(s)
        PROVE  /\ IsSeq(f[i])
               /\ Decides(f[i], c) <=> i \in hits
               /\ i \in hits => Decision(f[i], c) = to[i]
    <2>1. CASE s[i].dest \in {Blocked}
      <3>1. f[i] = BlockedFirst(t, s[i])
        BY <1>2, <2>1
      <3>2. Decisive(BlockedFirst(t, s[i]), c, Early(t, s[i], c), Outbound(Blocked))
        BY BlockedDecisions
      <3> HIDE DEF f, hits, to, s
      <3>3. QED
        BY <1>3, <2>1, <3>1, <3>2 DEF Decisive
    <2>2. CASE s[i].dest \notin {Blocked}
      <3>1. f[i] = <<>>
        BY <1>2, <2>2
      <3> HIDE DEF f, hits, to, s
      <3>2. QED
        BY <1>3, <2>2, <3>1, EmptyIsSeq, DecidesEmpty
    <2>3. QED
      BY <2>1, <2>2
  <1>5. IsMap(f, s)
    BY <1>2, <1>4 DEF IsMap
  <1> HIDE DEF f, s, hits, to
  <1>6. FirstHit(FlattenSeq(f), c, hits, to)
    BY <1>2, <1>3, <1>4, <1>5, MapFirstHit
  <1>7. QED
    BY <1>1, <1>6 DEF hits, to

\* ... and late.
LEMMA BlockedLateDecision ==
    ASSUME NEW t \in TopologyRecords, NEW c
    PROVE  FirstHit(RoutesTo(t, {Blocked}, BlockedLast), c, BlockedLate(t, c), BlockedTargets(t))
  <1> DEFINE s == t.routes
             f == [i \in DOMAIN s |-> IF s[i].dest \in {Blocked} THEN BlockedLast(t, s[i]) ELSE <<>>]
             hits == BlockedLate(t, c)
             to == BlockedTargets(t)
  <1>1. RoutesTo(t, {Blocked}, BlockedLast) = FlattenSeq(f)
    BY DEF RoutesTo, Concat
  <1>2. IsSeq(s) /\ DOMAIN s = 1..Len(s)
    BY Shapes, SeqFacts
  <1>3. /\ hits \subseteq 1..Len(s)
        /\ \A i \in 1..Len(s) : i \in hits <=> s[i].dest \in {Blocked} /\ ByIp(t, s[i], c)
        /\ \A i \in 1..Len(s) : to[i] = Outbound(Blocked)
    BY DEF BlockedLate, BlockedTargets
  <1>4. ASSUME NEW i \in 1..Len(s)
        PROVE  /\ IsSeq(f[i])
               /\ Decides(f[i], c) <=> i \in hits
               /\ i \in hits => Decision(f[i], c) = to[i]
    <2>1. CASE s[i].dest \in {Blocked}
      <3>1. f[i] = BlockedLast(t, s[i])
        BY <1>2, <2>1
      <3>2. Decisive(BlockedLast(t, s[i]), c, ByIp(t, s[i], c), Outbound(Blocked))
        BY BlockedDecisions
      <3> HIDE DEF f, hits, to, s
      <3>3. QED
        BY <1>3, <2>1, <3>1, <3>2 DEF Decisive
    <2>2. CASE s[i].dest \notin {Blocked}
      <3>1. f[i] = <<>>
        BY <1>2, <2>2
      <3> HIDE DEF f, hits, to, s
      <3>2. QED
        BY <1>3, <2>2, <3>1, EmptyIsSeq, DecidesEmpty
    <2>3. QED
      BY <2>1, <2>2
  <1>5. IsMap(f, s)
    BY <1>2, <1>4 DEF IsMap
  <1> HIDE DEF f, s, hits, to
  <1>6. FirstHit(FlattenSeq(f), c, hits, to)
    BY <1>2, <1>3, <1>4, <1>5, MapFirstHit
  <1>7. QED
    BY <1>1, <1>6 DEF hits, to

\* What hub_routes and the portals' members decide, kind after kind.
LEMMA GroupedDecision ==
    ASSUME NEW t \in TopologyRecords, NEW c
    PROVE  LET g == GroupedRoutes(t)
               members == Decides(PortalRoutes(t), c)
               early == BlockedEarly(t, c)
               tunnels == AcceptedTo(t, TunnelDests(t), c)
               direct == AcceptedTo(t, {Direct}, c)
               late == BlockedLate(t, c)
           IN  /\ IsSeq(g)
               /\ Decides(g, c) <=> (early # {} \/ members \/ tunnels # {} \/ direct # {} \/ late # {})
               /\ early # {} => Decision(g, c) = Outbound(Blocked)
               /\ (early = {} /\ members) => Decision(g, c) = Decision(PortalRoutes(t), c)
               /\ (early = {} /\ ~members /\ tunnels # {}) =>
                      \E i \in tunnels : /\ \A j \in tunnels : i <= j
                                        /\ Decision(g, c) = DestTarget(t, t.routes[i].dest)
               /\ (early = {} /\ ~members /\ tunnels = {} /\ direct # {}) =>
                      \E i \in direct : /\ \A j \in direct : i <= j
                                       /\ Decision(g, c) = DestTarget(t, t.routes[i].dest)
               /\ (early = {} /\ ~members /\ tunnels = {} /\ direct = {} /\ late # {}) =>
                      Decision(g, c) = Outbound(Blocked)
  <1> DEFINE early == BlockedEarly(t, c)
             tunnels == AcceptedTo(t, TunnelDests(t), c)
             direct == AcceptedTo(t, {Direct}, c)
             late == BlockedLate(t, c)
             s1 == RoutesTo(t, {Blocked}, BlockedFirst)
             s2 == PortalRoutes(t)
             s3 == RoutesTo(t, TunnelDests(t), AllRules)
             s4 == RoutesTo(t, {Direct}, AllRules)
             s5 == RoutesTo(t, {Blocked}, BlockedLast)
             g == GroupedRoutes(t)
  <1>1. /\ \A i \in early \cup late : BlockedTargets(t)[i] = Outbound(Blocked)
        /\ \A i \in tunnels \cup direct : RouteTargets(t)[i] = DestTarget(t, t.routes[i].dest)
    BY DEF BlockedEarly, BlockedLate, AcceptedTo, BlockedTargets, RouteTargets
  <1>2. /\ FirstHit(s1, c, early, BlockedTargets(t))
        /\ FirstHit(s3, c, tunnels, RouteTargets(t))
        /\ FirstHit(s4, c, direct, RouteTargets(t))
        /\ FirstHit(s5, c, late, BlockedTargets(t))
    BY BlockedEarlyDecision, RoutesDecision, BlockedLateDecision
  <1>3. IsSeq(s2)
    BY PortalDecision
  <1>4. g = s1 \o s2 \o s3 \o s4 \o s5
    BY DEF GroupedRoutes
  <1> HIDE DEF s1, s2, s3, s4, s5, early, tunnels, direct, late, g
  <1>5. /\ IsSeq(g)
        /\ Decides(g, c) <=> \/ Decides(s1, c) \/ Decides(s2, c) \/ Decides(s3, c)
                             \/ Decides(s4, c) \/ Decides(s5, c)
        /\ Decides(s1, c) => Decision(g, c) = Decision(s1, c)
        /\ (~Decides(s1, c) /\ Decides(s2, c)) => Decision(g, c) = Decision(s2, c)
        /\ (~Decides(s1, c) /\ ~Decides(s2, c) /\ Decides(s3, c)) => Decision(g, c) = Decision(s3, c)
        /\ (~Decides(s1, c) /\ ~Decides(s2, c) /\ ~Decides(s3, c) /\ Decides(s4, c))
               => Decision(g, c) = Decision(s4, c)
        /\ (/\ ~Decides(s1, c) /\ ~Decides(s2, c) /\ ~Decides(s3, c) /\ ~Decides(s4, c)
            /\ Decides(s5, c))
               => Decision(g, c) = Decision(s5, c)
    <2>1. IsSeq(s1) /\ IsSeq(s3) /\ IsSeq(s4) /\ IsSeq(s5)
      BY <1>2 DEF FirstHit
    <2>2. QED
      BY <1>3, <1>4, <2>1, FiveLists
  <1>6. /\ Decides(s1, c) <=> early # {}
        /\ Decides(s3, c) <=> tunnels # {}
        /\ Decides(s4, c) <=> direct # {}
        /\ Decides(s5, c) <=> late # {}
    BY <1>2 DEF FirstHit
  <1>7. /\ Decides(s1, c) => Decision(s1, c) = Outbound(Blocked)
        /\ Decides(s5, c) => Decision(s5, c) = Outbound(Blocked)
    BY <1>1, <1>2 DEF FirstHit
  <1>8. Decides(s3, c) =>
            \E i \in tunnels : /\ \A j \in tunnels : i <= j
                              /\ Decision(s3, c) = DestTarget(t, t.routes[i].dest)
    BY <1>1, <1>2 DEF FirstHit
  <1>9. Decides(s4, c) =>
            \E i \in direct : /\ \A j \in direct : i <= j
                             /\ Decision(s4, c) = DestTarget(t, t.routes[i].dest)
    BY <1>1, <1>2 DEF FirstHit
  <1>10. QED
    BY <1>5, <1>6, <1>7, <1>8, <1>9 DEF early, tunnels, direct, late, g, s2

\* What a hub decides.
LEMMA HubDecision ==
    ASSUME NEW t \in TopologyRecords, NEW hub, NEW c
    PROVE  LET h == HubRules(t, hub)
               pub == Decides(PublishRules(t, hub), c)
               dns == c.ip \in t.dns /\ c.port = DnsPort
               vless == Decides(VlessRules(t), c)
               grouped == Decides(GroupedRoutes(t), c)
           IN  /\ pub => Decision(h, c) = Decision(PublishRules(t, hub), c)
               /\ (~pub /\ dns) => Decision(h, c) = Outbound(Direct)
               /\ (~pub /\ ~dns /\ vless) => Decision(h, c) = Decision(VlessRules(t), c)
               /\ (~pub /\ ~dns /\ ~vless /\ grouped) =>
                      Decision(h, c) = Decision(GroupedRoutes(t), c)
               /\ (~pub /\ ~dns /\ ~vless /\ ~grouped) =>
                      Decision(h, c) = DestTarget(t, t.default)
  <1> DEFINE dns == c.ip \in t.dns /\ c.port = DnsPort
             x == DnsRule(t)
             y == Rule(<<>>, DestTarget(t, t.default))
             s1 == PublishRules(t, hub)
             s2 == <<x>>
             s3 == VlessRules(t)
             s4 == GroupedRoutes(t)
             s5 == <<y>>
             h == HubRules(t, hub)
  <1>1. h = s1 \o s2 \o s3 \o s4 \o s5
    BY DEF HubRules
  <1>2. (Matches(x, c) <=> dns) /\ x.to = Outbound(Direct)
    BY DnsMatches
  <1>3. Matches(y, c) /\ y.to = DestTarget(t, t.default)
    BY DEF Matches, Rule
  <1>4. IsSeq(s1) /\ IsSeq(s3) /\ IsSeq(s4)
    BY PublishDecision, VlessDecision, GroupedDecision
  <1> HIDE DEF x, y, dns
  <1>5. /\ IsSeq(s2)
        /\ Decides(s2, c) <=> dns
        /\ dns => Decision(s2, c) = Outbound(Direct)
    BY <1>2, OneIsSeq, DecisionOne
  <1>6. IsSeq(s5) /\ Decides(s5, c) /\ Decision(s5, c) = DestTarget(t, t.default)
    BY <1>3, OneIsSeq, DecisionOne
  <1> HIDE DEF s1, s2, s3, s4, s5, h
  <1>7. /\ Decides(s1, c) => Decision(h, c) = Decision(s1, c)
        /\ (~Decides(s1, c) /\ Decides(s2, c)) => Decision(h, c) = Decision(s2, c)
        /\ (~Decides(s1, c) /\ ~Decides(s2, c) /\ Decides(s3, c)) => Decision(h, c) = Decision(s3, c)
        /\ (~Decides(s1, c) /\ ~Decides(s2, c) /\ ~Decides(s3, c) /\ Decides(s4, c))
               => Decision(h, c) = Decision(s4, c)
        /\ (/\ ~Decides(s1, c) /\ ~Decides(s2, c) /\ ~Decides(s3, c) /\ ~Decides(s4, c)
            /\ Decides(s5, c))
               => Decision(h, c) = Decision(s5, c)
    BY <1>1, <1>4, <1>5, <1>6, FiveLists
  <1>8. QED
    BY <1>5, <1>6, <1>7 DEF s1, s3, s4, h, dns

-----------------------------------------------------------------------------
(* Exits and portals.                                                      *)

\* The unfiltered rules of exits and portals.
LEMMA DomainMatches ==
    ASSUME NEW D, NEW to, NEW c, NEW x, x = Rule([domain |-> D], to)
    PROVE  (Matches(x, c) <=> c.domain \in D) /\ x.to = to
  BY DEF Matches, Rule

LEMMA IpMatches ==
    ASSUME NEW D, NEW to, NEW c, NEW x, x = Rule([ip |-> D], to)
    PROVE  (Matches(x, c) <=> c.ip \in D) /\ x.to = to
  BY DEF Matches, Rule

\* A route of an exit by what it matches.
OnRoute(route, c) == c.domain \in route.domains \/ c.ip \in route.ips

\* What an exit of region r decides.
LEMMA ExitDecision ==
    ASSUME NEW t \in TopologyRecords, NEW r \in ToSet(t.exits), NEW c
    PROVE  LET e == ExitRules(t, r)
           IN  /\ c.vroute = WarpRoute => Decides(e, c)
               /\ Decides(e, c) =>
                     \/ /\ c.ip \in t.dns /\ c.port = DnsPort
                        /\ Decision(e, c) = Outbound(Direct)
                     \/ \E route \in ToSet(r.routes \o t.globals) :
                            OnRoute(route, c) /\ Decision(e, c) = Outbound(route.dest)
                     \/ c.vroute = WarpRoute /\ Decision(e, c) = Outbound(Warp)
                     \/ /\ c.domain \in r.warpDomains \cup t.warpDomains
                        /\ Decision(e, c) = Outbound(Warp)
  <1> DEFINE s == r.routes \o t.globals
             To(route) == Outbound(route.dest)
             Of(route) == Only(route.domains # {}, Rule([domain |-> route.domains], To(route)))
                          \o Only(route.ips # {}, Rule([ip |-> route.ips], To(route)))
             f == [i \in DOMAIN s |-> Of(s[i])]
             names == r.warpDomains \cup t.warpDomains
             some == names # {}
             dns == c.ip \in t.dns /\ c.port = DnsPort
             x == DnsRule(t)
             y == Rule([vroute |-> {WarpRoute}], Outbound(Warp))
             z == Rule([domain |-> names], Outbound(Warp))
             s1 == <<x>>
             s2 == FlattenSeq(f)
             s3 == <<y>>
             s4 == Only(some, z)
             e == ExitRules(t, r)
  <1>1. e = s1 \o s2 \o s3 \o s4
    BY DEF ExitRules, Concat
  <1>2. IsSeq(s) /\ DOMAIN s = 1..Len(s) /\ \A i \in 1..Len(s) : s[i] \in ToSet(s)
    <2>1. IsSeq(s)
      BY Shapes, Concatenation
    <2> HIDE DEF s
    <2>2. QED
      BY <2>1, SeqFacts, Elements
  <1>3. (Matches(x, c) <=> dns) /\ x.to = Outbound(Direct)
    BY DnsMatches
  <1>4. (Matches(y, c) <=> c.vroute = WarpRoute) /\ y.to = Outbound(Warp)
    BY DEF Matches, Rule
  <1>5. (Matches(z, c) <=> c.domain \in names) /\ z.to = Outbound(Warp) /\ some \in BOOLEAN
    <2> DEFINE to == Outbound(Warp)
    <2>1. z = Rule([domain |-> names], to) /\ some \in BOOLEAN
      OBVIOUS
    <2> HIDE DEF names, to, z, some
    <2>2. (Matches(z, c) <=> c.domain \in names) /\ z.to = to
      BY <2>1, DomainMatches
    <2>3. QED
      BY <2>1, <2>2 DEF to
  <1>6. ASSUME NEW route PROVE Decisive(Of(route), c, OnRoute(route, c), To(route))
    <2> DEFINE D == route.domains
               I == route.ips
               d == D # {}
               i == I # {}
               a == c.domain \in D
               b == c.ip \in I
               to == To(route)
               u == Rule([domain |-> D], to)
               v == Rule([ip |-> I], to)
    <2>1. (d /\ a <=> a) /\ (i /\ b <=> b)
      OBVIOUS
    <2>2. d \in BOOLEAN /\ i \in BOOLEAN /\ a \in BOOLEAN /\ b \in BOOLEAN
      OBVIOUS
    <2>3. (Matches(u, c) <=> a) /\ u.to = to /\ (Matches(v, c) <=> b) /\ v.to = to
      <3>1. u = Rule([domain |-> D], to) /\ v = Rule([ip |-> I], to)
        OBVIOUS
      <3> HIDE DEF D, I, to, u, v
      <3>2. (Matches(u, c) <=> c.domain \in D) /\ u.to = to
        BY <3>1, DomainMatches
      <3>3. (Matches(v, c) <=> c.ip \in I) /\ v.to = to
        BY <3>1, IpMatches
      <3>4. QED
        BY <3>2, <3>3
    <2>4. Of(route) = Only(d, u) \o Only(i, v)
      OBVIOUS
    <2>5. OnRoute(route, c) <=> a \/ b
      BY DEF OnRoute
    <2> DEFINE g == Only(d, u)
               h == Only(i, v)
    <2>6. Decisive(g, c, a, to) /\ Decisive(h, c, b, to)
      <3> HIDE DEF d, i, a, b, u, v, to
      <3>1. (d /\ Matches(u, c) <=> a) /\ (i /\ Matches(v, c) <=> b)
        BY <2>1, <2>3
      <3>2. QED
        BY <2>2, <2>3, <3>1, DecisiveOnly
    <2>7. Decisive(g \o h, c, a \/ b, to)
      <3> HIDE DEF g, h, a, b, to
      <3>1. QED
        BY <2>2, <2>6, DecisiveConcat
    <2>8. QED
      BY <2>4, <2>5, <2>7 DEF Decisive
  <1>7. \A i \in 1..Len(s) : f[i] = Of(s[i])
    BY <1>2
  <1> HIDE DEF Of
  <1>8. IsMap(f, s)
    BY <1>2, <1>6, <1>7 DEF IsMap, Decisive
  <1> HIDE DEF f, s, To
  <1>9. /\ IsSeq(s2)
        /\ Decides(s2, c) =>
              \E i \in 1..Len(s) : Decides(f[i], c) /\ Decision(s2, c) = Decision(f[i], c)
    BY <1>2, <1>8, MapElements, MapDecision
  <1>10. ASSUME Decides(s2, c)
         PROVE  \E route \in ToSet(s) : OnRoute(route, c) /\ Decision(s2, c) = To(route)
    <2>1. PICK i \in 1..Len(s) : Decides(f[i], c) /\ Decision(s2, c) = Decision(f[i], c)
      BY <1>9, <1>10
    <2>2. Decisive(f[i], c, OnRoute(s[i], c), To(s[i]))
      BY <1>6, <1>7
    <2>3. QED
      BY <1>2, <2>1, <2>2 DEF Decisive
  <1> HIDE DEF x, y, z, some, dns, names
  <1>11. /\ IsSeq(s1)
         /\ Decides(s1, c) <=> dns
         /\ Decides(s1, c) => Decision(s1, c) = Outbound(Direct)
    BY <1>3, OneIsSeq, DecisionOne
  <1>12. /\ IsSeq(s3)
         /\ Decides(s3, c) <=> c.vroute = WarpRoute
         /\ Decides(s3, c) => Decision(s3, c) = Outbound(Warp)
    BY <1>4, OneIsSeq, DecisionOne
  <1>13. /\ IsSeq(s4)
         /\ Decides(s4, c) => c.domain \in names
         /\ Decides(s4, c) => Decision(s4, c) = Outbound(Warp)
    BY <1>5, OnlyFacts
  <1> HIDE DEF s1, s2, s3, s4, e
  <1>14. /\ Decides(e, c) <=> Decides(s1, c) \/ Decides(s2, c) \/ Decides(s3, c) \/ Decides(s4, c)
         /\ Decides(s1, c) => Decision(e, c) = Decision(s1, c)
         /\ (~Decides(s1, c) /\ Decides(s2, c)) => Decision(e, c) = Decision(s2, c)
         /\ (~Decides(s1, c) /\ ~Decides(s2, c) /\ Decides(s3, c)) => Decision(e, c) = Decision(s3, c)
         /\ (~Decides(s1, c) /\ ~Decides(s2, c) /\ ~Decides(s3, c) /\ Decides(s4, c))
                => Decision(e, c) = Decision(s4, c)
    BY <1>1, <1>9, <1>11, <1>12, <1>13, FourLists
  <1>15. c.vroute = WarpRoute => Decides(e, c)
    BY <1>12, <1>14
  <1>16. ASSUME Decides(e, c)
         PROVE  \/ dns /\ Decision(e, c) = Outbound(Direct)
                \/ \E route \in ToSet(s) : OnRoute(route, c) /\ Decision(e, c) = To(route)
                \/ c.vroute = WarpRoute /\ Decision(e, c) = Outbound(Warp)
                \/ c.domain \in names /\ Decision(e, c) = Outbound(Warp)
    <2>1. CASE Decides(s1, c)
      BY <1>11, <1>14, <2>1
    <2>2. CASE ~Decides(s1, c) /\ Decides(s2, c)
      BY <1>10, <1>14, <2>2
    <2>3. CASE ~Decides(s1, c) /\ ~Decides(s2, c) /\ Decides(s3, c)
      BY <1>12, <1>14, <2>3
    <2>4. CASE ~Decides(s1, c) /\ ~Decides(s2, c) /\ ~Decides(s3, c) /\ Decides(s4, c)
      BY <1>13, <1>14, <2>4
    <2>5. QED
      BY <1>14, <1>16, <2>1, <2>2, <2>3, <2>4
  <1>17. QED
    BY <1>15, <1>16 DEF e, s, dns, names, To

\* What a published target looks like to the portal's rules.
OfTarget(e, c) ==
    /\ c.port = e.target.port
    /\ IF e.target.ip # "" THEN c.ip = e.target.ip ELSE c.domain = e.target.domain
Dialed(p, c) ==
    \/ ~p.strict
    \/ c.domain \in p.domains
    \/ c.ip \in p.ips
    \/ \E e \in ToSet(p.publish) : OfTarget(e, c)

\* The rule of a published target matches what is dialed there.
LEMMA TargetMatches ==
    ASSUME NEW tunnel, NEW e, NEW c, c.in \in tunnel
    PROVE  /\ Matches(PublishTargetRule(tunnel, e), c) <=> OfTarget(e, c)
           /\ PublishTargetRule(tunnel, e).to = Outbound(Direct)
  <1> DEFINE to == Outbound(Direct)
             port == e.target.port
             ip == e.target.ip
             name == e.target.domain
  <1>1. CASE e.target.ip # ""
    <2>1. PublishTargetRule(tunnel, e) = Rule([in |-> tunnel, port |-> {port}, ip |-> {ip}], to)
      BY <1>1 DEF PublishTargetRule
    <2>2. OfTarget(e, c) <=> c.port = port /\ c.ip = ip
      BY <1>1 DEF OfTarget
    <2> HIDE DEF to, port, ip
    <2>3. QED
      BY <2>1, <2>2 DEF Matches, Rule, to
  <1>2. CASE e.target.ip = ""
    <2>1. PublishTargetRule(tunnel, e) = Rule([in |-> tunnel, port |-> {port}, domain |-> {name}], to)
      BY <1>2 DEF PublishTargetRule
    <2>2. OfTarget(e, c) <=> c.port = port /\ c.domain = name
      BY <1>2 DEF OfTarget
    <2> HIDE DEF to, port, name
    <2>3. QED
      BY <2>1, <2>2 DEF Matches, Rule, to
  <1>3. QED
    BY <1>1, <1>2

\* The machine of a portal dials what the portal's lists and published targets
\* name; only a strict one refuses anything.
LEMMA TunnelDecision ==
    ASSUME NEW p, p \in PortalRecords, NEW c, c.in = PortalTag(p.id)
    PROVE  Decision(PortalRules(p), c) = Outbound(IF Dialed(p, c) THEN Direct ELSE Blocked)
  <1> DEFINE tunnel == {PortalTag(p.id)}
             dial == Outbound(Direct)
             block == Outbound(Blocked)
             last == Rule(<<>>, dial)
  <1>1. c.in \in tunnel
    OBVIOUS
  <1>2. CASE ~p.strict
    <2> DEFINE x == Rule([in |-> tunnel], dial)
    <2>1. PortalRules(p) = <<x, last>>
      BY <1>2 DEF PortalRules
    <2>2. Matches(x, c) /\ x.to = dial
      BY <1>1 DEF Matches, Rule
    <2> HIDE DEF x, last, dial, tunnel
    <2>3. Decision(<<x, last>>, c) = dial
      BY <2>2, FirstOfTwo
    <2>4. QED
      BY <1>2, <2>1, <2>3 DEF Dialed, dial
  <1>3. CASE p.strict
    <2> DEFINE s == p.publish
               f == [i \in DOMAIN s |-> <<PublishTargetRule(tunnel, s[i])>>]
               D == p.domains
               I == p.ips
               d == D # {}
               e == I # {}
               u == Rule([in |-> tunnel, domain |-> D], dial)
               v == Rule([in |-> tunnel, ip |-> I], dial)
               y == Rule([in |-> tunnel], block)
               s1 == Only(d, u)
               s2 == Only(e, v)
               s3 == FlattenSeq(f)
               s4 == <<y, last>>
    <2>1. PortalRules(p) = s1 \o s2 \o s3 \o s4
      BY <1>3 DEF PortalRules, Concat
    <2>2. /\ Matches(u, c) <=> c.domain \in D
          /\ Matches(v, c) <=> c.ip \in I
          /\ Matches(y, c)
          /\ u.to = dial /\ v.to = dial /\ y.to = block
      <3> HIDE DEF D, I, tunnel, dial, block
      <3>1. Matches(u, c) <=> c.domain \in D
        BY <1>1 DEF Matches, Rule
      <3>2. Matches(v, c) <=> c.ip \in I
        BY <1>1 DEF Matches, Rule
      <3>3. Matches(y, c)
        BY <1>1 DEF Matches, Rule
      <3>4. QED
        BY <3>1, <3>2, <3>3 DEF Rule
    <2>3. /\ IsSeq(s) /\ DOMAIN s = 1..Len(s)
          /\ \A i \in 1..Len(s) : s[i] \in ToSet(s)
          /\ \A x \in ToSet(s) : \E i \in 1..Len(s) : x = s[i]
      <3>1. IsSeq(s)
        BY SeqFromSet DEF PortalRecords
      <3> HIDE DEF s
      <3>2. QED
        BY <3>1, SeqFacts, Elements
    <2>4. \A i \in 1..Len(s) : /\ IsSeq(f[i])
                               /\ Decides(f[i], c) <=> OfTarget(s[i], c)
                               /\ Decides(f[i], c) => Decision(f[i], c) = dial
      <3> TAKE i \in 1..Len(s)
      <3> DEFINE x == PublishTargetRule(tunnel, s[i])
      <3>1. f[i] = <<x>>
        BY <2>3
      <3>2. (Matches(x, c) <=> OfTarget(s[i], c)) /\ x.to = dial
        BY <1>1, TargetMatches
      <3> HIDE DEF x, f, dial
      <3>3. QED
        BY <3>1, <3>2, OneIsSeq, DecisionOne
    <2>5. IsMap(f, s)
      BY <2>3, <2>4 DEF IsMap
    <2> HIDE DEF f, s
    <2>6. /\ IsSeq(s3)
          /\ Decides(s3, c) <=> \E i \in 1..Len(s) : Decides(f[i], c)
          /\ Decides(s3, c) =>
                \E i \in 1..Len(s) : Decides(f[i], c) /\ Decision(s3, c) = Decision(f[i], c)
      BY <2>3, <2>5, MapElements, MapDecision
    <2>7. /\ Decides(s3, c) <=> \E x \in ToSet(s) : OfTarget(x, c)
          /\ Decides(s3, c) => Decision(s3, c) = dial
      BY <2>3, <2>4, <2>6
    <2>8. d \in BOOLEAN /\ e \in BOOLEAN /\ (d /\ c.domain \in D <=> c.domain \in D)
          /\ (e /\ c.ip \in I <=> c.ip \in I)
      OBVIOUS
    <2> HIDE DEF d, e, u, v, y, D, I, last, dial, block, tunnel
    <2>9. /\ IsSeq(s1) /\ IsSeq(s2)
          /\ Decides(s1, c) <=> d /\ Matches(u, c)
          /\ d /\ Matches(u, c) => Decision(s1, c) = dial
          /\ Decides(s2, c) <=> e /\ Matches(v, c)
          /\ e /\ Matches(v, c) => Decision(s2, c) = dial
      BY <2>2, <2>8, OnlyFacts
    <2>10. IsSeq(s4) /\ Decides(s4, c) /\ Decision(s4, c) = block
      BY <2>2, FirstOfTwo
    <2> HIDE DEF s1, s2, s3, s4
    <2> DEFINE w == s1 \o s2 \o s3 \o s4
    <2>11. /\ Decides(s1, c) => Decision(w, c) = Decision(s1, c)
           /\ (~Decides(s1, c) /\ Decides(s2, c)) => Decision(w, c) = Decision(s2, c)
           /\ (~Decides(s1, c) /\ ~Decides(s2, c) /\ Decides(s3, c)) => Decision(w, c) = Decision(s3, c)
           /\ (~Decides(s1, c) /\ ~Decides(s2, c) /\ ~Decides(s3, c) /\ Decides(s4, c))
                  => Decision(w, c) = Decision(s4, c)
      BY <2>6, <2>9, <2>10, FourLists
    <2>12. Dialed(p, c) <=> Decides(s1, c) \/ Decides(s2, c) \/ Decides(s3, c)
      BY <1>3, <2>2, <2>7, <2>8, <2>9 DEF Dialed, D, I, s
    <2> HIDE DEF w
    <2>13. CASE Dialed(p, c)
      <3>1. Decision(w, c) = dial
        BY <2>2, <2>7, <2>9, <2>11, <2>12, <2>13
      <3>2. QED
        BY <2>1, <2>13, <3>1 DEF w, dial
    <2>14. CASE ~Dialed(p, c)
      <3>1. Decision(w, c) = block
        BY <2>10, <2>11, <2>12, <2>14
      <3>2. QED
        BY <2>1, <2>14, <3>1 DEF w, block
    <2>15. QED
      BY <2>13, <2>14
  <1>4. QED
    BY <1>2, <1>3
=============================================================================
