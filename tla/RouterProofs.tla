---------------------------- MODULE RouterProofs ----------------------------
(***************************************************************************)
(* Which handler a request runs and what it is given, for any services,    *)
(* endpoints and requests.  Inv says what each table holds in terms of the *)
(* endpoints declared so far: FunctionMapper's two maps keep the first of  *)
(* a key, the trie's nodes the last name and the first variable.  The      *)
(* properties then follow from where a request's sections lead (WalkFacts).*)
(***************************************************************************)
EXTENDS Router, SequenceTheorems, WellFoundedInduction, TLAPS

Below == {s \in Nat \X Nat : s[1] < s[2]}

\* Every set of naturals that is not empty has a least element.
LEMMA LeastNatural ==
    ASSUME NEW T, T \subseteq Nat, T # {}
    PROVE  \E m \in T : \A k \in T : ~(k < m)
  <1>1. IsWellFoundedOn(Below, Nat)
    BY NatLessThanWellFounded DEF OpToRel, Below
  <1>2. PICK m \in T : \A k \in T : ~(<<k, m>> \in Below)
    BY <1>1, WFMin
  <1> QED
    BY <1>2 DEF Below

\* Induction, for a property that is a set.
LEMMA Induction ==
    ASSUME NEW S, 0 \in S, \A n \in Nat : n \in S => n + 1 \in S
    PROVE  Nat \subseteq S
  <1> SUFFICES ASSUME Nat \ S # {}
               PROVE  FALSE
    OBVIOUS
  <1>1. PICK m \in Nat \ S : \A k \in Nat \ S : ~(k < m)
    BY LeastNatural, Nat \ S \subseteq Nat
  <1>2. m # 0
    OBVIOUS
  <1>3. m - 1 \in Nat /\ m - 1 < m /\ (m - 1) + 1 = m
    BY <1>2
  <1>4. m - 1 \in S
    BY <1>1, <1>3
  <1> QED
    BY <1>3, <1>4

\* There is a function that goes from base step by step.
Stepwise(f, S, n, base, step) ==
    /\ f \in [0..n -> S]
    /\ f[0] = base
    /\ \A i \in 1..n : f[i] = step[i][f[i - 1]]

Steps(S, n) == [1..n -> [S -> S]]

LEMMA StepwiseExists ==
    ASSUME NEW S, NEW n \in Nat, NEW base \in S, NEW step \in Steps(S, n)
    PROVE  \E f : Stepwise(f, S, n, base, step)
  <1> USE DEF Steps
  <1> DEFINE Goes(m, f) == f[0] = base /\ \A i \in 1..m : f[i] = step[i][f[i - 1]]
             P == {m \in Nat : m <= n => \E f \in [0..m -> S] : Goes(m, f)}
  <1>1. 0 \in P
    <2>1. [i \in 0..0 |-> base] \in [0..0 -> S] /\ Goes(0, [i \in 0..0 |-> base])
      OBVIOUS
    <2> QED
      BY <2>1
  <1>2. ASSUME NEW m \in Nat, m \in P
        PROVE  m + 1 \in P
    <2> SUFFICES ASSUME m + 1 <= n
                 PROVE  \E f \in [0..(m + 1) -> S] : Goes(m + 1, f)
      OBVIOUS
    <2>1. PICK f \in [0..m -> S] : Goes(m, f)
      BY <1>2
    <2> DEFINE g == [i \in 0..(m + 1) |-> IF i <= m THEN f[i] ELSE step[m + 1][f[m]]]
    <2>2. step[m + 1][f[m]] \in S
      <3>1. m + 1 \in 1..n /\ f[m] \in S
        OBVIOUS
      <3> QED
        BY <3>1
    <2>3. g \in [0..(m + 1) -> S]
      <3>1. \A i \in 0..(m + 1) : i <= m => f[i] \in S
        OBVIOUS
      <3> QED
        BY <2>2, <3>1
    <2>4. g[0] = base
      BY <2>1
    <2>5. ASSUME NEW i \in 1..(m + 1)
          PROVE  g[i] = step[i][g[i - 1]]
      <3>1. CASE i <= m
        <4>1. g[i] = f[i] /\ g[i - 1] = f[i - 1] /\ i \in 1..m
          BY <3>1
        <4> QED
          BY <2>1, <4>1
      <3>2. CASE i = m + 1
        <4>1. g[i] = step[m + 1][f[m]] /\ i - 1 = m /\ g[i - 1] = f[m]
          BY <3>2
        <4> QED
          BY <3>2, <4>1
      <3> QED
        BY <3>1, <3>2
    <2> QED
      BY <2>3, <2>4, <2>5
  <1> HIDE DEF P
  <1>3. n \in P
    BY <1>1, <1>2, Induction
  <1>4. PICK f \in [0..n -> S] : Goes(n, f)
    BY <1>3 DEF P
  <1> QED
    BY <1>4 DEF Stepwise

-----------------------------------------------------------------------------
(* Sections and edges *)

Edges == {Edge(s) : s \in Section}

LEMMA EdgeFacts ==
    /\ AnyText \in Section /\ AnyText.isVar /\ ~EmptySection.isVar
    /\ \A s \in Section : /\ Edge(s) \in Section /\ Edge(s) \in Edges
                          /\ s.isVar => Edge(s) = AnyText
                          /\ ~s.isVar => Edge(s) = s /\ s # AnyText
    /\ Edges \subseteq Section
    /\ Var("lost") \notin Edges
  <1>1. AnyText \in Section /\ AnyText.isVar /\ ~EmptySection.isVar
    BY TextsAssumption DEF AnyText, Var, Section, EmptySection, Lit
  <1>2. Var("lost") # AnyText /\ Var("lost").isVar
    BY DEF AnyText, Var
  <1> QED
    BY <1>1, <1>2 DEF Edge, Edges, Section

\* split keeps what is not empty.
LEMMA SplitFacts ==
    ASSUME NEW p \in Seq(Section)
    PROVE  /\ split(p) \in Seq(Section)
           /\ HasVar(split(p)) <=> HasVar(p)
  <1> DEFINE S == Seq(Section)
             n == Len(p)
             Kept(i, s) == IF p[i] = EmptySection THEN s ELSE Append(s, p[i])
             step == [i \in 1..n |-> [s \in S |-> Kept(i, s)]]
             Eq(f) == f = [i \in 0..n |-> IF i = 0 THEN <<>>
                                         ELSE IF p[i] = EmptySection THEN f[i - 1]
                                         ELSE Append(f[i - 1], p[i])]
             k == CHOOSE f : Eq(f)
  <1>1. n \in Nat /\ \A i \in 1..n : p[i] \in Section
    OBVIOUS
  <1>2. step \in Steps(S, n)
    <2>1. ASSUME NEW i \in 1..n, NEW s \in S
          PROVE  Kept(i, s) \in S
      BY <1>1
    <2> QED
      BY <2>1 DEF Steps
  <1>3. PICK f : Stepwise(f, S, n, <<>>, step)
    <2> HIDE DEF step, S, n
    <2>1. <<>> \in S
      BY DEF S
    <2>2. n \in Nat
      BY <1>1
    <2> QED
      BY <1>2, <2>1, <2>2, StepwiseExists
  <1> HIDE DEF step
  <1>39. f \in [0..n -> S] /\ f[0] = <<>> /\ \A i \in 1..n : f[i] = step[i][f[i - 1]]
    BY <1>3 DEF Stepwise
  <1>4. \A i \in 1..n : f[i] = Kept(i, f[i - 1])
    <2> TAKE i \in 1..n
    <2>1. i - 1 \in 0..n
      BY <1>1
    <2>2. f[i - 1] \in S
      BY <1>39, <2>1
    <2>4. step[i][f[i - 1]] = Kept(i, f[i - 1])
      BY <2>2 DEF step
    <2> QED
      BY <1>39, <2>4
  <1>5. Eq(f)
    <2>1. f = [i \in 0..n |-> f[i]]
      BY <1>39
    <2>2. \A i \in 0..n : f[i] = IF i = 0 THEN <<>>
                                 ELSE IF p[i] = EmptySection THEN f[i - 1]
                                 ELSE Append(f[i - 1], p[i])
      <3> TAKE i \in 0..n
      <3>1. CASE i = 0
        BY <1>39, <3>1
      <3>2. CASE i # 0
        <4>1. i \in 1..n
          BY <1>1, <3>2
        <4> QED
          BY <1>4, <3>2, <4>1
      <3> QED
        BY <3>1, <3>2
    <2> QED
      BY <2>1, <2>2
  <1>6. Eq(k)
    <2> HIDE DEF Eq
    <2> QED
      BY <1>5
  <1>7. split(p) = k[n]
    BY DEF split
  <1> HIDE DEF k
  <1> DEFINE G(i) == /\ k[i] \in S
                     /\ HasVar(k[i]) <=> \E j \in 1..i : p[j].isVar
             P == {i \in Nat : i <= n => G(i)}
  <1>8. 0 \in P
    <2>1. k[0] = <<>>
      BY <1>1, <1>6
    <2>2. <<>> \in Seq(Section) /\ DOMAIN <<>> = {}
      OBVIOUS
    <2>3. ~HasVar(k[0])
      BY <2>1, <2>2 DEF HasVar
    <2>4. ~\E j \in 1..0 : p[j].isVar
      OBVIOUS
    <2> QED
      BY <2>1, <2>2, <2>3, <2>4
  <1>9. ASSUME NEW i \in Nat, i \in P
        PROVE  i + 1 \in P
    <2> SUFFICES ASSUME i + 1 <= n
                 PROVE  G(i + 1)
      OBVIOUS
    <2>1. G(i)
      BY <1>9
    <2>2. k[i + 1] = IF p[i + 1] = EmptySection THEN k[i] ELSE Append(k[i], p[i + 1])
      <3>1. i + 1 \in 0..n /\ i + 1 # 0 /\ (i + 1) - 1 = i
        BY <1>1
      <3> QED
        BY <1>6, <3>1
    <2>3. p[i + 1] \in Section
      BY <1>1
    <2>4. CASE p[i + 1] = EmptySection
      <3>1. ~p[i + 1].isVar
        BY <2>4, EdgeFacts
      <3>2. (\E j \in 1..(i + 1) : p[j].isVar) <=> \E j \in 1..i : p[j].isVar
        <4>1. \A j \in 1..(i + 1) : j \in 1..i \/ j = i + 1
          OBVIOUS
        <4>2. \A j \in 1..i : j \in 1..(i + 1)
          OBVIOUS
        <4> QED
          BY <3>1, <4>1, <4>2
      <3> QED
        BY <2>1, <2>2, <2>4, <3>2
    <2>5. CASE p[i + 1] # EmptySection
      <3> DEFINE a == Append(k[i], p[i + 1])
      <3>1. k[i + 1] = a
        BY <2>2, <2>5
      <3>2. k[i] \in Seq(Section)
        BY <2>1
      <3>3. /\ a \in Seq(Section) /\ DOMAIN a = 1..(Len(k[i]) + 1) /\ Len(k[i]) \in Nat
            /\ DOMAIN k[i] = 1..Len(k[i])
            /\ \A j \in 1..Len(k[i]) : a[j] = k[i][j]
            /\ a[Len(k[i]) + 1] = p[i + 1]
        BY <2>3, <3>2
      <3> HIDE DEF a
      <3>4. HasVar(a) <=> HasVar(k[i]) \/ p[i + 1].isVar
        <4>1. \A j \in 1..(Len(k[i]) + 1) : j \in 1..Len(k[i]) \/ j = Len(k[i]) + 1
          BY <3>3
        <4>2. \A j \in 1..Len(k[i]) : j \in 1..(Len(k[i]) + 1)
          BY <3>3
        <4>3. Len(k[i]) + 1 \in 1..(Len(k[i]) + 1)
          BY <3>3
        <4> QED
          BY <3>3, <4>1, <4>2, <4>3 DEF HasVar
      <3>5. (\E j \in 1..(i + 1) : p[j].isVar) <=> (\E j \in 1..i : p[j].isVar) \/ p[i + 1].isVar
        <4>1. \A j \in 1..(i + 1) : j \in 1..i \/ j = i + 1
          OBVIOUS
        <4>2. \A j \in 1..i : j \in 1..(i + 1)
          OBVIOUS
        <4>3. i + 1 \in 1..(i + 1)
          OBVIOUS
        <4> QED
          BY <4>1, <4>2, <4>3
      <3> QED
        BY <2>1, <3>1, <3>3, <3>4, <3>5
    <2> QED
      BY <2>4, <2>5
  <1>10. n \in P
    <2> HIDE DEF P
    <2> QED
      BY <1>1, <1>8, <1>9, Induction
  <1>11. DOMAIN p = 1..n
    OBVIOUS
  <1>12. G(n)
    BY <1>10
  <1> QED
    BY <1>7, <1>11, <1>12 DEF HasVar
-----------------------------------------------------------------------------
(* Where a path leads in the trie *)

\* Every node is reached over edges.
Rooted(t) == t.nodes \subseteq Seq(Edges)

LEMMA WalkIs ==
    ASSUME NEW t, NEW p \in Seq(Section), Rooted(t)
    PROVE  /\ Walk(t, p)[0] = <<>>
           /\ \A i \in 1..Len(p) : Walk(t, p)[i] = Down(t, Walk(t, p)[i - 1], p[i])
  <1> DEFINE S == t.nodes \cup {<<>>, Lost}
             n == Len(p)
             step == [i \in 1..n |-> [s \in S |-> Down(t, s, p[i])]]
             Eq(f) == f = [i \in 0..n |-> IF i = 0 THEN <<>> ELSE Down(t, f[i - 1], p[i])]
             k == CHOOSE f : Eq(f)
  <1>1. n \in Nat
    OBVIOUS
  <1>2. step \in Steps(S, n)
    <2>1. ASSUME NEW i \in 1..n, NEW s \in S
          PROVE  Down(t, s, p[i]) \in S
      BY DEF Down
    <2> HIDE DEF S
    <2> QED
      BY <2>1 DEF Steps
  <1>3. PICK f : Stepwise(f, S, n, <<>>, step)
    <2>1. <<>> \in S
      OBVIOUS
    <2> HIDE DEF step, S, n
    <2> QED
      BY <1>1, <1>2, <2>1, StepwiseExists
  <1> HIDE DEF step, S
  <1>4. f \in [0..n -> S] /\ f[0] = <<>> /\ \A i \in 1..n : f[i] = step[i][f[i - 1]]
    BY <1>3 DEF Stepwise
  <1>5. \A i \in 1..n : f[i] = Down(t, f[i - 1], p[i])
    <2> TAKE i \in 1..n
    <2>1. i - 1 \in 0..n
      BY <1>1
    <2>2. f[i - 1] \in S
      BY <1>4, <2>1
    <2>3. step[i][f[i - 1]] = Down(t, f[i - 1], p[i])
      BY <2>2 DEF step
    <2> QED
      BY <1>4, <2>3
  <1>6. Eq(f)
    <2>1. f = [i \in 0..n |-> f[i]]
      BY <1>4
    <2>2. \A i \in 0..n : f[i] = IF i = 0 THEN <<>> ELSE Down(t, f[i - 1], p[i])
      <3> TAKE i \in 0..n
      <3>1. i = 0 \/ i \in 1..n
        BY <1>1
      <3> QED
        BY <1>4, <1>5, <3>1
    <2> QED
      BY <2>1, <2>2
  <1>7. Eq(k)
    <2> HIDE DEF Eq
    <2> QED
      BY <1>6
  <1>8. Walk(t, p) = k
    BY DEF Walk
  <1> HIDE DEF k
  <1>9. k[0] = <<>> /\ \A i \in 1..n : k[i] = Down(t, k[i - 1], p[i])
    <2>1. 0 \in 0..n /\ \A i \in 1..n : i \in 0..n /\ i # 0
      BY <1>1
    <2> QED
      BY <1>7, <2>1
  <1> QED
    BY <1>8, <1>9

\* What the first i sections can lead to: a node whose edges they follow, or
\* nowhere.
Leads(t, p, i) ==
    LET w == Walk(t, p)
    IN  /\ w[i] \in t.nodes /\ Len(w[i]) = i
        /\ \A k \in 1..i : w[i][k] \in {p[k], AnyText}
        /\ \A k \in 0..i : w[k] = Above(w[i], k + 1)

\* Appending an edge to a node.
LEMMA AboveFacts ==
    ASSUME NEW S, NEW s \in Seq(S)
    PROVE  /\ \A i \in 1..(Len(s) + 1) :
                /\ Above(s, i) \in Seq(S) /\ Len(Above(s, i)) = i - 1
                /\ \A k \in 1..(i - 1) : Above(s, i)[k] = s[k]
           /\ Above(s, Len(s) + 1) = s
           /\ \A i \in 1..Len(s) : Above(s, i + 1) = Append(Above(s, i), s[i])
           /\ \A i \in 1..(Len(s) + 1) : \A k \in 1..i : Above(Above(s, i), k) = Above(s, k)
  <1> DEFINE n == Len(s)
  <1>1. n \in Nat /\ \A i \in 1..n : s[i] \in S
    OBVIOUS
  <1>2. ASSUME NEW i \in 1..(n + 1)
        PROVE  /\ Above(s, i) \in Seq(S) /\ Len(Above(s, i)) = i - 1
               /\ \A k \in 1..(i - 1) : Above(s, i)[k] = s[k]
    <2>1. \A k \in 1..(i - 1) : s[k] \in S
      BY <1>1
    <2>2. i - 1 \in Int /\ 1 \in Int
      BY <1>1
    <2>3. /\ SubSeq(s, 1, i - 1) \in Seq(S)
          /\ Len(SubSeq(s, 1, i - 1)) = IF 1 <= i - 1 THEN i - 1 - 1 + 1 ELSE 0
          /\ \A k \in 1..(i - 1 - 1 + 1) : SubSeq(s, 1, i - 1)[k] = s[1 + k - 1]
      BY <2>1, <2>2, SubSeqProperties
    <2> QED
      BY <1>1, <2>3 DEF Above
  <1>3. Above(s, n + 1) = s
    <2>1. n + 1 \in 1..(n + 1)
      BY <1>1
    <2>2. Above(s, n + 1) \in Seq(S) /\ Len(Above(s, n + 1)) = n
          /\ \A k \in 1..n : Above(s, n + 1)[k] = s[k]
      BY <1>1, <1>2, <2>1
    <2> QED
      BY <2>2, SeqEqual
  <1>4. ASSUME NEW i \in 1..n
        PROVE  Above(s, i + 1) = Append(Above(s, i), s[i])
    <2>1. i \in 1..(n + 1) /\ i + 1 \in 1..(n + 1)
      BY <1>1
    <2> DEFINE a == Above(s, i)
               b == Above(s, i + 1)
    <2>2. a \in Seq(S) /\ Len(a) = i - 1 /\ \A k \in 1..(i - 1) : a[k] = s[k]
      BY <1>2, <2>1
    <2>3. b \in Seq(S) /\ Len(b) = i /\ \A k \in 1..i : b[k] = s[k]
      BY <1>2, <2>1
    <2> HIDE DEF a, b
    <2>4. s[i] \in S
      BY <1>1
    <2>5. /\ Append(a, s[i]) \in Seq(S) /\ Len(Append(a, s[i])) = i
          /\ \A k \in 1..i : Append(a, s[i])[k] = s[k]
      BY <2>2, <2>4
    <2>6. b = Append(a, s[i])
      BY <2>3, <2>5, SeqEqual
    <2> QED
      BY <2>6 DEF a, b
  <1>5. ASSUME NEW i \in 1..(n + 1), NEW k \in 1..i
        PROVE  Above(Above(s, i), k) = Above(s, k)
    <2> DEFINE a == Above(s, i)
    <2>1. a \in Seq(S) /\ Len(a) = i - 1 /\ \A j \in 1..(i - 1) : a[j] = s[j]
      BY <1>2
    <2>2. k \in 1..(n + 1) /\ k - 1 \in Int /\ 1 \in Int
      BY <1>1
    <2> HIDE DEF a
    <2>3. \A j \in 1..(k - 1) : a[j] = s[j] /\ a[j] \in S
      BY <1>1, <2>1, <2>2
    <2>4. /\ SubSeq(a, 1, k - 1) \in Seq(S)
          /\ Len(SubSeq(a, 1, k - 1)) = IF 1 <= k - 1 THEN k - 1 - 1 + 1 ELSE 0
          /\ \A j \in 1..(k - 1 - 1 + 1) : SubSeq(a, 1, k - 1)[j] = a[1 + j - 1]
      BY <2>2, <2>3, SubSeqProperties
    <2>5. /\ Above(a, k) \in Seq(S) /\ Len(Above(a, k)) = k - 1
          /\ \A j \in 1..(k - 1) : Above(a, k)[j] = s[j]
      BY <2>2, <2>3, <2>4 DEF Above
    <2>6. /\ Above(s, k) \in Seq(S) /\ Len(Above(s, k)) = k - 1
          /\ \A j \in 1..(k - 1) : Above(s, k)[j] = s[j]
      BY <1>2, <2>2
    <2>7. Above(a, k) = Above(s, k)
      BY <2>5, <2>6, SeqEqual
    <2> QED
      BY <2>7 DEF a
  <1> QED
    BY <1>2, <1>3, <1>4, <1>5
\* Lost is no node and nothing is below it.
LEMMA LostIsLost ==
    ASSUME NEW t, Rooted(t), NEW x
    PROVE  x \in Section => Append(Lost, x) \notin t.nodes
  <1> SUFFICES ASSUME x \in Section, Append(Lost, x) \in Seq(Edges)
               PROVE  FALSE
    BY DEF Rooted
  <1> DEFINE v == Var("lost")
             S == Section \cup {v}
  <1>1. <<v>> \in Seq(S) /\ Len(<<v>>) = 1 /\ <<v>>[1] = v
    BY v \in S
  <1> HIDE DEF v
  <1>2. x \in S
    OBVIOUS
  <1> HIDE DEF S
  <1>3. Append(<<v>>, x)[1] = v /\ Len(Append(<<v>>, x)) = 2
    BY <1>1, <1>2
  <1>4. Append(<<v>>, x) \in Seq(Edges)
    BY DEF Lost, v
  <1>5. v \in Edges
    BY <1>3, <1>4
  <1> QED
    BY <1>5, EdgeFacts DEF v

LEMMA WalkFacts ==
    ASSUME NEW t, NEW p \in Seq(Section), Rooted(t), <<>> \in t.nodes,
           NEW i \in 0..Len(p)
    PROVE  Walk(t, p)[i] = Lost \/ Leads(t, p, i)
  <1> DEFINE n == Len(p)
             w == Walk(t, p)
             P == {j \in Nat : j <= n => w[j] = Lost \/ Leads(t, p, j)}
  <1>1. n \in Nat /\ \A j \in 1..n : p[j] \in Section
    OBVIOUS
  <1>2. w[0] = <<>> /\ \A j \in 1..n : w[j] = Down(t, w[j - 1], p[j])
    BY WalkIs
  <1> HIDE DEF w
  <1>3. 0 \in P
    <2>1. <<>> \in Seq(Edges) /\ Len(<<>>) = 0
      OBVIOUS
    <2>2. Above(<<>>, 1) = <<>>
      BY SubSeqEmpty DEF Above
    <2>3. \A k \in 0..0 : k = 0
      OBVIOUS
    <2>4. \A k \in 1..0 : FALSE
      OBVIOUS
    <2>5. Leads(t, p, 0)
      BY <1>2, <2>1, <2>2, <2>3, <2>4 DEF Leads, w
    <2> QED
      BY <2>5
  <1>4. ASSUME NEW j \in Nat, j \in P
        PROVE  j + 1 \in P
    <2> SUFFICES ASSUME j + 1 <= n
                 PROVE  w[j + 1] = Lost \/ Leads(t, p, j + 1)
      OBVIOUS
    <2>1. j + 1 \in 1..n /\ (j + 1) - 1 = j
      BY <1>1
    <2>2. w[j + 1] = Down(t, w[j], p[j + 1]) /\ p[j + 1] \in Section
      BY <1>1, <1>2, <2>1
    <2>3. CASE w[j] = Lost
      <3>1. Append(Lost, p[j + 1]) \notin t.nodes /\ Append(Lost, AnyText) \notin t.nodes
        BY <2>2, LostIsLost, EdgeFacts
      <3> QED
        BY <2>2, <2>3, <3>1 DEF Down
    <2>4. CASE Leads(t, p, j)
      <3>1. /\ w[j] \in t.nodes /\ Len(w[j]) = j
            /\ \A k \in 1..j : w[j][k] \in {p[k], AnyText}
            /\ \A k \in 0..j : w[k] = Above(w[j], k + 1)
        BY <2>4 DEF Leads, w
      <3>2. CASE w[j + 1] # Lost
        <4>1. PICK x \in {p[j + 1], AnyText} : w[j + 1] = Append(w[j], x) /\ w[j + 1] \in t.nodes
          BY <2>2, <3>2 DEF Down
        <4>2. w[j] \in Seq(Section) /\ x \in Section
          BY <2>2, <3>1, EdgeFacts DEF Rooted
        <4> DEFINE a == w[j + 1]
        <4>3. a \in Seq(Section) /\ Len(a) = j + 1 /\ a[j + 1] = x
              /\ \A k \in 1..j : a[k] = w[j][k]
          BY <3>1, <4>1, <4>2
        <4>4. \A k \in 1..(j + 1) : a[k] \in {p[k], AnyText}
          <5>1. \A k \in 1..(j + 1) : k \in 1..j \/ k = j + 1
            OBVIOUS
          <5> HIDE DEF a
          <5> QED
            BY <3>1, <4>3, <5>1
        <4>5. Above(a, j + 1) = w[j]
          <5> HIDE DEF a
          <5>1. /\ Above(a, j + 1) \in Seq(Section) /\ Len(Above(a, j + 1)) = j
                /\ \A k \in 1..j : Above(a, j + 1)[k] = a[k]
            <6>1. j + 1 \in 1..(Len(a) + 1) /\ (j + 1) - 1 = j
              BY <4>3
            <6> QED
              BY <4>3, <6>1, AboveFacts
          <5> QED
            BY <3>1, <4>2, <4>3, <5>1, SeqEqual
        <4>6. ASSUME NEW k \in 0..(j + 1)
              PROVE  w[k] = Above(a, k + 1)
          <5> HIDE DEF a
          <5>1. CASE k = j + 1
            <6>1. Above(a, k + 1) = a
              BY <4>3, <5>1, AboveFacts
            <6> QED
              BY <5>1, <6>1 DEF a
          <5>2. CASE k # j + 1
            <6>1. k \in 0..j /\ k + 1 \in 1..(j + 1) /\ j + 1 \in 1..(Len(a) + 1)
              BY <4>3, <5>2
            <6>2. Above(Above(a, j + 1), k + 1) = Above(a, k + 1)
              BY <4>3, <6>1, AboveFacts
            <6> QED
              BY <3>1, <4>5, <6>1, <6>2
          <5> QED
            BY <5>1, <5>2
        <4>7. Leads(t, p, j + 1)
          BY <4>1, <4>3, <4>4, <4>6 DEF Leads, w
        <4> QED
          BY <4>7
      <3> QED
        BY <3>2
    <2>5. w[j] = Lost \/ Leads(t, p, j)
      BY <1>4, <2>1
    <2> QED
      BY <2>3, <2>4, <2>5
  <1>5. Nat \subseteq P
    <2> HIDE DEF P
    <2> QED
      BY <1>3, <1>4, Induction
  <1> QED
    BY <1>1, <1>5 DEF w

\* A node whose edges the path follows, but to which it does not lead: somewhere
\* on the way a literal edge took it away from a variable one.
LEMMA Diverted ==
    ASSUME NEW t, NEW p \in Seq(Section), Rooted(t),
           NEW s \in Seq(Edges), Len(s) = Len(p),
           \A i \in 1..(Len(s) + 1) : Above(s, i) \in t.nodes,
           \A i \in 1..Len(s) : s[i] \in {p[i], AnyText},
           Walk(t, p)[Len(p)] # s
    PROVE  \E i \in 1..Len(s) :
               /\ s[i] = AnyText /\ p[i] # AnyText
               /\ Append(Above(s, i), p[i]) \in t.nodes
  <1> DEFINE n == Len(p)
             w == Walk(t, p)
             D == {i \in 0..n : w[i] # Above(s, i + 1)}
  <1>1. n \in Nat /\ n = Len(s)
    OBVIOUS
  <1>2. w[0] = <<>> /\ \A j \in 1..n : w[j] = Down(t, w[j - 1], p[j])
    BY WalkIs
  <1> HIDE DEF w
  <1>3. n \in D
    <2>1. Above(s, n + 1) = s
      BY <1>1, AboveFacts
    <2> QED
      BY <1>1, <2>1 DEF w
  <1>4. PICK m \in D : \A k \in D : ~(k < m)
    <2>1. D \subseteq Nat
      BY <1>1
    <2> HIDE DEF D
    <2> QED
      BY <1>3, <2>1, LeastNatural
  <1>5. m # 0
    <2>1. Above(s, 1) = <<>>
      <3>1. Above(s, 1) \in Seq(Edges) /\ Len(Above(s, 1)) = 0
        <4>1. 1 \in 1..(Len(s) + 1) /\ 1 - 1 = 0
          BY <1>1
        <4> QED
          BY <4>1, AboveFacts
      <3> QED
        BY <3>1
    <2> QED
      BY <1>2, <2>1
  <1>6. m \in 1..n /\ m - 1 \in 0..n /\ m - 1 < m
    BY <1>1, <1>5
  <1>7. w[m - 1] = Above(s, m)
    <2>1. (m - 1) + 1 = m
      BY <1>1, <1>6
    <2>2. m - 1 \notin D
      <3> HIDE DEF D
      <3> QED
        BY <1>4, <1>6
    <2> QED
      BY <1>6, <2>1, <2>2
  <1>8. w[m] = Down(t, Above(s, m), p[m])
    BY <1>2, <1>6, <1>7
  <1>9. w[m] # Append(Above(s, m), s[m]) /\ Append(Above(s, m), s[m]) \in t.nodes
    <2>1. Above(s, m + 1) = Append(Above(s, m), s[m])
      BY <1>1, <1>6, AboveFacts
    <2>2. m + 1 \in 1..(Len(s) + 1)
      BY <1>1, <1>6
    <2> QED
      BY <2>1, <2>2
  <1>10. s[m] \in {p[m], AnyText}
    BY <1>1, <1>6
  <1>11. Append(Above(s, m), p[m]) \in t.nodes
    BY <1>8, <1>9, <1>10 DEF Down
  <1>12. s[m] # p[m]
    BY <1>8, <1>9, <1>11 DEF Down
  <1> QED
    BY <1>1, <1>6, <1>10, <1>11, <1>12
-----------------------------------------------------------------------------
(* What the tables hold when the endpoints d have been declared             *)

Templates(d) == {j \in DOMAIN d : HasVar(d[j].api)}
Node(d, j) == Shape(Template(d[j]))
Variables(e) == {i \in DOMAIN Template(e) : Template(e)[i].isVar}

\* A name calls an endpoint of that name.
FuncsAre(d, funcs) ==
    /\ DOMAIN funcs = {Name(d[j]) : j \in DOMAIN d}
    /\ \A x \in DOMAIN funcs : \E j \in DOMAIN d : funcs[x] = d[j] /\ Name(d[j]) = x

\* A text has the name of the first endpoint declared with it.
HdrsAre(d, hdrs) ==
    /\ DOMAIN hdrs = {d[j].api : j \in DOMAIN d}
    /\ \A x \in DOMAIN hdrs : \E j \in DOMAIN d :
          /\ d[j].api = x /\ hdrs[x] = Name(d[j])
          /\ \A k \in DOMAIN d : k < j => d[k].api # x

\* The trie's nodes are those that templates pass.
NodesAre(d, nodes) ==
    nodes = {<<>>} \cup UNION {{Above(Node(d, j), i) : i \in 1..Len(Node(d, j)) + 1} : j \in Templates(d)}

\* A node has the name of the last template that ends there.
NamesAre(d, names) ==
    /\ DOMAIN names = {Node(d, j) : j \in Templates(d)}
    /\ \A x \in DOMAIN names : \E j \in Templates(d) :
          /\ Node(d, j) = x /\ names[x] = Name(d[j])
          /\ \A k \in Templates(d) : k > j => Node(d, k) # x

\* A variable edge has the name that the first template over it gave it.
VarsAre(d, names) ==
    /\ DOMAIN names = UNION {{Above(Node(d, j), i) : i \in Variables(d[j])} : j \in Templates(d)}
    /\ \A x \in DOMAIN names : \E j \in Templates(d) : \E i \in Variables(d[j]) :
          /\ x = Above(Node(d, j), i) /\ names[x] = Template(d[j])[i].text
          /\ \A k \in Templates(d) : k < j =>
                \A l \in Variables(d[k]) : Above(Node(d, k), l) # x

Tables ==
    /\ FuncsAre(declared, _funcs)
    /\ HdrsAre(declared, _api_hdrs)
    /\ NodesAre(declared, _path_vars.nodes)
    /\ NamesAre(declared, _path_vars.name)
    /\ VarsAre(declared, _path_vars.var)

\* The inductive invariant.  An answer was given with the tables as they are,
\* because nothing is declared any more when the server is up.
Inv ==
    /\ declared \in Seq(Endpoints)
    /\ \A i, j \in DOMAIN declared : declared[i] = declared[j] => i = j
    /\ Tables
    /\ reply # NoReply => server = "up" /\ \E r \in Requests : reply = entry(r)

-----------------------------------------------------------------------------
(* A registration *)

LEMMA ShapeFacts ==
    ASSUME NEW s \in Seq(Section)
    PROVE  /\ Shape(s) \in Seq(Edges) /\ Shape(s) \in Seq(Section)
           /\ Len(Shape(s)) = Len(s) /\ DOMAIN s = 1..Len(s) /\ Len(s) \in Nat
           /\ \A i \in 1..Len(s) : s[i] \in Section /\ Shape(s)[i] = Edge(s[i])
  <1>1. DOMAIN s = 1..Len(s) /\ Len(s) \in Nat /\ \A i \in 1..Len(s) : s[i] \in Section
    OBVIOUS
  <1>2. Shape(s) = [i \in 1..Len(s) |-> Edge(s[i])]
    BY <1>1 DEF Shape
  <1>3. \A i \in 1..Len(s) : Edge(s[i]) \in Edges /\ Edge(s[i]) \in Section
    BY <1>1, EdgeFacts
  <1> QED
    BY <1>1, <1>2, <1>3

LEMMA TemplateFacts ==
    ASSUME NEW e \in Endpoints
    PROVE  /\ Template(e) \in Seq(Section) /\ Shape(Template(e)) \in Seq(Edges)
           /\ Variables(e) \subseteq 1..Len(Template(e))
           /\ HasVar(e.api) <=> Variables(e) # {}
  <1>1. e.api \in Seq(Section)
    BY RouterAssumption
  <1>2. split(e.api) \in Seq(Section) /\ (HasVar(split(e.api)) <=> HasVar(e.api))
    BY <1>1, SplitFacts
  <1> QED
    BY <1>2, ShapeFacts DEF Template, Variables, HasVar

LEMMA Grown ==
    ASSUME NEW d \in Seq(Endpoints), NEW e \in Endpoints
    PROVE  LET c == Append(d, e)
               n == Len(d) + 1
           IN  /\ c \in Seq(Endpoints) /\ n \in Nat /\ n \notin DOMAIN d
               /\ DOMAIN d \subseteq Nat /\ DOMAIN c = DOMAIN d \cup {n} /\ c[n] = e
               /\ \A j \in DOMAIN d : j < n /\ c[j] = d[j] /\ d[j] \in Endpoints
               /\ Templates(c) = Templates(d) \cup (IF HasVar(e.api) THEN {n} ELSE {})
               /\ Templates(d) \subseteq DOMAIN d /\ n \notin Templates(d)
               /\ \A j \in DOMAIN d : Node(c, j) = Node(d, j)
               /\ Node(c, n) = Shape(Template(e))
  <1> DEFINE c == Append(d, e)
             n == Len(d) + 1
  <1>1. Len(d) \in Nat /\ DOMAIN d = 1..Len(d) /\ \A j \in DOMAIN d : d[j] \in Endpoints
    OBVIOUS
  <1>2. c \in Seq(Endpoints) /\ DOMAIN c = 1..n /\ c[n] = e /\ \A j \in 1..Len(d) : c[j] = d[j]
    OBVIOUS
  <1> HIDE DEF c
  <1>3. DOMAIN c = DOMAIN d \cup {n} /\ n \notin DOMAIN d /\ \A j \in DOMAIN d : j < n
    BY <1>1, <1>2
  <1> HIDE DEF n
  <1>4. Templates(c) = Templates(d) \cup (IF HasVar(e.api) THEN {n} ELSE {})
    BY <1>1, <1>2, <1>3 DEF Templates
  <1>5. Templates(d) \subseteq DOMAIN d
    BY DEF Templates
  <1>6. Node(c, n) = Shape(Template(e)) /\ \A j \in DOMAIN d : Node(c, j) = Node(d, j)
    BY <1>1, <1>2 DEF Node
  <1>7. n \in Nat
    BY <1>1 DEF n
  <1> QED
    BY <1>1, <1>2, <1>3, <1>4, <1>5, <1>6, <1>7 DEF c, n

LEMMA FuncsGrow ==
    ASSUME NEW d \in Seq(Endpoints), NEW e \in Endpoints, NEW f, FuncsAre(d, f)
    PROVE  FuncsAre(Append(d, e), Emplaced(f, Name(e), e))
  <1> DEFINE c == Append(d, e)
             n == Len(d) + 1
             g == Emplaced(f, Name(e), e)
  <1>1. /\ DOMAIN c = DOMAIN d \cup {n} /\ c[n] = e
        /\ \A j \in DOMAIN d : c[j] = d[j]
    BY Grown
  <1>2. /\ DOMAIN g = DOMAIN f \cup {Name(e)}
        /\ \A x \in DOMAIN f : g[x] = f[x]
        /\ Name(e) \notin DOMAIN f => g[Name(e)] = e
    BY DEF Emplaced, Put, Merged
  <1> HIDE DEF c, n, g
  <1>3. DOMAIN g = {Name(c[j]) : j \in DOMAIN c}
    BY <1>1, <1>2 DEF FuncsAre
  <1>4. \A x \in DOMAIN g : \E j \in DOMAIN c : g[x] = c[j] /\ Name(c[j]) = x
    <2> TAKE x \in DOMAIN g
    <2>1. CASE x \in DOMAIN f
      <3>1. PICK j \in DOMAIN d : f[x] = d[j] /\ Name(d[j]) = x
        BY <2>1 DEF FuncsAre
      <3> QED
        BY <1>1, <1>2, <2>1, <3>1
    <2>2. CASE x \notin DOMAIN f
      BY <1>1, <1>2, <2>2
    <2> QED
      BY <2>1, <2>2
  <1>5. FuncsAre(c, g)
    BY <1>3, <1>4 DEF FuncsAre
  <1> QED
    BY <1>5 DEF c, g

LEMMA HdrsGrow ==
    ASSUME NEW d \in Seq(Endpoints), NEW e \in Endpoints, NEW h, HdrsAre(d, h)
    PROVE  HdrsAre(Append(d, e), Emplaced(h, e.api, Name(e)))
  <1> DEFINE c == Append(d, e)
             n == Len(d) + 1
             g == Emplaced(h, e.api, Name(e))
  <1>1. /\ DOMAIN c = DOMAIN d \cup {n} /\ c[n] = e /\ n \in Nat
        /\ DOMAIN d \subseteq Nat
        /\ \A j \in DOMAIN d : c[j] = d[j] /\ j < n
    BY Grown
  <1>2. /\ DOMAIN g = DOMAIN h \cup {e.api}
        /\ \A x \in DOMAIN h : g[x] = h[x]
        /\ e.api \notin DOMAIN h => g[e.api] = Name(e)
    BY DEF Emplaced, Put, Merged
  <1> HIDE DEF c, n, g
  <1>3. DOMAIN g = {c[j].api : j \in DOMAIN c}
    BY <1>1, <1>2 DEF HdrsAre
  <1>4. ASSUME NEW x \in DOMAIN g
        PROVE  \E j \in DOMAIN c : /\ c[j].api = x /\ g[x] = Name(c[j])
                                   /\ \A k \in DOMAIN c : k < j => c[k].api # x
    <2>1. CASE x \in DOMAIN h
      <3>1. PICK j \in DOMAIN d : /\ d[j].api = x /\ h[x] = Name(d[j])
                                 /\ \A k \in DOMAIN d : k < j => d[k].api # x
        BY <2>1 DEF HdrsAre
      <3>2. \A k \in DOMAIN c : k < j => k \in DOMAIN d
        BY <1>1
      <3> QED
        BY <1>1, <1>2, <2>1, <3>1, <3>2
    <2>2. CASE x \notin DOMAIN h
      <3>1. x = e.api
        BY <1>2, <2>2
      <3>2. \A k \in DOMAIN d : d[k].api # x
        BY <2>2 DEF HdrsAre
      <3>3. \A k \in DOMAIN c : k < n => c[k].api # x
        BY <1>1, <3>2
      <3> QED
        BY <1>1, <1>2, <2>2, <3>1, <3>3
    <2> QED
      BY <2>1, <2>2
  <1>5. HdrsAre(c, g)
    BY <1>3, <1>4 DEF HdrsAre
  <1> QED
    BY <1>5 DEF c, g

\* A template adds its nodes, its name and, where there is none, its variables.
LEMMA NodesGrow ==
    ASSUME NEW d \in Seq(Endpoints), NEW e \in Endpoints, HasVar(e.api), NEW nodes, NodesAre(d, nodes)
    PROVE  LET node == Shape(Template(e))
           IN  NodesAre(Append(d, e), nodes \cup {Above(node, i) : i \in 1..Len(node) + 1})
  <1> DEFINE c == Append(d, e)
             n == Len(d) + 1
             node == Shape(Template(e))
             Passed(x) == {Above(x, i) : i \in 1..Len(x) + 1}
  <1>1. Templates(c) = Templates(d) \cup {n} /\ Templates(d) \subseteq DOMAIN d
    BY Grown
  <1>2. Node(c, n) = node /\ \A j \in Templates(d) : Node(c, j) = Node(d, j)
    BY <1>1, Grown
  <1> HIDE DEF c, n, node
  <1>3. nodes \cup Passed(node) = {<<>>} \cup UNION {Passed(Node(c, j)) : j \in Templates(c)}
    <2>1. Passed(Node(c, n)) = Passed(node)
      BY <1>2
    <2>2. \A j \in Templates(d) : Passed(Node(c, j)) = Passed(Node(d, j))
      BY <1>2
    <2>3. \A x : x \in nodes <=> x = <<>> \/ \E j \in Templates(d) : x \in Passed(Node(d, j))
      BY DEF NodesAre
    <2> HIDE DEF Passed
    <2>4. \A x : x \in UNION {Passed(Node(c, j)) : j \in Templates(c)}
                  <=> \E j \in Templates(c) : x \in Passed(Node(c, j))
      OBVIOUS
    <2>5. \A x : (\E j \in Templates(c) : x \in Passed(Node(c, j)))
                  <=> (\E j \in Templates(d) : x \in Passed(Node(d, j))) \/ x \in Passed(node)
      BY <1>1, <2>1, <2>2
    <2> QED
      BY <2>3, <2>4, <2>5
  <1>6. NodesAre(c, nodes \cup Passed(node))
    BY <1>3 DEF NodesAre
  <1> QED
    BY <1>6 DEF c, node

LEMMA NamesGrow ==
    ASSUME NEW d \in Seq(Endpoints), NEW e \in Endpoints, HasVar(e.api), NEW m, NamesAre(d, m)
    PROVE  NamesAre(Append(d, e), Put(m, Shape(Template(e)), Name(e)))
  <1> DEFINE c == Append(d, e)
             n == Len(d) + 1
             node == Shape(Template(e))
             g == Put(m, node, Name(e))
  <1>1. /\ c[n] = e /\ n \in Nat /\ DOMAIN d \subseteq Nat
        /\ \A j \in DOMAIN d : c[j] = d[j] /\ j < n
        /\ Templates(c) = Templates(d) \cup {n} /\ Templates(d) \subseteq DOMAIN d
    BY Grown
  <1>2. Node(c, n) = node /\ \A j \in Templates(d) : Node(c, j) = Node(d, j)
    BY <1>1, Grown
  <1>3. /\ DOMAIN g = DOMAIN m \cup {node}
        /\ \A x \in DOMAIN m : x # node => g[x] = m[x]
        /\ g[node] = Name(e)
    BY DEF Emplaced, Put, Merged
  <1> HIDE DEF c, n, node, g
  <1>4. DOMAIN g = {Node(c, j) : j \in Templates(c)}
    BY <1>1, <1>2, <1>3 DEF NamesAre
  <1>5. ASSUME NEW x \in DOMAIN g
        PROVE  \E j \in Templates(c) : /\ Node(c, j) = x /\ g[x] = Name(c[j])
                                      /\ \A k \in Templates(c) : k > j => Node(c, k) # x
    <2>1. CASE x = node
      <3>1. \A k \in Templates(c) : ~(k > n)
        BY <1>1
      <3> QED
        BY <1>1, <1>2, <1>3, <2>1, <3>1
    <2>2. CASE x # node
      <3>1. x \in DOMAIN m
        BY <1>3, <2>2
      <3>2. PICK j \in Templates(d) : /\ Node(d, j) = x /\ m[x] = Name(d[j])
                                     /\ \A k \in Templates(d) : k > j => Node(d, k) # x
        BY <3>1 DEF NamesAre
      <3>3. \A k \in Templates(c) : k > j => Node(c, k) # x
        BY <1>1, <1>2, <2>2, <3>2
      <3>4. c[j] = d[j]
        BY <1>1
      <3> QED
        BY <1>1, <1>2, <1>3, <2>2, <3>1, <3>2, <3>3, <3>4
    <2> QED
      BY <2>1, <2>2
  <1>6. NamesAre(c, g)
    BY <1>4, <1>5 DEF NamesAre
  <1> QED
    BY <1>6 DEF c, node, g

LEMMA VarsGrow ==
    ASSUME NEW d \in Seq(Endpoints), NEW e \in Endpoints, HasVar(e.api), NEW v, VarsAre(d, v)
    PROVE  VarsAre(Append(d, e), Merged(v, VarNames(Template(e))))
  <1> DEFINE c == Append(d, e)
             n == Len(d) + 1
             node == Shape(Template(e))
             own == VarNames(Template(e))
             g == Merged(v, own)
  <1>1. /\ c[n] = e /\ n \in Nat /\ DOMAIN d \subseteq Nat
        /\ \A j \in DOMAIN d : c[j] = d[j] /\ j < n
        /\ Templates(c) = Templates(d) \cup {n} /\ Templates(d) \subseteq DOMAIN d
    BY Grown
  <1>2. Node(c, n) = node /\ \A j \in Templates(d) : Node(c, j) = Node(d, j) /\ c[j] = d[j]
    BY <1>1, Grown
  <1>3. /\ Variables(e) \subseteq 1..Len(node)
        /\ node \in Seq(Edges) /\ Len(node) \in Nat
        /\ DOMAIN node = 1..Len(node) /\ DOMAIN Template(e) = 1..Len(node)
    <2>1. Template(e) \in Seq(Section) /\ Variables(e) \subseteq 1..Len(Template(e))
      BY TemplateFacts
    <2> QED
      BY <2>1, ShapeFacts
  <1>4. \A i \in Variables(e) : Len(Above(node, i)) = i - 1 /\ i \in Nat
    <2> TAKE i \in Variables(e)
    <2>1. i \in 1..(Len(node) + 1)
      BY <1>3
    <2> HIDE DEF node
    <2> QED
      BY <1>3, <2>1, AboveFacts
  <1>5. DOMAIN own = {Above(node, i) : i \in Variables(e)}
    BY <1>3 DEF VarNames, Variables
  <1>6. \A i \in Variables(e) : own[Above(node, i)] = Template(e)[i].text
    <2> TAKE i \in Variables(e)
    <2>1. Above(node, i) \in DOMAIN own
      BY <1>5
    <2>2. own[Above(node, i)] = Template(e)[Len(Above(node, i)) + 1].text
      BY <2>1 DEF VarNames
    <2>3. Len(Above(node, i)) + 1 = i
      BY <1>4
    <2> QED
      BY <2>2, <2>3
  <1>7. /\ DOMAIN g = DOMAIN v \cup DOMAIN own
        /\ \A x \in DOMAIN v : g[x] = v[x]
        /\ \A x \in DOMAIN own : x \notin DOMAIN v => g[x] = own[x]
    <2> HIDE DEF own
    <2> QED
      BY DEF Merged
  <1> HIDE DEF c, n, node, own, g
  <1> DEFINE Named(D, j) == {Above(Node(D, j), i) : i \in Variables(D[j])}
  <1>8. DOMAIN v = UNION {Named(d, j) : j \in Templates(d)}
    BY DEF VarsAre
  <1>9. Named(c, n) = DOMAIN own /\ \A j \in Templates(d) : Named(c, j) = Named(d, j)
    BY <1>1, <1>2, <1>5
  <1>10. DOMAIN g = UNION {Named(c, j) : j \in Templates(c)}
    <2> HIDE DEF Named
    <2> QED
      BY <1>1, <1>7, <1>8, <1>9
  <1>11. ASSUME NEW x \in DOMAIN g
         PROVE  \E j \in Templates(c) : \E i \in Variables(c[j]) :
                   /\ x = Above(Node(c, j), i) /\ g[x] = Template(c[j])[i].text
                   /\ \A k \in Templates(c) : k < j =>
                         \A l \in Variables(c[k]) : Above(Node(c, k), l) # x
    <2>1. CASE x \in DOMAIN v
      <3>1. PICK j \in Templates(d) : \E i \in Variables(d[j]) :
                   /\ x = Above(Node(d, j), i) /\ v[x] = Template(d[j])[i].text
                   /\ \A k \in Templates(d) : k < j =>
                         \A l \in Variables(d[k]) : Above(Node(d, k), l) # x
        BY <2>1 DEF VarsAre
      <3>2. \A k \in Templates(c) : k < j => k \in Templates(d)
        BY <1>1
      <3>3. g[x] = v[x] /\ j \in Templates(c) /\ c[j] = d[j] /\ Node(c, j) = Node(d, j)
        BY <1>1, <1>2, <1>7, <2>1
      <3>4. \A k \in Templates(d) : c[k] = d[k] /\ Node(c, k) = Node(d, k)
        BY <1>2
      <3> QED
        BY <3>1, <3>2, <3>3, <3>4
    <2>2. CASE x \notin DOMAIN v
      <3>1. x \in DOMAIN own /\ g[x] = own[x]
        BY <1>7, <2>2
      <3>2. PICK i \in Variables(e) : x = Above(node, i) /\ g[x] = Template(e)[i].text
        BY <1>5, <1>6, <3>1
      <3>3. ASSUME NEW k \in Templates(c), k < n, NEW l \in Variables(c[k])
            PROVE  Above(Node(c, k), l) # x
        <4>1. k \in Templates(d) /\ c[k] = d[k] /\ Node(c, k) = Node(d, k)
          BY <1>1, <1>2, <3>3
        <4>2. Above(Node(d, k), l) \in Named(d, k)
          BY <4>1
        <4> QED
          BY <1>8, <2>2, <4>1, <4>2
      <3>4. n \in Templates(c)
        BY <1>1
      <3> QED
        BY <1>1, <1>2, <3>2, <3>3, <3>4
    <2> QED
      BY <2>1, <2>2
  <1>12. VarsAre(c, g)
    BY <1>10, <1>11 DEF VarsAre
  <1> QED
    BY <1>12 DEF c, own, g

-----------------------------------------------------------------------------
LEMMA InitInv == Init => Inv
  <1> SUFFICES ASSUME Init
               PROVE  Inv
    OBVIOUS
  <1>1. declared = <<>> /\ _api_hdrs = <<>> /\ _funcs = <<>> /\ _path_vars = EmptyTrie /\ reply = NoReply
    BY DEF Init
  <1>2. DOMAIN declared = {} /\ declared \in Seq(Endpoints) /\ DOMAIN _api_hdrs = {} /\ DOMAIN _funcs = {}
    BY <1>1
  <1>3. /\ _path_vars.nodes = {<<>>} /\ DOMAIN _path_vars.name = {}
        /\ DOMAIN _path_vars.var = {}
    BY <1>1 DEF EmptyTrie
  <1>4. Templates(declared) = {}
    BY <1>2 DEF Templates
  <1>5. FuncsAre(declared, _funcs) /\ HdrsAre(declared, _api_hdrs)
    BY <1>2 DEF FuncsAre, HdrsAre
  <1>6. NodesAre(declared, _path_vars.nodes)
    BY <1>3, <1>4 DEF NodesAre
  <1>7. NamesAre(declared, _path_vars.name) /\ VarsAre(declared, _path_vars.var)
    BY <1>3, <1>4 DEF NamesAre, VarsAre
  <1> QED
    BY <1>1, <1>2, <1>5, <1>6, <1>7 DEF Inv, Tables

\* An endpoint without a variable leaves the trie as it is.
LEMMA PlainTextGrows ==
    ASSUME NEW d \in Seq(Endpoints), NEW e \in Endpoints, ~HasVar(e.api), NEW t,
           NodesAre(d, t.nodes), NamesAre(d, t.name), VarsAre(d, t.var)
    PROVE  LET c == Append(d, e)
           IN  NodesAre(c, t.nodes) /\ NamesAre(c, t.name) /\ VarsAre(c, t.var)
  <1> DEFINE c == Append(d, e)
  <1>0. /\ Templates(c) = Templates(d)
        /\ Templates(d) \subseteq DOMAIN d
        /\ \A j \in DOMAIN d : c[j] = d[j]
    BY Grown DEF Templates
  <1>1. /\ Templates(c) = Templates(d)
        /\ \A j \in Templates(d) : c[j] = d[j] /\ Node(c, j) = Node(d, j)
    <2>1. \A j \in Templates(d) : c[j] = d[j]
      BY <1>0
    <2> QED
      BY <1>0, <2>1 DEF Node
  <1> HIDE DEF c
  <1>2. NodesAre(c, t.nodes)
    <2> DEFINE Passed(x) == {Above(x, i) : i \in 1..Len(x) + 1}
    <2>1. \A x : x \in UNION {Passed(Node(c, j)) : j \in Templates(c)}
                  <=> x \in UNION {Passed(Node(d, j)) : j \in Templates(d)}
      <3>1. \A j \in Templates(d) : Passed(Node(c, j)) = Passed(Node(d, j))
        BY <1>1
      <3> HIDE DEF Passed
      <3> QED
        BY <1>1, <3>1
    <2>2. UNION {Passed(Node(c, j)) : j \in Templates(c)} = UNION {Passed(Node(d, j)) : j \in Templates(d)}
      <3> HIDE DEF Passed
      <3> QED
        BY <2>1
    <2> QED
      BY <2>2 DEF NodesAre
  <1>3. NamesAre(c, t.name)
    BY <1>1 DEF NamesAre
  <1>4. VarsAre(c, t.var)
    <2> DEFINE Named(D, j) == {Above(Node(D, j), i) : i \in Variables(D[j])}
    <2>1. \A x : x \in UNION {Named(c, j) : j \in Templates(c)}
                  <=> x \in UNION {Named(d, j) : j \in Templates(d)}
      <3>1. \A j \in Templates(d) : Named(c, j) = Named(d, j)
        BY <1>1
      <3> HIDE DEF Named
      <3> QED
        BY <1>1, <3>1
    <2>2. UNION {Named(c, j) : j \in Templates(c)} = UNION {Named(d, j) : j \in Templates(d)}
      <3> HIDE DEF Named
      <3> QED
        BY <2>1
    <2>3. DOMAIN t.var = UNION {Named(c, j) : j \in Templates(c)}
      BY <2>2 DEF VarsAre
    <2>4. ASSUME NEW x \in DOMAIN t.var
          PROVE  \E j \in Templates(c) : \E i \in Variables(c[j]) :
                    /\ x = Above(Node(c, j), i) /\ t.var[x] = Template(c[j])[i].text
                    /\ \A k \in Templates(c) : k < j =>
                          \A l \in Variables(c[k]) : Above(Node(c, k), l) # x
      <3>1. PICK j \in Templates(d) : \E i \in Variables(d[j]) :
                    /\ x = Above(Node(d, j), i) /\ t.var[x] = Template(d[j])[i].text
                    /\ \A k \in Templates(d) : k < j =>
                          \A l \in Variables(d[k]) : Above(Node(d, k), l) # x
        BY DEF VarsAre
      <3> QED
        BY <1>1, <3>1
    <2> QED
      BY <2>3, <2>4 DEF VarsAre
  <1> QED
    BY <1>2, <1>3, <1>4 DEF c

LEMMA RegisterInv ==
    ASSUME Inv, NEW e \in Endpoints, Register(e)
    PROVE  Inv'
  <1>1. /\ server = "down" /\ e \notin Range(declared)
        /\ _api_hdrs' = Emplaced(_api_hdrs, e.api, Name(e))
        /\ _path_vars' = IF HasVar(e.api) THEN put(_path_vars, e.api, Name(e)) ELSE _path_vars
        /\ _funcs' = Emplaced(_funcs, Name(e), e)
        /\ declared' = Append(declared, e)
        /\ server' = server /\ reply' = reply
    BY DEF Register
  <1>2. declared \in Seq(Endpoints) /\ Tables /\ reply = NoReply
    BY <1>1 DEF Inv
  <1>3. /\ declared' \in Seq(Endpoints)
        /\ \A i, j \in DOMAIN declared' : declared'[i] = declared'[j] => i = j
    <2> DEFINE c == Append(declared, e)
               n == Len(declared) + 1
    <2>1. /\ c \in Seq(Endpoints) /\ DOMAIN c = DOMAIN declared \cup {n} /\ c[n] = e
          /\ \A j \in DOMAIN declared : c[j] = declared[j]
      BY <1>2, Grown
    <2>2. \A j \in DOMAIN declared : declared[j] # e
      BY <1>1 DEF Range
    <2> HIDE DEF c, n
    <2>3. \A i, j \in DOMAIN declared : declared[i] = declared[j] => i = j
      BY DEF Inv
    <2>4. \A i, j \in DOMAIN c : c[i] = c[j] => i = j
      BY <2>1, <2>2, <2>3
    <2>5. declared' = c
      BY <1>1 DEF c
    <2> QED
      BY <2>1, <2>4, <2>5
  <1>4. FuncsAre(declared', _funcs') /\ HdrsAre(declared', _api_hdrs')
    BY <1>1, <1>2, FuncsGrow, HdrsGrow DEF Tables
  <1>5. /\ NodesAre(declared', _path_vars'.nodes)
        /\ NamesAre(declared', _path_vars'.name)
        /\ VarsAre(declared', _path_vars'.var)
    <2>1. CASE HasVar(e.api)
      <3> DEFINE node == Shape(Template(e))
      <3>1. /\ _path_vars'.nodes = _path_vars.nodes \cup {Above(node, i) : i \in 1..Len(node) + 1}
            /\ _path_vars'.name = Put(_path_vars.name, node, Name(e))
            /\ _path_vars'.var = Merged(_path_vars.var, VarNames(Template(e)))
        BY <1>1, <2>1 DEF put, Template
      <3>2. NodesAre(Append(declared, e), _path_vars.nodes \cup {Above(node, i) : i \in 1..Len(node) + 1})
        BY <1>2, <2>1, NodesGrow DEF Tables
      <3>3. NamesAre(Append(declared, e), Put(_path_vars.name, node, Name(e)))
        BY <1>2, <2>1, NamesGrow DEF Tables
      <3>4. VarsAre(Append(declared, e), Merged(_path_vars.var, VarNames(Template(e))))
        BY <1>2, <2>1, VarsGrow DEF Tables
      <3> HIDE DEF node
      <3> QED
        BY <1>1, <3>1, <3>2, <3>3, <3>4
    <2>2. CASE ~HasVar(e.api)
      <3>1. /\ NodesAre(Append(declared, e), _path_vars.nodes)
            /\ NamesAre(Append(declared, e), _path_vars.name)
            /\ VarsAre(Append(declared, e), _path_vars.var)
        BY <1>2, <2>2, PlainTextGrows DEF Tables
      <3> QED
        BY <1>1, <2>2, <3>1
    <2> QED
      BY <2>1, <2>2
  <1>6. Tables'
    BY <1>4, <1>5 DEF Tables
  <1> QED
    BY <1>1, <1>2, <1>3, <1>6 DEF Inv

LEMMA StepInv == Inv /\ [Next]_vars => Inv'
  <1> SUFFICES ASSUME Inv, [Next]_vars
               PROVE  Inv'
    OBVIOUS
  <1>1. ASSUME NEW e \in Endpoints, Register(e)
        PROVE  Inv'
    BY <1>1, RegisterInv
  <1>2. CASE reg_http_serivces
    <2>1. reply = NoReply /\ UNCHANGED <<_api_hdrs, _path_vars, _funcs, declared, reply>>
      BY <1>2 DEF reg_http_serivces, Inv
    <2>2. Tables'
      BY <2>1 DEF Inv, Tables
    <2> QED
      BY <2>1, <2>2 DEF Inv
  <1>3. ASSUME NEW r \in Requests, Request(r)
        PROVE  Inv'
    <2>1. /\ server = "up" /\ reply' = entry(r)
          /\ UNCHANGED <<_api_hdrs, _path_vars, _funcs, server, declared>>
      BY <1>3 DEF Request
    <2>2. Tables'
      BY <2>1 DEF Inv, Tables
    <2>3. entry(r)' = entry(r)
      BY <2>1 DEF entry, fetch_name
    <2>4. reply' = entry(r)'
      BY <2>1, <2>3
    <2>5. declared' \in Seq(Endpoints) /\ \A i, j \in DOMAIN declared' : declared'[i] = declared'[j] => i = j
      BY <2>1 DEF Inv
    <2> QED
      BY <2>1, <2>2, <2>4, <2>5 DEF Inv
  <1>4. CASE UNCHANGED vars
    <2>1. UNCHANGED <<_api_hdrs, _path_vars, _funcs, server, declared, reply>>
      BY <1>4 DEF vars
    <2>2. Tables'
      BY <2>1 DEF Inv, Tables
    <2>3. \A r \in Requests : entry(r)' = entry(r)
      BY <2>1 DEF entry, fetch_name
    <2> QED
      BY <2>1, <2>2, <2>3 DEF Inv
  <1> QED
    BY <1>1, <1>2, <1>3, <1>4 DEF Next

LEMMA InvAlways == Spec => []Inv
  BY InitInv, StepInv, PTL DEF Spec

-----------------------------------------------------------------------------
(* What the tables answer *)

\* Every name is a triple and so is not the name of nothing.
LEMMA NameFacts ==
    ASSUME NEW e
    PROVE  Name(e) # NoName
  BY DEF Name, NoName

\* An endpoint that was declared, and its place.
LEMMA PlaceFacts ==
    ASSUME Inv
    PROVE  /\ declared \in Seq(Endpoints) /\ DOMAIN declared \subseteq Nat
           /\ \A j \in DOMAIN declared : declared[j] \in Endpoints /\ Declared(declared[j])
           /\ \A e : Declared(e) => \E j \in DOMAIN declared : declared[j] = e
           /\ \A e : Declared(e) => e \in Endpoints
           /\ \A j \in DOMAIN declared : \A e :
                 Before(e, declared[j]) <=> \E i \in DOMAIN declared : i < j /\ declared[i] = e
           /\ \A j \in DOMAIN declared : \A e :
                 Before(declared[j], e) <=> \E i \in DOMAIN declared : j < i /\ declared[i] = e
  <1>1. /\ declared \in Seq(Endpoints)
        /\ \A i, j \in DOMAIN declared : declared[i] = declared[j] => i = j
    BY DEF Inv
  <1>2. DOMAIN declared = 1..Len(declared) /\ Len(declared) \in Nat
        /\ \A j \in DOMAIN declared : declared[j] \in Endpoints
    BY <1>1
  <1>3. Range(declared) = {declared[j] : j \in DOMAIN declared}
    BY DEF Range
  <1>4. \A e : Declared(e) <=> \E j \in DOMAIN declared : declared[j] = e
    BY <1>3 DEF Declared
  <1>5. \A j \in DOMAIN declared : \A e :
           Before(e, declared[j]) <=> \E i \in DOMAIN declared : i < j /\ declared[i] = e
    BY <1>1 DEF Before
  <1>6. \A j \in DOMAIN declared : \A e :
           Before(declared[j], e) <=> \E i \in DOMAIN declared : j < i /\ declared[i] = e
    BY <1>1 DEF Before
  <1> QED
    BY <1>1, <1>2, <1>4, <1>5, <1>6

LEMMA ReplyFacts ==
    ASSUME Inv, reply.status # "none"
    PROVE  LET found == fetch_name(Path)
           IN  /\ Path \in Seq(Section)
               /\ Answered <=> found.name \in DOMAIN _funcs
               /\ ~Answered <=> reply.status = "404"
               /\ Answered => reply.name = found.name /\ reply.handler = _funcs[found.name]
               /\ Answered /\ reply.ran =>
                     reply.args = prepare_args(reply.handler, found.vals, reply.request)
  <1>1. PICK r \in Requests : reply = entry(r)
    BY DEF Inv, NoReply
  <1> DEFINE found == fetch_name(r.path)
  <1>2. r.path \in Seq(Section)
    BY RouterAssumption
  <1> HIDE DEF found
  <1>3. CASE found.name \notin DOMAIN _funcs
    <2>1. reply = [status |-> "404", request |-> r]
      BY <1>1, <1>3 DEF entry, found
    <2> QED
      BY <1>2, <1>3, <2>1 DEF Answered, Path, found
  <1>4. CASE found.name \in DOMAIN _funcs /\ BodyRefused(_funcs[found.name], r.body)
    <2>1. reply = [status |-> "200", ran |-> FALSE, request |-> r,
                   handler |-> _funcs[found.name], name |-> found.name]
      BY <1>1, <1>4 DEF entry, found
    <2> QED
      BY <1>2, <1>4, <2>1 DEF Answered, Path, found
  <1>5. CASE found.name \in DOMAIN _funcs /\ ~BodyRefused(_funcs[found.name], r.body)
    <2>1. reply = [status |-> "200", ran |-> TRUE, request |-> r,
                   handler |-> _funcs[found.name], name |-> found.name,
                   args |-> prepare_args(_funcs[found.name], found.vals, r)]
      BY <1>1, <1>5 DEF entry, found
    <2> QED
      BY <1>2, <1>5, <2>1 DEF Answered, Path, found
  <1> QED
    BY <1>3, <1>4, <1>5

\* A text that was declared has the name of its first endpoint.
LEMMA ExactFacts ==
    ASSUME Inv, NEW path
    PROVE  /\ path \in DOMAIN _api_hdrs <=> Exact(path) # {}
           /\ path \in DOMAIN _api_hdrs =>
                 /\ fetch_name(path) = [name |-> _api_hdrs[path], vals |-> <<>>]
                 /\ \E k \in DOMAIN declared :
                       /\ declared[k].api = path /\ _api_hdrs[path] = Name(declared[k])
                       /\ \A j \in DOMAIN declared : j < k => declared[j].api # path
           /\ path \notin DOMAIN _api_hdrs => fetch_name(path) = fetch_vars(_path_vars, path)
  <1>1. HdrsAre(declared, _api_hdrs)
    BY DEF Inv, Tables
  <1>2. \A e : e \in Exact(path) <=> Declared(e) /\ e.api = path
    BY DEF Exact, Declared
  <1>3. path \in DOMAIN _api_hdrs <=> \E j \in DOMAIN declared : declared[j].api = path
    BY <1>1 DEF HdrsAre
  <1>4. path \in DOMAIN _api_hdrs <=> Exact(path) # {}
    BY <1>2, <1>3, PlaceFacts
  <1> QED
    BY <1>1, <1>4 DEF HdrsAre, fetch_name

\* What a name calls was declared under that name.
LEMMA FuncFacts ==
    ASSUME Inv
    PROVE  /\ \A j \in DOMAIN declared : Name(declared[j]) \in DOMAIN _funcs
           /\ \A x \in DOMAIN _funcs : Declared(_funcs[x]) /\ Name(_funcs[x]) = x
           /\ NoName \notin DOMAIN _funcs
  <1>1. FuncsAre(declared, _funcs)
    BY DEF Inv, Tables
  <1> QED
    BY <1>1, PlaceFacts, NameFacts DEF FuncsAre

LEMMA TrieFacts ==
    ASSUME Inv
    PROVE  /\ Rooted(_path_vars) /\ <<>> \in _path_vars.nodes
           /\ \A j \in Templates(declared) :
                 /\ declared[j] \in Endpoints /\ Node(declared, j) \in Seq(Edges)
                 /\ Len(Node(declared, j)) = Len(Template(declared[j]))
                 /\ \A i \in 1..(Len(Node(declared, j)) + 1) :
                       Above(Node(declared, j), i) \in _path_vars.nodes
           /\ \A x \in _path_vars.nodes : x = <<>> \/
                 \E j \in Templates(declared) : \E i \in 1..(Len(Node(declared, j)) + 1) :
                    x = Above(Node(declared, j), i)
           /\ DOMAIN _path_vars.name = {Node(declared, j) : j \in Templates(declared)}
  <1>1. NodesAre(declared, _path_vars.nodes) /\ NamesAre(declared, _path_vars.name)
    BY DEF Inv, Tables
  <1>2. \A j \in Templates(declared) : /\ declared[j] \in Endpoints /\ Node(declared, j) \in Seq(Edges)
                                       /\ Len(Node(declared, j)) = Len(Template(declared[j]))
    <2> TAKE j \in Templates(declared)
    <2>1. declared[j] \in Endpoints
      BY PlaceFacts DEF Templates
    <2>2. Template(declared[j]) \in Seq(Section)
      BY <2>1, TemplateFacts
    <2> QED
      BY <2>1, <2>2, ShapeFacts DEF Node
  <1> DEFINE Passed(j) == {Above(Node(declared, j), i) : i \in 1..Len(Node(declared, j)) + 1}
  <1>3. \A x : x \in _path_vars.nodes <=> x = <<>> \/ \E j \in Templates(declared) : x \in Passed(j)
    BY <1>1 DEF NodesAre
  <1>4. \A x : \A j \in Templates(declared) : x \in Passed(j) => x \in Seq(Edges)
    <2> TAKE x
    <2> TAKE j \in Templates(declared)
    <2> DEFINE s == Node(declared, j)
    <2>1. s \in Seq(Edges)
      BY <1>2
    <2> HIDE DEF s
    <2>2. \A i \in 1..(Len(s) + 1) : Above(s, i) \in Seq(Edges)
      BY <2>1, AboveFacts
    <2> QED
      BY <2>2 DEF s
  <1>5. Rooted(_path_vars)
    <2> HIDE DEF Passed
    <2>1. <<>> \in Seq(Edges)
      OBVIOUS
    <2>2. \A x \in _path_vars.nodes : x \in Seq(Edges)
      BY <1>3, <1>4, <2>1
    <2> QED
      BY <2>2 DEF Rooted
  <1>6. \A j \in Templates(declared) : \A i \in 1..(Len(Node(declared, j)) + 1) :
           Above(Node(declared, j), i) \in Passed(j)
    OBVIOUS
  <1>7. \A j \in Templates(declared) : \A x \in Passed(j) : \E i \in 1..(Len(Node(declared, j)) + 1) :
           x = Above(Node(declared, j), i)
    OBVIOUS
  <1> HIDE DEF Passed
  <1>8. <<>> \in _path_vars.nodes
    BY <1>3
  <1>9. \A j \in Templates(declared) : \A i \in 1..(Len(Node(declared, j)) + 1) :
           Above(Node(declared, j), i) \in _path_vars.nodes
    BY <1>3, <1>6
  <1>10. \A x \in _path_vars.nodes : x = <<>> \/
                 \E j \in Templates(declared) : \E i \in 1..(Len(Node(declared, j)) + 1) :
                    x = Above(Node(declared, j), i)
    BY <1>3, <1>7
  <1>11. DOMAIN _path_vars.name = {Node(declared, j) : j \in Templates(declared)}
    BY <1>1 DEF NamesAre
  <1> QED
    BY <1>2, <1>5, <1>8, <1>9, <1>10, <1>11

\* What a path leads to through the tree: an endpoint whose template fits, the
\* last declared of its shape.
LEMMA TemplateFound ==
    ASSUME Inv, NEW path \in Seq(Section), fetch_vars(_path_vars, path).name # NoName
    PROVE  \E k \in Templates(declared) :
              /\ fetch_vars(_path_vars, path) =
                    [name |-> Name(declared[k]),
                     vals |-> Vals(_path_vars, Node(declared, k), split(path))]
              /\ Fits(declared[k], path)
              /\ \A j \in Templates(declared) : j > k => Node(declared, j) # Node(declared, k)
  <1> DEFINE t == _path_vars
             p == split(path)
             w == Walk(t, p)[Len(p)]
  <1>1. p \in Seq(Section) /\ Len(p) \in Nat
    BY SplitFacts
  <1>2. w \in DOMAIN t.name /\ fetch_vars(t, path) = [name |-> t.name[w], vals |-> Vals(t, w, p)]
    BY DEF fetch_vars, NotFound
  <1> HIDE DEF w, t
  <1>3. PICK k \in Templates(declared) :
           /\ Node(declared, k) = w /\ t.name[w] = Name(declared[k])
           /\ \A j \in Templates(declared) : j > k => Node(declared, j) # w
    BY <1>2 DEF Inv, Tables, NamesAre, t
  <1> DEFINE e == declared[k]
  <1>4. e \in Endpoints /\ Template(e) \in Seq(Section) /\ w = Shape(Template(e))
    BY <1>3, TrieFacts, TemplateFacts DEF Node
  <1>5. HasVar(e.api)
    BY DEF Templates
  <1> HIDE DEF e
  <1>6. w \in Seq(Edges) /\ Len(w) = Len(Template(e))
        /\ \A i \in 1..Len(w) : Template(e)[i] \in Section /\ w[i] = Edge(Template(e)[i])
    BY <1>4, ShapeFacts
  <1>7. w # Lost
    <2>1. Lost \notin Seq(Edges)
      <3>1. Len(Lost) = 1 /\ Lost[1] = Var("lost")
        BY DEF Lost
      <3> QED
        BY <3>1, EdgeFacts, SMTT(20)
    <2> QED
      BY <1>6, <2>1
  <1>8. Leads(t, p, Len(p))
    <2>1. Len(p) \in 0..Len(p)
      BY <1>1
    <2>2. Rooted(t) /\ <<>> \in t.nodes
      BY TrieFacts DEF t
    <2> HIDE DEF p
    <2> QED
      BY <1>1, <1>7, <2>1, <2>2, WalkFacts DEF w
  <1>9. Len(w) = Len(p) /\ \A i \in 1..Len(p) : w[i] \in {p[i], AnyText}
    BY <1>8 DEF Leads, w
  <1>10. \A i \in 1..Len(p) : Template(e)[i].isVar \/ Template(e)[i] = p[i]
    BY <1>6, <1>9, EdgeFacts
  <1>11. DOMAIN Template(e) = 1..Len(p)
    BY <1>4, <1>6, <1>9, ShapeFacts
  <1>12. Fits(e, path)
    BY <1>5, <1>6, <1>9, <1>10, <1>11 DEF Fits
  <1> QED
    BY <1>2, <1>3, <1>12 DEF t, e

-----------------------------------------------------------------------------
(* The properties *)

LEMMA InvHandlerMatches == Inv => HandlerMatches
  <1> SUFFICES ASSUME Inv, Answered, NamesApart
               PROVE  Declared(reply.handler)
                      /\ (reply.handler.api = Path \/ Fits(reply.handler, Path))
    BY DEF HandlerMatches
  <1> DEFINE name == fetch_name(Path).name
             e == reply.handler
  <1>1. Path \in Seq(Section) /\ name \in DOMAIN _funcs /\ e = _funcs[name]
    BY ReplyFacts DEF Answered
  <1> HIDE DEF name
  <1>2. Declared(e) /\ Name(e) = name
    BY <1>1, FuncFacts
  <1>3. \A f : Declared(f) /\ Name(f) = name => f = e
    BY <1>2 DEF NamesApart, Declared
  <1>4. CASE Path \in DOMAIN _api_hdrs
    <2>1. PICK k \in DOMAIN declared : declared[k].api = Path /\ name = Name(declared[k])
      BY <1>4, ExactFacts DEF name
    <2>2. Declared(declared[k])
      BY PlaceFacts
    <2> QED
      BY <1>2, <1>3, <2>1, <2>2
  <1>5. CASE Path \notin DOMAIN _api_hdrs
    <2>1. name = fetch_vars(_path_vars, Path).name
      BY <1>5, ExactFacts DEF name
    <2>2. name # NoName
      BY <1>1, FuncFacts
    <2>3. PICK k \in Templates(declared) : name = Name(declared[k]) /\ Fits(declared[k], Path)
      BY <1>1, <2>1, <2>2, TemplateFound
    <2>4. Declared(declared[k])
      BY PlaceFacts DEF Templates
    <2> QED
      BY <1>2, <1>3, <2>3, <2>4
  <1> QED
    BY <1>4, <1>5

\* Whatever the services, the endpoints and the order they are declared in, a
\* request runs a handler declared for its path, names shared by two services
\* excepted (FunctionMapper::fetch, function_mapper.hpp:64-83, and
\* UrlTrie::fetch_vars, var_pattern.cpp:423-446).
THEOREM HandlersMatchPaths == Spec => []HandlerMatches
  BY InvAlways, InvHandlerMatches, PTL

LEMMA InvExactFirst == Inv => ExactFirst
  <1> SUFFICES ASSUME Inv, reply.status # "none", Exact(Path) # {}
               PROVE  /\ Answered
                      /\ \E e \in Exact(Path) :
                            Name(e) = reply.name /\ ~\E f \in Exact(Path) : Before(f, e)
    BY DEF ExactFirst
  <1>1. PICK k \in DOMAIN declared :
           /\ declared[k].api = Path /\ fetch_name(Path).name = Name(declared[k])
           /\ \A j \in DOMAIN declared : j < k => declared[j].api # Path
    BY ExactFacts
  <1>2. Answered /\ reply.name = Name(declared[k])
    BY <1>1, ReplyFacts, FuncFacts
  <1>3. declared[k] \in Exact(Path)
    BY <1>1, PlaceFacts DEF Exact, Declared
  <1>4. ASSUME NEW f \in Exact(Path), Before(f, declared[k])
        PROVE  FALSE
    <2>1. f.api = Path
      BY DEF Exact
    <2>2. PICK i \in DOMAIN declared : i < k /\ declared[i] = f
      BY <1>4, PlaceFacts
    <2> QED
      BY <1>1, <2>1, <2>2
  <1> QED
    BY <1>2, <1>3, <1>4

\* The first declaration of the very text of the path answers, whatever
\* templates fit it as well (function_mapper.hpp:68-71).
THEOREM ExactPathsWin == Spec => []ExactFirst
  BY InvAlways, InvExactFirst, PTL

LEMMA InvLastTemplateWins == Inv => LastTemplateWins
  <1> SUFFICES ASSUME Inv, Answered, Exact(Path) = {}
               PROVE  \E e \in Range(declared) :
                         /\ ByTemplate(e)
                         /\ ~\E f \in Range(declared) :
                                Before(e, f) /\ Shape(Template(e)) = Shape(Template(f))
    BY DEF LastTemplateWins
  <1> DEFINE found == fetch_vars(_path_vars, Path)
  <1>1. /\ Path \in Seq(Section) /\ found.name \in DOMAIN _funcs /\ reply.name = found.name
    BY ReplyFacts, ExactFacts DEF Answered
  <1>2. found.name # NoName
    BY <1>1, FuncFacts
  <1>3. PICK k \in Templates(declared) :
           /\ found.name = Name(declared[k]) /\ Fits(declared[k], Path)
           /\ \A j \in Templates(declared) : j > k => Node(declared, j) # Node(declared, k)
    BY <1>1, <1>2, TemplateFound
  <1> HIDE DEF found
  <1> DEFINE e == declared[k]
  <1>4. k \in DOMAIN declared /\ Declared(e) /\ e \in Endpoints /\ HasVar(e.api)
    BY PlaceFacts DEF Templates
  <1>5. ByTemplate(e)
    BY <1>1, <1>3 DEF ByTemplate
  <1>6. ASSUME NEW f, Before(e, f), Shape(Template(e)) = Shape(Template(f))
        PROVE  FALSE
    <2>1. PICK j \in DOMAIN declared : k < j /\ declared[j] = f
      BY <1>4, <1>6, PlaceFacts
    <2>2. f \in Endpoints /\ j \in Nat /\ k \in Nat
      BY <1>4, <2>1, PlaceFacts
    <2> HIDE DEF e
    <2>3. /\ Template(e) \in Seq(Section) /\ Template(f) \in Seq(Section)
          /\ Variables(e) # {} /\ Variables(e) \subseteq 1..Len(Template(e))
          /\ HasVar(f.api) <=> Variables(f) # {}
      BY <1>4, <2>2, TemplateFacts
    <2>4. PICK i \in Variables(e) : TRUE
      BY <2>3
    <2>5. Shape(Template(e))[i] = AnyText /\ i \in 1..Len(Template(e))
      BY <2>3, <2>4, ShapeFacts, EdgeFacts DEF Variables
    <2>6. Len(Template(e)) = Len(Template(f))
      BY <1>6, <2>3, ShapeFacts
    <2>7. Template(f)[i] \in Section /\ Edge(Template(f)[i]) = AnyText /\ i \in DOMAIN Template(f)
      BY <1>6, <2>3, <2>5, <2>6, ShapeFacts
    <2>8. i \in Variables(f)
      BY <2>7, EdgeFacts DEF Variables
    <2>9. j \in Templates(declared)
      BY <2>1, <2>3, <2>8 DEF Templates
    <2> QED
      BY <1>3, <1>6, <2>1, <2>2, <2>9 DEF Node, e
  <1> QED
    BY <1>4, <1>5, <1>6 DEF Declared

\* Of the templates that differ only in the names of their variables the last
\* declared answers: put writes the handler's name over the one that is there
\* (var_pattern.cpp:416).
THEOREM LastTemplatesAnswer == Spec => []LastTemplateWins
  BY InvAlways, InvLastTemplateWins, PTL

\* A template that fits and yet was not found: the walk left it for a literal.
LEMMA InvMissedOnlyBehindLiteral == Inv => MissedOnlyBehindLiteral
  <1> SUFFICES ASSUME Inv, reply.status = "404", NEW e \in Range(declared), Fits(e, Path)
               PROVE  \E f \in Range(declared), i \in DOMAIN Template(e) :
                         /\ HasVar(f.api)
                         /\ i \in DOMAIN Template(f) /\ SameUpTo(Template(e), Template(f), i)
                         /\ Template(e)[i].isVar /\ Template(f)[i] = split(Path)[i]
    BY DEF MissedOnlyBehindLiteral
  <1> DEFINE t == _path_vars
             p == split(Path)
             s == Shape(Template(e))
             w == Walk(t, p)[Len(p)]
             name == fetch_name(Path).name
  <1>1. Path \in Seq(Section) /\ name \notin DOMAIN _funcs
    BY ReplyFacts DEF Answered
  <1>2. p \in Seq(Section)
    BY <1>1, SplitFacts
  <1>3. Path \notin DOMAIN _api_hdrs
    BY <1>1, ExactFacts, FuncFacts
  <1>4. w \notin DOMAIN t.name
    <2>1. ASSUME w \in DOMAIN t.name
          PROVE  FALSE
      <3>1. name = t.name[w]
        BY <1>3, <2>1, ExactFacts DEF fetch_vars
      <3>2. PICK k \in Templates(declared) : t.name[w] = Name(declared[k])
        BY <2>1 DEF Inv, Tables, NamesAre
      <3> QED
        BY <1>1, <3>1, <3>2, FuncFacts DEF Templates
    <2> QED
      BY <2>1
  <1> HIDE DEF name
  <1>5. PICK k \in DOMAIN declared : declared[k] = e
    BY PlaceFacts DEF Declared
  <1>6. e \in Endpoints /\ HasVar(e.api)
    BY <1>5, PlaceFacts DEF Fits
  <1>7. k \in Templates(declared) /\ Node(declared, k) = s
    BY <1>5, <1>6 DEF Templates, Node
  <1>8. Template(e) \in Seq(Section)
    BY <1>6, TemplateFacts
  <1>9. /\ s \in Seq(Edges) /\ Len(s) = Len(Template(e)) /\ DOMAIN Template(e) = 1..Len(s)
        /\ Len(s) \in Nat /\ \A i \in 1..Len(s) : Template(e)[i] \in Section /\ s[i] = Edge(Template(e)[i])
    BY <1>8, ShapeFacts
  <1>10. Rooted(t) /\ <<>> \in t.nodes /\ \A i \in 1..(Len(s) + 1) : Above(s, i) \in t.nodes
    BY <1>7, TrieFacts
  <1>11. Len(s) = Len(p) /\ \A i \in 1..Len(s) : Template(e)[i].isVar \/ Template(e)[i] = p[i]
    BY <1>9 DEF Fits
  <1>12. \A i \in 1..Len(s) : s[i] \in {p[i], AnyText}
    BY <1>9, <1>11, EdgeFacts
  <1>13. w # s
    BY <1>4, <1>7, TrieFacts
  <1> HIDE DEF p, s, t
  <1>14. PICK i \in 1..Len(s) : s[i] = AnyText /\ p[i] # AnyText /\ Append(Above(s, i), p[i]) \in t.nodes
    BY <1>2, <1>9, <1>10, <1>11, <1>12, <1>13, Diverted
  <1> DEFINE a == Above(s, i)
             b == Append(a, p[i])
  <1>15. i \in DOMAIN Template(e) /\ Template(e)[i].isVar
    BY <1>9, <1>14, EdgeFacts
  <1>16. /\ a \in Seq(Edges) /\ Len(a) = i - 1
         /\ \A l \in 1..(i - 1) : a[l] = s[l]
    <2>1. i \in 1..(Len(s) + 1)
      BY <1>9
    <2> QED
      BY <1>9, <2>1, AboveFacts
  <1> HIDE DEF a
  <1>17. /\ b # <<>> /\ Len(b) = i /\ b[i] = p[i]
         /\ \A l \in 1..(i - 1) : b[l] = a[l]
    BY <1>9, <1>16
  <1> HIDE DEF b
  <1>18a. PICK j \in Templates(declared) : \E q \in 1..(Len(Node(declared, j)) + 1) :
            b = Above(Node(declared, j), q)
    BY <1>14, <1>17, TrieFacts DEF a, b, t
  <1>18. PICK q \in 1..(Len(Node(declared, j)) + 1) : b = Above(Node(declared, j), q)
    BY <1>18a
  <1> DEFINE f == declared[j]
             n == Node(declared, j)
  <1>19. f \in Endpoints /\ n \in Seq(Edges) /\ Len(n) = Len(Template(f)) /\ n = Shape(Template(f))
    BY TrieFacts DEF Node
  <1>20. HasVar(f.api) /\ f \in Range(declared)
    BY PlaceFacts DEF Templates, Declared
  <1> HIDE DEF f, n
  <1>21. Len(n) \in Nat /\ q \in 1..(Len(n) + 1)
    BY <1>18, <1>19 DEF n
  <1>22. q = i + 1 /\ i \in 1..Len(n)
    <2>1. Len(b) = q - 1
      BY <1>18, <1>19, <1>21, AboveFacts DEF n
    <2> QED
      BY <1>9, <1>17, <1>21, <2>1
  <1>23. \A l \in 1..i : b[l] = n[l]
    <2>1. \A l \in 1..(q - 1) : Above(n, q)[l] = n[l]
      BY <1>19, <1>21, AboveFacts
    <2>2. b = Above(n, q)
      BY <1>18 DEF n
    <2>3. q - 1 = i
      BY <1>9, <1>22
    <2> QED
      BY <2>1, <2>2, <2>3
  <1>24. /\ Template(f) \in Seq(Section)
         /\ \A l \in 1..Len(n) : Template(f)[l] \in Section /\ n[l] = Edge(Template(f)[l])
         /\ DOMAIN Template(f) = 1..Len(n)
    BY <1>19, TemplateFacts, ShapeFacts
  <1>25. Template(f)[i] = p[i]
    <2>1. Edge(Template(f)[i]) = p[i]
      BY <1>9, <1>17, <1>22, <1>23, <1>24
    <2> QED
      BY <1>14, <1>22, <1>24, <2>1, EdgeFacts
  <1>26. SameUpTo(Template(e), Template(f), i)
    <2>1. i \in 1..(Len(s) + 1) /\ i \in 1..(Len(n) + 1) /\ i \in Nat
      BY <1>9, <1>21, <1>22
    <2>2. Above(n, i) \in Seq(Edges) /\ Len(Above(n, i)) = i - 1
          /\ \A l \in 1..(i - 1) : Above(n, i)[l] = n[l]
      BY <1>19, <2>1, AboveFacts
    <2>3. \A l \in 1..(i - 1) : a[l] = Above(n, i)[l]
      BY <1>17, <1>23, <2>1, <2>2
    <2>4. a = Above(n, i)
      BY <1>16, <2>1, <2>2, <2>3, SeqEqual
    <2> QED
      BY <1>19, <2>4 DEF SameUpTo, a, s
  <1> QED
    BY <1>15, <1>20, <1>22, <1>24, <1>25, <1>26 DEF p

\* A path that no handler answers although a template fits it was led away by a
\* literal section of another template: that is the only way to be missed
\* (UrlTrie::fetch_vars never comes back, var_pattern.cpp:423-446).
THEOREM MissesAreDiversions == Spec => []MissedOnlyBehindLiteral
  BY InvAlways, InvMissedOnlyBehindLiteral, PTL

-----------------------------------------------------------------------------
(* The arguments *)

\* Who named the variable of e's template at i.
NameGiver(e, i) ==
    CHOOSE f \in Range(declared) :
        ShareVar(e, f, i) /\ ~\E g \in Range(declared) : ShareVar(e, g, i) /\ Before(g, f)

LEMMA ShareFacts ==
    ASSUME Inv, NEW k \in Templates(declared), NEW i \in Variables(declared[k]),
           NEW j \in DOMAIN declared
    PROVE  ShareVar(declared[k], declared[j], i) <=>
              /\ j \in Templates(declared) /\ i \in Variables(declared[j])
              /\ Above(Node(declared, j), i) = Above(Node(declared, k), i)
  <1>1. /\ declared[k] \in Endpoints /\ declared[j] \in Endpoints
    BY PlaceFacts DEF Templates
  <1>2. i \in Variables(declared[j]) => j \in Templates(declared)
    BY <1>1, TemplateFacts DEF Templates
  <1> QED
    BY <1>2 DEF ShareVar, SameUpTo, Variables, Node

LEMMA GiverNames ==
    ASSUME Inv, NEW k \in Templates(declared), NEW i \in Variables(declared[k])
    PROVE  _path_vars.var[Above(Node(declared, k), i)] =
              Template(NameGiver(declared[k], i))[i].text
  <1> DEFINE e == declared[k]
             x == Above(Node(declared, k), i)
             var == _path_vars.var
             First(f) == /\ ShareVar(e, f, i)
                         /\ ~\E g \in Range(declared) : ShareVar(e, g, i) /\ Before(g, f)
  <1>1. VarsAre(declared, var)
    BY DEF Inv, Tables
  <1>2. x \in DOMAIN var
    <2> DEFINE Named(j) == {Above(Node(declared, j), l) : l \in Variables(declared[j])}
    <2>1. x \in Named(k)
      OBVIOUS
    <2>2. DOMAIN var = UNION {Named(j) : j \in Templates(declared)}
      BY <1>1 DEF VarsAre
    <2> HIDE DEF Named
    <2> QED
      BY <2>1, <2>2
  <1> HIDE DEF x, var
  <1>3a. PICK j \in Templates(declared) : \E l \in Variables(declared[j]) :
           /\ x = Above(Node(declared, j), l) /\ var[x] = Template(declared[j])[l].text
           /\ \A m \in Templates(declared) : m < j =>
                 \A q \in Variables(declared[m]) : Above(Node(declared, m), q) # x
    BY <1>1, <1>2 DEF VarsAre
  <1>3. PICK l \in Variables(declared[j]) :
           /\ x = Above(Node(declared, j), l) /\ var[x] = Template(declared[j])[l].text
           /\ \A m \in Templates(declared) : m < j =>
                 \A q \in Variables(declared[m]) : Above(Node(declared, m), q) # x
    BY <1>3a
  <1>4. \A m \in Templates(declared) : \A q \in Variables(declared[m]) :
           q \in Nat /\ Len(Above(Node(declared, m), q)) = q - 1
    <2> TAKE m \in Templates(declared)
    <2> TAKE q \in Variables(declared[m])
    <2> DEFINE n == Node(declared, m)
    <2>1. declared[m] \in Endpoints /\ n \in Seq(Edges) /\ Len(n) = Len(Template(declared[m]))
      BY TrieFacts
    <2>2. q \in 1..Len(n)
      BY <2>1, TemplateFacts
    <2> HIDE DEF n
    <2>3. q \in 1..(Len(n) + 1) /\ q \in Nat
      BY <2>1, <2>2
    <2> QED
      BY <2>1, <2>3, AboveFacts DEF n
  <1>5. l = i
    <2>1. Len(x) = l - 1 /\ Len(x) = i - 1 /\ l \in Nat /\ i \in Nat
      BY <1>3, <1>4 DEF x
    <2> QED
      BY <2>1
  <1>6. \A m \in DOMAIN declared : ShareVar(e, declared[m], i) <=>
           m \in Templates(declared) /\ i \in Variables(declared[m]) /\ Above(Node(declared, m), i) = x
    BY ShareFacts DEF x
  <1>7. j \in DOMAIN declared
    BY DEF Templates
  <1> HIDE DEF e
  <1>8. First(declared[j])
    <2>1. ShareVar(e, declared[j], i)
      BY <1>3, <1>5, <1>6, <1>7
    <2>2. ASSUME NEW g, ShareVar(e, g, i), Before(g, declared[j])
          PROVE  FALSE
      <3>1. PICK m \in DOMAIN declared : m < j /\ declared[m] = g
        BY <1>7, <2>2, PlaceFacts
      <3> QED
        BY <1>3, <1>6, <2>2, <3>1
    <2> QED
      BY <2>1, <2>2
  <1>9. ASSUME NEW f \in Range(declared), First(f)
        PROVE  f = declared[j]
    <2>1. PICK m \in DOMAIN declared : declared[m] = f
      BY PlaceFacts DEF Declared
    <2>2. m \in Nat /\ j \in Nat
      BY <1>7, PlaceFacts
    <2>3. declared[j] \in Range(declared)
      BY <1>7, PlaceFacts DEF Declared
    <2>4. ~(m < j)
      BY <1>7, <1>8, <1>9, <2>1, PlaceFacts
    <2>5. ~(j < m)
      BY <1>7, <1>8, <1>9, <2>1, <2>3, PlaceFacts
    <2>6. m = j
      BY <2>2, <2>4, <2>5
    <2> QED
      BY <2>1, <2>6
  <1>10. declared[j] \in Range(declared)
    BY <1>7, PlaceFacts DEF Declared
  <1>11. NameGiver(e, i) = CHOOSE f \in Range(declared) : First(f)
    BY DEF NameGiver
  <1> HIDE DEF First
  <1>12. NameGiver(e, i) = declared[j]
    BY <1>8, <1>9, <1>10, <1>11
  <1> QED
    BY <1>3, <1>5, <1>12 DEF e, x, var

VarPlaces(e, p) == {i \in DOMAIN p : Template(e)[i].isVar}
VarName(e, i) == Template(NameGiver(e, i))[i].text

\* The sections p at the places at, by the names that e's variables go by there.
GivenTo(e, at, p) ==
    [x \in {VarName(e, i) : i \in at} |-> p[Min({i \in at : VarName(e, i) = x})]]

\* What the walk gives for a template: under each name that its variables have,
\* the section at the first of them.
LEMMA ValsFacts ==
    ASSUME Inv, NEW k \in Templates(declared), NEW p \in Seq(Section),
           Len(p) = Len(Template(declared[k]))
    PROVE  Vals(_path_vars, Node(declared, k), p) =
              GivenTo(declared[k], VarPlaces(declared[k], p), p)
  <1> DEFINE e == declared[k]
             n == Node(declared, k)
             var == _path_vars.var
             name(i) == VarName(e, i)
             at == VarPlaces(e, p)
             edges == {i \in DOMAIN n : n[i] = AnyText}
             named(i) == var[Above(n, i)]
  <1>1. e \in Endpoints /\ n = Shape(Template(e))
    BY TrieFacts DEF Node
  <1> HIDE DEF e
  <1>2. Template(e) \in Seq(Section)
    BY <1>1, TemplateFacts
  <1>3. /\ DOMAIN n = 1..Len(p) /\ DOMAIN p = 1..Len(p) /\ DOMAIN Template(e) = 1..Len(p)
        /\ \A i \in 1..Len(p) : Template(e)[i] \in Section /\ n[i] = Edge(Template(e)[i])
    <2>1. Len(Template(e)) = Len(p)
      BY DEF e
    <2>2. n \in Seq(Edges) /\ Len(n) = Len(p)
      BY <1>1, <1>2, <2>1, ShapeFacts
    <2> HIDE DEF n
    <2> QED
      BY <1>1, <1>2, <2>1, <2>2, ShapeFacts
  <1> HIDE DEF n
  <1>4. at = Variables(e)
    BY <1>3 DEF Variables, VarPlaces
  <1>5. edges = at
    <2>1. \A i \in 1..Len(p) : n[i] = AnyText <=> Template(e)[i].isVar
      BY <1>3, EdgeFacts
    <2> QED
      BY <1>3, <2>1 DEF VarPlaces
  <1>6. \A i \in at : named(i) = name(i)
    BY <1>4, GiverNames DEF e, n, VarName
  <1>7. Vals(_path_vars, n, p) =
           [x \in {named(i) : i \in edges} |->
               p[Min({i \in DOMAIN n : n[i] = AnyText /\ named(i) = x})]]
    BY DEF Vals
  <1>8. \A x : {i \in DOMAIN n : n[i] = AnyText /\ named(i) = x} = {i \in edges : named(i) = x}
    OBVIOUS
  <1> HIDE DEF at, edges, name, named
  <1>9. {named(i) : i \in edges} = {name(i) : i \in at}
    BY <1>5, <1>6
  <1>10. \A x : {i \in edges : named(i) = x} = {i \in at : name(i) = x}
    BY <1>5, <1>6
  <1>11. Vals(_path_vars, n, p) = [x \in {name(i) : i \in at} |-> p[Min({i \in at : name(i) = x})]]
    <2>1. \A x : {i \in DOMAIN n : n[i] = AnyText /\ named(i) = x} = {i \in at : name(i) = x}
      BY <1>8, <1>10
    <2>2. Vals(_path_vars, n, p) =
             [x \in {named(i) : i \in edges} |-> p[Min({i \in at : name(i) = x})]]
      BY <1>7, <2>1
    <2> QED
      BY <1>9, <2>2
  <1> QED
    BY <1>11 DEF at, name, e, n, GivenTo

\* A plain is given the value of the least name there is one for.
LEMMA FirstValIs ==
    ASSUME NEW vals, NEW k \in DOMAIN VarOrder, VarOrder[k] \in DOMAIN vals,
           \A j \in 1..(k - 1) : VarOrder[j] \notin DOMAIN vals
    PROVE  FirstVal(vals) = vals[VarOrder[k]]
  <1> DEFINE at == {i \in DOMAIN VarOrder : VarOrder[i] \in DOMAIN vals}
             Least(i) == \A j \in at : i <= j
  <1>1. DOMAIN VarOrder = 1..Len(VarOrder) /\ Len(VarOrder) \in Nat
    BY RouterAssumption
  <1>2. at \subseteq Nat /\ k \in at
    BY <1>1
  <1>3. \A j \in at : k <= j
    BY <1>1
  <1>4. FirstVal(vals) = vals[VarOrder[CHOOSE i \in at : Least(i)]]
    BY <1>2 DEF FirstVal
  <1>5. \A i \in at : Least(i) => i = k
    <2> HIDE DEF at
    <2> SUFFICES ASSUME NEW i \in at, Least(i)
                 PROVE  i = k
      OBVIOUS
    <2>1. i \in Nat /\ k \in Nat
      BY <1>2
    <2>2. i <= k /\ k <= i
      BY <1>2, <1>3
    <2> QED
      BY <2>1, <2>2
  <1>6. Least(k)
    BY <1>3
  <1> HIDE DEF at, Least
  <1>7. (CHOOSE i \in at : Least(i)) = k
    BY <1>2, <1>5, <1>6
  <1> QED
    BY <1>4, <1>7

\* The variables of a reply, in the words of ArgumentsArrive.
At == IF Exact(Path) # {} THEN {} ELSE VarPlaces(reply.handler, split(Path))
Given == GivenTo(reply.handler, At, split(Path))

LEMMA GivenFacts ==
    ASSUME Inv, Answered, NamesApart
    PROVE  LET vals == fetch_name(Path).vals
           IN  DOMAIN vals = DOMAIN Given /\ \A x \in DOMAIN vals : vals[x] = Given[x]
  <1> DEFINE found == fetch_name(Path)
             e == reply.handler
             p == split(Path)
  <1>1. Path \in Seq(Section) /\ found.name \in DOMAIN _funcs /\ e = _funcs[found.name]
    BY ReplyFacts DEF Answered
  <1>2. Declared(e) /\ Name(e) = found.name /\ found.name # NoName
    BY <1>1, FuncFacts
  <1>3. CASE Exact(Path) # {}
    <2>1. found.vals = <<>>
      BY <1>3, ExactFacts
    <2>2. DOMAIN found.vals = {}
      BY <2>1
    <2>3. At = {}
      BY <1>3 DEF At
    <2> HIDE DEF found
    <2> QED
      BY <2>2, <2>3 DEF Given, GivenTo, found
  <1>4. CASE Exact(Path) = {}
    <2>1. found = fetch_vars(_path_vars, Path)
      BY <1>4, ExactFacts
    <2>2. PICK k \in Templates(declared) :
             /\ found = [name |-> Name(declared[k]),
                         vals |-> Vals(_path_vars, Node(declared, k), p)]
             /\ Fits(declared[k], Path)
      BY <1>1, <1>2, <2>1, TemplateFound
    <2> HIDE DEF found
    <2>3. declared[k] = e
      <3>1. Declared(declared[k])
        BY PlaceFacts DEF Templates
      <3> QED
        BY <1>2, <2>2, <3>1 DEF NamesApart, Declared
    <2>4. p \in Seq(Section) /\ Len(p) = Len(Template(declared[k]))
      BY <1>1, <2>2, SplitFacts DEF Fits
    <2> HIDE DEF p
    <2>5. Vals(_path_vars, Node(declared, k), p) =
             GivenTo(declared[k], VarPlaces(declared[k], p), p)
      BY <2>4, ValsFacts
    <2>6. At = VarPlaces(e, p)
      BY <1>4 DEF At, p
    <2>7. Given = Vals(_path_vars, Node(declared, k), p)
      BY <2>3, <2>5, <2>6 DEF Given, p
    <2>8. found.vals = Given
      BY <2>2, <2>7
    <2> QED
      BY <2>8 DEF found
  <1> QED
    BY <1>3, <1>4

LEMMA InvArgumentsArrive == Inv => ArgumentsArrive
  <1> SUFFICES ASSUME Inv, Answered, reply.ran, NamesApart
               PROVE  LET e == reply.handler
                      IN  /\ \A m \in e.params :
                                reply.args.params[m] =
                                    IF m \in DOMAIN reply.request.query
                                    THEN reply.request.query[m] ELSE Default
                          /\ IF e.vars.isPlain
                             THEN \A k \in DOMAIN VarOrder :
                                      /\ VarOrder[k] \in DOMAIN Given
                                      /\ \A j \in 1..k - 1 : VarOrder[j] \notin DOMAIN Given
                                      => reply.args.vars = Given[VarOrder[k]]
                             ELSE \A m \in e.vars.members :
                                      reply.args.vars[m] =
                                          IF m \in DOMAIN Given THEN Given[m] ELSE Default
    BY DEF ArgumentsArrive, Given, GivenTo, VarName, VarPlaces, At, NameGiver
  <1> DEFINE e == reply.handler
             vals == fetch_name(Path).vals
             query == reply.request.query
  <1>1. reply.args = prepare_args(e, vals, reply.request)
    BY ReplyFacts DEF Answered
  <1>2. DOMAIN vals = DOMAIN Given /\ \A x \in DOMAIN vals : vals[x] = Given[x]
    BY GivenFacts
  <1> HIDE DEF vals, e
  <1>3. /\ reply.args.params = Filled(e.params, query)
        /\ e.vars.isPlain => reply.args.vars = FirstVal(vals)
        /\ ~e.vars.isPlain => reply.args.vars = Filled(e.vars.members, vals)
    BY <1>1 DEF prepare_args
  <1>4. \A m \in e.params :
           reply.args.params[m] = IF m \in DOMAIN query THEN query[m] ELSE Default
    BY <1>3 DEF Filled
  <1>5. ASSUME e.vars.isPlain, NEW k \in DOMAIN VarOrder, VarOrder[k] \in DOMAIN Given,
               \A j \in 1..k - 1 : VarOrder[j] \notin DOMAIN Given
        PROVE  reply.args.vars = Given[VarOrder[k]]
    <2>1. FirstVal(vals) = vals[VarOrder[k]]
      BY <1>2, <1>5, FirstValIs
    <2> QED
      BY <1>2, <1>3, <1>5, <2>1
  <1>6. ASSUME ~e.vars.isPlain, NEW m \in e.vars.members
        PROVE  reply.args.vars[m] = IF m \in DOMAIN Given THEN Given[m] ELSE Default
    BY <1>2, <1>3, <1>6 DEF Filled
  <1> QED
    BY <1>4, <1>5, <1>6 DEF e

\* A handler's arguments come from where they belong: parameters from the query,
\* a variable from its place in the path, under the name the first template over
\* that place gave it, which the trie keeps (prepare_args, brpc_service.h:121-166;
\* var_pattern.cpp:401-402).
THEOREM ArgumentsAreGiven == Spec => []ArgumentsArrive
  BY InvAlways, InvArgumentsArrive, PTL
=============================================================================
