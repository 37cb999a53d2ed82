----------------------------- MODULE PartsProofs -----------------------------
(***************************************************************************)
(* Proofs about components that share nothing, which Parts runs side by    *)
(* side: the linked list, result sets with the models read from them, the  *)
(* scanners of SQL templates and of URL patterns, and the SQL builder.     *)
(***************************************************************************)
EXTENDS Parts, SequencesExt, SequenceTheorems, FiniteSetTheorems, WellFoundedInduction, TLAPS

Below == {s \in Nat \X Nat : s[1] < s[2]}

\* Every set of naturals that is not empty has a least element.
LEMMA LeastNatural ==
    ASSUME NEW T, T \subseteq Nat, T # {}
    PROVE  \E m \in T : \A k \in T : ~(k < m)
  <1>1. IsWellFoundedOn(Below, Nat)
    BY NatLessThanWellFounded DEF OpToRel, Below
  <1>2. PICK m \in T : \A k \in T : ~(<<k, m>> \in Below)
    BY <1>1, WFMin
  <1> QED
    BY <1>2 DEF Below

\* A step of all the parts is one of each, or leaves it alone.
LEMMA PartsSteps ==
    ASSUME [PartsNext]_allVars
    PROVE  /\ [Scanner!Next]_Scanner!vars
           /\ [Url!Next]_Url!urlVars
           /\ [Builder!Next]_Builder!builderVars
           /\ [Sets!Next]_Sets!setVars
  BY DEF PartsNext, allVars, scanVars, urlVars, builderVars, setVars, Scanner!vars,
         Url!urlVars, Builder!builderVars, Sets!setVars

-----------------------------------------------------------------------------
(***************************************************************************)
(* The pointers of LinkList are a sequence, for any nodes and any maximum  *)
(* length.  What _len links from _head lead through is a definition by     *)
(* recursion; WalkIs characterises it once and for all, so that a step     *)
(* needs only to name the sequence the links follow after it.              *)
(***************************************************************************)

\* A sequence that starts at first and follows the links is what Walk finds.
LEMMA WalkIs ==
    ASSUME NEW S, NEW first, NEW links, NEW s \in Seq(S),
           Len(s) > 0 => s[1] = first,
           \A i \in 1..(Len(s) - 1) : s[i + 1] = links[s[i]]
    PROVE  Walk(first, links, Len(s)) = s
  <1> DEFINE Eq(f) == f = [i \in 1..Len(s) |-> IF i = 1 THEN first ELSE links[f[i - 1]]]
             f == CHOOSE g : Eq(g)
  <1>1. Eq(s)
    <2>1. s = [i \in 1..Len(s) |-> s[i]]
      OBVIOUS
    <2>2. \A i \in 1..Len(s) : s[i] = IF i = 1 THEN first ELSE links[s[i - 1]]
      <3> TAKE i \in 1..Len(s)
      <3>1. CASE i = 1
        BY <3>1
      <3>2. CASE i # 1
        <4>1. i - 1 \in 1..(Len(s) - 1) /\ i = (i - 1) + 1
          BY <3>2
        <4>2. s[(i - 1) + 1] = links[s[i - 1]]
          BY <4>1
        <4> QED
          BY <3>2, <4>1, <4>2
      <3> QED
        BY <3>1, <3>2
    <2> QED
      BY <2>1, <2>2
  <1>2. Eq(f)
    <2> HIDE DEF Eq
    <2> QED
      BY <1>1
  <1>3. Walk(first, links, Len(s)) = [i \in 1..Len(s) |-> f[i]]
    BY DEF Walk
  <1> HIDE DEF f
  <1>4. \A i \in 1..Len(s) : f[i] = s[i]
    <2> SUFFICES ASSUME {i \in 1..Len(s) : f[i] # s[i]} # {}
                 PROVE  FALSE
      OBVIOUS
    <2>1. PICK m \in {i \in 1..Len(s) : f[i] # s[i]} :
              \A k \in {i \in 1..Len(s) : f[i] # s[i]} : ~(k < m)
      <3>1. {i \in 1..Len(s) : f[i] # s[i]} \subseteq Nat
        OBVIOUS
      <3> QED
        BY <3>1, LeastNatural
    <2>2. m \in 1..Len(s) /\ f[m] # s[m]
      OBVIOUS
    <2>3. f[m] = IF m = 1 THEN first ELSE links[f[m - 1]]
      BY <1>2, <2>2
    <2>4. s[m] = IF m = 1 THEN first ELSE links[s[m - 1]]
      BY <1>1, <2>2
    <2>5. m # 1 => m - 1 \in 1..Len(s) /\ m - 1 < m
      BY <2>2
    <2>6. m # 1 => f[m - 1] = s[m - 1]
      BY <2>1, <2>5
    <2> QED
      BY <2>2, <2>3, <2>4, <2>6
  <1>5. s = [i \in 1..Len(s) |-> s[i]]
    OBVIOUS
  <1> QED
    BY <1>3, <1>4, <1>5

\* The elements of a sequence without its kth.
LEMMA RemoveAtFacts ==
    ASSUME NEW S, NEW s \in Seq(S), NEW k \in 1..Len(s)
    PROVE  /\ RemoveAt(s, k) \in Seq(S)
           /\ Len(RemoveAt(s, k)) = Len(s) - 1
           /\ \A i \in 1..(Len(s) - 1) : RemoveAt(s, k)[i] = IF i < k THEN s[i] ELSE s[i + 1]
  <1> DEFINE a == SubSeq(s, 1, k - 1)
             b == SubSeq(s, k + 1, Len(s))
  <1>0. Len(s) \in Nat /\ k \in Nat /\ 1 <= k /\ k <= Len(s)
    OBVIOUS
  <1>1. /\ a \in Seq(S) /\ Len(a) = k - 1
        /\ \A i \in 1..(k - 1) : a[i] = s[i]
    <2>1. \A i \in 1..(k - 1) : s[i] \in S
      BY <1>0
    <2> QED
      BY <1>0, <2>1, SubSeqProperties, 1 \in Int, k - 1 \in Int
  <1>2. /\ b \in Seq(S) /\ Len(b) = Len(s) - k
        /\ \A i \in 1..(Len(s) - k) : b[i] = s[k + i]
    <2>1. \A i \in (k + 1)..Len(s) : s[i] \in S
      BY <1>0
    <2>2. k + 1 \in Int /\ Len(s) \in Int
      BY <1>0
    <2>3. /\ b \in Seq(S)
          /\ Len(b) = IF k + 1 <= Len(s) THEN Len(s) - (k + 1) + 1 ELSE 0
          /\ \A i \in 1..(Len(s) - (k + 1) + 1) : b[i] = s[(k + 1) + i - 1]
      BY <2>1, <2>2, SubSeqProperties
    <2> QED
      BY <1>0, <2>3
  <1>3. RemoveAt(s, k) = a \o b
    BY DEF RemoveAt
  <1> HIDE DEF a, b
  <1>4. /\ a \o b \in Seq(S)
        /\ Len(a \o b) = Len(a) + Len(b)
        /\ \A i \in 1..(Len(a) + Len(b)) :
               (a \o b)[i] = IF i <= Len(a) THEN a[i] ELSE b[i - Len(a)]
    BY <1>1, <1>2, ConcatProperties
  <1>5. Len(a \o b) = Len(s) - 1
    BY <1>0, <1>1, <1>2, <1>4
  <1>6. ASSUME NEW i \in 1..(Len(s) - 1)
        PROVE  (a \o b)[i] = IF i < k THEN s[i] ELSE s[i + 1]
    <2>1. (a \o b)[i] = IF i <= k - 1 THEN a[i] ELSE b[i - (k - 1)]
      BY <1>0, <1>1, <1>2, <1>4
    <2>2. CASE i < k
      BY <1>0, <1>1, <2>1, <2>2
    <2>3. CASE ~(i < k)
      <3>1. i - (k - 1) \in 1..(Len(s) - k) /\ k + (i - (k - 1)) = i + 1 /\ ~(i <= k - 1)
        BY <1>0, <2>3
      <3>2. b[i - (k - 1)] = s[k + (i - (k - 1))]
        BY <1>2, <3>1
      <3> QED
        BY <2>1, <2>3, <3>1, <3>2
    <2> QED
      BY <2>2, <2>3
  <1> QED
    BY <1>3, <1>4, <1>5, <1>6

-----------------------------------------------------------------------------
\* What each variable holds.
TypeOK ==
    /\ head \in Nodes \cup {NULL} /\ tail \in Nodes \cup {NULL}
    /\ len \in Nat
    /\ next \in [Nodes -> Nodes \cup {NULL}]
    /\ prev \in [Nodes -> Nodes \cup {NULL}]
    /\ heap \in [Nodes -> {"free", "listed", "held"}]

\* The links follow s in both directions, from _head to _tail, and s has every
\* listed node once.
IsChain(s) ==
    /\ s \in Seq(Nodes) /\ Len(s) = len
    /\ \A i, j \in 1..len : s[i] = s[j] => i = j
    /\ \A n \in Nodes : heap[n] = "listed" <=> \E i \in 1..len : s[i] = n
    /\ len > 0 => head = s[1] /\ tail = s[len] /\ prev[s[1]] = NULL /\ next[s[len]] = NULL
    /\ \A i \in 1..(len - 1) : next[s[i]] = s[i + 1] /\ prev[s[i + 1]] = s[i]

Inv == TypeOK /\ IsChain(Chain)

LEMMA ChainIs ==
    ASSUME NEW s, IsChain(s)
    PROVE  Walk(head, next, len) = s
  BY WalkIs DEF IsChain

\* Both overloads of add_tail: the new node follows the others.
LEMMA Linked ==
    ASSUME TypeOK, NEW s, IsChain(s),
           NEW n \in Nodes, heap[n] # "listed", LinkAtTail(n)
    PROVE  TypeOK' /\ IsChain(Append(s, n))'
  <1>1. PICK t : t = Append(s, n)
    OBVIOUS
  <1>2. /\ t \in Seq(Nodes) /\ Len(t) = len + 1
        /\ \A i \in 1..len : t[i] = s[i]
        /\ t[len + 1] = n
    BY <1>1, AppendProperties DEF IsChain
  <1>3. /\ len \in Nat /\ len' = len + 1 /\ tail' = n
        /\ heap' = [heap EXCEPT ![n] = "listed"]
    BY DEF LinkAtTail, TypeOK, Becomes
  <1>4. \A i \in 1..len : s[i] \in Nodes /\ s[i] # n
    BY DEF IsChain
  <1>5. \A m \in Nodes : heap'[m] = "listed" <=> \E i \in 1..len' : t[i] = m
    <2> SUFFICES ASSUME NEW m \in Nodes
                 PROVE  heap'[m] = "listed" <=> \E i \in 1..len' : t[i] = m
      OBVIOUS
    <2>1. CASE m = n
      BY <1>2, <1>3, <2>1 DEF TypeOK
    <2>2. CASE m # n
      <3>1. heap'[m] = heap[m]
        BY <1>3, <2>2 DEF TypeOK
      <3>2. (\E i \in 1..len' : t[i] = m) <=> \E i \in 1..len : s[i] = m
        BY <1>2, <1>3, <2>2
      <3> QED
        BY <3>1, <3>2 DEF IsChain
    <2> QED
      BY <2>1, <2>2
  <1>6. \A i, j \in 1..len' : t[i] = t[j] => i = j
    BY <1>2, <1>3, <1>4 DEF IsChain
  <1>7. CASE len = 0
    <2>1. head' = n /\ next' = [next EXCEPT ![n] = NULL] /\ prev' = [prev EXCEPT ![n] = NULL]
      BY <1>7 DEF LinkAtTail, isempty
    <2>2. TypeOK'
      BY <1>3, <2>1 DEF TypeOK
    <2>3. next'[n] = NULL /\ prev'[n] = NULL
      BY <2>1 DEF TypeOK
    <2> QED
      BY <1>1, <1>2, <1>3, <1>5, <1>6, <1>7, <2>1, <2>2, <2>3 DEF IsChain
  <1>8. CASE len # 0
    <2>1. /\ head' = head /\ prev' = [prev EXCEPT ![n] = tail]
          /\ next' = [next EXCEPT ![n] = NULL, ![tail] = n]
      BY <1>8 DEF LinkAtTail, isempty
    <2>2. len > 0 /\ tail = s[len] /\ tail \in Nodes /\ tail # n /\ head = s[1]
          /\ prev[s[1]] = NULL
      BY <1>3, <1>4, <1>8 DEF IsChain
    <2>3. TypeOK'
      BY <1>3, <2>1, <2>2 DEF TypeOK
    <2>4. next'[n] = NULL /\ next'[tail] = n /\ prev'[n] = tail
          /\ \A m \in Nodes \ {n} : prev'[m] = prev[m]
          /\ \A o \in Nodes \ {n, tail} : next'[o] = next[o]
      BY <2>1, <2>2 DEF TypeOK
    <2>5. t[1] = s[1] /\ t[len] = tail /\ prev'[t[1]] = NULL
      BY <1>2, <1>4, <1>3, <2>2, <2>4
    <2>6. ASSUME NEW i \in 1..(len' - 1)
          PROVE  next'[t[i]] = t[i + 1] /\ prev'[t[i + 1]] = t[i]
      <3>1. CASE i = len
        BY <1>2, <1>3, <2>4, <2>5, <3>1
      <3>2. CASE i # len
        <4>1. i \in 1..(len - 1) /\ i \in 1..len /\ i + 1 \in 1..len /\ len \in 1..len
          BY <1>3, <2>2, <3>2
        <4>2. s[i] # tail
          BY <2>2, <3>2, <4>1 DEF IsChain
        <4> QED
          BY <1>2, <1>4, <2>4, <4>1, <4>2 DEF IsChain
      <3> QED
        BY <3>1, <3>2
    <2>7. head' = t[1] /\ tail' = t[len'] /\ prev'[t[1]] = NULL /\ next'[t[len']] = NULL
      BY <1>2, <1>3, <2>1, <2>2, <2>4, <2>5
    <2>8. IsChain(t)'
      BY <1>2, <1>3, <1>5, <1>6, <2>6, <2>7 DEF IsChain
    <2> QED
      BY <1>1, <2>3, <2>8
  <1> QED
    BY <1>3, <1>7, <1>8
\* Unlinking the kth node closes the links over it, whether it is the first,
\* the last, one between them, or the only one.
LEMMA Unlinked ==
    ASSUME TypeOK, NEW s, IsChain(s),
           NEW k \in 1..len, detach(s[k])
    PROVE  TypeOK' /\ IsChain(RemoveAt(s, k))'
  <1>0. PICK p : p = s[k]
    OBVIOUS
  <1>1. PICK t : t = RemoveAt(s, k)
    OBVIOUS
  <1>2. /\ len \in Nat /\ len > 0 /\ len' = len - 1 /\ len' \in Nat
        /\ p \in Nodes
        /\ heap' = [heap EXCEPT ![p] = "held"]
    BY <1>0 DEF detach, TypeOK, Becomes, IsChain
  <1>3. /\ t \in Seq(Nodes) /\ Len(t) = len'
        /\ \A i \in 1..len' : t[i] = IF i < k THEN s[i] ELSE s[i + 1]
    <2>1. s \in Seq(Nodes) /\ k \in 1..Len(s) /\ len = Len(s)
      BY DEF IsChain
    <2> QED
      BY <1>1, <1>2, <2>1, RemoveAtFacts
  <1>4. \A i \in 1..len : s[i] \in Nodes /\ (s[i] = p => i = k)
    BY <1>0 DEF IsChain
  <1>5. \A m \in Nodes : heap'[m] = "listed" <=> \E i \in 1..len' : t[i] = m
    <2> SUFFICES ASSUME NEW m \in Nodes
                 PROVE  heap'[m] = "listed" <=> \E i \in 1..len' : t[i] = m
      OBVIOUS
    <2>1. CASE m = p
      <3>1. heap'[m] # "listed"
        BY <1>2, <2>1 DEF TypeOK
      <3>2. ASSUME NEW i \in 1..len', t[i] = p
            PROVE  FALSE
        <4>1. CASE i < k
          BY <1>2, <1>3, <1>4, <3>2, <4>1
        <4>2. CASE ~(i < k)
          BY <1>2, <1>3, <1>4, <3>2, <4>2
        <4> QED
          BY <4>1, <4>2
      <3> QED
        BY <2>1, <3>1, <3>2
    <2>2. CASE m # p
      <3>1. heap'[m] = heap[m]
        BY <1>2, <2>2 DEF TypeOK
      <3>2. ASSUME NEW i \in 1..len', t[i] = m
            PROVE  \E j \in 1..len : s[j] = m
        BY <1>2, <1>3, <3>2
      <3>3. ASSUME NEW j \in 1..len, s[j] = m
            PROVE  \E i \in 1..len' : t[i] = m
        <4>1. j # k
          BY <1>0, <2>2, <3>3
        <4>2. CASE j < k
          <5>1. j \in 1..len' /\ t[j] = s[j]
            BY <1>2, <1>3, <4>2
          <5> QED
            BY <3>3, <5>1
        <4>3. CASE j > k
          <5>1. j - 1 \in 1..len' /\ t[j - 1] = s[j]
            BY <1>2, <1>3, <4>3
          <5> QED
            BY <3>3, <5>1
        <4> QED
          BY <4>1, <4>2, <4>3
      <3> QED
        BY <3>1, <3>2, <3>3 DEF IsChain
    <2> QED
      BY <2>1, <2>2
  <1>6. \A i, j \in 1..len' : t[i] = t[j] => i = j
    <2> SUFFICES ASSUME NEW i \in 1..len', NEW j \in 1..len', t[i] = t[j]
                 PROVE  i = j
      OBVIOUS
    <2> DEFINE at(x) == IF x < k THEN x ELSE x + 1
    <2>1. at(i) \in 1..len /\ at(j) \in 1..len
      BY <1>2
    <2>2. t[i] = s[at(i)] /\ t[j] = s[at(j)]
      BY <1>3
    <2>3. at(i) = at(j)
      <3> HIDE DEF at
      <3>1. \A x, y \in 1..len : s[x] = s[y] => x = y
        BY DEF IsChain
      <3> QED
        BY <2>1, <2>2, <3>1
    <2> QED
      BY <2>3, <1>2
  <1>7. /\ \A i \in 1..(len - 1) : next[s[i]] = s[i + 1] /\ prev[s[i + 1]] = s[i]
        /\ head = s[1] /\ tail = s[len] /\ prev[s[1]] = NULL /\ next[s[len]] = NULL
    BY <1>2 DEF IsChain
  <1>8. (prev[p] = NULL) = (k = 1)
    <2>1. k # 1 => k - 1 \in 1..(len - 1) /\ (k - 1) + 1 = k /\ s[k - 1] \in Nodes
      BY <1>2, <1>4
    <2> QED
      BY <1>0, <1>7, <2>1, NodesAssumption
  <1>9. (next[p] = NULL) = (k = len)
    <2>1. k # len => k \in 1..(len - 1) /\ s[k + 1] \in Nodes
      BY <1>2, <1>4
    <2> QED
      BY <1>0, <1>7, <2>1, NodesAssumption
  <1>10. CASE len = 1
    <2>1. head' = NULL /\ tail' = NULL /\ UNCHANGED <<next, prev>>
      BY <1>0, <1>10 DEF detach
    <2>2. TypeOK'
      BY <1>2, <2>1 DEF TypeOK
    <2>3. len' = 0
      BY <1>2, <1>10
    <2>4. IsChain(t)'
      BY <1>3, <1>5, <1>6, <2>3 DEF IsChain
    <2> QED
      BY <1>1, <2>2, <2>4
  <1>11. CASE len # 1 /\ k = 1
    <2>1. /\ head' = next[p] /\ prev' = [prev EXCEPT ![next[p]] = NULL]
          /\ tail' = tail /\ next' = next
      BY <1>0, <1>8, <1>11 DEF detach
    <2>2. next[p] = s[2] /\ s[2] \in Nodes /\ len' \in 1..len'
      BY <1>0, <1>2, <1>4, <1>7, <1>11
    <2>3. TypeOK'
      BY <1>2, <2>1, <2>2 DEF TypeOK
    <2>4. prev'[s[2]] = NULL /\ \A m \in Nodes \ {s[2]} : prev'[m] = prev[m]
      BY <2>1, <2>2 DEF TypeOK
    <2>5. \A i \in 1..len' : t[i] = s[i + 1] /\ i + 1 \in 1..len
      BY <1>2, <1>3, <1>11
    <2>6. head' = t[1] /\ tail' = t[len'] /\ prev'[t[1]] = NULL /\ next'[t[len']] = NULL
      BY <1>2, <1>7, <2>1, <2>2, <2>4, <2>5
    <2>7. ASSUME NEW i \in 1..(len' - 1)
          PROVE  next'[t[i]] = t[i + 1] /\ prev'[t[i + 1]] = t[i]
      <3>1. /\ i + 1 \in 1..(len - 1) /\ i + 2 \in 1..len /\ 2 \in 1..len
            /\ t[i] = s[i + 1] /\ t[i + 1] = s[i + 2] /\ i + 2 # 2
        BY <1>2, <2>5
      <3>2. s[i + 2] # s[2] /\ s[i + 2] \in Nodes
        <4>1. \A x, y \in 1..len : s[x] = s[y] => x = y
          BY DEF IsChain
        <4> QED
          BY <1>4, <3>1, <4>1
      <3>3. (i + 1) + 1 = i + 2
        OBVIOUS
      <3> QED
        BY <1>7, <2>1, <2>4, <3>1, <3>2, <3>3
    <2>8. IsChain(t)'
      BY <1>3, <1>5, <1>6, <2>6, <2>7 DEF IsChain
    <2> QED
      BY <1>1, <2>3, <2>8
  <1>12. CASE len # 1 /\ k # 1 /\ k = len
    <2>1. /\ tail' = prev[p] /\ next' = [next EXCEPT ![prev[p]] = NULL]
          /\ head' = head /\ prev' = prev
      BY <1>0, <1>8, <1>9, <1>12 DEF detach
    <2>2. /\ len - 1 \in 1..(len - 1) /\ (len - 1) + 1 = len
          /\ prev[p] = s[len - 1] /\ s[len - 1] \in Nodes
      <3>1. len - 1 \in 1..(len - 1) /\ len - 1 \in 1..len /\ (len - 1) + 1 = len
        BY <1>2, <1>12
      <3> QED
        BY <1>0, <1>4, <1>7, <1>12, <3>1
    <2>3. TypeOK'
      BY <1>2, <2>1, <2>2 DEF TypeOK
    <2>4. /\ next'[s[len - 1]] = NULL
          /\ \A m \in Nodes \ {s[len - 1]} : next'[m] = next[m]
      BY <2>1, <2>2 DEF TypeOK
    <2>5. \A i \in 1..len' : t[i] = s[i] /\ i \in 1..len
      BY <1>2, <1>3, <1>12
    <2>6. head' = t[1] /\ tail' = t[len'] /\ prev'[t[1]] = NULL /\ next'[t[len']] = NULL
      <3>1. 1 \in 1..len' /\ len' \in 1..len' /\ len' = len - 1
        BY <1>2, <1>12
      <3> QED
        BY <1>7, <2>1, <2>2, <2>4, <2>5, <3>1
    <2>7. ASSUME NEW i \in 1..(len' - 1)
          PROVE  next'[t[i]] = t[i + 1] /\ prev'[t[i + 1]] = t[i]
      <3>1. /\ i \in 1..(len - 1) /\ i \in 1..len /\ len - 1 \in 1..len /\ i # len - 1
            /\ t[i] = s[i] /\ t[i + 1] = s[i + 1]
        BY <1>2, <2>5
      <3>2. s[i] # s[len - 1] /\ s[i] \in Nodes
        <4>1. \A x, y \in 1..len : s[x] = s[y] => x = y
          BY DEF IsChain
        <4> QED
          BY <1>4, <3>1, <4>1
      <3> QED
        BY <1>7, <2>1, <2>4, <3>1, <3>2
    <2>8. IsChain(t)'
      BY <1>3, <1>5, <1>6, <2>6, <2>7 DEF IsChain
    <2> QED
      BY <1>1, <2>3, <2>8
  <1>13. CASE len # 1 /\ k # 1 /\ k # len
    <2>1. /\ prev' = [prev EXCEPT ![next[p]] = prev[p]]
          /\ next' = [next EXCEPT ![prev[p]] = next[p]]
          /\ head' = head /\ tail' = tail
      BY <1>0, <1>8, <1>9, <1>13 DEF detach
    <2>2. /\ k - 1 \in 1..(len - 1) /\ k \in 1..(len - 1) /\ (k - 1) + 1 = k
          /\ k + 1 \in 1..len /\ k - 1 \in 1..len
      BY <1>2, <1>13
    <2>3. /\ next[p] = s[k + 1] /\ prev[p] = s[k - 1]
          /\ s[k + 1] \in Nodes /\ s[k - 1] \in Nodes
      BY <1>0, <1>4, <1>7, <2>2
    <2>4. TypeOK'
      BY <1>2, <2>1, <2>3 DEF TypeOK
    <2>5. /\ next'[s[k - 1]] = s[k + 1]
          /\ \A m \in Nodes \ {s[k - 1]} : next'[m] = next[m]
          /\ prev'[s[k + 1]] = s[k - 1]
          /\ \A o \in Nodes \ {s[k + 1]} : prev'[o] = prev[o]
      BY <2>1, <2>3 DEF TypeOK
    <2>6. \A x, y \in 1..len : s[x] = s[y] => x = y
      BY DEF IsChain
    <2>7. head' = t[1] /\ tail' = t[len'] /\ prev'[t[1]] = NULL /\ next'[t[len']] = NULL
      <3>1. /\ 1 \in 1..len /\ len \in 1..len /\ 1 \in 1..len' /\ len' \in 1..len'
            /\ len' + 1 = len /\ 1 < k /\ ~(len' < k) /\ 1 # k + 1 /\ len # k - 1
        BY <1>2, <1>13
      <3>2. t[1] = s[1] /\ t[len'] = s[len]
        BY <1>3, <3>1
      <3>3. s[1] # s[k + 1] /\ s[len] # s[k - 1]
        BY <2>2, <2>6, <3>1
      <3> QED
        BY <1>4, <1>7, <2>1, <2>5, <3>1, <3>2, <3>3
    <2>8. ASSUME NEW i \in 1..(len' - 1)
          PROVE  next'[t[i]] = t[i + 1] /\ prev'[t[i + 1]] = t[i]
      <3>1. i \in 1..len' /\ i + 1 \in 1..len' /\ i \in 1..len /\ i + 1 \in 1..len
        BY <1>2
      <3>2. CASE i = k - 1
        <4>1. t[i] = s[k - 1] /\ t[i + 1] = s[k + 1]
          BY <1>3, <2>2, <3>1, <3>2
        <4> QED
          BY <2>5, <4>1
      <3>3. CASE i < k - 1
        <4>1. /\ t[i] = s[i] /\ t[i + 1] = s[i + 1]
              /\ i \in 1..(len - 1) /\ i # k - 1 /\ i + 1 # k + 1
          BY <1>2, <1>3, <2>2, <3>1, <3>3, SMTT(20)
        <4>2. s[i] # s[k - 1] /\ s[i + 1] # s[k + 1]
          BY <2>2, <2>6, <3>1, <4>1
        <4> QED
          BY <1>4, <1>7, <2>5, <3>1, <4>1, <4>2
      <3>4. CASE i > k - 1
        <4>1. /\ t[i] = s[i + 1] /\ t[i + 1] = s[(i + 1) + 1]
              /\ i + 1 \in 1..(len - 1) /\ (i + 1) + 1 \in 1..len
              /\ i + 1 # k - 1 /\ (i + 1) + 1 # k + 1
          BY <1>2, <1>3, <2>2, <3>1, <3>4, SMTT(20)
        <4>2. s[i + 1] # s[k - 1] /\ s[(i + 1) + 1] # s[k + 1]
          BY <2>2, <2>6, <3>1, <4>1
        <4> QED
          BY <1>4, <1>7, <2>5, <3>1, <4>1, <4>2
      <3> QED
        BY <2>2, <3>1, <3>2, <3>3, <3>4
    <2>9. IsChain(t)'
      BY <1>3, <1>5, <1>6, <2>7, <2>8 DEF IsChain
    <2> QED
      BY <1>1, <2>4, <2>9
  <1> QED
    BY <1>10, <1>11, <1>12, <1>13
\* pop_head is detach(_head).
LEMMA PopIsDetach ==
    ASSUME TypeOK, NEW s, IsChain(s), pop_head
    PROVE  1 \in 1..len /\ detach(s[1])
  <1>1. len \in Nat /\ len > 0 /\ 1 \in 1..len /\ head = s[1] /\ s[1] \in Nodes
    BY DEF TypeOK, IsChain, pop_head, isempty
  <1>2. heap[s[1]] = "listed" /\ prev[s[1]] = NULL
    BY <1>1 DEF IsChain
  <1> QED
    BY <1>1, <1>2 DEF pop_head, detach

-----------------------------------------------------------------------------
\* The nodes the list's user holds.
Held == {n \in Nodes : heap[n] = "held"}

LEMMA InitInv == Init => Inv
  <1> SUFFICES ASSUME Init
               PROVE  Inv
    OBVIOUS
  <1>1. TypeOK
    BY DEF Init, TypeOK
  <1>2. IsChain(<<>>)
    BY DEF Init, IsChain
  <1>3. Chain = <<>>
    BY <1>2, ChainIs DEF Chain
  <1> QED
    BY <1>1, <1>2, <1>3 DEF Inv

\* What a step makes of the links, and that it is a step of the sequence.
LEMMA Step ==
    ASSUME Inv, [Next]_vars
    PROVE  Inv' /\ [Fifo!ListNext]_<<Chain, Held>>
  <1>1. PICK s : s = Chain
    OBVIOUS
  <1>2. TypeOK /\ IsChain(s) /\ len \in Nat
    BY <1>1 DEF Inv, TypeOK
  <1>3. ASSUME NEW t, TypeOK', IsChain(t)'
        PROVE  Inv' /\ Chain' = t
    <2>1. /\ t \in Seq(Nodes) /\ Len(t) = len'
          /\ Len(t) > 0 => t[1] = head'
          /\ \A i \in 1..(Len(t) - 1) : t[i + 1] = next'[t[i]]
      BY <1>3 DEF IsChain
    <2>2. Walk(head', next', len') = t
      BY <2>1, WalkIs
    <2> QED
      BY <1>3, <2>2 DEF Inv, Chain
  <1>4. Range(s) = {n \in Nodes : heap[n] = "listed"}
    <2>1. Range(s) = {s[i] : i \in 1..len}
      BY <1>2 DEF Range, IsChain
    <2> QED
      BY <1>2, <2>1 DEF IsChain
  <1>5. ASSUME NEW n \in Nodes, add_tail(n)
        PROVE  Inv' /\ Fifo!Add(n)
    <2>1. TypeOK' /\ IsChain(Append(s, n))'
      BY <1>2, <1>5, Linked DEF add_tail
    <2>2. Inv' /\ Chain' = Append(Chain, n)
      BY <1>1, <1>3, <2>1
    <2>3. heap' = [heap EXCEPT ![n] = "listed"] /\ heap[n] = "free"
      BY <1>5 DEF add_tail, LinkAtTail, Becomes
    <2>4. n \notin Range(s) \cup Held /\ Held' = Held
      BY <1>2, <1>4, <2>3 DEF Held, TypeOK
    <2> QED
      BY <1>1, <2>2, <2>4 DEF Fifo!Add, Fifo!Listed, Fifo!Range, Range, Held
  <1>6. ASSUME NEW n \in Nodes, add_tail_node(n)
        PROVE  Inv' /\ Fifo!AddHeld(n)
    <2>1. TypeOK' /\ IsChain(Append(s, n))'
      BY <1>2, <1>6, Linked DEF add_tail_node
    <2>2. Inv' /\ Chain' = Append(Chain, n)
      BY <1>1, <1>3, <2>1
    <2>3. heap' = [heap EXCEPT ![n] = "listed"] /\ heap[n] = "held"
      BY <1>6 DEF add_tail_node, LinkAtTail, Becomes
    <2>4. n \in Held /\ Held' = Held \ {n}
      BY <1>2, <2>3 DEF Held, TypeOK
    <2> QED
      BY <2>2, <2>4 DEF Fifo!AddHeld, Held
  <1>7. ASSUME NEW k \in 1..len, detach(s[k])
        PROVE  Inv' /\ Chain' = RemoveAt(s, k) /\ Held' = Held \cup {s[k]}
    <2>1. TypeOK' /\ IsChain(RemoveAt(s, k))'
      BY <1>2, <1>7, Unlinked
    <2>2. heap' = [heap EXCEPT ![s[k]] = "held"] /\ s[k] \in Nodes
      BY <1>2, <1>7 DEF detach, Becomes, IsChain
    <2>3. Held' = Held \cup {s[k]}
      BY <1>2, <2>2 DEF Held, TypeOK
    <2> QED
      BY <1>3, <2>1, <2>3
  <1>8. ASSUME NEW n \in Nodes, detach(n)
        PROVE  Inv' /\ Fifo!Detach(n)
    <2>1. PICK k \in 1..len : s[k] = n
      BY <1>2, <1>8 DEF detach, IsChain
    <2>2. Inv' /\ Chain' = RemoveAt(s, k) /\ Held' = Held \cup {n}
      BY <1>7, <1>8, <2>1
    <2>3. k \in DOMAIN s
      BY <1>2 DEF IsChain
    <2> QED
      BY <1>1, <2>1, <2>2, <2>3 DEF Fifo!Detach, Held, Fifo!RemoveAt, RemoveAt
  <1>9. ASSUME pop_head
        PROVE  Inv' /\ Fifo!Pop
    <2>1. 1 \in 1..len /\ detach(s[1])
      BY <1>2, <1>9, PopIsDetach
    <2>2. Inv' /\ Chain' = RemoveAt(s, 1) /\ Held' = Held \cup {s[1]}
      BY <1>7, <2>1
    <2>3. s \in Seq(Nodes) /\ Len(s) > 0 /\ s # <<>>
      BY <1>2, <2>1 DEF IsChain
    <2>4. RemoveAt(s, 1) = Tail(s)
      <3>1. SubSeq(s, 1, 1 - 1) = <<>>
        OBVIOUS
      <3>2. Tail(s) = SubSeq(s, 1 + 1, Len(s))
        BY <2>3, TailIsSubSeq
      <3>3. Tail(s) \in Seq(Nodes)
        BY <2>3
      <3> QED
        BY <3>1, <3>2, <3>3, ConcatEmptySeq DEF RemoveAt
    <2>5. Head(s) = s[1]
      BY <2>3
    <2> QED
      BY <1>1, <2>2, <2>3, <2>4, <2>5 DEF Fifo!Pop, Held
  <1>10. ASSUME NEW n \in Nodes, Delete(n)
         PROVE  Inv' /\ Fifo!Release(n)
    <2>1. heap' = [heap EXCEPT ![n] = "free"] /\ heap[n] = "held"
      BY <1>10 DEF Delete, Becomes
    <2>2. UNCHANGED <<head, tail, len, next, prev>>
      BY <1>10 DEF Delete
    <2>3. TypeOK' /\ \A m \in Nodes : heap'[m] = "listed" <=> heap[m] = "listed"
      BY <1>2, <2>1, <2>2 DEF TypeOK
    <2>4. IsChain(s)'
      BY <1>2, <2>2, <2>3 DEF IsChain
    <2>5. n \in Held /\ Held' = Held \ {n}
      BY <1>2, <2>1 DEF Held, TypeOK
    <2> QED
      BY <1>1, <1>3, <2>3, <2>4, <2>5 DEF Fifo!Release, Held
  <1>11. ASSUME clear
         PROVE  Inv' /\ Fifo!DiscardAll
    <2>1. /\ len' = 0 /\ UNCHANGED <<head, tail, next, prev>>
          /\ heap' = [n \in Nodes |->
                          IF \E i \in 1..len : s[i] = n THEN "free" ELSE heap[n]]
      BY <1>1, <1>11 DEF clear
    <2>2. TypeOK'
      BY <1>2, <2>1 DEF TypeOK
    <2>3. \A n \in Nodes : heap'[n] # "listed" /\ ((heap'[n] = "held") = (heap[n] = "held"))
      BY <1>2, <2>1 DEF IsChain
    <2>4. IsChain(<<>>)'
      BY <2>1, <2>3 DEF IsChain
    <2>5. Held' = Held
      BY <2>3 DEF Held
    <2> QED
      BY <1>3, <2>2, <2>4, <2>5 DEF Fifo!DiscardAll, Held
  <1>12. ASSUME UNCHANGED vars
         PROVE  Inv' /\ UNCHANGED <<Chain, Held>>
    BY <1>12 DEF vars, Inv, TypeOK, IsChain, Chain, Held
  <1> QED
    BY <1>5, <1>6, <1>8, <1>9, <1>10, <1>11, <1>12 DEF Next, Fifo!ListNext

LEMMA AlwaysInv == Spec => []Inv
  <1>1. Inv /\ [Next]_vars => Inv'
    BY Step
  <1> QED
    BY InitInv, <1>1, PTL DEF Spec

\* The links lead through the listed nodes and no others, in both directions,
\* whatever freed and given nodes still point at (flist.hpp:54-161).
THEOREM LinksAreWhole == Spec => []WellLinked
  <1>1. Inv => WellLinked
    <2> SUFFICES ASSUME Inv
                 PROVE  WellLinked
      OBVIOUS
    <2>1. PICK s : s = Chain
      OBVIOUS
    <2>2. IsChain(s) /\ len \in Nat
      BY <2>1 DEF Inv, TypeOK
    <2>3. {n \in Nodes : heap[n] = "listed"} = {s[i] : i \in 1..len}
      BY <2>2 DEF IsChain
    <2> QED
      BY <2>1, <2>2, <2>3 DEF WellLinked, IsChain
  <1> QED
    BY <1>1, AlwaysInv, PTL

\* LinkList implements a sequence: add_tail appends, pop_head takes the first,
\* detach takes out the node it is given, clear empties (flist.hpp:54-161).
THEOREM ListRefinesSequence == Spec => ImplementsFifoList
  <1>1. Init => Fifo!ListInit
    <2> SUFFICES ASSUME Init
                 PROVE  Fifo!ListInit
      OBVIOUS
    <2>1. IsChain(<<>>)
      BY DEF Init, IsChain
    <2>2. Chain = <<>>
      BY <2>1, ChainIs DEF Chain
    <2> QED
      BY <2>2 DEF Init, Fifo!ListInit
  <1>2. Inv /\ [Next]_vars => [Fifo!ListNext]_Fifo!listVars
    BY Step DEF Fifo!listVars, Held
  <1> QED
    BY <1>1, <1>2, AlwaysInv, PTL DEF Spec, ImplementsFifoList, Fifo!ListSpec

-----------------------------------------------------------------------------
(***************************************************************************)
(* Result sets, for any answers whose rows fit their columns, any number   *)
(* of sets and cursors.                                                    *)
(***************************************************************************)

SetType == [rows : Seq(Seq(Cells)), read : Nat, freed : 0..1]
CursorType == [fields : Seq(Names), res : Nat, row : Nat, reused : BOOLEAN]

\* A cursor's set is not freed and has columns, the row it is at is one of the
\* set's, and unless the cursor was used twice its fields are the set's columns.
Points(sets, cur) ==
    cur.res # 0 =>
        /\ cur.res \in DOMAIN sets
        /\ sets[cur.res].freed = 0
        /\ cur.fields # <<>>
        /\ cur.row <= Len(sets[cur.res].rows)
        /\ ~cur.reused => \A k \in DOMAIN sets[cur.res].rows :
                             Len(sets[cur.res].rows[k]) = Len(cur.fields)

Sound(sets, cur) ==
    /\ sets \in Seq(SetType) /\ cur \in CursorType
    /\ Points(sets, cur)
    /\ cur.row > 0 => cur.res # 0

SetsInv ==
    /\ Sound(stored, cursor)
    /\ user = "nobody" => cursor.res = 0

\* No set but that of cur is unfreed in later and not in earlier.
KeepsOrphans(earlier, cur, later) ==
    \A i \in DOMAIN later : later[i].freed = 0 =>
        i \in DOMAIN earlier /\ earlier[i].freed = 0 /\ ~(i = cur.res /\ i # 0)

LEMMA FreshFacts ==
    ASSUME NEW sets \in Seq(SetType)
    PROVE  Sound(sets, Sets!Fresh) /\ Sets!Fresh.res = 0 /\ Sets!Fresh.fields = <<>>
           /\ ~Sets!Fresh.reused
  <1>1. Sets!Fresh \in CursorType
    BY DEF Sets!Fresh, CursorType
  <1> QED
    BY <1>1 DEF Sound, Points, Sets!Fresh

LEMMA SetFacts ==
    ASSUME NEW sets \in Seq(SetType)
    PROVE  /\ DOMAIN sets \subseteq Nat \ {0}
           /\ \A i \in DOMAIN sets : sets[i] \in SetType /\ sets[i].freed <= 1
  <1>1. \A i \in DOMAIN sets : i \in Nat \ {0} /\ sets[i] \in SetType
    OBVIOUS
  <1>2. \A set \in SetType : set.freed <= 1
    BY DEF SetType
  <1> QED
    BY <1>1, <1>2

LEMMA RowMoves ==
    ASSUME NEW cur \in CursorType, NEW k \in Nat
    PROVE  [cur EXCEPT !.row = k] \in CursorType
  BY Zenon DEF CursorType

\* mysql_free_result
LEMMA FreedFacts ==
    ASSUME NEW sets, NEW cur, Sound(sets, cur)
    PROVE  LET freed == Sets!Freed(sets, cur.res)
           IN  /\ freed \in Seq(SetType) /\ Len(freed) = Len(sets)
               /\ KeepsOrphans(sets, cur, freed)
  <1> DEFINE freed == Sets!Freed(sets, cur.res)
  <1>1. sets \in Seq(SetType) /\ cur \in CursorType /\ Points(sets, cur)
    BY DEF Sound
  <1>2. CASE cur.res = 0
    <2>1. freed = sets
      BY <1>2 DEF Sets!Freed
    <2> QED
      BY <1>1, <1>2, <2>1 DEF KeepsOrphans
  <1>3. CASE cur.res # 0
    <2> DEFINE r == cur.res
    <2>1. r \in DOMAIN sets /\ sets[r].freed = 0 /\ sets[r] \in SetType
      BY <1>1, <1>3 DEF Points
    <2>2. freed = [sets EXCEPT ![r].freed = @ + 1]
      BY <1>3 DEF Sets!Freed
    <2> DEFINE one == [sets[r] EXCEPT !.freed = @ + 1]
    <2>3. freed = [sets EXCEPT ![r] = one]
      BY <2>2
    <2>4. one \in SetType /\ one.freed = 1
      BY <2>1 DEF SetType
    <2> HIDE DEF freed, one, r
    <2>5. freed \in Seq(SetType) /\ Len(freed) = Len(sets)
      BY <1>1, <2>1, <2>3, <2>4
    <2>6. DOMAIN freed = DOMAIN sets /\ freed[r].freed = 1
          /\ \A i \in DOMAIN sets : i # r => freed[i] = sets[i]
      BY <1>1, <2>1, <2>3, <2>4
    <2> QED
      BY <2>5, <2>6 DEF KeepsOrphans, freed, r
  <1> QED
    BY <1>2, <1>3

\* What MysqlSimplePool::select does to a cursor.
LEMMA SelectedFacts ==
    ASSUME Sets!RowsFit, NEW answer \in Answers, NEW cur, Sound(stored, cur)
    PROVE  LET got == Sets!Selected(answer, cur)
           IN  /\ Sound(got.sets, got.cur)
               /\ ~Sets!Failed(answer) =>
                     /\ got.sets = Append(stored, [rows |-> answer.data.rows, read |-> 0, freed |-> 0])
                     /\ got.cur.fields = cur.fields \o answer.data.names
                     /\ got.cur.res = Len(stored) + 1 /\ got.cur.row = 0
                     /\ got.cur.reused <=> cur.fields # <<>>
                     /\ got.count = Len(answer.data.rows)
               /\ Sets!Failed(answer) => got.sets = stored /\ got.count = -1
                                         /\ got.cur.fields = cur.fields
                                         /\ (got.cur = cur \/ got.cur.res = 0)
                                         /\ (cur.res = 0 => got.cur.res = 0)
                                         /\ (cur.fields = <<>> /\ ~cur.reused => ~got.cur.reused)
  <1> DEFINE got == Sets!Selected(answer, cur)
  <1>1. stored \in Seq(SetType) /\ cur \in CursorType
    BY DEF Sound
  <1>2. CASE answer.null
    <2>1. got = [sets |-> stored, cur |-> cur, count |-> -1]
      BY <1>2 DEF Sets!Selected
    <2> QED
      BY <1>2, <2>1 DEF Sets!Failed
  <1>3. CASE ~answer.null /\ answer.data = Null
    <2> DEFINE now == [fields |-> cur.fields, res |-> 0, row |-> 0, reused |-> cur.fields # <<>>]
    <2>1. got = [sets |-> stored, cur |-> now, count |-> -1]
      BY <1>3 DEF Sets!Selected
    <2> HIDE DEF now
    <2>3. now \in CursorType
      BY <1>1 DEF CursorType, now
    <2>4. Sound(stored, now)
      BY <1>1, <2>3 DEF Sound, Points, now
    <2>5. now.res = 0 /\ now.fields = cur.fields /\ (now.reused <=> cur.fields # <<>>)
      BY DEF now
    <2>6. got.sets = stored /\ got.cur = now /\ got.count = -1
      BY <2>1
    <2> QED
      BY <1>3, <2>4, <2>5, <2>6 DEF Sets!Failed
  <1>4. CASE ~answer.null /\ answer.data # Null
    <2> DEFINE d == answer.data
               n == Len(stored) + 1
               set == [rows |-> d.rows, read |-> 0, freed |-> 0]
               sets == Append(stored, set)
               now == [fields |-> cur.fields \o d.names, res |-> n, row |-> 0, reused |-> cur.fields # <<>>]
    <2>1. got = [sets |-> sets, cur |-> now, count |-> Len(d.rows)]
      BY <1>4 DEF Sets!Selected
    <2>3. /\ d.names \in Seq(Names) /\ d.names # <<>> /\ d.rows \in Seq(Seq(Cells))
          /\ \A k \in DOMAIN d.rows : Len(d.rows[k]) = Len(d.names)
      BY <1>4 DEF Sets!RowsFit
    <2> HIDE DEF now, d
    <2>4. set \in SetType /\ n \in Nat
      BY <1>1, <2>3 DEF SetType
    <2> HIDE DEF set
    <2>5. sets \in Seq(SetType) /\ n \in DOMAIN sets /\ sets[n] = set
      BY <1>1, <2>4
    <2> HIDE DEF sets, n
    <2>6. cur.fields \in Seq(Names)
      BY <1>1 DEF CursorType
    <2>7. cur.fields \o d.names \in Seq(Names) /\ cur.fields \o d.names # <<>>
      BY <2>3, <2>6
    <2>8. now \in CursorType
      BY <2>4, <2>7 DEF CursorType, now
    <2>9. cur.fields = <<>> => cur.fields \o d.names = d.names
      BY <2>3
    <2>10. Points(sets, now)
      <3>1. sets[n].rows = d.rows /\ sets[n].freed = 0
        BY <2>5 DEF set
      <3>2. now.res = n /\ now.fields # <<>> /\ now.row = 0
            /\ (~now.reused => now.fields = d.names)
        BY <2>7, <2>9 DEF now
      <3> QED
        BY <2>3, <2>5, <3>1, <3>2 DEF Points
    <2>11. Sound(sets, now)
      BY <2>5, <2>8, <2>10 DEF Sound, now
    <2>12. now.fields = cur.fields \o d.names /\ now.res = n /\ now.row = 0
           /\ (now.reused <=> cur.fields # <<>>)
      BY DEF now
    <2>13. got.sets = sets /\ got.cur = now /\ got.count = Len(d.rows)
      BY <2>1
    <2> QED
      BY <1>4, <2>11, <2>12, <2>13 DEF Sets!Failed, d, n, set, sets
  <1> QED
    BY <1>2, <1>3, <1>4

\* MyResult::next with a row left.
LEMMA TakeRowFacts ==
    ASSUME Sound(stored, cursor), Sets!TakeRow
    PROVE  LET r == cursor.res
           IN  /\ Sound(stored', cursor') /\ cursor'.res = r /\ cursor'.fields = cursor.fields
               /\ cursor'.reused = cursor.reused
               /\ r \in DOMAIN stored /\ DOMAIN stored' = DOMAIN stored
               /\ \A i \in DOMAIN stored : stored'[i].freed = stored[i].freed
                                           /\ stored'[i].rows = stored[i].rows
               /\ stored'[r].read = stored[r].read + 1
               /\ stored[r].read < Len(stored[r].rows)
               /\ KeepsOrphans(stored, cursor, stored') \/ r # 0
  <1> DEFINE r == cursor.res
             set == stored[r]
             one == [set EXCEPT !.read = @ + 1]
  <1>1. stored \in Seq(SetType) /\ cursor \in CursorType /\ Points(stored, cursor)
    BY DEF Sound
  <1>2. /\ cursor.fields # <<>> /\ r # 0 /\ set.read < Len(set.rows)
        /\ stored' = [stored EXCEPT ![r] = one]
        /\ cursor' = [cursor EXCEPT !.row = set.read + 1]
    BY DEF Sets!TakeRow, Sets!HasNext
  <1>3. r \in DOMAIN stored /\ set \in SetType
    BY <1>1, <1>2 DEF Points
  <1>4. one \in SetType /\ one.freed = set.freed /\ one.rows = set.rows /\ one.read = set.read + 1
        /\ set.read \in Nat /\ set.rows \in Seq(Seq(Cells))
    BY <1>3 DEF SetType
  <1>5. /\ cursor'.fields = cursor.fields /\ cursor'.res = r
        /\ cursor'.reused = cursor.reused /\ cursor'.row = set.read + 1
    BY <1>1, <1>2 DEF CursorType
  <1>6. cursor' \in CursorType
    <2>1. set.read + 1 \in Nat
      BY <1>4
    <2> HIDE DEF set
    <2> QED
      BY <1>1, <1>2, <2>1, RowMoves
  <1> HIDE DEF one, set, r
  <1>7. stored' \in Seq(SetType) /\ DOMAIN stored' = DOMAIN stored
        /\ stored'[r] = one /\ \A i \in DOMAIN stored : i # r => stored'[i] = stored[i]
    BY <1>1, <1>2, <1>3, <1>4
  <1>8. set.read + 1 <= Len(set.rows) /\ set.read + 1 > 0
    BY <1>2, <1>4
  <1>9. Points(stored', cursor')
    BY <1>1, <1>2, <1>3, <1>4, <1>5, <1>7, <1>8 DEF Points, set, r
  <1>10. Sound(stored', cursor')
    BY <1>2, <1>5, <1>6, <1>7, <1>9 DEF Sound
  <1> QED
    BY <1>2, <1>3, <1>4, <1>5, <1>7, <1>10 DEF r, set

LEMMA SetsInit == Sets!Idle => SetsInv
  <1> SUFFICES ASSUME Sets!Idle
               PROVE  SetsInv
    OBVIOUS
  <1>1. stored = <<>> /\ cursor = Sets!Fresh
    BY DEF Sets!Idle
  <1>2. stored \in Seq(SetType)
    BY <1>1
  <1> QED
    BY <1>1, <1>2, FreshFacts DEF SetsInv

NoneLost ==
    /\ \A i \in DOMAIN stored' : stored'[i].freed <= 1
    /\ \A i \in Sets!Held' : stored'[i].freed = 0
    /\ \A i \in Sets!Orphans' \ Sets!Orphans : i \in Sets!Held /\ user = "app" /\ Len(cursor.fields) > 0

\* A step that frees what it must, or nothing.
LEMMA KeepsIsSafe ==
    ASSUME SetsInv, SetsInv', KeepsOrphans(stored, cursor, stored')
    PROVE  NoneLost
  <1>1. stored' \in Seq(SetType) /\ Points(stored', cursor')
    BY DEF SetsInv, Sound
  <1>2. \A i \in DOMAIN stored' : stored'[i].freed <= 1
    BY <1>1, SetFacts
  <1>3. \A i \in Sets!Held' : stored'[i].freed = 0
    BY <1>1 DEF Sets!Held, Points
  <1>4. ASSUME NEW i \in Sets!Orphans'
        PROVE  i \in Sets!Orphans
    BY <1>4 DEF Sets!Orphans, Sets!Held, KeepsOrphans
  <1> QED
    BY <1>2, <1>3, <1>4 DEF NoneLost

LEMMA HeldIsSafe ==
    ASSUME SetsInv, SetsInv', cursor'.res = cursor.res, DOMAIN stored' = DOMAIN stored,
           \A i \in DOMAIN stored : stored'[i].freed = stored[i].freed
    PROVE  NoneLost
  <1>1. stored' \in Seq(SetType) /\ Points(stored', cursor')
    BY DEF SetsInv, Sound
  <1>2. \A i \in DOMAIN stored' : stored'[i].freed <= 1
    BY <1>1, SetFacts
  <1>3. \A i \in Sets!Held' : stored'[i].freed = 0
    BY <1>1 DEF Sets!Held, Points
  <1>4. ASSUME NEW i \in Sets!Orphans'
        PROVE  i \in Sets!Orphans
    BY <1>4 DEF Sets!Orphans, Sets!Held
  <1> QED
    BY <1>2, <1>3, <1>4 DEF NoneLost

\* The cursor is gone and its set freed.
LEMMA ResetSafe ==
    ASSUME SetsInv, stored' = Sets!Freed(stored, cursor.res), cursor' = Sets!Fresh
    PROVE  SetsInv' /\ NoneLost
  <1>1. stored' \in Seq(SetType) /\ KeepsOrphans(stored, cursor, stored')
    BY FreedFacts DEF SetsInv
  <1>2. Sound(stored', cursor') /\ cursor'.res = 0
    BY <1>1, FreshFacts
  <1>3. SetsInv'
    BY <1>2 DEF SetsInv
  <1> QED
    BY <1>1, <1>3, KeepsIsSafe

LEMMA StartSafe ==
    ASSUME Sets!RowsFit, SetsInv, NEW who, NEW before, NEW answer \in Answers,
           who # "nobody", Sets!Start(who, before, answer)
    PROVE  SetsInv' /\ NoneLost
  <1> DEFINE got == Sets!Selected(answer, Sets!Fresh)
  <1>1. cursor.res = 0 /\ user = "nobody" /\ Sound(stored, cursor) /\ stored \in Seq(SetType)
    BY DEF SetsInv, Sets!Start, Sound
  <1>2. Sound(stored, Sets!Fresh)
    BY <1>1, FreshFacts
  <1>3. /\ Sound(got.sets, got.cur)
        /\ ~Sets!Failed(answer) =>
              got.sets = Append(stored, [rows |-> answer.data.rows, read |-> 0, freed |-> 0])
              /\ got.cur.res = Len(stored) + 1
        /\ Sets!Failed(answer) => got.sets = stored /\ got.count = -1
    BY <1>2, SelectedFacts
  <1> HIDE DEF got
  <1>4. CASE Sets!HandedOut(got.count)
    <2>1. stored' = got.sets /\ cursor' = got.cur /\ user' = who
      BY <1>4 DEF Sets!Start, got
    <2>2. SetsInv'
      BY <1>3, <2>1 DEF SetsInv
    <2>3. CASE Sets!Failed(answer)
      <3>1. KeepsOrphans(stored, cursor, stored')
        BY <1>1, <1>3, <2>1, <2>3 DEF KeepsOrphans
      <3> QED
        BY <2>2, <3>1, KeepsIsSafe
    <2>4. CASE ~Sets!Failed(answer)
      <3>1. DOMAIN stored' = DOMAIN stored \cup {cursor'.res}
            /\ \A i \in DOMAIN stored : stored'[i] = stored[i]
        BY <1>1, <1>3, <2>1, <2>4
      <3>2. stored' \in Seq(SetType) /\ Points(stored', cursor')
        BY <2>2 DEF SetsInv, Sound
      <3>3. \A i \in DOMAIN stored' : stored'[i].freed <= 1
        BY <3>2, SetFacts
      <3>4. \A i \in Sets!Held' : stored'[i].freed = 0
        BY <3>2 DEF Sets!Held, Points
      <3>5. ASSUME NEW i \in Sets!Orphans'
            PROVE  i \in Sets!Orphans
        <4>1. i \in DOMAIN stored' /\ stored'[i].freed = 0 /\ ~(i = cursor'.res /\ i # 0)
          BY <3>5 DEF Sets!Orphans, Sets!Held
        <4>2. i \in DOMAIN stored /\ stored[i].freed = 0
          BY <3>1, <3>2, <4>1, SetFacts
        <4> QED
          BY <1>1, <4>2 DEF Sets!Orphans, Sets!Held
      <3> QED
        BY <2>2, <3>3, <3>4, <3>5 DEF NoneLost
    <2> QED
      BY <2>3, <2>4, <2>2
  <1>5. CASE ~Sets!HandedOut(got.count)
    <2>1. stored' = Sets!Freed(got.sets, got.cur.res) /\ cursor' = cursor /\ user' = user
      BY <1>5 DEF Sets!Start, got
    <2>2. ~Sets!Failed(answer)
      BY <1>3, <1>5 DEF Sets!HandedOut
    <2>3. stored' \in Seq(SetType) /\ KeepsOrphans(got.sets, got.cur, stored')
      BY <1>3, <2>1, FreedFacts
    <2>4. Sound(stored', cursor')
      BY <1>1, <2>1, <2>3 DEF Sound, Points
    <2>5. SetsInv'
      BY <1>1, <2>1, <2>4 DEF SetsInv
    <2>6. DOMAIN got.sets = DOMAIN stored \cup {got.cur.res} /\ got.cur.res # 0
          /\ \A i \in DOMAIN stored : got.sets[i] = stored[i]
      BY <1>1, <1>3, <2>2
    <2>7. KeepsOrphans(stored, cursor, stored')
      BY <1>1, <2>3, <2>6 DEF KeepsOrphans
    <2> QED
      BY <2>5, <2>7, KeepsIsSafe
  <1> QED
    BY <1>4, <1>5

LEMMA SelectSafe ==
    ASSUME Sets!RowsFit, SetsInv, NEW answer \in Answers, Sets!select(answer)
    PROVE  SetsInv' /\ NoneLost
  <1> DEFINE got == Sets!Selected(answer, cursor)
  <1>1. user = "app" /\ user' = user /\ stored' = got.sets /\ cursor' = got.cur
    BY DEF Sets!select
  <1>2. Sound(stored, cursor)
    BY DEF SetsInv
  <1>3. /\ Sound(got.sets, got.cur)
        /\ ~Sets!Failed(answer) =>
              got.sets = Append(stored, [rows |-> answer.data.rows, read |-> 0, freed |-> 0])
              /\ got.cur.res = Len(stored) + 1
        /\ Sets!Failed(answer) => got.sets = stored
    BY <1>2, SelectedFacts
  <1> HIDE DEF got
  <1>4. SetsInv'
    BY <1>1, <1>3 DEF SetsInv
  <1>5. stored \in Seq(SetType) /\ Points(stored, cursor) /\ cursor \in CursorType
    BY <1>2 DEF Sound
  <1>6. stored' \in Seq(SetType) /\ Points(stored', cursor')
    BY <1>4 DEF SetsInv, Sound
  <1>7. \A i \in DOMAIN stored' : stored'[i].freed <= 1
    BY <1>6, SetFacts
  <1>8. \A i \in Sets!Held' : stored'[i].freed = 0
    BY <1>6 DEF Sets!Held, Points
  <1>9. /\ DOMAIN stored' \subseteq DOMAIN stored \cup {cursor'.res}
        /\ \A i \in DOMAIN stored : stored'[i] = stored[i]
    BY <1>1, <1>3, <1>5, SMTT(20)
  <1>10. ASSUME NEW i \in Sets!Orphans' \ Sets!Orphans
         PROVE  i \in Sets!Held /\ Len(cursor.fields) > 0
    <2>1. i \in DOMAIN stored' /\ stored'[i].freed = 0 /\ ~(i = cursor'.res /\ i # 0)
      BY <1>10 DEF Sets!Orphans, Sets!Held
    <2>2. i # 0
      BY <1>6, <2>1
    <2>3. i \in DOMAIN stored /\ stored[i].freed = 0
      BY <1>9, <2>1, <2>2
    <2>4. i \in Sets!Held
      BY <1>10, <2>3 DEF Sets!Orphans
    <2>5. cursor.fields \in Seq(Names) /\ cursor.fields # <<>>
      BY <1>5, <2>4 DEF Sets!Held, Points, CursorType
    <2> QED
      BY <2>4, <2>5
  <1> QED
    BY <1>1, <1>4, <1>7, <1>8, <1>10 DEF NoneLost

LEMMA SetsStep ==
    ASSUME Sets!RowsFit, SetsInv, Sets!Next
    PROVE  SetsInv' /\ NoneLost
  <1>1. CASE Sets!Declare
    <2>1. user = "nobody" /\ stored' = stored /\ cursor' = Sets!Fresh /\ user' = "app"
      BY <1>1 DEF Sets!Declare
    <2>2. stored \in Seq(SetType) /\ cursor.res = 0
      BY <2>1 DEF SetsInv, Sound
    <2>3. SetsInv' /\ cursor'.res = 0
      BY <2>1, <2>2, FreshFacts DEF SetsInv
    <2> QED
      BY <2>1, <2>2, <2>3, HeldIsSafe
  <1>2. CASE Sets!next
    <2>1. user = "app" /\ user' = user /\ Sound(stored, cursor)
      BY <1>2 DEF Sets!next, SetsInv
    <2>2. CASE Sets!TakeRow
      <3>1. Sound(stored', cursor') /\ cursor'.res = cursor.res /\ DOMAIN stored' = DOMAIN stored
            /\ \A i \in DOMAIN stored : stored'[i].freed = stored[i].freed
        BY <2>1, <2>2, TakeRowFacts
      <3>2. SetsInv'
        BY <2>1, <3>1 DEF SetsInv
      <3> QED
        BY <3>1, <3>2, HeldIsSafe
    <2>3. CASE Sets!NoMore
      <3>1. CASE UNCHANGED <<stored, cursor>>
        <4>1. SetsInv'
          BY <2>1, <3>1 DEF SetsInv
        <4> QED
          BY <3>1, <4>1, HeldIsSafe
      <3>2. CASE Sets!reset
        BY <3>2, ResetSafe DEF Sets!reset
      <3> QED
        BY <2>3, <3>1, <3>2 DEF Sets!NoMore
    <2> QED
      BY <1>2, <2>2, <2>3 DEF Sets!next
  <1>3. CASE Sets!ReadRow \/ Sets!Refuse
    <2>1. UNCHANGED <<stored, cursor, user>>
      BY <1>3 DEF Sets!ReadRow, Sets!Refuse
    <2>2. SetsInv'
      BY <2>1 DEF SetsInv
    <2> QED
      BY <2>1, <2>2, HeldIsSafe
  <1>4. CASE Sets!Destroy
    BY <1>4, ResetSafe DEF Sets!Destroy, Sets!reset
  <1>5. CASE Sets!ListRow
    <2>1. user = "list" /\ user' = user /\ Sound(stored, cursor) /\ Sets!TakeRow
      BY <1>5 DEF Sets!ListRow, SetsInv
    <2>2. Sound(stored', cursor') /\ cursor'.res = cursor.res /\ DOMAIN stored' = DOMAIN stored
          /\ \A i \in DOMAIN stored : stored'[i].freed = stored[i].freed
      BY <2>1, TakeRowFacts
    <2>3. SetsInv'
      BY <2>1, <2>2 DEF SetsInv
    <2> QED
      BY <2>2, <2>3, HeldIsSafe
  <1>6. CASE Sets!ListEnd \/ Sets!SelectOne
    BY <1>6, ResetSafe DEF Sets!ListEnd, Sets!SelectOne, Sets!Finish
  <1>7. ASSUME NEW answer \in Answers, Sets!select(answer)
        PROVE  SetsInv' /\ NoneLost
    BY <1>7, SelectSafe
  <1>8. ASSUME NEW answer \in Answers, NEW before, Sets!Start("list", before, answer)
        PROVE  SetsInv' /\ NoneLost
    BY <1>8, StartSafe
  <1>9. ASSUME NEW answer \in Answers, NEW before, Sets!Start("one", before, answer)
        PROVE  SetsInv' /\ NoneLost
    BY <1>9, StartSafe
  <1> QED
    BY <1>1, <1>2, <1>3, <1>4, <1>5, <1>6, <1>7, <1>8, <1>9 DEF Sets!Next

\* Over any number of sets, rows and cursors: a set is freed at most once, never
\* under its cursor, and never lost but by an application that selects into a
\* MyResult it has not read to its end (MyResult::init forgets _res,
\* mysql_simple_result.cpp).
THEOREM SetsAreFreedOnce == PartsSpec => SetsFreedOnce
  <1>1. SetsInv /\ [Sets!Next]_Sets!setVars => SetsInv' /\ [NoneLost]_Sets!setVars
    <2>1. CASE UNCHANGED Sets!setVars
      BY <2>1 DEF Sets!setVars, SetsInv
    <2> QED
      BY <2>1, SetsStep, PartsAssumption
  <1>2. PartsInit => SetsInv
    BY SetsInit DEF PartsInit
  <1>3. [PartsNext]_allVars => [Sets!Next]_Sets!setVars
    BY PartsSteps
  <1>4. PartsSpec => [][NoneLost]_Sets!setVars
    BY <1>1, <1>2, <1>3, PTL DEF PartsSpec
  <1> QED
    BY <1>4 DEF NoneLost, SetsFreedOnce, Sets!SetsFreedOnce

-----------------------------------------------------------------------------
(* What select_impl and select_list_impl have read *)

IsSeq(s) == \E S : s \in Seq(S)

Selects == {"one", "list"}

\* The first k rows of the answer are the models after those there before.
Taken(k) ==
    LET n == Len(asked.before)
        d == asked.answer.data
    IN  /\ IsSeq(models) /\ Len(models) = n + k
        /\ \A i \in 1..n : models[i] = asked.before[i]
        /\ \A i \in 1..k : Sets!IsRow(models[n + i], d.names, d.rows[i])

LEMMA StartsEqual ==
    ASSUME NEW s, NEW t, IsSeq(s), IsSeq(t), NEW n \in Nat, n <= Len(s), n <= Len(t),
           \A i \in 1..n : s[i] = t[i]
    PROVE  SubSeq(s, 1, n) = SubSeq(t, 1, n)
  <1>1. PICK S : s \in Seq(S)
    BY DEF IsSeq
  <1>2. PICK T : t \in Seq(T)
    BY DEF IsSeq
  <1> DEFINE U == S \cup T
  <1>3. s \in Seq(U) /\ t \in Seq(U)
    BY <1>1, <1>2
  <1> HIDE DEF U
  <1> DEFINE a == SubSeq(s, 1, n)
             b == SubSeq(t, 1, n)
  <1>4. a \in Seq(U) /\ Len(a) = n /\ \A i \in 1..n : a[i] = s[i]
    BY <1>3
  <1>5. b \in Seq(U) /\ Len(b) = n /\ \A i \in 1..n : b[i] = t[i]
    BY <1>3
  <1> HIDE DEF a, b
  <1>6. a = b
    BY <1>4, <1>5, SeqEqual
  <1> QED
    BY <1>6 DEF a, b

\* While it reads: what its cursor points to is the answer's set.
Reading ==
    LET set == stored[cursor.res]
        d == asked.answer.data
    IN  /\ asked.who = user /\ ~cursor.reused
        /\ Sets!Failed(asked.answer) =>
              cursor.res = 0 /\ models = asked.before
        /\ ~Sets!Failed(asked.answer) =>
              /\ cursor.res # 0 /\ cursor.fields = d.names
              /\ set.rows = d.rows /\ d.rows # <<>>
              /\ set.read <= Len(d.rows)
              /\ user = "one" => set.read = 0
              /\ wrong = "no" => Taken(set.read)

\* When it has returned.
Selection ==
    asked.who \in Selects =>
         LET n     == IF asked.who = "list" THEN Len(asked.before) ELSE 0
             rows  == IF Sets!Failed(asked.answer) THEN <<>> ELSE asked.answer.data.rows
             taken == IF asked.who = "list" THEN rows ELSE SubSeq(rows, 1, IF rows = <<>> THEN 0 ELSE 1)
         IN  /\ taken # <<>> => Len(models) = n + Len(taken) /\ ret >= 1
             /\ taken = <<>> => models = asked.before
             /\ SubSeq(models, 1, n) = SubSeq(asked.before, 1, n)
             /\ \A k \in DOMAIN taken : Sets!IsRow(models[n + k], asked.answer.data.names, taken[k])
             /\ asked.who = "list" /\ ret # -1 => ret = Len(models)

ModelsInv ==
    /\ SetsInv
    /\ wrong = "past the row" => cursor.reused
    /\ asked.who \in Selects => IsSeq(asked.before) /\ asked.answer \in Answers
    /\ user \in Selects => Reading
    /\ user \notin Selects /\ wrong = "no" => Selection

\* to_model stops within a row that has a cell for each field.
LEMMA RowRead ==
    ASSUME cursor \in CursorType, NEW row, Len(row) = Len(cursor.fields)
    PROVE  Sets!ReadError(row) # "past the row"
  <1> DEFINE bad == {i \in Sets!Reads(cursor.fields, Members) : i > Len(row) \/ row[i] = Null}
  <1>1. cursor.fields \in Seq(Names)
    BY DEF CursorType
  <1>2. bad \subseteq 1..Len(row) /\ Len(row) \in Nat
    BY <1>1 DEF Sets!Reads
  <1>3. Sets!ReadError(row) = IF bad = {} THEN "no"
           ELSE IF \E i \in bad : i <= Len(row) /\ \A j \in bad : i <= j THEN "null cell"
           ELSE "past the row"
    BY DEF Sets!ReadError
  <1> HIDE DEF bad
  <1>4. CASE bad = {}
    BY <1>3, <1>4
  <1>5. CASE bad # {}
    <2>1. bad \subseteq Nat
      BY <1>2
    <2>2. PICK i \in bad : \A j \in bad : ~(j < i)
      BY <1>5, <2>1, LeastNatural
    <2>3. i <= Len(row) /\ \A j \in bad : i <= j
      BY <1>2, <2>1, <2>2
    <2>4. Sets!ReadError(row) = "null cell"
      BY <1>3, <1>5, <2>3
    <2> QED
      BY <2>4
  <1> QED
    BY <1>4, <1>5

\* Of two columns of one name the last is a member's value.
LEMMA ModelIsRow ==
    ASSUME cursor \in CursorType, NEW row
    PROVE  Sets!IsRow(Sets!to_model(row), cursor.fields, row)
  <1> DEFINE names == cursor.fields
             seen == Sets!Reads(names, Members)
  <1> SUFFICES ASSUME NEW i \in seen, names[i] \in Members,
                      \A j \in seen : names[j] = names[i] => j <= i
               PROVE  Sets!to_model(row)[names[i]] = row[i]
    BY DEF Sets!IsRow
  <1> DEFINE at == {j \in seen : names[j] = names[i]}
             Greatest(k) == \A j \in at : j <= k
  <1>1. seen \subseteq Nat
    <2>1. names \in Seq(Names)
      BY DEF CursorType
    <2> QED
      BY <2>1 DEF Sets!Reads
  <1>2. i \in at /\ Greatest(i)
    OBVIOUS
  <1>3. Sets!to_model(row)[names[i]] = row[CHOOSE k \in at : Greatest(k)]
    BY <1>2 DEF Sets!to_model
  <1>4. \A k \in at : Greatest(k) => k = i
    <2> SUFFICES ASSUME NEW k \in at, Greatest(k)
                 PROVE  k = i
      OBVIOUS
    <2>1. k <= i /\ i <= k /\ k \in Nat /\ i \in Nat
      BY <1>1, <1>2
    <2> QED
      BY <2>1
  <1> HIDE DEF at, Greatest
  <1>5. (CHOOSE k \in at : Greatest(k)) = i
    BY <1>2, <1>4
  <1> QED
    BY <1>3, <1>5

LEMMA ModelsInit == Sets!Idle => ModelsInv
  <1> SUFFICES ASSUME Sets!Idle
               PROVE  ModelsInv
    OBVIOUS
  <1>1. user = "nobody" /\ wrong = "no" /\ asked.who = "nobody"
    BY DEF Sets!Idle
  <1>2. Selection
    BY <1>1 DEF Selection, Selects
  <1> QED
    BY <1>1, <1>2, SetsInit DEF ModelsInv, Selects

\* An application's calls leave what was selected alone.
LEMMA AppSteps ==
    ASSUME Sets!RowsFit, ModelsInv, SetsInv', wrong = "no",
           user \notin Selects, user' \notin Selects, UNCHANGED <<models, asked, ret>>,
           wrong' = "past the row" => cursor'.reused
    PROVE  ModelsInv'
  <1>1. Selection
    BY DEF ModelsInv
  <1>2. Selection'
    BY <1>1 DEF Selection
  <1> QED
    BY <1>2 DEF ModelsInv

LEMMA ReadRowModels ==
    ASSUME Sets!RowsFit, ModelsInv, SetsInv', wrong = "no", Sets!ReadRow
    PROVE  ModelsInv'
  <1> DEFINE row == stored[cursor.res].rows[cursor.row]
  <1>1. /\ user = "app" /\ cursor.row > 0 /\ wrong' = Sets!ReadError(row)
        /\ UNCHANGED <<stored, cursor, user, models, asked, ret>>
    BY DEF Sets!ReadRow
  <1>2. /\ Points(stored, cursor) /\ cursor.res # 0 /\ cursor \in CursorType
        /\ stored \in Seq(SetType)
    BY <1>1 DEF ModelsInv, SetsInv, Sound
  <1>3. cursor.res \in DOMAIN stored /\ stored[cursor.res] \in SetType /\ cursor.row \in Nat
    BY <1>2, SetFacts DEF Points, CursorType
  <1>4. stored[cursor.res].rows \in Seq(Seq(Cells)) /\ cursor.row <= Len(stored[cursor.res].rows)
    BY <1>2, <1>3 DEF Points, SetType
  <1>5. cursor.row \in DOMAIN stored[cursor.res].rows
    BY <1>1, <1>3, <1>4
  <1>6. ~cursor.reused => Len(row) = Len(cursor.fields)
    BY <1>2, <1>5 DEF Points
  <1> HIDE DEF row
  <1>7. wrong' = "past the row" => cursor.reused
    BY <1>1, <1>2, <1>6, RowRead
  <1> QED
    BY <1>1, <1>7, AppSteps DEF Selects

LEMMA StartModels ==
    ASSUME Sets!RowsFit, ModelsInv, SetsInv', wrong = "no", NEW answer \in Answers,
           NEW who \in Selects, NEW before, IsSeq(before), Sets!Start(who, before, answer)
    PROVE  ModelsInv'
  <1> DEFINE got == Sets!Selected(answer, Sets!Fresh)
             d == answer.data
             n == Len(before)
  <1>1. /\ user = "nobody" /\ wrong' = wrong /\ models' = before
        /\ asked' = [who |-> who, before |-> before, answer |-> answer]
    BY DEF Sets!Start
  <1>2. asked'.who = who /\ asked'.before = before /\ asked'.answer = answer
    BY <1>1
  <1>3. stored \in Seq(SetType)
    BY DEF ModelsInv, SetsInv, Sound
  <1>4. Sound(stored, Sets!Fresh) /\ Sets!Fresh.fields = <<>> /\ Sets!Fresh.res = 0
        /\ ~Sets!Fresh.reused
    BY <1>3, FreshFacts
  <1>5. /\ ~Sets!Failed(answer) =>
              /\ got.sets = Append(stored, [rows |-> d.rows, read |-> 0, freed |-> 0])
              /\ got.cur.fields = <<>> \o d.names /\ got.cur.res = Len(stored) + 1
              /\ ~got.cur.reused /\ got.count = Len(d.rows)
        /\ Sets!Failed(answer) => /\ got.count = -1 /\ got.cur.res = 0 /\ ~got.cur.reused
    BY <1>4, SelectedFacts, ZenonT(20)
  <1>6. ~Sets!Failed(answer) => d.names \in Seq(Names) /\ d.rows \in Seq(Seq(Cells))
    BY DEF Sets!Failed, Sets!RowsFit
  <1> HIDE DEF got, d
  <1>7. CASE Sets!HandedOut(got.count)
    <2>1. stored' = got.sets /\ cursor' = got.cur /\ user' = who
      BY <1>7 DEF Sets!Start, got
    <2>2. ~cursor'.reused
      BY <1>5, <2>1
    <2>3. ASSUME ~Sets!Failed(answer)
          PROVE  /\ cursor'.res # 0 /\ cursor'.fields = d.names
                 /\ stored'[cursor'.res].rows = d.rows /\ stored'[cursor'.res].read = 0
                 /\ d.rows # <<>> /\ 0 <= Len(d.rows)
      <3>1. cursor'.fields = d.names
        BY <1>5, <1>6, <2>1, <2>3
      <3>2. d.rows # <<>> /\ 0 <= Len(d.rows)
        BY <1>5, <1>6, <1>7, <2>3 DEF Sets!HandedOut
      <3> DEFINE set == [rows |-> d.rows, read |-> 0, freed |-> 0]
      <3>3. set.rows = d.rows /\ set.read = 0
        OBVIOUS
      <3> HIDE DEF set
      <3>4. cursor'.res = Len(stored) + 1 /\ stored'[cursor'.res] = set /\ Len(stored) \in Nat
        BY <1>3, <1>5, <2>1, <2>3 DEF set
      <3> QED
        BY <3>1, <3>2, <3>3, <3>4
    <2>4. \A k : k = 0 => Taken(k)'
      <3>1. Len(models') = Len(asked'.before) + 0
        BY <1>1, <1>2 DEF IsSeq
      <3> QED
        BY <1>1, <1>2, <3>1 DEF Taken, IsSeq
    <2>5. Reading'
      BY <1>1, <1>2, <1>5, <2>1, <2>2, <2>3, <2>4 DEF Reading, d
    <2> QED
      BY <1>1, <1>2, <2>1, <2>5 DEF ModelsInv
  <1>8. CASE ~Sets!HandedOut(got.count)
    <2>1. ret' = -1 /\ user' = user /\ cursor' = cursor
      BY <1>8 DEF Sets!Start, got
    <2>2. ~Sets!Failed(answer) /\ d.rows = <<>>
      BY <1>5, <1>6, <1>8 DEF Sets!HandedOut
    <2>3. Selection'
      BY <1>1, <1>2, <2>1, <2>2 DEF Selection, d
    <2> QED
      BY <1>1, <1>2, <2>1, <2>3 DEF ModelsInv, Selects
  <1> QED
    BY <1>7, <1>8

\* A cursor that reads an answer, row by row.
LEMMA ReadingFacts ==
    ASSUME Sets!RowsFit, ModelsInv, user \in Selects, ~Sets!Failed(asked.answer)
    PROVE  LET r == cursor.res
               d == asked.answer.data
           IN  /\ asked.who = user /\ IsSeq(asked.before)
               /\ ~cursor.reused /\ cursor \in CursorType
               /\ stored \in Seq(SetType) /\ r \in DOMAIN stored /\ r # 0
               /\ stored[r].rows = d.rows /\ cursor.fields = d.names
               /\ cursor.fields # <<>>
               /\ d.rows \in Seq(Seq(Cells)) /\ d.rows # <<>>
               /\ \A k \in DOMAIN d.rows : Len(d.rows[k]) = Len(cursor.fields)
               /\ stored[r].read \in Nat /\ stored[r].read <= Len(d.rows)
               /\ user = "one" => stored[r].read = 0
               /\ wrong = "no" => Taken(stored[r].read)
  <1> DEFINE r == cursor.res
             d == asked.answer.data
  <1>1. Reading /\ SetsInv /\ asked.who = user /\ IsSeq(asked.before) /\ asked.answer \in Answers
    BY DEF ModelsInv, Reading
  <1>2. /\ ~cursor.reused /\ r # 0 /\ cursor.fields = d.names /\ stored[r].rows = d.rows
        /\ d.rows # <<>> /\ stored[r].read <= Len(d.rows) /\ (user = "one" => stored[r].read = 0)
        /\ (wrong = "no" => Taken(stored[r].read))
    BY <1>1 DEF Reading
  <1>3. /\ d.names # <<>> /\ d.rows \in Seq(Seq(Cells))
        /\ \A k \in DOMAIN d.rows : Len(d.rows[k]) = Len(d.names)
    BY <1>1 DEF Sets!RowsFit, Sets!Failed
  <1>4. Points(stored, cursor) /\ stored \in Seq(SetType) /\ cursor \in CursorType
    BY <1>1 DEF SetsInv, Sound
  <1>5. r \in DOMAIN stored
    BY <1>2, <1>4 DEF Points
  <1>6. stored[r].read \in Nat
    <2>1. stored[r] \in SetType
      BY <1>4, <1>5
    <2> QED
      BY <2>1 DEF SetType
  <1> HIDE DEF d, r
  <1> QED
    BY <1>1, <1>2, <1>3, <1>4, <1>5, <1>6 DEF d, r

LEMMA ListRowModels ==
    ASSUME Sets!RowsFit, ModelsInv, SetsInv', wrong = "no", Sets!ListRow
    PROVE  ModelsInv'
  <1> DEFINE r == cursor.res
             d == asked.answer.data
             k == stored[r].read
             n == Len(asked.before)
             row == Sets!Row
  <1>1. /\ user = "list" /\ user' = user /\ asked' = asked /\ Sets!TakeRow
        /\ wrong' = Sets!ReadError(row)
        /\ models' = IF wrong' = "no" THEN Append(models, Sets!to_model(row)) ELSE models
    BY DEF Sets!ListRow
  <1>2. user \in Selects /\ Sound(stored, cursor)
    BY <1>1 DEF Selects, ModelsInv, SetsInv
  <1>3. ~Sets!Failed(asked.answer)
    BY <1>1, <1>2 DEF ModelsInv, Reading, Sets!TakeRow, Sets!HasNext
  <1>4. /\ asked.who = user /\ ~cursor.reused /\ cursor \in CursorType /\ r # 0
        /\ stored[r].rows = d.rows /\ cursor.fields = d.names
        /\ d.rows \in Seq(Seq(Cells)) /\ d.rows # <<>>
        /\ \A j \in DOMAIN d.rows : Len(d.rows[j]) = Len(cursor.fields)
        /\ k \in Nat /\ Taken(k) /\ IsSeq(asked.before)
    BY <1>2, <1>3, ReadingFacts
  <1>5. /\ cursor'.res = r /\ cursor'.fields = cursor.fields /\ cursor'.reused = cursor.reused
        /\ stored'[r].rows = d.rows /\ stored'[r].read = k + 1 /\ k < Len(d.rows)
    BY <1>1, <1>2, <1>4, TakeRowFacts
  <1>6. row = d.rows[k + 1]
    BY <1>4 DEF Sets!Row
  <1> HIDE DEF row, k, d, r
  <1>7. k + 1 \in DOMAIN d.rows /\ k + 1 <= Len(d.rows) /\ Len(row) = Len(cursor.fields)
    BY <1>4, <1>5, <1>6
  <1>8. wrong' # "past the row"
    BY <1>1, <1>4, <1>7, RowRead
  <1>9. ASSUME wrong' = "no", NEW j, j = k + 1
        PROVE  Taken(j)'
    <2> DEFINE m == Sets!to_model(row)
    <2>1. models' = Append(models, m)
      BY <1>1, <1>9
    <2>2. Sets!IsRow(m, d.names, d.rows[k + 1])
      BY <1>4, <1>6, ModelIsRow
    <2> HIDE DEF m
    <2>3. /\ IsSeq(models) /\ Len(models) = n + k /\ n \in Nat
          /\ \A i \in 1..n : models[i] = asked.before[i]
          /\ \A i \in 1..k : Sets!IsRow(models[n + i], d.names, d.rows[i])
      BY <1>4 DEF Taken, IsSeq, d
    <2> HIDE DEF n
    <2>4. PICK S : models \in Seq(S)
      BY <2>3 DEF IsSeq
    <2> DEFINE T == S \cup {m}
    <2>5. models \in Seq(T) /\ m \in T
      BY <2>4
    <2> HIDE DEF T
    <2>6. /\ models' \in Seq(T) /\ Len(models') = n + (k + 1)
          /\ models'[n + (k + 1)] = m
          /\ \A i \in 1..(n + k) : models'[i] = models[i]
      BY <1>4, <2>1, <2>3, <2>5
    <2>7. \A i \in 1..n : models'[i] = asked'.before[i]
      BY <1>1, <1>4, <2>3, <2>6
    <2>8. ASSUME NEW i \in 1..(k + 1)
          PROVE  Sets!IsRow(models'[n + i], d.names, d.rows[i])
      <3>1. CASE i = k + 1
        BY <2>2, <2>6, <3>1
      <3>2. CASE i # k + 1
        <4>1. i \in 1..k /\ n + i \in 1..(n + k)
          BY <1>4, <2>3, <3>2
        <4> QED
          BY <2>3, <2>6, <4>1
      <3> QED
        BY <3>1, <3>2
    <2> QED
      BY <1>1, <1>9, <2>6, <2>7, <2>8 DEF Taken, IsSeq, n, d
  <1>10. Reading'
    BY <1>1, <1>3, <1>4, <1>5, <1>7, <1>9 DEF Reading, d
  <1> QED
    BY <1>1, <1>2, <1>8, <1>10 DEF ModelsInv

LEMMA ListEndModels ==
    ASSUME Sets!RowsFit, ModelsInv, SetsInv', wrong = "no", Sets!ListEnd
    PROVE  ModelsInv'
  <1> DEFINE d == asked.answer.data
             n == Len(asked.before)
  <1>1. /\ user = "list" /\ user' = "nobody" /\ UNCHANGED <<models, asked, wrong>>
        /\ ret' = Len(models) /\ ~Sets!HasNext
    BY DEF Sets!ListEnd, Sets!Finish
  <1>2. user \in Selects /\ asked.who = "list" /\ IsSeq(asked.before)
    BY <1>1 DEF ModelsInv, Reading, Selects
  <1>3. CASE Sets!Failed(asked.answer)
    <2>1. models = asked.before
      BY <1>2, <1>3 DEF ModelsInv, Reading
    <2> QED
      BY <1>1, <1>2, <1>3, <2>1 DEF Selection, ModelsInv, Selects
  <1>4. CASE ~Sets!Failed(asked.answer)
    <2>1. /\ d.rows \in Seq(Seq(Cells)) /\ d.rows # <<>> /\ Taken(stored[cursor.res].read)
          /\ stored[cursor.res].read = Len(d.rows)
      <3> DEFINE k == stored[cursor.res].read
      <3>1. /\ d.rows \in Seq(Seq(Cells)) /\ d.rows # <<>> /\ Taken(k)
            /\ cursor.res # 0 /\ cursor.fields # <<>> /\ stored[cursor.res].rows = d.rows
            /\ k \in Nat /\ k <= Len(d.rows)
        BY <1>2, <1>4, ReadingFacts
      <3>2. ~(k < Len(d.rows))
        BY <1>1, <3>1 DEF Sets!HasNext
      <3> QED
        BY <3>1, <3>2
    <2> HIDE DEF d
    <2>2. Taken(Len(d.rows)) /\ Len(d.rows) \in Nat /\ Len(d.rows) > 0 /\ DOMAIN d.rows = 1..Len(d.rows)
      BY <2>1
    <2>3. /\ IsSeq(models) /\ Len(models) = n + Len(d.rows) /\ n \in Nat
          /\ \A i \in 1..n : models[i] = asked.before[i]
          /\ \A i \in 1..Len(d.rows) : Sets!IsRow(models[n + i], d.names, d.rows[i])
      <3>1. n \in Nat
        BY <1>2 DEF IsSeq
      <3> QED
        BY <2>2, <3>1 DEF Taken, d
    <2>4. SubSeq(models, 1, n) = SubSeq(asked.before, 1, n)
      <3>1. n \in Nat /\ Len(asked.before) = n
        BY <2>3
      <3>2. Len(models) = n + Len(d.rows) /\ Len(d.rows) \in Nat
        BY <2>2, <2>3
      <3> HIDE DEF n
      <3>3. n <= Len(models) /\ n <= Len(asked.before)
        BY <3>1, <3>2
      <3> QED
        BY <1>2, <2>3, <3>1, <3>3, StartsEqual
    <2>5. /\ d.rows # <<>> /\ Len(models) >= 1
          /\ \A k \in DOMAIN d.rows : Sets!IsRow(models[n + k], d.names, d.rows[k])
      <3>1. Len(models) = n + Len(d.rows) /\ Len(d.rows) \in Nat /\ n \in Nat /\ Len(d.rows) > 0
        BY <2>2, <2>3
      <3> HIDE DEF n
      <3>2. Len(models) >= 1
        BY <3>1
      <3>3. \A k \in DOMAIN d.rows : Sets!IsRow(models[n + k], d.names, d.rows[k])
        BY <2>2, <2>3
      <3> QED
        BY <2>1, <3>2, <3>3
    <2>6. Selection'
      <3>1. asked'.who = "list" /\ ~Sets!Failed(asked'.answer) /\ models' = models
            /\ asked'.answer.data = d /\ asked'.before = asked.before
            /\ ret' = Len(models)
        BY <1>1, <1>2, <1>4 DEF d
      <3> QED
        BY <2>3, <2>4, <2>5, <3>1 DEF Selection
    <2> QED
      BY <1>1, <1>2, <2>6 DEF ModelsInv, Selects
  <1> QED
    BY <1>3, <1>4

LEMMA SelectOneModels ==
    ASSUME Sets!RowsFit, ModelsInv, SetsInv', wrong = "no", Sets!SelectOne
    PROVE  ModelsInv'
  <1> DEFINE d == asked.answer.data
             row == Sets!Row
  <1>1. /\ user = "one" /\ user' = "nobody" /\ asked' = asked /\ ret' = 1
        /\ wrong' = IF Sets!HasNext THEN Sets!ReadError(row) ELSE "no"
        /\ models' = IF Sets!HasNext /\ wrong' = "no" THEN <<Sets!to_model(row)>> ELSE models
    BY DEF Sets!SelectOne, Sets!Finish
  <1>2. user \in Selects /\ asked.who = "one" /\ IsSeq(asked.before)
    BY <1>1 DEF ModelsInv, Reading, Selects
  <1>3. CASE Sets!Failed(asked.answer)
    <2>1. models = asked.before /\ cursor.res = 0
      BY <1>2, <1>3 DEF ModelsInv, Reading
    <2>2. wrong' = "no" /\ models' = asked.before
      BY <1>1, <2>1 DEF Sets!HasNext
    <2>3. SubSeq(<<>>, 1, 0) = <<>>
      OBVIOUS
    <2>4. Selection'
      BY <1>1, <1>2, <1>3, <2>2, <2>3 DEF Selection
    <2> QED
      BY <1>1, <1>2, <2>2, <2>4 DEF ModelsInv, Selects
  <1>4. CASE ~Sets!Failed(asked.answer)
    <2>1. /\ d.rows \in Seq(Seq(Cells)) /\ d.rows # <<>> /\ stored[cursor.res].read = 0
          /\ cursor.res # 0 /\ cursor.fields # <<>> /\ stored[cursor.res].rows = d.rows
          /\ cursor \in CursorType /\ cursor.fields = d.names
          /\ \A j \in DOMAIN d.rows : Len(d.rows[j]) = Len(cursor.fields)
      BY <1>1, <1>2, <1>4, ReadingFacts
    <2>2. row = d.rows[1]
      BY <2>1 DEF Sets!Row
    <2> HIDE DEF d
    <2>3. 0 < Len(d.rows) /\ 1 \in DOMAIN d.rows
      BY <2>1
    <2>4. Sets!HasNext
      BY <2>1, <2>3 DEF Sets!HasNext
    <2> HIDE DEF row
    <2>5. wrong' # "past the row"
      BY <1>1, <2>1, <2>2, <2>3, <2>4, RowRead
    <2>6. ASSUME wrong' = "no"
          PROVE  Selection'
      <3> DEFINE m == Sets!to_model(row)
                 first == SubSeq(d.rows, 1, 1)
      <3>1. models' = <<m>> /\ Sets!IsRow(m, d.names, d.rows[1])
        BY <1>1, <2>1, <2>2, <2>4, <2>6, ModelIsRow
      <3> HIDE DEF m
      <3>2. first \in Seq(Seq(Cells)) /\ Len(first) = 1 /\ first[1] = d.rows[1] /\ DOMAIN first = {1}
        BY <2>1, <2>3
      <3> HIDE DEF first
      <3>3. /\ Len(models') = 1 /\ models'[1] = m /\ IsSeq(models')
            /\ first # <<>>
        <4>1. first # <<>>
          BY <3>2, SMTT(20)
        <4>2. Len(models') = 1 /\ models'[1] = m
          BY <3>1
        <4>3. models' \in Seq({m})
          BY <3>1
        <4> QED
          BY <4>1, <4>2, <4>3 DEF IsSeq
      <3>4. SubSeq(models', 1, 0) = SubSeq(asked.before, 1, 0)
        <4>1. 0 <= Len(asked.before)
          BY <1>2 DEF IsSeq
        <4> QED
          BY <1>2, <3>3, <4>1, StartsEqual
      <3>5. \A k \in DOMAIN first : Sets!IsRow(models'[0 + k], d.names, first[k])
        BY <3>1, <3>2, <3>3
      <3> QED
        <4>1. asked'.who = "one" /\ ~Sets!Failed(asked'.answer) /\ ret' = 1
              /\ asked'.answer.data = d /\ asked'.before = asked.before
          BY <1>1, <1>2, <1>4 DEF d
        <4>2. first = SubSeq(d.rows, 1, IF d.rows = <<>> THEN 0 ELSE 1) /\ Len(first) = 1
          BY <2>1, <3>2 DEF first
        <4>3. Len(models') = 0 + Len(first) /\ first # <<>>
          BY <3>3, <4>2
        <4> QED
          BY <3>4, <3>5, <4>1, <4>2, <4>3 DEF Selection
    <2> QED
      BY <1>1, <1>2, <2>5, <2>6 DEF ModelsInv, Selects
  <1> QED
    BY <1>3, <1>4

LEMMA ModelsStep ==
    ASSUME Sets!RowsFit, ModelsInv, Sets!Next
    PROVE  ModelsInv'
  <1>1. wrong = "no" /\ SetsInv /\ SetsInv'
    BY SetsStep DEF ModelsInv, Sets!Next
  <1>2. CASE Sets!Declare \/ Sets!next \/ Sets!Destroy
    <2>1. /\ user \in {"nobody", "app"} /\ user' \in {"nobody", "app"}
          /\ UNCHANGED <<models, asked, ret, wrong>>
      BY <1>2 DEF Sets!Declare, Sets!next, Sets!Destroy
    <2> QED
      BY <1>1, <2>1, AppSteps DEF Selects
  <1>3. CASE Sets!ReadRow
    BY <1>1, <1>3, ReadRowModels
  <1>4. CASE Sets!Refuse
    <2>1. /\ user = "nobody" /\ user' = "nobody" /\ wrong' = "no" /\ asked'.who = "nobody"
      BY <1>1, <1>4 DEF Sets!Refuse
    <2>2. Selection'
      BY <2>1 DEF Selection, Selects
    <2> QED
      BY <1>1, <2>1, <2>2 DEF ModelsInv, Selects
  <1>5. CASE Sets!ListRow
    BY <1>1, <1>5, ListRowModels
  <1>6. CASE Sets!ListEnd
    BY <1>1, <1>6, ListEndModels
  <1>7. CASE Sets!SelectOne
    BY <1>1, <1>7, SelectOneModels
  <1>8. ASSUME NEW answer \in Answers, Sets!select(answer)
        PROVE  ModelsInv'
    <2>1. user = "app" /\ UNCHANGED <<user, models, asked, ret, wrong>>
      BY <1>8 DEF Sets!select
    <2> QED
      BY <1>1, <2>1, AppSteps DEF Selects
  <1>9. IsSeq(<<Sets!EmptyModel>>) /\ IsSeq(<<>>)
    <2>1. <<Sets!EmptyModel>> \in Seq({Sets!EmptyModel}) /\ <<>> \in Seq({})
      OBVIOUS
    <2> QED
      BY <2>1 DEF IsSeq
  <1>10. ASSUME NEW answer \in Answers, Sets!Start("one", <<Sets!EmptyModel>>, answer)
         PROVE  ModelsInv'
    BY <1>1, <1>9, <1>10, StartModels DEF Selects
  <1>11. ASSUME NEW answer \in Answers, NEW before \in {<<>>, <<Sets!EmptyModel>>},
                Sets!Start("list", before, answer)
         PROVE  ModelsInv'
    BY <1>1, <1>9, <1>11, StartModels DEF Selects
  <1> QED
    BY <1>2, <1>3, <1>4, <1>5, <1>6, <1>7, <1>8, <1>10, <1>11 DEF Sets!Next

\* For any answers whose rows fit their columns: what a list select has appended
\* is the rows, one model each and in order, what it returns is the length of the
\* list, what a single select has read is the first row; and a row is only ever
\* read past its end by an application that used its MyResult twice
\* (select_impl, select_list_impl and to_model, include/sql_builder.h).
THEOREM SelectsReadRows == PartsSpec => []ModelsAreRows
  <1>1. ModelsInv /\ [Sets!Next]_Sets!setVars => ModelsInv'
    <2> SUFFICES ASSUME ModelsInv, UNCHANGED Sets!setVars
                 PROVE  ModelsInv'
      BY ModelsStep, PartsAssumption
    <2>1. UNCHANGED <<stored, cursor, user, models, asked, ret, wrong>>
      BY DEF Sets!setVars
    <2> QED
      BY <2>1 DEF ModelsInv, SetsInv, Reading, Selection, Taken
  <1>2. ModelsInv => ModelsAreRows
    BY DEF ModelsInv, Selection, Selects, ModelsAreRows, Sets!ModelsAreRows
  <1>3. PartsInit => ModelsInv
    BY ModelsInit DEF PartsInit
  <1>4. [PartsNext]_allVars => [Sets!Next]_Sets!setVars
    BY PartsSteps
  <1> QED
    BY <1>1, <1>2, <1>3, <1>4, PTL DEF PartsSpec

-----------------------------------------------------------------------------
(***************************************************************************)
(* The scanner of SQL templates, for any characters that are no tokens and *)
(* templates of any length.                                                *)
(***************************************************************************)

AnyChar == Chars \cup Scanner!Tokens

\* Up to k every token is part of a whole field.
Clean(s, k) ==
    \A j \in 1..k : s[j] \in Chars \/
        \E a \in 1..j : \E b \in j..k : Scanner!FieldAt(s, a, b)

LEMMA CharFacts ==
    ASSUME Scanner!PlainIsNoToken
    PROVE  /\ Scanner!Hash \notin Chars /\ Scanner!Begins \cap Chars = {} /\ Scanner!Ends \cap Chars = {}
           /\ Scanner!Hash \notin Scanner!Begins /\ Scanner!Hash \notin Scanner!Ends
           /\ Scanner!Begins \cap Scanner!Ends = {}
           /\ \A b \in Scanner!Begins : Scanner!End(b) \in Scanner!Ends
           /\ Scanner!Tokens = {Scanner!Hash} \cup Scanner!Begins \cup Scanner!Ends
  BY DEF Scanner!PlainIsNoToken, Scanner!Hash, Scanner!Begins, Scanner!Ends, Scanner!Tokens, Scanner!End

LEMMA CleanIsWellFormed ==
    ASSUME NEW s \in Seq(AnyChar)
    PROVE  Scanner!WellFormed(s) <=> Clean(s, Len(s))
  BY DEF Scanner!WellFormed, Clean

LEMMA FieldChars ==
    ASSUME Scanner!PlainIsNoToken, NEW s, NEW a \in Nat, NEW b \in Nat, Scanner!FieldAt(s, a, b)
    PROVE  /\ a + 3 <= b
           /\ s[a] = Scanner!Hash /\ s[a + 1] \in Scanner!Begins
           /\ s[b] = Scanner!End(s[a + 1]) /\ s[b] \in Scanner!Ends
           /\ \A j \in a + 2..b - 1 : s[j] \in Chars
           /\ \A j \in a + 1..b : s[j] # Scanner!Hash
  <1>1. /\ a + 3 <= b
        /\ s[a] = Scanner!Hash /\ s[a + 1] \in Scanner!Begins /\ s[b] = Scanner!End(s[a + 1])
        /\ \A j \in a + 2..b - 1 : s[j] \in Chars
    BY DEF Scanner!FieldAt, Scanner!AllIn
  <1>2. s[b] \in Scanner!Ends
    BY <1>1, CharFacts
  <1>3. ASSUME NEW j \in a + 1..b
        PROVE  s[j] # Scanner!Hash
    <2>1. j = a + 1 \/ j = b \/ j \in a + 2..b - 1
      OBVIOUS
    <2> QED
      BY <1>1, <1>2, <2>1, CharFacts
  <1> QED
    BY <1>1, <1>2, <1>3

\* Two fields that begin together end together.
LEMMA OneEnd ==
    ASSUME Scanner!PlainIsNoToken, NEW s, NEW a \in Nat, NEW b \in Nat, NEW d \in Nat,
           Scanner!FieldAt(s, a, b), Scanner!FieldAt(s, a, d)
    PROVE  d <= b
  <1> SUFFICES ASSUME b < d PROVE FALSE
    OBVIOUS
  <1>1. b \in a + 2..d - 1
    BY FieldChars
  <1>2. s[b] \in Chars /\ s[b] \in Scanner!Ends
    BY <1>1, FieldChars
  <1> QED
    BY <1>2, CharFacts

\* A field that begins in what is clean ends in it.
LEMMA FieldInside ==
    ASSUME Scanner!PlainIsNoToken, NEW s, NEW k \in Nat, Clean(s, k),
           NEW a \in 1..k, NEW b \in Nat, Scanner!FieldAt(s, a, b)
    PROVE  b <= k
  <1>1. s[a] = Scanner!Hash
    BY FieldChars
  <1>2. s[a] \notin Chars
    BY <1>1, CharFacts
  <1>3. PICK x \in 1..a : \E y \in a..k : Scanner!FieldAt(s, x, y)
    BY <1>2 DEF Clean
  <1>4. PICK y \in a..k : Scanner!FieldAt(s, x, y)
    BY <1>3
  <1>5. x = a
    <2>1. \A j \in x + 1..y : s[j] # Scanner!Hash
      BY <1>4, FieldChars
    <2> QED
      BY <1>1, <2>1
  <1>6. b <= y
    BY <1>4, <1>5, OneEnd
  <1> QED
    BY <1>6

LEMMA CleanByPlain ==
    ASSUME NEW s, NEW k \in Nat, Clean(s, k), s[k + 1] \in Chars
    PROVE  Clean(s, k + 1)
  <1> SUFFICES ASSUME NEW j \in 1..k + 1, s[j] \notin Chars
               PROVE  \E a \in 1..j : \E b \in j..k + 1 : Scanner!FieldAt(s, a, b)
    BY DEF Clean
  <1>1. j \in 1..k
    OBVIOUS
  <1>2. PICK a \in 1..j : \E b \in j..k : Scanner!FieldAt(s, a, b)
    BY <1>1 DEF Clean
  <1>3. PICK b \in j..k : Scanner!FieldAt(s, a, b)
    BY <1>2
  <1>4. b \in j..k + 1
    OBVIOUS
  <1> QED
    BY <1>3, <1>4

LEMMA CleanByField ==
    ASSUME NEW s, NEW k \in Nat, Clean(s, k), NEW b \in Nat, b > k, Scanner!FieldAt(s, k + 1, b)
    PROVE  Clean(s, b)
  <1> SUFFICES ASSUME NEW j \in 1..b, s[j] \notin Chars
               PROVE  \E x \in 1..j : \E y \in j..b : Scanner!FieldAt(s, x, y)
    BY DEF Clean
  <1>1. CASE j <= k
    <2>1. PICK x \in 1..j : \E y \in j..k : Scanner!FieldAt(s, x, y)
      BY <1>1 DEF Clean
    <2>2. PICK y \in j..k : Scanner!FieldAt(s, x, y)
      BY <2>1
    <2>3. y \in j..b
      OBVIOUS
    <2> QED
      BY <2>2, <2>3
  <1>2. CASE j > k
    <2>1. k + 1 \in 1..j /\ b \in j..b
      BY <1>2
    <2> QED
      BY <2>1
  <1> QED
    BY <1>1, <1>2

Agree(s, t, k) == \A j \in 1..k : s[j] = t[j]

LEMMA FieldAgrees ==
    ASSUME NEW s, NEW t, NEW k \in Nat, Agree(s, t, k),
           NEW a \in Nat \ {0}, NEW b \in Nat, b <= k, Scanner!FieldAt(s, a, b)
    PROVE  Scanner!FieldAt(t, a, b)
  <1>1. a + 3 <= b /\ s[a] = Scanner!Hash /\ s[a + 1] \in Scanner!Begins
        /\ s[b] = Scanner!End(s[a + 1]) /\ \A j \in a + 2..b - 1 : s[j] \in Chars
    BY DEF Scanner!FieldAt, Scanner!AllIn
  <1>2. s[a] = t[a] /\ s[a + 1] = t[a + 1] /\ s[b] = t[b] /\ \A j \in a + 2..b - 1 : s[j] = t[j]
    <2>1. a \in 1..k /\ a + 1 \in 1..k /\ b \in 1..k /\ \A j \in a + 2..b - 1 : j \in 1..k
      BY <1>1
    <2> QED
      BY <2>1 DEF Agree
  <1> QED
    BY <1>1, <1>2 DEF Scanner!FieldAt, Scanner!AllIn

LEMMA CleanAgrees ==
    ASSUME NEW s, NEW t, NEW k \in Nat, Agree(s, t, k), Clean(s, k)
    PROVE  Clean(t, k)
  <1> SUFFICES ASSUME NEW j \in 1..k, t[j] \notin Chars
               PROVE  \E x \in 1..j : \E y \in j..k : Scanner!FieldAt(t, x, y)
    BY DEF Clean
  <1>1. s[j] \notin Chars
    BY DEF Agree
  <1>2. PICK x \in 1..j : \E y \in j..k : Scanner!FieldAt(s, x, y)
    BY <1>1 DEF Clean
  <1>3. PICK y \in j..k : Scanner!FieldAt(s, x, y)
    BY <1>2
  <1>4. Scanner!FieldAt(t, x, y)
    BY <1>3, FieldAgrees
  <1> QED
    BY <1>4

\* After what is clean no token but a hash can be part of a template,
LEMMA NoFieldNoToken ==
    ASSUME Scanner!PlainIsNoToken, NEW s \in Seq(AnyChar), NEW k \in Nat, Clean(s, k), k < Len(s),
           s[k + 1] \in Scanner!Begins \cup Scanner!Ends
    PROVE  ~Scanner!WellFormed(s)
  <1> SUFFICES ASSUME Scanner!WellFormed(s) PROVE FALSE
    OBVIOUS
  <1>1. Clean(s, Len(s))
    BY CleanIsWellFormed
  <1>2. k + 1 \in 1..Len(s) /\ s[k + 1] \notin Chars /\ s[k + 1] # Scanner!Hash
    BY CharFacts
  <1>3. PICK a \in 1..k + 1 : \E b \in k + 1..Len(s) : Scanner!FieldAt(s, a, b)
    BY <1>1, <1>2 DEF Clean
  <1>4. PICK b \in k + 1..Len(s) : Scanner!FieldAt(s, a, b)
    BY <1>3
  <1>5. a \in 1..k
    BY <1>2, <1>4, FieldChars
  <1> QED
    BY <1>4, <1>5, FieldInside

\* and a hash opens a field.
LEMMA HashOpensField ==
    ASSUME Scanner!PlainIsNoToken, NEW s \in Seq(AnyChar), NEW k \in Nat, Clean(s, k), k < Len(s),
           s[k + 1] = Scanner!Hash, Scanner!WellFormed(s)
    PROVE  \E b \in Nat : b <= Len(s) /\ Scanner!FieldAt(s, k + 1, b)
  <1>1. Clean(s, Len(s))
    BY CleanIsWellFormed
  <1>2. k + 1 \in 1..Len(s) /\ s[k + 1] \notin Chars
    BY CharFacts
  <1>3. PICK a \in 1..k + 1 : \E b \in k + 1..Len(s) : Scanner!FieldAt(s, a, b)
    BY <1>1, <1>2 DEF Clean
  <1>4. PICK b \in k + 1..Len(s) : Scanner!FieldAt(s, a, b)
    BY <1>3
  <1>5. a = k + 1
    BY <1>4, FieldInside
  <1> QED
    BY <1>4, <1>5

\* The prefix of s and what completes it.
LEMMA Completed ==
    ASSUME NEW s \in Seq(AnyChar), NEW k \in 0..Len(s), NEW t \in Seq(AnyChar)
    PROVE  LET u == SubSeq(s, 1, k) \o t
           IN  /\ u \in Seq(AnyChar) /\ Len(u) = k + Len(t)
               /\ Agree(s, u, k)
               /\ \A i \in 1..Len(t) : u[k + i] = t[i]
  <1> DEFINE p == SubSeq(s, 1, k)
             u == p \o t
  <1>1. p \in Seq(AnyChar) /\ Len(p) = k /\ \A j \in 1..k : p[j] = s[j]
    OBVIOUS
  <1> HIDE DEF p
  <1>2. u \in Seq(AnyChar) /\ Len(u) = k + Len(t)
    BY <1>1, SMTT(20)
  <1>3. \A j \in 1..k : u[j] = p[j]
    BY <1>1
  <1>4. \A i \in 1..Len(t) : u[k + i] = t[i]
    BY <1>1
  <1> QED
    BY <1>1, <1>2, <1>3, <1>4 DEF Agree, p

\* Where a scan can stand after k characters: outside fields, behind a hash, or
\* in a field of which m characters have been read.
Outside(s, k) == Clean(s, k)
Opened(s, k) == k > 0 /\ s[k] = Scanner!Hash /\ Clean(s, k - 1)
Inside(s, k, m) ==
    /\ m + 2 <= k
    /\ s[k - m - 1] = Scanner!Hash /\ s[k - m] \in Scanner!Begins
    /\ \A j \in k - m + 1..k : s[j] \in Chars
    /\ Clean(s, k - m - 2)

LEMMA OutsideIsViable ==
    ASSUME Scanner!PlainIsNoToken, NEW s \in Seq(AnyChar), NEW k \in 0..Len(s), Outside(s, k)
    PROVE  Scanner!Viable(SubSeq(s, 1, k))
  <1>1. PICK t \in Seq(AnyChar) : t \in Scanner!Completions /\ Len(t) = 0
    <2>1. <<>> \in Scanner!Completions
      BY DEF Scanner!Completions
    <2>2. <<>> \in Seq(AnyChar) /\ Len(<<>>) = 0
      OBVIOUS
    <2> QED
      BY <2>1, <2>2
  <1> DEFINE u == SubSeq(s, 1, k) \o t
  <1>2. u \in Seq(AnyChar) /\ Len(u) = k /\ Agree(s, u, k)
    <2>1. u \in Seq(AnyChar) /\ Len(u) = k + Len(t) /\ Agree(s, u, k)
      BY Completed
    <2> HIDE DEF u
    <2> QED
      BY <1>1, <2>1
  <1> HIDE DEF u
  <1>3. Clean(u, k)
    BY <1>2, CleanAgrees DEF Outside
  <1>4. Scanner!WellFormed(u)
    BY <1>2, <1>3, CleanIsWellFormed
  <1> QED
    BY <1>1, <1>4 DEF Scanner!Viable, u

LEMMA OpenedIsViable ==
    ASSUME Scanner!PlainIsNoToken, NEW s \in Seq(AnyChar), NEW k \in 0..Len(s), Opened(s, k)
    PROVE  Scanner!Viable(SubSeq(s, 1, k))
  <1>1. PICK p \in Chars : TRUE
    BY DEF Scanner!PlainIsNoToken
  <1>2. PICK b \in Scanner!Begins : TRUE
    BY DEF Scanner!Begins
  <1> DEFINE e == Scanner!End(b)
             t == <<b, p, e>>
  <1>0. e \in Scanner!Ends
    BY <1>2, CharFacts
  <1>3. t \in Scanner!Completions
    BY <1>1, <1>2 DEF Scanner!Completions
  <1> HIDE DEF e
  <1>4. t \in Seq(AnyChar) /\ Len(t) = 3
    BY <1>0, <1>1, <1>2 DEF AnyChar, Scanner!Tokens
  <1> DEFINE u == SubSeq(s, 1, k) \o t
  <1>5. u \in Seq(AnyChar) /\ Len(u) = k + 3 /\ Agree(s, u, k) /\ \A i \in 1..3 : u[k + i] = t[i]
    BY <1>4, Completed
  <1>6. t[1] = b /\ t[2] = p /\ t[3] = e
    OBVIOUS
  <1> HIDE DEF u, t
  <1>7. u[k + 1] = b /\ u[k + 2] = p /\ u[k + 3] = e
    BY <1>5, <1>6
  <1>8. u[k] = Scanner!Hash
    BY <1>5 DEF Agree, Opened
  <1>9. Scanner!FieldAt(u, k, k + 3)
    <2>1. \A j \in k + 2..k + 3 - 1 : j = k + 2
      OBVIOUS
    <2> QED
      BY <1>1, <1>2, <1>7, <1>8, <2>1 DEF Scanner!FieldAt, Scanner!AllIn, e
  <1>10. Clean(u, k - 1)
    <2>1. Agree(s, u, k - 1) /\ k - 1 \in Nat
      BY <1>5 DEF Agree, Opened
    <2> QED
      BY <2>1, CleanAgrees DEF Opened
  <1>11. Clean(u, k + 3)
    <2>1. k - 1 \in Nat /\ (k - 1) + 1 = k
      BY DEF Opened
    <2> QED
      BY <1>9, <1>10, <2>1, CleanByField
  <1>12. Scanner!WellFormed(u)
    BY <1>5, <1>11, CleanIsWellFormed
  <1> QED
    BY <1>3, <1>12 DEF Scanner!Viable, u

LEMMA InsideIsViable ==
    ASSUME Scanner!PlainIsNoToken, NEW s \in Seq(AnyChar), NEW k \in 0..Len(s),
           NEW m \in Nat, Inside(s, k, m)
    PROVE  Scanner!Viable(SubSeq(s, 1, k))
  <1> DEFINE b == s[k - m]
             e == Scanner!End(b)
             a == k - m - 1
  <1>1. PICK p \in Chars : TRUE
    BY DEF Scanner!PlainIsNoToken
  <1>2. b \in Scanner!Begins /\ e \in Scanner!Ends /\ a \in Nat \ {0} /\ a + 1 = k - m /\ a - 1 \in Nat
    BY CharFacts DEF Inside
  <1>3. PICK t \in Seq(AnyChar) : /\ t \in Scanner!Completions
                                  /\ t = IF m = 0 THEN <<p, e>> ELSE <<e>>
    <2>1. <<p, e>> \in Scanner!Completions /\ <<e>> \in Scanner!Completions
      BY <1>1, <1>2 DEF Scanner!Completions
    <2>2. <<p, e>> \in Seq(AnyChar) /\ <<e>> \in Seq(AnyChar)
      BY <1>1, <1>2 DEF AnyChar, Scanner!Tokens
    <2> QED
      BY <2>1, <2>2
  <1> DEFINE u == SubSeq(s, 1, k) \o t
             n == k + Len(t)
  <1>4. u \in Seq(AnyChar) /\ Len(u) = n /\ Agree(s, u, k) /\ \A i \in 1..Len(t) : u[k + i] = t[i]
    BY Completed
  <1> HIDE DEF u, b, e
  <1>5. n >= a + 3 /\ n \in Nat /\ u[n] = e /\ \A j \in k + 1..n - 1 : u[j] \in Chars
    <2>1. CASE m = 0
      <3>1. Len(t) = 2 /\ t[1] = p /\ t[2] = e
        BY <1>3, <2>1
      <3>2. u[k + 1] = p /\ u[k + 2] = e
        BY <1>4, <3>1
      <3>3. \A j \in k + 1..n - 1 : j = k + 1
        BY <3>1
      <3> QED
        BY <1>1, <1>2, <2>1, <3>1, <3>2, <3>3
    <2>2. CASE m # 0
      <3>1. Len(t) = 1 /\ t[1] = e
        BY <1>3, <2>2
      <3>2. u[k + 1] = e
        BY <1>4, <3>1
      <3> QED
        BY <1>2, <2>2, <3>1, <3>2
    <2> QED
      BY <2>1, <2>2
  <1>6. u[a] = Scanner!Hash /\ u[a + 1] = b /\ \A j \in a + 2..k : u[j] \in Chars
    <2>1. a \in 1..k /\ a + 1 \in 1..k /\ a + 2 = k - m + 1
      BY <1>2
    <2>2. s[a] = Scanner!Hash /\ s[a + 1] = b /\ \A j \in a + 2..k : s[j] \in Chars
      BY <1>2, <2>1 DEF Inside, b
    <2>3. \A j \in a + 2..k : j \in 1..k
      BY <1>2
    <2> QED
      BY <1>4, <2>1, <2>2, <2>3 DEF Agree
  <1>7. Scanner!FieldAt(u, a, n)
    <2>1. \A j \in a + 2..n - 1 : j \in a + 2..k \/ j \in k + 1..n - 1
      BY <1>2, <1>5
    <2>2. u[n] = Scanner!End(u[a + 1])
      BY <1>5, <1>6 DEF e
    <2> QED
      BY <1>2, <1>5, <1>6, <2>1, <2>2 DEF Scanner!FieldAt, Scanner!AllIn
  <1>8. Clean(u, a - 1)
    <2>1. Agree(s, u, a - 1)
      BY <1>2, <1>4 DEF Agree
    <2>2. Clean(s, a - 1)
      BY DEF Inside
    <2> QED
      BY <1>2, <2>1, <2>2, CleanAgrees
  <1>9. Clean(u, n)
    <2>1. (a - 1) + 1 = a /\ n > a - 1
      BY <1>2, <1>5
    <2> QED
      BY <1>2, <1>5, <1>7, <1>8, <2>1, CleanByField
  <1>10. Scanner!WellFormed(u)
    BY <1>4, <1>9, CleanIsWellFormed
  <1> QED
    BY <1>3, <1>10 DEF Scanner!Viable, u

\* No template begins with the first k characters.
Doomed(s, k) ==
    \A t \in Seq(AnyChar) : Len(t) >= k /\ Agree(s, t, k) => ~Scanner!WellFormed(t)

LEMMA DoomedFacts ==
    ASSUME NEW s \in Seq(AnyChar), NEW k \in 0..Len(s), Doomed(s, k)
    PROVE  ~Scanner!WellFormed(s) /\ ~Scanner!Viable(SubSeq(s, 1, k))
  <1>1. Agree(s, s, k)
    BY DEF Agree
  <1>2. ASSUME NEW t \in Scanner!Completions
        PROVE  ~Scanner!WellFormed(SubSeq(s, 1, k) \o t)
    <2>1. Scanner!Begins \subseteq AnyChar /\ Scanner!Ends \subseteq AnyChar /\ Chars \subseteq AnyChar
      BY DEF AnyChar, Scanner!Tokens
    <2>2. \A b \in Scanner!Begins : Scanner!End(b) \in AnyChar
      BY DEF Scanner!Begins, Scanner!Ends, Scanner!End, AnyChar, Scanner!Tokens
    <2>3. t \in Seq(AnyChar)
      <3>1. CASE t = <<>>
        BY <3>1
      <3>2. CASE t \in {<<b, p, Scanner!End(b)>> : b \in Scanner!Begins, p \in Chars}
        <4>1. PICK b \in Scanner!Begins, p \in Chars : t = <<b, p, Scanner!End(b)>>
          BY <3>2
        <4> QED
          BY <2>1, <2>2, <4>1
      <3>3. CASE t \in {<<p, e>> : p \in Chars, e \in Scanner!Ends}
        <4>1. PICK p \in Chars, e \in Scanner!Ends : t = <<p, e>>
          BY <3>3
        <4> QED
          BY <2>1, <4>1
      <3>4. CASE t \in {<<e>> : e \in Scanner!Ends}
        <4>1. PICK e \in Scanner!Ends : t = <<e>>
          BY <3>4
        <4> QED
          BY <2>1, <4>1
      <3> QED
        BY <3>1, <3>2, <3>3, <3>4 DEF Scanner!Completions
    <2> DEFINE u == SubSeq(s, 1, k) \o t
    <2>4. u \in Seq(AnyChar) /\ Len(u) = k + Len(t) /\ Agree(s, u, k)
      BY <2>3, Completed
    <2>5. Len(u) >= k
      BY <2>3, <2>4
    <2> HIDE DEF u
    <2>6. ~Scanner!WellFormed(u)
      BY <2>4, <2>5 DEF Doomed
    <2> QED
      BY <2>6 DEF u
  <1> QED
    BY <1>1, <1>2 DEF Doomed, Scanner!Viable

\* A token that is no hash, outside a field.
LEMMA TokenDooms ==
    ASSUME Scanner!PlainIsNoToken, NEW s \in Seq(AnyChar), NEW k \in Nat, k < Len(s), Outside(s, k),
           s[k + 1] \in Scanner!Begins \cup Scanner!Ends
    PROVE  Doomed(s, k + 1)
  <1> SUFFICES ASSUME NEW t \in Seq(AnyChar), Len(t) >= k + 1, Agree(s, t, k + 1)
               PROVE  ~Scanner!WellFormed(t)
    BY DEF Doomed
  <1>1. Agree(s, t, k) /\ t[k + 1] = s[k + 1]
    BY DEF Agree
  <1>2. Clean(t, k)
    BY <1>1, CleanAgrees DEF Outside
  <1> QED
    BY <1>1, <1>2, NoFieldNoToken

\* A field that began after h characters: anything but a begin behind its hash.
LEMMA NoBeginDooms ==
    ASSUME Scanner!PlainIsNoToken, NEW s \in Seq(AnyChar), NEW k \in Nat, k < Len(s), Opened(s, k),
           s[k + 1] \notin Scanner!Begins
    PROVE  Doomed(s, k + 1)
  <1> SUFFICES ASSUME NEW t \in Seq(AnyChar), Len(t) >= k + 1, Agree(s, t, k + 1),
                      Scanner!WellFormed(t)
               PROVE  FALSE
    BY DEF Doomed
  <1>1. k - 1 \in Nat /\ (k - 1) + 1 = k
    BY DEF Opened
  <1>2. Agree(s, t, k - 1) /\ t[k] = Scanner!Hash /\ t[k + 1] = s[k + 1]
    BY <1>1 DEF Agree, Opened
  <1>3. Clean(t, k - 1)
    BY <1>1, <1>2, CleanAgrees DEF Opened
  <1>4. PICK b \in Nat : b <= Len(t) /\ Scanner!FieldAt(t, k, b)
    BY <1>1, <1>2, <1>3, HashOpensField
  <1>5. t[k + 1] \in Scanner!Begins
    BY <1>4, FieldChars
  <1> QED
    BY <1>2, <1>5

\* In a field: a hash or a begin, the other end, or an end of an empty field.
LEMMA BadFieldDooms ==
    ASSUME Scanner!PlainIsNoToken, NEW s \in Seq(AnyChar), NEW k \in Nat, k < Len(s),
           NEW m \in Nat, Inside(s, k, m),
           \/ s[k + 1] \in Scanner!Begins \cup {Scanner!Hash}
           \/ s[k + 1] \in Scanner!Ends /\ s[k + 1] # Scanner!End(s[k - m])
           \/ s[k + 1] \in Scanner!Ends /\ m = 0
    PROVE  Doomed(s, k + 1)
  <1> SUFFICES ASSUME NEW t \in Seq(AnyChar), Len(t) >= k + 1, Agree(s, t, k + 1),
                      Scanner!WellFormed(t)
               PROVE  FALSE
    BY DEF Doomed
  <1> DEFINE h == k - m - 2
  <1>1. h \in Nat /\ h + 1 = k - m - 1 /\ h + 2 = k - m /\ h < k /\ h < Len(t)
    BY DEF Inside
  <1>2. Agree(s, t, h) /\ t[h + 1] = Scanner!Hash /\ t[h + 2] = s[k - m] /\ t[k + 1] = s[k + 1]
    <2>1. h + 1 \in 1..k + 1 /\ h + 2 \in 1..k + 1 /\ k + 1 \in 1..k + 1 /\ \A j \in 1..h : j \in 1..k + 1
      BY <1>1
    <2>2. s[h + 1] = Scanner!Hash
      BY <1>1 DEF Inside
    <2> QED
      BY <1>1, <2>1, <2>2 DEF Agree
  <1>3. \A j \in h + 3..k : t[j] \in Chars
    <2>1. \A j \in h + 3..k : j \in 1..k + 1 /\ j \in k - m + 1..k
      BY <1>1
    <2> QED
      BY <2>1 DEF Agree, Inside
  <1>4. Clean(s, h)
    BY DEF Inside
  <1> HIDE DEF h
  <1>5. Clean(t, h)
    BY <1>1, <1>2, <1>4, CleanAgrees
  <1>6. PICK b \in Nat : b <= Len(t) /\ Scanner!FieldAt(t, h + 1, b)
    BY <1>1, <1>2, <1>5, HashOpensField
  <1>7. /\ h + 4 <= b /\ t[b] \in Scanner!Ends /\ t[b] = Scanner!End(t[h + 2])
        /\ \A j \in h + 3..b - 1 : t[j] \in Chars
    <2>1. PICK a \in Nat : a = h + 1
      BY <1>1
    <2>2. a + 1 = h + 2 /\ a + 2 = h + 3 /\ a + 3 = h + 4
      BY <1>1, <2>1
    <2>3. Scanner!FieldAt(t, a, b)
      BY <1>6, <2>1
    <2>4. a + 3 <= b /\ t[b] \in Scanner!Ends /\ t[b] = Scanner!End(t[a + 1])
          /\ \A j \in a + 2..b - 1 : t[j] \in Chars
      BY <2>3, FieldChars
    <2> QED
      BY <2>2, <2>4
  <1>8. b \notin h + 3..k
    BY <1>3, <1>7, CharFacts
  <1>9. b >= k + 1
    BY <1>1, <1>7, <1>8
  <1>10. t[k + 1] \notin Chars
    BY <1>2, CharFacts
  <1>11. b = k + 1
    <2>1. k + 1 \notin h + 3..b - 1
      BY <1>7, <1>10
    <2> QED
      BY <1>1, <1>9, <2>1
  <1>12. m # 0
    BY <1>1, <1>7, <1>11
  <1> QED
    BY <1>2, <1>7, <1>11, <1>12, CharFacts

-----------------------------------------------------------------------------
(* What the scan has found out.                                              *)

ScanType ==
    /\ pattern \in Seq(AnyChar)
    /\ scanned \in 0..Len(pattern)
    /\ piece \in Seq(Chars)

Standing ==
    \/ scan = "INIT" /\ Outside(pattern, scanned)
    \/ scan = "MATCH_TOKEN" /\ piece = <<>> /\ Opened(pattern, scanned)
    \/ scan = "FETCH" /\ Inside(pattern, scanned, Len(piece)) /\ token = pattern[scanned - Len(piece)]

ScanErrors == {"ILL_TOKEN", "ILL_BEGIN", "ILL_END", "UNMATCH", "NONE_FIELD"}

BrokenOff == scanned = Len(pattern) /\ err \in {"ILL_BEGIN", "ILL_END"} /\ ~Scanner!WellFormed(pattern)

ScanInv ==
    /\ ScanType
    /\ err \in {"scanning", "OK"} \cup ScanErrors
    /\ err = "scanning" => Standing
    /\ err = "OK" => Scanner!WellFormed(pattern)
    /\ err \in ScanErrors => Doomed(pattern, scanned) \/ BrokenOff
    /\ err # "OK" /\ scanned > 0 => Scanner!Viable(SubSeq(pattern, 1, scanned - 1))

LEMMA ScanInit == Scanner!Init => ScanInv
  <1> SUFFICES ASSUME Scanner!Init PROVE ScanInv
    OBVIOUS
  <1>1. scanned = 0 /\ scan = "INIT" /\ piece = <<>> /\ err = "scanning"
    BY DEF Scanner!Init
  <1>2. pattern \in Seq(AnyChar)
    BY DEF Scanner!Init, Scanner!SeqOf, AnyChar
  <1>3. Outside(pattern, 0)
    BY DEF Outside, Clean
  <1> QED
    BY <1>1, <1>2, <1>3 DEF ScanInv, ScanType, Standing, ScanErrors

LEMMA StandingIsViable ==
    ASSUME Scanner!PlainIsNoToken, ScanType, Standing
    PROVE  Scanner!Viable(SubSeq(pattern, 1, scanned))
  <1>1. Len(piece) \in Nat
    BY DEF ScanType
  <1> QED
    BY <1>1, OutsideIsViable, OpenedIsViable, InsideIsViable DEF ScanType, Standing

\* A character was taken.
Took == /\ err = "scanning" /\ scanned < Len(pattern)
        /\ scanned' = scanned + 1 /\ UNCHANGED pattern

LEMMA TookFacts ==
    ASSUME Scanner!PlainIsNoToken, ScanInv, Took
    PROVE  /\ scanned \in Nat /\ scanned' \in 0..Len(pattern') /\ pattern' \in Seq(AnyChar)
           /\ pattern[scanned + 1] \in AnyChar
           /\ Scanner!Viable(SubSeq(pattern', 1, scanned' - 1))
  <1>1. ScanType /\ Standing
    BY DEF ScanInv, Took
  <1>2. scanned \in Nat /\ scanned' \in 0..Len(pattern') /\ pattern' \in Seq(AnyChar)
        /\ pattern[scanned + 1] \in AnyChar
    BY <1>1 DEF ScanType, Took
  <1>3. scanned' - 1 = scanned
    BY <1>2 DEF Took
  <1> QED
    BY <1>1, <1>2, <1>3, StandingIsViable DEF Took

\* The scan goes on, or ends with an error.
LEMMA GoesOn ==
    ASSUME Scanner!PlainIsNoToken, ScanInv, Took, UNCHANGED err, piece' \in Seq(Chars), Standing'
    PROVE  ScanInv'
  <1>1. err' = "scanning"
    BY DEF Took
  <1>2. ScanType'
    BY TookFacts DEF ScanType
  <1> QED
    BY <1>1, <1>2, TookFacts DEF ScanInv, ScanErrors

LEMMA GivesUp ==
    ASSUME Scanner!PlainIsNoToken, ScanInv, Took, UNCHANGED piece, err' \in ScanErrors,
           Doomed(pattern, scanned + 1)
    PROVE  ScanInv'
  <1>1. Doomed(pattern', scanned')
    BY DEF Took
  <1>2. ScanType'
    BY TookFacts DEF ScanType, ScanInv
  <1>3. err' # "OK" /\ err' # "scanning"
    BY DEF ScanErrors
  <1> QED
    BY <1>1, <1>2, <1>3, TookFacts DEF ScanInv

LEMMA CollectScan ==
    ASSUME Scanner!PlainIsNoToken, ScanInv, Scanner!Collect
    PROVE  ScanInv'
  <1> DEFINE x == pattern[scanned + 1]
             m == Len(piece)
  <1>1. Took /\ x \in Chars /\ piece' = Append(piece, x) /\ scan \in {"INIT", "FETCH"}
        /\ UNCHANGED <<scan, token, err>>
    BY DEF Scanner!Collect, Scanner!Take, Scanner!c, Took
  <1>2. ScanType /\ Standing
    BY <1>1 DEF ScanInv, Took
  <1>3. piece' \in Seq(Chars) /\ m \in Nat /\ Len(piece') = m + 1
    BY <1>1, <1>2 DEF ScanType
  <1>4. scanned \in Nat /\ scanned' = scanned + 1 /\ pattern' = pattern
    BY <1>1, TookFacts DEF Took
  <1>5. CASE scan = "INIT"
    <2>1. Clean(pattern, scanned + 1)
      BY <1>1, <1>2, <1>4, <1>5, CleanByPlain DEF Standing, Outside
    <2>2. Standing'
      BY <1>1, <1>4, <1>5, <2>1 DEF Standing, Outside
    <2> QED
      BY <1>1, <1>3, <2>2, GoesOn
  <1>6. CASE scan = "FETCH"
    <2>1. Inside(pattern, scanned, m) /\ token = pattern[scanned - m]
      BY <1>2, <1>6 DEF Standing
    <2>2. /\ (scanned + 1) - (m + 1) = scanned - m
          /\ (scanned + 1) - (m + 1) - 1 = scanned - m - 1
          /\ (scanned + 1) - (m + 1) - 2 = scanned - m - 2
          /\ (scanned + 1) - (m + 1) + 1 = scanned - m + 1
      BY <1>3, <1>4
    <2>3. \A j \in scanned - m + 1..scanned + 1 : pattern[j] \in Chars
      <3>1. \A j \in scanned - m + 1..scanned + 1 : j \in scanned - m + 1..scanned \/ j = scanned + 1
        BY <1>3, <1>4
      <3> QED
        BY <1>1, <2>1, <3>1 DEF Inside
    <2>4. (m + 1) + 2 <= scanned + 1
      BY <1>3, <1>4, <2>1 DEF Inside
    <2> HIDE DEF m, x
    <2>5. Inside(pattern, scanned + 1, m + 1) /\ token = pattern[(scanned + 1) - (m + 1)]
      BY <2>1, <2>2, <2>3, <2>4 DEF Inside
    <2>6. Standing'
      BY <1>1, <1>3, <1>4, <1>6, <2>5 DEF Standing
    <2> QED
      BY <1>1, <1>3, <2>6, GoesOn
  <1> QED
    BY <1>1, <1>5, <1>6

LEMMA StartTokenScan ==
    ASSUME Scanner!PlainIsNoToken, ScanInv, Scanner!StartToken
    PROVE  ScanInv'
  <1>1. Took /\ pattern[scanned + 1] = Scanner!Hash /\ piece' = <<>> /\ scan = "INIT"
        /\ scan' = "MATCH_TOKEN" /\ UNCHANGED <<token, err>>
    BY DEF Scanner!StartToken, Scanner!Take, Took
  <1>2. Outside(pattern, scanned)
    BY <1>1 DEF ScanInv, Standing, Took
  <1>3. scanned \in Nat /\ scanned' = scanned + 1 /\ pattern' = pattern /\ (scanned + 1) - 1 = scanned
    BY <1>1, TookFacts DEF Took
  <1>4. Opened(pattern, scanned + 1)
    BY <1>1, <1>2, <1>3 DEF Opened, Outside
  <1>5. Standing'
    BY <1>1, <1>3, <1>4 DEF Standing
  <1> QED
    BY <1>1, <1>5, GoesOn

LEMMA OpenFieldScan ==
    ASSUME Scanner!PlainIsNoToken, ScanInv, Scanner!OpenField
    PROVE  ScanInv'
  <1>1. Took /\ pattern[scanned + 1] \in Scanner!Begins /\ token' = pattern[scanned + 1]
        /\ scan = "MATCH_TOKEN" /\ scan' = "FETCH" /\ UNCHANGED <<piece, err>>
    BY DEF Scanner!OpenField, Scanner!Take, Scanner!c, Took
  <1>2. Opened(pattern, scanned) /\ piece = <<>>
    BY <1>1 DEF ScanInv, Standing, Took
  <1>3. scanned \in Nat /\ scanned' = scanned + 1 /\ pattern' = pattern
    BY <1>1, TookFacts DEF Took
  <1>4. /\ (scanned + 1) - 0 = scanned + 1 /\ (scanned + 1) - 0 - 1 = scanned
        /\ (scanned + 1) - 0 - 2 = scanned - 1 /\ 0 + 2 <= scanned + 1
        /\ \A j \in (scanned + 1) - 0 + 1..scanned + 1 : FALSE
    BY <1>2, <1>3 DEF Opened
  <1>5. Inside(pattern, scanned + 1, 0)
    BY <1>1, <1>2, <1>4 DEF Inside, Opened
  <1>6. Len(piece') = 0 /\ piece' \in Seq(Chars)
    BY <1>1, <1>2
  <1>7. Standing'
    BY <1>1, <1>3, <1>4, <1>5, <1>6 DEF Standing
  <1> QED
    BY <1>1, <1>6, <1>7, GoesOn

LEMMA CloseFieldScan ==
    ASSUME Scanner!PlainIsNoToken, ScanInv, Scanner!CloseField
    PROVE  ScanInv'
  <1> DEFINE m == Len(piece)
             a == scanned - m - 1
  <1>1. Took /\ pattern[scanned + 1] = Scanner!End(token) /\ piece # <<>> /\ piece' = <<>>
        /\ scan = "FETCH" /\ scan' = "INIT" /\ UNCHANGED <<token, err>>
    BY DEF Scanner!CloseField, Scanner!Take, Took
  <1>2. Inside(pattern, scanned, m) /\ token = pattern[scanned - m] /\ piece \in Seq(Chars)
    BY <1>1 DEF ScanInv, ScanType, Standing, Took
  <1>3. scanned \in Nat /\ scanned' = scanned + 1 /\ pattern' = pattern
    BY <1>1, TookFacts DEF Took
  <1>4. m \in Nat /\ m # 0
    BY <1>1, <1>2
  <1> HIDE DEF m
  <1>5. /\ a \in Nat \ {0} /\ a - 1 \in Nat /\ (a - 1) + 1 = a /\ a + 1 = scanned - m
        /\ a - 1 = scanned - m - 2 /\ a + 3 <= scanned + 1 /\ scanned + 1 > a - 1
        /\ \A j \in a + 2..(scanned + 1) - 1 : j \in scanned - m + 1..scanned
    BY <1>2, <1>3, <1>4 DEF Inside
  <1>6. Scanner!FieldAt(pattern, a, scanned + 1)
    <2>1. pattern[a] = Scanner!Hash /\ pattern[a + 1] \in Scanner!Begins
          /\ pattern[scanned + 1] = Scanner!End(pattern[a + 1])
      BY <1>1, <1>2, <1>5 DEF Inside
    <2>2. \A j \in a + 2..(scanned + 1) - 1 : pattern[j] \in Chars
      BY <1>2, <1>5 DEF Inside
    <2> QED
      BY <1>5, <2>1, <2>2 DEF Scanner!FieldAt, Scanner!AllIn
  <1>7. Clean(pattern, a - 1)
    BY <1>2, <1>5 DEF Inside
  <1> HIDE DEF a
  <1>8. Clean(pattern, scanned + 1)
    BY <1>3, <1>5, <1>6, <1>7, CleanByField
  <1>9. Standing'
    BY <1>1, <1>3, <1>8 DEF Standing, Outside
  <1> QED
    BY <1>1, <1>9, GoesOn

LEMMA FailScan ==
    ASSUME Scanner!PlainIsNoToken, ScanInv,
           Scanner!IllegalToken \/ Scanner!IllegalBegin \/ Scanner!IllegalEnd
               \/ Scanner!Unmatched \/ Scanner!NoneField
    PROVE  ScanInv'
  <1>1. Took /\ UNCHANGED piece /\ err' \in ScanErrors
    BY DEF Scanner!IllegalToken, Scanner!IllegalBegin, Scanner!IllegalEnd, Scanner!Unmatched,
           Scanner!NoneField, Scanner!Fails, Scanner!Take, Took, ScanErrors
  <1>2. ScanType /\ Standing
    BY <1>1 DEF ScanInv, Took
  <1>3. scanned \in Nat /\ scanned < Len(pattern) /\ Len(piece) \in Nat /\ pattern \in Seq(AnyChar)
    BY <1>1, <1>2, TookFacts DEF Took, ScanType
  <1>4. CASE Scanner!IllegalToken
    <2>1. Outside(pattern, scanned) /\ pattern[scanned + 1] \in Scanner!Begins \cup Scanner!Ends
      BY <1>2, <1>4 DEF Standing, Scanner!IllegalToken, Scanner!Take
    <2> QED
      BY <1>1, <1>3, <2>1, TokenDooms, GivesUp
  <1>5. CASE Scanner!IllegalBegin
    <2>1. Opened(pattern, scanned) /\ pattern[scanned + 1] \notin Scanner!Begins
      BY <1>2, <1>5 DEF Standing, Scanner!IllegalBegin, Scanner!Take
    <2> QED
      BY <1>1, <1>3, <2>1, NoBeginDooms, GivesUp
  <1>6. CASE Scanner!IllegalEnd \/ Scanner!Unmatched \/ Scanner!NoneField
    <2>1. Inside(pattern, scanned, Len(piece)) /\ token = pattern[scanned - Len(piece)]
      BY <1>2, <1>6 DEF Standing, Scanner!IllegalEnd, Scanner!Unmatched, Scanner!NoneField
    <2>2. token \in Scanner!Begins
      BY <2>1 DEF Inside
    <2>3. \/ pattern[scanned + 1] \in Scanner!Begins \cup {Scanner!Hash}
          \/ pattern[scanned + 1] \in Scanner!Ends /\ pattern[scanned + 1] # Scanner!End(token)
          \/ pattern[scanned + 1] \in Scanner!Ends /\ Len(piece) = 0
      BY <1>6, <2>2, CharFacts DEF Scanner!IllegalEnd, Scanner!Unmatched, Scanner!NoneField, Scanner!Take
    <2>4. Doomed(pattern, scanned + 1)
      BY <1>3, <2>1, <2>3, BadFieldDooms
    <2> QED
      BY <1>1, <2>4, GivesUp
  <1> QED
    BY <1>4, <1>5, <1>6

LEMMA FinishScan ==
    ASSUME Scanner!PlainIsNoToken, ScanInv, Scanner!Finish
    PROVE  ScanInv'
  <1>1. err = "scanning" /\ scanned = Len(pattern) /\ UNCHANGED <<pattern, scanned, piece>>
    BY DEF Scanner!Finish
  <1>2. ScanType /\ Standing /\ ScanType' /\ pattern \in Seq(AnyChar) /\ Len(pattern) \in Nat
    BY <1>1 DEF ScanInv, ScanType
  <1>3. scanned > 0 => Scanner!Viable(SubSeq(pattern, 1, scanned - 1))
    BY <1>1 DEF ScanInv
  <1>4. CASE scan = "INIT"
    <2>1. err' = "OK"
      BY <1>4 DEF Scanner!Finish
    <2>2. Scanner!WellFormed(pattern)
      BY <1>1, <1>2, <1>4, CleanIsWellFormed DEF Standing, Outside
    <2> QED
      BY <1>1, <1>2, <2>1, <2>2 DEF ScanInv, ScanErrors
  <1>5. CASE scan # "INIT"
    <2>1. err' \in {"ILL_BEGIN", "ILL_END"}
      BY <1>2, <1>5 DEF Standing, Scanner!Finish
    <2>2. ~Scanner!WellFormed(pattern)
      <3> SUFFICES ASSUME Scanner!WellFormed(pattern) PROVE FALSE
        OBVIOUS
      <3> DEFINE h == IF scan = "MATCH_TOKEN" THEN scanned - 1 ELSE scanned - Len(piece) - 2
      <3>1. /\ h \in Nat /\ h < Len(pattern) /\ Clean(pattern, h) /\ pattern[h + 1] = Scanner!Hash
            /\ \A j \in h + 3..Len(pattern) : pattern[j] \in Chars
        <4>1. CASE scan = "MATCH_TOKEN"
          <5>1. Opened(pattern, scanned)
            BY <1>2, <4>1 DEF Standing
          <5>2. h = scanned - 1 /\ h + 1 = scanned /\ h \in Nat /\ \A j \in h + 3..Len(pattern) : FALSE
            BY <1>1, <1>2, <4>1, <5>1 DEF Opened
          <5> QED
            BY <1>1, <1>2, <5>1, <5>2 DEF Opened
        <4>2. CASE scan = "FETCH"
          <5>1. Inside(pattern, scanned, Len(piece)) /\ Len(piece) \in Nat
            BY <1>2, <4>2 DEF Standing, ScanType
          <5>2. h = scanned - Len(piece) - 2 /\ h + 1 = scanned - Len(piece) - 1 /\ h \in Nat
                /\ h < Len(pattern) /\ h + 3 = scanned - Len(piece) + 1
            BY <1>1, <1>2, <4>2, <5>1 DEF Inside
          <5> QED
            BY <1>1, <5>1, <5>2 DEF Inside
        <4> QED
          BY <1>2, <1>5, <4>1, <4>2 DEF Standing
      <3> HIDE DEF h
      <3>2. PICK b \in Nat : b <= Len(pattern) /\ Scanner!FieldAt(pattern, h + 1, b)
        BY <1>2, <3>1, HashOpensField
      <3>3. PICK a \in Nat : a = h + 1 /\ a + 3 = h + 4
        BY <3>1
      <3>4. a + 3 <= b /\ pattern[b] \in Scanner!Ends
        BY <3>2, <3>3, FieldChars
      <3>5. b \in h + 3..Len(pattern)
        BY <1>2, <3>1, <3>2, <3>3, <3>4
      <3> QED
        BY <3>1, <3>4, <3>5, CharFacts
    <2>3. BrokenOff'
      BY <1>1, <2>1, <2>2 DEF BrokenOff
    <2> QED
      BY <1>1, <1>2, <1>3, <2>1, <2>3 DEF ScanInv, ScanErrors
  <1> QED
    BY <1>4, <1>5

LEMMA ScanStep ==
    ASSUME Scanner!PlainIsNoToken, ScanInv, [Scanner!Next]_Scanner!vars
    PROVE  ScanInv'
  <1>1. CASE UNCHANGED Scanner!vars
    BY <1>1 DEF Scanner!vars, ScanInv, ScanType, Standing, BrokenOff
  <1> QED
    BY <1>1, CollectScan, StartTokenScan, OpenFieldScan, CloseFieldScan, FinishScan, FailScan
       DEF Scanner!Next

LEMMA ScanAlways == PartsSpec => []ScanInv
  <1>1. PartsInit => ScanInv
    BY ScanInit DEF PartsInit
  <1>2. ScanInv /\ [PartsNext]_allVars => ScanInv'
    BY PartsSteps, ScanStep, PartsAssumption
  <1> QED
    BY <1>1, <1>2, PTL DEF PartsSpec

\* SqlPattern::explode accepts a template exactly when every token of it is part
\* of a whole #{field} or #[list], for templates of any length and characters.
THEOREM TemplatesAreAccepted == PartsSpec => []AcceptsTemplates
  <1>1. ScanInv => AcceptsTemplates
    <2> SUFFICES ASSUME ScanInv, err # "scanning"
                 PROVE  err = "OK" <=> Scanner!WellFormed(pattern)
      BY DEF AcceptsTemplates, Scanner!AcceptsTemplates
    <2>1. CASE err \in ScanErrors
      <3>1. err # "OK"
        BY <2>1 DEF ScanErrors
      <3>2. ~Scanner!WellFormed(pattern)
        BY <2>1, DoomedFacts DEF ScanInv, ScanType, BrokenOff
      <3> QED
        BY <3>1, <3>2
    <2>2. CASE err = "OK"
      BY <2>2 DEF ScanInv
    <2> QED
      BY <2>1, <2>2 DEF ScanInv
  <1> QED
    BY <1>1, ScanAlways, PTL

\* It reports an error at the first character after which no template can
\* follow; only a template that breaks off inside a field is refused at its end
\* (the error returns of SqlPattern::explode, var_pattern.cpp:81-164).
THEOREM ErrorsAreEarliest == PartsSpec => []EarliestError
  <1>1. ScanInv => EarliestError
    <2> SUFFICES ASSUME ScanInv PROVE Scanner!EarliestError
      BY DEF EarliestError
    <2>1. err = "scanning" => Scanner!Viable(SubSeq(pattern, 1, scanned))
      BY StandingIsViable, PartsAssumption DEF ScanInv
    <2>2. ASSUME err \notin {"scanning", "OK"}
          PROVE  /\ scanned > 0 => Scanner!Viable(SubSeq(pattern, 1, scanned - 1))
                 /\ Scanner!Viable(SubSeq(pattern, 1, scanned)) =>
                        scanned = Len(pattern) /\ err \in {"ILL_BEGIN", "ILL_END"}
      <3>1. Doomed(pattern, scanned) \/ BrokenOff
        BY <2>2 DEF ScanInv
      <3>2. Doomed(pattern, scanned) => ~Scanner!Viable(SubSeq(pattern, 1, scanned))
        BY DoomedFacts DEF ScanInv, ScanType
      <3> QED
        BY <2>2, <3>1, <3>2 DEF ScanInv, BrokenOff
    <2> QED
      BY <2>1, <2>2 DEF Scanner!EarliestError
  <1> QED
    BY <1>1, ScanAlways, PTL

-----------------------------------------------------------------------------
(* What the pieces spell.                                                    *)

PieceType == [type : {"LITERAL", "FIELD", "LIST"}, value : Seq(Chars)]

\* f gives the text of the first i pieces.
Spells(f, ps) ==
    /\ f \in [0..Len(ps) -> Seq(AnyChar)]
    /\ f[0] = <<>>
    /\ \A i \in 1..Len(ps) : f[i] = f[i - 1] \o Scanner!Written(ps[i])

Spelled(ps, w) == \E f : Spells(f, ps) /\ f[Len(ps)] = w

LEMMA WrittenFacts ==
    ASSUME NEW x \in PieceType
    PROVE  Scanner!Written(x) \in Seq(AnyChar)
  <1>1. Chars \subseteq AnyChar /\ Scanner!Hash \in AnyChar
        /\ "{" \in AnyChar /\ "}" \in AnyChar /\ "[" \in AnyChar /\ "]" \in AnyChar
    BY DEF AnyChar, Scanner!Tokens, Scanner!Begins, Scanner!Ends
  <1>2. x.value \in Seq(AnyChar) /\ x.type \in {"LITERAL", "FIELD", "LIST"}
    BY <1>1, SeqMonotonic DEF PieceType
  <1>3. <<Scanner!Hash, "{">> \in Seq(AnyChar) /\ <<Scanner!Hash, "[">> \in Seq(AnyChar)
        /\ <<"}">> \in Seq(AnyChar) /\ <<"]">> \in Seq(AnyChar)
    <2>1. \A a, b \in AnyChar : <<a, b>> \in Seq(AnyChar) /\ <<a>> \in Seq(AnyChar)
      OBVIOUS
    <2> QED
      BY <1>1, <2>1, Zenon
  <1>4. /\ <<Scanner!Hash, "{">> \o x.value \o <<"}">> \in Seq(AnyChar)
        /\ <<Scanner!Hash, "[">> \o x.value \o <<"]">> \in Seq(AnyChar)
    BY <1>2, <1>3, ConcatProperties
  <1> QED
    BY <1>2, <1>4 DEF Scanner!Written

LEMMA TextIs ==
    ASSUME NEW ps \in Seq(PieceType), NEW w, Spelled(ps, w)
    PROVE  Scanner!Text(ps) = w
  <1> DEFINE n == Len(ps)
             Eq(g) == g = [i \in 0..n |-> IF i = 0 THEN <<>> ELSE g[i - 1] \o Scanner!Written(ps[i])]
             u == CHOOSE g : Eq(g)
  <1>1. PICK f : Spells(f, ps) /\ f[n] = w
    BY DEF Spelled
  <1>2. n \in Nat
    OBVIOUS
  <1>3. f = [i \in 0..n |-> f[i]] /\ f[0] = <<>>
        /\ \A i \in 1..n : f[i] = f[i - 1] \o Scanner!Written(ps[i])
    BY <1>1 DEF Spells
  <1> HIDE DEF n
  <1>4. Eq(f)
    <2>1. \A i \in 0..n : f[i] = IF i = 0 THEN <<>> ELSE f[i - 1] \o Scanner!Written(ps[i])
      BY <1>2, <1>3
    <2> QED
      BY <1>3, <2>1
  <1>5. Eq(u)
    <2> HIDE DEF Eq
    <2> QED
      BY <1>4
  <1>6. Scanner!Text(ps) = u[n]
    BY DEF Scanner!Text, n
  <1> HIDE DEF u
  <1>7. \A i \in 0..n : u[i] = IF i = 0 THEN <<>> ELSE u[i - 1] \o Scanner!Written(ps[i])
    BY <1>5
  <1> DEFINE D == {i \in 0..n : u[i] # f[i]}
  <1>8. D = {}
    <2> SUFFICES ASSUME D # {} PROVE FALSE
      OBVIOUS
    <2>1. PICK m \in D : \A k \in D : ~(k < m)
      <3>1. D \subseteq Nat
        BY <1>2
      <3> HIDE DEF D
      <3> QED
        BY <3>1, LeastNatural
    <2>2. m \in 0..n /\ u[m] # f[m]
      OBVIOUS
    <2>3. m # 0
      BY <1>2, <1>3, <1>7, <2>2
    <2>4. m \in 1..n /\ m - 1 \in 0..n /\ m - 1 < m
      BY <1>2, <2>2, <2>3
    <2>5. m - 1 \notin D
      <3> HIDE DEF D
      <3> QED
        BY <2>1, <2>4
    <2>6. u[m - 1] = f[m - 1]
      BY <2>4, <2>5
    <2> QED
      BY <1>3, <1>7, <2>2, <2>3, <2>4, <2>6
  <1> QED
    BY <1>1, <1>2, <1>6, <1>8

LEMMA NothingSpelled == Spelled(<<>>, <<>>)
  <1> DEFINE f == [i \in 0..0 |-> <<>>]
  <1>1. Len(<<>>) = 0 /\ <<>> \in Seq(AnyChar) /\ f[0] = <<>> /\ f \in [0..0 -> Seq(AnyChar)]
    OBVIOUS
  <1> HIDE DEF f
  <1>2. Spells(f, <<>>)
    BY <1>1 DEF Spells
  <1> QED
    BY <1>1, <1>2 DEF Spelled

LEMMA OneMoreSpelled ==
    ASSUME NEW ps \in Seq(PieceType), NEW w \in Seq(AnyChar), Spelled(ps, w), NEW x \in PieceType
    PROVE  Spelled(Append(ps, x), w \o Scanner!Written(x))
  <1> DEFINE n == Len(ps)
             v == w \o Scanner!Written(x)
             more == Append(ps, x)
  <1>1. PICK f : Spells(f, ps) /\ f[n] = w
    BY DEF Spelled
  <1>2. n \in Nat /\ Len(more) = n + 1 /\ more[n + 1] = x /\ \A i \in 1..n : more[i] = ps[i]
    OBVIOUS
  <1>3. v \in Seq(AnyChar)
    BY WrittenFacts, ConcatProperties
  <1> HIDE DEF v
  <1> DEFINE g == [i \in 0..n + 1 |-> IF i = n + 1 THEN v ELSE f[i]]
  <1>4. f \in [0..n -> Seq(AnyChar)] /\ f[0] = <<>>
        /\ \A i \in 1..n : f[i] = f[i - 1] \o Scanner!Written(ps[i])
    BY <1>1 DEF Spells
  <1> HIDE DEF n, more
  <1>5. g \in [0..n + 1 -> Seq(AnyChar)] /\ g[n + 1] = v /\ \A i \in 0..n : g[i] = f[i]
    BY <1>2, <1>3, <1>4
  <1> HIDE DEF g
  <1>6. \A i \in 1..n + 1 : g[i] = g[i - 1] \o Scanner!Written(more[i])
    <2> TAKE i \in 1..n + 1
    <2>1. CASE i = n + 1
      <3>1. i - 1 = n /\ n \in 0..n
        BY <1>2, <2>1
      <3> QED
        BY <1>1, <1>2, <1>5, <2>1, <3>1 DEF v
    <2>2. CASE i # n + 1
      <3>1. i \in 1..n /\ i \in 0..n /\ i - 1 \in 0..n
        BY <1>2, <2>2
      <3> QED
        BY <1>2, <1>4, <1>5, <3>1
    <2> QED
      BY <2>1, <2>2
  <1>7. g[0] = <<>>
    BY <1>2, <1>4, <1>5
  <1>8. Spells(g, more)
    BY <1>2, <1>5, <1>6, <1>7 DEF Spells
  <1> QED
    BY <1>2, <1>5, <1>8 DEF Spelled, v, more

\* Two cuts of the pieces: none is empty and two literals never meet.
Coarse(ps) ==
    \A i \in DOMAIN ps :
        /\ ps[i].value # <<>>
        /\ ps[i].type = "LITERAL" /\ i > 1 => ps[i - 1].type # "LITERAL"

EndsInField(ps) == Len(ps) > 0 => ps[Len(ps)].type # "LITERAL"

LEMMA CoarseGrows ==
    ASSUME NEW ps \in Seq(PieceType), Coarse(ps), NEW x \in PieceType, x.value # <<>>,
           x.type = "LITERAL" => EndsInField(ps)
    PROVE  Append(ps, x) \in Seq(PieceType) /\ Coarse(Append(ps, x))
           /\ (x.type # "LITERAL" => EndsInField(Append(ps, x)))
  <1> DEFINE n == Len(ps)
             more == Append(ps, x)
  <1>1. n \in Nat /\ Len(more) = n + 1 /\ more[n + 1] = x /\ DOMAIN more = 1..n + 1
        /\ DOMAIN ps = 1..n /\ \A i \in 1..n : more[i] = ps[i]
    OBVIOUS
  <1>2. more \in Seq(PieceType)
    OBVIOUS
  <1> HIDE DEF n, more
  <1>3. ASSUME NEW i \in 1..n + 1
        PROVE  more[i].value # <<>> /\ (more[i].type = "LITERAL" /\ i > 1 => more[i - 1].type # "LITERAL")
    <2>1. CASE i = n + 1
      <3>1. i > 1 => i - 1 = n /\ n \in 1..n /\ n > 0
        BY <1>1, <2>1
      <3> QED
        BY <1>1, <2>1, <3>1 DEF EndsInField, n
    <2>2. CASE i # n + 1
      <3>1. i \in 1..n /\ (i > 1 => i - 1 \in 1..n)
        BY <1>1, <2>2
      <3> QED
        BY <1>1, <3>1 DEF Coarse
    <2> QED
      BY <2>1, <2>2
  <1> QED
    BY <1>1, <1>2, <1>3 DEF Coarse, EndsInField, more

Prefix(k) == SubSeq(pattern, 1, k)

LEMMA PrefixGrows ==
    ASSUME NEW s \in Seq(AnyChar), NEW k \in Nat, k < Len(s)
    PROVE  SubSeq(s, 1, k + 1) = SubSeq(s, 1, k) \o <<s[k + 1]>>
  <1>1. k + 1 \in 1..Len(s) /\ (k + 1) - 1 = k /\ 1 \in 1..Len(s) /\ k + 1 \in 1..Len(s)
    OBVIOUS
  <1> QED
    BY <1>1, SubSeqRecursiveSecond

\* The pieces spell w, and what is being read the rest of what has been read.
SpellsPrefix(w) ==
    /\ w \in Seq(AnyChar)
    /\ Spelled(pieces, w)
    /\ w \o Scanner!Unfinished = Prefix(scanned)

SpellInv ==
    /\ ScanInv
    /\ pieces \in Seq(PieceType) /\ Coarse(pieces)
    /\ err = "scanning" => \E w : SpellsPrefix(w)
    /\ err = "scanning" /\ scan = "INIT" => EndsInField(pieces)
    /\ err = "OK" => Spelled(pieces, pattern)

LEMMA SpellInit == Scanner!Init => SpellInv
  <1> SUFFICES ASSUME Scanner!Init PROVE SpellInv
    OBVIOUS
  <1>1. pieces = <<>> /\ piece = <<>> /\ scan = "INIT" /\ scanned = 0 /\ err = "scanning"
    BY DEF Scanner!Init
  <1>2. ScanInv
    BY ScanInit
  <1>3. pieces \in Seq(PieceType) /\ Coarse(pieces) /\ EndsInField(pieces)
    BY <1>1 DEF Coarse, EndsInField
  <1>4. Prefix(0) = <<>>
    BY SubSeqEmpty DEF Prefix
  <1>5. Scanner!Unfinished = <<>>
    BY <1>1 DEF Scanner!Unfinished
  <1>6. <<>> \in Seq(AnyChar) /\ <<>> \o <<>> = <<>>
    BY EmptySeq, ConcatEmptySeq
  <1>7. SpellsPrefix(<<>>)
    BY <1>1, <1>4, <1>5, <1>6, NothingSpelled DEF SpellsPrefix
  <1> QED
    BY <1>1, <1>2, <1>3, <1>7 DEF SpellInv

\* What a step needs to know.
LEMMA SpellFacts ==
    ASSUME Scanner!PlainIsNoToken, SpellInv, err = "scanning"
    PROVE  /\ pattern \in Seq(AnyChar) /\ scanned \in Nat /\ piece \in Seq(Chars) /\ piece \in Seq(AnyChar)
           /\ scan \in {"INIT", "MATCH_TOKEN", "FETCH"}
           /\ Scanner!Hash \in AnyChar
           /\ scan = "MATCH_TOKEN" => piece = <<>>
           /\ scan = "FETCH" => token \in Scanner!Begins /\ token \in AnyChar /\ Scanner!End(token) \in AnyChar
           /\ Scanner!Unfinished \in Seq(AnyChar)
           /\ scan = "INIT" => Scanner!Unfinished = piece
           /\ scan = "MATCH_TOKEN" => Scanner!Unfinished = <<Scanner!Hash>>
           /\ scan = "FETCH" => Scanner!Unfinished = <<Scanner!Hash, token>> \o piece
  <1>1. ScanType /\ Standing
    BY DEF SpellInv, ScanInv
  <1>2. Scanner!Tokens \subseteq AnyChar /\ Chars \subseteq AnyChar
    BY DEF AnyChar
  <1>3. Scanner!Begins \subseteq AnyChar /\ Scanner!Ends \subseteq AnyChar /\ Scanner!Hash \in AnyChar
    BY <1>2, CharFacts
  <1>4. pattern \in Seq(AnyChar) /\ scanned \in Nat /\ piece \in Seq(Chars) /\ piece \in Seq(AnyChar)
    BY <1>1, <1>2, SeqMonotonic DEF ScanType
  <1>5. scan \in {"INIT", "MATCH_TOKEN", "FETCH"} /\ (scan = "MATCH_TOKEN" => piece = <<>>)
        /\ (scan = "FETCH" => token \in Scanner!Begins)
    BY <1>1 DEF Standing, Inside
  <1>6. scan = "FETCH" => token \in AnyChar /\ Scanner!End(token) \in AnyChar
    BY <1>3, <1>5, CharFacts
  <1>7. /\ scan = "INIT" => Scanner!Unfinished = piece
        /\ scan = "MATCH_TOKEN" => Scanner!Unfinished = <<Scanner!Hash>>
        /\ scan = "FETCH" => Scanner!Unfinished = <<Scanner!Hash, token>> \o piece
    BY DEF Scanner!Unfinished
  <1>8. <<Scanner!Hash>> \in Seq(AnyChar)
    BY <1>3
  <1>9. scan = "FETCH" => <<Scanner!Hash, token>> \in Seq(AnyChar)
    BY <1>3, <1>6
  <1>10. scan = "FETCH" => <<Scanner!Hash, token>> \o piece \in Seq(AnyChar)
    BY <1>4, <1>9, ConcatProperties
  <1> QED
    BY <1>3, <1>4, <1>5, <1>6, <1>7, <1>8, <1>10

\* A character that is read and kept.
LEMMA KeepsSpelling ==
    ASSUME Scanner!PlainIsNoToken, SpellInv, ScanInv', Took, UNCHANGED err,
           NEW v \in Seq(AnyChar), Spelled(pieces', v),
           NEW w, SpellsPrefix(w),
           v \o Scanner!Unfinished' = (w \o Scanner!Unfinished) \o <<pattern[scanned + 1]>>,
           pieces' \in Seq(PieceType), Coarse(pieces'),
           scan' = "INIT" => EndsInField(pieces')
    PROVE  SpellInv'
  <1>1. err = "scanning" /\ scanned' = scanned + 1 /\ pattern' = pattern /\ scanned < Len(pattern)
    BY DEF Took
  <1>2. pattern \in Seq(AnyChar) /\ scanned \in Nat
    BY <1>1, SpellFacts
  <1>3. Prefix(scanned)' = Prefix(scanned) \o <<pattern[scanned + 1]>>
    BY <1>1, <1>2, PrefixGrows DEF Prefix
  <1>4. SpellsPrefix(v)'
    BY <1>3 DEF SpellsPrefix
  <1> QED
    BY <1>1, <1>4 DEF SpellInv

LEMMA FlushedFacts ==
    ASSUME SpellInv, err = "scanning", scan = "INIT", piece \in Seq(Chars), piece \in Seq(AnyChar),
           NEW w \in Seq(AnyChar), Spelled(pieces, w)
    PROVE  /\ Scanner!Flushed \in Seq(PieceType) /\ Coarse(Scanner!Flushed)
           /\ Spelled(Scanner!Flushed, w \o piece)
  <1>1. pieces \in Seq(PieceType) /\ Coarse(pieces) /\ EndsInField(pieces)
    BY DEF SpellInv
  <1>2. CASE piece = <<>>
    <2>1. Scanner!Flushed = pieces
      BY <1>2 DEF Scanner!Flushed
    <2>2. w \o piece = w
      BY <1>2, ConcatEmptySeq
    <2> QED
      BY <1>1, <2>1, <2>2
  <1>3. CASE piece # <<>>
    <2> DEFINE x == Scanner!Piece("LITERAL")
    <2>1. Scanner!Flushed = Append(pieces, x)
      BY <1>3 DEF Scanner!Flushed
    <2>2. x \in PieceType /\ x.value = piece /\ x.type = "LITERAL"
      BY DEF Scanner!Piece, PieceType
    <2> HIDE DEF x
    <2>3. Scanner!Written(x) = piece
      BY <2>2 DEF Scanner!Written
    <2> QED
      BY <1>1, <1>3, <2>1, <2>2, <2>3, CoarseGrows, OneMoreSpelled
  <1> QED
    BY <1>2, <1>3

LEMMA SpellCollect ==
    ASSUME Scanner!PlainIsNoToken, SpellInv, ScanInv', Scanner!Collect
    PROVE  SpellInv'
  <1> DEFINE x == pattern[scanned + 1]
  <1>1. Took /\ x \in Chars /\ piece' = Append(piece, x) /\ scan \in {"INIT", "FETCH"}
        /\ UNCHANGED <<scan, token, err, pieces>>
    BY DEF Scanner!Collect, Scanner!Take, Scanner!c, Took
  <1>2. err = "scanning"
    BY <1>1 DEF Took
  <1>3. PICK w : SpellsPrefix(w)
    BY <1>2 DEF SpellInv
  <1>4. x \in AnyChar /\ piece \in Seq(AnyChar) /\ w \in Seq(AnyChar) /\ Scanner!Unfinished \in Seq(AnyChar)
        /\ <<x>> \in Seq(AnyChar)
    BY <1>1, <1>2, <1>3, SpellFacts DEF AnyChar, SpellsPrefix
  <1>5. piece' = piece \o <<x>>
    BY <1>1, <1>4, AppendIsConcat
  <1> HIDE DEF x
  <1>6. Scanner!Unfinished' = Scanner!Unfinished \o <<x>>
    <2>1. CASE scan = "INIT"
      BY <1>1, <1>2, <1>5, <2>1, SpellFacts DEF Scanner!Unfinished
    <2>2. CASE scan = "FETCH"
      <3>1. Scanner!Unfinished = <<Scanner!Hash, token>> \o piece
        BY <1>2, <2>2, SpellFacts
      <3>2. Scanner!Unfinished' = <<Scanner!Hash, token>> \o piece'
        BY <1>1, <2>2 DEF Scanner!Unfinished
      <3>3. <<Scanner!Hash, token>> \in Seq(AnyChar)
        BY <1>2, <2>2, SpellFacts
      <3> QED
        BY <1>4, <1>5, <3>1, <3>2, <3>3, ConcatAssociative
    <2> QED
      BY <1>1, <2>1, <2>2
  <1>7. w \o Scanner!Unfinished' = (w \o Scanner!Unfinished) \o <<x>>
    BY <1>4, <1>6, ConcatAssociative
  <1>8. Spelled(pieces', w) /\ pieces' \in Seq(PieceType) /\ Coarse(pieces')
        /\ (scan' = "INIT" => EndsInField(pieces'))
    BY <1>1, <1>2, <1>3 DEF SpellInv, SpellsPrefix
  <1> QED
    BY <1>1, <1>3, <1>4, <1>7, <1>8, KeepsSpelling DEF x

LEMMA SpellStartToken ==
    ASSUME Scanner!PlainIsNoToken, SpellInv, ScanInv', Scanner!StartToken
    PROVE  SpellInv'
  <1>1. Took /\ pattern[scanned + 1] = Scanner!Hash /\ scan = "INIT" /\ pieces' = Scanner!Flushed
        /\ scan' = "MATCH_TOKEN" /\ UNCHANGED <<token, err>>
    BY DEF Scanner!StartToken, Scanner!Take, Took
  <1>2. err = "scanning"
    BY <1>1 DEF Took
  <1>3. PICK w : SpellsPrefix(w)
    BY <1>2 DEF SpellInv
  <1>4. /\ piece \in Seq(Chars) /\ piece \in Seq(AnyChar) /\ w \in Seq(AnyChar) /\ Spelled(pieces, w)
        /\ Scanner!Unfinished = piece
    BY <1>1, <1>2, <1>3, SpellFacts DEF SpellsPrefix
  <1>5. w \o piece \in Seq(AnyChar)
    BY <1>4, ConcatProperties
  <1>6. pieces' \in Seq(PieceType) /\ Coarse(pieces') /\ Spelled(pieces', w \o piece)
    BY <1>1, <1>2, <1>4, FlushedFacts
  <1>7. Scanner!Unfinished' = <<pattern[scanned + 1]>>
    BY <1>1 DEF Scanner!Unfinished
  <1>8. scan' # "INIT"
    BY <1>1
  <1> QED
    BY <1>1, <1>3, <1>4, <1>5, <1>6, <1>7, <1>8, KeepsSpelling

LEMMA SpellOpenField ==
    ASSUME Scanner!PlainIsNoToken, SpellInv, ScanInv', Scanner!OpenField
    PROVE  SpellInv'
  <1> DEFINE x == pattern[scanned + 1]
  <1>1. Took /\ x \in Scanner!Begins /\ token' = x
        /\ scan = "MATCH_TOKEN" /\ scan' = "FETCH" /\ UNCHANGED <<piece, err, pieces>>
    BY DEF Scanner!OpenField, Scanner!Take, Scanner!c, Took
  <1>2. err = "scanning"
    BY <1>1 DEF Took
  <1>3. PICK w : SpellsPrefix(w)
    BY <1>2 DEF SpellInv
  <1>4. piece = <<>> /\ w \in Seq(AnyChar) /\ Scanner!Unfinished = <<Scanner!Hash>>
        /\ Scanner!Hash \in AnyChar
    BY <1>1, <1>2, <1>3, SpellFacts DEF SpellsPrefix
  <1>5. x \in AnyChar
    BY <1>1 DEF AnyChar, Scanner!Tokens
  <1> HIDE DEF x
  <1>6. <<Scanner!Hash, x>> \in Seq(AnyChar) /\ <<Scanner!Hash>> \in Seq(AnyChar) /\ <<x>> \in Seq(AnyChar)
        /\ <<Scanner!Hash, x>> = <<Scanner!Hash>> \o <<x>>
    BY <1>4, <1>5
  <1>7. Scanner!Unfinished' = <<Scanner!Hash>> \o <<x>>
    <2>1. Scanner!Unfinished' = <<Scanner!Hash, x>> \o <<>>
      BY <1>1, <1>4 DEF Scanner!Unfinished
    <2> QED
      BY <1>6, <2>1, ConcatEmptySeq
  <1>8. w \o Scanner!Unfinished' = (w \o Scanner!Unfinished) \o <<x>>
    BY <1>4, <1>6, <1>7, ConcatAssociative
  <1>9. Spelled(pieces', w) /\ pieces' \in Seq(PieceType) /\ Coarse(pieces') /\ scan' # "INIT"
    BY <1>1, <1>3 DEF SpellInv, SpellsPrefix
  <1> QED
    BY <1>1, <1>3, <1>4, <1>8, <1>9, KeepsSpelling DEF x

LEMMA SpellCloseField ==
    ASSUME Scanner!PlainIsNoToken, SpellInv, ScanInv', Scanner!CloseField
    PROVE  SpellInv'
  <1> DEFINE e == pattern[scanned + 1]
             x == Scanner!Piece(Scanner!KindOf(token))
             open == <<Scanner!Hash, token>>
  <1>1. Took /\ e = Scanner!End(token) /\ piece # <<>> /\ piece' = <<>>
        /\ pieces' = Append(pieces, x)
        /\ scan = "FETCH" /\ scan' = "INIT" /\ UNCHANGED <<token, err>>
    BY DEF Scanner!CloseField, Scanner!Take, Took
  <1>2. err = "scanning"
    BY <1>1 DEF Took
  <1>3. PICK w : SpellsPrefix(w)
    BY <1>2 DEF SpellInv
  <1>4. /\ piece \in Seq(Chars) /\ piece \in Seq(AnyChar) /\ w \in Seq(AnyChar) /\ Spelled(pieces, w)
        /\ token \in Scanner!Begins /\ token \in AnyChar /\ e \in AnyChar /\ Scanner!Hash \in AnyChar
        /\ Scanner!Unfinished = open \o piece /\ Scanner!Unfinished \in Seq(AnyChar)
    BY <1>1, <1>2, <1>3, SpellFacts DEF SpellsPrefix
  <1>5. x \in PieceType /\ x.value = piece /\ x.type \in {"FIELD", "LIST"}
        /\ (x.type = "FIELD" <=> token = "{")
    BY <1>4 DEF Scanner!Piece, Scanner!KindOf, Scanner!Begins, PieceType
  <1>6. Scanner!Written(x) = (open \o piece) \o <<e>>
    BY <1>1, <1>4, <1>5 DEF Scanner!Written, Scanner!Begins, Scanner!End
  <1> HIDE DEF x, e
  <1>7. <<e>> \in Seq(AnyChar)
    BY <1>4
  <1> HIDE DEF open
  <1>8. Scanner!Unfinished \o <<e>> \in Seq(AnyChar)
        /\ w \o (Scanner!Unfinished \o <<e>>) = (w \o Scanner!Unfinished) \o <<e>>
        /\ w \o (Scanner!Unfinished \o <<e>>) \in Seq(AnyChar)
    BY <1>4, <1>7, ConcatAssociative, ConcatProperties
  <1> DEFINE v == w \o (Scanner!Unfinished \o <<e>>)
  <1>9. /\ pieces' \in Seq(PieceType) /\ Coarse(pieces') /\ EndsInField(pieces')
        /\ Spelled(pieces', v)
    <2>1. pieces \in Seq(PieceType) /\ Coarse(pieces) /\ x.type # "LITERAL"
      BY <1>5 DEF SpellInv
    <2>2. Scanner!Written(x) = Scanner!Unfinished \o <<e>>
      BY <1>4, <1>6
    <2> QED
      BY <1>1, <1>4, <1>5, <2>1, <2>2, CoarseGrows, OneMoreSpelled
  <1>10. v \o Scanner!Unfinished' = (w \o Scanner!Unfinished) \o <<e>>
    <2>1. Scanner!Unfinished' = <<>>
      BY <1>1 DEF Scanner!Unfinished
    <2>2. v \o <<>> = v
      BY <1>8, ConcatEmptySeq
    <2> QED
      BY <1>8, <2>1, <2>2
  <1> HIDE DEF v
  <1>11. v \in Seq(AnyChar)
    BY <1>8 DEF v
  <1> QED
    BY <1>1, <1>3, <1>9, <1>10, <1>11, KeepsSpelling DEF e

LEMMA SpellFinish ==
    ASSUME Scanner!PlainIsNoToken, SpellInv, ScanInv', Scanner!Finish
    PROVE  SpellInv'
  <1>1. err = "scanning" /\ scanned = Len(pattern) /\ UNCHANGED <<pattern, scanned, piece, scan>>
        /\ err' # "scanning"
    BY DEF Scanner!Finish
  <1>2. PICK w : SpellsPrefix(w)
    BY <1>1 DEF SpellInv
  <1>3. CASE scan = "INIT"
    <2>1. pieces' = Scanner!Flushed
      BY <1>3 DEF Scanner!Finish
    <2>2. /\ piece \in Seq(Chars) /\ piece \in Seq(AnyChar) /\ w \in Seq(AnyChar) /\ Spelled(pieces, w)
          /\ Scanner!Unfinished = piece /\ pattern \in Seq(AnyChar)
      BY <1>1, <1>2, <1>3, SpellFacts DEF SpellsPrefix
    <2>3. Prefix(scanned) = pattern
      BY <1>1, <2>2, SubSeqFull DEF Prefix
    <2>4. w \o piece = pattern
      BY <1>2, <2>2, <2>3 DEF SpellsPrefix
    <2>5. pieces' \in Seq(PieceType) /\ Coarse(pieces') /\ Spelled(pieces', pattern)
      BY <1>1, <1>3, <2>1, <2>2, <2>4, FlushedFacts
    <2> QED
      BY <1>1, <2>5 DEF SpellInv
  <1>4. CASE scan # "INIT"
    <2>1. pieces' = pieces /\ err' # "OK"
      BY <1>4 DEF Scanner!Finish
    <2> QED
      BY <1>1, <2>1 DEF SpellInv
  <1> QED
    BY <1>3, <1>4

LEMMA SpellFail ==
    ASSUME SpellInv, ScanInv',
           Scanner!IllegalToken \/ Scanner!IllegalBegin \/ Scanner!IllegalEnd
               \/ Scanner!Unmatched \/ Scanner!NoneField
    PROVE  SpellInv'
  <1>1. UNCHANGED pieces /\ err' # "OK" /\ err' # "scanning"
    BY DEF Scanner!IllegalToken, Scanner!IllegalBegin, Scanner!IllegalEnd, Scanner!Unmatched,
           Scanner!NoneField, Scanner!Fails
  <1> QED
    BY <1>1 DEF SpellInv

LEMMA SpellStep ==
    ASSUME Scanner!PlainIsNoToken, SpellInv, [Scanner!Next]_Scanner!vars
    PROVE  SpellInv'
  <1>1. ScanInv'
    BY ScanStep DEF SpellInv
  <1>2. CASE UNCHANGED Scanner!vars
    BY <1>1, <1>2 DEF Scanner!vars, SpellInv, SpellsPrefix, Scanner!Unfinished, Prefix
  <1> QED
    BY <1>1, <1>2, SpellCollect, SpellStartToken, SpellOpenField, SpellCloseField, SpellFinish, SpellFail
       DEF Scanner!Next

\* No character of a template is lost, doubled or moved: at every step the pieces
\* and what is being read spell what was read, in the end the pieces spell the
\* template, and they are its coarsest cut (SqlPattern::explode, var_pattern.cpp:59-164).
THEOREM PiecesAreTheTemplate == PartsSpec => []PiecesSpellPattern
  <1>1. PartsInit => SpellInv
    BY SpellInit DEF PartsInit
  <1>2. SpellInv /\ [PartsNext]_allVars => SpellInv'
    BY PartsSteps, SpellStep, PartsAssumption
  <1>3. SpellInv => PiecesSpellPattern
    <2> SUFFICES ASSUME SpellInv PROVE Scanner!PiecesSpellPattern
      BY DEF PiecesSpellPattern
    <2>1. err = "scanning" => Scanner!Text(pieces) \o Scanner!Unfinished = SubSeq(pattern, 1, scanned)
      BY TextIs DEF SpellInv, SpellsPrefix, Prefix
    <2>2. err = "OK" => Scanner!Text(pieces) = pattern
      BY TextIs DEF SpellInv
    <2> QED
      BY <2>1, <2>2 DEF SpellInv, Coarse, Scanner!PiecesSpellPattern
  <1> QED
    BY <1>1, <1>2, <1>3, PTL DEF PartsSpec

-----------------------------------------------------------------------------
(***************************************************************************)
(* The scanner of URL patterns, for paths of any length over any           *)
(* characters that are no tokens.                                          *)
(***************************************************************************)

UrlChar == UrlChars \cup {Url!Slash} \cup Url!Braces

LEMMA UrlCharFacts ==
    ASSUME Url!PathsAreText
    PROVE  /\ Url!Slash \notin UrlChars /\ Url!LeftBrace \notin UrlChars
           /\ Url!RightBrace \notin UrlChars
           /\ Url!LeftBrace # Url!RightBrace
           /\ Url!Slash # Url!LeftBrace /\ Url!Slash # Url!RightBrace
           /\ Url!Braces = {Url!LeftBrace, Url!RightBrace}
           /\ \A p \in Apis \cup Requests : p \in Seq(UrlChar)
  <1>1. Url!LeftBrace # Url!RightBrace /\ Url!Slash # Url!LeftBrace
        /\ Url!Slash # Url!RightBrace
    BY Zenon DEF Url!Slash, Url!LeftBrace, Url!RightBrace
  <1> QED
    BY <1>1 DEF Url!PathsAreText, Url!Braces, UrlChar

LEMMA SubSeqGrows ==
    ASSUME NEW p \in Seq(UrlChar), NEW r \in Nat, r < Len(p), NEW a \in 1..r + 1
    PROVE  /\ SubSeq(p, a, r) \in Seq(UrlChar)
           /\ SubSeq(p, a, r + 1) = Append(SubSeq(p, a, r), p[r + 1])
  <1>1. a \in 1..Len(p) /\ r + 1 \in a..Len(p) /\ (r + 1) - 1 = r
    OBVIOUS
  <1>2. SubSeq(p, a, r + 1) = SubSeq(p, a, r) \o <<p[r + 1]>>
    BY <1>1, SubSeqRecursiveSecond
  <1>3. SubSeq(p, a, r) \in Seq(UrlChar) /\ p[r + 1] \in UrlChar
    BY <1>1
  <1> QED
    BY <1>2, <1>3, AppendIsConcat

LEMMA StartFacts ==
    ASSUME NEW p \in Seq(UrlChar), NEW i
    PROVE  i \in Url!Starts(p) <=>
               /\ i \in 1..Len(p) /\ p[i] # Url!Slash
               /\ i = 1 \/ (i - 1 \in 1..Len(p) /\ p[i - 1] = Url!Slash)
  <1>1. DOMAIN p = 1..Len(p)
    OBVIOUS
  <1> QED
    BY <1>1 DEF Url!Starts

\* No section starts inside another.
LEMMA NoStartWithin ==
    ASSUME NEW p \in Seq(UrlChar), NEW i \in Nat, NEW k \in Nat, 1 <= i,
           \A x \in i..k : p[x] # Url!Slash,
           NEW y \in i + 1..k + 1
    PROVE  y \notin Url!Starts(p)
  <1>1. y - 1 \in i..k /\ y # 1
    OBVIOUS
  <1> QED
    BY <1>1, StartFacts

LEMMA SectionFacts ==
    ASSUME NEW p \in Seq(UrlChar), NEW i, NEW j, Url!SectionAt(p, i, j)
    PROVE  /\ i \in Url!Starts(p) /\ i \in 1..Len(p) /\ j \in i..Len(p) /\ j \in Nat
           /\ \A k \in i..j : p[k] # Url!Slash
           /\ j = Len(p) \/ p[j + 1] = Url!Slash
  <1>1. i \in 1..Len(p) /\ j \in i..Len(p) /\ i \in Url!Starts(p)
    BY StartFacts DEF Url!SectionAt
  <1> QED
    BY <1>1 DEF Url!SectionAt

\* Two of one start are one.
LEMMA OneSection ==
    ASSUME NEW p \in Seq(UrlChar), NEW i \in 1..Len(p), NEW j \in i..Len(p), NEW k \in i..Len(p),
           \A x \in i..j : p[x] # Url!Slash,
           \A x \in i..k : p[x] # Url!Slash,
           j = Len(p) \/ p[j + 1] = Url!Slash,
           k = Len(p) \/ p[k + 1] = Url!Slash
    PROVE  j = k
  <1>1. ~(j < k)
    <2> SUFFICES ASSUME j < k PROVE FALSE
      OBVIOUS
    <2>1. j + 1 \in i..k /\ j # Len(p)
      OBVIOUS
    <2> QED
      BY <2>1
  <1>2. ~(k < j)
    <2> SUFFICES ASSUME k < j PROVE FALSE
      OBVIOUS
    <2>1. k + 1 \in i..j /\ k # Len(p)
      OBVIOUS
    <2> QED
      BY <2>1
  <1> QED
    BY <1>1, <1>2

\* Every section ends.
LEMMA SectionEnds ==
    ASSUME NEW p \in Seq(UrlChar), NEW i \in Url!Starts(p)
    PROVE  \E j \in 1..Len(p) : Url!SectionAt(p, i, j)
  <1>1. i \in 1..Len(p) /\ p[i] # Url!Slash
    BY StartFacts
  <1> DEFINE T == {k \in i..Len(p) : k = Len(p) \/ p[k + 1] = Url!Slash}
  <1>2. PICK m \in T : \A k \in T : ~(k < m)
    <2>1. T \subseteq Nat /\ Len(p) \in T
      BY <1>1
    <2> HIDE DEF T
    <2>2. T # {}
      BY <2>1
    <2> QED
      BY <2>1, <2>2, LeastNatural
  <1>3. m \in i..Len(p) /\ (m = Len(p) \/ p[m + 1] = Url!Slash)
    OBVIOUS
  <1>4. ASSUME NEW k \in i..m
        PROVE  p[k] # Url!Slash
    <2> SUFFICES ASSUME p[k] = Url!Slash PROVE FALSE
      OBVIOUS
    <2>1. k # i
      BY <1>1
    <2>2. k - 1 \in i..Len(p) /\ (k - 1) + 1 = k /\ k - 1 < m
      BY <1>1, <1>3, <2>1
    <2>3. k - 1 \in T
      BY <2>2
    <2> HIDE DEF T
    <2> QED
      BY <1>2, <2>2, <2>3
  <1> QED
    BY <1>1, <1>3, <1>4 DEF Url!SectionAt

-----------------------------------------------------------------------------
(* The places of sections.                                                   *)

StartsBefore(p, i) == {k \in Url!Starts(p) : k < i}

LEMMA PlaceType ==
    ASSUME NEW p \in Seq(UrlChar), NEW i \in Nat
    PROVE  /\ IsFiniteSet(StartsBefore(p, i))
           /\ Url!Place(p, i) = Cardinality(StartsBefore(p, i))
           /\ Url!Place(p, i) \in Nat
  <1>1. IsFiniteSet(1..Len(p))
    BY FS_Interval
  <1>2. StartsBefore(p, i) \in SUBSET (1..Len(p))
    BY StartFacts DEF StartsBefore
  <1>3. IsFiniteSet(StartsBefore(p, i))
    BY <1>1, <1>2, FS_Subset
  <1>4. Cardinality(StartsBefore(p, i)) \in Nat
    BY <1>3, FS_CardinalityType
  <1>5. Url!Place(p, i) = Cardinality(StartsBefore(p, i))
    BY DEF Url!Place, StartsBefore, Url!Cardinality, Cardinality
  <1> QED
    BY <1>3, <1>4, <1>5

LEMMA FirstPlace ==
    ASSUME NEW p \in Seq(UrlChar)
    PROVE  Url!Place(p, 1) = 0
  <1>1. StartsBefore(p, 1) = {}
    BY StartFacts DEF StartsBefore
  <1> QED
    BY <1>1, PlaceType, FS_EmptySet

LEMMA SamePlace ==
    ASSUME NEW p \in Seq(UrlChar), NEW h \in Nat, NEW i \in Nat, h <= i,
           \A k \in h..i - 1 : k \notin Url!Starts(p)
    PROVE  Url!Place(p, i) = Url!Place(p, h)
  <1>1. \A k \in Url!Starts(p) : k \in Nat
    BY StartFacts
  <1>2. \A k \in Url!Starts(p) : k < i => k < h
    BY <1>1
  <1>3. StartsBefore(p, i) = StartsBefore(p, h)
    BY <1>1, <1>2 DEF StartsBefore
  <1> QED
    BY <1>3, PlaceType

LEMMA NextPlace ==
    ASSUME NEW p \in Seq(UrlChar), NEW h \in Url!Starts(p), NEW i \in Nat, h < i,
           \A k \in h + 1..i - 1 : k \notin Url!Starts(p)
    PROVE  Url!Place(p, i) = Url!Place(p, h) + 1
  <1>1. h \in Nat /\ \A k \in Url!Starts(p) : k \in Nat
    BY StartFacts
  <1>2. \A k \in Url!Starts(p) : k < i <=> k < h \/ k = h
    BY <1>1
  <1>3. StartsBefore(p, i) = StartsBefore(p, h) \cup {h} /\ h \notin StartsBefore(p, h)
    <2>1. \A k : k \in StartsBefore(p, i) <=> k \in StartsBefore(p, h) \/ k = h
      BY <1>2 DEF StartsBefore
    <2>2. ~(h < h)
      BY <1>1
    <2> QED
      BY <2>1, <2>2 DEF StartsBefore
  <1>4. IsFiniteSet(StartsBefore(p, h))
    BY <1>1, PlaceType
  <1>5. Cardinality(StartsBefore(p, i)) = Cardinality(StartsBefore(p, h)) + 1
    BY <1>3, <1>4, FS_AddElement
  <1> QED
    BY <1>1, <1>5, PlaceType

LEMMA LaterPlace ==
    ASSUME NEW p \in Seq(UrlChar), NEW h \in Url!Starts(p), NEW i \in Url!Starts(p), h < i
    PROVE  Url!Place(p, h) # Url!Place(p, i)
  <1>1. h \in Nat /\ i \in Nat /\ \A k \in Url!Starts(p) : k \in Nat
    BY StartFacts
  <1>2. StartsBefore(p, h) \in SUBSET StartsBefore(p, i)
    <2>1. \A k \in Url!Starts(p) : k < h => k < i
      BY <1>1
    <2> QED
      BY <2>1 DEF StartsBefore
  <1>3. h \in StartsBefore(p, i) /\ h \notin StartsBefore(p, h)
    BY <1>1 DEF StartsBefore
  <1>4. IsFiniteSet(StartsBefore(p, i))
    BY <1>1, PlaceType
  <1>5. Cardinality(StartsBefore(p, h)) # Cardinality(StartsBefore(p, i))
    BY <1>2, <1>3, <1>4, FS_Subset
  <1> QED
    BY <1>1, <1>5, PlaceType

LEMMA PlacesDiffer ==
    ASSUME NEW p \in Seq(UrlChar), NEW h \in Url!Starts(p), NEW i \in Url!Starts(p),
           Url!Place(p, h) = Url!Place(p, i)
    PROVE  h = i
  <1>1. h \in Nat /\ i \in Nat
    BY StartFacts
  <1>2. ~(h < i) /\ ~(i < h)
    BY LaterPlace
  <1> QED
    BY <1>1, <1>2

-----------------------------------------------------------------------------
(* What explode_path_vars knows of what it has read.                         *)

\* From i to k the section of i has only plain characters,
PlainRun(p, i, k) ==
    /\ i \in Url!Starts(p) /\ i <= k
    /\ \A x \in i..k : p[x] \in UrlChars

\* or is a variable in its braces.
Whole(p, i, k) ==
    /\ i \in Url!Starts(p) /\ 1 < i /\ i + 1 < k
    /\ p[i] = Url!LeftBrace /\ p[k] = Url!RightBrace
    /\ \A x \in i + 1..k - 1 : p[x] \in UrlChars

\* Up to r the section of i is one or the other, and ended if r is not its end.
Passed(p, i, r) ==
    \E k \in i..r : /\ PlainRun(p, i, k) \/ Whole(p, i, k)
                    /\ k = r \/ p[k + 1] = Url!Slash

AllPassed(p, r) == \A i \in Url!Starts(p) : i <= r => Passed(p, i, r)

\* f has the variables up to r under the places of their sections.
Mapped(f, p, r) ==
    /\ DOMAIN f = {Url!Place(p, i) : i \in {i \in Url!Starts(p) : \E k \in 1..r : Whole(p, i, k)}}
    /\ \A i \in Url!Starts(p) : \A k \in 1..r :
         Whole(p, i, k) => f[Url!Place(p, i)] = SubSeq(p, i + 1, k - 1)

LEMMA RunFacts ==
    ASSUME Url!PathsAreText, NEW p \in Seq(UrlChar), NEW i, NEW k \in Nat,
           PlainRun(p, i, k) \/ Whole(p, i, k)
    PROVE  /\ i \in 1..Len(p) /\ i \in Url!Starts(p) /\ i <= k
           /\ \A x \in i..k : p[x] # Url!Slash
  <1>1. i \in 1..Len(p) /\ i \in Url!Starts(p) /\ i <= k
    <2>1. i \in Url!Starts(p) /\ (i <= k \/ i + 1 < k)
      BY DEF PlainRun, Whole
    <2>2. i \in 1..Len(p)
      BY <2>1, StartFacts
    <2> QED
      BY <2>1, <2>2
  <1>2. ASSUME NEW x \in i..k
        PROVE  p[x] # Url!Slash
    <2>1. CASE PlainRun(p, i, k)
      BY <2>1, UrlCharFacts DEF PlainRun
    <2>2. CASE Whole(p, i, k)
      <3>1. x = i \/ x = k \/ x \in i + 1..k - 1
        BY <1>1
      <3> QED
        BY <2>2, <3>1, UrlCharFacts DEF Whole
    <2> QED
      BY <2>1, <2>2
  <1> QED
    BY <1>1, <1>2

LEMMA PassedSection ==
    ASSUME Url!PathsAreText, NEW p \in Seq(UrlChar), NEW i \in Nat, NEW k \in Nat,
           PlainRun(p, i, k) \/ Whole(p, i, k), AllPassed(p, i - 1)
    PROVE  AllPassed(p, k)
  <1>1. i \in 1..Len(p) /\ i \in Url!Starts(p) /\ i <= k
        /\ \A x \in i..k : p[x] # Url!Slash
    BY RunFacts
  <1> SUFFICES ASSUME NEW h \in Url!Starts(p), h <= k
               PROVE  Passed(p, h, k)
    BY DEF AllPassed
  <1>2. h \in 1..Len(p) /\ h \in Nat
    BY StartFacts
  <1>3. CASE h = i
    BY <1>1, <1>2, <1>3 DEF Passed
  <1>4. CASE h > i
    <2>1. h \in i + 1..k + 1 /\ 1 <= i
      BY <1>1, <1>2, <1>4
    <2>2. h \notin Url!Starts(p)
      BY <1>1, <2>1, NoStartWithin
    <2> QED
      BY <2>2
  <1>5. CASE h < i
    <2>1. h <= i - 1
      BY <1>2, <1>5
    <2>2. PICK y \in h..i - 1 : /\ PlainRun(p, h, y) \/ Whole(p, h, y)
                                /\ y = i - 1 \/ p[y + 1] = Url!Slash
      BY <2>1 DEF AllPassed, Passed
    <2>3. y \in Nat /\ y \in h..y
      BY <1>2, <2>2
    <2>4. p[y] # Url!Slash
      BY <2>2, <2>3, RunFacts
    <2>5. i # 1 /\ p[i - 1] = Url!Slash
      BY <1>1, <1>2, <1>5, StartFacts
    <2>6. p[y + 1] = Url!Slash
      BY <2>2, <2>4, <2>5
    <2>7. y \in h..k
      BY <1>1, <2>2, <2>3
    <2> QED
      BY <2>2, <2>6, <2>7 DEF Passed
  <1> QED
    BY <1>1, <1>2, <1>3, <1>4, <1>5

LEMMA PassedSlash ==
    ASSUME NEW p \in Seq(UrlChar), NEW r \in Nat, AllPassed(p, r), p[r + 1] = Url!Slash
    PROVE  AllPassed(p, r + 1)
  <1> SUFFICES ASSUME NEW h \in Url!Starts(p), h <= r + 1
               PROVE  Passed(p, h, r + 1)
    BY DEF AllPassed
  <1>1. h \in Nat /\ h # r + 1
    BY StartFacts
  <1>2. PICK k \in h..r : /\ PlainRun(p, h, k) \/ Whole(p, h, k)
                          /\ k = r \/ p[k + 1] = Url!Slash
    BY <1>1 DEF AllPassed, Passed
  <1>3. k \in h..r + 1 /\ p[k + 1] = Url!Slash
    BY <1>1, <1>2
  <1> QED
    BY <1>2, <1>3 DEF Passed

\* When all has passed the path is well formed, and its variables are those in
\* braces.
LEMMA WholeIsVariable ==
    ASSUME Url!PathsAreText, NEW p \in Seq(UrlChar), AllPassed(p, Len(p)),
           NEW i \in 1..Len(p), NEW j \in 1..Len(p)
    PROVE  /\ Url!SectionAt(p, i, j) => PlainRun(p, i, j) \/ Whole(p, i, j)
           /\ Url!VariableAt(p, i, j) <=> Whole(p, i, j)
  <1>1. ASSUME Url!SectionAt(p, i, j)
        PROVE  PlainRun(p, i, j) \/ Whole(p, i, j)
    <2>1. i \in Url!Starts(p) /\ j \in i..Len(p) /\ \A k \in i..j : p[k] # Url!Slash
          /\ (j = Len(p) \/ p[j + 1] = Url!Slash)
      BY <1>1, SectionFacts
    <2>2. PICK k \in i..Len(p) : /\ PlainRun(p, i, k) \/ Whole(p, i, k)
                                 /\ k = Len(p) \/ p[k + 1] = Url!Slash
      BY <2>1 DEF AllPassed, Passed
    <2>3. \A x \in i..k : p[x] # Url!Slash
      BY <2>2, RunFacts
    <2>4. j = k
      BY <2>1, <2>2, <2>3, OneSection
    <2> QED
      BY <2>2, <2>4
  <1>2. ASSUME Url!VariableAt(p, i, j)
        PROVE  Whole(p, i, j)
    <2>1. Url!SectionAt(p, i, j) /\ p[i] = Url!LeftBrace
      BY <1>2 DEF Url!VariableAt
    <2>2. ~PlainRun(p, i, j)
      <3>1. PlainRun(p, i, j) => p[i] \in UrlChars
        BY DEF PlainRun
      <3> QED
        BY <2>1, <3>1, UrlCharFacts
    <2> QED
      BY <1>1, <2>1, <2>2
  <1>3. ASSUME Whole(p, i, j)
        PROVE  Url!VariableAt(p, i, j)
    <2>1. i \in Url!Starts(p) /\ \A x \in i..j : p[x] # Url!Slash
      BY <1>3, RunFacts
    <2>2. PICK k \in i..Len(p) : /\ PlainRun(p, i, k) \/ Whole(p, i, k)
                                 /\ k = Len(p) \/ p[k + 1] = Url!Slash
      BY <2>1 DEF AllPassed, Passed
    <2>3. p[i] \notin UrlChars /\ p[j] \notin UrlChars /\ i + 1 < j /\ p[i] # Url!RightBrace
      BY <1>3, UrlCharFacts DEF Whole
    <2>4. Whole(p, i, k)
      BY <2>2, <2>3 DEF PlainRun
    <2>5. k = j
      <3>1. p[k] \notin UrlChars /\ i + 1 < k /\ \A x \in i + 1..k - 1 : p[x] \in UrlChars
        BY <2>4, UrlCharFacts DEF Whole
      <3>2. \A x \in i + 1..j - 1 : p[x] \in UrlChars
        BY <1>3 DEF Whole
      <3>3. k \notin i + 1..j - 1 /\ j \notin i + 1..k - 1
        BY <2>3, <3>1, <3>2
      <3> QED
        BY <2>3, <3>1, <3>3
    <2>6. Url!SectionAt(p, i, j)
      BY <2>1, <2>2, <2>3, <2>5 DEF Url!SectionAt
    <2>7. Url!BraceFree(p, i + 1, j - 1)
      <3>1. \A x \in i + 1..j - 1 : p[x] \in UrlChars
        BY <1>3 DEF Whole
      <3> QED
        BY <3>1, UrlCharFacts DEF Url!BraceFree
    <2> QED
      BY <1>3, <2>6, <2>7 DEF Url!VariableAt, Whole
  <1> QED
    BY <1>1, <1>2, <1>3

LEMMA AcceptedPath ==
    ASSUME Url!PathsAreText, NEW p \in Seq(UrlChar), AllPassed(p, Len(p)),
           NEW f, Mapped(f, p, Len(p))
    PROVE  /\ Url!WellFormed(p)
           /\ DOMAIN f = {Url!Place(p, i) : i \in Url!Variables(p)}
           /\ \A i, j \in DOMAIN p :
                Url!VariableAt(p, i, j) => f[Url!Place(p, i)] = SubSeq(p, i + 1, j - 1)
  <1>1. DOMAIN p = 1..Len(p)
    OBVIOUS
  <1>2. ASSUME NEW i \in 1..Len(p), NEW j \in 1..Len(p), Url!SectionAt(p, i, j)
        PROVE  Url!BraceFree(p, i, j) \/ Url!VariableAt(p, i, j)
    <2>1. CASE PlainRun(p, i, j)
      BY <2>1, UrlCharFacts DEF PlainRun, Url!BraceFree
    <2>2. CASE Whole(p, i, j)
      BY <2>2, WholeIsVariable
    <2> QED
      BY <1>2, <2>1, <2>2, WholeIsVariable
  <1>3. Url!WellFormed(p)
    BY <1>1, <1>2 DEF Url!WellFormed
  <1>4. Url!Variables(p) = {i \in Url!Starts(p) : \E k \in 1..Len(p) : Whole(p, i, k)}
    <2>1. \A i \in Url!Starts(p) : i \in 1..Len(p)
      BY StartFacts
    <2>2. \A i, k \in 1..Len(p) : Whole(p, i, k) => i \in Url!Starts(p)
      BY DEF Whole
    <2> QED
      BY <1>1, <2>1, <2>2, WholeIsVariable DEF Url!Variables
  <1>5. ASSUME NEW i \in 1..Len(p), NEW j \in 1..Len(p), Url!VariableAt(p, i, j)
        PROVE  f[Url!Place(p, i)] = SubSeq(p, i + 1, j - 1)
    <2>1. Whole(p, i, j) /\ i \in Url!Starts(p)
      BY <1>5, WholeIsVariable DEF Whole
    <2> QED
      BY <2>1 DEF Mapped
  <1> QED
    BY <1>1, <1>3, <1>4, <1>5 DEF Mapped

LEMMA MappedStill ==
    ASSUME NEW p \in Seq(UrlChar), NEW r \in Nat, NEW f, Mapped(f, p, r), p[r + 1] # Url!RightBrace
    PROVE  Mapped(f, p, r + 1)
  <1>1. \A i : ~Whole(p, i, r + 1)
    BY DEF Whole
  <1>2. \A i : \A k \in 1..r + 1 : Whole(p, i, k) => k \in 1..r
    BY <1>1
  <1>3. 1..r \subseteq 1..r + 1
    OBVIOUS
  <1>4. {i \in Url!Starts(p) : \E k \in 1..r + 1 : Whole(p, i, k)}
         = {i \in Url!Starts(p) : \E k \in 1..r : Whole(p, i, k)}
    BY <1>2, <1>3
  <1> QED
    BY <1>2, <1>4 DEF Mapped

LEMMA MappedMore ==
    ASSUME Url!PathsAreText, NEW p \in Seq(UrlChar), NEW r \in Nat, NEW f, Mapped(f, p, r),
           NEW i, Whole(p, i, r + 1), NEW n, n = Url!Place(p, i)
    PROVE  Mapped(Url!Emplaced(f, n, SubSeq(p, i + 1, r)), p, r + 1)
  <1> DEFINE V(k) == {h \in Url!Starts(p) : \E x \in 1..k : Whole(p, h, x)}
             w == SubSeq(p, i + 1, r)
             g == Url!Emplaced(f, n, w)
  <1>1. i \in Url!Starts(p) /\ i \in Nat /\ i <= r /\ p[i] = Url!LeftBrace
        /\ \A x \in i + 1..r : p[x] \in UrlChars
    BY StartFacts DEF Whole
  <1>2. ASSUME NEW h \in Url!Starts(p), Whole(p, h, r + 1)
        PROVE  h = i
    <2>1. h \in Nat /\ h <= r /\ p[h] = Url!LeftBrace /\ \A x \in h + 1..r : p[x] \in UrlChars
      BY <1>2, StartFacts DEF Whole
    <2>2. h \notin i + 1..r /\ i \notin h + 1..r
      BY <1>1, <2>1, UrlCharFacts
    <2> QED
      BY <1>1, <2>1, <2>2
  <1>3. ASSUME NEW k \in 1..r
        PROVE  ~Whole(p, i, k)
    <2>1. Whole(p, i, k) => k \in i + 1..r /\ p[k] = Url!RightBrace
      BY <1>1 DEF Whole
    <2> QED
      BY <1>1, <2>1, UrlCharFacts
  <1>4. \A h \in Url!Starts(p) : \A x \in 1..r + 1 :
          Whole(p, h, x) => x \in 1..r \/ (h = i /\ x = r + 1)
    BY <1>2
  <1>5. r + 1 \in 1..r + 1 /\ 1..r \subseteq 1..r + 1
    OBVIOUS
  <1>6. V(r + 1) = V(r) \cup {i}
    BY <1>1, <1>4, <1>5
  <1>7. DOMAIN g = DOMAIN f \cup {n}
    BY DEF Url!Emplaced
  <1>8. DOMAIN g = {Url!Place(p, h) : h \in V(r + 1)}
    BY <1>6, <1>7 DEF Mapped
  <1>9. n \notin DOMAIN f
    <2> SUFFICES ASSUME n \in DOMAIN f PROVE FALSE
      OBVIOUS
    <2>1. PICK h \in V(r) : n = Url!Place(p, h)
      BY DEF Mapped
    <2>2. h = i
      BY <1>1, <2>1, PlacesDiffer
    <2> QED
      BY <1>3, <2>1, <2>2
  <1>10. g[n] = w /\ \A m \in DOMAIN f : g[m] = f[m]
    BY <1>9 DEF Url!Emplaced
  <1> HIDE DEF g, w
  <1>11. ASSUME NEW h \in Url!Starts(p), NEW k \in 1..r + 1, Whole(p, h, k)
         PROVE  g[Url!Place(p, h)] = SubSeq(p, h + 1, k - 1)
    <2>1. CASE h = i /\ k = r + 1
      BY <1>10, <2>1 DEF w
    <2>2. CASE k \in 1..r
      <3>1. f[Url!Place(p, h)] = SubSeq(p, h + 1, k - 1) /\ Url!Place(p, h) \in DOMAIN f
        BY <1>11, <2>2 DEF Mapped
      <3> QED
        BY <1>10, <3>1
    <2> QED
      BY <1>4, <1>11, <2>1, <2>2
  <1> QED
    BY <1>8, <1>11 DEF Mapped, g, w

-----------------------------------------------------------------------------
(* What makes a path ill formed.                                             *)

LEMMA BadSection ==
    ASSUME NEW p \in Seq(UrlChar), NEW i \in Url!Starts(p),
           \A j \in 1..Len(p) : Url!SectionAt(p, i, j) => ~Url!BraceFree(p, i, j) /\ ~Url!VariableAt(p, i, j)
    PROVE  ~Url!WellFormed(p)
  <1>1. DOMAIN p = 1..Len(p) /\ i \in 1..Len(p)
    BY StartFacts
  <1>2. PICK j \in 1..Len(p) : Url!SectionAt(p, i, j)
    BY SectionEnds
  <1> QED
    BY <1>1, <1>2 DEF Url!WellFormed

\* A section goes on as far as there is no slash.
LEMMA SectionReaches ==
    ASSUME NEW p \in Seq(UrlChar), NEW i \in Url!Starts(p), NEW k \in i..Len(p),
           \A x \in i..k : p[x] # Url!Slash,
           NEW j, Url!SectionAt(p, i, j)
    PROVE  j \in k..Len(p)
  <1>1. i \in 1..Len(p) /\ j \in i..Len(p) /\ (j = Len(p) \/ p[j + 1] = Url!Slash)
    BY SectionFacts
  <1>2. j < k => j + 1 \in i..k /\ j # Len(p)
    BY <1>1
  <1> QED
    BY <1>1, <1>2

\* A brace in a section that does not begin with one, or that is the path's
\* beginning.
LEMMA StrayBrace ==
    ASSUME Url!PathsAreText, NEW p \in Seq(UrlChar), NEW i \in Url!Starts(p), NEW k \in i..Len(p),
           \A x \in i..k : p[x] # Url!Slash,
           p[k] \in Url!Braces, p[i] # Url!LeftBrace \/ i = 1
    PROVE  ~Url!WellFormed(p)
  <1>1. ASSUME NEW j \in 1..Len(p), Url!SectionAt(p, i, j)
        PROVE  ~Url!BraceFree(p, i, j) /\ ~Url!VariableAt(p, i, j)
    <2>1. k \in i..j
      BY <1>1, SectionReaches
    <2> QED
      BY <2>1 DEF Url!BraceFree, Url!VariableAt
  <1> QED
    BY <1>1, BadSection

\* Something behind a variable that is no slash.
LEMMA BehindVariable ==
    ASSUME Url!PathsAreText, NEW p \in Seq(UrlChar), NEW i, NEW r \in Nat, Whole(p, i, r),
           r < Len(p), p[r + 1] # Url!Slash
    PROVE  ~Url!WellFormed(p)
  <1>1. i \in 1..Len(p) /\ i \in Url!Starts(p) /\ i <= r /\ \A x \in i..r : p[x] # Url!Slash
    BY RunFacts
  <1>2. r + 1 \in i..Len(p) /\ \A x \in i..r + 1 : p[x] # Url!Slash
    BY <1>1
  <1>3. ASSUME NEW j \in 1..Len(p), Url!SectionAt(p, i, j)
        PROVE  ~Url!BraceFree(p, i, j) /\ ~Url!VariableAt(p, i, j)
    <2>1. j \in r + 1..Len(p)
      BY <1>1, <1>2, <1>3, SectionReaches
    <2>2. i \in i..j /\ r \in i + 1..j - 1
      BY <1>1, <2>1 DEF Whole
    <2>3. p[i] \in Url!Braces /\ p[r] \in Url!Braces
      BY UrlCharFacts DEF Whole
    <2> QED
      BY <2>2, <2>3 DEF Url!BraceFree, Url!VariableAt
  <1> QED
    BY <1>1, <1>3, BadSection

\* A variable is open after r characters, m of them its name,
Opening(p, r, m) ==
    /\ r - m \in Url!Starts(p) /\ 1 < r - m /\ p[r - m] = Url!LeftBrace
    /\ \A x \in r - m + 1..r : p[x] \in UrlChars

\* and what follows does not close it, or there was no name.
LEMMA OpenVariableBreaks ==
    ASSUME Url!PathsAreText, NEW p \in Seq(UrlChar), NEW r \in 0..Len(p), NEW m \in Nat, Opening(p, r, m),
           \/ r = Len(p)
           \/ p[r + 1] \in {Url!Slash, Url!LeftBrace}
           \/ p[r + 1] = Url!RightBrace /\ m = 0
    PROVE  ~Url!WellFormed(p)
  <1>1. PICK i \in Nat : i = r - m
    BY StartFacts DEF Opening
  <1>2. /\ i \in Url!Starts(p) /\ i \in 1..Len(p) /\ i <= r /\ p[i] = Url!LeftBrace /\ r \in i..Len(p)
        /\ \A x \in i + 1..r : p[x] \in UrlChars
    BY <1>1, StartFacts DEF Opening
  <1>3. \A x \in i..r : p[x] # Url!Slash
    <2>1. \A x \in i..r : x = i \/ x \in i + 1..r
      BY <1>2
    <2> QED
      BY <1>2, <2>1, UrlCharFacts
  <1>4. ASSUME NEW j \in 1..Len(p), Url!SectionAt(p, i, j)
        PROVE  ~Url!BraceFree(p, i, j) /\ ~Url!VariableAt(p, i, j)
    <2>1. j \in r..Len(p) /\ (j = Len(p) \/ p[j + 1] = Url!Slash) /\ \A x \in i..j : p[x] # Url!Slash
      BY <1>2, <1>3, <1>4, SectionReaches, SectionFacts
    <2>2. ~Url!BraceFree(p, i, j)
      <3>1. i \in i..j /\ p[i] \in Url!Braces
        BY <1>2, <2>1, UrlCharFacts
      <3> QED
        BY <3>1 DEF Url!BraceFree
    <2> SUFFICES ASSUME Url!VariableAt(p, i, j) PROVE FALSE
      BY <2>2
    <2>3. i + 1 < j /\ p[j] = Url!RightBrace /\ \A x \in i + 1..j - 1 : p[x] \notin Url!Braces
      BY DEF Url!VariableAt, Url!BraceFree
    <2>4. j # r
      <3>1. j = r => j \in i + 1..r
        BY <1>2, <2>3
      <3> QED
        BY <1>2, <2>3, <3>1, UrlCharFacts
    <2>5. r + 1 \in i..j /\ r # Len(p)
      BY <1>2, <2>1, <2>4
    <2>6. p[r + 1] \in Url!Braces /\ (p[r + 1] = Url!LeftBrace \/ m = 0)
      BY <2>1, <2>5, UrlCharFacts
    <2>7. r + 1 = j
      <3>1. r + 1 \notin i + 1..j - 1
        BY <2>3, <2>6
      <3> QED
        BY <1>2, <2>5, <3>1
    <2>8. p[r + 1] = Url!RightBrace
      BY <2>3, <2>7
    <2>9. m = 0
      BY <2>6, <2>8, UrlCharFacts
    <2> QED
      BY <1>1, <2>3, <2>7, <2>9
  <1> QED
    BY <1>2, <1>4, BadSection

-----------------------------------------------------------------------------
(* The scan of a pattern.                                                    *)

\* A literal is being read, or a variable has been: n is its place.
Literally(p, r, n) ==
    \E i \in Url!Starts(p) : AllPassed(p, i - 1) /\ n = Url!Place(p, i) /\ PlainRun(p, i, r)
Variably(p, r, n) ==
    \E i \in Url!Starts(p) : AllPassed(p, i - 1) /\ n = Url!Place(p, i) /\ Whole(p, i, r)

\* Where the scan stands.
Unbegun == read = 0 /\ ~start_flag /\ idx = 0
Between ==
    /\ start_flag
    /\ \/ Literally(path, read, idx)
       \/ Variably(path, read, idx) /\ read < Len(path) /\ path[read + 1] = Url!Slash
Behind == read > 0 /\ path[read] = Url!Slash /\ AllPassed(path, read) /\ idx = Url!Place(path, read + 1)
Naming ==
    /\ Opening(path, read, Len(section))
    /\ AllPassed(path, read - Len(section) - 1)
    /\ idx = Url!Place(path, read - Len(section))
    /\ section = SubSeq(path, read - Len(section) + 1, read)

Exploding ==
    /\ path \in Seq(UrlChar)
    /\ read \in 0..Len(path)
    /\ section \in Seq(UrlChar)
    /\ Mapped(found, path, read)
    /\ state # "FETCH" => section = <<>>
    /\ state # "INIT" => start_flag
    /\ \/ state = "INIT" /\ (Unbegun \/ Between)
       \/ state = "MATCH_TOKEN" /\ Behind
       \/ state = "NORMAL" /\ Literally(path, read, idx)
       \/ state = "FETCH" /\ Naming
       \/ state = "END_FETCH" /\ Variably(path, read, idx)

UrlErrors == {"ILL_TOKEN", "ILL_BEGIN", "ILL_END", "NONE_FIELD"}

\* The map is what the path says.
Exploded(f, p) ==
    /\ Url!WellFormed(p)
    /\ DOMAIN f = {Url!Place(p, i) : i \in Url!Variables(p)}
    /\ \A i, j \in DOMAIN p :
         Url!VariableAt(p, i, j) => f[Url!Place(p, i)] = SubSeq(p, i + 1, j - 1)

ExplodeInv ==
    /\ job \in {"none", "explode", "OK", "fetch", "fetched"} \cup UrlErrors
    /\ job = "none" => found = Url!Empty
    /\ job = "explode" => Exploding
    /\ job = "OK" => Exploded(found, path)
    /\ job \in UrlErrors => found = Url!Empty /\ ~Url!WellFormed(path)

\* What a step that looks at the next character knows.
LEMMA LookFacts ==
    ASSUME ExplodeInv, NEW s, NEW cs, Url!At("explode", s, cs)
    PROVE  /\ Exploding /\ job = "explode" /\ state \in s
           /\ path \in Seq(UrlChar) /\ read \in Nat /\ read \in 0..Len(path) /\ read < Len(path)
           /\ read + 1 \in 1..Len(path) /\ read + 1 \in 0..Len(path)
           /\ path[read + 1] \in cs /\ section \in Seq(UrlChar) /\ Mapped(found, path, read)
  BY DEF Url!At, ExplodeInv, Exploding

\* What a step that takes a character has to show.
LEMMA GoesOnExploding ==
    ASSUME ExplodeInv, job = "explode", read < Len(path), UNCHANGED <<job, path, found, section>>,
           Url!Advance, path[read + 1] # Url!RightBrace, section = <<>> \/ state' = "FETCH", start_flag',
           \/ state' = "INIT" /\ Between'
           \/ state' = "MATCH_TOKEN" /\ Behind'
           \/ state' = "NORMAL" /\ Literally(path, read + 1, idx')
           \/ state' = "FETCH" /\ Naming'
    PROVE  ExplodeInv'
  <1>1. Exploding
    BY DEF ExplodeInv
  <1>2. read' = read + 1 /\ read' \in 0..Len(path)
    BY <1>1 DEF Exploding, Url!Advance
  <1>3. Mapped(found, path, read + 1)
    BY <1>1, MappedStill DEF Exploding
  <1>4. Exploding'
    BY <1>1, <1>2, <1>3 DEF Exploding
  <1> QED
    BY <1>4 DEF ExplodeInv, UrlErrors

LEMMA LiteralGrows ==
    ASSUME NEW p \in Seq(UrlChar), NEW r \in Nat, NEW n, Literally(p, r, n), p[r + 1] \in UrlChars
    PROVE  Literally(p, r + 1, n)
  <1>1. PICK i \in Url!Starts(p) : AllPassed(p, i - 1) /\ n = Url!Place(p, i) /\ PlainRun(p, i, r)
    BY DEF Literally
  <1>2. PlainRun(p, i, r + 1)
    <2>1. i \in Nat /\ i <= r
      BY <1>1, StartFacts DEF PlainRun
    <2>2. \A x \in i..r + 1 : x \in i..r \/ x = r + 1
      BY <2>1
    <2> QED
      BY <1>1, <2>1, <2>2 DEF PlainRun
  <1> QED
    BY <1>1, <1>2 DEF Literally

\* A literal begins after a slash, or as the path does.
LEMMA LiteralBegins ==
    ASSUME Url!PathsAreText, NEW p \in Seq(UrlChar), NEW r \in Nat, r < Len(p), AllPassed(p, r),
           r = 0 \/ p[r] = Url!Slash, p[r + 1] \in UrlChars
    PROVE  Literally(p, r + 1, Url!Place(p, r + 1))
  <1>1. r + 1 \in Url!Starts(p)
    BY StartFacts, UrlCharFacts
  <1>2. PlainRun(p, r + 1, r + 1)
    BY <1>1 DEF PlainRun
  <1>3. (r + 1) - 1 = r
    OBVIOUS
  <1> QED
    BY <1>1, <1>2, <1>3 DEF Literally

LEMMA NothingPassed ==
    ASSUME NEW p \in Seq(UrlChar)
    PROVE  AllPassed(p, 0) /\ Url!Place(p, 1) = 0
  <1>1. \A i \in Url!Starts(p) : ~(i <= 0)
    BY StartFacts
  <1> QED
    BY <1>1, FirstPlace DEF AllPassed

\* A slash ends a section: the next one has the next place.
LEMMA SectionPassed ==
    ASSUME Url!PathsAreText, NEW p \in Seq(UrlChar), NEW r \in Nat, NEW n,
           Literally(p, r, n) \/ Variably(p, r, n), p[r + 1] = Url!Slash
    PROVE  AllPassed(p, r + 1) /\ Url!Place(p, r + 2) = n + 1
  <1>1. PICK i \in Url!Starts(p) : /\ AllPassed(p, i - 1) /\ n = Url!Place(p, i)
                                   /\ PlainRun(p, i, r) \/ Whole(p, i, r)
    BY DEF Literally, Variably
  <1>2. i \in 1..Len(p) /\ i <= r /\ \A x \in i..r : p[x] # Url!Slash
    BY <1>1, RunFacts
  <1>3. AllPassed(p, r)
    BY <1>1, <1>2, PassedSection
  <1>4. AllPassed(p, r + 1)
    BY <1>3, PassedSlash
  <1>5. ASSUME NEW k \in i + 1..r + 1
        PROVE  k \notin Url!Starts(p)
    <2>1. i \in Nat /\ 1 <= i
      BY <1>2
    <2> QED
      BY <1>2, <2>1, NoStartWithin
  <1>6. Url!Place(p, r + 2) = Url!Place(p, i) + 1
    <2>1. r + 2 \in Nat /\ i < r + 2 /\ (r + 2) - 1 = r + 1
      BY <1>2
    <2> QED
      BY <1>5, <2>1, NextPlace
  <1> QED
    BY <1>1, <1>4, <1>6

LEMMA ExplodeStarts ==
    ASSUME Url!PathsAreText, ExplodeInv, NEW p \in Apis, Url!explode_path_vars(p)
    PROVE  ExplodeInv'
  <1>1. found' = <<>> /\ job' = "explode" /\ path' = p /\ read' = 0 /\ state' = "INIT"
        /\ ~start_flag' /\ idx' = 0 /\ section' = <<>>
    BY DEF Url!explode_path_vars, Url!Scan, ExplodeInv, Url!Empty
  <1>2. p \in Seq(UrlChar) /\ 0 \in 0..Len(p) /\ <<>> \in Seq(UrlChar)
    BY UrlCharFacts
  <1>3. Mapped(<<>>, p, 0)
    BY DEF Mapped
  <1>4. Exploding'
    BY <1>1, <1>2, <1>3 DEF Exploding, Unbegun
  <1> QED
    BY <1>1, <1>4 DEF ExplodeInv, UrlErrors

LEMMA FirstSectionStep ==
    ASSUME Url!PathsAreText, ExplodeInv, Url!FirstSection
    PROVE  ExplodeInv'
  <1>1. /\ Exploding /\ state = "INIT" /\ job = "explode" /\ read \in Nat /\ read < Len(path)
        /\ path \in Seq(UrlChar) /\ path[read + 1] \in UrlChars
    BY LookFacts DEF Url!FirstSection
  <1>2. read' = read + 1 /\ start_flag' /\ UNCHANGED <<job, path, state, idx, section, found>>
    BY DEF Url!FirstSection, Url!Advance
  <1>3. path[read + 1] # Url!RightBrace /\ path[read + 1] # Url!Slash
    BY <1>1, UrlCharFacts
  <1>4. Literally(path, read + 1, idx)
    <2>1. CASE Unbegun
      BY <1>1, <2>1, NothingPassed, LiteralBegins DEF Unbegun
    <2>2. CASE Between
      BY <1>1, <1>3, <2>2, LiteralGrows DEF Between
    <2> QED
      BY <1>1, <2>1, <2>2 DEF Exploding
  <1>5. Between' /\ section = <<>>
    BY <1>1, <1>2, <1>4 DEF Between, Exploding
  <1> QED
    BY <1>1, <1>2, <1>3, <1>5, GoesOnExploding DEF Url!Advance

LEMMA NewSectionStep ==
    ASSUME Url!PathsAreText, ExplodeInv, Url!NewSection
    PROVE  ExplodeInv'
  <1>1. /\ Exploding /\ state = "INIT" /\ job = "explode" /\ read \in Nat /\ read < Len(path)
        /\ path \in Seq(UrlChar) /\ path[read + 1] = Url!Slash
    BY LookFacts DEF Url!NewSection
  <1>2. /\ read' = read + 1 /\ UNCHANGED <<job, path, section, found>> /\ state' = "MATCH_TOKEN" /\ start_flag'
        /\ idx' = IF start_flag THEN idx + 1 ELSE idx
    BY DEF Url!NewSection, Url!Advance
  <1>3. (read + 1) + 1 = read + 2 /\ read + 1 > 0
    BY <1>1
  <1>4. AllPassed(path, read + 1) /\ idx' = Url!Place(path, read + 2)
    <2>1. CASE Unbegun
      <3>1. AllPassed(path, 1)
        BY <1>1, <2>1, NothingPassed, PassedSlash DEF Unbegun
      <3>2. Url!Place(path, 2) = Url!Place(path, 1)
        <4>1. 1 \notin Url!Starts(path)
          BY <1>1, <2>1, StartFacts DEF Unbegun
        <4>2. \A k \in 1..2 - 1 : k \notin Url!Starts(path)
          BY <4>1
        <4> QED
          BY <1>1, <4>2, SamePlace
      <3> QED
        BY <1>1, <1>2, <2>1, <3>1, <3>2, NothingPassed DEF Unbegun
    <2>2. CASE Between
      BY <1>1, <1>2, <2>2, SectionPassed DEF Between
    <2> QED
      BY <1>1, <2>1, <2>2 DEF Exploding
  <1>5. Behind' /\ section = <<>>
    BY <1>1, <1>2, <1>3, <1>4 DEF Behind, Exploding
  <1>6. path[read + 1] # Url!RightBrace
    BY <1>1, UrlCharFacts
  <1> QED
    BY <1>1, <1>2, <1>5, <1>6, GoesOnExploding DEF Url!Advance

LEMMA SkipSlashStep ==
    ASSUME Url!PathsAreText, ExplodeInv, Url!SkipSlash
    PROVE  ExplodeInv'
  <1>1. /\ Exploding /\ state = "MATCH_TOKEN" /\ job = "explode" /\ read \in Nat /\ read < Len(path)
        /\ path \in Seq(UrlChar) /\ path[read + 1] = Url!Slash
    BY LookFacts DEF Url!SkipSlash
  <1>2. read' = read + 1 /\ UNCHANGED <<job, path, state, start_flag, idx, section, found>>
    BY DEF Url!SkipSlash, Url!Advance
  <1>3. Behind /\ section = <<>> /\ start_flag
    BY <1>1 DEF Exploding
  <1>4. Url!Place(path, read + 2) = Url!Place(path, read + 1)
    <2>1. read + 1 \notin Url!Starts(path)
      BY <1>1, StartFacts
    <2>2. read + 1 \in Nat /\ read + 2 \in Nat /\ read + 1 <= read + 2
          /\ \A k \in read + 1..(read + 2) - 1 : k = read + 1
      BY <1>1
    <2> QED
      BY <1>1, <2>1, <2>2, SamePlace
  <1>5. AllPassed(path, read + 1)
    BY <1>1, <1>3, PassedSlash DEF Behind
  <1>6. (read + 1) + 1 = read + 2 /\ read + 1 > 0
    BY <1>1
  <1>7. Behind'
    BY <1>1, <1>2, <1>3, <1>4, <1>5, <1>6 DEF Behind
  <1>8. path[read + 1] # Url!RightBrace
    BY <1>1, UrlCharFacts
  <1> QED
    BY <1>1, <1>2, <1>3, <1>7, <1>8, GoesOnExploding DEF Url!Advance

LEMMA OpenVariableStep ==
    ASSUME Url!PathsAreText, ExplodeInv, Url!OpenVariable
    PROVE  ExplodeInv'
  <1>1. /\ Exploding /\ state = "MATCH_TOKEN" /\ job = "explode" /\ read \in Nat /\ read < Len(path)
        /\ path \in Seq(UrlChar) /\ path[read + 1] = Url!LeftBrace /\ read + 1 \in 1..Len(path)
    BY LookFacts DEF Url!OpenVariable
  <1>2. read' = read + 1 /\ UNCHANGED <<job, path, start_flag, idx, section, found>> /\ state' = "FETCH"
    BY DEF Url!OpenVariable, Url!Advance
  <1>3. Behind /\ section = <<>> /\ Len(section) = 0 /\ start_flag
    BY <1>1 DEF Exploding
  <1>4. path[read + 1] # Url!RightBrace /\ path[read + 1] # Url!Slash
    BY <1>1, UrlCharFacts
  <1>5. (read + 1) - 0 = read + 1 /\ (read + 1) - 0 - 1 = read /\ 1 < read + 1
    BY <1>1, <1>3 DEF Behind
  <1>6. read + 1 \in Url!Starts(path)
    BY <1>1, <1>3, <1>4, StartFacts DEF Behind
  <1>7. Opening(path, read + 1, 0)
    <2>1. \A x \in (read + 1) - 0 + 1..read + 1 : FALSE
      BY <1>1
    <2> QED
      BY <1>1, <1>5, <1>6, <2>1 DEF Opening
  <1>8. SubSeq(path, (read + 1) - 0 + 1, read + 1) = <<>>
    BY <1>1
  <1>9. Naming'
    BY <1>2, <1>3, <1>5, <1>7, <1>8 DEF Naming, Behind
  <1> QED
    BY <1>1, <1>2, <1>3, <1>4, <1>9, GoesOnExploding DEF Url!Advance

LEMMA LiteralStep ==
    ASSUME Url!PathsAreText, ExplodeInv, Url!Literal
    PROVE  ExplodeInv'
  <1>1. /\ Exploding /\ state \in {"MATCH_TOKEN", "NORMAL"} /\ job = "explode" /\ read \in Nat
        /\ read < Len(path) /\ path \in Seq(UrlChar) /\ path[read + 1] \in UrlChars
    BY LookFacts DEF Url!Literal
  <1>2. read' = read + 1 /\ UNCHANGED <<job, path, start_flag, idx, section, found>> /\ state' = "NORMAL"
    BY DEF Url!Literal, Url!Advance
  <1>3. path[read + 1] # Url!RightBrace
    BY <1>1, UrlCharFacts
  <1>4. Literally(path, read + 1, idx)
    <2>1. CASE state = "MATCH_TOKEN"
      <3>1. Behind
        BY <1>1, <2>1 DEF Exploding
      <3> QED
        BY <1>1, <3>1, LiteralBegins DEF Behind
    <2>2. CASE state = "NORMAL"
      BY <1>1, <2>2, LiteralGrows DEF Exploding
    <2> QED
      BY <1>1, <2>1, <2>2
  <1>5. section = <<>> /\ start_flag
    BY <1>1 DEF Exploding
  <1> QED
    BY <1>1, <1>2, <1>3, <1>4, <1>5, GoesOnExploding DEF Url!Advance

LEMMA EndSectionStep ==
    ASSUME Url!PathsAreText, ExplodeInv, Url!EndSection
    PROVE  ExplodeInv'
  <1>1. /\ Exploding /\ state \in {"NORMAL", "END_FETCH"} /\ job = "explode" /\ read < Len(path)
        /\ path[read + 1] = Url!Slash
    BY LookFacts DEF Url!EndSection
  <1>2. UNCHANGED <<job, path, read, start_flag, idx, section, found>> /\ state' = "INIT"
    BY DEF Url!EndSection
  <1>3. Literally(path, read, idx) \/ Variably(path, read, idx)
    BY <1>1 DEF Exploding
  <1>4. start_flag /\ section = <<>>
    BY <1>1 DEF Exploding
  <1>5. Between'
    BY <1>1, <1>2, <1>3, <1>4 DEF Between
  <1>6. Exploding'
    BY <1>1, <1>2, <1>4, <1>5 DEF Exploding
  <1> QED
    BY <1>1, <1>2, <1>6 DEF ExplodeInv, UrlErrors

LEMMA NameStep ==
    ASSUME Url!PathsAreText, ExplodeInv, Url!Name
    PROVE  ExplodeInv'
  <1>1. /\ Exploding /\ state = "FETCH" /\ job = "explode" /\ read \in Nat /\ read \in 0..Len(path)
        /\ read < Len(path) /\ path \in Seq(UrlChar) /\ path[read + 1] \in UrlChars
        /\ read + 1 \in 1..Len(path) /\ read + 1 \in 0..Len(path) /\ section \in Seq(UrlChar)
        /\ Mapped(found, path, read)
    BY LookFacts DEF Url!Name
  <1>2. /\ read' = read + 1 /\ UNCHANGED <<job, path, state, start_flag, idx, found>>
        /\ section' = Append(section, path[read + 1])
    BY DEF Url!Name, Url!Advance, Url!c
  <1>3. Naming /\ start_flag
    BY <1>1 DEF Exploding
  <1>4. PICK i \in Nat : i = read - Len(section)
    <2>1. read - Len(section) \in Url!Starts(path)
      BY <1>3 DEF Naming, Opening
    <2>2. read - Len(section) \in 1..Len(path)
      BY <1>1, <2>1, StartFacts
    <2> QED
      BY <2>2
  <1>5. section' \in Seq(UrlChar) /\ Len(section') = Len(section) + 1
    BY <1>1, <1>2 DEF UrlChar
  <1>6. (read + 1) - Len(section') = i
    BY <1>1, <1>4, <1>5
  <1>7. Opening(path, read + 1, Len(section'))
    <2>1. i \in Url!Starts(path) /\ 1 < i /\ path[i] = Url!LeftBrace /\ \A x \in i + 1..read : path[x] \in UrlChars
      BY <1>3, <1>4 DEF Naming, Opening
    <2>2. \A x \in i + 1..read + 1 : x \in i + 1..read \/ x = read + 1
      BY <1>1
    <2> QED
      BY <1>1, <1>6, <2>1, <2>2 DEF Opening
  <1>8. section' = SubSeq(path, i + 1, read + 1)
    <2>1. section = SubSeq(path, i + 1, read)
      BY <1>3, <1>4 DEF Naming
    <2>2. i + 1 \in 1..read + 1
      BY <1>1, <1>4
    <2> QED
      BY <1>1, <1>2, <2>1, <2>2, SubSeqGrows
  <1>9. Naming'
    BY <1>2, <1>3, <1>4, <1>6, <1>7, <1>8 DEF Naming
  <1>10. path[read + 1] # Url!RightBrace
    BY <1>1, UrlCharFacts
  <1>11. Mapped(found, path, read + 1)
    BY <1>1, <1>10, MappedStill
  <1>12. Exploding'
    BY <1>1, <1>2, <1>3, <1>5, <1>9, <1>11 DEF Exploding
  <1> QED
    BY <1>1, <1>2, <1>12 DEF ExplodeInv, UrlErrors

LEMMA CloseVariableStep ==
    ASSUME Url!PathsAreText, ExplodeInv, Url!CloseVariable
    PROVE  ExplodeInv'
  <1>1. /\ Exploding /\ state = "FETCH" /\ job = "explode" /\ read \in Nat /\ read < Len(path)
        /\ path \in Seq(UrlChar) /\ path[read + 1] = Url!RightBrace
        /\ read + 1 \in 0..Len(path) /\ section \in Seq(UrlChar) /\ Mapped(found, path, read)
    BY LookFacts DEF Url!CloseVariable
  <1>2. /\ read' = read + 1 /\ UNCHANGED <<job, path, start_flag, idx>> /\ section # <<>>
        /\ found' = Url!Emplaced(found, idx, section) /\ section' = <<>> /\ state' = "END_FETCH"
    BY DEF Url!CloseVariable, Url!Advance
  <1>3. Naming /\ start_flag
    BY <1>1 DEF Exploding
  <1>4. PICK i \in Nat : i = read - Len(section)
    <2>1. read - Len(section) \in Url!Starts(path)
      BY <1>3 DEF Naming, Opening
    <2>2. read - Len(section) \in 1..Len(path)
      BY <1>1, <2>1, StartFacts
    <2> QED
      BY <2>2
  <1>5. /\ i \in Url!Starts(path) /\ 1 < i /\ path[i] = Url!LeftBrace /\ \A x \in i + 1..read : path[x] \in UrlChars
        /\ AllPassed(path, i - 1) /\ idx = Url!Place(path, i) /\ section = SubSeq(path, i + 1, read)
    BY <1>3, <1>4 DEF Naming, Opening
  <1>6. i + 1 < read + 1
    <2>1. Len(section) > 0
      BY <1>1, <1>2
    <2> QED
      BY <1>1, <1>4, <2>1
  <1>7. Whole(path, i, read + 1)
    <2>1. (read + 1) - 1 = read
      BY <1>1
    <2> QED
      BY <1>1, <1>5, <1>6, <2>1 DEF Whole
  <1>8. Mapped(found', path, read + 1)
    BY <1>1, <1>2, <1>5, <1>7, MappedMore
  <1>9. Variably(path, read + 1, idx)
    BY <1>5, <1>7 DEF Variably
  <1>10. <<>> \in Seq(UrlChar)
    OBVIOUS
  <1>11. Exploding'
    BY <1>1, <1>2, <1>3, <1>8, <1>9, <1>10 DEF Exploding
  <1> QED
    BY <1>1, <1>2, <1>11 DEF ExplodeInv, UrlErrors

LEMMA Refused ==
    ASSUME ExplodeInv, NEW result \in UrlErrors, Url!Fails(result), ~Url!WellFormed(path)
    PROVE  ExplodeInv'
  BY DEF ExplodeInv, UrlErrors, Url!Fails

LEMMA IllegalTokenStep ==
    ASSUME Url!PathsAreText, ExplodeInv, Url!IllegalToken
    PROVE  ExplodeInv'
  <1>1. /\ Exploding /\ state \in {"INIT", "NORMAL"} /\ job = "explode" /\ read \in Nat /\ read < Len(path)
        /\ path \in Seq(UrlChar) /\ path[read + 1] \in Url!Braces
    BY LookFacts DEF Url!IllegalToken
  <1>2. path[read + 1] # Url!Slash
    BY <1>1, UrlCharFacts
  <1>3. ~Url!WellFormed(path)
    <2>1. CASE state = "INIT" /\ Unbegun
      <3>1. 1 \in Url!Starts(path) /\ path[1] \in Url!Braces /\ 1 \in 1..Len(path)
        BY <1>1, <1>2, <2>1, StartFacts DEF Unbegun
      <3>2. \A x \in 1..1 : path[x] # Url!Slash
        BY <1>2, <2>1 DEF Unbegun
      <3> QED
        BY <1>1, <3>1, <3>2, StrayBrace
    <2>2. CASE Literally(path, read, idx)
      <3>1. PICK i \in Url!Starts(path) : PlainRun(path, i, read)
        BY <2>2 DEF Literally
      <3>2. i \in 1..Len(path) /\ i <= read /\ \A x \in i..read : path[x] # Url!Slash
        BY <1>1, <3>1, RunFacts
      <3>3. read + 1 \in i..Len(path) /\ \A x \in i..read + 1 : x \in i..read \/ x = read + 1
        BY <1>1, <3>2
      <3>4. path[i] # Url!LeftBrace
        BY <3>1, <3>2, UrlCharFacts DEF PlainRun
      <3> QED
        BY <1>1, <1>2, <3>1, <3>2, <3>3, <3>4, StrayBrace
    <2> QED
      BY <1>1, <1>2, <2>1, <2>2 DEF Exploding, Between
  <1> QED
    BY <1>3, Refused DEF Url!IllegalToken, UrlErrors

LEMMA AfterVariableStep ==
    ASSUME Url!PathsAreText, ExplodeInv, Url!AfterVariable
    PROVE  ExplodeInv'
  <1>1. /\ Exploding /\ state = "END_FETCH" /\ read \in Nat /\ read < Len(path)
        /\ path \in Seq(UrlChar) /\ path[read + 1] \in UrlChars \cup Url!Braces
    BY LookFacts DEF Url!AfterVariable
  <1>2. path[read + 1] # Url!Slash
    BY <1>1, UrlCharFacts
  <1>3. PICK i \in Url!Starts(path) : Whole(path, i, read)
    BY <1>1 DEF Exploding, Variably
  <1>4. ~Url!WellFormed(path)
    BY <1>1, <1>2, <1>3, BehindVariable
  <1> QED
    BY <1>4, Refused DEF Url!AfterVariable, UrlErrors

LEMMA IllegalBeginStep ==
    ASSUME Url!PathsAreText, ExplodeInv, Url!IllegalBegin
    PROVE  ExplodeInv'
  <1>1. /\ Exploding /\ state = "MATCH_TOKEN" /\ read \in Nat /\ read < Len(path)
        /\ path \in Seq(UrlChar) /\ path[read + 1] = Url!RightBrace /\ read + 1 \in 1..Len(path)
    BY LookFacts DEF Url!IllegalBegin
  <1>2. Behind
    BY <1>1 DEF Exploding
  <1>3. path[read + 1] # Url!Slash /\ path[read + 1] # Url!LeftBrace /\ path[read + 1] \in Url!Braces
    BY <1>1, UrlCharFacts
  <1>4. read + 1 \in Url!Starts(path)
    BY <1>1, <1>2, <1>3, StartFacts DEF Behind
  <1>5. read + 1 \in read + 1..Len(path) /\ \A x \in read + 1..read + 1 : x = read + 1
    BY <1>1
  <1>6. ~Url!WellFormed(path)
    BY <1>1, <1>3, <1>4, <1>5, StrayBrace
  <1> QED
    BY <1>6, Refused DEF Url!IllegalBegin, UrlErrors

LEMMA IllegalEndStep ==
    ASSUME Url!PathsAreText, ExplodeInv, Url!IllegalEnd \/ Url!NoneField
    PROVE  ExplodeInv'
  <1>1. /\ Exploding /\ state = "FETCH" /\ read \in 0..Len(path) /\ path \in Seq(UrlChar)
        /\ section \in Seq(UrlChar)
        /\ path[read + 1] \in {Url!Slash, Url!LeftBrace} \/ (path[read + 1] = Url!RightBrace /\ section = <<>>)
    BY LookFacts DEF Url!IllegalEnd, Url!NoneField
  <1>2. Opening(path, read, Len(section)) /\ Len(section) \in Nat /\ (section = <<>> => Len(section) = 0)
    BY <1>1 DEF Exploding, Naming
  <1>3. ~Url!WellFormed(path)
    BY <1>1, <1>2, OpenVariableBreaks
  <1> QED
    BY <1>3, Refused DEF Url!IllegalEnd, Url!NoneField, UrlErrors

LEMMA ExplodeEndStep ==
    ASSUME Url!PathsAreText, ExplodeInv, Url!ExplodeEnd
    PROVE  ExplodeInv'
  <1>1. /\ Exploding /\ read = Len(path) /\ read \in 0..Len(path) /\ path \in Seq(UrlChar)
        /\ section \in Seq(UrlChar) /\ Mapped(found, path, Len(path)) /\ Len(path) \in Nat
    BY DEF Url!ExplodeEnd, ExplodeInv, Exploding
  <1>2. CASE state = "FETCH"
    <2>1. Opening(path, read, Len(section)) /\ Len(section) \in Nat
      BY <1>1, <1>2 DEF Exploding, Naming
    <2>2. ~Url!WellFormed(path)
      BY <1>1, <2>1, OpenVariableBreaks
    <2> QED
      BY <1>2, <2>2, Refused DEF Url!ExplodeEnd, UrlErrors
  <1>3. CASE state # "FETCH"
    <2>1. job' = "OK" /\ UNCHANGED <<path, found>>
      BY <1>3 DEF Url!ExplodeEnd
    <2>2. AllPassed(path, Len(path))
      <3>1. CASE Unbegun
        BY <1>1, <3>1, NothingPassed DEF Unbegun
      <3>2. CASE Behind
        BY <1>1, <3>2 DEF Behind
      <3>3. CASE Literally(path, read, idx) \/ Variably(path, read, idx)
        <4>1. PICK i \in Url!Starts(path) : /\ AllPassed(path, i - 1)
                                            /\ PlainRun(path, i, Len(path)) \/ Whole(path, i, Len(path))
          BY <1>1, <3>3 DEF Literally, Variably
        <4>2. i \in Nat
          BY <1>1, StartFacts
        <4> QED
          BY <1>1, <4>1, <4>2, PassedSection
      <3> QED
        BY <1>1, <1>3, <3>1, <3>2, <3>3 DEF Exploding, Between
    <2>3. Exploded(found, path)
      BY <1>1, <2>2, AcceptedPath DEF Exploded
    <2> QED
      BY <2>1, <2>3 DEF ExplodeInv, UrlErrors
  <1> QED
    BY <1>2, <1>3

\* Reading a request leaves the variables as they are.
LEMMA FetchLeavesVariables ==
    ASSUME ExplodeInv,
           \/ \E p \in Requests : Url!fetch_path_vars(p)
           \/ Url!ValueSlash \/ Url!ValueBegin \/ Url!ValueEnd \/ Url!Value \/ Url!FetchEnd
    PROVE  ExplodeInv'
  <1>1. job' \in {"fetch", "fetched"}
    BY DEF Url!fetch_path_vars, Url!Scan, Url!ValueSlash, Url!ValueBegin, Url!ValueEnd, Url!Value,
           Url!FetchEnd, Url!At
  <1> QED
    BY <1>1 DEF ExplodeInv, UrlErrors

LEMMA ExplodeStep ==
    ASSUME Url!PathsAreText, ExplodeInv, [Url!Next]_Url!urlVars
    PROVE  ExplodeInv'
  <1>1. CASE UNCHANGED Url!urlVars
    BY <1>1 DEF Url!urlVars, ExplodeInv, Exploding, Unbegun, Between, Behind, Naming
  <1>2. CASE \E p \in Apis : Url!explode_path_vars(p)
    BY <1>2, ExplodeStarts
  <1>3. CASE Url!FirstSection \/ Url!NewSection \/ Url!SkipSlash \/ Url!OpenVariable \/ Url!Literal
    BY <1>3, FirstSectionStep, NewSectionStep, SkipSlashStep, OpenVariableStep, LiteralStep
  <1>4. CASE Url!EndSection \/ Url!Name \/ Url!CloseVariable \/ Url!ExplodeEnd
    BY <1>4, EndSectionStep, NameStep, CloseVariableStep, ExplodeEndStep
  <1>5. CASE Url!IllegalToken \/ Url!AfterVariable \/ Url!IllegalBegin \/ Url!IllegalEnd \/ Url!NoneField
    BY <1>5, IllegalTokenStep, AfterVariableStep, IllegalBeginStep, IllegalEndStep
  <1>6. CASE \/ \E p \in Requests : Url!fetch_path_vars(p)
             \/ Url!ValueSlash \/ Url!ValueBegin \/ Url!ValueEnd \/ Url!Value \/ Url!FetchEnd
    BY <1>6, FetchLeavesVariables
  <1> QED
    BY <1>1, <1>2, <1>3, <1>4, <1>5, <1>6 DEF Url!Next

\* explode_path_vars accepts the paths whose braces enclose whole sections, and
\* gives each variable the place of its section (var_pattern.cpp:166-300), for
\* paths of any length.
THEOREM VariablesHavePlaces == PartsSpec => []VariablesAreSections
  <1>1. PartsInit => ExplodeInv
    BY DEF PartsInit, Url!Idle, ExplodeInv, UrlErrors
  <1>2. ExplodeInv /\ [PartsNext]_allVars => ExplodeInv'
    BY PartsSteps, ExplodeStep, PartsAssumption
  <1>3. ExplodeInv => VariablesAreSections
    BY DEF ExplodeInv, Exploded, UrlErrors, VariablesAreSections, Url!VariablesAreSections
  <1> QED
    BY <1>1, <1>2, <1>3, PTL DEF PartsSpec

-----------------------------------------------------------------------------
(* What fetch_path_vars knows: f has the values of v's variables that stand  *)
(* before d.                                                                 *)

NamedBy(v, p) == {i \in Url!Starts(p) : Url!Place(p, i) \in DOMAIN v}

\* No section before that of i has its name.
FirstNamed(v, p, i) == \A h \in NamedBy(v, p) : h < i => v[Url!Place(p, h)] # v[Url!Place(p, i)]

ValuesAre(f, v, p, d) ==
    /\ DOMAIN f = {v[Url!Place(p, i)] : i \in {i \in NamedBy(v, p) : i < d}}
    /\ \A i \in NamedBy(v, p) : \A j \in 1..Len(p) :
         i < d /\ Url!SectionAt(p, i, j) /\ FirstNamed(v, p, i)
           => f[v[Url!Place(p, i)]] = SubSeq(p, i, j)

LEMMA ValuesStill ==
    ASSUME NEW p \in Seq(UrlChar), NEW f, NEW v, NEW d \in Nat, NEW e \in Nat, d <= e,
           ValuesAre(f, v, p, d), \A k \in d..e - 1 : k \notin Url!Starts(p)
    PROVE  ValuesAre(f, v, p, e)
  <1>1. \A i \in Url!Starts(p) : i \in Nat
    BY StartFacts
  <1>2. \A i \in NamedBy(v, p) : i < e <=> i < d
    BY <1>1 DEF NamedBy
  <1>3. {i \in NamedBy(v, p) : i < e} = {i \in NamedBy(v, p) : i < d}
    BY <1>2
  <1> QED
    BY <1>2, <1>3 DEF ValuesAre

\* The section of i is placed: emplace keeps what its name has already.
LEMMA ValuesMore ==
    ASSUME NEW p \in Seq(UrlChar), NEW f, NEW v, NEW i \in Nat, NEW r \in Nat,
           ValuesAre(f, v, p, i), Url!SectionAt(p, i, r),
           NEW n, n = Url!Place(p, i), NEW e \in Nat, r < e, NEW g,
           g = IF n \in DOMAIN v THEN Url!Emplaced(f, v[n], SubSeq(p, i, r)) ELSE f,
           \A k \in i + 1..e - 1 : k \notin Url!Starts(p)
    PROVE  ValuesAre(g, v, p, e)
  <1>1. /\ i \in Url!Starts(p) /\ i \in 1..Len(p) /\ r \in i..Len(p) /\ r \in Nat
        /\ \A k \in i..r : p[k] # Url!Slash
        /\ r = Len(p) \/ p[r + 1] = Url!Slash
    BY SectionFacts
  <1>2. \A h \in Url!Starts(p) : h \in Nat
    BY StartFacts
  <1>3. \A h \in Url!Starts(p) : h < e <=> h < i \/ h = i
    BY <1>1, <1>2
  <1>4. CASE n \notin DOMAIN v
    <2>1. \A h \in NamedBy(v, p) : h < e <=> h < i
      BY <1>3, <1>4 DEF NamedBy
    <2>2. {h \in NamedBy(v, p) : h < e} = {h \in NamedBy(v, p) : h < i}
      BY <2>1
    <2> QED
      BY <1>4, <2>1, <2>2 DEF ValuesAre
  <1>5. CASE n \in DOMAIN v
    <2> DEFINE w == SubSeq(p, i, r)
    <2>1. i \in NamedBy(v, p) /\ \A h \in NamedBy(v, p) : h < e <=> h < i \/ h = i
      BY <1>1, <1>3, <1>5 DEF NamedBy
    <2>2. {h \in NamedBy(v, p) : h < e} = {h \in NamedBy(v, p) : h < i} \cup {i}
      BY <2>1
    <2>3. DOMAIN g = DOMAIN f \cup {v[n]}
      BY <1>5 DEF Url!Emplaced
    <2>4. DOMAIN g = {v[Url!Place(p, h)] : h \in {h \in NamedBy(v, p) : h < e}}
      BY <2>2, <2>3 DEF ValuesAre
    <2>5. /\ \A x \in DOMAIN f : g[x] = f[x]
          /\ v[n] \notin DOMAIN f => g[v[n]] = w
      BY <1>5 DEF Url!Emplaced
    <2> HIDE DEF w
    <2>6. ASSUME NEW h \in NamedBy(v, p), NEW j \in 1..Len(p), h < e, Url!SectionAt(p, h, j),
                 FirstNamed(v, p, h)
          PROVE  g[v[Url!Place(p, h)]] = SubSeq(p, h, j)
      <3>1. CASE h = i
        <4>1. j \in i..Len(p) /\ (\A k \in i..j : p[k] # Url!Slash)
              /\ (j = Len(p) \/ p[j + 1] = Url!Slash)
          BY <2>6, <3>1, SectionFacts
        <4>2. j = r
          BY <1>1, <4>1, OneSection
        <4>3. v[n] \notin DOMAIN f
          <5> SUFFICES ASSUME v[n] \in DOMAIN f PROVE FALSE
            OBVIOUS
          <5>1. PICK x \in {x \in NamedBy(v, p) : x < i} : v[n] = v[Url!Place(p, x)]
            BY DEF ValuesAre
          <5> QED
            BY <2>6, <3>1, <5>1 DEF FirstNamed
        <4> QED
          BY <2>5, <3>1, <4>2, <4>3 DEF w
      <3>2. CASE h < i
        <4>1. f[v[Url!Place(p, h)]] = SubSeq(p, h, j)
          BY <2>6, <3>2 DEF ValuesAre
        <4>2. v[Url!Place(p, h)] \in DOMAIN f
          BY <3>2 DEF ValuesAre
        <4> QED
          BY <2>5, <4>1, <4>2
      <3> QED
        BY <2>1, <2>6, <3>1, <3>2
    <2> QED
      BY <2>4, <2>6 DEF ValuesAre
  <1> QED
    BY <1>4, <1>5

\* f has the values of all of them.
Fetched(f, v, p) ==
    /\ DOMAIN f = {v[Url!Place(p, i)] : i \in NamedBy(v, p)}
    /\ \A i \in NamedBy(v, p) : \A j \in DOMAIN p :
         Url!SectionAt(p, i, j) /\ FirstNamed(v, p, i)
           => f[v[Url!Place(p, i)]] = SubSeq(p, i, j)

\* At the end every section has been placed.
LEMMA AllValues ==
    ASSUME NEW p \in Seq(UrlChar), NEW f, NEW v, ValuesAre(f, v, p, Len(p) + 1)
    PROVE  Fetched(f, v, p)
  <1>1. \A i \in NamedBy(v, p) : i < Len(p) + 1
    BY StartFacts DEF NamedBy
  <1>2. {i \in NamedBy(v, p) : i < Len(p) + 1} = NamedBy(v, p) /\ DOMAIN p = 1..Len(p)
    BY <1>1
  <1> QED
    BY <1>1, <1>2 DEF ValuesAre, Fetched

\* The section that began at i has been read up to r; there may be nothing of it.
Valued(p, i, r, w, n) ==
    /\ i \in 1..r + 1 /\ w = SubSeq(p, i, r)
    /\ \A k \in i..r : p[k] # Url!Slash
    /\ i = 1 \/ p[i - 1] = Url!Slash
    /\ n = Url!Place(p, i)

Fetching ==
    /\ path \in Seq(UrlChar)
    /\ read \in 0..Len(path)
    /\ section \in Seq(UrlChar) /\ (section # <<>> => start_flag)
    /\ (state = "MATCH_TOKEN" /\ start_flag) \/
           (state = "INIT" /\ (section # <<>> => read < Len(path) /\ path[read + 1] = Url!Slash))
    /\ \E i \in Nat : Valued(path, i, read, section, idx) /\ ValuesAre(vals, found, path, i)

FetchInv ==
    /\ job \in {"none", "explode", "OK", "fetch", "fetched"} \cup UrlErrors
    /\ job = "fetch" => Fetching
    /\ job = "fetched" => Fetched(vals, found, path)

\* What has been read of a section that is not empty begins where one starts,
\* and at a slash, or at the end, it is whole.
LEMMA ValuedFacts ==
    ASSUME Url!PathsAreText, NEW p \in Seq(UrlChar), NEW r \in 0..Len(p), NEW i \in Nat, NEW w, NEW n,
           Valued(p, i, r, w, n), w # <<>>
    PROVE  /\ i \in Url!Starts(p) /\ i <= r /\ i \in 1..Len(p)
           /\ r = Len(p) \/ p[r + 1] = Url!Slash => Url!SectionAt(p, i, r)
           /\ \A k \in i + 1..r + 1 : k \notin Url!Starts(p)
  <1>1. i <= r /\ i \in 1..Len(p) /\ r \in i..Len(p)
    <2>1. i = r + 1 => SubSeq(p, i, r) = <<>>
      BY SubSeqEmpty
    <2> QED
      BY <2>1 DEF Valued
  <1>2. i \in Url!Starts(p)
    <2>1. i \in i..r /\ (i # 1 => i - 1 \in 1..Len(p))
      BY <1>1
    <2> QED
      BY <1>1, <2>1, StartFacts DEF Valued
  <1>3. r = Len(p) \/ p[r + 1] = Url!Slash => Url!SectionAt(p, i, r)
    BY <1>1, <1>2 DEF Valued, Url!SectionAt
  <1>4. ASSUME NEW k \in i + 1..r + 1
        PROVE  k \notin Url!Starts(p)
    <2>1. r \in Nat /\ 1 <= i /\ \A x \in i..r : p[x] # Url!Slash
      BY <1>1 DEF Valued
    <2> QED
      BY <2>1, NoStartWithin
  <1> QED
    BY <1>1, <1>2, <1>3, <1>4

LEMMA ValuedNothing ==
    ASSUME NEW p \in Seq(UrlChar), NEW r \in 0..Len(p), NEW i \in Nat, NEW n,
           Valued(p, i, r, <<>>, n)
    PROVE  i = r + 1
  <1>1. i <= r => Len(SubSeq(p, i, r)) # 0
    BY DEF Valued
  <1> QED
    BY <1>1 DEF Valued

LEMMA FetchStarts ==
    ASSUME Url!PathsAreText, NEW p \in Requests, Url!fetch_path_vars(p)
    PROVE  FetchInv'
  <1>1. /\ job' = "fetch" /\ path' = p /\ read' = 0 /\ state' = "INIT" /\ idx' = 0 /\ section' = <<>>
        /\ vals' = <<>> /\ found' = found
    BY DEF Url!fetch_path_vars, Url!Scan, Url!Empty
  <1>2. p \in Seq(UrlChar) /\ <<>> \in Seq(UrlChar) /\ 0 \in 0..Len(p)
    BY UrlCharFacts
  <1>3. Valued(p, 1, 0, <<>>, 0)
    <2>1. SubSeq(p, 1, 0) = <<>>
      BY SubSeqEmpty
    <2> QED
      BY <1>2, <2>1, FirstPlace DEF Valued
  <1>4. ValuesAre(<<>>, found, p, 1)
    <2>1. \A i \in NamedBy(found, p) : ~(i < 1)
      BY <1>2, StartFacts DEF NamedBy
    <2> QED
      BY <2>1 DEF ValuesAre
  <1>5. Fetching'
    BY <1>1, <1>2, <1>3, <1>4 DEF Fetching
  <1> QED
    BY <1>1, <1>5 DEF FetchInv, UrlErrors

\* What a step that looks at the next character knows.
LEMMA FetchFacts ==
    ASSUME FetchInv, NEW s, NEW cs, Url!At("fetch", s, cs)
    PROVE  /\ Fetching /\ job = "fetch" /\ state \in s
           /\ path \in Seq(UrlChar) /\ read \in Nat /\ read \in 0..Len(path) /\ read < Len(path)
           /\ read + 1 \in 1..Len(path) /\ read + 1 \in 0..Len(path)
           /\ path[read + 1] \in cs /\ section \in Seq(UrlChar)
  BY DEF Url!At, FetchInv, Fetching

\* The section just read, if any, is placed, and what follows begins behind it.
LEMMA PlacedValues ==
    ASSUME Url!PathsAreText, Fetching, read = Len(path) \/ path[read + 1] = Url!Slash,
           NEW e \in {read + 1, read + 2}, e = read + 2 => path[read + 1] = Url!Slash
    PROVE  /\ ValuesAre(Url!Placed, found, path, e)
           /\ Url!Place(path, e) = IF section # <<>> THEN idx + 1 ELSE idx
  <1>1. path \in Seq(UrlChar) /\ read \in 0..Len(path) /\ read \in Nat /\ e \in Nat
    BY DEF Fetching
  <1>2. PICK i \in Nat : Valued(path, i, read, section, idx) /\ ValuesAre(vals, found, path, i)
    BY DEF Fetching
  <1>3. e = read + 2 => read + 1 \notin Url!Starts(path)
    BY <1>1, StartFacts
  <1>4. CASE section = <<>>
    <2>1. i = read + 1
      BY <1>1, <1>2, <1>4, ValuedNothing
    <2>2. Url!Placed = vals
      BY <1>4 DEF Url!Placed
    <2>3. i <= e /\ \A k \in i..e - 1 : k \notin Url!Starts(path)
      <3>1. \A k \in i..e - 1 : k = read + 1 /\ e = read + 2
        BY <1>1, <2>1
      <3> QED
        BY <1>1, <1>3, <2>1, <3>1
    <2>4. Url!Place(path, e) = Url!Place(path, i)
      BY <1>1, <2>3, SamePlace
    <2> QED
      BY <1>1, <1>2, <1>4, <2>2, <2>3, <2>4, ValuesStill DEF Valued
  <1>5. CASE section # <<>>
    <2>1. /\ i \in Url!Starts(path) /\ i <= read /\ Url!SectionAt(path, i, read)
          /\ \A k \in i + 1..read + 1 : k \notin Url!Starts(path)
      BY <1>1, <1>2, <1>5, ValuedFacts
    <2>2. \A k \in i + 1..e - 1 : k \in i + 1..read + 1
      BY <1>1
    <2>3. section = SubSeq(path, i, read) /\ idx = Url!Place(path, i)
      BY <1>2 DEF Valued
    <2>4. Url!Placed = IF idx \in DOMAIN found THEN Url!Emplaced(vals, found[idx], SubSeq(path, i, read)) ELSE vals
      BY <1>5, <2>3 DEF Url!Placed
    <2>5. read < e /\ i < e
      BY <1>1, <2>1
    <2>6. ValuesAre(Url!Placed, found, path, e)
      BY <1>1, <1>2, <2>1, <2>2, <2>3, <2>4, <2>5, ValuesMore
    <2>7. Url!Place(path, e) = idx + 1
      BY <1>1, <2>1, <2>2, <2>3, <2>5, NextPlace
    <2> QED
      BY <1>5, <2>6, <2>7
  <1> QED
    BY <1>4, <1>5

LEMMA ValueSlashStep ==
    ASSUME Url!PathsAreText, FetchInv, Url!ValueSlash
    PROVE  FetchInv'
  <1>1. /\ Fetching /\ state = "INIT" /\ job = "fetch" /\ read \in Nat /\ read < Len(path)
        /\ path \in Seq(UrlChar) /\ path[read + 1] = Url!Slash /\ read + 1 \in 0..Len(path)
    BY FetchFacts DEF Url!ValueSlash
  <1>2. /\ read' = read + 1 /\ vals' = Url!Placed /\ section' = <<>> /\ UNCHANGED <<job, path, state, found>>
        /\ idx' = IF section # <<>> /\ start_flag THEN idx + 1 ELSE idx
    BY DEF Url!ValueSlash, Url!Advance
  <1>3. section # <<>> => start_flag
    BY <1>1 DEF Fetching
  <1>4. ValuesAre(vals', found, path, read + 2) /\ Url!Place(path, read + 2) = idx'
    BY <1>1, <1>2, <1>3, PlacedValues
  <1>5. Valued(path, read + 2, read + 1, <<>>, idx')
    <2>1. SubSeq(path, read + 2, read + 1) = <<>>
      BY <1>1, SubSeqEmpty
    <2>2. read + 2 \in 1..(read + 1) + 1 /\ (read + 2) - 1 = read + 1
          /\ \A k \in read + 2..read + 1 : FALSE
      BY <1>1
    <2> QED
      BY <1>1, <1>4, <2>1, <2>2 DEF Valued
  <1>6. <<>> \in Seq(UrlChar) /\ read + 2 \in Nat
    BY <1>1
  <1>7. Fetching'
    BY <1>1, <1>2, <1>4, <1>5, <1>6 DEF Fetching
  <1> QED
    BY <1>1, <1>2, <1>7 DEF FetchInv, UrlErrors

LEMMA ValueTurns ==
    ASSUME Url!PathsAreText, FetchInv, Url!ValueBegin \/ Url!ValueEnd
    PROVE  FetchInv'
  <1>1. CASE Url!ValueBegin
    <2>1. Fetching /\ state = "INIT" /\ path[read + 1] \in UrlChars \cup Url!Braces /\ job = "fetch"
      BY <1>1, FetchFacts DEF Url!ValueBegin
    <2>2. path[read + 1] # Url!Slash
      BY <2>1, UrlCharFacts
    <2>3. UNCHANGED <<job, path, read, idx, section, found, vals>> /\ state' = "MATCH_TOKEN" /\ start_flag'
      BY <1>1 DEF Url!ValueBegin
    <2>4. Fetching'
      BY <2>1, <2>2, <2>3 DEF Fetching
    <2> QED
      BY <2>1, <2>3, <2>4 DEF FetchInv, UrlErrors
  <1>2. CASE Url!ValueEnd
    <2>1. Fetching /\ path[read + 1] = Url!Slash /\ job = "fetch" /\ read < Len(path)
      BY <1>2, FetchFacts DEF Url!ValueEnd
    <2>2. UNCHANGED <<job, path, read, start_flag, idx, section, found, vals>> /\ state' = "INIT"
      BY <1>2 DEF Url!ValueEnd
    <2>3. Fetching'
      BY <2>1, <2>2 DEF Fetching
    <2> QED
      BY <2>1, <2>2, <2>3 DEF FetchInv, UrlErrors
  <1> QED
    BY <1>1, <1>2

LEMMA ValueStep ==
    ASSUME Url!PathsAreText, FetchInv, Url!Value
    PROVE  FetchInv'
  <1>1. /\ Fetching /\ state = "MATCH_TOKEN" /\ job = "fetch" /\ read \in Nat /\ read < Len(path)
        /\ path \in Seq(UrlChar) /\ path[read + 1] \in UrlChars \cup Url!Braces
        /\ read + 1 \in 0..Len(path) /\ section \in Seq(UrlChar)
    BY FetchFacts DEF Url!Value
  <1>2. /\ read' = read + 1 /\ UNCHANGED <<job, path, state, start_flag, idx, found, vals>>
        /\ section' = Append(section, path[read + 1])
    BY DEF Url!Value, Url!Advance, Url!c
  <1>3. path[read + 1] # Url!Slash
    BY <1>1, UrlCharFacts
  <1>4. PICK i \in Nat : Valued(path, i, read, section, idx) /\ ValuesAre(vals, found, path, i)
    BY <1>1 DEF Fetching
  <1>5. Valued(path, i, read + 1, section', idx)
    <2>1. i \in 1..read + 1 /\ i \in 1..(read + 1) + 1 /\ section = SubSeq(path, i, read)
      BY <1>1, <1>4 DEF Valued
    <2>2. section' = SubSeq(path, i, read + 1)
      BY <1>1, <1>2, <2>1, SubSeqGrows
    <2>3. \A k \in i..read + 1 : k \in i..read \/ k = read + 1
      BY <1>1, <2>1
    <2> QED
      BY <1>3, <1>4, <2>1, <2>2, <2>3 DEF Valued
  <1>6. section' \in Seq(UrlChar) /\ start_flag
    BY <1>1, <1>2 DEF UrlChar, Fetching
  <1>7. Fetching'
    BY <1>1, <1>2, <1>4, <1>5, <1>6 DEF Fetching
  <1> QED
    BY <1>1, <1>2, <1>7 DEF FetchInv, UrlErrors

LEMMA FetchEndStep ==
    ASSUME Url!PathsAreText, FetchInv, Url!FetchEnd
    PROVE  FetchInv'
  <1>1. Fetching /\ read = Len(path) /\ path \in Seq(UrlChar)
    BY DEF Url!FetchEnd, FetchInv, Fetching
  <1>2. job' = "fetched" /\ vals' = Url!Placed /\ UNCHANGED <<path, found>>
    BY DEF Url!FetchEnd
  <1>3. ValuesAre(vals', found, path, Len(path) + 1)
    <2>1. read + 1 = Len(path) + 1 /\ read + 1 # read + 2
      BY <1>1
    <2> QED
      BY <1>1, <1>2, <2>1, PlacedValues
  <1>4. PICK f : f = vals'
    OBVIOUS
  <1>5. Fetched(f, found, path)
    BY <1>1, <1>3, <1>4, AllValues
  <1> QED
    BY <1>2, <1>4, <1>5 DEF FetchInv, UrlErrors

\* Reading a pattern is no reading of a request.
LEMMA ExplodeFetchesNothing ==
    ASSUME FetchInv,
           \/ \E p \in Apis : Url!explode_path_vars(p)
           \/ Url!FirstSection \/ Url!NewSection \/ Url!SkipSlash \/ Url!OpenVariable \/ Url!Literal
           \/ Url!EndSection \/ Url!Name \/ Url!CloseVariable \/ Url!ExplodeEnd
           \/ Url!IllegalToken \/ Url!AfterVariable \/ Url!IllegalBegin \/ Url!IllegalEnd \/ Url!NoneField
    PROVE  FetchInv'
  <1>1. job' \in {"explode", "OK"} \cup UrlErrors
    BY DEF UrlErrors, Url!explode_path_vars, Url!Scan, Url!FirstSection, Url!NewSection, Url!SkipSlash,
           Url!OpenVariable, Url!Literal, Url!EndSection, Url!Name, Url!CloseVariable, Url!ExplodeEnd,
           Url!IllegalToken, Url!AfterVariable, Url!IllegalBegin, Url!IllegalEnd, Url!NoneField,
           Url!Fails, Url!At
  <1> QED
    BY <1>1 DEF FetchInv, UrlErrors

LEMMA FetchStep ==
    ASSUME Url!PathsAreText, FetchInv, [Url!Next]_Url!urlVars
    PROVE  FetchInv'
  <1>1. CASE UNCHANGED Url!urlVars
    BY <1>1 DEF Url!urlVars, FetchInv, Fetching
  <1>2. CASE \E p \in Requests : Url!fetch_path_vars(p)
    BY <1>2, FetchStarts
  <1>3. CASE Url!ValueSlash \/ Url!ValueBegin \/ Url!ValueEnd \/ Url!Value \/ Url!FetchEnd
    BY <1>3, ValueSlashStep, ValueTurns, ValueStep, FetchEndStep
  <1>4. CASE \/ \E p \in Apis : Url!explode_path_vars(p)
             \/ Url!FirstSection \/ Url!NewSection \/ Url!SkipSlash \/ Url!OpenVariable \/ Url!Literal
             \/ Url!EndSection \/ Url!Name \/ Url!CloseVariable \/ Url!ExplodeEnd
             \/ Url!IllegalToken \/ Url!AfterVariable \/ Url!IllegalBegin \/ Url!IllegalEnd \/ Url!NoneField
    BY <1>4, ExplodeFetchesNothing
  <1> QED
    BY <1>1, <1>2, <1>3, <1>4 DEF Url!Next

\* fetch_path_vars gives each variable the section at its place, the first of
\* them if its name stands twice (var_pattern.cpp:302-361), for requests of any
\* length.
THEOREM ValuesHavePlaces == PartsSpec => []ValuesAreSections
  <1>1. PartsInit => FetchInv
    BY DEF PartsInit, Url!Idle, FetchInv
  <1>2. FetchInv /\ [PartsNext]_allVars => FetchInv'
    BY PartsSteps, FetchStep, PartsAssumption
  <1>3. FetchInv => ValuesAreSections
    BY DEF FetchInv, Fetched, NamedBy, FirstNamed, ValuesAreSections, Url!ValuesAreSections, Url!Named
  <1> QED
    BY <1>1, <1>2, <1>3, PTL DEF PartsSpec

\* Induction, for a property that is a set.
LEMMA Induction ==
    ASSUME NEW S, 0 \in S, \A n \in Nat : n \in S => n + 1 \in S
    PROVE  Nat \subseteq S
  <1> SUFFICES ASSUME Nat \ S # {}
               PROVE  FALSE
    OBVIOUS
  <1>1. PICK m \in Nat \ S : \A k \in Nat \ S : ~(k < m)
    BY LeastNatural, Nat \ S \subseteq Nat
  <1>2. m # 0
    OBVIOUS
  <1>3. m - 1 \in Nat /\ m - 1 < m /\ (m - 1) + 1 = m
    BY <1>2
  <1>4. m - 1 \in S
    BY <1>1, <1>3
  <1> QED
    BY <1>3, <1>4

\* There is a function that goes from base step by step.
Stepwise(f, S, n, base, step) ==
    /\ f \in [0..n -> S]
    /\ f[0] = base
    /\ \A i \in 1..n : f[i] = step[i][f[i - 1]]

Steps(S, n) == [1..n -> [S -> S]]

LEMMA StepwiseExists ==
    ASSUME NEW S, NEW n \in Nat, NEW base \in S, NEW step \in Steps(S, n)
    PROVE  \E f : Stepwise(f, S, n, base, step)
  <1> USE DEF Steps
  <1> DEFINE Goes(m, f) == f[0] = base /\ \A i \in 1..m : f[i] = step[i][f[i - 1]]
             P == {m \in Nat : m <= n => \E f \in [0..m -> S] : Goes(m, f)}
  <1>1. 0 \in P
    <2>1. [i \in 0..0 |-> base] \in [0..0 -> S] /\ Goes(0, [i \in 0..0 |-> base])
      OBVIOUS
    <2> QED
      BY <2>1
  <1>2. ASSUME NEW m \in Nat, m \in P
        PROVE  m + 1 \in P
    <2> SUFFICES ASSUME m + 1 <= n
                 PROVE  \E f \in [0..(m + 1) -> S] : Goes(m + 1, f)
      OBVIOUS
    <2>1. PICK f \in [0..m -> S] : Goes(m, f)
      BY <1>2
    <2> DEFINE g == [i \in 0..(m + 1) |-> IF i <= m THEN f[i] ELSE step[m + 1][f[m]]]
    <2>2. step[m + 1][f[m]] \in S
      <3>1. m + 1 \in 1..n /\ f[m] \in S
        OBVIOUS
      <3> QED
        BY <3>1
    <2>3. g \in [0..(m + 1) -> S]
      <3>1. \A i \in 0..(m + 1) : i <= m => f[i] \in S
        OBVIOUS
      <3> QED
        BY <2>2, <3>1
    <2>4. g[0] = base
      BY <2>1
    <2>5. ASSUME NEW i \in 1..(m + 1)
          PROVE  g[i] = step[i][g[i - 1]]
      <3>1. CASE i <= m
        <4>1. g[i] = f[i] /\ g[i - 1] = f[i - 1] /\ i \in 1..m
          BY <3>1
        <4> QED
          BY <2>1, <4>1
      <3>2. CASE i = m + 1
        <4>1. g[i] = step[m + 1][f[m]] /\ i - 1 = m /\ g[i - 1] = f[m]
          BY <3>2
        <4> QED
          BY <3>2, <4>1
      <3> QED
        BY <3>1, <3>2
    <2> QED
      BY <2>3, <2>4, <2>5
  <1> HIDE DEF P
  <1>3. n \in P
    BY <1>1, <1>2, Induction
  <1>4. PICK f \in [0..n -> S] : Goes(n, f)
    BY <1>3 DEF P
  <1> QED
    BY <1>4 DEF Stepwise

-----------------------------------------------------------------------------
(***************************************************************************)
(* The SQL builder, for any templates, models of any depth and paths of    *)
(* any length.                                                             *)
(***************************************************************************)

\* Indexes on a path are numbers.
IsPath(p) == \E S : p \in Seq(S) /\ \A s \in S : s.type = "index" => s.n \in Nat

LEMMA PathFacts ==
    ASSUME NEW p, IsPath(p)
    PROVE  /\ Len(p) \in Nat /\ DOMAIN p = 1..Len(p)
           /\ \A i \in 1..Len(p) : p[i].type = "index" => p[i].n \in Nat
  <1>1. PICK S : p \in Seq(S) /\ \A s \in S : s.type = "index" => s.n \in Nat
    BY DEF IsPath
  <1> QED
    BY <1>1

LEMMA TailIsPath ==
    ASSUME NEW p, IsPath(p), p # <<>>
    PROVE  IsPath(Tail(p))
  <1>1. PICK S : p \in Seq(S) /\ \A s \in S : s.type = "index" => s.n \in Nat
    BY DEF IsPath
  <1>2. Tail(p) \in Seq(S)
    BY <1>1
  <1> QED
    BY <1>1, <1>2 DEF IsPath

\* Elements that are kept are elements, and all of them are the sequence.
LEMMA KeptIs ==
    ASSUME NEW X, NEW s \in Seq(X), NEW K
    PROVE  /\ Builder!Kept(s, K) \in Seq(X)
           /\ (\A i \in 1..Len(s) : i \in K) => Builder!Kept(s, K) = s
  <1> DEFINE n == Len(s)
             Eq(g) == g = [i \in 0..n |-> IF i = 0 THEN <<>>
                                          ELSE IF i \in K THEN Append(g[i - 1], s[i])
                                          ELSE g[i - 1]]
             k == CHOOSE g : Eq(g)
             step == [i \in 1..n |-> [w \in Seq(X) |-> IF i \in K THEN Append(w, s[i]) ELSE w]]
  <1>1. n \in Nat /\ \A i \in 1..n : s[i] \in X
    OBVIOUS
  <1>2. step \in Steps(Seq(X), n)
    <2>1. ASSUME NEW i \in 1..n, NEW w \in Seq(X)
          PROVE  (IF i \in K THEN Append(w, s[i]) ELSE w) \in Seq(X)
      BY <1>1
    <2> QED
      BY <2>1 DEF Steps
  <1>3. PICK f : Stepwise(f, Seq(X), n, <<>>, step)
    <2> HIDE DEF step, n
    <2>1. <<>> \in Seq(X)
      OBVIOUS
    <2> QED
      BY <1>1, <1>2, <2>1, StepwiseExists
  <1>4. f \in [0..n -> Seq(X)] /\ f[0] = <<>>
        /\ \A i \in 1..n : f[i] = IF i \in K THEN Append(f[i - 1], s[i]) ELSE f[i - 1]
    <2>1. f \in [0..n -> Seq(X)] /\ f[0] = <<>> /\ \A i \in 1..n : f[i] = step[i][f[i - 1]]
      BY <1>3 DEF Stepwise
    <2>2. ASSUME NEW i \in 1..n
          PROVE  f[i] = IF i \in K THEN Append(f[i - 1], s[i]) ELSE f[i - 1]
      <3>1. f[i - 1] \in Seq(X)
        BY <1>1, <2>1
      <3> QED
        BY <2>1, <3>1
    <2> QED
      BY <2>1, <2>2
  <1> HIDE DEF step, n
  <1>5. Eq(f)
    <2>1. \A i \in 0..n : f[i] = IF i = 0 THEN <<>>
                                 ELSE IF i \in K THEN Append(f[i - 1], s[i]) ELSE f[i - 1]
      <3> TAKE i \in 0..n
      <3>1. CASE i = 0
        BY <1>4, <3>1
      <3>2. CASE i # 0
        <4>1. i \in 1..n
          BY <1>1, <3>2
        <4> QED
          BY <1>4, <3>2, <4>1
      <3> QED
        BY <3>1, <3>2
    <2>2. f = [i \in 0..n |-> f[i]]
      BY <1>4
    <2> QED
      BY <2>1, <2>2
  <1>6. Eq(k)
    <2> HIDE DEF Eq
    <2> QED
      BY <1>5
  <1>7. Builder!Kept(s, K) = k[n]
    BY DEF Builder!Kept, n
  <1> HIDE DEF k
  <1>8. \A i \in 0..n : k[i] = IF i = 0 THEN <<>>
                               ELSE IF i \in K THEN Append(k[i - 1], s[i]) ELSE k[i - 1]
    BY <1>6
  <1> HIDE DEF Eq
  <1> DEFINE P == {i \in Nat : i <= n => k[i] \in Seq(X)
                                         /\ ((\A j \in 1..n : j \in K) => k[i] = SubSeq(s, 1, i))}
  <1>9. 0 \in P
    <2>1. 0 \in 0..n /\ 0 \in Nat
      BY <1>1
    <2>2. k[0] = <<>>
      BY <1>8, <2>1
    <2>3. SubSeq(s, 1, 0) = <<>> /\ <<>> \in Seq(X)
      BY SubSeqEmpty
    <2> QED
      BY <2>1, <2>2, <2>3
  <1>10. ASSUME NEW i \in Nat, i \in P
         PROVE  i + 1 \in P
    <2> SUFFICES ASSUME i + 1 <= n
                 PROVE  k[i + 1] \in Seq(X)
                        /\ ((\A j \in 1..n : j \in K) => k[i + 1] = SubSeq(s, 1, i + 1))
      OBVIOUS
    <2>1. k[i] \in Seq(X) /\ ((\A j \in 1..n : j \in K) => k[i] = SubSeq(s, 1, i))
      BY <1>1, <1>10
    <2>2. i + 1 \in 1..n /\ i + 1 # 0 /\ (i + 1) - 1 = i /\ i + 1 \in 0..n
      BY <1>1
    <2>3. k[i + 1] = IF i + 1 \in K THEN Append(k[i], s[i + 1]) ELSE k[i]
      BY <1>8, <2>2
    <2>4. SubSeq(s, 1, i + 1) = Append(SubSeq(s, 1, i), s[i + 1])
      BY <1>1, <2>2 DEF n
    <2> QED
      BY <1>1, <2>1, <2>2, <2>3, <2>4
  <1>11. n \in P
    <2> HIDE DEF P
    <2> QED
      BY <1>1, <1>9, <1>10, Induction
  <1>12. SubSeq(s, 1, n) = s
    BY <1>1 DEF n
  <1> QED
    BY <1>1, <1>7, <1>11, <1>12 DEF n

-----------------------------------------------------------------------------
(* Walks in models.                                                          *)

Reach == Trees \cup {Builder!NullPtr, Builder!Fail}

LEMMA Kinds ==
    ASSUME Builder!TreesAreWhole, NEW m \in Reach
    PROVE  /\ m.kind \in {"null", "plain", "object", "list", "fail"}
           /\ m.kind = "null" => m = Builder!NullPtr
           /\ m.kind = "fail" => m = Builder!Fail
           /\ m.kind = "object" => \A k \in DOMAIN m.members : m.members[k] \in Reach
           /\ m.kind = "list" => m.items \in Seq(Trees)
  BY DEF Reach, Builder!TreesAreWhole, Builder!Fail, Builder!NullPtr

LEMMA StepsInside ==
    ASSUME Builder!TreesAreWhole, NEW m \in Reach, NEW s, s.type = "index" => s.n \in Nat
    PROVE  /\ Builder!Lead(m, s) \in Reach
           /\ Builder!FieldStep(m, s) \in Reach
           /\ m.kind \in {"object", "list"} => Builder!FieldStep(m, s) = Builder!Lead(m, s)
           /\ m.kind \notin {"object", "list"} =>
                Builder!FieldStep(m, s) = m /\ Builder!Lead(m, s) = Builder!Fail
  <1>1. Builder!Fail \in Reach /\ Builder!NullPtr \in Reach
    BY DEF Reach
  <1>2. ASSUME m.kind = "object"
        PROVE  Builder!Member(m, s) \in Reach
    BY <1>1, <1>2, Kinds DEF Builder!Member
  <1>3. ASSUME m.kind = "list"
        PROVE  Builder!Item(m, s) \in Reach
    <2>1. m.items \in Seq(Trees)
      BY <1>3, Kinds
    <2>2. s.type = "index" /\ s.n < Len(m.items) => m.items[s.n + 1] \in Trees
      BY <2>1
    <2> QED
      BY <1>1, <2>2 DEF Builder!Item, Reach
  <1> QED
    BY <1>1, <1>2, <1>3 DEF Builder!Lead, Builder!FieldStep

\* f is the walk of p from m as the documentation has it,
Led(f, m, p) ==
    /\ f \in [0..Len(p) -> Reach]
    /\ f[0] = m
    /\ \A i \in 1..Len(p) : f[i] = Builder!Lead(f[i - 1], p[i])

LEMMA LeadsIs ==
    ASSUME Builder!TreesAreWhole, NEW m \in Reach, NEW p, IsPath(p)
    PROVE  Led(Builder!Leads(m, p), m, p)
  <1> DEFINE n == Len(p)
             Eq(g) == g = [i \in 0..n |-> IF i = 0 THEN m ELSE Builder!Lead(g[i - 1], p[i])]
             u == CHOOSE g : Eq(g)
             step == [i \in 1..n |-> [w \in Reach |-> Builder!Lead(w, p[i])]]
  <1>1. n \in Nat /\ \A i \in 1..n : p[i].type = "index" => p[i].n \in Nat
    BY PathFacts
  <1>2. step \in Steps(Reach, n)
    <2>1. ASSUME NEW i \in 1..n, NEW w \in Reach
          PROVE  Builder!Lead(w, p[i]) \in Reach
      BY <1>1, StepsInside
    <2> QED
      BY <2>1 DEF Steps
  <1>3. PICK f : Stepwise(f, Reach, n, m, step)
    <2> HIDE DEF step, n
    <2> QED
      BY <1>1, <1>2, StepwiseExists
  <1>4. f \in [0..n -> Reach] /\ f[0] = m
        /\ \A i \in 1..n : f[i] = Builder!Lead(f[i - 1], p[i])
    <2>1. f \in [0..n -> Reach] /\ f[0] = m /\ \A i \in 1..n : f[i] = step[i][f[i - 1]]
      BY <1>3 DEF Stepwise
    <2>2. ASSUME NEW i \in 1..n
          PROVE  f[i] = Builder!Lead(f[i - 1], p[i])
      <3>1. f[i - 1] \in Reach
        BY <1>1, <2>1
      <3> QED
        BY <2>1, <3>1
    <2> QED
      BY <2>1, <2>2
  <1> HIDE DEF step, n
  <1>5. Eq(f)
    <2>1. \A i \in 0..n : f[i] = IF i = 0 THEN m ELSE Builder!Lead(f[i - 1], p[i])
      <3> TAKE i \in 0..n
      <3>1. i = 0 \/ i \in 1..n
        BY <1>1
      <3> QED
        BY <1>4, <3>1
    <2>2. f = [i \in 0..n |-> f[i]]
      BY <1>4
    <2> QED
      BY <2>1, <2>2
  <1>6. Eq(u)
    <2> HIDE DEF Eq
    <2> QED
      BY <1>5
  <1>7. Builder!Leads(m, p) = u
    BY DEF Builder!Leads, n
  <1> HIDE DEF u
  <1>8. u = [i \in 0..n |-> u[i]] /\ \A i \in 0..n : u[i] = IF i = 0 THEN m ELSE Builder!Lead(u[i - 1], p[i])
    BY <1>6
  <1> HIDE DEF Eq
  <1>9. u[0] = m /\ \A i \in 1..n : u[i] = Builder!Lead(u[i - 1], p[i])
    <2>1. 0 \in 0..n /\ \A i \in 1..n : i \in 0..n /\ i # 0
      BY <1>1
    <2> QED
      BY <1>8, <2>1
  <1> DEFINE P == {i \in Nat : i <= n => u[i] \in Reach}
  <1>10. 0 \in P
    BY <1>9
  <1>11. ASSUME NEW i \in Nat, i \in P
         PROVE  i + 1 \in P
    <2> SUFFICES ASSUME i + 1 <= n
                 PROVE  u[i + 1] \in Reach
      OBVIOUS
    <2>1. i + 1 \in 1..n /\ (i + 1) - 1 = i
      BY <1>1
    <2>2. u[i] \in Reach
      BY <1>1, <1>11
    <2>3. u[i + 1] = Builder!Lead(u[i], p[i + 1])
      BY <1>9, <2>1
    <2> QED
      BY <1>1, <2>1, <2>2, <2>3, StepsInside
  <1>12. \A i \in 0..n : u[i] \in Reach
    <2>1. Nat \subseteq P
      <3> HIDE DEF P
      <3> QED
        BY <1>10, <1>11, Induction
    <2> QED
      BY <1>1, <2>1
  <1>13. u \in [0..n -> Reach]
    BY <1>8, <1>12
  <1> QED
    BY <1>7, <1>9, <1>13 DEF Led, n

\* or as get_plain_val goes.
Stepped(f, m, p) ==
    /\ f \in [0..Len(p) -> Reach]
    /\ f[0] = m
    /\ \A i \in 1..Len(p) : f[i] = Builder!FieldStep(f[i - 1], p[i])

LEMMA FieldEndIs ==
    ASSUME Builder!TreesAreWhole, NEW m \in Reach, NEW p, IsPath(p)
    PROVE  \E f : Stepped(f, m, p) /\ Builder!FieldEnd(m, p) = f[Len(p)]
  <1> DEFINE n == Len(p)
             Eq(g) == g = [i \in 0..n |-> IF i = 0 THEN m ELSE Builder!FieldStep(g[i - 1], p[i])]
             u == CHOOSE g : Eq(g)
             step == [i \in 1..n |-> [w \in Reach |-> Builder!FieldStep(w, p[i])]]
  <1>1. n \in Nat /\ \A i \in 1..n : p[i].type = "index" => p[i].n \in Nat
    BY PathFacts
  <1>2. step \in Steps(Reach, n)
    <2>1. ASSUME NEW i \in 1..n, NEW w \in Reach
          PROVE  Builder!FieldStep(w, p[i]) \in Reach
      BY <1>1, StepsInside
    <2> QED
      BY <2>1 DEF Steps
  <1>3. PICK f : Stepwise(f, Reach, n, m, step)
    <2> HIDE DEF step, n
    <2> QED
      BY <1>1, <1>2, StepwiseExists
  <1>4. f \in [0..n -> Reach] /\ f[0] = m
        /\ \A i \in 1..n : f[i] = Builder!FieldStep(f[i - 1], p[i])
    <2>1. f \in [0..n -> Reach] /\ f[0] = m /\ \A i \in 1..n : f[i] = step[i][f[i - 1]]
      BY <1>3 DEF Stepwise
    <2>2. ASSUME NEW i \in 1..n
          PROVE  f[i] = Builder!FieldStep(f[i - 1], p[i])
      <3>1. f[i - 1] \in Reach
        BY <1>1, <2>1
      <3> QED
        BY <2>1, <3>1
    <2> QED
      BY <2>1, <2>2
  <1> HIDE DEF step, n
  <1>5. Eq(f)
    <2>1. \A i \in 0..n : f[i] = IF i = 0 THEN m ELSE Builder!FieldStep(f[i - 1], p[i])
      <3> TAKE i \in 0..n
      <3>1. i = 0 \/ i \in 1..n
        BY <1>1
      <3> QED
        BY <1>4, <3>1
    <2>2. f = [i \in 0..n |-> f[i]]
      BY <1>4
    <2> QED
      BY <2>1, <2>2
  <1>6. Eq(u)
    <2> HIDE DEF Eq
    <2> QED
      BY <1>5
  <1>7. Builder!FieldEnd(m, p) = u[n]
    BY DEF Builder!FieldEnd, n
  <1> HIDE DEF u
  <1>8. u = [i \in 0..n |-> u[i]] /\ \A i \in 0..n : u[i] = IF i = 0 THEN m ELSE Builder!FieldStep(u[i - 1], p[i])
    BY <1>6
  <1> HIDE DEF Eq
  <1>9. u[0] = m /\ \A i \in 1..n : u[i] = Builder!FieldStep(u[i - 1], p[i])
    <2>1. 0 \in 0..n /\ \A i \in 1..n : i \in 0..n /\ i # 0
      BY <1>1
    <2> QED
      BY <1>8, <2>1
  <1> DEFINE P == {i \in Nat : i <= n => u[i] \in Reach}
  <1>10. 0 \in P
    BY <1>9
  <1>11. ASSUME NEW i \in Nat, i \in P
         PROVE  i + 1 \in P
    <2> SUFFICES ASSUME i + 1 <= n
                 PROVE  u[i + 1] \in Reach
      OBVIOUS
    <2>1. i + 1 \in 1..n /\ (i + 1) - 1 = i
      BY <1>1
    <2>2. u[i] \in Reach
      BY <1>1, <1>11
    <2>3. u[i + 1] = Builder!FieldStep(u[i], p[i + 1])
      BY <1>9, <2>1
    <2> QED
      BY <1>1, <2>1, <2>2, <2>3, StepsInside
  <1>12. \A i \in 0..n : u[i] \in Reach
    <2>1. Nat \subseteq P
      <3> HIDE DEF P
      <3> QED
        BY <1>10, <1>11, Induction
    <2> QED
      BY <1>1, <2>1
  <1>13. u \in [0..n -> Reach]
    BY <1>8, <1>12
  <1> QED
    BY <1>7, <1>9, <1>13 DEF Stepped, n

\* A walk that has not failed has passed objects and lists only.
LEMMA LedThrough ==
    ASSUME Builder!TreesAreWhole, NEW m, NEW p, IsPath(p), NEW f, Led(f, m, p),
           NEW k \in 0..Len(p), f[k].kind # "fail"
    PROVE  \A j \in 0..k - 1 : f[j].kind \in {"object", "list"} /\ f[j + 1].kind # "fail"
  <1>1. Len(p) \in Nat /\ k \in Nat /\ \A i \in 1..Len(p) : p[i].type = "index" => p[i].n \in Nat
    BY PathFacts
  <1>2. f \in [0..Len(p) -> Reach] /\ \A i \in 1..Len(p) : f[i] = Builder!Lead(f[i - 1], p[i])
    BY DEF Led
  <1>3. ASSUME NEW j \in 0..Len(p) - 1, f[j].kind \notin {"object", "list"}
        PROVE  f[j + 1].kind = "fail"
    <2>1. j + 1 \in 1..Len(p) /\ (j + 1) - 1 = j /\ f[j] \in Reach
      BY <1>1, <1>2
    <2>2. f[j + 1] = Builder!Fail
      BY <1>1, <1>2, <1>3, <2>1, StepsInside
    <2> QED
      BY <2>2 DEF Builder!Fail
  <1> DEFINE P == {i \in Nat : i <= k => f[k - i].kind # "fail"}
  <1>4. 0 \in P
    BY <1>1
  <1>5. ASSUME NEW i \in Nat, i \in P
        PROVE  i + 1 \in P
    <2> SUFFICES ASSUME i + 1 <= k
                 PROVE  f[k - (i + 1)].kind # "fail"
      OBVIOUS
    <2>1. PICK j \in 0..Len(p) - 1 : j = k - (i + 1)
      BY <1>1
    <2>2. f[j + 1].kind # "fail"
      <3>1. j + 1 = k - i
        BY <1>1, <2>1
      <3>2. f[k - i].kind # "fail"
        BY <1>1, <1>5
      <3> QED
        BY <3>1, <3>2
    <2>3. f[j].kind \in {"object", "list"}
      BY <1>3, <2>2
    <2> QED
      BY <2>1, <2>3
  <1>6. Nat \subseteq P
    <2> HIDE DEF P
    <2> QED
      BY <1>4, <1>5, Induction
  <1>7. ASSUME NEW j \in 0..k - 1
        PROVE  f[j + 1].kind # "fail"
    <2>1. k - (j + 1) \in Nat /\ k - (j + 1) <= k /\ k - (k - (j + 1)) = j + 1
      BY <1>1
    <2>2. k - (j + 1) \in P
      BY <1>6, <2>1
    <2> QED
      BY <2>1, <2>2
  <1>8. ASSUME NEW j \in 0..k - 1
        PROVE  f[j].kind \in {"object", "list"}
    <2>1. j \in 0..Len(p) - 1
      BY <1>1
    <2> QED
      BY <1>3, <1>7, <2>1
  <1> QED
    BY <1>7, <1>8

\* As long as there are objects and lists the code goes where it should.
Through(f, g, k) == \A j \in 0..k - 1 : f[j].kind \in {"object", "list"} \/ g[j].kind \in {"object", "list"}

LEMMA WalksAgree ==
    ASSUME Builder!TreesAreWhole, NEW m, NEW p, IsPath(p), NEW f, Led(f, m, p), NEW g, Stepped(g, m, p),
           NEW k \in 0..Len(p), Through(f, g, k)
    PROVE  f[k] = g[k]
  <1>1. Len(p) \in Nat /\ k \in Nat /\ \A i \in 1..Len(p) : p[i].type = "index" => p[i].n \in Nat
    BY PathFacts
  <1>2. /\ f[0] = m /\ \A i \in 1..Len(p) : f[i] = Builder!Lead(f[i - 1], p[i])
        /\ g[0] = m /\ \A i \in 1..Len(p) : g[i] = Builder!FieldStep(g[i - 1], p[i])
        /\ f \in [0..Len(p) -> Reach]
    BY DEF Led, Stepped
  <1> DEFINE P == {i \in Nat : i <= k => f[i] = g[i]}
  <1>3. 0 \in P
    BY <1>2
  <1>4. ASSUME NEW i \in Nat, i \in P
        PROVE  i + 1 \in P
    <2> SUFFICES ASSUME i + 1 <= k
                 PROVE  f[i + 1] = g[i + 1]
      OBVIOUS
    <2>1. i \in 0..k - 1 /\ i \in 0..Len(p) /\ i + 1 \in 1..Len(p) /\ (i + 1) - 1 = i /\ f[i] = g[i]
      BY <1>1, <1>4
    <2>2. f[i] \in Reach /\ f[i].kind \in {"object", "list"}
      BY <1>2, <2>1 DEF Through
    <2>3. Builder!FieldStep(f[i], p[i + 1]) = Builder!Lead(f[i], p[i + 1])
      BY <1>1, <2>1, <2>2, StepsInside
    <2>4. f[i + 1] = Builder!Lead(f[i], p[i + 1]) /\ g[i + 1] = Builder!FieldStep(g[i], p[i + 1])
      BY <1>2, <2>1
    <2> QED
      BY <2>1, <2>3, <2>4
  <1>5. Nat \subseteq P
    <2> HIDE DEF P
    <2> QED
      BY <1>3, <1>4, Induction
  <1> QED
    BY <1>1, <1>5

\* get_plain_val finds the plain a path leads to,
LEMMA FieldFound ==
    ASSUME Builder!TreesAreWhole, NEW m \in Trees, NEW p, IsPath(p), Builder!End(m, p).kind = "plain"
    PROVE  Builder!FieldEnd(m, p) = Builder!End(m, p)
  <1> DEFINE f == Builder!Leads(m, p)
             n == Len(p)
  <1>1. m \in Reach /\ n \in Nat /\ n \in 0..n
    BY PathFacts DEF Reach
  <1>2. Led(f, m, p)
    BY <1>1, LeadsIs
  <1>3. PICK g : Stepped(g, m, p) /\ Builder!FieldEnd(m, p) = g[n]
    BY <1>1, FieldEndIs
  <1>4. f[n].kind = "plain" /\ Builder!End(m, p) = f[n]
    BY DEF Builder!End
  <1> HIDE DEF f, n
  <1>5. \A j \in 0..n - 1 : f[j].kind \in {"object", "list"}
    BY <1>1, <1>2, <1>4, LedThrough DEF n
  <1>6. f[n] = g[n]
    <2>1. n \in 0..Len(p) /\ Through(f, g, n)
      BY <1>1, <1>5 DEF n, Through
    <2> QED
      BY <1>2, <1>3, <2>1, WalksAgree
  <1> QED
    BY <1>3, <1>4, <1>6

\* and a null only where the path meets one.
LEMMA NullMet ==
    ASSUME Builder!TreesAreWhole, NEW m \in Trees, m.kind = "object", NEW p, IsPath(p),
           Builder!FieldEnd(m, p).kind = "null"
    PROVE  \E i \in 1..Len(p) : Builder!Leads(m, p)[i] = Builder!NullPtr
  <1> DEFINE f == Builder!Leads(m, p)
             n == Len(p)
  <1>1. m \in Reach /\ n \in Nat /\ \A i \in 1..n : p[i].type = "index" => p[i].n \in Nat
    BY PathFacts DEF Reach
  <1>2. Led(f, m, p)
    BY <1>1, LeadsIs
  <1>3. PICK g : Stepped(g, m, p) /\ Builder!FieldEnd(m, p) = g[n]
    BY <1>1, FieldEndIs
  <1>4. /\ g \in [0..n -> Reach] /\ g[0] = m
        /\ \A i \in 1..n : g[i] = Builder!FieldStep(g[i - 1], p[i])
    BY <1>3 DEF Stepped
  <1> HIDE DEF f, n
  <1> DEFINE T == {i \in 0..n : g[i].kind = "null"}
  <1>5. PICK k \in T : \A j \in T : ~(j < k)
    <2>1. T \subseteq Nat /\ n \in T
      BY <1>1, <1>3
    <2> HIDE DEF T
    <2>2. T # {}
      BY <2>1
    <2> QED
      BY <2>1, <2>2, LeastNatural
  <1>6. k \in 0..n /\ g[k].kind = "null" /\ k # 0
    BY <1>4
  <1>7. ASSUME NEW j \in 0..k - 1
        PROVE  g[j].kind \in {"object", "list"}
    <2> SUFFICES ASSUME g[j].kind \notin {"object", "list"} PROVE FALSE
      OBVIOUS
    <2> DEFINE P == {i \in Nat : j + i <= n => g[j + i] = g[j]}
    <2>1. 0 \in P
      OBVIOUS
    <2>2. ASSUME NEW i \in Nat, i \in P
          PROVE  i + 1 \in P
      <3> SUFFICES ASSUME j + (i + 1) <= n
                   PROVE  g[j + (i + 1)] = g[j]
        OBVIOUS
      <3>1. PICK h \in 0..n : h = j + i
        BY <1>1
      <3>2. h + 1 \in 1..n /\ (h + 1) - 1 = h /\ g[h] = g[j] /\ h + 1 = j + (i + 1)
        BY <1>1, <2>2, <3>1
      <3>3. g[h + 1] = Builder!FieldStep(g[h], p[h + 1]) /\ g[h] \in Reach
        BY <1>4, <3>2
      <3>4. g[h + 1] = g[h]
        BY <1>1, <3>2, <3>3, StepsInside
      <3> QED
        BY <3>2, <3>4
    <2>3. k - j \in Nat /\ j + (k - j) = k /\ k <= n
      BY <1>1, <1>6
    <2>4. k - j \in P
      <3> HIDE DEF P
      <3> QED
        BY <2>1, <2>2, <2>3, Induction
    <2>5. g[k] = g[j]
      BY <2>3, <2>4
    <2>6. j \in T /\ j < k
      BY <1>1, <1>6, <2>5
    <2> HIDE DEF T
    <2> QED
      BY <1>5, <2>6
  <1>8. f[k] = g[k]
    <2>1. k \in 0..Len(p) /\ Through(f, g, k)
      BY <1>6, <1>7 DEF n, Through
    <2> QED
      BY <1>2, <1>3, <2>1, WalksAgree
  <1>9. g[k] \in Reach /\ k \in 1..n
    BY <1>1, <1>4, <1>6
  <1>10. f[k] = Builder!NullPtr
    BY <1>6, <1>8, <1>9, Kinds
  <1> QED
    BY <1>9, <1>10 DEF f, n

Walked(w, m, p) ==
    /\ w = [i \in 0..Len(p) |-> w[i]] /\ w[0] = {m}
    /\ \A i \in 1..Len(p) : w[i] = UNION {Builder!ListStep(m, x, p[i]) : x \in w[i - 1]}

\* get_list_val goes where its steps say: w is what it may have come to.
LEMMA ListEndsAre ==
    ASSUME NEW m, NEW p, Len(p) \in Nat, NEW w, Walked(w, m, p)
    PROVE  Builder!ListEnds(m, p) = w[Len(p)]
  <1> DEFINE n == Len(p)
             Eq(s) == s = [i \in 0..n |-> IF i = 0 THEN {m}
                                          ELSE UNION {Builder!ListStep(m, x, p[i]) : x \in s[i - 1]}]
             u == CHOOSE s : Eq(s)
  <1>1. Builder!ListEnds(m, p) = u[n]
    BY DEF Builder!ListEnds, n
  <1>2. n \in Nat /\ w = [i \in 0..n |-> w[i]] /\ w[0] = {m}
        /\ \A i \in 1..n : w[i] = UNION {Builder!ListStep(m, x, p[i]) : x \in w[i - 1]}
    BY DEF Walked
  <1> HIDE DEF n, u
  <1>3. Eq(w)
    <2>1. ASSUME NEW i \in 0..n
          PROVE  w[i] = IF i = 0 THEN {m} ELSE UNION {Builder!ListStep(m, x, p[i]) : x \in w[i - 1]}
      <3>1. i = 0 \/ i \in 1..n
        BY <1>2
      <3> QED
        BY <1>2, <3>1
    <2> QED
      BY <1>2, <2>1
  <1>4. Eq(u)
    <2> HIDE DEF Eq
    <2> QED
      BY <1>3 DEF u
  <1>5. \A i \in 0..n : u[i] = IF i = 0 THEN {m} ELSE UNION {Builder!ListStep(m, x, p[i]) : x \in u[i - 1]}
    BY <1>4
  <1> HIDE DEF Eq
  <1> DEFINE P == {i \in Nat : i <= n => u[i] = w[i]}
  <1>6. 0 \in P
    <2>1. 0 \in 0..n
      BY <1>2
    <2> QED
      BY <1>2, <1>5, <2>1
  <1>7. ASSUME NEW i \in Nat, i \in P
        PROVE  i + 1 \in P
    <2> SUFFICES ASSUME i + 1 <= n
                 PROVE  u[i + 1] = w[i + 1]
      OBVIOUS
    <2>1. i + 1 \in 1..n /\ i + 1 \in 0..n /\ (i + 1) - 1 = i /\ i + 1 # 0 /\ u[i] = w[i]
      BY <1>2, <1>7
    <2>2. u[i + 1] = UNION {Builder!ListStep(m, x, p[i + 1]) : x \in u[i]}
      BY <1>5, <2>1
    <2>3. w[i + 1] = UNION {Builder!ListStep(m, x, p[i + 1]) : x \in w[i]}
      BY <1>2, <2>1
    <2> QED
      BY <2>1, <2>2, <2>3
  <1>8. n \in P
    <2> HIDE DEF P
    <2> QED
      BY <1>2, <1>6, <1>7, Induction
  <1> QED
    BY <1>1, <1>2, <1>8 DEF n

OnTheWay(f, m, p) ==
    \A i \in 1..Len(p) :
        /\ p[i].type # "index" => Builder!ListStep(m, f[i - 1], p[i]) = {f[i]}
        /\ p[i].type = "index" => Builder!ListStep(m, f[i - 1], p[i]) = {Builder!Undefined}

\* On the way from an object to a list, get_list_val goes right up to the first
\* index, and what it reads there, and from there, is undefined.
LEMMA ListWay ==
    ASSUME Builder!TreesAreWhole, NEW m \in Trees, m.kind = "object", NEW p, IsPath(p),
           NEW f, Led(f, m, p), f[Len(p)].kind = "list"
    PROVE  OnTheWay(f, m, p)
  <1> SUFFICES ASSUME NEW i \in 1..Len(p)
               PROVE  /\ p[i].type # "index" => Builder!ListStep(m, f[i - 1], p[i]) = {f[i]}
                      /\ p[i].type = "index" => Builder!ListStep(m, f[i - 1], p[i]) = {Builder!Undefined}
    BY DEF OnTheWay
  <1>1. m \in Reach /\ Len(p) \in Nat /\ Len(p) \in 0..Len(p)
    BY PathFacts DEF Reach
  <1>2. f \in [0..Len(p) -> Reach] /\ f[i] = Builder!Lead(f[i - 1], p[i])
    BY DEF Led
  <1>3. i - 1 \in 0..Len(p) - 1 /\ (i - 1) + 1 = i
    BY <1>1
  <1>4. f[i - 1].kind \in {"object", "list"} /\ f[i].kind # "fail"
    BY <1>1, <1>3, LedThrough
  <1>5. f[i] # Builder!Fail
    BY <1>4 DEF Builder!Fail
  <1>6. CASE p[i].type # "index"
    <2>1. Builder!Item(f[i - 1], p[i]) = Builder!Fail
      BY <1>6 DEF Builder!Item
    <2>2. f[i - 1].kind = "object" /\ f[i] = Builder!Member(f[i - 1], p[i])
      BY <1>2, <1>4, <1>5, <2>1 DEF Builder!Lead
    <2> QED
      BY <1>5, <1>6, <2>2 DEF Builder!ListStep
  <1>7. CASE p[i].type = "index"
    <2>1. Builder!Member(f[i - 1], p[i]) = Builder!Fail
      BY <1>7 DEF Builder!Member
    <2>2. f[i - 1].kind = "list"
      BY <1>2, <1>4, <1>5, <2>1 DEF Builder!Lead
    <2> QED
      BY <1>7, <2>2 DEF Builder!ListStep
  <1> QED
    BY <1>6, <1>7

\* get_list_val finds the list a path without indexes leads to,
LEMMA ListFound ==
    ASSUME Builder!TreesAreWhole, NEW m \in Trees, m.kind = "object", NEW p, IsPath(p),
           Builder!End(m, p).kind = "list", \A i \in 1..Len(p) : p[i].type # "index"
    PROVE  Builder!ListEnds(m, p) = {Builder!End(m, p)}
  <1> DEFINE f == Builder!Leads(m, p)
             n == Len(p)
  <1>1. m \in Reach /\ n \in Nat /\ n \in 0..n
    BY PathFacts DEF Reach
  <1>2. Led(f, m, p)
    BY <1>1, LeadsIs
  <1>3. f[n].kind = "list" /\ Builder!End(m, p) = f[n]
    BY DEF Builder!End
  <1> HIDE DEF f
  <1>4. f[0] = m
    BY <1>2 DEF Led
  <1>s. \A i \in 1..n : Builder!ListStep(m, f[i - 1], p[i]) = {f[i]}
    <2>1. OnTheWay(f, m, p)
      BY <1>2, <1>3, ListWay
    <2> QED
      BY <2>1 DEF OnTheWay
  <1> DEFINE w == [i \in 0..n |-> {f[i]}]
  <1>5. \A i \in 1..n : w[i] = UNION {Builder!ListStep(m, x, p[i]) : x \in w[i - 1]}
    <2> TAKE i \in 1..n
    <2>1. w[i] = {f[i]} /\ w[i - 1] = {f[i - 1]}
      BY <1>1
    <2> HIDE DEF w
    <2> QED
      BY <1>s, <2>1
  <1>6. w = [i \in 0..n |-> w[i]] /\ w[0] = {m} /\ w[n] = {f[n]}
    BY <1>1, <1>4
  <1> HIDE DEF w
  <1>7. Builder!ListEnds(m, p) = w[n]
    <2>1. Walked(w, m, p)
      BY <1>5, <1>6 DEF Walked
    <2> QED
      BY <1>1, <2>1, ListEndsAre
  <1> QED
    BY <1>3, <1>6, <1>7

\* and is lost on any other.
LEMMA ListLost ==
    ASSUME Builder!TreesAreWhole, NEW m \in Trees, m.kind = "object", NEW p, IsPath(p),
           Builder!End(m, p).kind = "list", NEW h \in 1..Len(p), p[h].type = "index"
    PROVE  Builder!ListEnds(m, p) = {Builder!Undefined}
  <1> DEFINE f == Builder!Leads(m, p)
             n == Len(p)
             T == {i \in 1..n : p[i].type = "index"}
  <1>1. m \in Reach /\ n \in Nat /\ n \in 0..n
    BY PathFacts DEF Reach
  <1>2. Led(f, m, p)
    BY <1>1, LeadsIs
  <1>3. f[n].kind = "list" /\ Builder!End(m, p) = f[n]
    BY DEF Builder!End
  <1> HIDE DEF f
  <1>4. PICK k \in T : \A j \in T : ~(j < k)
    <2>1. T \subseteq Nat /\ h \in T
      BY <1>1
    <2> HIDE DEF T
    <2>2. T # {}
      BY <2>1
    <2> QED
      BY <2>1, <2>2, LeastNatural
  <1>5. k \in 1..n /\ p[k].type = "index" /\ \A j \in 1..n : j < k => p[j].type # "index"
    BY <1>4
  <1> HIDE DEF T
  <1>s. OnTheWay(f, m, p)
    BY <1>2, <1>3, ListWay
  <1>t. \A i \in 1..n : i < k => Builder!ListStep(m, f[i - 1], p[i]) = {f[i]}
    BY <1>s, <1>5 DEF OnTheWay
  <1>u. Builder!ListStep(m, f[k - 1], p[k]) = {Builder!Undefined}
    BY <1>s, <1>5 DEF OnTheWay
  <1> DEFINE w == [i \in 0..n |-> IF i < k THEN {f[i]} ELSE {Builder!Undefined}]
  <1>6. f[0] = m
    BY <1>2 DEF Led
  <1>7. \A i \in 1..n : w[i] = UNION {Builder!ListStep(m, x, p[i]) : x \in w[i - 1]}
    <2> TAKE i \in 1..n
    <2>1. /\ w[i] = IF i < k THEN {f[i]} ELSE {Builder!Undefined}
          /\ w[i - 1] = IF i - 1 < k THEN {f[i - 1]} ELSE {Builder!Undefined}
      BY <1>1
    <2>4. Builder!ListStep(m, Builder!Undefined, p[i]) = {Builder!Undefined}
      BY DEF Builder!ListStep, Builder!Undefined
    <2> HIDE DEF w
    <2>5. CASE i < k
      <3>1. w[i] = {f[i]} /\ w[i - 1] = {f[i - 1]}
        BY <1>1, <1>5, <2>1, <2>5
      <3> QED
        BY <1>t, <2>5, <3>1
    <2>6. CASE i = k
      <3>1. w[i] = {Builder!Undefined} /\ w[i - 1] = {f[i - 1]}
        BY <1>1, <1>5, <2>1, <2>6
      <3> QED
        BY <1>u, <2>6, <3>1
    <2>7. CASE i > k
      <3>1. w[i] = {Builder!Undefined} /\ w[i - 1] = {Builder!Undefined}
        BY <1>1, <1>5, <2>1, <2>7
      <3> QED
        BY <2>4, <3>1
    <2> QED
      BY <1>1, <1>5, <2>5, <2>6, <2>7
  <1>8. w = [i \in 0..n |-> w[i]] /\ w[0] = {m} /\ w[n] = {Builder!Undefined}
    BY <1>1, <1>5, <1>6
  <1> HIDE DEF w
  <1>9. Builder!ListEnds(m, p) = w[n]
    <2>1. Walked(w, m, p)
      BY <1>7, <1>8 DEF Walked
    <2> QED
      BY <1>1, <2>1, ListEndsAre
  <1> QED
    BY <1>8, <1>9

-----------------------------------------------------------------------------
(* What placeholders come to.                                                *)

Sections(slot) == Builder!split_section(slot.value)

LEMMA PieceFacts ==
    ASSUME Builder!TemplatesAreCut, NEW t \in Templates
    PROVE  /\ Len(t) \in Nat /\ DOMAIN t = 1..Len(t)
           /\ \A i \in 1..Len(t) :
                /\ t[i].type \in {"LITERAL", "FIELD", "LIST"}
                /\ t[i].type = "LITERAL" => IsSeq(t[i].value) /\ t[i].value # <<>>
                /\ t[i].type # "LITERAL" => IsPath(Sections(t[i]))
  <1>1. /\ t \in Seq(Builder!ToSet(t))
        /\ \A slot \in Builder!ToSet(t) :
             /\ slot.type \in {"LITERAL", "FIELD", "LIST"}
             /\ slot.value \in Seq(Builder!ToSet(slot.value))
             /\ IF slot.type = "LITERAL" THEN slot.value # <<>>
                ELSE \A s \in Builder!ToSet(slot.value) : s.type = "index" => s.n \in Nat
    BY DEF Builder!TemplatesAreCut
  <1>2. ASSUME NEW i \in 1..Len(t)
        PROVE  /\ t[i].type \in {"LITERAL", "FIELD", "LIST"}
               /\ t[i].type = "LITERAL" => IsSeq(t[i].value) /\ t[i].value # <<>>
               /\ t[i].type # "LITERAL" => IsPath(Sections(t[i]))
    <2> DEFINE slot == t[i]
    <2>1. slot \in Builder!ToSet(t)
      BY <1>1
    <2> HIDE DEF slot
    <2>2. /\ slot.type \in {"LITERAL", "FIELD", "LIST"}
          /\ slot.value \in Seq(Builder!ToSet(slot.value))
          /\ slot.type = "LITERAL" => slot.value # <<>>
          /\ slot.type # "LITERAL" => \A s \in Builder!ToSet(slot.value) : s.type = "index" => s.n \in Nat
      BY <1>1, <2>1
    <2>3. Sections(slot) \in Seq(Builder!ToSet(slot.value))
      BY <2>2, KeptIs DEF Sections, Builder!split_section
    <2>4. slot.type # "LITERAL" => IsPath(Sections(slot))
      BY <2>2, <2>3 DEF IsPath
    <2>5. IsSeq(slot.value)
      BY <2>2 DEF IsSeq
    <2> QED
      BY <2>2, <2>4, <2>5 DEF slot
  <1> QED
    BY <1>1, <1>2

LEMMA ArgFacts ==
    ASSUME Builder!TreesAreWhole, args \in Calls
    PROVE  /\ Len(args) \in Nat /\ DOMAIN args = 1..Len(args)
           /\ args # <<>> => 1 \in 1..Len(args)
           /\ \A i \in 1..Len(args) : args[i].model \in Trees
  <1>1. /\ args \in Seq(Builder!ToSet(args))
        /\ \A arg \in Builder!ToSet(args) : arg.model \in Trees
    BY DEF Builder!TreesAreWhole
  <1>2. \A i \in 1..Len(args) : args[i] \in Builder!ToSet(args)
    BY <1>1
  <1> QED
    BY <1>1, <1>2

\* No two arguments stand for one tag.
LEMMA OneTagged ==
    ASSUME Builder!TreesAreWhole, args \in Calls, NEW tag, NEW i \in Builder!Tagged(tag)
    PROVE  Builder!Tagged(tag) = {i}
  <1>1. \A k \in Builder!Tagged(tag) : /\ k \in 1..Len(args) /\ args[k].tag = tag
                                        /\ \A j \in 1..k - 1 : args[j].tag # tag
    BY ArgFacts DEF Builder!Tagged
  <1>2. ASSUME NEW k \in Builder!Tagged(tag)
        PROVE  k = i
    <2>1. i \notin 1..k - 1 /\ k \notin 1..i - 1
      BY <1>1
    <2> QED
      BY <1>1, <2>1
  <1> QED
    BY <1>2

LEMMA RootFacts ==
    ASSUME Builder!TreesAreWhole, args \in Calls, NEW way, IsPath(way), Builder!HasRoot(way)
    PROVE  /\ Builder!Root(way) \in Trees
           /\ IsPath(Builder!Rest(way))
  <1>1. way # <<>> /\ args # <<>>
    BY DEF Builder!HasRoot
  <1>2. IsPath(Builder!Rest(way))
    BY <1>1, TailIsPath DEF Builder!Rest
  <1>3. CASE Len(args) = 1
    <2>1. Builder!Root(way) = args[1].model
      BY <1>3 DEF Builder!Root
    <2>2. args[1].model \in Trees
      BY <1>1, ArgFacts
    <2> QED
      BY <1>2, <2>1, <2>2
  <1>4. CASE Len(args) # 1
    <2>1. PICK i : i \in Builder!Tagged(Head(way))
      BY <1>4 DEF Builder!HasRoot
    <2>2. (CHOOSE x \in Builder!Tagged(Head(way)) : TRUE) \in Builder!Tagged(Head(way))
      BY <2>1
    <2>3. \A k \in Builder!Tagged(Head(way)) : args[k].model \in Trees
      BY ArgFacts DEF Builder!Tagged
    <2> QED
      BY <1>2, <1>4, <2>2, <2>3 DEF Builder!Root
  <1> QED
    BY <1>2, <1>3, <1>4

\* A placeholder without a model fails; otherwise its way starts from it.
LEMMA ValuesOf ==
    ASSUME Builder!TreesAreWhole, args \in Calls, NEW slot
    PROVE  LET way == Sections(slot) IN
           /\ ~Builder!HasRoot(way) => Builder!Values(slot) = {Builder!Ends("false")}
           /\ Builder!HasRoot(way) /\ slot.type = "FIELD" =>
                Builder!Values(slot) = {Builder!get_plain_val(Builder!Root(way), Builder!Rest(way))}
           /\ Builder!HasRoot(way) /\ slot.type = "LIST" =>
                Builder!Values(slot) = Builder!get_list_val(Builder!Root(way), Builder!Rest(way))
  <1> DEFINE way == Sections(slot)
             Find(m, p) == IF slot.type = "FIELD" THEN {Builder!get_plain_val(m, p)}
                           ELSE Builder!get_list_val(m, p)
  <1>1. Builder!Values(slot) =
          IF way = <<>> \/ args = <<>> THEN {Builder!Ends("false")}
          ELSE IF Len(args) = 1 THEN Find(args[1].model, way)
          ELSE IF Builder!Tagged(Head(way)) = {} THEN {Builder!Ends("false")}
          ELSE UNION {Find(args[i].model, Tail(way)) : i \in Builder!Tagged(Head(way))}
    BY DEF Builder!Values, Sections
  <1> HIDE DEF way, Find
  <1>2. ~Builder!HasRoot(way) => Builder!Values(slot) = {Builder!Ends("false")}
    BY <1>1 DEF Builder!HasRoot
  <1>3. ASSUME Builder!HasRoot(way)
        PROVE  Builder!Values(slot) = Find(Builder!Root(way), Builder!Rest(way))
    <2>1. CASE Len(args) = 1
      BY <1>1, <1>3, <2>1 DEF Builder!HasRoot, Builder!Root, Builder!Rest
    <2>2. CASE Len(args) # 1
      <3>1. PICK i : i \in Builder!Tagged(Head(way))
        BY <1>3, <2>2 DEF Builder!HasRoot
      <3>2. Builder!Tagged(Head(way)) = {i}
        BY <3>1, OneTagged
      <3>3. (CHOOSE x \in Builder!Tagged(Head(way)) : TRUE) = i
        BY <3>2
      <3>4. Builder!Root(way) = args[i].model /\ Builder!Rest(way) = Tail(way)
        BY <2>2, <3>3 DEF Builder!Root, Builder!Rest
      <3>5. Builder!Values(slot) = UNION {Find(args[x].model, Tail(way)) : x \in {i}}
        BY <1>1, <1>3, <2>2, <3>2 DEF Builder!HasRoot
      <3> QED
        BY <3>4, <3>5
    <2> QED
      BY <2>1, <2>2
  <1> QED
    BY <1>2, <1>3 DEF Find, way

\* A field that the table allows has its value.
LEMMA FieldPromised ==
    ASSUME Builder!TreesAreWhole, args \in Calls, NEW slot, IsPath(Sections(slot)),
           slot.type = "FIELD", Builder!Documented(slot)
    PROVE  /\ Builder!Values(slot) = {Builder!Found(Builder!Written(slot))}
           /\ \E v, q : Builder!Written(slot) = <<Builder!Value(v, q)>>
  <1> DEFINE way == Sections(slot)
             root == Builder!Root(way)
             rest == Builder!Rest(way)
             end  == Builder!End(root, rest)
  <1>1. /\ Builder!HasRoot(way)
        /\ root.kind = "plain" \/ (root.kind = "object" /\ end.kind = "plain")
    BY DEF Builder!Documented, Sections
  <1>2. Builder!Written(slot) = LET p == IF root.kind = "plain" THEN root ELSE end
                                 IN  <<Builder!Value(p.val, p.quoted)>>
    BY DEF Builder!Written, Builder!Promised, Sections
  <1> HIDE DEF way
  <1>3. root \in Trees /\ IsPath(rest)
    BY <1>1, RootFacts DEF way
  <1>4. Builder!Values(slot) = {Builder!get_plain_val(root, rest)}
    BY <1>1, ValuesOf DEF way
  <1> HIDE DEF root, rest
  <1>5. CASE root.kind = "plain"
    BY <1>2, <1>4, <1>5 DEF Builder!get_plain_val
  <1>6. CASE root.kind = "object" /\ end.kind = "plain"
    <2>1. Builder!FieldEnd(root, rest) = end
      BY <1>3, <1>6, FieldFound
    <2>2. rest # <<>>
      <3> SUFFICES ASSUME rest = <<>> PROVE FALSE
        OBVIOUS
      <3>1. Led(Builder!Leads(root, rest), root, rest)
        BY <1>3, LeadsIs DEF Reach
      <3>2. end = root
        BY <3>1 DEF Led, Builder!End
      <3> QED
        BY <1>6, <3>2
    <2> QED
      BY <1>2, <1>4, <1>6, <2>1, <2>2 DEF Builder!get_plain_val
  <1> QED
    BY <1>1, <1>5, <1>6

\* Values with commas between them.
ByCommas(vs) ==
    IF Len(vs) = 0 THEN <<>>
    ELSE [k \in 1..2 * Len(vs) - 1 |-> IF k % 2 = 0 THEN Builder!Comma ELSE vs[(k + 1) \div 2]]

\* Quotes are put around values, and a comma stays.
LEMMA QuotedIs ==
    /\ \A v, q : Builder!Quoted(Builder!Value(v, q)) = Builder!Value(v, TRUE)
    /\ Builder!Quoted(Builder!Comma) = Builder!Comma
  <1>1. ASSUME NEW v, NEW q
        PROVE  Builder!Quoted(Builder!Value(v, q)) = Builder!Value(v, TRUE)
    BY DEF Builder!Quoted, Builder!Value
  <1>2. ASSUME NEW c
        PROVE  Builder!Quoted(Builder!Text(c)) = Builder!Text(c)
    BY DEF Builder!Quoted, Builder!Text
  <1>3. Builder!Comma = Builder!Text(",")
    BY Zenon DEF Builder!Comma
  <1>4. Builder!Quoted(Builder!Comma) = Builder!Comma
    BY <1>2, <1>3, Zenon
  <1> QED
    BY <1>1, <1>4

\* So has a list, with quotes, but for the rows that the code misreads.
LEMMA ListPromised ==
    ASSUME Builder!TreesAreWhole, args \in Calls, NEW slot, IsPath(Sections(slot)),
           slot.type = "LIST", Builder!Documented(slot), ~Builder!Misread(slot)
    PROVE  /\ \E values : /\ Builder!Values(slot) = {Builder!Found(values)}
                        /\ values \in Seq({Builder!Value(x.val, TRUE) : x \in Trees})
                        /\ Builder!Written(slot) = ByCommas(values)
           /\ Builder!EmptyList(slot) <=> Builder!Written(slot) = <<>>
  <1> DEFINE way == Sections(slot)
             root == Builder!Root(way)
             rest == Builder!Rest(way)
             end  == Builder!End(root, rest)
             values == [i \in 1..Len(end.items) |-> Builder!Value(end.items[i].val, TRUE)]
  <1>1. Builder!HasRoot(way) /\ end.kind = "list" /\ Builder!AllPlain(end)
    BY DEF Builder!Documented, Sections
  <1>2. rest # <<>> /\ (\A i \in DOMAIN rest : rest[i].type # "index") /\ root.kind = "object"
    BY DEF Builder!Misread, Builder!WholeList, Builder!Indexed, Builder!Documented, Sections
  <1>3. Builder!Promised(slot) =
          IF Len(end.items) = 0 THEN <<>>
          ELSE IF Len(end.items) > 0 THEN [k \in 1..2 * Len(end.items) - 1 |->
                 IF k % 2 = 0 THEN Builder!Comma
                 ELSE Builder!Value(end.items[(k + 1) \div 2].val, end.items[(k + 1) \div 2].quoted)]
          ELSE Builder!Promised(slot)
    BY DEF Builder!Promised, Sections
  <1> HIDE DEF way
  <1>4. root \in Trees /\ IsPath(rest)
    BY <1>1, RootFacts DEF way
  <1>5. Builder!Values(slot) = Builder!get_list_val(root, rest)
    BY <1>1, ValuesOf DEF way
  <1> HIDE DEF root, rest
  <1>6. Builder!ListEnds(root, rest) = {end}
    BY <1>1, <1>2, <1>4, ListFound, PathFacts
  <1>7. end.items \in Seq(Trees)
    <2>1. Led(Builder!Leads(root, rest), root, rest) /\ Len(rest) \in 0..Len(rest)
      BY <1>4, LeadsIs, PathFacts DEF Reach
    <2>2. end \in Reach
      BY <2>1 DEF Led, Builder!End
    <2> QED
      BY <1>1, <2>2, Kinds
  <1>8. \A i \in 1..Len(end.items) : end.items[i].kind = "plain" /\ end.items[i] \in Trees
    BY <1>1, <1>7 DEF Builder!AllPlain
  <1>9. Builder!get_list_val(root, rest) = {Builder!ItemValues(end.items)}
    BY <1>1, <1>2, <1>6 DEF Builder!get_list_val
  <1> HIDE DEF end
  <1>10. Builder!ItemValues(end.items) = Builder!Found(values)
    <2> DEFINE K == {i \in DOMAIN end.items : end.items[i].kind = "plain"}
    <2>1. Builder!Kept(end.items, K) = end.items
      <3>1. \A i \in 1..Len(end.items) : i \in K
        BY <1>7, <1>8
      <3> HIDE DEF K
      <3> QED
        BY <1>7, <3>1, KeptIs
    <2>2. Builder!NullPtr \notin Builder!ToSet(end.items)
      BY <1>7, <1>8 DEF Builder!ToSet, ToSet, Builder!NullPtr
    <2>3. DOMAIN end.items = 1..Len(end.items)
      BY <1>7
    <2> QED
      BY <2>1, <2>2, <2>3 DEF Builder!ItemValues
  <1>11. Len(end.items) \in Nat
    BY <1>7
  <1> DEFINE W == {Builder!Value(x.val, TRUE) : x \in Trees}
  <1>12. values \in Seq(W) /\ Len(values) = Len(end.items)
    <2>1. \A i \in 1..Len(end.items) : Builder!Value(end.items[i].val, TRUE) \in W
      BY <1>8
    <2> HIDE DEF W
    <2>2. values \in [1..Len(end.items) -> W]
      BY <2>1
    <2> HIDE DEF values
    <2>3. \A n \in Nat : \A f \in [1..n -> W] : f \in Seq(W) /\ Len(f) = n
      OBVIOUS
    <2> QED
      BY <1>11, <2>2, <2>3
  <1>13. /\ Builder!Written(slot) =
              IF Len(values) = 0 THEN <<>>
              ELSE [k \in 1..2 * Len(values) - 1 |->
                      IF k % 2 = 0 THEN Builder!Comma ELSE values[(k + 1) \div 2]]
         /\ Builder!Promised(slot) = <<>> <=> Len(values) = 0
         /\ Builder!Written(slot) = <<>> <=> Len(values) = 0
    <2> DEFINE n == Len(end.items)
               b == Builder!Promised(slot)
    <2>0. Builder!Written(slot) = [k \in DOMAIN b |-> Builder!Quoted(b[k])]
      BY DEF Builder!Written
    <2>1. CASE n = 0
      <3>1. b = <<>>
        BY <1>3, <2>1
      <3> HIDE DEF b
      <3>2. [k \in DOMAIN b |-> Builder!Quoted(b[k])] = <<>>
        BY <3>1
      <3> HIDE DEF n, values
      <3> QED
        BY <1>12, <2>0, <2>1, <3>1, <3>2 DEF n, b
    <2>2. CASE n > 0
      <3>1. \A k \in 1..2 * n - 1 : k % 2 # 0 => (k + 1) \div 2 \in 1..n
        BY <1>11
      <3>2. \A k \in 1..2 * n - 1 : k % 2 # 0 =>
              values[(k + 1) \div 2] = Builder!Value(end.items[(k + 1) \div 2].val, TRUE)
        BY <3>1
      <3>3. b = [k \in 1..2 * n - 1 |->
                   IF k % 2 = 0 THEN Builder!Comma
                   ELSE Builder!Value(end.items[(k + 1) \div 2].val, end.items[(k + 1) \div 2].quoted)]
        BY <1>3, <1>11, <2>2
      <3> HIDE DEF b
      <3>4. DOMAIN b = 1..2 * n - 1
        BY <3>3
      <3>5. ASSUME NEW k \in 1..2 * n - 1
            PROVE  Builder!Quoted(b[k]) = IF k % 2 = 0 THEN Builder!Comma ELSE values[(k + 1) \div 2]
        <4> HIDE DEF values
        <4>1. k % 2 = 0 => Builder!Quoted(b[k]) = Builder!Comma
          BY <3>3, QuotedIs
        <4>2. k % 2 # 0 => Builder!Quoted(b[k]) = values[(k + 1) \div 2]
          BY <3>2, <3>3, QuotedIs
        <4> QED
          BY <4>1, <4>2
      <3> HIDE DEF values
      <3>6. Builder!Written(slot) = [k \in 1..2 * Len(values) - 1 |->
                                       IF k % 2 = 0 THEN Builder!Comma ELSE values[(k + 1) \div 2]]
        BY <1>12, <2>0, <3>4, <3>5
      <3>7. b # <<>> /\ Builder!Written(slot) # <<>>
        <4>1. 1 \in DOMAIN b /\ DOMAIN Builder!Written(slot) = DOMAIN b
          BY <1>11, <2>0, <2>2, <3>4
        <4> QED
          BY <4>1
      <3>8. Len(values) # 0
        BY <1>12, <2>2
      <3> QED
        BY <3>6, <3>7, <3>8 DEF b
    <2>3. n = 0 \/ n > 0
      BY <1>11
    <2> QED
      BY <2>1, <2>2, <2>3
  <1> HIDE DEF values
  <1>14. Builder!Written(slot) = ByCommas(values)
    BY <1>13 DEF ByCommas
  <1>15. Builder!EmptyList(slot) <=> Builder!Written(slot) = <<>>
    <2>1. Builder!EmptyList(slot) <=> Len(values) = 0
      BY <1>13 DEF Builder!EmptyList
    <2> QED
      BY <1>13, <2>1
  <1> QED
    BY <1>5, <1>9, <1>10, <1>12, <1>14, <1>15 DEF W

\* A row that it misreads ends the call.
LEMMA ListMisread ==
    ASSUME Builder!TreesAreWhole, args \in Calls, NEW slot, IsPath(Sections(slot)),
           slot.type = "LIST", Builder!Documented(slot)
    PROVE  /\ Builder!WholeList(slot) => Builder!Values(slot) = {Builder!Ends("false")}
           /\ Builder!Indexed(slot) => Builder!Values(slot) = {Builder!Ends("undefined")}
  <1> DEFINE way == Sections(slot)
             root == Builder!Root(way)
             rest == Builder!Rest(way)
             end  == Builder!End(root, rest)
  <1>1. Builder!HasRoot(way) /\ end.kind = "list" /\ (root.kind = "object" \/ rest = <<>>)
    BY DEF Builder!Documented, Sections
  <1>2. /\ Builder!WholeList(slot) <=> rest = <<>>
        /\ Builder!Indexed(slot) <=> \E i \in DOMAIN rest : rest[i].type = "index"
    BY DEF Builder!WholeList, Builder!Indexed, Sections
  <1> HIDE DEF way
  <1>3. root \in Trees /\ IsPath(rest)
    BY <1>1, RootFacts DEF way
  <1>4. Builder!Values(slot) = Builder!get_list_val(root, rest)
    BY <1>1, ValuesOf DEF way
  <1> HIDE DEF root, rest
  <1>5. CASE rest = <<>>
    <2>1. ~Builder!Indexed(slot)
      BY <1>2, <1>5
    <2> QED
      BY <1>4, <1>5, <2>1 DEF Builder!get_list_val
  <1>6. ASSUME rest # <<>>, NEW i \in DOMAIN rest, rest[i].type = "index"
        PROVE  Builder!Values(slot) = {Builder!Ends("undefined")}
    <2>1. i \in 1..Len(rest) /\ root.kind = "object"
      BY <1>1, <1>3, <1>6, PathFacts
    <2>2. Builder!ListEnds(root, rest) = {Builder!Undefined}
      BY <1>1, <1>3, <1>6, <2>1, ListLost
    <2> QED
      BY <1>4, <1>6, <2>2 DEF Builder!get_list_val, Builder!Undefined
  <1> QED
    BY <1>2, <1>5, <1>6


-----------------------------------------------------------------------------
(* The statement so far.                                                     *)

\* The hypothesis of ValuesInPlace, for a template t.
AllowedIn(t) ==
    /\ \A i \in DOMAIN t : Builder!Documented(t[i])
    /\ \A i \in DOMAIN t : Builder!EmptyList(t[i]) => i > 1 /\ ~Builder!EndsInComma(t[i - 1])

\* What the documentation says of a placeholder depends on the arguments alone.
Some(S) == CHOOSE i \in S : TRUE

LEMMA ArgsStay ==
    ASSUME args' = args, NEW p
    PROVE  /\ Builder!HasRoot(p)' <=> Builder!HasRoot(p)
           /\ Builder!Root(p)' = Builder!Root(p)
           /\ Builder!Rest(p)' = Builder!Rest(p)
  <1>1. ASSUME NEW tag
        PROVE  Builder!Tagged(tag)' = Builder!Tagged(tag)
    BY DEF Builder!Tagged
  <1>2. Builder!HasRoot(p)' <=> Builder!HasRoot(p)
    BY <1>1 DEF Builder!HasRoot
  <1>3. Builder!Root(p)' = Builder!Root(p)
    <2>1. Builder!Root(p) = IF Len(args) = 1 THEN args[1].model
                            ELSE args[Some(Builder!Tagged(Head(p)))].model
      BY DEF Builder!Root, Some
    <2>2. Builder!Root(p)' = IF Len(args') = 1 THEN args'[1].model
                             ELSE args'[Some(Builder!Tagged(Head(p))')].model
      BY DEF Builder!Root, Some
    <2> QED
      BY <1>1, <2>1, <2>2
  <1>4. Builder!Rest(p)' = Builder!Rest(p)
    BY DEF Builder!Rest
  <1> QED
    BY <1>2, <1>3, <1>4

LEMMA PromisesStay ==
    ASSUME args' = args, NEW slot
    PROVE  /\ Builder!Documented(slot)' <=> Builder!Documented(slot)
           /\ Builder!WholeList(slot)' <=> Builder!WholeList(slot)
           /\ Builder!Indexed(slot)' <=> Builder!Indexed(slot)
           /\ Builder!Written(slot)' = Builder!Written(slot)
           /\ Builder!EmptyList(slot)' <=> Builder!EmptyList(slot)
  <1>1. Builder!Documented(slot)' <=> Builder!Documented(slot)
    BY ArgsStay DEF Builder!Documented
  <1>2. Builder!WholeList(slot)' <=> Builder!WholeList(slot)
    BY ArgsStay DEF Builder!WholeList
  <1>5. Builder!Indexed(slot)' <=> Builder!Indexed(slot)
    BY ArgsStay DEF Builder!Indexed
  <1>3. Builder!Promised(slot)' = Builder!Promised(slot)
    BY ArgsStay DEF Builder!Promised
  <1>4. Builder!EmptyList(slot)' <=> Builder!EmptyList(slot)
    BY <1>3 DEF Builder!EmptyList
  <1>6. Builder!Written(slot)' = Builder!Written(slot)
    BY <1>3 DEF Builder!Written
  <1> QED
    BY <1>1, <1>2, <1>4, <1>5, <1>6

LEMMA AllowedStays ==
    ASSUME UNCHANGED <<template, args>>
    PROVE  (\E t : t = template /\ AllowedIn(t))' <=> (\E t : t = template /\ AllowedIn(t))
  <1>1. ASSUME NEW t
        PROVE  AllowedIn(t)' <=> AllowedIn(t)
    BY PromisesStay DEF AllowedIn
  <1> QED
    BY <1>1

\* s is ps, one after the other.
Joined(ps, s) ==
    \E f : /\ f = [i \in 1..Len(ps) |-> IF i = 1 THEN ps[1] ELSE f[i - 1] \o ps[i]]
          /\ s = IF Len(ps) = 0 THEN <<>> ELSE f[Len(ps)]

LEMMA JoinedFlat ==
    ASSUME NEW ps, IsSeq(ps), NEW s, Joined(ps, s)
    PROVE  Builder!FlattenSeq(ps) = s
  <1> DEFINE n == Len(ps)
             Eq(g) == g = [i \in 1..n |-> IF i = 1 THEN ps[i] ELSE g[i - 1] \o ps[i]]
             u == CHOOSE g : Eq(g)
  <1>1. n \in Nat
    BY DEF IsSeq
  <1>2. PICK f : /\ f = [i \in 1..n |-> IF i = 1 THEN ps[1] ELSE f[i - 1] \o ps[i]]
                 /\ s = IF n = 0 THEN <<>> ELSE f[n]
    BY DEF Joined
  <1>3. Builder!FlattenSeq(ps) = IF n = 0 THEN ps ELSE u[n]
    BY DEF Builder!FlattenSeq, FlattenSeq
  <1>4. CASE n = 0
    <2>1. ps = <<>>
      BY <1>4 DEF IsSeq
    <2> QED
      BY <1>2, <1>3, <1>4, <2>1
  <1>5. CASE n # 0
    <2> HIDE DEF n
    <2>1. Eq(f)
      <3>1. \A i \in 1..n : f[i] = IF i = 1 THEN ps[i] ELSE f[i - 1] \o ps[i]
        BY <1>2
      <3>2. f = [i \in 1..n |-> f[i]]
        BY <1>2
      <3> QED
        BY <3>1, <3>2
    <2>2. Eq(u)
      <3> HIDE DEF Eq
      <3> QED
        BY <2>1
    <2> HIDE DEF u
    <2>3. \A i \in 1..n : u[i] = IF i = 1 THEN ps[i] ELSE u[i - 1] \o ps[i]
      BY <2>2
    <2>4. \A i \in 1..n : f[i] = IF i = 1 THEN ps[i] ELSE f[i - 1] \o ps[i]
      BY <2>1
    <2> HIDE DEF Eq
    <2> DEFINE P == {i \in Nat : i + 1 <= n => u[i + 1] = f[i + 1]}
    <2>5. 0 \in P
      <3>1. 0 + 1 = 1 /\ 1 \in 1..n
        BY <1>1, <1>5
      <3> QED
        BY <2>3, <2>4, <3>1
    <2>6. ASSUME NEW i \in Nat, i \in P
          PROVE  i + 1 \in P
      <3> SUFFICES ASSUME (i + 1) + 1 <= n
                   PROVE  u[(i + 1) + 1] = f[(i + 1) + 1]
        OBVIOUS
      <3>1. PICK j \in 1..n : j = (i + 1) + 1
        BY <1>1
      <3>2. j # 1 /\ j - 1 = i + 1 /\ u[i + 1] = f[i + 1]
        BY <1>1, <2>6, <3>1
      <3>3. u[j] = f[j]
        BY <2>3, <2>4, <3>2
      <3> QED
        BY <3>1, <3>3
    <2>7. n - 1 \in P
      <3>1. n - 1 \in Nat
        BY <1>1, <1>5
      <3> HIDE DEF P
      <3> QED
        BY <2>5, <2>6, <3>1, Induction
    <2>8. u[n] = f[n]
      <3>1. (n - 1) + 1 = n
        BY <1>1
      <3> QED
        BY <1>1, <2>7, <3>1
    <2> QED
      BY <1>2, <1>3, <1>5, <2>8
  <1> QED
    BY <1>4, <1>5

LEMMA JoinedMore ==
    ASSUME NEW ps, IsSeq(ps), NEW s, Joined(ps, s), NEW x, IsSeq(x)
    PROVE  Joined(Append(ps, x), s \o x)
  <1> DEFINE n == Len(ps)
             qs == Append(ps, x)
  <1>1. n \in Nat
    BY DEF IsSeq
  <1>2. Len(qs) = n + 1 /\ qs[n + 1] = x /\ \A i \in 1..n : qs[i] = ps[i]
    <2>1. PICK S : ps \in Seq(S)
      BY DEF IsSeq
    <2>2. ps \in Seq(S \cup {x}) /\ x \in S \cup {x}
      BY <2>1
    <2> QED
      BY <2>2
  <1>3. PICK f : /\ f = [i \in 1..n |-> IF i = 1 THEN ps[1] ELSE f[i - 1] \o ps[i]]
                 /\ s = IF n = 0 THEN <<>> ELSE f[n]
    BY DEF Joined
  <1> HIDE DEF n, qs
  <1> DEFINE g == [i \in 1..n + 1 |-> IF i <= n THEN f[i] ELSE s \o x]
  <1>4. ASSUME NEW i \in 1..n + 1
        PROVE  g[i] = IF i = 1 THEN qs[1] ELSE g[i - 1] \o qs[i]
    <2>1. CASE i <= n
      <3>1. i \in 1..n /\ g[i] = f[i] /\ (i # 1 => i - 1 \in 1..n + 1 /\ i - 1 <= n)
        BY <1>1, <2>1
      <3>2. f[i] = IF i = 1 THEN ps[1] ELSE f[i - 1] \o ps[i]
        BY <1>3, <3>1
      <3>3. i # 1 => g[i - 1] = f[i - 1]
        BY <3>1
      <3> HIDE DEF g
      <3> QED
        BY <1>2, <3>1, <3>2, <3>3
    <2>2. CASE i = n + 1 /\ n = 0
      <3>1. g[i] = s \o x /\ s = <<>> /\ i = 1 /\ qs[1] = x
        BY <1>2, <1>3, <2>2
      <3>2. <<>> \o x = x
        BY DEF IsSeq
      <3> HIDE DEF g
      <3> QED
        BY <3>1, <3>2
    <2>3. CASE i = n + 1 /\ n # 0
      <3>1. g[i] = s \o x /\ i # 1 /\ i - 1 = n /\ n \in 1..n + 1 /\ n <= n
        BY <1>1, <2>3
      <3>2. g[n] = f[n] /\ s = f[n]
        BY <1>3, <2>3, <3>1
      <3> HIDE DEF g
      <3> QED
        BY <1>2, <2>3, <3>1, <3>2
    <2> QED
      BY <1>1, <2>1, <2>2, <2>3
  <1>5. g = [i \in 1..n + 1 |-> IF i = 1 THEN qs[1] ELSE g[i - 1] \o qs[i]]
    <2>1. g = [i \in 1..n + 1 |-> g[i]]
      OBVIOUS
    <2> HIDE DEF g
    <2> QED
      BY <1>4, <2>1
  <1>6. g[n + 1] = s \o x
    <2>1. n + 1 \in 1..n + 1 /\ ~(n + 1 <= n)
      BY <1>1
    <2> QED
      BY <2>1
  <1> HIDE DEF g
  <1>7. Len(qs) = n + 1 /\ n + 1 # 0
    BY <1>1, <1>2
  <1>8. Joined(qs, s \o x)
    BY <1>5, <1>6, <1>7 DEF Joined
  <1> QED
    BY <1>8 DEF qs

LEMMA JoinIs ==
    ASSUME NEW a, IsSeq(a), NEW b, IsSeq(b)
    PROVE  /\ IsSeq(a \o b) /\ Len(a) \in Nat /\ Len(b) \in Nat
           /\ Len(a \o b) = Len(a) + Len(b)
           /\ b # <<>> => a \o b # <<>> /\ (a \o b)[Len(a \o b)] = b[Len(b)]
           /\ b = <<>> => a \o b = a
  <1>1. PICK S, T : a \in Seq(S) /\ b \in Seq(T)
    BY DEF IsSeq
  <1>2. a \in Seq(S \cup T) /\ b \in Seq(S \cup T)
    BY <1>1
  <1>3. a \o b \in Seq(S \cup T) /\ Len(a \o b) = Len(a) + Len(b)
    BY <1>2
  <1>4. b # <<>> => Len(b) \in 1..Len(b) /\ (a \o b)[Len(a) + Len(b)] = b[Len(b)]
    BY <1>2
  <1>5. Len(a) \in Nat /\ Len(b) \in Nat
    BY <1>2
  <1>6. b # <<>> => a \o b # <<>>
    BY <1>2, <1>3, <1>4
  <1>7. b = <<>> => a \o b = a
    BY <1>2
  <1>8. IsSeq(a \o b)
    BY <1>3 DEF IsSeq
  <1> QED
    BY <1>3, <1>4, <1>5, <1>6, <1>7, <1>8

LEMMA ByCommasIs ==
    ASSUME NEW T, NEW vs \in Seq(T)
    PROVE  /\ IsSeq(ByCommas(vs))
           /\ Len(vs) = 0 => ByCommas(vs) = <<>>
           /\ Len(vs) # 0 => /\ ByCommas(vs) \in Seq(T \cup {Builder!Comma})
                             /\ Len(ByCommas(vs)) = 2 * Len(vs) - 1
                             /\ ByCommas(vs) # <<>>
                             /\ ByCommas(vs)[Len(ByCommas(vs))] \in T
  <1> DEFINE n == Len(vs)
             U == T \cup {Builder!Comma}
             b == [k \in 1..2 * n - 1 |-> IF k % 2 = 0 THEN Builder!Comma ELSE vs[(k + 1) \div 2]]
  <1>1. n \in Nat /\ \A i \in 1..n : vs[i] \in T
    OBVIOUS
  <1>2. CASE n = 0
    <2>1. ByCommas(vs) = <<>>
      BY <1>2 DEF ByCommas
    <2>2. <<>> \in Seq(T)
      OBVIOUS
    <2> QED
      BY <1>2, <2>1, <2>2 DEF IsSeq
  <1>3. CASE n # 0
    <2>1. ByCommas(vs) = b
      BY <1>3 DEF ByCommas
    <2>2. \A k \in 1..2 * n - 1 : k % 2 # 0 => (k + 1) \div 2 \in 1..n
      BY <1>1
    <2> HIDE DEF n
    <2>3. \A k \in 1..2 * n - 1 : (IF k % 2 = 0 THEN Builder!Comma ELSE vs[(k + 1) \div 2]) \in U
      BY <1>1, <2>2
    <2>4. b \in [1..2 * n - 1 -> U] /\ 2 * n - 1 \in Nat
      <3> HIDE DEF U
      <3> QED
        BY <1>1, <1>3, <2>3
    <2>5. 2 * n - 1 \in 1..2 * n - 1 /\ (2 * n - 1) % 2 # 0
      BY <1>1, <1>3
    <2>6. b[2 * n - 1] \in T
      <3>1. (2 * n - 1 + 1) \div 2 \in 1..n
        BY <2>2, <2>5
      <3>2. b[2 * n - 1] = vs[(2 * n - 1 + 1) \div 2]
        BY <2>5
      <3> QED
        BY <1>1, <3>1, <3>2
    <2> HIDE DEF b, U
    <2>7. \A m \in Nat : \A f \in [1..m -> U] : f \in Seq(U) /\ Len(f) = m
      OBVIOUS
    <2>8. b \in Seq(U) /\ Len(b) = 2 * n - 1
      BY <2>4, <2>7
    <2>9. b # <<>>
      BY <2>5, <2>8
    <2> QED
      BY <1>3, <2>1, <2>6, <2>8, <2>9 DEF n, U, IsSeq
  <1> QED
    BY <1>2, <1>3

\* A list is appended without the comma behind its last value, if the comma
\* that is taken back is its own.
LEMMA ListAppendedIs ==
    ASSUME NEW S, NEW s \in Seq(S), NEW T, NEW vs \in Seq(T),
           Len(vs) = 0 => s # <<>> /\ Last(s) # Builder!Comma
    PROVE  Builder!ListAppended(s, vs) = s \o ByCommas(vs)
  <1> DEFINE n == Len(vs)
             U == S \cup T \cup {Builder!Comma}
             w == [k \in 1..2 * n |-> IF k % 2 = 0 THEN Builder!Comma ELSE vs[(k + 1) \div 2]]
             t == s \o w
  <1>1. n \in Nat /\ (\A i \in 1..n : vs[i] \in T) /\ s \in Seq(U)
    OBVIOUS
  <1>2. \A k \in 1..2 * n : k % 2 # 0 => (k + 1) \div 2 \in 1..n
    BY <1>1
  <1>3. Builder!ListAppended(s, vs) = IF t[Len(t)] = Builder!Comma THEN SubSeq(t, 1, Len(t) - 1) ELSE t
    BY DEF Builder!ListAppended, Builder!WithCommas, Builder!Last, Last, Builder!Front, Front
  <1> HIDE DEF n
  <1>4. w \in Seq(U) /\ Len(w) = 2 * n /\ \A k \in 1..2 * n : w[k] = IF k % 2 = 0 THEN Builder!Comma ELSE vs[(k + 1) \div 2]
    <2>1. \A k \in 1..2 * n : (IF k % 2 = 0 THEN Builder!Comma ELSE vs[(k + 1) \div 2]) \in U
      BY <1>1, <1>2
    <2>2. w \in [1..2 * n -> U] /\ 2 * n \in Nat
      <3> HIDE DEF U
      <3> QED
        BY <1>1, <2>1
    <2>3. \A k \in 1..2 * n : w[k] = IF k % 2 = 0 THEN Builder!Comma ELSE vs[(k + 1) \div 2]
      OBVIOUS
    <2> HIDE DEF w, U
    <2>4. \A m \in Nat : \A f \in [1..m -> U] : f \in Seq(U) /\ Len(f) = m
      OBVIOUS
    <2> QED
      BY <2>2, <2>3, <2>4
  <1> HIDE DEF w
  <1> HIDE DEF U
  <1> DEFINE m == Len(s)
  <1>5. m \in Nat /\ t \in Seq(U) /\ Len(t) = m + 2 * n
        /\ (\A k \in 1..m : t[k] = s[k]) /\ \A k \in 1..2 * n : t[m + k] = w[k]
    <2>1. m \in Nat /\ DOMAIN w = 1..2 * n
      BY <1>1, <1>4
    <2>2. t \in Seq(U) /\ Len(t) = m + Len(w)
      BY <1>1, <1>4, ConcatProperties
    <2>3. \A i \in 1..Len(s) + Len(w) : t[i] = IF i <= Len(s) THEN s[i] ELSE w[i - Len(s)]
      BY <1>1, <1>4, ConcatProperties
    <2> HIDE DEF t, m
    <2>4. \A k \in 1..m : k \in 1..m + 2 * n /\ k <= m
      BY <1>1, <2>1
    <2>5. \A k \in 1..2 * n : m + k \in 1..m + 2 * n /\ ~(m + k <= m) /\ (m + k) - m = k
      BY <1>1, <2>1
    <2> QED
      BY <1>4, <2>1, <2>2, <2>3, <2>4, <2>5 DEF m
  <1>6. CASE n = 0
    <2>1. w = <<>>
      BY <1>4, <1>6
    <2>2. t = s
      BY <1>1, <2>1
    <2>3. s[Len(s)] # Builder!Comma
      BY <1>6 DEF Last, n
    <2>4. Builder!ListAppended(s, vs) = s
      BY <1>3, <2>2, <2>3
    <2>5. ByCommas(vs) = <<>>
      BY <1>6, ByCommasIs DEF n
    <2>6. s \o <<>> = s
      BY <1>1
    <2> QED
      BY <2>4, <2>5, <2>6
  <1>7. CASE n # 0
    <2> DEFINE b == ByCommas(vs)
    <2>1. ByCommas(vs) = [k \in 1..2 * n - 1 |-> IF k % 2 = 0 THEN Builder!Comma ELSE vs[(k + 1) \div 2]]
      BY <1>7 DEF ByCommas, n
    <2>2. b \in Seq(T \cup {Builder!Comma}) /\ Len(b) = 2 * n - 1
          /\ \A k \in 1..2 * n - 1 : b[k] = IF k % 2 = 0 THEN Builder!Comma ELSE vs[(k + 1) \div 2]
      BY <1>7, <2>1, ByCommasIs DEF n
    <2> HIDE DEF b
    <2>3. b \in Seq(U)
      BY <2>2 DEF U
    <2>4. t[Len(t)] = Builder!Comma
      <3>1. 2 * n \in 1..2 * n /\ (2 * n) % 2 = 0
        BY <1>1, <1>7
      <3>2. w[2 * n] = Builder!Comma
        BY <1>4, <3>1
      <3> QED
        BY <1>5, <3>1, <3>2
    <2> DEFINE l == m + 2 * n - 1
               x == SubSeq(t, 1, Len(t) - 1)
               y == s \o b
    <2>5. Builder!ListAppended(s, vs) = x
      BY <1>3, <2>4
    <2> HIDE DEF t, m
    <2>6. l \in Nat /\ Len(t) - 1 = l /\ l <= Len(t)
      BY <1>1, <1>5, <1>7
    <2>7. x \in Seq(U) /\ Len(x) = l /\ \A k \in 1..l : x[k] = t[k]
      <3> HIDE DEF l
      <3>1. x = SubSeq(t, 1, l) /\ Len(t) \in Nat
        BY <1>5, <2>6
      <3> QED
        BY <1>5, <2>6, <3>1
    <2>8. y \in Seq(U) /\ Len(y) = l
          /\ \A k \in 1..l : y[k] = IF k <= m THEN s[k] ELSE b[k - m]
      <3>1. Len(s) + Len(b) = l
        BY <1>5, <2>2, <2>6 DEF m
      <3>2. /\ y \in Seq(U) /\ Len(y) = Len(s) + Len(b)
            /\ \A k \in 1..Len(s) + Len(b) : y[k] = IF k <= Len(s) THEN s[k] ELSE b[k - Len(s)]
        BY <1>1, <2>3, ConcatProperties
      <3> HIDE DEF y, l
      <3> QED
        BY <3>1, <3>2 DEF m
    <2> HIDE DEF x, y
    <2>9. ASSUME NEW k \in 1..l
          PROVE  t[k] = y[k]
      <3>1. CASE k <= m
        <4>1. k \in 1..m
          BY <2>6, <3>1
        <4> QED
          BY <1>5, <2>8, <3>1, <4>1
      <3>2. CASE ~(k <= m)
        <4>1. PICK j \in 1..2 * n - 1 : k = m + j
          <5>1. k - m \in 1..2 * n - 1 /\ k = m + (k - m)
            BY <1>1, <1>5, <3>2
          <5> QED
            BY <5>1
        <4>2. j \in 1..2 * n /\ k - m = j
          BY <1>1, <1>5, <4>1
        <4>3. t[k] = w[j] /\ y[k] = b[j]
          BY <1>5, <2>8, <3>2, <4>1, <4>2
        <4> QED
          BY <1>4, <2>2, <4>2, <4>3
      <3> QED
        BY <3>1, <3>2
    <2> HIDE DEF l
    <2>10. x = y
      BY <2>7, <2>8, <2>9, SeqEqual
    <2> QED
      BY <2>5, <2>10 DEF y, b
  <1> QED
    BY <1>6, <1>7

\* What statements are made of before their end.
Fills(t, n) == [i \in 1..n |-> Builder!Written(t[i])]

Good(t, n, s) ==
    /\ \A i \in 1..n : ~Builder!Misread(t[i])
    /\ IsSeq(s) /\ Joined(Fills(t, n), s)
    /\ n > 0 /\ ~Builder!EndsInComma(t[n]) => s # <<>> /\ Last(s) # Builder!Comma

\* One piece more, with its promised text.
LEMMA GoodMore ==
    ASSUME NEW t, NEW n \in Nat, NEW s, Good(t, n, s), ~Builder!Misread(t[n + 1]),
           IsSeq(Builder!Written(t[n + 1])),
           LET p == Builder!Written(t[n + 1]) IN
               IF p # <<>> THEN p[Len(p)] # Builder!Comma \/ Builder!EndsInComma(t[n + 1])
               ELSE n > 0 /\ ~Builder!EndsInComma(t[n])
    PROVE  Good(t, n + 1, s \o Builder!Written(t[n + 1]))
  <1> DEFINE p == Builder!Written(t[n + 1])
             u == s \o p
  <1>1. IsSeq(s) /\ IsSeq(p) /\ Joined(Fills(t, n), s)
    BY DEF Good
  <1>2. IsSeq(u) /\ (p # <<>> => u # <<>> /\ u[Len(u)] = p[Len(p)]) /\ (p = <<>> => u = s)
    <2> HIDE DEF p
    <2> QED
      BY <1>1, JoinIs
  <1>3. Fills(t, n + 1) = Append(Fills(t, n), p) /\ IsSeq(Fills(t, n))
    <2> DEFINE a == Fills(t, n)
               S == {Builder!Written(t[i]) : i \in 1..n + 1}
    <2>1. a \in [1..n -> S]
      <3>1. \A i \in 1..n : i \in 1..n + 1
        OBVIOUS
      <3> QED
        BY <3>1 DEF Fills
    <2>2. p \in S
      <3>1. n + 1 \in 1..n + 1
        OBVIOUS
      <3> QED
        BY <3>1
    <2>3. Fills(t, n + 1) \in [1..n + 1 -> S] /\ Fills(t, n + 1)[n + 1] = p
          /\ \A i \in 1..n : Fills(t, n + 1)[i] = a[i]
      <3>1. n + 1 \in 1..n + 1 /\ \A i \in 1..n : i \in 1..n + 1
        OBVIOUS
      <3> QED
        BY <3>1 DEF Fills
    <2> HIDE DEF S, p, a
    <2>4. \A m \in Nat : \A f \in [1..m -> S] : f \in Seq(S) /\ Len(f) = m
      OBVIOUS
    <2>5. a \in Seq(S) /\ Len(a) = n /\ Fills(t, n + 1) \in Seq(S) /\ Len(Fills(t, n + 1)) = n + 1
      BY <2>1, <2>3, <2>4
    <2>6. Append(a, p) \in Seq(S) /\ Len(Append(a, p)) = n + 1 /\ Append(a, p)[n + 1] = p
          /\ \A i \in 1..n : Append(a, p)[i] = a[i]
      BY <2>2, <2>5
    <2>7. \A i \in 1..n + 1 : i \in 1..n \/ i = n + 1
      OBVIOUS
    <2>8. \A i \in 1..Len(Append(a, p)) : Append(a, p)[i] = Fills(t, n + 1)[i]
      BY <2>3, <2>6, <2>7
    <2>9. Append(a, p) = Fills(t, n + 1)
      BY <2>5, <2>6, <2>8, SeqEqual
    <2> QED
      BY <2>5, <2>9 DEF a, IsSeq
  <1>4. Joined(Fills(t, n + 1), u)
    <2> HIDE DEF p
    <2> QED
      BY <1>1, <1>3, JoinedMore
  <1>5. ASSUME ~Builder!EndsInComma(t[n + 1])
        PROVE  u # <<>> /\ Last(u) # Builder!Comma
    <2>1. CASE p # <<>>
      BY <1>2, <1>5, <2>1 DEF Last
    <2>2. CASE p = <<>>
      BY <1>2, <2>2 DEF Good
    <2> QED
      BY <2>1, <2>2
  <1>6. \A i \in 1..n + 1 : ~Builder!Misread(t[i])
    <2>1. \A i \in 1..n + 1 : i \in 1..n \/ i = n + 1
      OBVIOUS
    <2> QED
      BY <2>1 DEF Good
  <1> QED
    BY <1>2, <1>4, <1>5, <1>6 DEF Good

\* Only lists are misread.
LEMMA OthersRead ==
    ASSUME NEW slot, slot.type # "LIST"
    PROVE  ~Builder!Misread(slot)
  BY DEF Builder!Misread, Builder!WholeList, Builder!Indexed

\* A comma is the text of one character, and no value.
IsComma(c) == c = ","

LEMMA Commas ==
    /\ \A c : Builder!Text(c) = Builder!Comma => IsComma(c)
    /\ \A v, q : Builder!Value(v, q) # Builder!Comma
  <1>1. \A c, d : Builder!Text(c) = Builder!Text(d) => c = d
    BY DEF Builder!Text
  <1>2. \A v, q, c : Builder!Value(v, q) # Builder!Text(c)
    BY DEF Builder!Value, Builder!Text
  <1>3. Builder!Comma = Builder!Text(",")
    BY Zenon DEF Builder!Comma
  <1> QED
    BY <1>1, <1>2, <1>3, Zenon DEF IsComma

LEMMA LiteralAppended ==
    ASSUME Builder!TemplatesAreCut, NEW t \in Templates, NEW n \in 0..Len(t) - 1,
           NEW s, Good(t, n, s), t[n + 1].type = "LITERAL"
    PROVE  Good(t, n + 1, s \o [i \in DOMAIN t[n + 1].value |-> Builder!Text(t[n + 1].value[i])])
  <1> DEFINE slot == t[n + 1]
             v == slot.value
             p == Builder!Written(slot)
  <1>1. n \in Nat /\ n + 1 \in 1..Len(t)
    BY PieceFacts
  <1>2. IsSeq(v) /\ v # <<>>
    BY <1>1, PieceFacts
  <1>3. p = [i \in DOMAIN v |-> Builder!Text(v[i])]
    BY DEF Builder!Written, Builder!Promised
  <1> HIDE DEF v
  <1>4. PICK S : v \in Seq(S)
    BY <1>2 DEF IsSeq
  <1>5. Len(v) \in 1..Len(v) /\ DOMAIN v = 1..Len(v) /\ Len(v) \in Nat
    BY <1>2, <1>4
  <1> HIDE DEF p
  <1>6. p \in Seq({Builder!Text(c) : c \in S}) /\ Len(p) = Len(v) /\ p[Len(v)] = Builder!Text(v[Len(v)])
    <2> DEFINE W == {Builder!Text(c) : c \in S}
    <2>1. p \in [1..Len(v) -> W] /\ p[Len(v)] = Builder!Text(v[Len(v)])
      BY <1>3, <1>4, <1>5
    <2> HIDE DEF W
    <2>2. \A m \in Nat : \A f \in [1..m -> W] : f \in Seq(W) /\ Len(f) = m
      OBVIOUS
    <2>3. p \in Seq(W) /\ Len(p) = Len(v)
      BY <1>5, <2>1, <2>2
    <2> QED
      BY <2>1, <2>3 DEF W
  <1>7. p # <<>> /\ IsSeq(p)
    BY <1>5, <1>6 DEF IsSeq
  <1>8. p[Len(p)] = Builder!Comma => Builder!EndsInComma(slot)
    <2>1. Builder!EndsInComma(slot) <=> slot.type = "LITERAL" /\ IsComma(v[Len(v)])
      BY Zenon DEF Builder!EndsInComma, Builder!Last, Last, v, IsComma
    <2> QED
      BY <1>6, <2>1, Commas
  <1>9. Good(t, n + 1, s \o p)
    BY <1>1, <1>7, <1>8, GoodMore, OthersRead DEF p
  <1> QED
    BY <1>3, <1>9 DEF v

LEMMA FieldAppended ==
    ASSUME Builder!TemplatesAreCut, Builder!TreesAreWhole, args \in Calls,
           NEW t \in Templates, AllowedIn(t), NEW n \in 0..Len(t) - 1,
           NEW s, Good(t, n, s), t[n + 1].type = "FIELD", NEW got \in Builder!Values(t[n + 1])
    PROVE  got.ends = "no" /\ Good(t, n + 1, s \o got.vals)
  <1> DEFINE slot == t[n + 1]
             p == Builder!Written(slot)
  <1>1. n \in Nat /\ n + 1 \in 1..Len(t) /\ n + 1 \in DOMAIN t
    BY PieceFacts
  <1>2. IsPath(Sections(slot)) /\ Builder!Documented(slot)
    BY <1>1, PieceFacts DEF AllowedIn
  <1> HIDE DEF p
  <1>3. /\ Builder!Values(slot) = {Builder!Found(p)}
        /\ \E v, q : p = <<Builder!Value(v, q)>>
    BY <1>2, FieldPromised DEF p
  <1>4. got = Builder!Found(p)
    BY <1>3
  <1>5. got.ends = "no" /\ got.vals = p
    BY <1>4 DEF Builder!Found
  <1>6. PICK v, q : p = <<Builder!Value(v, q)>>
    BY <1>3
  <1>7. IsSeq(p) /\ p # <<>> /\ p[Len(p)] = Builder!Value(v, q)
    <2>1. \A x : <<x>> \in Seq({x}) /\ Len(<<x>>) = 1 /\ <<x>>[1] = x /\ <<x>> # <<>>
      OBVIOUS
    <2> QED
      BY <1>6, <2>1 DEF IsSeq
  <1>8. Builder!Value(v, q) # Builder!Comma
    BY Commas
  <1>9. Good(t, n + 1, s \o p)
    BY <1>1, <1>7, <1>8, GoodMore, OthersRead DEF p
  <1> QED
    BY <1>5, <1>9

LEMMA ListIsAppended ==
    ASSUME Builder!TemplatesAreCut, Builder!TreesAreWhole, args \in Calls,
           NEW t \in Templates, AllowedIn(t), NEW n \in 0..Len(t) - 1,
           NEW s, Good(t, n, s), t[n + 1].type = "LIST", ~Builder!Misread(t[n + 1]),
           NEW got \in Builder!Values(t[n + 1])
    PROVE  /\ got.ends = "no" /\ s \o got.vals # <<>>
           /\ Good(t, n + 1, Builder!ListAppended(s, got.vals))
  <1> DEFINE slot == t[n + 1]
             p == Builder!Written(slot)
             T == {Builder!Value(x.val, TRUE) : x \in Trees}
  <1>1. n \in Nat /\ n + 1 \in 1..Len(t) /\ n + 1 \in DOMAIN t
    BY PieceFacts
  <1>2. IsPath(Sections(slot)) /\ Builder!Documented(slot)
    BY <1>1, PieceFacts DEF AllowedIn
  <1> HIDE DEF p, T
  <1>3. PICK vs : Builder!Values(slot) = {Builder!Found(vs)} /\ vs \in Seq(T) /\ p = ByCommas(vs)
    BY <1>2, ListPromised DEF p, T
  <1>6. Builder!EmptyList(slot) <=> p = <<>>
    BY <1>2, ListPromised DEF p
  <1>4. got = Builder!Found(vs)
    BY <1>3
  <1>5. got.ends = "no" /\ got.vals = vs
    BY <1>4 DEF Builder!Found
  <1>7. p = <<>> => n > 0 /\ ~Builder!EndsInComma(t[n])
    <2>1. (n + 1) - 1 = n /\ (n + 1 > 1 => n > 0)
      BY <1>1
    <2> QED
      BY <1>1, <1>6, <2>1 DEF AllowedIn
  <1>8. /\ IsSeq(p) /\ (Len(vs) = 0 <=> p = <<>>)
        /\ p # <<>> => p[Len(p)] \in T
    BY <1>3, ByCommasIs
  <1>9. \A v \in T : v # Builder!Comma
    BY Commas DEF T
  <1>10. Good(t, n + 1, s \o p)
    BY <1>1, <1>7, <1>8, <1>9, GoodMore DEF p
  <1>11. p = <<>> => s # <<>> /\ Last(s) # Builder!Comma
    BY <1>7 DEF Good
  <1>12. PICK S : s \in Seq(S)
    BY DEF Good, IsSeq
  <1>13. Builder!ListAppended(s, vs) = s \o p
    BY <1>3, <1>8, <1>11, <1>12, ListAppendedIs
  <1>14. s \o vs # <<>>
    <2>1. s \in Seq(S \cup T) /\ vs \in Seq(S \cup T)
      BY <1>3, <1>12
    <2>2. s # <<>> \/ vs # <<>>
      BY <1>3, <1>8, <1>11
    <2> QED
      BY <2>1, <2>2, ConcatEqualIffEmpty
  <1> QED
    BY <1>5, <1>10, <1>13, <1>14

-----------------------------------------------------------------------------
(* The inductive invariant of the builder.                                   *)

BuildInv ==
    built = "idle" \/
        \E t, n : /\ t = template /\ n = done
                  /\ t \in Templates /\ args \in Calls /\ n \in 0..Len(t)
                  /\ AllowedIn(t) => /\ built = "undefined" => Builder!Indexed(t[n + 1])
                                     /\ built = "false" => Long # {} \/ Builder!WholeList(t[n + 1])
                                     /\ Good(t, n, sql)

LEMMA NothingJoined ==
    ASSUME NEW ps, Len(ps) = 0
    PROVE  Joined(ps, <<>>)
  <1> DEFINE f == [i \in 1..Len(ps) |-> <<>>]
  <1>1. f = [i \in 1..Len(ps) |-> IF i = 1 THEN ps[1] ELSE f[i - 1] \o ps[i]]
    OBVIOUS
  <1> HIDE DEF f
  <1> QED
    BY <1>1 DEF Joined

LEMMA Outcomes ==
    ASSUME Builder!TreesAreWhole, args \in Calls, NEW slot, slot.type \in {"FIELD", "LIST"},
           NEW got \in Builder!Values(slot)
    PROVE  got.ends \in {"no", "false", "undefined"}
  <1> DEFINE way == Sections(slot)
             root == Builder!Root(way)
             rest == Builder!Rest(way)
  <1>1. /\ ~Builder!HasRoot(way) => got = Builder!Ends("false")
        /\ Builder!HasRoot(way) /\ slot.type = "FIELD" => got = Builder!get_plain_val(root, rest)
        /\ Builder!HasRoot(way) /\ slot.type = "LIST" => got \in Builder!get_list_val(root, rest)
    BY ValuesOf
  <1> HIDE DEF way, root, rest
  <1>2. \A how, vs : Builder!Ends(how).ends = how /\ Builder!Found(vs).ends = "no"
    BY DEF Builder!Ends, Builder!Found
  <1>3. Builder!get_plain_val(root, rest).ends \in {"no", "false", "undefined"}
    BY <1>2 DEF Builder!get_plain_val
  <1>4. \A items : Builder!ItemValues(items).ends \in {"no", "undefined"}
    BY <1>2 DEF Builder!ItemValues
  <1>5. \A x \in Builder!get_list_val(root, rest) : x.ends \in {"no", "false", "undefined"}
    BY <1>2, <1>4 DEF Builder!get_list_val
  <1> QED
    BY <1>1, <1>2, <1>3, <1>5

LEMMA BuildStarts ==
    ASSUME Builder!TemplatesAreCut, NEW pattern1 \in Templates, NEW call \in Calls,
           Builder!prepare_statement(pattern1, call)
    PROVE  BuildInv'
  <1>1. /\ template' = pattern1 /\ args' = call /\ done' = 0 /\ sql' = <<>> /\ built' = "running"
    BY DEF Builder!prepare_statement
  <1>2. Len(pattern1) \in Nat
    BY PieceFacts
  <1>3. ASSUME NEW t, NEW n, n = 0
        PROVE  Good(t, n, <<>>)'
    <2>1. Fills(t, n)' = <<>>
      BY <1>3 DEF Fills
    <2>2. IsSeq(<<>>)
      <3>1. <<>> \in Seq({})
        OBVIOUS
      <3> QED
        BY <3>1 DEF IsSeq
    <2>3. Joined(<<>>, <<>>)
      <3>1. Len(<<>>) = 0
        OBVIOUS
      <3> QED
        BY <3>1, NothingJoined
    <2> QED
      BY <1>3, <2>1, <2>2, <2>3 DEF Good
  <1> QED
    BY <1>1, <1>2, <1>3 DEF BuildInv

\* What has been built does not change with the state that says how it goes on.
LEMMA GoodStays ==
    ASSUME args' = args, NEW t, NEW n, NEW s
    PROVE  /\ Good(t, n, s)' <=> Good(t, n, s)
           /\ AllowedIn(t)' <=> AllowedIn(t)
           /\ Builder!WholeList(t[n + 1])' <=> Builder!WholeList(t[n + 1])
           /\ Builder!Indexed(t[n + 1])' <=> Builder!Indexed(t[n + 1])
  <1>1. Fills(t, n)' = Fills(t, n)
    BY PromisesStay DEF Fills
  <1>4. \A i \in 1..n : Builder!Misread(t[i])' <=> Builder!Misread(t[i])
    BY PromisesStay DEF Builder!Misread
  <1>2. Good(t, n, s)' <=> Good(t, n, s)
    BY <1>1, <1>4 DEF Good
  <1>3. AllowedIn(t)' <=> AllowedIn(t)
    BY PromisesStay DEF AllowedIn
  <1> QED
    BY <1>2, <1>3, PromisesStay

LEMMA BuildGoesOn ==
    ASSUME Builder!TemplatesAreCut, Builder!TreesAreWhole, BuildInv, Builder!AppendPiece
    PROVE  BuildInv'
  <1>1. PICK t, n, s : t = template /\ n = done /\ s = sql
    OBVIOUS
  <1>2. built = "running" /\ n < Len(t) /\ template' = t /\ args' = args
    BY <1>1 DEF Builder!AppendPiece, Builder!AppendLiteral, Builder!AppendValues, Builder!Appended, Builder!EndWith
  <1>3. /\ t \in Templates /\ args \in Calls /\ n \in 0..Len(t)
        /\ AllowedIn(t) => Good(t, n, s)
    BY <1>1, <1>2 DEF BuildInv
  <1>4. n \in 0..Len(t) - 1 /\ n + 1 \in 0..Len(t) /\ n + 1 \in 1..Len(t)
    BY <1>2, <1>3, PieceFacts
  <1> DEFINE slot == t[n + 1]
  <1>5. slot.type \in {"LITERAL", "FIELD", "LIST"}
    BY <1>3, <1>4, PieceFacts
  <1>6. ASSUME NEW u, sql' = u, done' = n + 1, built' = built, AllowedIn(t) => Good(t, n + 1, u)
        PROVE  BuildInv'
    <2>1. AllowedIn(t)' => Good(t, n + 1, u)'
      BY <1>2, <1>6, GoodStays
    <2>2. built' = "running" /\ t \in Templates /\ args' \in Calls
      BY <1>2, <1>3, <1>6
    <2> QED
      BY <1>2, <1>4, <1>6, <2>1, <2>2 DEF BuildInv
  <1>7. ASSUME sql' = s, done' = n, built' # "idle",
               AllowedIn(t) => \/ built' = "false" /\ (Long # {} \/ Builder!WholeList(slot))
                               \/ built' = "undefined" /\ Builder!Indexed(slot)
        PROVE  BuildInv'
    <2>1. AllowedIn(t)' => /\ AllowedIn(t) /\ Good(t, n, s)'
                           /\ Builder!WholeList(slot) => Builder!WholeList(slot)'
                           /\ Builder!Indexed(slot) => Builder!Indexed(slot)'
      BY <1>2, <1>3, GoodStays
    <2>2. t \in Templates /\ args' \in Calls
      BY <1>2, <1>3
    <2> QED
      BY <1>2, <1>3, <1>7, <2>1, <2>2 DEF BuildInv
  <1>8. CASE Builder!AppendLiteral(slot)
    <2> DEFINE u == s \o [i \in DOMAIN slot.value |-> Builder!Text(slot.value[i])]
    <2>1. slot.type = "LITERAL" /\ sql' = u /\ done' = n + 1 /\ built' = built
      BY <1>1, <1>8 DEF Builder!AppendLiteral, Builder!Appended
    <2>2. AllowedIn(t) => Good(t, n + 1, u)
      BY <1>3, <1>4, <2>1, LiteralAppended
    <2> HIDE DEF u
    <2> QED
      BY <1>6, <2>1, <2>2
  <1>9. CASE slot.type # "LITERAL" /\ Builder!AppendValues(slot)
    <2>1. PICK got \in Builder!Values(slot) :
            \/ got.ends # "no" /\ Builder!EndWith(got.ends)
            \/ Builder!MayNotEscape(got.vals) /\ Builder!EndWith("false")
            \/ slot.type = "FIELD" /\ got.ends = "no" /\ Builder!Appended(sql \o got.vals)
            \/ /\ slot.type = "LIST" /\ got.ends = "no"
               /\ IF sql \o got.vals = <<>> THEN Builder!EndWith("undefined")
                  ELSE Builder!Appended(Builder!ListAppended(sql, got.vals))
      BY <1>9 DEF Builder!AppendValues
    <2>2. AllowedIn(t) => \/ got.ends = "no" /\ ~Builder!Misread(slot)
                          \/ got.ends = "false" /\ Builder!WholeList(slot)
                          \/ got.ends = "undefined" /\ Builder!Indexed(slot)
      <3> SUFFICES ASSUME AllowedIn(t)
                   PROVE  \/ got.ends = "no" /\ ~Builder!Misread(slot)
                          \/ got.ends = "false" /\ Builder!WholeList(slot)
                          \/ got.ends = "undefined" /\ Builder!Indexed(slot)
        OBVIOUS
      <3>1. CASE slot.type = "FIELD"
        BY <1>3, <1>4, <3>1, FieldAppended, OthersRead
      <3>2. CASE slot.type = "LIST" /\ ~Builder!Misread(slot)
        BY <1>3, <1>4, <3>2, ListIsAppended
      <3>3. CASE slot.type = "LIST" /\ Builder!Misread(slot)
        <4>1. IsPath(Sections(slot)) /\ Builder!Documented(slot)
          BY <1>3, <1>4, <3>3, PieceFacts DEF AllowedIn
        <4>2. \A how : Builder!Ends(how).ends = how
          BY DEF Builder!Ends
        <4> HIDE DEF slot
        <4> QED
          BY <1>3, <3>3, <4>1, <4>2, ListMisread DEF Builder!Misread
      <3> QED
        BY <1>5, <1>9, <3>1, <3>2, <3>3
    <2>3. ASSUME NEW how, Builder!EndWith(how), how # "idle",
                 AllowedIn(t) => \/ how = "false" /\ (Long # {} \/ Builder!WholeList(slot))
                                 \/ how = "undefined" /\ Builder!Indexed(slot)
          PROVE  BuildInv'
      <3>1. sql' = s /\ done' = n /\ built' = how
        BY <1>1, <2>3 DEF Builder!EndWith
      <3> QED
        BY <1>7, <2>3, <3>1
    <2>4. CASE got.ends # "no" /\ Builder!EndWith(got.ends)
      <3>1. got.ends # "idle"
        BY <1>3, <1>5, <1>9, Outcomes
      <3> QED
        BY <2>2, <2>3, <2>4, <3>1
    <2>5. CASE Builder!MayNotEscape(got.vals) /\ Builder!EndWith("false")
      BY <2>3, <2>5 DEF Builder!MayNotEscape
    <2>6. CASE slot.type = "FIELD" /\ got.ends = "no" /\ Builder!Appended(sql \o got.vals)
      <3> DEFINE u == s \o got.vals
      <3>1. AllowedIn(t) => Good(t, n + 1, u)
        BY <1>3, <1>4, <2>6, FieldAppended
      <3>2. sql' = u /\ done' = n + 1 /\ built' = built
        BY <1>1, <2>6 DEF Builder!Appended
      <3> HIDE DEF u
      <3> QED
        BY <1>6, <3>1, <3>2
    <2>7. CASE slot.type = "LIST" /\ got.ends = "no" /\ sql \o got.vals = <<>>
               /\ Builder!EndWith("undefined")
      <3>1. ~AllowedIn(t)
        BY <1>1, <1>3, <1>4, <2>2, <2>7, ListIsAppended
      <3> QED
        BY <2>3, <2>7, <3>1
    <2>8. CASE slot.type = "LIST" /\ got.ends = "no"
               /\ Builder!Appended(Builder!ListAppended(sql, got.vals))
      <3> DEFINE u == Builder!ListAppended(s, got.vals)
      <3>1. AllowedIn(t) => Good(t, n + 1, u)
        BY <1>3, <1>4, <2>2, <2>8, ListIsAppended
      <3>2. sql' = u /\ done' = n + 1 /\ built' = built
        BY <1>1, <2>8 DEF Builder!Appended
      <3> HIDE DEF u
      <3> QED
        BY <1>6, <3>1, <3>2
    <2> QED
      BY <2>1, <2>4, <2>5, <2>6, <2>7, <2>8
  <1> QED
    BY <1>1, <1>8, <1>9 DEF Builder!AppendPiece

LEMMA BuildInvHolds == PartsSpec => []BuildInv
  <1> USE PartsAssumption DEF PartsAssumption
  <1>1. PartsInit => BuildInv
    BY DEF PartsInit, Builder!Idle, BuildInv
  <1>2. ASSUME BuildInv, [PartsNext]_allVars
        PROVE  BuildInv'
    <2>1. [Builder!Next]_Builder!builderVars
      BY <1>2, PartsSteps
    <2>2. CASE UNCHANGED <<template, args, done, sql>> /\ built # "idle" /\ built' \in {built, "true"}
      <3>1. PICK t, n, s : t = template /\ n = done /\ s = sql
        OBVIOUS
      <3>2. /\ t \in Templates /\ args \in Calls /\ n \in 0..Len(t)
            /\ AllowedIn(t) => /\ built = "undefined" => Builder!Indexed(t[n + 1])
                               /\ built = "false" => Long # {} \/ Builder!WholeList(t[n + 1])
                               /\ Good(t, n, s)
        BY <1>2, <2>2, <3>1 DEF BuildInv
      <3>3. AllowedIn(t)' => /\ AllowedIn(t) /\ Good(t, n, s)'
                             /\ Builder!WholeList(t[n + 1]) => Builder!WholeList(t[n + 1])'
                             /\ Builder!Indexed(t[n + 1]) => Builder!Indexed(t[n + 1])'
        BY <2>2, <3>2, GoodStays
      <3> QED
        BY <2>2, <3>1, <3>2, <3>3 DEF BuildInv
    <2>3. CASE UNCHANGED Builder!builderVars
      <3>1. CASE built = "idle"
        BY <2>3, <3>1 DEF BuildInv, Builder!builderVars
      <3>2. CASE built # "idle"
        BY <2>2, <2>3, <3>2 DEF Builder!builderVars
      <3> QED
        BY <3>1, <3>2
    <2>4. ASSUME NEW t \in Templates, NEW call \in Calls, Builder!prepare_statement(t, call)
          PROVE  BuildInv'
      BY <2>4, BuildStarts
    <2>5. CASE Builder!AppendPiece
      BY <1>2, <2>5, BuildGoesOn
    <2>6. CASE Builder!Return
      BY <2>2, <2>6 DEF Builder!Return, Builder!EndWith
    <2> QED
      BY <2>1, <2>3, <2>4, <2>5, <2>6 DEF Builder!Next
  <1> QED
    BY <1>1, <1>2, PTL DEF PartsSpec

\* A statement whose placeholders the documentation allows is the template with
\* their values in their places, lists with the differences the definition names
\* and no other, whatever templates, arguments and paths are
\* (SqlBuilder::prepare_statement, sql_builder.cpp:27-175, sql_builder.h:84-163).
THEOREM ValuesAreInPlace == PartsSpec => []ValuesInPlace
  <1>1. ASSUME BuildInv
        PROVE  ValuesInPlace
    <2> SUFFICES ASSUME built # "idle",
                        \A i \in DOMAIN template : Builder!Documented(template[i]),
                        \A i \in DOMAIN template :
                            Builder!EmptyList(template[i]) => i > 1 /\ ~Builder!EndsInComma(template[i - 1])
                 PROVE  /\ built = "undefined" => Builder!Indexed(template[done + 1])
                        /\ built = "false" => Long # {} \/ Builder!WholeList(template[done + 1])
                        /\ \A i \in 1..done : ~Builder!Misread(template[i])
                        /\ sql = Builder!FlattenSeq([i \in 1..done |-> Builder!Written(template[i])])
      BY DEF ValuesInPlace, Builder!ValuesInPlace
    <2>1. PICK t, n, s : t = template /\ n = done /\ s = sql
      OBVIOUS
    <2>2. AllowedIn(t)
      BY <2>1 DEF AllowedIn
    <2>3. /\ built = "undefined" => Builder!Indexed(t[n + 1])
          /\ built = "false" => Long # {} \/ Builder!WholeList(t[n + 1])
          /\ Good(t, n, s) /\ n \in 0..Len(t) /\ t \in Templates
      BY <1>1, <2>1, <2>2 DEF BuildInv
    <2>4. n \in Nat
      BY <2>3
    <2>5. IsSeq(Fills(t, n))
      <3> DEFINE S == {Builder!Written(t[i]) : i \in 1..n}
      <3>1. Fills(t, n) \in [1..n -> S]
        BY DEF Fills
      <3> HIDE DEF S
      <3>2. \A f \in [1..n -> S] : f \in Seq(S)
        BY <2>4
      <3> QED
        BY <3>1, <3>2 DEF IsSeq
    <2>6. Builder!FlattenSeq(Fills(t, n)) = s
      BY <2>3, <2>5, JoinedFlat DEF Good
    <2> QED
      BY <2>1, <2>3, <2>6 DEF Fills, Good
  <1> QED
    BY <1>1, BuildInvHolds, PTL

\* What a field's failure shows: get_plain_val is undefined at a null only.
LEMMA FieldUndefined ==
    ASSUME Builder!TreesAreWhole, args \in Calls, NEW slot, IsPath(Sections(slot)), slot.type = "FIELD",
           NEW got \in Builder!Values(slot), got.ends = "undefined"
    PROVE  LET way == Sections(slot)
           IN  \E i \in 1..Len(Builder!Rest(way)) :
                 Builder!Leads(Builder!Root(way), Builder!Rest(way))[i] = Builder!NullPtr
  <1> DEFINE way == Sections(slot)
             root == Builder!Root(way)
             rest == Builder!Rest(way)
  <1>1. \A how, vs : Builder!Ends(how).ends = how /\ Builder!Found(vs).ends = "no"
    BY DEF Builder!Ends, Builder!Found
  <1>2. /\ ~Builder!HasRoot(way) => got = Builder!Ends("false")
        /\ Builder!HasRoot(way) => got = Builder!get_plain_val(root, rest)
    BY ValuesOf
  <1>3. Builder!HasRoot(way)
    BY <1>1, <1>2
  <1> HIDE DEF way
  <1>4. root \in Trees /\ IsPath(rest)
    BY <1>3, RootFacts DEF way
  <1>5. root.kind = "object" /\ Builder!FieldEnd(root, rest).kind = "null"
    <2> HIDE DEF root, rest
    <2> QED
      BY <1>1, <1>2, <1>3 DEF Builder!get_plain_val
  <1> QED
    BY <1>4, <1>5, NullMet DEF way

FieldInv ==
    \/ built # "undefined"
    \/ \E t, n : /\ t = template /\ n = done
                 /\ t[n + 1].type = "FIELD" =>
                        \E i \in 1..Len(Builder!Rest(Sections(t[n + 1]))) :
                            Builder!Leads(Builder!Root(Sections(t[n + 1])), Builder!Rest(Sections(t[n + 1])))[i]
                                = Builder!NullPtr

\* A field that is not allowed is refused, unless its path meets a null, whatever
\* templates, arguments and paths are (get_plain_val, sql_builder.cpp:83-116).
THEOREM FieldsMeetNulls == PartsSpec => []FieldsFailSafely
  <1> USE PartsAssumption DEF PartsAssumption
  <1>1. PartsInit => FieldInv
    BY DEF PartsInit, Builder!Idle, FieldInv
  <1>2. ASSUME BuildInv, FieldInv, [PartsNext]_allVars
        PROVE  FieldInv'
    <2>1. [Builder!Next]_Builder!builderVars
      BY <1>2, PartsSteps
    <2>2. ASSUME built' # "undefined"
          PROVE  FieldInv'
      BY <2>2 DEF FieldInv
    <2>3. CASE UNCHANGED Builder!builderVars
      <3>1. CASE built # "undefined"
        BY <2>2, <2>3, <3>1 DEF Builder!builderVars
      <3>2. CASE built = "undefined"
        <4>1. PICK t, n : t = template /\ n = done
          OBVIOUS
        <4>2. args' = args /\ template' = t /\ done' = n
          BY <2>3, <4>1 DEF Builder!builderVars
        <4> DEFINE way == Sections(t[n + 1])
        <4>3. t[n + 1].type = "FIELD" =>
                \E i \in 1..Len(Builder!Rest(way)) :
                   Builder!Leads(Builder!Root(way), Builder!Rest(way))[i] = Builder!NullPtr
          BY <1>2, <3>2, <4>1 DEF FieldInv
        <4> HIDE DEF way
        <4>4. Builder!Rest(way)' = Builder!Rest(way) /\ Builder!Root(way)' = Builder!Root(way)
          BY <4>2, ArgsStay
        <4>5. (t[n + 1].type = "FIELD" =>
                \E i \in 1..Len(Builder!Rest(way)) :
                   Builder!Leads(Builder!Root(way), Builder!Rest(way))[i] = Builder!NullPtr)'
          BY <4>3, <4>4
        <4> QED
          BY <4>2, <4>5 DEF FieldInv, way
      <3> QED
        BY <3>1, <3>2
    <2>4. ASSUME NEW t \in Templates, NEW call \in Calls, Builder!prepare_statement(t, call)
          PROVE  FieldInv'
      BY <2>2, <2>4 DEF Builder!prepare_statement
    <2>5. CASE Builder!AppendPiece /\ built' = "undefined"
      <3>1. PICK t, n : t = template /\ n = done
        OBVIOUS
      <3>2. /\ t \in Templates /\ args \in Calls /\ n \in 0..Len(t) /\ n < Len(t) /\ args' = args
            /\ built = "running" /\ template' = t
        BY <1>2, <2>5, <3>1 DEF BuildInv, Builder!AppendPiece, Builder!AppendLiteral,
           Builder!AppendValues, Builder!Appended, Builder!EndWith
      <3>3. n + 1 \in 1..Len(t) /\ done' = n
        BY <2>5, <3>1, <3>2, PieceFacts DEF Builder!AppendPiece, Builder!AppendLiteral,
           Builder!AppendValues, Builder!Appended, Builder!EndWith
      <3> DEFINE slot == t[n + 1]
                 way == Sections(slot)
      <3>4. ASSUME slot.type = "FIELD"
            PROVE  \E i \in 1..Len(Builder!Rest(way)) :
                     Builder!Leads(Builder!Root(way), Builder!Rest(way))[i] = Builder!NullPtr
        <4>1. PICK got \in Builder!Values(slot) : got.ends = "undefined"
          BY <2>5, <3>1, <3>2, <3>4 DEF Builder!AppendPiece, Builder!AppendLiteral,
             Builder!AppendValues, Builder!Appended, Builder!EndWith
        <4>2. IsPath(way)
          BY <3>2, <3>3, <3>4, PieceFacts
        <4> QED
          BY <3>2, <3>4, <4>1, <4>2, FieldUndefined
      <3> HIDE DEF way
      <3>5. Builder!Rest(way)' = Builder!Rest(way) /\ Builder!Root(way)' = Builder!Root(way)
        BY <3>2, ArgsStay
      <3>6. (slot.type = "FIELD" =>
              \E i \in 1..Len(Builder!Rest(way)) :
                 Builder!Leads(Builder!Root(way), Builder!Rest(way))[i] = Builder!NullPtr)'
        BY <3>4, <3>5
      <3> QED
        BY <3>2, <3>3, <3>6 DEF FieldInv, way
    <2>6. CASE Builder!Return
      BY <2>2, <2>6 DEF Builder!Return, Builder!EndWith
    <2> QED
      BY <2>1, <2>2, <2>3, <2>4, <2>5, <2>6 DEF Builder!Next
  <1>3. ASSUME FieldInv
        PROVE  FieldsFailSafely
    BY <1>3 DEF FieldInv, FieldsFailSafely, Builder!FieldsFailSafely, Sections
  <1> QED
    BY <1>1, <1>2, <1>3, BuildInvHolds, PTL DEF PartsSpec
=============================================================================
