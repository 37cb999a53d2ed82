---------------------------- MODULE ModelsProofs ----------------------------
(***************************************************************************)
(* Memory and values of models: for any objects, addresses, values,        *)
(* documents and lengths of lists, no pointer dangles, only clear() leaks, *)
(* and objects behave as values.  A step replaces what one object holds:   *)
(* the lemmas up to "Steps of lists" say what that may do to the heap, and *)
(* what it leaves alone for all other objects; those from "Steps of        *)
(* values" say what a reader of the objects then sees, action by action.   *)
(***************************************************************************)
EXTENDS Models, TLAPS

Heaps == [Addr -> Vals \cup {Null}]
Lists == Seq(Addr \cup {Null})

\* The addresses an object owns.
Own(x) == IF x = Dead THEN {} ELSE Items(x.list) \cup ({x.sub} \cap Addr)

NoRepeats(list) ==
    \A i, j \in 1..Len(list) : list[i] = list[j] /\ list[i] # Null => i = j

\* An object that owns nothing twice.
Tidy(x) ==
    x # Dead =>
        /\ x.list # Missing => NoRepeats(x.list) /\ Len(x.list) <= MaxLen
        /\ x.sub \notin Items(x.list)

\* Every pointer is to a living leaf, and no leaf has two owners.
Sound(h, m) ==
    /\ h \in Heaps
    /\ m \in [Objs -> Object \cup {Dead}]
    /\ \A u \in Objs : Tidy(m[u])
    /\ \A u \in Objs : \A a \in Own(m[u]) : h[a] # Null
    /\ \A u, w \in Objs : u # w => Own(m[u]) \cap Own(m[w]) = {}

Inv == Sound(heap, model)

\* clear() has erased the object member.
Forgets(x, y, a) == x # Dead /\ y # Dead /\ x.sub = a /\ y.sub = Missing

\* What may happen to the heap when an object x becomes y: what y owns was x's
\* or free, and lives; what others may own stays as it is; a new leaf is y's,
\* and a leaf of x is y's, deleted, or forgotten.
Replaces(h, x, h2, y) ==
    /\ h2 \in Heaps
    /\ y \in Object \cup {Dead} /\ Tidy(y)
    /\ \A a \in Own(y) : h2[a] # Null /\ (a \in Own(x) \/ h[a] = Null)
    /\ \A a \in Addr \ Own(x) : h[a] # Null => h2[a] = h[a]
    /\ \A a \in Addr : h2[a] # Null =>
          /\ h[a] = Null => a \in Own(y)
          /\ a \in Own(x) => a \in Own(y) \/ Forgets(x, y, a)

\* A pointer and a list without their memory.
Leaf(h, a) == IF a \in Addr THEN h[a] ELSE a
ListValue(h, l) == IF l = Missing THEN Missing ELSE [i \in DOMAIN l |-> Leaf(h, l[i])]

\* The leaves nobody owns.
Lost(h, m) == {a \in Addr : h[a] # Null /\ \A u \in Objs : a \notin Own(m[u])}

LEMMA AlikeInVals == \A v : Alike(v) \subseteq Vals
  BY ValsAssumption DEF Alike

\* A plain keeps its type when it is read.
LEMMA ReadLeafIs ==
    ASSUME NEW v \in Vals, NEW j
    PROVE  /\ ReadLeaf(v, j) \in Vals
           /\ j \in Vals /\ SameType(v, j) => Blur(ReadLeaf(v, j)) = Blur(j)
  <1>1. \A x, y \in Doubles : Overlaid[x, y] \in Doubles
    BY ValsAssumption
  <1>2. Doubles \subseteq Vals
    BY ValsAssumption
  <1>3. CASE v \in Doubles
    BY <1>1, <1>2, <1>3 DEF ReadLeaf, Alike, SameType, Blur
  <1>4. CASE v \notin Doubles
    BY <1>2, <1>4 DEF ReadLeaf, Alike, SameType, Blur
  <1> QED
    BY <1>3, <1>4

LEMMA OwnInAddr ==
    ASSUME NEW x \in Object \cup {Dead}
    PROVE  /\ Own(x) \subseteq Addr
           /\ x # Dead => x \in Object
  BY ObjectAssumption DEF Own, Items, Object

\* One object is replaced, and every other owns what it owned.
LEMMA Replaced ==
    ASSUME NEW h, NEW m, Sound(h, m), NEW u \in Objs,
           NEW h2, NEW m2, m2 \in [Objs -> Object \cup {Dead}],
           Replaces(h, m[u], h2, m2[u]),
           \A w \in Objs \ {u} : Own(m2[w]) = Own(m[w]) /\ Tidy(m2[w])
    PROVE  /\ Sound(h2, m2)
           /\ \A a \in Lost(h2, m2) \ Lost(h, m) : Forgets(m[u], m2[u], a)
  <1>1. \A w \in Objs : Own(m[w]) \subseteq Addr
    BY OwnInAddr DEF Sound
  <1>2. \A w \in Objs : \A a \in Own(m2[w]) : h2[a] # Null
    <2> SUFFICES ASSUME NEW w \in Objs, NEW a \in Own(m2[w])
                 PROVE  h2[a] # Null
      OBVIOUS
    <2>1. CASE w = u
      BY <2>1 DEF Replaces
    <2>2. CASE w # u
      <3>1. a \in Own(m[w]) /\ a \notin Own(m[u]) /\ h[a] # Null
        BY <2>2 DEF Sound
      <3> QED
        BY <1>1, <3>1 DEF Replaces
    <2> QED
      BY <2>1, <2>2
  <1>3. \A w, v \in Objs : w # v => Own(m2[w]) \cap Own(m2[v]) = {}
    <2>1. ASSUME NEW w \in Objs \ {u}
          PROVE  Own(m2[u]) \cap Own(m2[w]) = {}
      <3> SUFFICES ASSUME NEW a \in Own(m2[u]), a \in Own(m2[w])
                   PROVE  FALSE
        OBVIOUS
      <3>1. a \in Own(m[w]) /\ a \notin Own(m[u]) /\ h[a] # Null
        BY DEF Sound
      <3> QED
        BY <3>1 DEF Replaces
    <2> QED
      BY <2>1 DEF Sound
  <1>4. \A w \in Objs : Tidy(m2[w])
    BY DEF Replaces
  <1>5. ASSUME NEW a \in Lost(h2, m2), a \notin Lost(h, m)
        PROVE  Forgets(m[u], m2[u], a)
    <2>1. a \in Addr /\ h2[a] # Null /\ \A w \in Objs : a \notin Own(m2[w])
      BY <1>5 DEF Lost
    <2>2. h[a] # Null
      BY <2>1 DEF Replaces
    <2>3. PICK w \in Objs : a \in Own(m[w])
      BY <1>5, <2>1, <2>2 DEF Lost
    <2>4. w = u
      BY <2>1, <2>3
    <2> QED
      BY <2>1, <2>3, <2>4 DEF Replaces
  <1> QED
    BY <1>2, <1>3, <1>4, <1>5 DEF Sound, Replaces

\* What the others own is not written either.
Kept(h, A, h2) == \A a \in A : h2[a] = h[a]

LEMMA OthersKept ==
    ASSUME NEW h, NEW m, Sound(h, m), NEW u \in Objs, NEW h2, NEW y, Replaces(h, m[u], h2, y)
    PROVE  \A w \in Objs \ {u} : Kept(h, Own(m[w]), h2)
  <1> SUFFICES ASSUME NEW w \in Objs \ {u}, NEW a \in Own(m[w])
               PROVE  h2[a] = h[a]
    BY DEF Kept
  <1>1. a \notin Own(m[u]) /\ h[a] # Null /\ a \in Addr
    BY OwnInAddr DEF Sound
  <1> QED
    BY <1>1 DEF Replaces

-----------------------------------------------------------------------------
(* Lists *)

LEMMA ItemsOf ==
    ASSUME NEW l \in Lists
    PROVE  /\ l # Missing
           /\ Items(l) \subseteq Addr
           /\ \A i \in 1..Len(l) : l[i] = Null \/ l[i] \in Items(l)
           /\ \A a \in Items(l) : a # Null /\ \E i \in 1..Len(l) : l[i] = a
  <1>1. l # Missing
    BY ObjectAssumption DEF Lists
  <1>2. DOMAIN l = 1..Len(l) /\ \A i \in 1..Len(l) : l[i] \in Addr \cup {Null}
    BY DEF Lists
  <1> QED
    BY <1>1, <1>2 DEF Items

LEMMA ItemsAppend ==
    ASSUME NEW l \in Lists, NoRepeats(l), NEW p \in Addr \cup {Null}, p \notin Items(l)
    PROVE  /\ Append(l, p) \in Lists /\ NoRepeats(Append(l, p))
           /\ Items(Append(l, p)) = Items(l) \cup ({p} \cap Addr)
  <1> DEFINE k == Append(l, p)
  <1>1. /\ Len(l) \in Nat /\ k \in Lists /\ Len(k) = Len(l) + 1
        /\ \A i \in 1..Len(l) : k[i] = l[i]
        /\ k[Len(l) + 1] = p
    BY DEF Lists
  <1> HIDE DEF k
  <1>2. \A i \in 1..Len(l) : l[i] = Null \/ l[i] # p
    BY ItemsOf
  <1>3. NoRepeats(k)
    BY <1>1, <1>2 DEF NoRepeats
  <1>4. Null \notin Addr
    BY ValsAssumption
  <1>5. Items(k) = Items(l) \cup ({p} \cap Addr)
    <2>1. ASSUME NEW a \in Items(k)
          PROVE  a \in Items(l) \cup ({p} \cap Addr)
      <3>1. a # Null /\ a \in Addr /\ \E i \in 1..Len(k) : k[i] = a
        BY <1>1, ItemsOf
      <3> QED
        BY <1>1, <3>1, ItemsOf
    <2>2. ASSUME NEW a \in Items(l) \cup ({p} \cap Addr)
          PROVE  a \in Items(k)
      <3>1. a # Null /\ \E i \in 1..Len(k) : k[i] = a
        BY <1>1, <1>4, ItemsOf
      <3> QED
        BY <1>1, <3>1, ItemsOf
    <2> QED
      BY <2>1, <2>2
  <1> QED
    BY <1>1, <1>3, <1>5 DEF k

LEMMA ItemsPrepend ==
    ASSUME NEW l \in Lists, NoRepeats(l), NEW p \in Addr \cup {Null}, p \notin Items(l)
    PROVE  /\ <<p>> \o l \in Lists /\ NoRepeats(<<p>> \o l)
           /\ Len(<<p>> \o l) = Len(l) + 1
           /\ Items(<<p>> \o l) = Items(l) \cup ({p} \cap Addr)
  <1> DEFINE k == <<p>> \o l
  <1>1. /\ Len(l) \in Nat /\ k \in Lists /\ Len(k) = Len(l) + 1
        /\ \A i \in 1..Len(l) : k[i + 1] = l[i]
        /\ k[1] = p
    BY DEF Lists
  <1> HIDE DEF k
  <1>2. \A i \in 1..Len(l) : l[i] = Null \/ l[i] # p
    BY ItemsOf
  <1>3. \A i \in 1..Len(k) : i = 1 \/ (i - 1 \in 1..Len(l) /\ k[i] = l[i - 1])
    <2> SUFFICES ASSUME NEW i \in 1..Len(k), i # 1
                 PROVE  i - 1 \in 1..Len(l) /\ k[i] = l[i - 1]
      OBVIOUS
    <2>1. i - 1 \in 1..Len(l) /\ (i - 1) + 1 = i
      BY <1>1
    <2> QED
      BY <1>1, <2>1
  <1>4. NoRepeats(k)
    <2> SUFFICES ASSUME NEW i \in 1..Len(k), NEW j \in 1..Len(k), k[i] = k[j], k[i] # Null
                 PROVE  i = j
      BY DEF NoRepeats
    <2>1. CASE i = 1 \/ j = 1
      BY <1>1, <1>2, <1>3, <2>1
    <2>2. CASE i # 1 /\ j # 1
      <3>1. i - 1 \in 1..Len(l) /\ j - 1 \in 1..Len(l) /\ l[i - 1] = l[j - 1] /\ l[i - 1] # Null
        BY <1>3, <2>2
      <3>2. i - 1 = j - 1
        BY <3>1 DEF NoRepeats
      <3> QED
        BY <3>2, <1>1
    <2> QED
      BY <2>1, <2>2
  <1>5. Null \notin Addr
    BY ValsAssumption
  <1>6. Items(k) = Items(l) \cup ({p} \cap Addr)
    <2>1. ASSUME NEW a \in Items(k)
          PROVE  a \in Items(l) \cup ({p} \cap Addr)
      <3>1. a # Null /\ a \in Addr /\ \E i \in 1..Len(k) : k[i] = a
        BY <1>1, ItemsOf
      <3> QED
        BY <1>1, <1>3, <3>1, ItemsOf, SMTT(20)
    <2>2. ASSUME NEW a \in Items(l) \cup ({p} \cap Addr)
          PROVE  a \in Items(k)
      <3>1. a # Null /\ ((\E i \in 1..Len(l) : l[i] = a) \/ p = a)
        BY <1>5, ItemsOf
      <3>2. \A i \in 1..Len(l) : i + 1 \in 1..Len(k)
        BY <1>1
      <3>3. \E i \in 1..Len(k) : k[i] = a
        BY <1>1, <3>1, <3>2
      <3> QED
        BY <1>1, <3>1, <3>3, ItemsOf
    <2> QED
      BY <2>1, <2>2
  <1> QED
    BY <1>1, <1>4, <1>6 DEF k

LEMMA ItemsTail ==
    ASSUME NEW l \in Lists, NoRepeats(l), l # <<>>
    PROVE  /\ Tail(l) \in Lists /\ NoRepeats(Tail(l))
           /\ Len(Tail(l)) = Len(l) - 1
           /\ Items(Tail(l)) = Items(l) \ {Head(l)}
  <1> DEFINE k == Tail(l)
  <1>1. /\ Len(l) \in Nat /\ Len(l) > 0 /\ k \in Lists /\ Len(k) = Len(l) - 1
        /\ \A i \in 1..Len(k) : k[i] = l[i + 1]
        /\ Head(l) = l[1]
    BY DEF Lists
  <1> HIDE DEF k
  <1>2. \A i \in 1..Len(k) : i + 1 \in 1..Len(l) /\ i + 1 # 1
    BY <1>1
  <1>3. NoRepeats(k)
    BY <1>1, <1>2 DEF NoRepeats
  <1>4. Items(k) = Items(l) \ {l[1]}
    <2>1. ASSUME NEW a \in Items(k)
          PROVE  a \in Items(l) \ {l[1]}
      <3>1. a # Null /\ \E i \in 1..Len(k) : k[i] = a
        BY <1>1, ItemsOf
      <3>2. PICK i \in 1..Len(k) : l[i + 1] = a
        BY <1>1, <3>1
      <3>3. a # l[1]
        BY <1>1, <1>2, <3>1, <3>2 DEF NoRepeats
      <3> QED
        BY <1>2, <3>1, <3>2, <3>3, ItemsOf
    <2>2. ASSUME NEW a \in Items(l) \ {l[1]}
          PROVE  a \in Items(k)
      <3>1. PICK i \in 1..Len(l) : l[i] = a /\ a # Null
        BY ItemsOf
      <3>2. i # 1 /\ i - 1 \in 1..Len(k) /\ (i - 1) + 1 = i
        BY <1>1, <3>1
      <3>3. k[i - 1] = a
        BY <1>1, <3>1, <3>2
      <3> QED
        BY <1>1, <3>1, <3>2, <3>3, ItemsOf
    <2> QED
      BY <2>1, <2>2
  <1> QED
    BY <1>1, <1>3, <1>4 DEF k

LEMMA ItemsFront ==
    ASSUME NEW l \in Lists, NoRepeats(l), NEW n, n = Len(l), n # 0
    PROVE  /\ SubSeq(l, 1, n - 1) \in Lists /\ NoRepeats(SubSeq(l, 1, n - 1))
           /\ Len(SubSeq(l, 1, n - 1)) = n - 1
           /\ Items(SubSeq(l, 1, n - 1)) = Items(l) \ {l[n]}
  <1> DEFINE k == SubSeq(l, 1, n - 1)
  <1>1. /\ n \in Nat /\ n > 0 /\ k \in Lists /\ Len(k) = n - 1
        /\ \A i \in 1..(n - 1) : k[i] = l[i]
    BY DEF Lists
  <1> HIDE DEF k
  <1>2. \A i \in 1..(n - 1) : i \in 1..n /\ i # n
    BY <1>1
  <1>3. NoRepeats(k)
    BY <1>1, <1>2 DEF NoRepeats
  <1>4. Items(k) = Items(l) \ {l[n]}
    <2>1. ASSUME NEW a \in Items(k)
          PROVE  a \in Items(l) \ {l[n]}
      <3>1. a # Null /\ \E i \in 1..(n - 1) : k[i] = a
        BY <1>1, ItemsOf
      <3>2. PICK i \in 1..(n - 1) : l[i] = a
        BY <1>1, <3>1
      <3>3. n \in 1..n
        BY <1>1
      <3>4. a # l[n]
        BY <1>2, <3>1, <3>2, <3>3 DEF NoRepeats
      <3> QED
        BY <1>2, <3>1, <3>2, <3>4, ItemsOf
    <2>2. ASSUME NEW a \in Items(l) \ {l[n]}
          PROVE  a \in Items(k)
      <3>1. PICK i \in 1..n : l[i] = a /\ a # Null
        BY ItemsOf
      <3>2. i \in 1..(n - 1)
        BY <1>1, <3>1
      <3> QED
        BY <1>1, <3>1, <3>2, ItemsOf
    <2> QED
      BY <2>1, <2>2
  <1> QED
    BY <1>1, <1>3, <1>4 DEF k

LEMMA ItemsExcept ==
    ASSUME NEW l \in Lists, NoRepeats(l), NEW i \in 1..Len(l),
           NEW p \in Addr \cup {Null}, p \notin Items(l) \ {l[i]}
    PROVE  /\ [l EXCEPT ![i] = p] \in Lists /\ NoRepeats([l EXCEPT ![i] = p])
           /\ Len([l EXCEPT ![i] = p]) = Len(l)
           /\ Items([l EXCEPT ![i] = p]) = (Items(l) \ {l[i]}) \cup ({p} \cap Addr)
  <1> DEFINE k == [l EXCEPT ![i] = p]
  <1>1. /\ k \in Lists /\ Len(k) = Len(l) /\ k[i] = p
        /\ \A j \in 1..Len(l) : j # i => k[j] = l[j]
    BY DEF Lists
  <1> HIDE DEF k
  <1>2. \A j \in 1..Len(l) : j # i => l[j] = Null \/ (l[j] # l[i] /\ l[j] # p /\ l[j] \in Items(l))
    BY ItemsOf DEF NoRepeats
  <1>3. NoRepeats(k)
    BY <1>1, <1>2 DEF NoRepeats
  <1>4. Null \notin Addr
    BY ValsAssumption
  <1>5. Items(k) = (Items(l) \ {l[i]}) \cup ({p} \cap Addr)
    <2>1. ASSUME NEW a \in Items(k)
          PROVE  a \in (Items(l) \ {l[i]}) \cup ({p} \cap Addr)
      <3>1. a # Null /\ a \in Addr /\ \E j \in 1..Len(l) : k[j] = a
        BY <1>1, ItemsOf
      <3> QED
        BY <1>1, <1>2, <3>1
    <2>2. ASSUME NEW a \in (Items(l) \ {l[i]}) \cup ({p} \cap Addr)
          PROVE  a \in Items(k)
      <3>1. a # Null /\ \E j \in 1..Len(l) : k[j] = a
        BY <1>1, <1>4, ItemsOf
      <3> QED
        BY <1>1, <3>1, ItemsOf
    <2> QED
      BY <2>1, <2>2
  <1> QED
    BY <1>1, <1>3, <1>5 DEF k

-----------------------------------------------------------------------------
(* Replacing the list of an object *)

\* An object as it is in a sound state.
Healthy(h, x) ==
    h \in Heaps /\ x \in Object /\ Tidy(x) /\ \A a \in Own(x) : h[a] # Null

LEMMA HealthyObject ==
    ASSUME NEW h, NEW x, Healthy(h, x)
    PROVE  /\ x # Dead /\ x.class \in Classes /\ x.plain \in Vals
           /\ x.sub \in Addr \cup {Null, Missing} /\ x.list \in Lists \cup {Missing}
           /\ x.list # Missing => NoRepeats(x.list) /\ Len(x.list) <= MaxLen
           /\ Own(x) = Items(x.list) \cup ({x.sub} \cap Addr)
           /\ x.sub \notin Items(x.list)
           /\ \A a \in Items(x.list) : h[a] # Null
           /\ x.sub \in Addr => h[x.sub] # Null
  <1>1. x # Dead /\ x \in Object /\ Tidy(x) /\ \A a \in Own(x) : h[a] # Null
    BY ObjectAssumption DEF Healthy
  <1>2. Own(x) = Items(x.list) \cup ({x.sub} \cap Addr)
    BY <1>1 DEF Own
  <1> QED
    BY <1>1, <1>2 DEF Object, Lists, Tidy

LEMMA ListReplaced ==
    ASSUME NEW h, NEW x, Healthy(h, x), x.list # Missing,
           NEW h2 \in Heaps, NEW y \in Object,
           y.sub = x.sub, y.list \in Lists, NoRepeats(y.list), Len(y.list) <= MaxLen,
           \A a \in Items(y.list) : h2[a] # Null /\ (a \in Items(x.list) \/ h[a] = Null),
           \A a \in Addr \ Own(x) : h[a] # Null => h2[a] = h[a],
           x.sub \in Addr => h2[x.sub] # Null,
           \A a \in Addr \ Items(y.list) : h2[a] # Null => h[a] # Null /\ a \notin Items(x.list)
    PROVE  Replaces(h, x, h2, y)
  <1>1. /\ x # Dead /\ x.list \in Lists
        /\ Own(x) = Items(x.list) \cup ({x.sub} \cap Addr)
        /\ x.sub \notin Items(x.list)
        /\ x.sub \in Addr => h[x.sub] # Null
    BY HealthyObject
  <1>2. y # Dead /\ Own(y) = Items(y.list) \cup ({x.sub} \cap Addr)
    BY ObjectAssumption DEF Own
  <1>3. Items(x.list) \subseteq Addr /\ Items(y.list) \subseteq Addr
    BY <1>1, ItemsOf
  <1>4. x.sub \notin Items(y.list)
    BY <1>1, <1>3
  <1>5. Tidy(y)
    BY <1>4 DEF Tidy
  <1>6. \A a \in Own(y) : h2[a] # Null /\ (a \in Own(x) \/ h[a] = Null)
    BY <1>1, <1>2
  <1>8. ASSUME NEW a \in Addr, h2[a] # Null
        PROVE  /\ h[a] = Null => a \in Own(y)
               /\ a \in Own(x) => a \in Own(y)
    BY <1>1, <1>2, <1>8
  <1> QED
    BY <1>5, <1>6, <1>8 DEF Replaces

\* Items are taken out and deleted, and one is put in.
LEMMA ItemReplaced ==
    ASSUME NEW h, NEW x, Healthy(h, x), x.list # Missing,
           NEW D, D \subseteq Items(x.list) \cup {Null},
           NEW v \in Vals \cup {Null}, NEW c \in Cloned(Delete(h, D), v),
           NEW l, l \in Lists, NoRepeats(l), Len(l) <= MaxLen,
           Items(l) = (Items(x.list) \ D) \cup ({c.ptr} \cap Addr)
    PROVE  Replaces(h, x, c.heap, [x EXCEPT !.list = l])
  <1> DEFINE y == [x EXCEPT !.list = l]
             g == Delete(h, D)
  <1>1. y \in Object /\ y.sub = x.sub /\ y.list = l
    BY HealthyObject DEF Object, Lists, Healthy
  <1>2. /\ g \in Heaps
        /\ \A a \in Addr : g[a] = IF a \in D THEN Null ELSE h[a]
    BY DEF Delete, Heaps, Healthy
  <1>3. Null \notin Addr /\ Null \notin Vals
    BY ValsAssumption
  <1>4. \A a \in Items(x.list) : h[a] # Null
    BY HealthyObject
  <1>5. /\ Items(x.list) \subseteq Addr /\ Items(x.list) \subseteq Own(x)
        /\ x.sub \notin Items(x.list) /\ (x.sub \in Addr => h[x.sub] # Null)
    BY HealthyObject, ItemsOf
  <1> HIDE DEF y, g
  <1>6. CASE v = Null
    <2>1. c.heap = g /\ c.ptr = Null
      BY <1>6 DEF Cloned, g
    <2>2. Items(l) = Items(x.list) \ D
      BY <1>3, <2>1
    <2>3. \A a \in Items(l) : g[a] # Null /\ a \in Items(x.list)
      BY <1>2, <1>4, <1>5, <2>2
    <2>4. \A a \in Addr \ Items(x.list) : h[a] # Null => g[a] = h[a]
      BY <1>2, <1>3
    <2>5. \A a \in Addr \ Items(l) : g[a] # Null => h[a] # Null /\ a \notin Items(x.list)
      BY <1>2, <2>2
    <2>6. Replaces(h, x, g, y)
      BY <1>1, <1>2, <1>5, <2>3, <2>4, <2>5, ListReplaced
    <2> QED
      BY <2>1, <2>6 DEF y
  <1>7. CASE v # Null
    <2>1. PICK b \in FreeIn(g) : c.heap = [g EXCEPT ![b] = v] /\ c.ptr = b
      <3>1. c \in {[heap |-> [g EXCEPT ![b] = v], ptr |-> b] : b \in FreeIn(g)}
        BY <1>7 DEF Cloned, g
      <3>2. PICK b \in FreeIn(g) : c = [heap |-> [g EXCEPT ![b] = v], ptr |-> b]
        BY <3>1, Zenon
      <3>3. c.heap = [g EXCEPT ![b] = v] /\ c.ptr = b
        BY <3>2
      <3> QED
        BY <3>3
    <2>2. b \in Addr /\ g[b] = Null /\ v \in Vals /\ v # Null
      BY <1>7, <2>1 DEF FreeIn
    <2>3. /\ c.heap \in Heaps
          /\ \A a \in Addr : c.heap[a] = IF a = b THEN v ELSE g[a]
      BY <1>2, <2>1, <2>2 DEF Heaps
    <2>4. Items(l) = (Items(x.list) \ D) \cup {b}
      BY <2>1, <2>2
    <2>5. \A a \in Items(l) : c.heap[a] # Null /\ (a \in Items(x.list) \/ h[a] = Null)
      BY <1>2, <1>3, <1>4, <1>5, <2>2, <2>3, <2>4
    <2>6. \A a \in Addr \ Items(x.list) : h[a] # Null => c.heap[a] = h[a]
      BY <1>2, <1>3, <2>2, <2>3
    <2>7. \A a \in Addr \ Items(l) : c.heap[a] # Null => h[a] # Null /\ a \notin Items(x.list)
      BY <1>2, <2>3, <2>4
    <2>8. Replaces(h, x, c.heap, y)
      BY <1>1, <1>5, <2>3, <2>5, <2>6, <2>7, ListReplaced
    <2> QED
      BY <2>8 DEF y
  <1> QED
    BY <1>6, <1>7

\* A pointer reads the same in two heaps.
SameLeaf(h, h2, a) == Leaf(h2, a) = Leaf(h, a)

\* The leaves at s have the values.
Written(h, s, n, vals) == \A i \in 1..n : h[s[i]] = vals[i]

\* All items are deleted, and n new ones are made of values.
LEMMA ListCopied ==
    ASSUME NEW h, NEW x, Healthy(h, x), x.list # Missing,
           NEW n \in Nat, n <= MaxLen, NEW s \in Allocated(Delete(h, Items(x.list)), n),
           NEW vals, \A i \in 1..n : vals[i] \in Vals,
           NEW y \in Object, y.sub = x.sub, y.list = s
    PROVE  /\ Replaces(h, x, Stored(Delete(h, Items(x.list)), s, vals), y)
           /\ Written(Stored(Delete(h, Items(x.list)), s, vals), s, n, vals)
           /\ SameLeaf(h, Stored(Delete(h, Items(x.list)), s, vals), x.sub)
  <1> DEFINE g == Delete(h, Items(x.list))
  <1>0. PICK h2 : h2 = Stored(g, s, vals)
    OBVIOUS
  <1>1. /\ g \in Heaps
        /\ \A a \in Addr : g[a] = IF a \in Items(x.list) THEN Null ELSE h[a]
    BY DEF Delete, Heaps, Healthy
  <1>2. Null \notin Addr /\ Null \notin Vals
    BY ValsAssumption
  <1>3. /\ s \in [1..n -> Addr]
        /\ \A i, j \in 1..n : s[i] = s[j] => i = j
        /\ \A i \in 1..n : g[s[i]] = Null
    BY DEF Allocated, FreeIn, g
  <1>4. s \in Lists /\ Len(s) = n
    BY <1>3 DEF Lists
  <1>5. Items(s) = {s[i] : i \in 1..n}
    <2>1. s # Missing /\ DOMAIN s = 1..n
      BY <1>3, <1>4, ItemsOf
    <2> QED
      BY <1>2, <1>3, <2>1 DEF Items
  <1>6. NoRepeats(s)
    BY <1>3, <1>4 DEF NoRepeats
  <1> HIDE DEF g
  <1>7. \A a \in Addr : h2[a] = IF \E i \in 1..n : s[i] = a
                                THEN vals[CHOOSE i \in 1..n : s[i] = a] ELSE g[a]
    BY <1>0, <1>3 DEF Stored
  <1>8. \A a \in Items(s) : h2[a] \in Vals
    <2> SUFFICES ASSUME NEW a \in Items(s)
                 PROVE  h2[a] \in Vals
      OBVIOUS
    <2>1. a \in Addr /\ \E i \in 1..n : s[i] = a
      BY <1>3, <1>5
    <2>2. (CHOOSE i \in 1..n : s[i] = a) \in 1..n
      BY <2>1
    <2>3. h2[a] = vals[CHOOSE i \in 1..n : s[i] = a]
      BY <1>7, <2>1
    <2> QED
      BY <2>2, <2>3
  <1>9. \A a \in Addr \ Items(s) : h2[a] = g[a]
    BY <1>5, <1>7
  <1>10. h2 \in Heaps
    <2>1. h2 = [a \in Addr |-> h2[a]]
      BY <1>0 DEF Stored
    <2>2. \A a \in Addr : h2[a] \in Vals \cup {Null}
      BY <1>1, <1>8, <1>9 DEF Heaps
    <2> QED
      BY <2>1, <2>2 DEF Heaps
  <1>11. \A a \in Items(s) : a \in Addr /\ (a \in Items(x.list) \/ h[a] = Null)
    BY <1>1, <1>3, <1>5
  <1>12. /\ Items(x.list) \subseteq Own(x) /\ x.sub \notin Items(x.list)
         /\ x.sub \in Addr => h[x.sub] # Null
    BY HealthyObject
  <1>13. Replaces(h, x, h2, y)
    <2>1. \A a \in Items(y.list) : h2[a] # Null /\ (a \in Items(x.list) \/ h[a] = Null)
      BY <1>2, <1>8, <1>11
    <2>2. \A a \in Addr \ Items(x.list) : h[a] # Null => h2[a] = h[a]
      BY <1>1, <1>9, <1>11
    <2>3. \A a \in Addr \ Items(y.list) : h2[a] # Null => h[a] # Null /\ a \notin Items(x.list)
      BY <1>1, <1>9
    <2> QED
      BY <1>4, <1>6, <1>10, <1>12, <2>1, <2>2, <2>3, ListReplaced
  <1>14. ASSUME NEW i \in 1..n
         PROVE  h2[s[i]] = vals[i]
    <2>1. s[i] \in Addr /\ \E j \in 1..n : s[j] = s[i]
      BY <1>3
    <2>2. (CHOOSE j \in 1..n : s[j] = s[i]) = i
      BY <1>3
    <2> QED
      BY <1>7, <2>1, <2>2
  <1>15. Leaf(h2, x.sub) = Leaf(h, x.sub)
    <2>1. x.sub \in Addr => g[x.sub] = h[x.sub] /\ g[x.sub] # Null
      BY <1>1, <1>12
    <2>2. x.sub \notin Items(s)
      BY <1>3, <1>5, <2>1
    <2> QED
      BY <1>9, <2>1, <2>2 DEF Leaf
  <1> QED
    BY <1>0, <1>13, <1>14, <1>15 DEF g, Written, SameLeaf

-----------------------------------------------------------------------------
(* What the operations on objects make of one *)

\* Leaves are written, none is allocated or deleted.
LEMMA MembersKept ==
    ASSUME NEW h, NEW x, Healthy(h, x), NEW h2 \in Heaps, NEW y \in Object,
           y.list = x.list, y.sub = x.sub,
           \A a \in Addr : (h2[a] = Null) = (h[a] = Null),
           \A a \in Addr \ Own(x) : h2[a] = h[a]
    PROVE  Replaces(h, x, h2, y)
  <1>1. x # Dead /\ x \in Object /\ Tidy(x) /\ \A a \in Own(x) : h[a] # Null
    BY HealthyObject DEF Healthy
  <1>2. y # Dead /\ Own(y) = Own(x) /\ Own(x) \subseteq Addr
    BY <1>1, OwnInAddr, ObjectAssumption DEF Own
  <1>3. Tidy(y)
    BY <1>1, <1>2 DEF Tidy
  <1> QED
    BY <1>1, <1>2, <1>3 DEF Replaces

\* The same addresses are free in two heaps.
LEMMA ReplacesFrom ==
    ASSUME NEW h, NEW g, \A a \in Addr : (g[a] = Null) = (h[a] = Null),
           NEW x, \A a \in Addr \ Own(x) : g[a] = h[a],
           NEW h2, NEW y, Replaces(g, x, h2, y)
    PROVE  Replaces(h, x, h2, y)
  <1>1. Own(y) \subseteq Addr
    BY OwnInAddr DEF Replaces
  <1> QED
    BY <1>1 DEF Replaces

LEMMA SubReplaced ==
    ASSUME NEW h, NEW x, Healthy(h, x), NEW v \in Vals \cup {Null},
           NEW c \in Cloned(Delete(h, {x.sub}), v)
    PROVE  Replaces(h, x, c.heap, [x EXCEPT !.sub = c.ptr])
  <1> DEFINE y == [x EXCEPT !.sub = c.ptr]
             g == Delete(h, {x.sub})
  <1>1. /\ g \in Heaps
        /\ \A a \in Addr : g[a] = IF a = x.sub THEN Null ELSE h[a]
    BY DEF Delete, Heaps, Healthy
  <1>2. Null \notin Addr /\ Null \notin Vals /\ Null # Missing /\ Missing \notin Addr
    BY ValsAssumption
  <1>3. /\ x # Dead /\ x \in Object
        /\ Own(x) = Items(x.list) \cup ({x.sub} \cap Addr)
        /\ x.sub \notin Items(x.list)
        /\ \A a \in Items(x.list) : h[a] # Null
        /\ x.list # Missing => NoRepeats(x.list) /\ Len(x.list) <= MaxLen
    BY HealthyObject DEF Healthy
  <1>4. Items(x.list) \subseteq Addr
    BY <1>3, OwnInAddr
  <1>5. /\ c.heap \in Heaps /\ c.ptr \in Addr \cup {Null}
        /\ c.ptr \in Addr => c.heap[c.ptr] # Null /\ g[c.ptr] = Null
        /\ \A a \in Addr : a # c.ptr => c.heap[a] = g[a]
    <2> HIDE DEF g
    <2>1. CASE v = Null
      <3>1. c = [heap |-> g, ptr |-> Null]
        BY <2>1 DEF Cloned, g
      <3> QED
        BY <1>1, <1>2, <3>1
    <2>2. CASE v # Null
      <3>1. c \in {[heap |-> [g EXCEPT ![b] = v], ptr |-> b] : b \in FreeIn(g)}
        BY <2>2 DEF Cloned, g
      <3>2. PICK b \in FreeIn(g) : c = [heap |-> [g EXCEPT ![b] = v], ptr |-> b]
        BY <3>1, Zenon
      <3>3. c.heap = [g EXCEPT ![b] = v] /\ c.ptr = b
        BY <3>2
      <3>4. b \in Addr /\ g[b] = Null /\ v \in Vals /\ v # Null
        BY <2>2 DEF FreeIn
      <3> QED
        BY <1>1, <3>3, <3>4 DEF Heaps
    <2> QED
      BY <2>1, <2>2
  <1>6. y \in Object /\ y.list = x.list /\ y.sub = c.ptr
    BY <1>3, <1>5 DEF Object
  <1> HIDE DEF y, g
  <1>7. y # Dead /\ Own(y) = Items(x.list) \cup ({c.ptr} \cap Addr)
    BY <1>6, ObjectAssumption DEF Own
  <1>8. c.ptr \notin Items(x.list)
    <2>1. c.ptr \in Items(x.list) => g[c.ptr] # Null
      BY <1>1, <1>3, <1>4
    <2> QED
      BY <1>4, <1>5, <2>1
  <1>9. Tidy(y)
    BY <1>3, <1>6, <1>8 DEF Tidy
  <1>10. \A a \in Own(y) : c.heap[a] # Null /\ (a \in Own(x) \/ h[a] = Null)
    <2> SUFFICES ASSUME NEW a \in Own(y)
                 PROVE  c.heap[a] # Null /\ (a \in Own(x) \/ h[a] = Null)
      OBVIOUS
    <2>1. CASE a \in Items(x.list)
      BY <1>1, <1>3, <1>4, <1>5, <1>8, <2>1
    <2>2. CASE a = c.ptr /\ a \in Addr
      BY <1>1, <1>3, <1>5, <2>2
    <2> QED
      BY <1>7, <2>1, <2>2
  <1>11. \A a \in Addr \ Own(x) : h[a] # Null => c.heap[a] = h[a]
    BY <1>1, <1>3, <1>5
  <1>12. \A a \in Addr : c.heap[a] # Null =>
            /\ h[a] = Null => a \in Own(y)
            /\ a \in Own(x) => a \in Own(y)
    BY <1>1, <1>3, <1>5, <1>7
  <1>13. Replaces(h, x, c.heap, y)
    BY <1>5, <1>6, <1>9, <1>10, <1>11, <1>12 DEF Replaces
  <1> QED
    BY <1>13 DEF y

\* clear() forgets the object member.
LEMMA ClearedIs ==
    ASSUME NEW x \in Object
    PROVE  Cleared(x) \in Object /\ Cleared(x).list = Missing /\ Cleared(x).sub = Missing
  BY DEF Object, Cleared

LEMMA ClearReplaces ==
    ASSUME NEW h, NEW x, Healthy(h, x),
           NEW y \in Object, y.list = Missing, y.sub = Missing
    PROVE  Replaces(h, x, ClearedHeap(h, x), y)
  <1> DEFINE g == ClearedHeap(h, x)
  <1>1. /\ g \in Heaps
        /\ \A a \in Addr : g[a] = IF a \in Items(x.list) THEN Null ELSE h[a]
    BY DEF ClearedHeap, Delete, Heaps, Healthy
  <1>2. Missing \notin Addr
    BY ValsAssumption
  <1>3. /\ x # Dead /\ x \in Object
        /\ Own(x) = Items(x.list) \cup ({x.sub} \cap Addr)
    BY HealthyObject DEF Healthy
  <1> HIDE DEF g
  <1>5. y # Dead /\ Own(y) = {} /\ Items(y.list) = {}
    BY <1>2, ObjectAssumption DEF Own, Items
  <1>6. Tidy(y)
    BY <1>5 DEF Tidy
  <1>7. \A a \in Addr : g[a] # Null =>
            /\ h[a] # Null
            /\ a \in Own(x) => Forgets(x, y, a)
    BY <1>1, <1>3, <1>5 DEF Forgets
  <1>8. \A a \in Addr \ Own(x) : h[a] # Null => g[a] = h[a]
    BY <1>1, <1>3
  <1>9. Replaces(h, x, g, y)
    BY <1>1, <1>5, <1>6, <1>7, <1>8 DEF Replaces
  <1> QED
    BY <1>9 DEF g

LEMMA DestroyReplaces ==
    ASSUME NEW h, NEW x, Healthy(h, x)
    PROVE  Replaces(h, x, Delete(h, Items(x.list) \cup ({x.sub} \cap Addr)), Dead)
  <1> DEFINE g == Delete(h, Items(x.list) \cup ({x.sub} \cap Addr))
  <1>1. Own(x) = Items(x.list) \cup ({x.sub} \cap Addr)
    BY HealthyObject
  <1>2. /\ g \in Heaps
        /\ \A a \in Addr : g[a] = IF a \in Own(x) THEN Null ELSE h[a]
    BY <1>1 DEF Delete, Heaps, Healthy
  <1> HIDE DEF g
  <1>3. Own(Dead) = {} /\ Tidy(Dead)
    BY DEF Own, Tidy
  <1>4. Replaces(h, x, g, Dead)
    BY <1>2, <1>3 DEF Replaces
  <1> QED
    BY <1>4 DEF g

\* assign(): the object member's leaf takes the value of the source's, and the
\* items are deleted before the source's are cloned.
LEMMA AssignReplaces ==
    ASSUME NEW h, NEW x, Healthy(h, x), NEW y, Healthy(h, y),
           NEW u \in Objs, NEW w \in Objs,
           u = w \/ Own(x) \cap Own(y) = {},
           ~AssignUndefined(x, y, u = w), NEW r \in Assigned(h, x, y, u = w)
    PROVE  /\ Replaces(h, x, r.heap, r.obj)
           /\ r.obj \in Object /\ r.obj.sub = x.sub
           /\ r.obj.class = x.class /\ r.obj.plain = y.plain
           /\ Leaf(r.heap, x.sub) = IF x.sub = Missing THEN Missing ELSE Leaf(h, y.sub)
           /\ ListValue(r.heap, r.obj.list) =
                 IF x.list = Missing THEN Missing
                 ELSE ListValue(h, IF u = w THEN <<>> ELSE Asked(x, y).list)
  <1> DEFINE copied  == IF x.sub = Missing THEN h ELSE [h EXCEPT ![x.sub] = h[y.sub]]
             source  == IF u = w THEN <<>> ELSE Asked(x, y).list
             emptied == Delete(copied, Items(x.list))
             vals(s) == [i \in DOMAIN s |-> emptied[source[i]]]
             object(s) == [x EXCEPT !.plain = y.plain, !.list = s]
  <1>1. /\ x \in Object /\ x.sub \in Addr \cup {Null, Missing} /\ x.list \in Lists \cup {Missing}
        /\ x.list # Missing => Len(x.list) <= MaxLen
        /\ Own(x) = Items(x.list) \cup ({x.sub} \cap Addr)
        /\ x.sub \in Addr => h[x.sub] # Null
        /\ h \in Heaps
    BY HealthyObject DEF Healthy
  <1>2. /\ y \in Object /\ y.plain \in Vals
        /\ y.sub \in Addr \cup {Null, Missing} /\ y.list \in Lists \cup {Missing}
        /\ y.list # Missing => Len(y.list) <= MaxLen
        /\ Own(y) = Items(y.list) \cup ({y.sub} \cap Addr)
        /\ y.sub \in Addr => h[y.sub] # Null
        /\ \A a \in Items(y.list) : h[a] # Null
    BY HealthyObject DEF Healthy
  <1>3. /\ copied \in Heaps
        /\ \A a \in Addr : (copied[a] = Null) = (h[a] = Null)
        /\ \A a \in Addr \ Own(x) : copied[a] = h[a]
        /\ Leaf(copied, x.sub) = IF x.sub = Missing THEN Missing ELSE Leaf(h, y.sub)
    <2>1. CASE x.sub = Missing
      BY <1>1, <2>1, ValsAssumption DEF Leaf
    <2>2. CASE x.sub # Missing
      <3>1. x.sub \in Addr /\ y.sub \in Addr
        BY <1>1, <1>2, <2>2 DEF AssignUndefined
      <3>2. h[y.sub] \in Vals \cup {Null} /\ h[y.sub] # Null /\ h[x.sub] # Null
        BY <1>1, <1>2, <3>1 DEF Heaps
      <3>3. copied = [h EXCEPT ![x.sub] = h[y.sub]]
        BY <2>2
      <3> HIDE DEF copied
      <3> QED
        BY <1>1, <2>2, <3>1, <3>2, <3>3 DEF Heaps, Leaf
    <2> QED
      BY <2>1, <2>2
  <1>4. Healthy(copied, x)
    <2> HIDE DEF copied
    <2>1. Own(x) \subseteq Addr
      BY <1>1, OwnInAddr
    <2> QED
      BY <1>3, <2>1 DEF Healthy
  <1>5. CASE x.list = Missing
    <2>1. r = [heap |-> copied, obj |-> [x EXCEPT !.plain = y.plain]]
      BY <1>5 DEF Assigned
    <2> HIDE DEF copied
    <2>2. /\ [x EXCEPT !.plain = y.plain] \in Object
          /\ [x EXCEPT !.plain = y.plain].list = x.list
          /\ [x EXCEPT !.plain = y.plain].sub = x.sub
          /\ [x EXCEPT !.plain = y.plain].class = x.class
          /\ [x EXCEPT !.plain = y.plain].plain = y.plain
      BY <1>1, <1>2 DEF Object
    <2>3. Replaces(h, x, copied, [x EXCEPT !.plain = y.plain])
      BY <1>3, <2>2, MembersKept
    <2>4. r.heap = copied /\ r.obj = [x EXCEPT !.plain = y.plain]
      BY <2>1
    <2> QED
      BY <1>3, <1>5, <2>2, <2>3, <2>4 DEF ListValue
  <1>6. CASE x.list # Missing
    <2>1. PICK s \in Allocated(emptied, Len(source)) :
              r = [heap |-> Stored(emptied, s, vals(s)), obj |-> object(s)]
      <3>1. r \in {[heap |-> Stored(emptied, s, vals(s)), obj |-> object(s)] :
                       s \in Allocated(emptied, Len(source))}
        BY <1>6 DEF Assigned
      <3> HIDE DEF emptied, source, vals, object
      <3> QED
        BY <3>1, Zenon
    <2>2. /\ source \in Lists /\ Len(source) \in Nat /\ Len(source) <= MaxLen
          /\ DOMAIN source = 1..Len(source)
          /\ \A i \in 1..Len(source) : /\ source[i] \in Addr \ Items(x.list)
                                       /\ copied[source[i]] # Null
                                       /\ copied[source[i]] = h[source[i]]
      <3>1. CASE u = w \/ y.list = Missing
        <4>1. source = <<>>
          BY <1>2, <1>6, <3>1 DEF Asked, Object
        <4> HIDE DEF source
        <4>2. source \in Lists /\ Len(source) = 0 /\ DOMAIN source = 1..0 /\ 0 <= MaxLen
          BY <4>1, ValsAssumption DEF Lists
        <4> QED
          BY <4>2
      <3>2. CASE u # w /\ y.list # Missing
        <4>1. source = y.list
          BY <1>2, <3>2 DEF Asked, Object
        <4>2. y.list \in Lists /\ Len(y.list) \in Nat /\ DOMAIN y.list = 1..Len(y.list)
          BY <1>2, <3>2 DEF Lists
        <4>3. \A i \in 1..Len(y.list) : y.list[i] # Null
          BY <1>6, <3>2, <4>2 DEF AssignUndefined
        <4>4. \A i \in 1..Len(y.list) : y.list[i] \in Items(y.list) /\ y.list[i] \in Addr
          BY <4>2, <4>3, ItemsOf
        <4>5. Items(x.list) \cap Items(y.list) = {} /\ Own(x) \cap Items(y.list) = {}
          BY <1>1, <1>2, <3>2
        <4> HIDE DEF source, copied
        <4> QED
          BY <1>2, <1>3, <3>2, <4>1, <4>2, <4>4, <4>5
      <3> QED
        BY <3>1, <3>2
    <2>3. s \in [1..Len(source) -> Addr]
      BY DEF Allocated, FreeIn
    <2>4. \A i \in 1..Len(source) : vals(s)[i] \in Vals /\ vals(s)[i] = h[source[i]]
      <3> SUFFICES ASSUME NEW i \in 1..Len(source)
                   PROVE  vals(s)[i] \in Vals /\ vals(s)[i] = h[source[i]]
        OBVIOUS
      <3>1. vals(s)[i] = emptied[source[i]]
        BY <2>3
      <3>2. emptied[source[i]] = copied[source[i]] /\ copied[source[i]] = h[source[i]]
        BY <2>2 DEF Delete
      <3>3. copied[source[i]] \in Vals
        BY <1>3, <2>2 DEF Heaps
      <3> QED
        BY <3>1, <3>2, <3>3
    <2>5. /\ object(s) \in Object /\ object(s).sub = x.sub /\ object(s).list = s
          /\ object(s).class = x.class /\ object(s).plain = y.plain
      <3>1. s \in Lists
        BY <2>2, <2>3 DEF Lists
      <3> QED
        BY <1>1, <1>2, <3>1 DEF Object, Lists
    <2> HIDE DEF object, vals, source, copied
    <2>6. PICK h2 : h2 = Stored(emptied, s, vals(s))
      OBVIOUS
    <2>7. /\ Replaces(copied, x, h2, object(s))
          /\ Written(h2, s, Len(source), vals(s))
          /\ SameLeaf(copied, h2, x.sub)
      BY <1>4, <1>6, <2>2, <2>4, <2>5, <2>6, ListCopied
    <2>8. Replaces(h, x, h2, object(s))
      BY <1>3, <2>7, ReplacesFrom
    <2>9. r.heap = h2 /\ r.obj = object(s)
      BY <2>1, <2>6
    <2>10. ListValue(h2, s) = ListValue(h, source)
      <3>1. s # Missing /\ source # Missing /\ DOMAIN s = 1..Len(source)
        BY <1>6, <2>2, <2>3, <2>5, ItemsOf DEF Object, Lists
      <3>2. \A i \in 1..Len(source) : Leaf(h2, s[i]) = Leaf(h, source[i])
        BY <2>2, <2>3, <2>4, <2>7 DEF Leaf, Written
      <3> QED
        BY <2>2, <3>1, <3>2 DEF ListValue
    <2> QED
      BY <1>3, <1>6, <2>5, <2>7, <2>8, <2>9, <2>10 DEF source, SameLeaf
  <1> QED
    BY <1>5, <1>6

\* An object not yet constructed owns as little as a new one.
LEMMA NewReplaces ==
    ASSUME NEW h \in Heaps, NEW class \in Classes
    PROVE  /\ Healthy(h, NewObject(class)) /\ Own(NewObject(class)) = {}
           /\ Replaces(h, Dead, h, NewObject(class))
           /\ \A h2, y : Replaces(h, NewObject(class), h2, y) /\ y.sub = NewObject(class).sub
                          => Replaces(h, Dead, h2, y)
  <1> DEFINE x == NewObject(class)
  <1>1. /\ x \in Object /\ x.list = <<>> /\ x.sub \in {Null, Missing}
    BY ValsAssumption DEF NewObject, Object
  <1> HIDE DEF x
  <1>2. Null \notin Addr /\ Missing \notin Addr
    BY ValsAssumption
  <1>3. Items(<<>>) = {} /\ NoRepeats(<<>>) /\ Len(<<>>) <= MaxLen
    BY ValsAssumption DEF Items, NoRepeats
  <1>4. x # Dead /\ Own(x) = {}
    BY <1>1, <1>2, <1>3, ObjectAssumption DEF Own
  <1>5. Tidy(x)
    BY <1>1, <1>3 DEF Tidy
  <1>6. Own(Dead) = {}
    BY DEF Own
  <1>7. Replaces(h, Dead, h, x)
    BY <1>1, <1>4, <1>5, <1>6 DEF Replaces
  <1>8. ASSUME NEW h2, NEW y, Replaces(h, x, h2, y)
        PROVE  Replaces(h, Dead, h2, y)
    BY <1>4, <1>6, <1>8 DEF Replaces
  <1>9. Healthy(h, x)
    BY <1>1, <1>4, <1>5 DEF Healthy
  <1> QED
    BY <1>4, <1>7, <1>8, <1>9 DEF x

\* What json_to_model makes of the items l, now k, with a document's array.
ReadItems(h, l, h2, k, js) ==
    /\ k \in Lists /\ Len(k) = Len(l)
    /\ \A i \in 1..Len(l) :
          Leaf(h2, k[i]) = IF l[i] = Null \/ NoEntry(js, i) THEN Null ELSE ReadLeaf(h[l[i]], js[i])

\* What it makes of the object x, now y.
ReadObject(h, x, h2, y, doc) ==
    /\ y \in Object /\ y.class = x.class /\ y.plain = ReadLeaf(x.plain, doc.plain)
    /\ Leaf(h2, y.sub) = IF x.sub \in Addr THEN ReadLeaf(h[x.sub], doc.sub) ELSE x.sub
    /\ IF x.list = Missing \/ ~doc.isArray
       THEN y.list = x.list /\ Kept(h, Items(x.list), h2)
       ELSE ReadItems(h, x.list, h2, y.list, doc.list)

\* json_to_model writes leaves, and deletes items the document does not have.
LEMMA JsonReplaces ==
    ASSUME NEW u, Healthy(heap, model[u]), NEW doc
    PROVE  /\ Replaces(heap, model[u], Converted(u, doc).heap, Converted(u, doc).obj)
           /\ Converted(u, doc).obj \in Object
           /\ ReadObject(heap, model[u], Converted(u, doc).heap, Converted(u, doc).obj, doc)
  <1> DEFINE x     == model[u]
             list  == IF x.list = Missing \/ ~doc.isArray THEN <<>> ELSE x.list
             Entry(a) == CHOOSE i \in DOMAIN list : list[i] = a
             NewLeaf(a) == IF a = x.sub THEN ReadLeaf(heap[a], doc.sub)
                           ELSE IF a \notin Items(list) THEN heap[a]
                           ELSE IF NoEntry(doc.list, Entry(a)) THEN Null
                           ELSE ReadLeaf(heap[a], doc.list[Entry(a)])
             h2 == [a \in Addr |-> NewLeaf(a)]
             kept == [i \in DOMAIN x.list |-> IF NoEntry(doc.list, i) THEN Null ELSE x.list[i]]
             y  == [x EXCEPT !.plain = ReadLeaf(@, doc.plain),
                             !.list  = IF list = <<>> THEN @ ELSE kept]
  <1>1. Converted(u, doc).heap = h2 /\ Converted(u, doc).obj = y
    BY DEF Converted
  <1>2. Healthy(heap, x)
    OBVIOUS
  <1>3. /\ x \in Object /\ x.plain \in Vals /\ heap \in Heaps
        /\ x.list \in Lists \cup {Missing}
        /\ x.list # Missing => NoRepeats(x.list) /\ Len(x.list) <= MaxLen
        /\ x.sub \notin Items(x.list)
        /\ \A a \in Items(x.list) : heap[a] # Null
        /\ x.sub \in Addr => heap[x.sub] # Null
        /\ Own(x) = Items(x.list) \cup ({x.sub} \cap Addr)
    BY <1>2, HealthyObject DEF Healthy
  <1>4. Null \notin Vals /\ Null \notin Addr
    BY ValsAssumption
  <1>5. \A a \in Addr : \A j : heap[a] # Null => ReadLeaf(heap[a], j) \in Vals
    BY <1>3, ReadLeafIs DEF Heaps
  <1>6. ReadLeaf(x.plain, doc.plain) \in Vals
    BY <1>3, ReadLeafIs
  <1> HIDE DEF x
  <1>7. CASE list = <<>>
    <2>1. Items(list) = {}
      BY <1>7 DEF Items
    <2>2. \A a \in Addr : h2[a] = IF a = x.sub THEN ReadLeaf(heap[a], doc.sub) ELSE heap[a]
      BY <2>1
    <2>3. /\ y \in Object /\ y.list = x.list /\ y.sub = x.sub
          /\ y.class = x.class /\ y.plain = ReadLeaf(x.plain, doc.plain)
      BY <1>3, <1>6, <1>7 DEF Object
    <2>4. h2 = [a \in Addr |-> h2[a]]
      OBVIOUS
    <2>8. x.list = Missing \/ ~doc.isArray \/ x.list = <<>>
      BY <1>7
    <2> HIDE DEF y, h2, list
    <2>5. \A a \in Addr : (h2[a] = Null) = (heap[a] = Null) /\ h2[a] \in Vals \cup {Null}
      BY <1>3, <1>4, <1>5, <2>2 DEF Heaps
    <2>6. h2 \in Heaps
      BY <2>4, <2>5 DEF Heaps
    <2>7. Replaces(heap, x, h2, y)
      BY <1>2, <1>3, <2>2, <2>3, <2>5, <2>6, MembersKept
    <2>9. ReadObject(heap, x, h2, y, doc)
      <3>1. Leaf(h2, y.sub) = IF x.sub \in Addr THEN ReadLeaf(heap[x.sub], doc.sub) ELSE x.sub
        BY <2>2, <2>3 DEF Leaf
      <3>2. Kept(heap, Items(x.list), h2)
        <4>1. Items(x.list) \subseteq Addr /\ x.sub \notin Items(x.list)
          BY <1>3, OwnInAddr
        <4> QED
          BY <2>2, <4>1 DEF Kept
      <3>3. x.list = <<>> => ReadItems(heap, x.list, h2, y.list, doc.list)
        <4> SUFFICES ASSUME x.list = <<>>
                     PROVE  ReadItems(heap, x.list, h2, y.list, doc.list)
          OBVIOUS
        <4>1. y.list = x.list /\ <<>> \in Lists /\ Len(x.list) = 0
          BY <2>3 DEF Lists
        <4> QED
          BY <4>1 DEF ReadItems
      <3> QED
        BY <2>3, <2>8, <3>1, <3>2, <3>3 DEF ReadObject
    <2> QED
      BY <1>1, <2>3, <2>7, <2>9 DEF x
  <1>8. CASE list # <<>>
    <2>1. /\ list = x.list /\ x.list # Missing /\ x.list \in Lists
          /\ DOMAIN x.list = 1..Len(x.list) /\ Len(x.list) \in Nat
      BY <1>3, <1>8 DEF Lists
    <2>2. /\ y.sub = x.sub /\ y.list = kept /\ y.plain \in Vals
          /\ y.class = x.class /\ y.plain = ReadLeaf(x.plain, doc.plain)
      BY <1>3, <1>6, <1>8 DEF Object
    <2>22. doc.isArray
      BY <1>8
    <2> DEFINE Drop(i) == NoEntry(doc.list, i)
    <2>3. kept = [i \in 1..Len(x.list) |-> IF Drop(i) THEN Null ELSE x.list[i]]
      BY <2>1
    <2>4. \A a \in Items(x.list) : Entry(a) \in 1..Len(x.list) /\ x.list[Entry(a)] = a
      <3> SUFFICES ASSUME NEW a \in Items(x.list)
                   PROVE  Entry(a) \in 1..Len(x.list) /\ x.list[Entry(a)] = a
        OBVIOUS
      <3>1. \E i \in DOMAIN list : list[i] = a
        BY <2>1, ItemsOf
      <3>2. Entry(a) \in DOMAIN list /\ list[Entry(a)] = a
        BY <3>1
      <3> HIDE DEF list, Entry
      <3> QED
        BY <2>1, <3>2
    <2>5. \A a \in Addr : h2[a] = NewLeaf(a)
      OBVIOUS
    <2>6. h2 = [a \in Addr |-> h2[a]]
      OBVIOUS
    <2>7. y \in Object
      <3> HIDE DEF Drop
      <3>1. kept \in Lists
        BY <2>1, <2>3 DEF Lists
      <3> QED
        BY <1>3, <1>6, <1>8, <3>1 DEF Object, Lists
    <2>8. \A a \in Items(x.list) : h2[a] = IF Drop(Entry(a)) THEN Null
                                           ELSE ReadLeaf(heap[a], doc.list[Entry(a)])
      <3> SUFFICES ASSUME NEW a \in Items(x.list)
                   PROVE  h2[a] = IF Drop(Entry(a)) THEN Null
                                  ELSE ReadLeaf(heap[a], doc.list[Entry(a)])
        OBVIOUS
      <3>1. a \in Addr /\ a # x.sub /\ a \in Items(list)
        BY <1>3, <2>1, ItemsOf
      <3> HIDE DEF list, Entry
      <3> QED
        BY <2>5, <3>1
    <2>9. \A a \in Addr \ Items(x.list) :
             h2[a] = IF a = x.sub THEN ReadLeaf(heap[a], doc.sub) ELSE heap[a]
      <3> HIDE DEF list, Entry
      <3> QED
        BY <2>1, <2>5
    <2> HIDE DEF y, h2, list, kept, Drop, Entry
    <2>10. kept \in Lists /\ Len(kept) = Len(x.list)
          /\ \A i \in 1..Len(x.list) : kept[i] = IF Drop(i) THEN Null ELSE x.list[i]
      BY <2>1, <2>3 DEF Lists
    <2>11. NoRepeats(kept)
      BY <1>3, <2>1, <2>10 DEF NoRepeats
    <2>12. \A a \in Items(kept) : a \in Items(x.list) /\ ~Drop(Entry(a))
      <3> SUFFICES ASSUME NEW a \in Items(kept)
                   PROVE  a \in Items(x.list) /\ ~Drop(Entry(a))
        OBVIOUS
      <3>1. PICK i \in 1..Len(x.list) : kept[i] = a /\ a # Null
        BY <2>10, ItemsOf
      <3>2. ~Drop(i) /\ x.list[i] = a
        BY <2>10, <3>1
      <3>3. a \in Items(x.list)
        BY <2>1, <3>1, <3>2, ItemsOf
      <3>4. Entry(a) = i
        BY <1>3, <2>1, <2>4, <3>1, <3>2, <3>3 DEF NoRepeats
      <3> QED
        BY <3>2, <3>3, <3>4
    <2>13. \A a \in Items(x.list) : ~Drop(Entry(a)) => a \in Items(kept)
      <3> SUFFICES ASSUME NEW a \in Items(x.list), ~Drop(Entry(a))
                   PROVE  a \in Items(kept)
        OBVIOUS
      <3>1. kept[Entry(a)] = a /\ Entry(a) \in 1..Len(x.list)
        BY <2>4, <2>10
      <3>2. a # Null
        BY <2>1, ItemsOf
      <3> QED
        BY <2>10, <3>1, <3>2, ItemsOf
    <2>14. Items(x.list) \subseteq Addr
      BY <2>1, ItemsOf
    <2>15. \A a \in Items(x.list) : (h2[a] = Null) = Drop(Entry(a))
      <3> SUFFICES ASSUME NEW a \in Items(x.list)
                   PROVE  (h2[a] = Null) = Drop(Entry(a))
        OBVIOUS
      <3>1. ReadLeaf(heap[a], doc.list[Entry(a)]) # Null
        BY <1>3, <1>4, <1>5, <2>14
      <3>2. Drop(Entry(a)) \in BOOLEAN
        BY DEF Drop, NoEntry
      <3> QED
        BY <2>8, <3>1, <3>2
    <2>16. \A a \in Addr \ Items(x.list) : (h2[a] = Null) = (heap[a] = Null)
      BY <1>3, <1>4, <1>5, <2>9
    <2>17. h2 \in Heaps
      <3>1. \A a \in Addr \ Items(x.list) : h2[a] \in Vals \cup {Null}
        BY <1>3, <1>5, <2>9 DEF Heaps
      <3>2. \A a \in Items(x.list) : h2[a] \in Vals \cup {Null}
        BY <1>3, <1>5, <2>8, <2>14
      <3> QED
        BY <2>6, <3>1, <3>2 DEF Heaps
    <2>18. \A a \in Items(kept) : h2[a] # Null /\ (a \in Items(x.list) \/ heap[a] = Null)
      BY <2>12, <2>15
    <2>19. /\ \A a \in Addr \ Own(x) : heap[a] # Null => h2[a] = heap[a]
           /\ x.sub \in Addr => h2[x.sub] # Null
      <3>1. \A a \in Addr \ Own(x) : a \in Addr \ Items(x.list) /\ a # x.sub
        BY <1>3
      <3> QED
        BY <1>3, <2>9, <2>16, <3>1
    <2>20. \A a \in Addr \ Items(kept) : h2[a] # Null => heap[a] # Null /\ a \notin Items(x.list)
      BY <2>13, <2>15, <2>16
    <2>21. Replaces(heap, x, h2, y)
      BY <1>2, <1>3, <2>1, <2>2, <2>7, <2>10, <2>11, <2>17, <2>18, <2>19, <2>20, ListReplaced
    <2>23. ReadItems(heap, x.list, h2, kept, doc.list)
      <3> SUFFICES ASSUME NEW i \in 1..Len(x.list)
                   PROVE  Leaf(h2, kept[i]) = IF x.list[i] = Null \/ Drop(i) THEN Null
                                              ELSE ReadLeaf(heap[x.list[i]], doc.list[i])
        BY <2>10 DEF ReadItems, Drop
      <3>1. CASE x.list[i] = Null \/ Drop(i)
        BY <1>4, <2>10, <3>1 DEF Leaf
      <3>2. CASE ~(x.list[i] = Null \/ Drop(i))
        <4>1. PICK a : a = x.list[i]
          OBVIOUS
        <4>2. a \in Items(x.list) /\ a \in Addr /\ kept[i] = a
          BY <2>1, <2>10, <3>2, <4>1, ItemsOf
        <4>3. Entry(a) = i
          BY <1>3, <2>1, <2>4, <3>2, <4>1, <4>2 DEF NoRepeats
        <4>4. h2[a] = ReadLeaf(heap[a], doc.list[i])
          BY <2>8, <3>2, <4>2, <4>3
        <4> QED
          BY <3>2, <4>1, <4>2, <4>4 DEF Leaf
      <3> QED
        BY <3>1, <3>2
    <2>24. ReadObject(heap, x, h2, y, doc)
      <3>1. Leaf(h2, y.sub) = IF x.sub \in Addr THEN ReadLeaf(heap[x.sub], doc.sub) ELSE x.sub
        BY <1>3, <2>2, <2>9 DEF Leaf
      <3> QED
        BY <2>1, <2>2, <2>7, <2>22, <2>23, <3>1 DEF ReadObject
    <2> QED
      BY <1>1, <2>7, <2>21, <2>24 DEF x
  <1> QED
    BY <1>7, <1>8

-----------------------------------------------------------------------------
(* Values *)

LEMMA ValueIs ==
    ASSUME NEW h, NEW x \in Object
    PROVE  ValueOf(h, x) = [class |-> x.class, plain |-> x.plain,
                            list |-> ListValue(h, x.list), sub |-> Leaf(h, x.sub)]
  <1>1. x # Dead
    BY ObjectAssumption
  <1>2. x = [class |-> x.class, plain |-> x.plain, list |-> x.list, sub |-> x.sub]
    BY DEF Object
  <1>3. ValueOf(h, x) = [x EXCEPT !.list = ListValue(h, x.list), !.sub = Leaf(h, x.sub)]
    BY <1>1, <1>2 DEF ValueOf, ListValue, Leaf
  <1> QED
    BY <1>2, <1>3

LEMMA ListValueKept ==
    ASSUME NEW l \in Lists \cup {Missing}, NEW h, NEW h2, \A a \in Items(l) : h2[a] = h[a]
    PROVE  ListValue(h2, l) = ListValue(h, l)
  <1>1. CASE l = Missing
    BY <1>1 DEF ListValue
  <1>2. CASE l # Missing
    <2>1. l \in Lists /\ DOMAIN l = 1..Len(l)
      BY <1>2 DEF Lists
    <2>2. \A i \in 1..Len(l) : Leaf(h2, l[i]) = Leaf(h, l[i])
      BY <2>1, ItemsOf, ValsAssumption DEF Leaf
    <2> QED
      BY <1>2, <2>1, <2>2 DEF ListValue
  <1> QED
    BY <1>1, <1>2

LEMMA ValueKept ==
    ASSUME NEW x \in Object \cup {Dead}, NEW h, NEW h2, Kept(h, Own(x), h2)
    PROVE  ValueOf(h2, x) = ValueOf(h, x)
  <1>1. CASE x = Dead
    BY <1>1 DEF ValueOf
  <1>2. CASE x # Dead
    <2>1. x \in Object /\ x.list \in Lists \cup {Missing}
      BY <1>2 DEF Object, Lists
    <2>2. Own(x) = Items(x.list) \cup ({x.sub} \cap Addr)
      BY <1>2 DEF Own
    <2>3. ListValue(h2, x.list) = ListValue(h, x.list) /\ Leaf(h2, x.sub) = Leaf(h, x.sub)
      BY <2>1, <2>2, ListValueKept DEF Leaf, Kept
    <2> QED
      BY <2>1, <2>3, ValueIs
  <1> QED
    BY <1>1, <1>2

LEMMA ListFacts ==
    ASSUME NEW h \in Heaps, NEW l \in Lists, \A a \in Items(l) : h[a] # Null,
           NEW k, k = ListValue(h, l)
    PROVE  /\ k \in Seq(Vals \cup {Null}) /\ k # Missing
           /\ Len(l) \in Nat /\ Len(k) = Len(l) /\ DOMAIN k = 1..Len(l)
           /\ \A i \in 1..Len(l) : /\ k[i] = Leaf(h, l[i])
                                   /\ k[i] \in Vals \cup {Null}
                                   /\ k[i] = Null <=> l[i] = Null
  <1>1. l # Missing /\ DOMAIN l = 1..Len(l) /\ Len(l) \in Nat
    BY ItemsOf DEF Lists
  <1>2. k = [i \in 1..Len(l) |-> Leaf(h, l[i])]
    BY <1>1 DEF ListValue
  <1>3. \A i \in 1..Len(l) : /\ Leaf(h, l[i]) \in Vals \cup {Null}
                             /\ Leaf(h, l[i]) = Null <=> l[i] = Null
    <2> SUFFICES ASSUME NEW i \in 1..Len(l)
                 PROVE  /\ Leaf(h, l[i]) \in Vals \cup {Null}
                        /\ Leaf(h, l[i]) = Null <=> l[i] = Null
      OBVIOUS
    <2>1. CASE l[i] = Null
      BY <2>1, ValsAssumption DEF Leaf
    <2>2. CASE l[i] # Null
      <3>1. l[i] \in Items(l) /\ l[i] \in Addr
        BY <2>2, ItemsOf
      <3> QED
        BY <2>2, <3>1 DEF Leaf, Heaps
    <2> QED
      BY <2>1, <2>2
  <1>4. k \in Seq(Vals \cup {Null})
    BY <1>1, <1>2, <1>3
  <1> QED
    BY <1>1, <1>2, <1>3, <1>4, ObjectAssumption

LEMMA ValueFacts ==
    ASSUME NEW h, NEW x, Healthy(h, x), NEW z, z = ValueOf(h, x)
    PROVE  /\ z \in Value /\ z # Dead
           /\ z.class = x.class /\ z.plain = x.plain
           /\ z.sub = Leaf(h, x.sub) /\ z.list = ListValue(h, x.list)
           /\ z.sub = Missing <=> x.sub = Missing
           /\ z.sub = Null <=> x.sub = Null
           /\ x.sub \in Addr => z.sub \in Vals /\ z.sub = h[x.sub]
           /\ z.list = Missing <=> x.list = Missing
  <1>1. x \in Object /\ h \in Heaps
    BY DEF Healthy
  <1>2. /\ x.class \in Classes /\ x.plain \in Vals
        /\ x.sub \in Addr \cup {Null, Missing} /\ x.list \in Lists \cup {Missing}
        /\ \A a \in Items(x.list) : h[a] # Null
        /\ x.sub \in Addr => h[x.sub] # Null
    BY HealthyObject
  <1>3. z = [class |-> x.class, plain |-> x.plain,
             list |-> ListValue(h, x.list), sub |-> Leaf(h, x.sub)]
    BY <1>1, ValueIs
  <1>4. /\ Leaf(h, x.sub) \in Vals \cup {Null, Missing}
        /\ Leaf(h, x.sub) = Missing <=> x.sub = Missing
        /\ Leaf(h, x.sub) = Null <=> x.sub = Null
        /\ x.sub \in Addr => Leaf(h, x.sub) \in Vals /\ Leaf(h, x.sub) = h[x.sub]
    BY <1>1, <1>2, ValsAssumption DEF Leaf, Heaps
  <1>5. /\ ListValue(h, x.list) \in Seq(Vals \cup {Null}) \cup {Missing}
        /\ ListValue(h, x.list) = Missing <=> x.list = Missing
    <2>1. CASE x.list = Missing
      BY <2>1 DEF ListValue
    <2>2. CASE x.list # Missing
      <3>1. PICK k : k = ListValue(h, x.list)
        OBVIOUS
      <3> QED
        BY <1>1, <1>2, <2>2, <3>1, ListFacts
    <2> QED
      BY <2>1, <2>2
  <1>6. z \in Value
    BY <1>2, <1>3, <1>4, <1>5 DEF Value
  <1> QED
    BY <1>3, <1>4, <1>5, <1>6, ObjectAssumption

-----------------------------------------------------------------------------
(* What ModelValues allows, member by member *)

LEMMA AfterMember ==
    ASSUME NEW z \in Value, NEW z2 \in Value, z2.class = z.class, NEW docs,
           \/ z2.list = z.list /\ z2.sub = z.sub /\ z2.plain \in Alike(Default)
           \/ /\ z2.plain = z.plain /\ z2.list = z.list
              /\ z.class = "composite" /\ z2.sub \in Alike(Default) \cup {Null}
           \/ /\ z2.plain = z.plain /\ z2.sub = z.sub
              /\ z.list # Missing /\ z2.list \in Values!ListAfter(z.list)
           \/ /\ z2.plain = z.plain /\ z2.sub = Missing /\ z2.list = Missing
              /\ z.sub # Null
           \/ /\ z2.plain = z.plain /\ z2.sub = z.sub /\ z.sub # Null
              /\ z2.list = IF z.list = Missing THEN Missing ELSE <<>>
    PROVE  Values!After(z, z2, docs)
  <1>1. /\ z = [class |-> z.class, plain |-> z.plain, list |-> z.list, sub |-> z.sub]
        /\ z2 = [class |-> z.class, plain |-> z2.plain, list |-> z2.list, sub |-> z2.sub]
        /\ z2.plain \in Vals /\ z2.sub \in Vals \cup {Null, Missing}
    BY DEF Value
  <1>2. CASE z2.list = z.list /\ z2.sub = z.sub /\ z2.plain \in Alike(Default)
    <2>1. z2 = [z EXCEPT !.plain = z2.plain]
      BY <1>1, <1>2
    <2> QED
      BY <1>2, <2>1 DEF Values!After, Values!Alike, Alike
  <1>3. CASE /\ z2.plain = z.plain /\ z2.list = z.list
             /\ z.class = "composite" /\ z2.sub \in Alike(Default) \cup {Null}
    <2>1. z2 = [z EXCEPT !.sub = z2.sub]
      BY <1>1, <1>3
    <2> QED
      BY <1>3, <2>1 DEF Values!After, Values!Alike, Alike
  <1>4. CASE /\ z2.plain = z.plain /\ z2.sub = z.sub
             /\ z.list # Missing /\ z2.list \in Values!ListAfter(z.list)
    <2>1. z2 = [z EXCEPT !.list = z2.list]
      BY <1>1, <1>4
    <2> QED
      BY <1>4, <2>1 DEF Values!After
  <1>5. CASE /\ z2.plain = z.plain /\ z2.sub = Missing /\ z2.list = Missing
             /\ z.sub # Null
    <2>1. z2 = [z EXCEPT !.list = Missing, !.sub = Missing]
      BY <1>1, <1>5
    <2> QED
      BY <1>5, <2>1 DEF Values!After, Values!ClearUndefined, Values!Cleared
  <1>6. CASE /\ z2.plain = z.plain /\ z2.sub = z.sub /\ z.sub # Null
             /\ z2.list = IF z.list = Missing THEN Missing ELSE <<>>
    <2>1. z2 = [z EXCEPT !.list = IF z.list = Missing THEN Missing ELSE <<>>]
      BY <1>1, <1>6
    <2> QED
      BY <1>6, <2>1 DEF Values!After, Values!ClearUndefined, Values!SelfCopied
  <1> QED
    BY <1>2, <1>3, <1>4, <1>5, <1>6

LEMMA ValueExcept3 ==
    ASSUME NEW x \in Value, NEW p, NEW l, NEW q
    PROVE  [x EXCEPT !.plain = p, !.list = l, !.sub = q]
              = [class |-> x.class, plain |-> p, list |-> l, sub |-> q]
  <1>1. x = [class |-> x.class, plain |-> x.plain, list |-> x.list, sub |-> x.sub]
    BY DEF Value
  <1>2. PICK y : y = [x EXCEPT !.plain = p]
    OBVIOUS
  <1>3. y = [class |-> x.class, plain |-> p, list |-> x.list, sub |-> x.sub]
    BY <1>1, <1>2
  <1>4. PICK z : z = [y EXCEPT !.list = l]
    OBVIOUS
  <1>5. z = [class |-> x.class, plain |-> p, list |-> l, sub |-> x.sub]
    BY <1>3, <1>4
  <1>6. [z EXCEPT !.sub = q] = [class |-> x.class, plain |-> p, list |-> l, sub |-> q]
    BY <1>5
  <1> QED
    BY <1>2, <1>4, <1>6

LEMMA ValueExcept ==
    ASSUME NEW x \in Value, NEW l, NEW q
    PROVE  [x EXCEPT !.list = l, !.sub = q]
              = [class |-> x.class, plain |-> x.plain, list |-> l, sub |-> q]
  <1>1. x = [class |-> x.class, plain |-> x.plain, list |-> x.list, sub |-> x.sub]
    BY DEF Value
  <1>2. PICK z : z = [x EXCEPT !.list = l]
    OBVIOUS
  <1>3. z = [class |-> x.class, plain |-> x.plain, list |-> l, sub |-> x.sub]
    BY <1>1, <1>2
  <1>4. [z EXCEPT !.sub = q] = [class |-> x.class, plain |-> x.plain, list |-> l, sub |-> q]
    BY <1>3
  <1> QED
    BY <1>2, <1>4

LEMMA ClearedValue ==
    ASSUME NEW x \in Value
    PROVE  Values!Cleared(x) = [class |-> x.class, plain |-> x.plain,
                                list |-> Missing, sub |-> Missing]
  BY ValueExcept DEF Values!Cleared

\* x has become z, of y's class, and y has become t.
LEMMA AfterCopy ==
    ASSUME NEW x \in Value, NEW y \in Value, x.class = y.class,
           ~Values!CopyUndefined(x, y), NEW fresh \in BOOLEAN,
           NEW z \in Value, z.class = x.class, z.plain = y.plain,
           NEW t \in Value, t.class = y.class, t.plain = y.plain,
           LET asked == IF y.list = Missing THEN <<>> ELSE y.list IN
           \/ /\ z.list = (IF x.list = Missing THEN Missing ELSE asked)
              /\ z.sub = IF x.sub = Missing THEN Missing ELSE y.sub
              /\ t.sub = y.sub /\ t.list = IF x.list = Missing THEN y.list ELSE asked
           \/ /\ fresh
              /\ z.list = (IF x.list = Missing THEN Missing ELSE asked)
              /\ z.sub = IF x.sub = Missing THEN Missing ELSE y.sub
              /\ t.sub = Missing /\ t.list = Missing
           \/ /\ ~fresh
              /\ z.list = Missing /\ z.sub = Missing
              /\ t.sub = y.sub /\ t.list = IF x.list = Missing THEN y.list ELSE asked
    PROVE  <<z, t>> \in Values!AfterBoth(x, y, fresh)
  <1> DEFINE copied == Values!CopyOf(x, y)
             asked  == Values!CopiedFrom(x, y)
             list   == IF y.list = Missing THEN <<>> ELSE y.list
  <1>1. /\ x = [class |-> x.class, plain |-> x.plain, list |-> x.list, sub |-> x.sub]
        /\ y = [class |-> y.class, plain |-> y.plain, list |-> y.list, sub |-> y.sub]
        /\ z = [class |-> z.class, plain |-> z.plain, list |-> z.list, sub |-> z.sub]
        /\ t = [class |-> t.class, plain |-> t.plain, list |-> t.list, sub |-> t.sub]
    BY DEF Value
  <1>2. copied = [class |-> x.class, plain |-> y.plain,
                  list |-> IF x.list = Missing THEN Missing ELSE list,
                  sub |-> IF x.sub = Missing THEN Missing ELSE y.sub]
    <2>1. PICK p, l, q : /\ p = y.plain
                         /\ l = IF x.list = Missing THEN Missing ELSE list
                         /\ q = IF x.sub = Missing THEN Missing ELSE y.sub
      OBVIOUS
    <2>2. copied = [x EXCEPT !.plain = p, !.list = l, !.sub = q]
      BY <2>1 DEF Values!CopyOf, Values!ListOf
    <2> HIDE DEF copied, list
    <2>3. copied = [class |-> x.class, plain |-> p, list |-> l, sub |-> q]
      BY <2>2, ValueExcept3
    <2> QED
      BY <2>1, <2>3
  <1>3. asked = [class |-> y.class, plain |-> y.plain,
                 list |-> IF x.list = Missing THEN y.list ELSE list, sub |-> y.sub]
    BY <1>1 DEF Values!CopiedFrom, Values!ListOf
  <1> HIDE DEF copied, asked
  <1>4. /\ Values!Cleared(copied) = [class |-> x.class, plain |-> y.plain,
                                     list |-> Missing, sub |-> Missing]
        /\ Values!Cleared(y) = [class |-> y.class, plain |-> y.plain,
                                list |-> Missing, sub |-> Missing]
    <2>1. copied \in Value
      BY <1>2 DEF Value
    <2>2. /\ copied.class = x.class /\ copied.plain = y.plain
      BY <1>2
    <2> QED
      BY <2>1, <2>2, ClearedValue
  <1>5. \/ <<z, t>> = <<copied, asked>>
        \/ fresh /\ <<z, t>> = <<copied, Values!Cleared(y)>>
        \/ ~fresh /\ <<z, t>> = <<Values!Cleared(copied), asked>>
    BY <1>1, <1>2, <1>3, <1>4
  <1> QED
    BY <1>5 DEF Values!AfterBoth, copied, asked

LEMMA AfterLists ==
    ASSUME NEW x \in Value, NEW y \in Value, x.list # Missing, y.list # Missing,
           ~Values!Holds(y.list, Null),
           NEW z \in Value, z.class = x.class, z.plain = x.plain, z.sub = x.sub,
           z.list = y.list,
           NEW t \in Value, t.class = y.class, t.plain = y.plain, t.sub = y.sub,
           t.list \in {y.list, <<>>}
    PROVE  <<z, t>> \in Values!AfterBoth(x, y, FALSE)
  <1>1. z = [x EXCEPT !.list = y.list] /\ t = [y EXCEPT !.list = t.list]
    BY DEF Value
  <1>2. PICK l : l = t.list
    OBVIOUS
  <1>3. <<z, t>> = <<[x EXCEPT !.list = y.list], [y EXCEPT !.list = l]>> /\ l \in {y.list, <<>>}
    BY <1>1, <1>2
  <1> QED
    BY <1>3 DEF Values!AfterBoth

-----------------------------------------------------------------------------
(* Steps *)

\* A step keeps the memory sound, and what it loses an object forgot.
Lawful ==
    /\ Inv'
    /\ \A a \in Lost(heap', model') \ Lost(heap, model) :
          \E u \in Objs : Forgets(model[u], model'[u], a)

\* A step of the objects in A is seen in no other.
Apart(A) ==
    \A w \in Objs \ A : ValueOf(heap', model'[w]) = ValueOf(heap, model[w])

LEMMA HealthyAt ==
    ASSUME NEW h, NEW m, Sound(h, m), NEW u \in Objs, m[u] # Dead
    PROVE  Healthy(h, m[u])
  BY DEF Sound, Healthy

LEMMA NothingDone ==
    ASSUME Inv, UNCHANGED <<heap, model>>
    PROVE  Lawful /\ \A A : Apart(A)
  BY DEF Inv, Lawful, Sound, Lost, Apart, ValueOf

LEMMA ObjectStep ==
    ASSUME Inv, NEW u \in Objs, NEW y, model' = [model EXCEPT ![u] = y],
           Replaces(heap, model[u], heap', y)
    PROVE  Lawful /\ Apart({u})
  <1>1. PICK h2, m2 : h2 = heap' /\ m2 = model'
    OBVIOUS
  <1>2. Sound(heap, model) /\ model \in [Objs -> Object \cup {Dead}]
    BY DEF Inv, Sound
  <1>3. m2[u] = y /\ \A w \in Objs \ {u} : m2[w] = model[w]
    BY <1>1, <1>2
  <1>4. m2 \in [Objs -> Object \cup {Dead}]
    BY <1>1, <1>2 DEF Replaces
  <1>5. \A w \in Objs \ {u} : Own(m2[w]) = Own(model[w]) /\ Tidy(m2[w])
    BY <1>2, <1>3 DEF Sound
  <1>6. Replaces(heap, model[u], h2, m2[u])
    BY <1>1, <1>3
  <1>7. /\ Sound(h2, m2)
        /\ \A a \in Lost(h2, m2) \ Lost(heap, model) : Forgets(model[u], m2[u], a)
    BY <1>2, <1>4, <1>5, <1>6, Replaced
  <1>8. Apart({u})
    <2>1. \A v \in Objs \ {u} : Kept(heap, Own(model[v]), h2)
      BY <1>2, <1>6, OthersKept
    <2> QED
      BY <1>1, <1>2, <1>3, <2>1, ValueKept DEF Apart
  <1> QED
    BY <1>1, <1>7, <1>8 DEF Lawful, Inv

LEMMA ConstructIsLawful ==
    ASSUME Inv, NEW u \in Objs, NEW class \in Classes, Construct(u, class)
    PROVE  Lawful /\ Apart({u})
  <1>1. heap \in Heaps /\ heap' = heap /\ model[u] = Dead
    BY DEF Inv, Sound, Construct
  <1>2. Replaces(heap, model[u], heap', NewObject(class))
    BY <1>1, NewReplaces
  <1> QED
    BY <1>2, ObjectStep DEF Construct

LEMMA DestroyIsLawful ==
    ASSUME Inv, NEW u \in Objs, Destroy(u)
    PROVE  Lawful /\ Apart({u})
  <1>1. Healthy(heap, model[u])
    BY HealthyAt DEF Inv, Destroy
  <1>2. Replaces(heap, model[u], heap', Dead)
    BY <1>1, DestroyReplaces DEF Destroy
  <1> QED
    BY <1>2, ObjectStep DEF Destroy

LEMMA ClearIsLawful ==
    ASSUME Inv, NEW u \in Objs, Clear(u)
    PROVE  Lawful /\ Apart({u})
  <1>1. Healthy(heap, model[u])
    BY HealthyAt DEF Inv, Clear
  <1>2. CASE ClearUndefined(model[u])
    BY <1>2, NothingDone DEF Clear, Undefined
  <1>3. CASE ~ClearUndefined(model[u])
    <2>1. heap' = ClearedHeap(heap, model[u]) /\ model' = [model EXCEPT ![u] = Cleared(model[u])]
      BY <1>3 DEF Clear
    <2>2. Replaces(heap, model[u], heap', Cleared(model[u]))
      BY <1>1, <2>1, ClearReplaces, ClearedIs DEF Healthy
    <2> QED
      BY <2>1, <2>2, ObjectStep
  <1> QED
    BY <1>2, <1>3

LEMMA SetPlainIsLawful ==
    ASSUME Inv, NEW u \in Objs, NEW v \in Alike(Default), set_plain(u, v)
    PROVE  Lawful /\ Apart({u})
  <1>1. Healthy(heap, model[u]) /\ heap \in Heaps /\ heap' = heap
    BY HealthyAt DEF Inv, Sound, set_plain
  <1> DEFINE y == [model[u] EXCEPT !.plain = v]
  <1>2. y \in Object /\ y.list = model[u].list /\ y.sub = model[u].sub
    BY <1>1, AlikeInVals DEF Healthy, Object
  <1>3. model' = [model EXCEPT ![u] = y]
    BY DEF set_plain
  <1> HIDE DEF y
  <1>4. Replaces(heap, model[u], heap', y)
    BY <1>1, <1>2, MembersKept
  <1> QED
    BY <1>3, <1>4, ObjectStep

LEMMA SetObjectIsLawful ==
    ASSUME Inv, NEW u \in Objs, model[u] # Dead,
           NEW arg \in (Alike(Default) \cup {Null, model[u].sub}) \ {Missing}, set_object(u, arg)
    PROVE  Lawful /\ Apart({u})
  <1>1. Healthy(heap, model[u])
    BY HealthyAt DEF Inv
  <1>2. CASE arg \in Addr
    BY <1>2, NothingDone DEF set_object, Undefined
  <1>3. CASE arg \notin Addr
    <2>1. arg \in Vals \cup {Null}
      BY <1>1, <1>3, HealthyObject, AlikeInVals
    <2>2. PICK c \in Cloned(Delete(heap, {model[u].sub}), arg) :
              heap' = c.heap /\ model' = [model EXCEPT ![u].sub = c.ptr]
      BY <1>3 DEF set_object
    <2>3. Replaces(heap, model[u], heap', [model[u] EXCEPT !.sub = c.ptr])
      BY <1>1, <2>1, <2>2, SubReplaced
    <2>4. model' = [model EXCEPT ![u] = [model[u] EXCEPT !.sub = c.ptr]]
      BY <2>2
    <2> QED
      BY <2>3, <2>4, ObjectStep
  <1> QED
    BY <1>2, <1>3

LEMMA SetLeafIsLawful ==
    ASSUME Inv, NEW u \in Objs, model[u] # Dead,
           NEW a \in Own(model[u]), NEW v \in Vals, SetLeaf(a, v)
    PROVE  Lawful /\ Apart({u})
  <1>1. Healthy(heap, model[u]) /\ heap \in Heaps /\ model \in [Objs -> Object \cup {Dead}]
    BY HealthyAt DEF Inv, Sound
  <1>2. heap' = [heap EXCEPT ![a] = v] /\ model' = model
    BY DEF SetLeaf
  <1>3. a \in Addr /\ heap[a] # Null /\ v # Null /\ model[u] \in Object
    BY <1>1, OwnInAddr, ValsAssumption DEF Healthy
  <1>4. /\ heap' \in Heaps /\ \A b \in Addr : (heap'[b] = Null) = (heap[b] = Null)
        /\ \A b \in Addr \ Own(model[u]) : heap'[b] = heap[b]
    BY <1>1, <1>2, <1>3 DEF Heaps
  <1>5. Replaces(heap, model[u], heap', model[u])
    BY <1>1, <1>3, <1>4, MembersKept
  <1>6. model' = [model EXCEPT ![u] = model[u]]
    BY <1>1, <1>2
  <1> QED
    BY <1>5, <1>6, ObjectStep

LEMMA JsonIsLawful ==
    ASSUME Inv, NEW u \in Objs, NEW doc, json_to_model(u, doc)
    PROVE  Lawful /\ Apart({u})
  <1>1. Healthy(heap, model[u])
    BY HealthyAt DEF Inv, json_to_model
  <1>2. heap' = Converted(u, doc).heap /\ model' = [model EXCEPT ![u] = Converted(u, doc).obj]
    BY DEF json_to_model
  <1>3. Replaces(heap, model[u], heap', Converted(u, doc).obj)
    BY <1>1, <1>2, JsonReplaces
  <1> QED
    BY <1>2, <1>3, ObjectStep

\* The copies and moves of objects: a copy to u, then the clear of one of them.
LEMMA AssignIsLawful ==
    ASSUME Inv, NEW u \in Objs, NEW w \in Objs, model[w] # Dead,
           NEW x, IF model[u] = Dead THEN x = NewObject(model[w].class) ELSE x = model[u],
           NEW clears \in {"nothing", "source", "target"},
           clears = "source" => u # w, clears = "target" => model[u] # Dead,
           AssignTo(u, x, w, clears)
    PROVE  Lawful /\ Apart({u, w})
  <1>0. PICK y : y = model[w]
    OBVIOUS
  <1>1. PICK h2, m2 : h2 = heap' /\ m2 = model'
    OBVIOUS
  <1>2. Sound(heap, model) /\ heap \in Heaps /\ model \in [Objs -> Object \cup {Dead}]
    BY DEF Inv, Sound
  <1>3. Healthy(heap, y) /\ y.class \in Classes
    BY <1>0, <1>2, HealthyAt, HealthyObject
  <1>4. Healthy(heap, x) /\ (u = w \/ Own(x) \cap Own(y) = {})
    <2>1. CASE model[u] = Dead
      <3>1. x = NewObject(y.class)
        BY <1>0, <2>1
      <3> QED
        BY <1>2, <1>3, <3>1, NewReplaces
    <2>2. CASE model[u] # Dead
      <3>1. x = model[u]
        BY <2>2
      <3> QED
        BY <1>0, <1>2, <2>2, <3>1, HealthyAt DEF Sound
    <2> QED
      BY <2>1, <2>2
  <1>5. CASE AssignUndefined(x, y, u = w)
    BY <1>0, <1>5, NothingDone DEF AssignTo, Undefined
  <1>6. CASE ~AssignUndefined(x, y, u = w)
    <2>1. PICK r \in Assigned(heap, x, y, u = w) :
            /\ h2 = CASE clears = "nothing" -> r.heap
                     [] clears = "source"  -> ClearedHeap(r.heap, Asked(x, y))
                     [] clears = "target"  -> ClearedHeap(r.heap, r.obj)
            /\ m2 = [model EXCEPT
                       ![w] = IF clears = "source" THEN Cleared(y) ELSE Asked(x, y),
                       ![u] = IF clears = "target" THEN Cleared(r.obj) ELSE r.obj]
      BY <1>0, <1>1, <1>6 DEF AssignTo
    <2> DEFINE h1 == r.heap
               m1 == [model EXCEPT ![w] = Asked(x, y), ![u] = r.obj]
    <2>2. /\ Replaces(heap, x, r.heap, r.obj)
          /\ r.obj \in Object /\ r.obj.sub = x.sub
      <3> QED
        BY <1>0, <1>3, <1>4, <1>6, AssignReplaces
    <2>3. Replaces(heap, model[u], r.heap, r.obj)
      <3>1. CASE model[u] = Dead
        <4>1. x = NewObject(y.class) /\ r.obj.sub = NewObject(y.class).sub
          BY <1>0, <2>2, <3>1
        <4> QED
          BY <1>2, <1>3, <2>2, <3>1, <4>1, NewReplaces
      <3>2. CASE model[u] # Dead
        BY <2>2, <3>2
      <3> QED
        BY <3>1, <3>2
    <2>4. /\ Asked(x, y) \in Object /\ Asked(x, y).sub = y.sub
          /\ Own(Asked(x, y)) = Own(y) /\ Tidy(Asked(x, y))
      <3>1. y \in Object /\ Tidy(y)
        BY <1>3 DEF Healthy
      <3>2. CASE x.list # Missing /\ y.list = Missing
        <4>1. Asked(x, y) = [y EXCEPT !.list = <<>>]
          BY <3>2 DEF Asked
        <4>2. /\ Asked(x, y) \in Object /\ Asked(x, y).sub = y.sub /\ Asked(x, y).list = <<>>
          <5>1. <<>> \in Seq(Addr \cup {Null})
            OBVIOUS
          <5> QED
            BY <3>1, <4>1, <5>1 DEF Object
        <4>3. Items(<<>>) = {} /\ Items(y.list) = {} /\ NoRepeats(<<>>) /\ Len(<<>>) <= MaxLen
          BY <3>2, ValsAssumption DEF Items, NoRepeats
        <4>4. y # Dead /\ Asked(x, y) # Dead
          BY <3>1, <4>2, ObjectAssumption
        <4> QED
          BY <3>1, <4>2, <4>3, <4>4 DEF Own, Tidy
      <3>3. CASE ~(x.list # Missing /\ y.list = Missing)
        <4>1. Asked(x, y) = y
          BY <3>1, <3>3 DEF Asked, Object
        <4> QED
          BY <3>1, <4>1
      <3> QED
        BY <3>2, <3>3
    <2>5. /\ m1 \in [Objs -> Object \cup {Dead}]
          /\ m1[u] = r.obj
          /\ u # w => m1[w] = Asked(x, y)
          /\ \A v \in Objs \ {u, w} : m1[v] = model[v]
      BY <1>2, <2>2, <2>4
    <2> HIDE DEF h1, m1
    <2>6. \A v \in Objs \ {u} : Own(m1[v]) = Own(model[v]) /\ Tidy(m1[v])
      <3> SUFFICES ASSUME NEW v \in Objs \ {u}
                   PROVE  Own(m1[v]) = Own(model[v]) /\ Tidy(m1[v])
        OBVIOUS
      <3>1. CASE v = w
        BY <1>0, <2>4, <2>5, <3>1
      <3>2. CASE v # w
        BY <1>2, <2>5, <3>2 DEF Sound
      <3> QED
        BY <3>1, <3>2
    <2>7. /\ Sound(h1, m1)
          /\ \A a \in Lost(h1, m1) \ Lost(heap, model) : Forgets(model[u], r.obj, a)
          /\ \A v \in Objs \ {u} : Kept(heap, Own(model[v]), h1)
      <3>1. Replaces(heap, model[u], h1, m1[u])
        BY <2>3, <2>5 DEF h1
      <3>2. \A v \in Objs \ {u} : Kept(heap, Own(model[v]), h1)
        BY <1>2, <3>1, OthersKept
      <3>3. /\ Sound(h1, m1)
            /\ \A a \in Lost(h1, m1) \ Lost(heap, model) : Forgets(model[u], m1[u], a)
        BY <1>2, <2>5, <2>6, <3>1, Replaced
      <3> QED
        BY <2>5, <3>2, <3>3
    <2>8. Lost(h1, m1) \subseteq Lost(heap, model)
      <3> SUFFICES ASSUME NEW a \in Lost(h1, m1), a \notin Lost(heap, model)
                   PROVE  FALSE
        OBVIOUS
      <3>1. a \in Addr /\ Missing \notin Addr
        BY ValsAssumption DEF Lost
      <3>2. Forgets(model[u], r.obj, a)
        BY <2>7
      <3> QED
        BY <2>2, <3>1, <3>2 DEF Forgets
    <2>9. CASE clears = "nothing"
      <3>1. h2 = h1 /\ m2 = m1
        BY <2>1, <2>9 DEF h1, m1
      <3>2. Apart({u, w})
        BY <1>1, <1>2, <2>5, <2>7, <3>1, ValueKept DEF Apart
      <3> QED
        BY <1>1, <2>7, <2>8, <3>1, <3>2 DEF Lawful, Inv
    <2>10. CASE clears = "source"
      <3>1. u # w /\ h2 = ClearedHeap(h1, m1[w])
        BY <2>1, <2>5, <2>10 DEF h1
      <3>2. /\ m2[w] \in Object /\ m2[w].list = Missing /\ m2[w].sub = Missing
            /\ \A v \in Objs \ {w} : m2[v] = m1[v]
            /\ m2 \in [Objs -> Object \cup {Dead}]
        <4>1. m2 = [model EXCEPT ![w] = Cleared(y), ![u] = r.obj]
          BY <2>1, <2>10
        <4>2. Cleared(y) \in Object /\ Cleared(y).list = Missing /\ Cleared(y).sub = Missing
          BY <1>3, ClearedIs DEF Healthy
        <4> QED
          BY <1>2, <2>2, <2>4, <2>5, <3>1, <4>1, <4>2
      <3>3. m1[w] # Dead /\ Healthy(h1, m1[w])
        <4>1. m1[w] # Dead
          BY <2>4, <2>5, <3>1, ObjectAssumption
        <4> QED
          BY <2>7, <4>1, HealthyAt
      <3>4. Replaces(h1, m1[w], h2, m2[w])
        BY <3>1, <3>2, <3>3, ClearReplaces
      <3>5. \A v \in Objs \ {w} : Own(m2[v]) = Own(m1[v]) /\ Tidy(m2[v])
        BY <2>7, <3>2 DEF Sound
      <3>6. /\ Sound(h2, m2)
            /\ \A a \in Lost(h2, m2) \ Lost(h1, m1) : Forgets(m1[w], m2[w], a)
        BY <2>7, <3>2, <3>4, <3>5, Replaced
      <3>7. \A a \in Lost(h2, m2) \ Lost(heap, model) : Forgets(model[w], m2[w], a)
        BY <1>0, <2>4, <2>5, <2>8, <3>1, <3>6 DEF Forgets
      <3>8. \A v \in Objs \ {w} : Kept(h1, Own(m1[v]), h2)
        BY <2>7, <3>4, OthersKept
      <3>9. Apart({u, w})
        BY <1>1, <1>2, <2>5, <2>7, <3>2, <3>8, ValueKept DEF Apart
      <3> QED
        BY <1>1, <3>6, <3>7, <3>9 DEF Lawful, Inv
    <2>11. CASE clears = "target"
      <3>1. h2 = ClearedHeap(h1, m1[u]) /\ model[u] # Dead /\ x = model[u]
        BY <2>1, <2>5, <2>11 DEF h1
      <3>2. /\ m2[u] \in Object /\ m2[u].list = Missing /\ m2[u].sub = Missing
            /\ \A v \in Objs \ {u} : m2[v] = m1[v]
            /\ m2 \in [Objs -> Object \cup {Dead}]
        <4>1. m2 = [model EXCEPT ![w] = Asked(x, y), ![u] = Cleared(r.obj)]
          BY <2>1, <2>11
        <4>2. /\ Cleared(r.obj) \in Object
              /\ Cleared(r.obj).list = Missing /\ Cleared(r.obj).sub = Missing
          BY <2>2, ClearedIs
        <4> QED
          BY <1>2, <2>4, <2>5, <4>1, <4>2
      <3>3. m1[u] # Dead /\ Healthy(h1, m1[u])
        <4>1. m1[u] # Dead
          BY <2>2, <2>5, ObjectAssumption
        <4> QED
          BY <2>7, <4>1, HealthyAt
      <3>4. Replaces(h1, m1[u], h2, m2[u])
        BY <3>1, <3>2, <3>3, ClearReplaces
      <3>5. \A v \in Objs \ {u} : Own(m2[v]) = Own(m1[v]) /\ Tidy(m2[v])
        BY <2>7, <3>2 DEF Sound
      <3>6. /\ Sound(h2, m2)
            /\ \A a \in Lost(h2, m2) \ Lost(h1, m1) : Forgets(m1[u], m2[u], a)
        BY <2>7, <3>2, <3>4, <3>5, Replaced
      <3>7. \A a \in Lost(h2, m2) \ Lost(heap, model) : Forgets(model[u], m2[u], a)
        BY <2>2, <2>5, <2>8, <3>1, <3>6 DEF Forgets
      <3>8. \A v \in Objs \ {u} : Kept(h1, Own(m1[v]), h2)
        BY <2>7, <3>4, OthersKept
      <3>9. Apart({u, w})
        BY <1>1, <1>2, <2>5, <2>7, <3>2, <3>8, ValueKept DEF Apart
      <3> QED
        BY <1>1, <3>6, <3>7, <3>9 DEF Lawful, Inv
    <2> QED
      BY <2>9, <2>10, <2>11
  <1> QED
    BY <1>5, <1>6

-----------------------------------------------------------------------------
(* Steps of lists *)

\* A clone lives where no remaining item does.
LEMMA ClonedIs ==
    ASSUME NEW h, NEW x, Healthy(h, x), NEW D,
           NEW v \in Vals \cup {Null}, NEW c \in Cloned(Delete(h, D), v)
    PROVE  c.ptr \in Addr \cup {Null} /\ c.ptr \notin Items(x.list) \ D
  <1> DEFINE g == Delete(h, D)
  <1>1. \A a \in Addr : g[a] = IF a \in D THEN Null ELSE h[a]
    BY DEF Delete
  <1>2. Null \notin Addr
    BY ValsAssumption
  <1>3. Items(x.list) \subseteq Addr /\ \A a \in Items(x.list) : h[a] # Null
    <2>1. Items(x.list) \subseteq Own(x)
      BY HealthyObject
    <2> QED
      BY <2>1, OwnInAddr DEF Healthy
  <1> HIDE DEF g
  <1>4. CASE v = Null
    <2>1. c = [heap |-> g, ptr |-> Null]
      BY <1>4 DEF Cloned, g
    <2>2. c.ptr = Null
      BY <2>1
    <2> QED
      BY <1>2, <1>3, <2>2
  <1>5. CASE v # Null
    <2>1. c \in {[heap |-> [g EXCEPT ![b] = v], ptr |-> b] : b \in FreeIn(g)}
      BY <1>5 DEF Cloned, g
    <2>2. PICK b \in FreeIn(g) : c = [heap |-> [g EXCEPT ![b] = v], ptr |-> b]
      BY <2>1, Zenon
    <2>3. c.ptr = b /\ b \in Addr /\ g[b] = Null
      BY <2>2 DEF FreeIn
    <2> QED
      BY <1>1, <1>3, <2>3
  <1> QED
    BY <1>4, <1>5

LEMMA ListStep ==
    ASSUME Inv, NEW u \in Objs, HasList(u),
           NEW D, D \subseteq Items(model[u].list) \cup {Null},
           NEW v \in Vals \cup {Null}, NEW c \in Cloned(Delete(heap, D), v), heap' = c.heap,
           NEW l \in Lists, NoRepeats(l), Len(l) <= MaxLen,
           Items(l) = (Items(model[u].list) \ D) \cup ({c.ptr} \cap Addr),
           SetList(u, l)
    PROVE  Lawful /\ Apart({u})
  <1>1. Healthy(heap, model[u]) /\ model[u].list # Missing
    BY HealthyAt DEF Inv, HasList
  <1>2. Replaces(heap, model[u], heap', [model[u] EXCEPT !.list = l])
    BY <1>1, ItemReplaced
  <1>3. model' = [model EXCEPT ![u] = [model[u] EXCEPT !.list = l]]
    BY DEF SetList
  <1> QED
    BY <1>2, <1>3, ObjectStep

\* The same where nothing is put in.
LEMMA DeletingStep ==
    ASSUME Inv, NEW u \in Objs, HasList(u),
           NEW D, D \subseteq Items(model[u].list) \cup {Null}, heap' = Delete(heap, D),
           NEW l \in Lists, NoRepeats(l), Len(l) <= MaxLen,
           Items(l) = Items(model[u].list) \ D, SetList(u, l)
    PROVE  Lawful /\ Apart({u})
  <1> DEFINE c == [heap |-> Delete(heap, D), ptr |-> Null]
  <1>1. c \in Cloned(Delete(heap, D), Null)
    BY DEF Cloned
  <1>2. c.heap = Delete(heap, D) /\ c.ptr = Null /\ Null \notin Addr
    BY ValsAssumption
  <1> HIDE DEF c
  <1>3. Items(l) = (Items(model[u].list) \ D) \cup ({c.ptr} \cap Addr)
    BY <1>2
  <1>4. PICK k : k = c
    OBVIOUS
  <1> QED
    BY <1>1, <1>2, <1>3, <1>4, ListStep

LEMMA ListAt ==
    ASSUME Inv, NEW u \in Objs, HasList(u)
    PROVE  /\ Healthy(heap, model[u]) /\ heap \in Heaps
           /\ model[u].list \in Lists /\ NoRepeats(model[u].list)
           /\ Len(model[u].list) \in Nat /\ Len(model[u].list) <= MaxLen
           /\ DOMAIN model[u].list = 1..Len(model[u].list)
  <1>1. Healthy(heap, model[u]) /\ heap \in Heaps
    BY HealthyAt DEF Inv, Sound, HasList
  <1>2. /\ model[u].list \in Lists /\ NoRepeats(model[u].list)
        /\ Len(model[u].list) <= MaxLen
    BY <1>1, HealthyObject DEF HasList
  <1> QED
    BY <1>1, <1>2 DEF Lists

LEMMA PushIsLawful ==
    ASSUME Inv, NEW u \in Objs, HasList(u), NEW v \in Vals \cup {Null},
           push_back(u, v) \/ push_front(u, v)
    PROVE  Lawful /\ Apart({u})
  <1>1. PICK l : l = model[u].list
    OBVIOUS
  <1>2. /\ Healthy(heap, model[u]) /\ heap \in Heaps /\ l \in Lists /\ NoRepeats(l)
        /\ Len(l) \in Nat /\ Len(l) < MaxLen
    BY <1>1, ListAt DEF push_back, push_front
  <1>3. Delete(heap, {}) = heap
    <2>1. heap = [a \in Addr |-> heap[a]]
      BY <1>2 DEF Heaps
    <2> QED
      BY <2>1 DEF Delete
  <1>4. PICK c \in Cloned(heap, v) :
            heap' = c.heap /\ (SetList(u, Append(l, c.ptr)) \/ SetList(u, <<c.ptr>> \o l))
    BY <1>1 DEF push_back, push_front
  <1>5. c \in Cloned(Delete(heap, {}), v)
    BY <1>3
  <1>6. c.ptr \in Addr \cup {Null} /\ c.ptr \notin Items(l)
    BY <1>1, <1>2, <1>5, ClonedIs
  <1>7. CASE SetList(u, Append(l, c.ptr))
    <2>1. PICK k : k = Append(l, c.ptr)
      OBVIOUS
    <2>2. Len(k) = Len(l) + 1
      BY <1>2, <1>6, <2>1 DEF Lists
    <2>3. /\ k \in Lists /\ NoRepeats(k) /\ Len(k) <= MaxLen
          /\ Items(k) = Items(l) \cup ({c.ptr} \cap Addr)
      BY <1>2, <1>6, <2>1, <2>2, ItemsAppend, ValsAssumption
    <2>4. Items(k) = (Items(model[u].list) \ {}) \cup ({c.ptr} \cap Addr)
      BY <1>1, <2>3
    <2> QED
      BY <1>4, <1>5, <1>7, <2>1, <2>3, <2>4, ListStep
  <1>8. CASE SetList(u, <<c.ptr>> \o l)
    <2>1. PICK k : k = <<c.ptr>> \o l
      OBVIOUS
    <2>2. Len(k) = Len(l) + 1
      BY <1>2, <1>6, <2>1, ItemsPrepend
    <2>3. /\ k \in Lists /\ NoRepeats(k) /\ Len(k) <= MaxLen
          /\ Items(k) = Items(l) \cup ({c.ptr} \cap Addr)
      BY <1>2, <1>6, <2>1, <2>2, ItemsPrepend, ValsAssumption
    <2>4. Items(k) = (Items(model[u].list) \ {}) \cup ({c.ptr} \cap Addr)
      BY <1>1, <2>3
    <2> QED
      BY <1>4, <1>5, <1>8, <2>1, <2>3, <2>4, ListStep
  <1> QED
    BY <1>4, <1>7, <1>8

LEMMA PopIsLawful ==
    ASSUME Inv, NEW u \in Objs, HasList(u), pop_front(u) \/ pop_back(u)
    PROVE  Lawful /\ Apart({u})
  <1>1. PICK l : l = model[u].list
    OBVIOUS
  <1>2. /\ l \in Lists /\ NoRepeats(l) /\ Len(l) \in Nat /\ Len(l) <= MaxLen
    BY <1>1, ListAt
  <1>3. CASE Undefined
    BY <1>3, NothingDone DEF Undefined
  <1>4. CASE l # <<>> /\ heap' = Delete(heap, {Head(l)}) /\ SetList(u, Tail(l))
    <2>1. /\ Tail(l) \in Lists /\ NoRepeats(Tail(l)) /\ Len(Tail(l)) = Len(l) - 1
          /\ Items(Tail(l)) = Items(l) \ {Head(l)}
      BY <1>2, <1>4, ItemsTail
    <2>2. {Head(l)} \subseteq Items(l) \cup {Null}
      <3>1. Head(l) = l[1] /\ 1 \in 1..Len(l)
        BY <1>2, <1>4 DEF Lists
      <3> QED
        BY <1>2, <3>1, ItemsOf
    <2>3. PICK k : k = Tail(l)
      OBVIOUS
    <2>4. Len(k) <= MaxLen
      BY <1>2, <2>1, <2>3, ValsAssumption
    <2> QED
      BY <1>1, <1>4, <2>1, <2>2, <2>3, <2>4, DeletingStep
  <1>5. CASE /\ Len(l) # 0 /\ heap' = Delete(heap, {l[Len(l)]})
             /\ SetList(u, SubSeq(l, 1, Len(l) - 1))
    <2>1. PICK k : k = SubSeq(l, 1, Len(l) - 1)
      OBVIOUS
    <2>2. /\ k \in Lists /\ NoRepeats(k) /\ Len(k) = Len(l) - 1
          /\ Items(k) = Items(l) \ {l[Len(l)]}
      BY <1>2, <1>5, <2>1, ItemsFront
    <2>3. {l[Len(l)]} \subseteq Items(l) \cup {Null}
      <3>1. Len(l) \in 1..Len(l)
        BY <1>2, <1>5
      <3> QED
        BY <1>2, <3>1, ItemsOf
    <2>4. Len(k) <= MaxLen
      BY <1>2, <2>2, ValsAssumption
    <2> QED
      BY <1>1, <1>5, <2>1, <2>2, <2>3, <2>4, DeletingStep
  <1> QED
    BY <1>1, <1>3, <1>4, <1>5 DEF pop_front, pop_back

LEMMA SetIsLawful ==
    ASSUME Inv, NEW u \in Objs, HasList(u), NEW i \in DOMAIN model[u].list,
           NEW arg \in Vals \cup {Null, model[u].list[i]}, set(u, i, arg)
    PROVE  Lawful /\ Apart({u})
  <1>1. PICK l : l = model[u].list
    OBVIOUS
  <1>2. /\ Healthy(heap, model[u]) /\ l \in Lists /\ NoRepeats(l)
        /\ Len(l) \in Nat /\ Len(l) <= MaxLen /\ i \in 1..Len(l)
    BY <1>1, ListAt
  <1>3. CASE arg \in Addr
    BY <1>3, NothingDone DEF set, Undefined
  <1>4. CASE arg \notin Addr
    <2>1. l[i] \in Items(l) \cup {Null} /\ l[i] \in Addr \cup {Null}
      BY <1>2, ItemsOf
    <2>2. arg \in Vals \cup {Null}
      BY <1>1, <1>4, <2>1
    <2>3. PICK c \in Cloned(Delete(heap, {l[i]}), arg) :
              heap' = c.heap /\ SetList(u, [l EXCEPT ![i] = c.ptr])
      BY <1>1, <1>4 DEF set
    <2>4. c.ptr \in Addr \cup {Null} /\ c.ptr \notin Items(l) \ {l[i]}
      BY <1>1, <1>2, <2>2, ClonedIs
    <2>5. PICK k : k = [l EXCEPT ![i] = c.ptr]
      OBVIOUS
    <2>6. /\ k \in Lists /\ NoRepeats(k) /\ Len(k) = Len(l)
          /\ Items(k) = (Items(l) \ {l[i]}) \cup ({c.ptr} \cap Addr)
      BY <1>2, <2>4, <2>5, ItemsExcept
    <2>7. PICK D : D = {l[i]}
      OBVIOUS
    <2>8. /\ D \subseteq Items(model[u].list) \cup {Null}
          /\ c \in Cloned(Delete(heap, D), arg)
          /\ Len(k) <= MaxLen
          /\ Items(k) = (Items(model[u].list) \ D) \cup ({c.ptr} \cap Addr)
      BY <1>1, <1>2, <2>1, <2>3, <2>6, <2>7
    <2> QED
      BY <2>2, <2>3, <2>5, <2>6, <2>8, ListStep
  <1> QED
    BY <1>3, <1>4

LEMMA ListClearIsLawful ==
    ASSUME Inv, NEW u \in Objs, HasList(u), list_clear(u)
    PROVE  Lawful /\ Apart({u})
  <1>1. <<>> \in Lists /\ NoRepeats(<<>>) /\ Len(<<>>) <= MaxLen /\ Items(<<>>) = {}
    BY ValsAssumption DEF Lists, NoRepeats, Items
  <1>2. Items(<<>>) = Items(model[u].list) \ Items(model[u].list)
    BY <1>1
  <1> QED
    BY <1>1, <1>2, DeletingStep DEF list_clear

\* A list is copied to another; a move then deletes the source's items.
LEMMA ListAssignIsLawful ==
    ASSUME Inv, NEW u \in Objs, HasList(u), NEW w \in Objs, HasList(w),
           NEW moved \in BOOLEAN, list_assign(u, w, moved)
    PROVE  Lawful /\ Apart({u, w})
  <1>1. PICK h2, m2 : h2 = heap' /\ m2 = model'
    OBVIOUS
  <1>2. PICK src : src = IF u = w THEN <<>> ELSE model[w].list
    OBVIOUS
  <1>3. PICK x : x = model[u]
    OBVIOUS
  <1>4. /\ Sound(heap, model) /\ heap \in Heaps /\ model \in [Objs -> Object \cup {Dead}]
        /\ Healthy(heap, x) /\ x \in Object /\ x.list # Missing
        /\ Missing \notin Addr /\ Null \notin Addr
    BY <1>3, HealthyAt, ValsAssumption DEF Inv, Sound, Healthy, HasList
  <1>5. /\ src \in Lists /\ NoRepeats(src) /\ Len(src) \in Nat /\ Len(src) <= MaxLen
        /\ DOMAIN src = 1..Len(src)
    <2>1. CASE u = w
      BY <1>2, <2>1, ValsAssumption DEF Lists, NoRepeats
    <2>2. CASE u # w
      BY <1>2, <2>2, ListAt
    <2> QED
      BY <2>1, <2>2
  <1>6. CASE \E i \in DOMAIN src : src[i] = Null
    BY <1>2, <1>6, NothingDone DEF list_assign, Undefined
  <1>7. CASE ~\E i \in DOMAIN src : src[i] = Null
    <2> DEFINE g == Delete(heap, Items(x.list))
               vals(s) == [i \in DOMAIN s |-> g[src[i]]]
    <2>1. PICK s \in Allocated(g, Len(src)) :
            /\ h2 = IF moved THEN Delete(Stored(g, s, vals(s)), Items(src)) ELSE Stored(g, s, vals(s))
            /\ m2 = [model EXCEPT ![w].list = IF moved THEN <<>> ELSE @, ![u].list = s]
      BY <1>1, <1>2, <1>3, <1>7, SMTT(20) DEF list_assign
    <2>2. \A i \in 1..Len(src) : src[i] \in Addr \ Items(x.list) /\ heap[src[i]] # Null
      <3>1. CASE u = w
        BY <1>2, <3>1
      <3>2. CASE u # w
        <4>1. \A i \in 1..Len(src) : src[i] \in Items(src) /\ src[i] \in Addr
          BY <1>5, <1>7, ItemsOf
        <4>2. Healthy(heap, model[w]) /\ src = model[w].list
          BY <1>2, <3>2, ListAt
        <4>3. Items(src) \subseteq Own(model[w]) /\ \A a \in Items(src) : heap[a] # Null
          BY <4>2, HealthyObject
        <4>4. Items(x.list) \subseteq Own(x)
          BY <1>4, HealthyObject
        <4>5. Own(x) \cap Own(model[w]) = {}
          BY <1>3, <1>4, <3>2 DEF Sound
        <4> QED
          BY <4>1, <4>3, <4>4, <4>5
      <3> QED
        BY <3>1, <3>2
    <2>3. s \in [1..Len(src) -> Addr]
      BY DEF Allocated, FreeIn
    <2>4. s \in Lists
      BY <1>5, <2>3 DEF Lists
    <2>5. \A i \in 1..Len(src) : vals(s)[i] \in Vals
      <3> SUFFICES ASSUME NEW i \in 1..Len(src)
                   PROVE  vals(s)[i] \in Vals
        OBVIOUS
      <3>1. vals(s)[i] = g[src[i]]
        BY <2>3
      <3>2. g[src[i]] = heap[src[i]]
        BY <2>2 DEF Delete
      <3>3. heap[src[i]] \in Vals
        BY <1>4, <2>2 DEF Heaps
      <3> QED
        BY <3>1, <3>2, <3>3
    <2>6. PICK y : y = [x EXCEPT !.list = s]
      OBVIOUS
    <2>7. y \in Object /\ y.sub = x.sub /\ y.list = s
      BY <1>4, <2>4, <2>6 DEF Object, Lists
    <2> HIDE DEF vals
    <2>8. PICK h1 : h1 = Stored(g, s, vals(s))
      OBVIOUS
    <2>9. /\ Replaces(heap, x, h1, y)
          /\ Written(h1, s, Len(src), vals(s))
          /\ SameLeaf(heap, h1, x.sub)
      BY <1>4, <1>5, <2>5, <2>7, <2>8, ListCopied
    <2> HIDE DEF g
    <2>10. PICK m1 : m1 = [model EXCEPT ![u] = y]
      OBVIOUS
    <2>11. /\ m1 \in [Objs -> Object \cup {Dead}] /\ m1[u] = y
           /\ \A v \in Objs \ {u} : m1[v] = model[v]
      BY <1>4, <2>7, <2>10
    <2>12. \A v \in Objs \ {u} : Own(m1[v]) = Own(model[v]) /\ Tidy(m1[v])
      BY <1>4, <2>11 DEF Sound
    <2>13. /\ Sound(h1, m1)
           /\ \A a \in Lost(h1, m1) \ Lost(heap, model) : Forgets(model[u], m1[u], a)
      BY <1>3, <1>4, <2>9, <2>11, <2>12, Replaced
    <2>14. Lost(h1, m1) \subseteq Lost(heap, model)
      <3> SUFFICES ASSUME NEW a \in Lost(h1, m1), a \notin Lost(heap, model)
                   PROVE  FALSE
        OBVIOUS
      <3>1. a \in Addr /\ Forgets(x, y, a)
        BY <1>3, <2>11, <2>13 DEF Lost
      <3> QED
        BY <1>4, <2>7, <3>1 DEF Forgets
    <2>15. /\ \A v \in Objs \ {u} : Kept(heap, Own(model[v]), h1)
           /\ h2 = h1 /\ m2 = m1 => Apart({u, w})
      <3>1. \A v \in Objs \ {u} : Kept(heap, Own(model[v]), h1)
        BY <1>3, <1>4, <2>9, OthersKept
      <3> QED
        BY <1>1, <1>4, <2>11, <3>1, ValueKept DEF Apart
    <2>16. CASE ~moved
      <3>1. h2 = h1
        BY <2>1, <2>8, <2>16
      <3>2. m2 = m1
        <4>1. model[w] \in Object
          BY <1>4 DEF HasList
        <4>2. [model[w] EXCEPT !.list = model[w].list] = model[w]
          BY <4>1 DEF Object
        <4>3. [model EXCEPT ![w].list = IF moved THEN <<>> ELSE @] = model
          BY <1>4, <2>16, <4>2
        <4>4. m2 = [[model EXCEPT ![w].list = IF moved THEN <<>> ELSE @] EXCEPT ![u].list = s]
          BY <2>1
        <4> QED
          BY <1>3, <2>6, <2>10, <4>3, <4>4
      <3> QED
        BY <1>1, <2>13, <2>14, <2>15, <3>1, <3>2 DEF Lawful, Inv
    <2>17. CASE moved /\ u = w
      <3>1. Items(src) = {}
        BY <1>2, <2>17 DEF Items
      <3>2. h1 \in Heaps
        BY <2>9 DEF Replaces
      <3>3. h2 = h1
        <4>1. h1 = [a \in Addr |-> h1[a]]
          BY <3>2 DEF Heaps
        <4>2. h2 = Delete(h1, {})
          BY <2>1, <2>8, <2>17, <3>1
        <4> QED
          BY <4>1, <4>2 DEF Delete
      <3>4. m2 = m1
        BY <1>3, <1>4, <2>1, <2>6, <2>10, <2>17
      <3> QED
        BY <1>1, <2>13, <2>14, <2>15, <3>3, <3>4 DEF Lawful, Inv
    <2>18. CASE moved /\ u # w
      <3>1. m1[w] = model[w] /\ m1[w] # Dead /\ m1[w].list = src /\ src # Missing
        BY <1>2, <2>11, <2>18 DEF HasList
      <3>2. Healthy(h1, m1[w])
        BY <2>13, <3>1, HealthyAt
      <3>3. PICK D : D = Items(src)
        OBVIOUS
      <3>4. PICK c : c = [heap |-> Delete(h1, D), ptr |-> Null]
        OBVIOUS
      <3>5. /\ c \in Cloned(Delete(h1, D), Null)
            /\ c.heap = Delete(h1, D) /\ c.ptr = Null
        BY <3>4 DEF Cloned
      <3>6. PICK l : l = <<>>
        OBVIOUS
      <3>7. /\ l \in Lists /\ NoRepeats(l) /\ Len(l) <= MaxLen
            /\ Items(l) = (Items(m1[w].list) \ D) \cup ({c.ptr} \cap Addr)
        BY <1>4, <3>1, <3>3, <3>5, <3>6, ValsAssumption DEF Lists, NoRepeats, Items
      <3>8. Replaces(h1, m1[w], c.heap, [m1[w] EXCEPT !.list = l])
        BY <3>1, <3>2, <3>3, <3>5, <3>7, ItemReplaced
      <3>9. h2 = c.heap
        BY <2>1, <2>8, <2>18, <3>3, <3>5
      <3>10. /\ m2[w] = [m1[w] EXCEPT !.list = l]
             /\ m2 \in [Objs -> Object \cup {Dead}]
             /\ \A v \in Objs \ {w} : m2[v] = m1[v]
        <4>1. m2 = [m1 EXCEPT ![w] = [m1[w] EXCEPT !.list = l]]
          <5>1. PICK z : z = [model[w] EXCEPT !.list = l]
            OBVIOUS
          <5>2. m2 = [model EXCEPT ![w] = z, ![u] = y]
            BY <1>3, <1>4, <2>1, <2>6, <2>18, <3>6, <5>1
          <5>3. [m1 EXCEPT ![w] = z] = [model EXCEPT ![w] = z, ![u] = y]
            BY <1>4, <2>10, <2>18
          <5> QED
            BY <3>1, <5>1, <5>2, <5>3
        <4>2. [m1[w] EXCEPT !.list = l] \in Object \cup {Dead}
          BY <3>8 DEF Replaces
        <4> QED
          BY <2>11, <4>1, <4>2
      <3>11. \A v \in Objs \ {w} : Own(m2[v]) = Own(m1[v]) /\ Tidy(m2[v])
        BY <2>13, <3>10 DEF Sound
      <3>12. /\ Sound(h2, m2)
             /\ \A a \in Lost(h2, m2) \ Lost(h1, m1) : Forgets(m1[w], m2[w], a)
        BY <2>13, <3>8, <3>9, <3>10, <3>11, Replaced
      <3>13. \A a \in Lost(h2, m2) \ Lost(heap, model) : Forgets(model[w], m2[w], a)
        BY <2>14, <3>1, <3>12
      <3>14. \A v \in Objs \ {w} : Kept(h1, Own(m1[v]), h2)
        BY <2>13, <3>8, <3>9, OthersKept
      <3>15. Apart({u, w})
        BY <1>1, <1>4, <2>11, <2>15, <3>10, <3>14, ValueKept DEF Apart
      <3> QED
        BY <1>1, <3>12, <3>13, <3>15 DEF Lawful, Inv
    <2> QED
      BY <2>16, <2>17, <2>18
  <1> QED
    BY <1>6, <1>7

LEMMA CopyIsLawful ==
    ASSUME Inv, NEW u \in Objs, NEW w \in Objs,
           \/ CopyConstruct(u, w) \/ MoveConstruct(u, w)
           \/ CopyAssign(u, w) \/ MoveAssign(u, w)
    PROVE  Lawful
  <1>1. CASE CopyConstruct(u, w)
    BY <1>1, AssignIsLawful DEF CopyConstruct
  <1>2. CASE MoveConstruct(u, w)
    BY <1>2, AssignIsLawful DEF MoveConstruct
  <1>3. CASE CopyAssign(u, w)
    BY <1>3, AssignIsLawful DEF CopyAssign, SameClass
  <1>4. CASE MoveAssign(u, w)
    BY <1>4, AssignIsLawful DEF MoveAssign, SameClass
  <1> QED
    BY <1>1, <1>2, <1>3, <1>4

LEMMA ObjectOpIsLawful ==
    ASSUME Inv, NEW u \in Objs, ObjectOp(u)
    PROVE  Lawful
  <1>1. CASE \E class \in Classes : Construct(u, class)
    BY <1>1, ConstructIsLawful
  <1>2. CASE Destroy(u)
    BY <1>2, DestroyIsLawful
  <1>3. CASE Clear(u)
    BY <1>3, ClearIsLawful
  <1>4. CASE \E v \in Alike(Default) : set_plain(u, v)
    BY <1>4, SetPlainIsLawful
  <1>5. CASE \E w \in Objs : \/ CopyConstruct(u, w) \/ MoveConstruct(u, w)
                             \/ CopyAssign(u, w) \/ MoveAssign(u, w)
    BY <1>5, CopyIsLawful
  <1>6. CASE /\ model[u] # Dead /\ model[u].class = "composite"
             /\ \E arg \in (Alike(Default) \cup {Null, model[u].sub}) \ {Missing} : set_object(u, arg)
    BY <1>6, SetObjectIsLawful
  <1>7. CASE /\ model[u] # Dead /\ model[u].sub \in Addr
             /\ \E v \in Alike(Default) : SetLeaf(model[u].sub, v)
    <2>1. model[u].sub \in Own(model[u])
      BY <1>7 DEF Own
    <2>2. PICK v \in Vals : SetLeaf(model[u].sub, v)
      BY <1>7, AlikeInVals
    <2>3. PICK a : a = model[u].sub
      OBVIOUS
    <2> QED
      BY <1>7, <2>1, <2>2, <2>3, SetLeafIsLawful
  <1>8. CASE \E doc \in Docs \cup {model_to_json(w) : w \in {o \in Objs : model[o] # Dead}} :
                json_to_model(u, doc)
    BY <1>8, JsonIsLawful
  <1> QED
    BY <1>1, <1>2, <1>3, <1>4, <1>5, <1>6, <1>7, <1>8 DEF ObjectOp

LEMMA ListOpIsLawful ==
    ASSUME Inv, NEW u \in Objs, ListOp(u)
    PROVE  Lawful
  <1>1. HasList(u)
    BY DEF ListOp
  <1>2. CASE \E v \in Vals \cup {Null} : push_back(u, v) \/ push_front(u, v)
    BY <1>1, <1>2, PushIsLawful
  <1>3. CASE pop_front(u) \/ pop_back(u)
    BY <1>1, <1>3, PopIsLawful
  <1>4. CASE list_clear(u)
    BY <1>1, <1>4, ListClearIsLawful
  <1>5. CASE \E i \in DOMAIN model[u].list :
                \E arg \in Vals \cup {Null, model[u].list[i]} : set(u, i, arg)
    BY <1>1, <1>5, SetIsLawful
  <1>6. CASE \E i \in DOMAIN model[u].list :
                /\ model[u].list[i] # Null
                /\ \E v \in Alike(heap[model[u].list[i]]) : SetLeaf(model[u].list[i], v)
    <2>1. PICK i \in DOMAIN model[u].list, v \in Vals :
              model[u].list[i] # Null /\ SetLeaf(model[u].list[i], v)
      BY <1>6, AlikeInVals
    <2>2. PICK a : a = model[u].list[i]
      OBVIOUS
    <2>3. a \in Items(model[u].list)
      BY <1>1, <2>1, <2>2, ListAt, ItemsOf
    <2>4. a \in Own(model[u]) /\ model[u] # Dead
      BY <1>1, <2>3 DEF Own, HasList
    <2> QED
      BY <2>1, <2>2, <2>4, SetLeafIsLawful
  <1>7. CASE \E w \in Objs, moved \in BOOLEAN : HasList(w) /\ list_assign(u, w, moved)
    BY <1>1, <1>7, ListAssignIsLawful
  <1> QED
    BY <1>2, <1>3, <1>4, <1>5, <1>6, <1>7 DEF ListOp

LEMMA StepIsLawful == Inv /\ [Next]_vars => Lawful
  BY NothingDone, ObjectOpIsLawful, ListOpIsLawful DEF Next, vars

LEMMA InvAlways == Spec => []Inv
  <1>1. Init => Inv
    <2> SUFFICES ASSUME Init
                 PROVE  Inv
      OBVIOUS
    <2>1. \A u \in Objs : model[u] = Dead
      BY DEF Init
    <2>2. \A u \in Objs : Own(model[u]) = {} /\ Tidy(model[u])
      BY <2>1 DEF Own, Tidy
    <2> QED
      BY <2>2 DEF Init, Inv, Sound, Heaps
  <1>2. Inv /\ [Next]_vars => Inv'
    BY StepIsLawful DEF Lawful
  <1> QED
    BY <1>1, <1>2, PTL DEF Spec

-----------------------------------------------------------------------------
(* Steps of values *)

\* The documents a conversion may read, those written by objects included.
AllDocs == Docs \cup {model_to_json(w) : w \in {o \in Objs : model[o] # Dead}}

LEMMA ValueAt ==
    ASSUME Inv, NEW u \in Objs, model[u] # Dead, NEW z, z = ValueOf(heap, model[u])
    PROVE  /\ Healthy(heap, model[u]) /\ z \in Value /\ z # Dead
           /\ z.class = model[u].class /\ z.plain = model[u].plain
           /\ z.sub = Leaf(heap, model[u].sub) /\ z.list = ListValue(heap, model[u].list)
           /\ z.sub = Missing <=> model[u].sub = Missing
           /\ z.sub = Null <=> model[u].sub = Null
           /\ model[u].sub \in Addr => z.sub \in Vals /\ z.sub = heap[model[u].sub]
           /\ z.list = Missing <=> model[u].list = Missing
  <1>1. Healthy(heap, model[u])
    BY HealthyAt DEF Inv
  <1> QED
    BY <1>1, ValueFacts

LEMMA DeadValue ==
    ASSUME Inv
    PROVE  \A u \in Objs : ValueOf(heap, model[u]) = Dead <=> model[u] = Dead
  <1> SUFFICES ASSUME NEW u \in Objs
               PROVE  ValueOf(heap, model[u]) = Dead <=> model[u] = Dead
    OBVIOUS
  <1>1. CASE model[u] = Dead
    BY <1>1 DEF ValueOf
  <1>2. CASE model[u] # Dead
    BY <1>2, ValueAt
  <1> QED
    BY <1>1, <1>2

LEMMA WrittenValue ==
    ASSUME Inv, NEW w \in Objs, model[w] # Dead
    PROVE  Values!WriteJson(ValueOf(heap, model[w])) = model_to_json(w)
  <1>1. PICK z : z = ValueOf(heap, model[w])
    OBVIOUS
  <1>2. PICK x : x = model[w]
    OBVIOUS
  <1>3. /\ Healthy(heap, x) /\ x \in Object
        /\ z.plain = x.plain
        /\ z.sub = Leaf(heap, x.sub) /\ z.list = ListValue(heap, x.list)
        /\ z.sub = Missing <=> x.sub = Missing
        /\ z.list = Missing <=> x.list = Missing
        /\ x.list \in Lists \cup {Missing} /\ x.sub \in Addr \cup {Null, Missing}
    BY <1>1, <1>2, ValueAt, HealthyObject, ZenonT(20) DEF Healthy
  <1>4. PICK k : k = [i \in DOMAIN x.list |-> IF x.list[i] = Null THEN Null ELSE heap[x.list[i]]]
    OBVIOUS
  <1>5. x.list # Missing => z.list = k
    <2> SUFFICES ASSUME x.list # Missing
                 PROVE  z.list = k
      OBVIOUS
    <2>1. x.list \in Lists /\ DOMAIN x.list = 1..Len(x.list)
      BY <1>3 DEF Lists
    <2>2. \A i \in 1..Len(x.list) :
             Leaf(heap, x.list[i]) = IF x.list[i] = Null THEN Null ELSE heap[x.list[i]]
      BY <2>1, ItemsOf, ValsAssumption DEF Leaf
    <2> QED
      BY <1>3, <1>4, <2>1, <2>2 DEF ListValue
  <1>6. (IF z.sub = Missing THEN Null ELSE z.sub) = IF x.sub \in Addr THEN heap[x.sub] ELSE Null
    BY <1>3, ValsAssumption DEF Leaf
  <1>7. (IF z.list = Missing THEN <<>> ELSE z.list) = IF x.list = Missing THEN <<>> ELSE k
    BY <1>3, <1>5
  <1>8. model_to_json(w) =
           [plain |-> x.plain, isArray |-> x.list # Missing,
            list |-> IF x.list = Missing THEN <<>> ELSE k,
            sub |-> IF x.sub \in Addr THEN heap[x.sub] ELSE Null]
    BY <1>2, <1>4 DEF model_to_json
  <1>9. Values!WriteJson(z) =
           [plain |-> z.plain, isArray |-> z.list # Missing,
            list |-> IF z.list = Missing THEN <<>> ELSE z.list,
            sub |-> IF z.sub = Missing THEN Null ELSE z.sub]
    BY DEF Values!WriteJson, Values!ListOf
  <1>10. (z.list # Missing) = (x.list # Missing)
    BY <1>3
  <1> QED
    BY <1>1, <1>3, <1>6, <1>7, <1>8, <1>9, <1>10

LEMMA OneObjectStep ==
    ASSUME Inv, NEW u \in Objs, model[u] # Dead, Apart({u}), wrong' = wrong,
           Values!After(ValueOf(heap, model[u]), ValueOf(heap', model'[u]), AllDocs)
    PROVE  Values!AbsNext
  <1> DEFINE V == [o \in Objs |-> ValueOf(heap, model[o])]
             W == [o \in Objs |-> ValueOf(heap', model'[o])]
  <1>1. AllDocs = Docs \cup {Values!WriteJson(V[w]) : w \in {o \in Objs : V[o] # Dead}}
    <2>1. \A o \in Objs : V[o] # Dead <=> model[o] # Dead
      BY DeadValue
    <2>2. \A w \in Objs : model[w] # Dead => Values!WriteJson(V[w]) = model_to_json(w)
      BY WrittenValue
    <2> HIDE DEF V
    <2> QED
      BY <2>1, <2>2 DEF AllDocs
  <1>2. V[u] # Dead
    BY DeadValue
  <1>3. DOMAIN W = Objs /\ \A o \in Objs \ {u} : W[o] = V[o]
    BY DEF Apart
  <1>4. Values!After(V[u], W[u], AllDocs)
    OBVIOUS
  <1>5. Values!OneObject(u)
    BY <1>1, <1>2, <1>3, <1>4 DEF Values!OneObject, Values!Others
  <1> QED
    BY <1>5 DEF Values!AbsNext

LEMMA NewStep ==
    ASSUME Inv, NEW u \in Objs, model[u] = Dead, Apart({u}), wrong' = wrong,
           NEW class \in Classes, ValueOf(heap', model'[u]) = NewObject(class)
    PROVE  Values!AbsNext
  <1> DEFINE V == [o \in Objs |-> ValueOf(heap, model[o])]
             W == [o \in Objs |-> ValueOf(heap', model'[o])]
  <1>1. V[u] = Dead
    BY DeadValue
  <1>2. DOMAIN W = Objs /\ \A o \in Objs \ {u} : W[o] = V[o]
    BY DEF Apart
  <1>3. W[u] = Values!NewObject(class)
    BY DEF Values!NewObject, NewObject
  <1>4. class \in Values!Classes
    BY DEF Values!Classes, Classes
  <1>5. Values!New(u)
    BY <1>1, <1>2, <1>3, <1>4 DEF Values!New, Values!Others
  <1> QED
    BY <1>5 DEF Values!AbsNext

\* The object a copy goes to: a new one, or one there is.
LEMMA TwoObjectsStep ==
    ASSUME Inv, NEW u \in Objs, NEW w \in Objs, u # w, model[w] # Dead,
           Apart({u, w}), wrong' = wrong,
           NEW fresh, fresh = (model[u] = Dead),
           NEW x, x = IF fresh THEN NewObject(model[w].class) ELSE ValueOf(heap, model[u]),
           <<ValueOf(heap', model'[u]), ValueOf(heap', model'[w])>>
              \in Values!AfterBoth(x, ValueOf(heap, model[w]), fresh)
    PROVE  Values!AbsNext
  <1> DEFINE V == [o \in Objs |-> ValueOf(heap, model[o])]
             W == [o \in Objs |-> ValueOf(heap', model'[o])]
  <1>1. V[w] # Dead /\ V[w].class = model[w].class /\ fresh = (V[u] = Dead)
    BY DeadValue, ValueAt
  <1>2. DOMAIN W = Objs /\ \A o \in Objs \ {u, w} : W[o] = V[o]
    BY DEF Apart
  <1>3. x = IF V[u] = Dead THEN Values!NewObject(V[w].class) ELSE V[u]
    BY <1>1 DEF Values!NewObject, NewObject
  <1>4. <<W[u], W[w]>> \in Values!AfterBoth(x, V[w], V[u] = Dead)
    BY <1>1
  <1>5. Values!TwoObjects(u, w)
    BY <1>1, <1>2, <1>3, <1>4 DEF Values!TwoObjects, Values!Others
  <1> QED
    BY <1>5 DEF Values!AbsNext

LEMMA FailStep ==
    ASSUME Inv, ~wrong, Undefined, NEW u \in Objs, model[u] # Dead,
           Values!MayFail(ValueOf(heap, model[u]))
    PROVE  Values!AbsNext
  <1> DEFINE V == [o \in Objs |-> ValueOf(heap, model[o])]
  <1>1. V[u] # Dead /\ Values!MayFail(V[u])
    BY DeadValue
  <1>2. Values!Fail
    BY DEF Values!Fail, Undefined
  <1>3. Values!Undefined
    BY <1>1, <1>2 DEF Values!Undefined
  <1> QED
    BY <1>3 DEF Values!AbsNext

LEMMA CopyFailStep ==
    ASSUME Inv, ~wrong, Undefined, NEW u \in Objs, NEW w \in Objs, u # w, model[w] # Dead,
           NEW x, x = IF model[u] = Dead THEN NewObject(model[w].class)
                      ELSE ValueOf(heap, model[u]),
           Values!CopyMayFail(x, ValueOf(heap, model[w]))
    PROVE  Values!AbsNext
  <1> DEFINE V == [o \in Objs |-> ValueOf(heap, model[o])]
  <1>1. V[w] # Dead /\ V[w].class = model[w].class /\ (model[u] = Dead) = (V[u] = Dead)
    BY DeadValue, ValueAt
  <1>2. x = IF V[u] = Dead THEN Values!NewObject(V[w].class) ELSE V[u]
    BY <1>1 DEF Values!NewObject, NewObject
  <1>3. Values!CopyMayFail(x, V[w])
    OBVIOUS
  <1>4. Values!Fail
    BY DEF Values!Fail, Undefined
  <1>5. Values!Undefined
    BY <1>1, <1>2, <1>3, <1>4 DEF Values!Undefined
  <1> QED
    BY <1>5 DEF Values!AbsNext

LEMMA HealthyAfter ==
    ASSUME Inv', NEW u \in Objs, model'[u] # Dead
    PROVE  Healthy(heap', model'[u])
  BY HealthyAt DEF Inv

\* The value an object has after a step, member by member.
LEMMA ValueAfter ==
    ASSUME Inv', NEW u \in Objs, model'[u] # Dead, NEW z, z = ValueOf(heap', model'[u])
    PROVE  /\ z \in Value
           /\ z.class = model'[u].class /\ z.plain = model'[u].plain
           /\ z.sub = Leaf(heap', model'[u].sub) /\ z.list = ListValue(heap', model'[u].list)
           /\ z.sub = Missing <=> model'[u].sub = Missing
           /\ z.list = Missing <=> model'[u].list = Missing
  <1>1. Healthy(heap', model'[u])
    BY HealthyAfter
  <1>2. PICK h, x : h = heap' /\ x = model'[u]
    OBVIOUS
  <1>3. Healthy(h, x) /\ z = ValueOf(h, x)
    BY <1>1, <1>2
  <1>4. /\ z \in Value
        /\ z.class = x.class /\ z.plain = x.plain
        /\ z.sub = Leaf(h, x.sub) /\ z.list = ListValue(h, x.list)
        /\ z.sub = Missing <=> x.sub = Missing
        /\ z.list = Missing <=> x.list = Missing
    BY <1>3, ValueFacts
  <1> QED
    BY <1>2, <1>4

LEMMA NewValue ==
    ASSUME NEW h, NEW class \in Classes
    PROVE  ValueOf(h, NewObject(class)) = NewObject(class)
  <1> DEFINE x == NewObject(class)
  <1>1. /\ x \in Object /\ x.list = <<>> /\ x.sub \in {Null, Missing}
    BY ValsAssumption DEF NewObject, Object
  <1>2. x = [class |-> x.class, plain |-> x.plain, list |-> x.list, sub |-> x.sub]
    BY DEF NewObject
  <1> HIDE DEF x
  <1>3. Leaf(h, x.sub) = x.sub
    BY <1>1, ValsAssumption DEF Leaf
  <1>4. ListValue(h, x.list) = x.list
    <2>1. x.list \in Lists
      BY <1>1 DEF Lists
    <2> QED
      BY <1>1, <2>1, ItemsOf DEF ListValue
  <1>5. ValueOf(h, x) = x
    BY <1>1, <1>2, <1>3, <1>4, ValueIs
  <1> QED
    BY <1>5 DEF x

LEMMA ConstructIsValue ==
    ASSUME Inv, NEW u \in Objs, NEW class \in Classes, Construct(u, class)
    PROVE  Values!AbsNext
  <1>1. Apart({u})
    BY ConstructIsLawful
  <1>2. model'[u] = NewObject(class) /\ model[u] = Dead /\ wrong' = wrong
    BY DEF Construct, Inv, Sound
  <1>3. ValueOf(heap', model'[u]) = NewObject(class)
    BY <1>2, NewValue
  <1> QED
    BY <1>1, <1>2, <1>3, NewStep

LEMMA DestroyIsValue ==
    ASSUME Inv, NEW u \in Objs, Destroy(u)
    PROVE  Values!AbsNext
  <1>1. Apart({u})
    BY DestroyIsLawful
  <1>2. model'[u] = Dead /\ model[u] # Dead /\ wrong' = wrong
    BY DEF Destroy, Inv, Sound
  <1>3. ValueOf(heap', model'[u]) = Dead
    BY <1>2 DEF ValueOf
  <1>4. Values!After(ValueOf(heap, model[u]), ValueOf(heap', model'[u]), AllDocs)
    BY <1>3 DEF Values!After
  <1> QED
    BY <1>1, <1>2, <1>4, OneObjectStep

\* One living object after a step, by what has become of its members.
LEMMA MemberStep ==
    ASSUME Inv, NEW u \in Objs, model[u] # Dead, Lawful, Apart({u}), wrong' = wrong,
           model'[u] # Dead,
           NEW z, z = ValueOf(heap, model[u]), NEW t, t = ValueOf(heap', model'[u]),
           t.class = z.class,
           \/ t.list = z.list /\ t.sub = z.sub /\ t.plain \in Alike(Default)
           \/ /\ t.plain = z.plain /\ t.list = z.list
              /\ z.class = "composite" /\ t.sub \in Alike(Default) \cup {Null}
           \/ /\ t.plain = z.plain /\ t.sub = z.sub
              /\ z.list # Missing /\ t.list \in Values!ListAfter(z.list)
           \/ /\ t.plain = z.plain /\ t.sub = Missing /\ t.list = Missing
              /\ z.sub # Null
           \/ /\ t.plain = z.plain /\ t.sub = z.sub /\ z.sub # Null
              /\ t.list = IF z.list = Missing THEN Missing ELSE <<>>
    PROVE  Values!AbsNext
  <1>1. z \in Value
    BY ValueAt
  <1>2. t \in Value
    BY ValueAfter DEF Lawful
  <1>3. Values!After(z, t, AllDocs)
    BY <1>1, <1>2, AfterMember
  <1> QED
    BY <1>3, OneObjectStep

LEMMA ClearIsValue ==
    ASSUME Inv, ~wrong, NEW u \in Objs, Clear(u)
    PROVE  Values!AbsNext
  <1>1. PICK z : z = ValueOf(heap, model[u])
    OBVIOUS
  <1>2. /\ model[u] # Dead /\ model[u] \in Object
        /\ z.class = model[u].class /\ z.plain = model[u].plain
        /\ z.sub = Null <=> model[u].sub = Null
    BY <1>1, ValueAt DEF Clear, Healthy
  <1>3. CASE ClearUndefined(model[u])
    <2>1. Undefined
      BY <1>3 DEF Clear
    <2>2. Values!MayFail(z)
      BY <1>2, <1>3 DEF Values!MayFail, Values!ClearUndefined, ClearUndefined
    <2> QED
      BY <1>1, <1>2, <2>1, <2>2, FailStep
  <1>4. CASE ~ClearUndefined(model[u])
    <2>1. Lawful /\ Apart({u}) /\ wrong' = wrong
      BY <1>4, ClearIsLawful DEF Clear
    <2>2. model'[u] = Cleared(model[u])
      BY <1>4 DEF Clear, Inv, Sound
    <2>3. /\ model'[u].list = Missing /\ model'[u].sub = Missing /\ model'[u] # Dead
          /\ model'[u].class = model[u].class /\ model'[u].plain = model[u].plain
      BY <1>2, <2>2, ClearedIs, ObjectAssumption DEF Cleared, Object
    <2>4. PICK t : t = ValueOf(heap', model'[u])
      OBVIOUS
    <2>5. /\ t.class = z.class /\ t.plain = z.plain /\ t.sub = Missing /\ t.list = Missing
      BY <1>2, <2>1, <2>3, <2>4, ValueAfter DEF Lawful
    <2>6. z.sub # Null
      BY <1>2, <1>4 DEF ClearUndefined
    <2> QED
      BY <1>1, <1>2, <2>1, <2>3, <2>4, <2>5, <2>6, MemberStep
  <1> QED
    BY <1>3, <1>4

LEMMA SetPlainIsValue ==
    ASSUME Inv, NEW u \in Objs, NEW v \in Alike(Default), set_plain(u, v)
    PROVE  Values!AbsNext
  <1>1. PICK z, t : z = ValueOf(heap, model[u]) /\ t = ValueOf(heap', model'[u])
    OBVIOUS
  <1>2. Lawful /\ Apart({u}) /\ wrong' = wrong
    BY SetPlainIsLawful DEF set_plain
  <1>3. /\ model[u] # Dead /\ model[u] \in Object
        /\ z.class = model[u].class
        /\ z.sub = Leaf(heap, model[u].sub) /\ z.list = ListValue(heap, model[u].list)
    BY <1>1, ValueAt DEF set_plain, Healthy
  <1>4. model'[u] = [model[u] EXCEPT !.plain = v] /\ heap' = heap
    BY DEF set_plain, Inv, Sound
  <1>5. /\ model'[u] \in Object /\ model'[u] # Dead
        /\ model'[u].list = model[u].list /\ model'[u].sub = model[u].sub
        /\ model'[u].class = model[u].class
    <2>1. PICK y : y = [model[u] EXCEPT !.plain = v]
      OBVIOUS
    <2>2. /\ y \in Object /\ y.list = model[u].list /\ y.sub = model[u].sub
          /\ y.class = model[u].class
      BY <1>3, <2>1, AlikeInVals DEF Object
    <2> QED
      BY <1>4, <2>1, <2>2, ObjectAssumption
  <1>6. t.class = z.class /\ t.list = z.list /\ t.sub = z.sub /\ t.plain = v
    <2>1. /\ t.class = model'[u].class /\ t.plain = model'[u].plain
          /\ t.sub = Leaf(heap', model'[u].sub) /\ t.list = ListValue(heap', model'[u].list)
      BY <1>1, <1>2, <1>5, ValueAfter DEF Lawful
    <2>2. model'[u].plain = v
      BY <1>3, <1>4 DEF Object
    <2> QED
      BY <1>3, <1>4, <1>5, <2>1, <2>2
  <1> QED
    BY <1>1, <1>2, <1>3, <1>5, <1>6, MemberStep

Reads(h, p, v) == Leaf(h, p) = v

\* A clone reads as its original, and what is not deleted as before.
LEMMA ClonedReads ==
    ASSUME NEW h, h \in Heaps, NEW D, NEW v \in Vals \cup {Null},
           NEW c \in Cloned(Delete(h, D), v),
           NEW A, A \subseteq Addr, \A a \in A : h[a] # Null
    PROVE  Reads(c.heap, c.ptr, v) /\ Kept(h, A \ D, c.heap)
  <1> DEFINE g == Delete(h, D)
  <1>1. \A a \in Addr : g[a] = IF a \in D THEN Null ELSE h[a]
    BY DEF Delete
  <1>2. DOMAIN g = Addr
    BY DEF Delete
  <1> HIDE DEF g
  <1>3. CASE v = Null
    <2>1. c = [heap |-> g, ptr |-> Null]
      BY <1>3 DEF Cloned, g
    <2>2. c.heap = g /\ c.ptr = Null
      BY <2>1
    <2> QED
      BY <1>1, <1>3, <2>2, ValsAssumption DEF Reads, Leaf, Kept
  <1>4. CASE v # Null
    <2>1. c \in {[heap |-> [g EXCEPT ![b] = v], ptr |-> b] : b \in FreeIn(g)}
      BY <1>4 DEF Cloned, g
    <2>2. PICK b \in FreeIn(g) : c = [heap |-> [g EXCEPT ![b] = v], ptr |-> b]
      BY <2>1, Zenon
    <2>3. c.heap = [g EXCEPT ![b] = v] /\ c.ptr = b /\ b \in Addr /\ g[b] = Null
      BY <2>2 DEF FreeIn
    <2>4. Leaf(c.heap, c.ptr) = v
      BY <1>2, <2>3 DEF Leaf
    <2>5. ASSUME NEW a \in A \ D
          PROVE  c.heap[a] = h[a]
      <3>1. g[a] = h[a] /\ a # b /\ a \in Addr
        BY <1>1, <2>3
      <3> QED
        BY <1>2, <2>3, <3>1
    <2> QED
      BY <2>4, <2>5 DEF Kept, Reads
  <1> QED
    BY <1>3, <1>4

LEMMA SetObjectIsValue ==
    ASSUME Inv, ~wrong, NEW u \in Objs, model[u] # Dead, model[u].class = "composite",
           NEW arg \in (Alike(Default) \cup {Null, model[u].sub}) \ {Missing}, set_object(u, arg)
    PROVE  Values!AbsNext
  <1>1. PICK x, z, t : /\ x = model[u]
                       /\ z = ValueOf(heap, model[u]) /\ t = ValueOf(heap', model'[u])
    OBVIOUS
  <1>2. /\ Healthy(heap, x) /\ x \in Object /\ heap \in Heaps
        /\ z.class = x.class /\ z.plain = x.plain /\ z.list = ListValue(heap, x.list)
        /\ x.sub \in Addr => z.sub \in Vals
    BY <1>1, ValueAt DEF Healthy
  <1>3. CASE arg \in Addr
    <2>1. Undefined
      BY <1>3 DEF set_object
    <2>2. Values!MayFail(z)
      BY <1>1, <1>2, <1>3, AlikeInVals, ValsAssumption DEF Values!MayFail
    <2> QED
      BY <1>1, <2>1, <2>2, FailStep
  <1>4. CASE arg \notin Addr
    <2>1. Lawful /\ Apart({u}) /\ wrong' = wrong
      BY <1>4, SetObjectIsLawful DEF set_object
    <2>0. arg \in Alike(Default) \cup {Null}
      BY <1>1, <1>2, <1>4, HealthyObject
    <2>2. arg \in Vals \cup {Null}
      BY <2>0, AlikeInVals
    <2>3. PICK c \in Cloned(Delete(heap, {x.sub}), arg) :
              heap' = c.heap /\ model' = [model EXCEPT ![u].sub = c.ptr]
      BY <1>1, <1>4 DEF set_object
    <2>4. PICK D, A : D = {x.sub} /\ A = Items(x.list)
      OBVIOUS
    <2>5. /\ A \subseteq Addr /\ (\A a \in A : heap[a] # Null) /\ A \ D = A
          /\ x.list \in Lists \cup {Missing}
      <3>1. A \subseteq Own(x)
        BY <1>2, <2>4, HealthyObject
      <3> QED
        BY <1>2, <2>4, <3>1, HealthyObject, OwnInAddr
    <2>6. c \in Cloned(Delete(heap, D), arg)
      BY <2>4
    <2>7. Leaf(c.heap, c.ptr) = arg /\ Kept(heap, A, c.heap)
      <3>1. Reads(c.heap, c.ptr, arg) /\ Kept(heap, A \ D, c.heap)
        BY <1>2, <2>2, <2>5, <2>6, ClonedReads
      <3> QED
        BY <2>5, <3>1 DEF Reads
    <2>8. PICK y : y = [x EXCEPT !.sub = c.ptr]
      OBVIOUS
    <2>9. /\ model'[u] = y /\ y # Dead
          /\ y.list = x.list /\ y.sub = c.ptr /\ y.class = x.class /\ y.plain = x.plain
      <3>1. model'[u] = y
        BY <1>1, <2>3, <2>8 DEF Inv, Sound
      <3>2. y.list = x.list /\ y.sub = c.ptr /\ y.class = x.class /\ y.plain = x.plain
        BY <1>2, <2>8 DEF Object
      <3>3. c.ptr \in Addr \cup {Null}
        BY <1>2, <2>2, <2>3, ClonedIs
      <3>4. y \in Object
        BY <1>2, <2>8, <3>3 DEF Object
      <3> QED
        BY <3>1, <3>2, <3>4, ObjectAssumption
    <2>10. /\ t.class = z.class /\ t.plain = z.plain
           /\ t.sub = Leaf(heap', y.sub) /\ t.list = ListValue(heap', y.list)
      BY <1>1, <1>2, <2>1, <2>9, ValueAfter DEF Lawful
    <2>11. t.sub = arg
      BY <2>3, <2>7, <2>9, <2>10
    <2>12. t.list = z.list
      <3>1. ListValue(c.heap, x.list) = ListValue(heap, x.list)
        BY <2>4, <2>5, <2>7, ListValueKept DEF Kept
      <3> QED
        BY <1>2, <2>3, <2>9, <2>10, <3>1
    <2> QED
      BY <1>1, <1>2, <2>0, <2>1, <2>9, <2>10, <2>11, <2>12, MemberStep
  <1> QED
    BY <1>3, <1>4

\* An assignment to a leaf through o() or at() is seen where the leaf is held.
LEMMA SetLeafIsValue ==
    ASSUME Inv, NEW u \in Objs, model[u] # Dead, NEW a, NEW v \in Vals, SetLeaf(a, v),
           \/ /\ a = model[u].sub /\ a \in Addr /\ model[u].class = "composite"
              /\ v \in Alike(Default)
           \/ model[u].list # Missing /\ a \in Items(model[u].list)
    PROVE  Values!AbsNext
  <1>1. PICK x, z, t : /\ x = model[u]
                       /\ z = ValueOf(heap, model[u]) /\ t = ValueOf(heap', model'[u])
    OBVIOUS
  <1>2. /\ Healthy(heap, x) /\ x \in Object /\ heap \in Heaps
        /\ z.class = x.class /\ z.plain = x.plain /\ z.sub = Leaf(heap, x.sub)
        /\ z.list = ListValue(heap, x.list)
        /\ z.list = Missing <=> x.list = Missing
        /\ x.list \in Lists \cup {Missing}
        /\ x.list # Missing => NoRepeats(x.list)
        /\ x.sub \notin Items(x.list)
        /\ Own(x) = Items(x.list) \cup ({x.sub} \cap Addr)
    BY <1>1, ValueAt, HealthyObject DEF Healthy
  <1>3. a \in Own(x)
    BY <1>1, <1>2
  <1>4. /\ Lawful /\ Apart({u}) /\ wrong' = wrong
    BY <1>1, <1>3, SetLeafIsLawful DEF SetLeaf
  <1>5. model'[u] = x /\ model'[u] # Dead
    BY <1>1 DEF SetLeaf
  <1>6. /\ t.class = z.class /\ t.plain = z.plain
        /\ t.sub = Leaf(heap', x.sub) /\ t.list = ListValue(heap', x.list)
    BY <1>1, <1>2, <1>4, <1>5, ValueAfter DEF Lawful
  <1>7. PICK h2 : h2 = heap' /\ h2 = [heap EXCEPT ![a] = v]
    BY DEF SetLeaf
  <1>8. a \in Addr /\ h2[a] = v /\ \A b \in Addr : b # a => h2[b] = heap[b]
    BY <1>2, <1>3, <1>7, OwnInAddr DEF Heaps
  <1>9. CASE a = x.sub
    <2>1. t.sub = v
      BY <1>6, <1>7, <1>8, <1>9 DEF Leaf
    <2>2. t.list = z.list
      <3>1. \A b \in Items(x.list) : h2[b] = heap[b]
        BY <1>2, <1>8, <1>9, OwnInAddr
      <3>2. ListValue(h2, x.list) = ListValue(heap, x.list)
        BY <1>2, <3>1, ListValueKept
      <3> QED
        BY <1>2, <1>6, <1>7, <3>2
    <2>3. z.class = "composite" /\ v \in Alike(Default)
      BY <1>1, <1>2, <1>9, ValsAssumption
    <2> QED
      BY <1>1, <1>4, <1>5, <1>6, <2>1, <2>2, <2>3, MemberStep
  <1>10. CASE a # x.sub
    <2>1. x.list # Missing /\ a \in Items(x.list) /\ x.list \in Lists
      BY <1>1, <1>2, <1>10
    <2>2. t.sub = z.sub
      BY <1>2, <1>6, <1>7, <1>8, <1>10 DEF Leaf
    <2>3. PICK i \in 1..Len(x.list) : x.list[i] = a
      BY <2>1, ItemsOf
    <2>4. DOMAIN x.list = 1..Len(x.list) /\ \A j \in 1..Len(x.list) : j # i => x.list[j] # a
      BY <1>2, <2>1, <2>3, ItemsOf DEF NoRepeats, Lists
    <2>5. \A j \in 1..Len(x.list) : Leaf(h2, x.list[j]) = IF j = i THEN v ELSE Leaf(heap, x.list[j])
      BY <1>8, <2>3, <2>4 DEF Leaf
    <2>6. ListValue(h2, x.list) = [ListValue(heap, x.list) EXCEPT ![i] = v]
      BY <2>1, <2>4, <2>5 DEF ListValue
    <2>7. t.list = [z.list EXCEPT ![i] = v] /\ i \in DOMAIN z.list
      BY <1>2, <1>6, <1>7, <2>1, <2>4, <2>6 DEF ListValue
    <2>8. t.list \in Values!ListAfter(z.list)
      BY <2>7 DEF Values!ListAfter
    <2> QED
      BY <1>1, <1>2, <1>4, <1>5, <1>6, <2>1, <2>2, <2>8, MemberStep
  <1> QED
    BY <1>9, <1>10

LEMMA ReadJsonIs ==
    ASSUME NEW x \in Value, NEW doc
    PROVE  Values!ReadJson(x, doc) =
              [class |-> x.class,
               plain |-> Values!ReadLeaf(x.plain, doc.plain),
               list  |-> IF x.list = Missing \/ ~doc.isArray THEN x.list
                         ELSE [i \in 1..Len(x.list) |-> Values!ReadItem(x.list[i], doc.list, i)],
               sub   |-> IF x.sub \in {Null, Missing} THEN x.sub
                         ELSE Values!ReadLeaf(x.sub, doc.sub)]
  <1> DEFINE items == [i \in 1..Len(x.list) |-> Values!ReadItem(x.list[i], doc.list, i)]
  <1>1. PICK p, l, q :
          /\ p = Values!ReadLeaf(x.plain, doc.plain)
          /\ l = IF x.list = Missing \/ ~doc.isArray THEN x.list ELSE items
          /\ q = IF x.sub \in {Null, Missing} THEN x.sub ELSE Values!ReadLeaf(x.sub, doc.sub)
    OBVIOUS
  <1>2. Values!ReadJson(x, doc) = [x EXCEPT !.plain = p, !.list = l, !.sub = q]
    BY <1>1 DEF Values!ReadJson
  <1>3. [x EXCEPT !.plain = p, !.list = l, !.sub = q]
           = [class |-> x.class, plain |-> p, list |-> l, sub |-> q]
    <2>1. x \in Value
      OBVIOUS
    <2> HIDE DEF items
    <2> QED
      BY <2>1, ValueExcept3
  <1> QED
    BY <1>1, <1>2, <1>3

\* The conversion from JSON does to a value what ModelValues says.
LEMMA ReadValue ==
    ASSUME NEW h, NEW x, Healthy(h, x), NEW h2, NEW y, Healthy(h2, y), NEW doc,
           ReadObject(h, x, h2, y, doc)
    PROVE  ValueOf(h2, y) = Values!ReadJson(ValueOf(h, x), doc)
  <1>1. PICK z, t : z = ValueOf(h, x) /\ t = ValueOf(h2, y)
    OBVIOUS
  <1>2. /\ x \in Object /\ h \in Heaps /\ x.list \in Lists \cup {Missing}
        /\ x.sub \in Addr \cup {Null, Missing}
        /\ \A a \in Items(x.list) : h[a] # Null
        /\ z \in Value /\ z.class = x.class /\ z.plain = x.plain
        /\ z.sub = Leaf(h, x.sub) /\ z.list = ListValue(h, x.list)
        /\ x.sub \in Addr => z.sub \in Vals /\ z.sub = h[x.sub]
        /\ z.list = Missing <=> x.list = Missing
    <2>1. /\ x \in Object /\ h \in Heaps /\ x.list \in Lists \cup {Missing}
          /\ x.sub \in Addr \cup {Null, Missing}
          /\ \A a \in Items(x.list) : h[a] # Null
      BY HealthyObject DEF Healthy
    <2>2. /\ z \in Value /\ z.class = x.class /\ z.plain = x.plain
          /\ z.sub = Leaf(h, x.sub) /\ z.list = ListValue(h, x.list)
          /\ x.sub \in Addr => z.sub \in Vals /\ z.sub = h[x.sub]
          /\ z.list = Missing <=> x.list = Missing
      BY <1>1, ValueFacts
    <2> QED
      BY <2>1, <2>2
  <1>3. /\ t \in Value /\ t.class = y.class /\ t.plain = y.plain
        /\ t.sub = Leaf(h2, y.sub) /\ t.list = ListValue(h2, y.list)
    BY <1>1, ValueFacts
  <1> DEFINE items == [i \in 1..Len(z.list) |-> Values!ReadItem(z.list[i], doc.list, i)]
  <1>4. PICK p, l, q :
          /\ p = ReadLeaf(z.plain, doc.plain)
          /\ l = IF z.list = Missing \/ ~doc.isArray THEN z.list ELSE items
          /\ q = IF z.sub \in {Null, Missing} THEN z.sub ELSE ReadLeaf(z.sub, doc.sub)
    OBVIOUS
  <1>5. t.class = z.class /\ t.plain = p
    BY <1>2, <1>3, <1>4 DEF ReadObject
  <1>6. t.sub = q
    <2>1. CASE x.sub \in Addr
      <3>1. z.sub \notin {Null, Missing}
        BY <1>2, <2>1, ValsAssumption
      <3> QED
        BY <1>2, <1>3, <1>4, <2>1, <3>1 DEF ReadObject
    <2>2. CASE x.sub \notin Addr
      <3>1. z.sub = x.sub /\ x.sub \in {Null, Missing}
        BY <1>2, <2>2 DEF Leaf
      <3> QED
        BY <1>3, <1>4, <2>2, <3>1 DEF ReadObject
    <2> QED
      BY <2>1, <2>2
  <1>7. t.list = l
    <2>1. CASE x.list = Missing \/ ~doc.isArray
      <3>1. y.list = x.list /\ \A a \in Items(x.list) : h2[a] = h[a]
        BY <2>1 DEF ReadObject, Kept
      <3>2. ListValue(h2, x.list) = ListValue(h, x.list)
        BY <1>2, <3>1, ListValueKept
      <3> QED
        BY <1>2, <1>3, <1>4, <2>1, <3>1, <3>2
    <2>2. CASE x.list # Missing /\ doc.isArray
      <3>1. PICK k, m : k = x.list /\ m = y.list
        OBVIOUS
      <3>2. /\ k \in Lists /\ m \in Lists /\ Len(m) = Len(k) /\ l = items
            /\ \A i \in 1..Len(k) :
                  Leaf(h2, m[i]) = IF k[i] = Null \/ NoEntry(doc.list, i) THEN Null
                                   ELSE ReadLeaf(h[k[i]], doc.list[i])
        BY <1>2, <1>4, <2>2, <3>1 DEF ReadObject, ReadItems
      <3>3. /\ Len(z.list) = Len(k)
            /\ \A i \in 1..Len(k) : /\ z.list[i] = Leaf(h, k[i])
                                    /\ z.list[i] = Null <=> k[i] = Null
        BY <1>2, <3>1, <3>2, ListFacts
      <3>4. m # Missing /\ DOMAIN m = 1..Len(k)
        BY <3>2, ItemsOf DEF Lists
      <3>5. \A i \in 1..Len(k) : Leaf(h2, m[i]) = Values!ReadItem(z.list[i], doc.list, i)
        <4> SUFFICES ASSUME NEW i \in 1..Len(k)
                     PROVE  Leaf(h2, m[i]) = Values!ReadItem(z.list[i], doc.list, i)
          OBVIOUS
        <4>1. CASE k[i] = Null \/ NoEntry(doc.list, i)
          <5>1. Leaf(h2, m[i]) = Null
            BY <3>2, <4>1
          <5>2. z.list[i] = Null \/ NoEntry(doc.list, i)
            BY <3>3, <4>1
          <5>3. Values!ReadItem(z.list[i], doc.list, i) = Null
            BY <5>2 DEF Values!ReadItem, NoEntry
          <5> QED
            BY <5>1, <5>3
        <4>2. CASE ~(k[i] = Null \/ NoEntry(doc.list, i))
          <5>1. k[i] \in Addr
            BY <3>2, <4>2, ItemsOf
          <5>2. z.list[i] = h[k[i]] /\ z.list[i] # Null
            BY <3>3, <4>2, <5>1 DEF Leaf
          <5>3. Values!ReadItem(z.list[i], doc.list, i) = ReadLeaf(z.list[i], doc.list[i])
            BY <4>2, <5>2 DEF Values!ReadItem, NoEntry, Values!ReadLeaf, ReadLeaf, Values!Alike, Alike
          <5>4. Leaf(h2, m[i]) = ReadLeaf(h[k[i]], doc.list[i])
            BY <3>2, <4>2
          <5> QED
            BY <5>2, <5>3, <5>4
        <4> QED
          BY <4>1, <4>2
      <3>6. ListValue(h2, m) = [i \in 1..Len(k) |-> Leaf(h2, m[i])]
        BY <3>4 DEF ListValue
      <3> QED
        BY <1>3, <3>1, <3>2, <3>3, <3>5, <3>6
    <2> QED
      BY <2>1, <2>2
  <1>8. t = [class |-> z.class, plain |-> p, list |-> l, sub |-> q]
    BY <1>3, <1>5, <1>6, <1>7 DEF Value
  <1>9. Values!ReadJson(z, doc) = [class |-> z.class, plain |-> p, list |-> l, sub |-> q]
    BY <1>2, <1>4, ReadJsonIs DEF Values!ReadLeaf, ReadLeaf, Values!Alike, Alike
  <1> QED
    BY <1>1, <1>8, <1>9

LEMMA ConvertedValue ==
    ASSUME NEW u, Healthy(heap, model[u]), NEW doc
    PROVE  ValueOf(Converted(u, doc).heap, Converted(u, doc).obj)
              = Values!ReadJson(ValueOf(heap, model[u]), doc)
  <1>1. PICK x, h2, y : x = model[u] /\ h2 = Converted(u, doc).heap /\ y = Converted(u, doc).obj
    OBVIOUS
  <1>2. Replaces(heap, x, h2, y) /\ y \in Object /\ ReadObject(heap, x, h2, y, doc)
    BY <1>1, JsonReplaces
  <1>3. Healthy(h2, y)
    BY <1>2 DEF Replaces, Healthy
  <1>4. Healthy(heap, x)
    BY <1>1
  <1> QED
    BY <1>1, <1>2, <1>3, <1>4, ReadValue

LEMMA JsonIsValue ==
    ASSUME Inv, NEW u \in Objs, NEW doc \in AllDocs, json_to_model(u, doc)
    PROVE  Values!AbsNext
  <1>1. model[u] # Dead /\ Apart({u}) /\ wrong' = wrong
    BY JsonIsLawful DEF json_to_model
  <1>2. heap' = Converted(u, doc).heap /\ model'[u] = Converted(u, doc).obj
    BY DEF json_to_model, Inv, Sound
  <1>3. ValueOf(heap', model'[u]) = Values!ReadJson(ValueOf(heap, model[u]), doc)
    BY <1>1, <1>2, HealthyAt, ConvertedValue DEF Inv
  <1>4. Values!After(ValueOf(heap, model[u]), ValueOf(heap', model'[u]), AllDocs)
    BY <1>3 DEF Values!After
  <1> QED
    BY <1>1, <1>4, OneObjectStep

LEMMA AskedIs ==
    ASSUME NEW h, NEW x, NEW y, Healthy(h, y)
    PROVE  /\ Asked(x, y) \in Object /\ Asked(x, y).sub = y.sub
           /\ Asked(x, y).class = y.class /\ Asked(x, y).plain = y.plain
           /\ Asked(x, y).list = IF x.list # Missing /\ y.list = Missing THEN <<>> ELSE y.list
           /\ Own(Asked(x, y)) = Own(y) /\ Tidy(Asked(x, y))
  <1>1. y \in Object /\ Tidy(y)
    BY DEF Healthy
  <1>2. CASE x.list # Missing /\ y.list = Missing
    <2>1. Asked(x, y) = [y EXCEPT !.list = <<>>]
      BY <1>2 DEF Asked
    <2>2. /\ Asked(x, y) \in Object /\ Asked(x, y).sub = y.sub /\ Asked(x, y).list = <<>>
          /\ Asked(x, y).class = y.class /\ Asked(x, y).plain = y.plain
      <3>1. <<>> \in Seq(Addr \cup {Null})
        OBVIOUS
      <3> QED
        BY <1>1, <2>1, <3>1 DEF Object
    <2>3. Items(<<>>) = {} /\ Items(y.list) = {} /\ NoRepeats(<<>>) /\ Len(<<>>) <= MaxLen
      BY <1>2, ValsAssumption DEF Items, NoRepeats
    <2>4. y # Dead /\ Asked(x, y) # Dead
      BY <1>1, <2>2, ObjectAssumption
    <2> QED
      BY <1>1, <1>2, <2>2, <2>3, <2>4 DEF Own, Tidy
  <1>3. CASE ~(x.list # Missing /\ y.list = Missing)
    <2>1. Asked(x, y) = y
      BY <1>1, <1>3 DEF Asked, Object
    <2> QED
      BY <1>1, <1>3, <2>1
  <1> QED
    BY <1>2, <1>3

LEMMA ClearedReads ==
    ASSUME NEW h, NEW x \in Object
    PROVE  ValueOf(h, Cleared(x)) = [class |-> x.class, plain |-> x.plain,
                                     list |-> Missing, sub |-> Missing]
  <1>1. PICK y : y = Cleared(x)
    OBVIOUS
  <1>2. /\ y \in Object /\ y.list = Missing /\ y.sub = Missing
        /\ y.class = x.class /\ y.plain = x.plain
    BY <1>1, ClearedIs DEF Cleared, Object
  <1>3. Leaf(h, y.sub) = Missing /\ ListValue(h, y.list) = Missing
    BY <1>2, ValsAssumption DEF Leaf, ListValue
  <1>4. ValueOf(h, y) = [class |-> y.class, plain |-> y.plain,
                         list |-> ListValue(h, y.list), sub |-> Leaf(h, y.sub)]
    BY <1>2, ValueIs
  <1> QED
    BY <1>1, <1>2, <1>3, <1>4

\* Deleting what an object does not own leaves its value.
LEMMA DeleteReads ==
    ASSUME NEW x \in Object, NEW h, NEW A, Own(x) \cap A = {}
    PROVE  ValueOf(Delete(h, A), x) = ValueOf(h, x)
  <1>1. PICK g : g = Delete(h, A)
    OBVIOUS
  <1>2. Kept(h, Own(x), g)
    BY <1>1, OwnInAddr DEF Delete, Kept
  <1>3. ValueOf(g, x) = ValueOf(h, x)
    BY <1>2, ValueKept
  <1> QED
    BY <1>1, <1>3

\* A copy, between two objects, does to their values what ModelValues says.
LEMMA AssignedValues ==
    ASSUME NEW h, NEW x, Healthy(h, x), NEW y, Healthy(h, y), x.class = y.class,
           NEW u \in Objs, NEW w \in Objs, u # w, Own(x) \cap Own(y) = {},
           ~AssignUndefined(x, y, u = w), NEW r \in Assigned(h, x, y, u = w),
           NEW fresh \in BOOLEAN, NEW h2, NEW xx, NEW yy,
           \/ h2 = r.heap /\ xx = r.obj /\ yy = Asked(x, y)
           \/ fresh /\ h2 = ClearedHeap(r.heap, Asked(x, y)) /\ xx = r.obj /\ yy = Cleared(y)
           \/ ~fresh /\ h2 = ClearedHeap(r.heap, r.obj) /\ xx = Cleared(r.obj) /\ yy = Asked(x, y)
    PROVE  <<ValueOf(h2, xx), ValueOf(h2, yy)>>
              \in Values!AfterBoth(ValueOf(h, x), ValueOf(h, y), fresh)
  <1>1. PICK a, b, c, d : /\ a = ValueOf(h, x) /\ b = ValueOf(h, y)
                          /\ c = ValueOf(h2, xx) /\ d = ValueOf(h2, yy)
    OBVIOUS
  <1>2. PICK o, g, k : o = r.obj /\ g = r.heap /\ k = Asked(x, y)
    OBVIOUS
  <1>3. /\ Replaces(h, x, g, o)
        /\ o \in Object /\ o.sub = x.sub /\ o.class = x.class /\ o.plain = y.plain
        /\ Leaf(g, x.sub) = IF x.sub = Missing THEN Missing ELSE Leaf(h, y.sub)
        /\ ListValue(g, o.list) = IF x.list = Missing THEN Missing
                                  ELSE ListValue(h, IF u = w THEN <<>> ELSE k.list)
    BY <1>2, AssignReplaces
  <1>4. /\ k \in Object /\ k.sub = y.sub /\ k.class = y.class /\ k.plain = y.plain
        /\ k.list = IF x.list # Missing /\ y.list = Missing THEN <<>> ELSE y.list
        /\ Own(k) = Own(y) /\ Tidy(k)
    BY <1>2, AskedIs
  <1>5. x \in Object /\ y \in Object /\ h \in Heaps /\ \A q \in Own(y) : h[q] # Null
    BY DEF Healthy
  <1>6. Kept(h, Own(y), g) /\ Own(o) \cap Own(y) = {}
    BY <1>3, <1>5, OwnInAddr DEF Replaces, Kept
  <1>7. Healthy(g, o) /\ Healthy(h, k)
    BY <1>3, <1>4, <1>5 DEF Healthy, Replaces
  <1>8. /\ a \in Value /\ a.class = x.class
        /\ a.sub = Missing <=> x.sub = Missing
        /\ a.sub = Null <=> x.sub = Null
        /\ a.list = Missing <=> x.list = Missing
    BY <1>1, ValueFacts
  <1>9. /\ b \in Value /\ b.class = y.class /\ b.plain = y.plain
        /\ b.sub = Leaf(h, y.sub) /\ b.list = ListValue(h, y.list)
        /\ b.sub = Missing <=> y.sub = Missing
        /\ b.sub = Null <=> y.sub = Null
        /\ b.list = Missing <=> y.list = Missing
    BY <1>1, ValueFacts
  <1> DEFINE asked == IF b.list = Missing THEN <<>> ELSE b.list
  <1>10. ListValue(h, <<>>) = <<>>
    <2>1. <<>> \in Lists
      BY DEF Lists
    <2> QED
      BY <2>1, ItemsOf DEF ListValue
  <1>11. x.list # Missing => ListValue(h, k.list) = asked
    BY <1>4, <1>9, <1>10
  <1>12. ListValue(h, k.list) = IF x.list = Missing THEN b.list ELSE asked
    BY <1>4, <1>9, <1>11
  <1>13. PICK z : z = ValueOf(g, o)
    OBVIOUS
  <1>14. /\ z \in Value /\ z.class = x.class /\ z.plain = y.plain
         /\ z.sub = (IF x.sub = Missing THEN Missing ELSE b.sub)
         /\ z.list = IF x.list = Missing THEN Missing ELSE asked
    <2>1. /\ z \in Value /\ z.class = o.class /\ z.plain = o.plain
          /\ z.sub = Leaf(g, o.sub) /\ z.list = ListValue(g, o.list)
      BY <1>7, <1>13, ValueFacts
    <2> QED
      BY <1>3, <1>9, <1>11, <2>1
  <1>15. PICK t : t = ValueOf(h, k)
    OBVIOUS
  <1>16. /\ t \in Value /\ t.class = y.class /\ t.plain = y.plain /\ t.sub = b.sub
         /\ t.list = IF x.list = Missing THEN b.list ELSE asked
    <2>1. /\ t \in Value /\ t.class = k.class /\ t.plain = k.plain
          /\ t.sub = Leaf(h, k.sub) /\ t.list = ListValue(h, k.list)
      BY <1>7, <1>15, ValueFacts
    <2> QED
      BY <1>4, <1>9, <1>12, <2>1
  <1>17. ValueOf(g, k) = t
    BY <1>4, <1>6, <1>15, ValueKept
  <1>18. ~Values!CopyUndefined(a, b)
    <2>1. ~(x.sub # Missing /\ (x.sub = Null \/ y.sub \in {Null, Missing}))
      BY DEF AssignUndefined
    <2>2. ~(a.sub # Missing /\ (a.sub = Null \/ b.sub \in {Null, Missing}))
      BY <1>8, <1>9, <2>1
    <2>3. ASSUME a.list # Missing, NEW i \in DOMAIN asked, asked[i] = Null
          PROVE  FALSE
      <3>1. CASE b.list = Missing
        BY <2>3, <3>1
      <3>2. CASE b.list # Missing
        <4>1. y.list \in Lists /\ \A q \in Items(y.list) : h[q] # Null
          BY <1>9, <3>2, HealthyObject
        <4>2. DOMAIN b.list = 1..Len(y.list)
              /\ \A j \in 1..Len(y.list) : b.list[j] = Null <=> y.list[j] = Null
          BY <1>5, <1>9, <4>1, ListFacts
        <4>3. DOMAIN y.list = 1..Len(y.list)
          BY <4>1 DEF Lists
        <4> QED
          BY <1>8, <1>9, <2>3, <3>2, <4>2, <4>3 DEF AssignUndefined
      <3> QED
        BY <3>1, <3>2
    <2> QED
      BY <2>2, <2>3 DEF Values!CopyUndefined, Values!Holds, Values!ListOf
  <1>19. Items(o.list) \subseteq Own(o) /\ Items(k.list) \subseteq Own(k)
    BY <1>7, HealthyObject
  <1>20. /\ a.class = b.class /\ z.class = a.class /\ z.plain = b.plain
         /\ z.list = (IF a.list = Missing THEN Missing ELSE asked)
         /\ z.sub = (IF a.sub = Missing THEN Missing ELSE b.sub)
         /\ t.class = b.class /\ t.plain = b.plain /\ t.sub = b.sub
         /\ t.list = IF a.list = Missing THEN b.list ELSE asked
    BY <1>8, <1>9, <1>14, <1>16
  <1>21. CASE h2 = g /\ xx = o /\ yy = k
    <2>1. c = z /\ d = t
      BY <1>1, <1>13, <1>17, <1>21
    <2>2. <<z, t>> \in Values!AfterBoth(a, b, fresh)
      BY <1>8, <1>9, <1>14, <1>16, <1>18, <1>20, AfterCopy
    <2> QED
      BY <1>1, <2>1, <2>2
  <1>22. CASE fresh /\ h2 = ClearedHeap(g, k) /\ xx = o /\ yy = Cleared(y)
    <2>1. Own(o) \cap Items(k.list) = {}
      BY <1>4, <1>6, <1>19
    <2>2. c = z
      BY <1>1, <1>3, <1>13, <1>22, <2>1, DeleteReads DEF ClearedHeap
    <2>3. d = [class |-> y.class, plain |-> y.plain, list |-> Missing, sub |-> Missing]
      BY <1>1, <1>5, <1>22, ClearedReads
    <2>4. d \in Value /\ d.class = y.class /\ d.plain = y.plain /\ d.list = Missing /\ d.sub = Missing
      BY <1>9, <2>3 DEF Value
    <2>5. d.class = b.class /\ d.plain = b.plain
      BY <1>9, <2>4
    <2>6. <<z, d>> \in Values!AfterBoth(a, b, fresh)
      BY <1>8, <1>9, <1>14, <1>18, <1>20, <1>22, <2>4, <2>5, AfterCopy
    <2> QED
      BY <1>1, <2>2, <2>6
  <1>23. CASE ~fresh /\ h2 = ClearedHeap(g, o) /\ xx = Cleared(o) /\ yy = k
    <2>1. Own(k) \cap Items(o.list) = {}
      BY <1>4, <1>6, <1>19
    <2>2. d = t
      BY <1>1, <1>4, <1>17, <1>23, <2>1, DeleteReads DEF ClearedHeap
    <2>3. c = [class |-> o.class, plain |-> o.plain, list |-> Missing, sub |-> Missing]
      BY <1>1, <1>3, <1>23, ClearedReads
    <2>4. c \in Value /\ c.class = x.class /\ c.plain = y.plain /\ c.list = Missing /\ c.sub = Missing
      BY <1>3, <1>9, <1>14, <2>3 DEF Value
    <2>5. c.class = a.class /\ c.plain = b.plain
      BY <1>8, <1>9, <2>4
    <2>6. <<c, t>> \in Values!AfterBoth(a, b, fresh)
      BY <1>8, <1>9, <1>16, <1>18, <1>20, <1>23, <2>4, <2>5, AfterCopy
    <2> QED
      BY <1>1, <2>2, <2>6
  <1> QED
    BY <1>2, <1>21, <1>22, <1>23

\* An object assigned to itself.
LEMMA SelfAssignIsValue ==
    ASSUME Inv, ~wrong, NEW u \in Objs, model[u] # Dead, NEW clears \in {"nothing", "target"},
           AssignTo(u, model[u], u, clears)
    PROVE  Values!AbsNext
  <1>1. PICK x, z, t : /\ x = model[u]
                       /\ z = ValueOf(heap, model[u]) /\ t = ValueOf(heap', model'[u])
    OBVIOUS
  <1>2. /\ Healthy(heap, x) /\ x \in Object
        /\ z.class = x.class /\ z.plain = x.plain
        /\ z.sub = Leaf(heap, x.sub) /\ z.list = ListValue(heap, x.list)
        /\ z.sub = Missing <=> x.sub = Missing
        /\ z.sub = Null <=> x.sub = Null
        /\ z.list = Missing <=> x.list = Missing
    BY <1>1, ValueAt DEF Healthy
  <1>3. CASE AssignUndefined(x, x, u = u)
    <2>1. Undefined
      BY <1>1, <1>3 DEF AssignTo
    <2>2. Values!MayFail(z)
      BY <1>2, <1>3 DEF AssignUndefined, Values!MayFail, Values!ClearUndefined
    <2> QED
      BY <1>1, <2>1, <2>2, FailStep
  <1>4. CASE ~AssignUndefined(x, x, u = u)
    <2>1. /\ Lawful /\ Apart({u})
      <3>1. Apart({u, u}) /\ Lawful
        BY <1>1, AssignIsLawful
      <3> QED
        BY <3>1 DEF Apart
    <2>2. PICK r \in Assigned(heap, x, x, u = u) :
            /\ heap' = IF clears = "nothing" THEN r.heap ELSE ClearedHeap(r.heap, r.obj)
            /\ model'[u] = IF clears = "nothing" THEN r.obj ELSE Cleared(r.obj)
            /\ wrong' = wrong
      BY <1>1, <1>4 DEF AssignTo, Inv, Sound
    <2>3. PICK g, o : g = r.heap /\ o = r.obj
      OBVIOUS
    <2>4. /\ Replaces(heap, x, g, o)
          /\ o \in Object /\ o.sub = x.sub /\ o.class = x.class /\ o.plain = x.plain
          /\ Leaf(g, x.sub) = IF x.sub = Missing THEN Missing ELSE Leaf(heap, x.sub)
          /\ ListValue(g, o.list) = IF x.list = Missing THEN Missing ELSE ListValue(heap, <<>>)
      BY <1>2, <1>4, <2>3, AssignReplaces
    <2>5. z.sub # Null
      BY <1>2, <1>4, ValsAssumption DEF AssignUndefined
    <2>6. wrong' = wrong
      BY <2>2
    <2>7. CASE clears = "nothing"
      <3>1. /\ model'[u] = o /\ o # Dead /\ heap' = g
        BY <2>2, <2>3, <2>4, <2>7, ObjectAssumption
      <3>2. /\ t.class = o.class /\ t.plain = o.plain
            /\ t.sub = Leaf(g, o.sub) /\ t.list = ListValue(g, o.list)
        BY <1>1, <2>1, <3>1, ValueAfter DEF Lawful
      <3>3. t.list = IF z.list = Missing THEN Missing ELSE <<>>
        <4>1. ListValue(heap, <<>>) = <<>>
          <5>1. <<>> \in Lists
            BY DEF Lists
          <5> QED
            BY <5>1, ItemsOf DEF ListValue
        <4> QED
          BY <1>2, <2>4, <3>2, <4>1
      <3>4. t.class = z.class /\ t.plain = z.plain /\ t.sub = z.sub
        BY <1>2, <2>4, <3>2
      <3> QED
        BY <1>1, <2>1, <2>5, <2>6, <3>1, <3>3, <3>4, MemberStep
    <2>8. CASE clears = "target"
      <3>1. /\ model'[u] = Cleared(o) /\ Cleared(o) \in Object /\ model'[u] # Dead
        BY <2>2, <2>3, <2>4, <2>8, ClearedIs, ObjectAssumption
      <3>2. t = [class |-> o.class, plain |-> o.plain, list |-> Missing, sub |-> Missing]
        BY <1>1, <2>4, <3>1, ClearedReads
      <3>3. t.class = z.class /\ t.plain = z.plain /\ t.sub = Missing /\ t.list = Missing
        BY <1>2, <2>4, <3>2
      <3> QED
        BY <1>1, <2>1, <2>5, <2>6, <3>1, <3>3, MemberStep
    <2> QED
      BY <2>7, <2>8
  <1> QED
    BY <1>3, <1>4

LEMMA AssignIsValue ==
    ASSUME Inv, ~wrong, NEW u \in Objs, NEW w \in Objs, u # w, model[w] # Dead,
           NEW x, IF model[u] = Dead THEN x = NewObject(model[w].class)
                  ELSE x = model[u] /\ model[u].class = model[w].class,
           NEW clears \in {"nothing", "source", "target"},
           clears = "source" => model[u] = Dead, clears = "target" => model[u] # Dead,
           AssignTo(u, x, w, clears)
    PROVE  Values!AbsNext
  <1>1. PICK y, fresh : y = model[w] /\ fresh = (model[u] = Dead)
    OBVIOUS
  <1>2. Sound(heap, model) /\ heap \in Heaps /\ model \in [Objs -> Object \cup {Dead}]
    BY DEF Inv, Sound
  <1>3. Healthy(heap, y) /\ y.class \in Classes
    BY <1>1, <1>2, HealthyAt, HealthyObject
  <1>4. /\ Healthy(heap, x) /\ Own(x) \cap Own(y) = {} /\ x.class = y.class
        /\ ValueOf(heap, x) = IF fresh THEN NewObject(model[w].class)
                              ELSE ValueOf(heap, model[u])
    <2>1. CASE model[u] = Dead
      <3>1. x = NewObject(y.class) /\ x.class = y.class
        BY <1>1, <2>1 DEF NewObject
      <3> QED
        BY <1>1, <1>2, <1>3, <2>1, <3>1, NewReplaces, NewValue
    <2>2. CASE model[u] # Dead
      <3>1. x = model[u] /\ x.class = y.class
        BY <1>1, <2>2
      <3> QED
        BY <1>1, <1>2, <2>2, <3>1, HealthyAt DEF Sound
    <2> QED
      BY <2>1, <2>2
  <1>5. PICK a, b : a = ValueOf(heap, x) /\ b = ValueOf(heap, y)
    OBVIOUS
  <1>6. CASE AssignUndefined(x, y, u = w)
    <2>1. Undefined
      BY <1>1, <1>6 DEF AssignTo
    <2>2. /\ a.class = x.class
          /\ a.sub = Missing <=> x.sub = Missing
          /\ a.sub = Null <=> x.sub = Null
          /\ a.list = Missing <=> x.list = Missing
      BY <1>4, <1>5, ValueFacts
    <2>3. /\ b.class = y.class
          /\ b.sub = Missing <=> y.sub = Missing
          /\ b.sub = Null <=> y.sub = Null
          /\ b.list = ListValue(heap, y.list)
          /\ b.list = Missing <=> y.list = Missing
      BY <1>3, <1>5, ValueFacts
    <2>4. Values!CopyMayFail(a, b)
      <3>1. CASE x.sub # Missing /\ (x.sub = Null \/ y.sub \in {Null, Missing})
        BY <1>4, <2>2, <2>3, <3>1 DEF Values!CopyMayFail, Values!CopyUndefined
      <3>2. CASE x.list # Missing /\ y.list # Missing /\ \E i \in DOMAIN y.list : y.list[i] = Null
        <4>1. y.list \in Lists /\ \A q \in Items(y.list) : heap[q] # Null
          BY <1>3, <3>2, HealthyObject
        <4>2. DOMAIN y.list = 1..Len(y.list)
          BY <4>1 DEF Lists
        <4>3. DOMAIN b.list = 1..Len(y.list)
              /\ \A j \in 1..Len(y.list) : b.list[j] = Null <=> y.list[j] = Null
          BY <1>2, <2>3, <4>1, ListFacts
        <4>4. Values!Holds(b.list, Null)
          BY <3>2, <4>2, <4>3 DEF Values!Holds
        <4> QED
          BY <2>2, <2>3, <3>2, <4>4 DEF Values!CopyMayFail
      <3> QED
        BY <1>6, <3>1, <3>2 DEF AssignUndefined
    <2>5. a = IF model[u] = Dead THEN NewObject(model[w].class) ELSE ValueOf(heap, model[u])
      BY <1>1, <1>4, <1>5
    <2> QED
      BY <1>1, <1>5, <2>1, <2>4, <2>5, CopyFailStep
  <1>7. CASE ~AssignUndefined(x, y, u = w)
    <2>1. Apart({u, w})
      BY AssignIsLawful
    <2>2. PICK r \in Assigned(heap, x, y, u = w) :
            /\ heap' = CASE clears = "nothing" -> r.heap
                         [] clears = "source"  -> ClearedHeap(r.heap, Asked(x, y))
                         [] clears = "target"  -> ClearedHeap(r.heap, r.obj)
            /\ model'[w] = IF clears = "source" THEN Cleared(y) ELSE Asked(x, y)
            /\ model'[u] = IF clears = "target" THEN Cleared(r.obj) ELSE r.obj
            /\ wrong' = wrong
      BY <1>1, <1>2, <1>7 DEF AssignTo
    <2>3. PICK h2, xx, yy : h2 = heap' /\ xx = model'[u] /\ yy = model'[w]
      OBVIOUS
    <2>4. /\ fresh \in BOOLEAN
          /\ \/ h2 = r.heap /\ xx = r.obj /\ yy = Asked(x, y)
             \/ fresh /\ h2 = ClearedHeap(r.heap, Asked(x, y)) /\ xx = r.obj /\ yy = Cleared(y)
             \/ ~fresh /\ h2 = ClearedHeap(r.heap, r.obj) /\ xx = Cleared(r.obj) /\ yy = Asked(x, y)
      <3>1. CASE clears = "nothing"
        BY <1>1, <2>2, <2>3, <3>1
      <3>2. CASE clears = "source"
        BY <1>1, <2>2, <2>3, <3>2
      <3>3. CASE clears = "target"
        BY <1>1, <2>2, <2>3, <3>3
      <3> QED
        BY <3>1, <3>2, <3>3
    <2>5. <<ValueOf(h2, xx), ValueOf(h2, yy)>> \in Values!AfterBoth(a, b, fresh)
      BY <1>3, <1>4, <1>5, <1>7, <2>2, <2>4, AssignedValues
    <2>6. a = IF fresh THEN NewObject(model[w].class) ELSE ValueOf(heap, model[u])
      BY <1>4, <1>5
    <2>7. <<ValueOf(heap', model'[u]), ValueOf(heap', model'[w])>>
             \in Values!AfterBoth(a, ValueOf(heap, model[w]), fresh)
      BY <1>1, <1>5, <2>3, <2>5
    <2> QED
      BY <1>1, <2>1, <2>2, <2>6, <2>7, TwoObjectsStep
  <1> QED
    BY <1>6, <1>7

LEMMA CopyIsValue ==
    ASSUME Inv, ~wrong, NEW u \in Objs, NEW w \in Objs,
           \/ CopyConstruct(u, w) \/ MoveConstruct(u, w)
           \/ CopyAssign(u, w) \/ MoveAssign(u, w)
    PROVE  Values!AbsNext
  <1>1. CASE CopyConstruct(u, w)
    BY <1>1, AssignIsValue DEF CopyConstruct
  <1>2. CASE MoveConstruct(u, w)
    BY <1>2, AssignIsValue DEF MoveConstruct
  <1>3. CASE CopyAssign(u, w)
    <2>1. CASE u = w
      BY <1>3, <2>1, SelfAssignIsValue DEF CopyAssign, SameClass
    <2>2. CASE u # w
      BY <1>3, <2>2, AssignIsValue DEF CopyAssign, SameClass
    <2> QED
      BY <2>1, <2>2
  <1>4. CASE MoveAssign(u, w)
    <2>1. CASE u = w
      BY <1>4, <2>1, SelfAssignIsValue DEF MoveAssign, SameClass
    <2>2. CASE u # w
      BY <1>4, <2>2, AssignIsValue DEF MoveAssign, SameClass
    <2> QED
      BY <2>1, <2>2
  <1> QED
    BY <1>1, <1>2, <1>3, <1>4

-----------------------------------------------------------------------------
(* Values of lists *)

LEMMA EmptyReads ==
    ASSUME NEW h
    PROVE  <<>> \in Lists /\ ListValue(h, <<>>) = <<>>
  <1>1. <<>> \in Lists
    BY DEF Lists
  <1> QED
    BY <1>1, ItemsOf DEF ListValue

\* What ListAfter lists, one kind at a time.
LEMMA InListAfter ==
    ASSUME NEW k, NEW v \in Vals \cup {Null}
    PROVE  /\ <<>> \in Values!ListAfter(k)
           /\ Append(k, v) \in Values!ListAfter(k)
           /\ <<v>> \o k \in Values!ListAfter(k)
           /\ \A i \in DOMAIN k : /\ Tail(k) \in Values!ListAfter(k)
                                 /\ SubSeq(k, 1, Len(k) - 1) \in Values!ListAfter(k)
                                 /\ [k EXCEPT ![i] = v] \in Values!ListAfter(k)
  <1>1. Append(k, v) \in Values!ListAfter(k)
    BY DEF Values!ListAfter
  <1>2. Values!Prepend(v, k) \in Values!ListAfter(k)
    BY DEF Values!ListAfter
  <1>3. ASSUME NEW i \in DOMAIN k
        PROVE  Tail(k) \in Values!ListAfter(k)
    BY DEF Values!ListAfter
  <1>4. ASSUME NEW i \in DOMAIN k
        PROVE  SubSeq(k, 1, Len(k) - 1) \in Values!ListAfter(k)
    BY DEF Values!ListAfter
  <1>5. ASSUME NEW i \in DOMAIN k
        PROVE  [k EXCEPT ![i] = v] \in Values!ListAfter(k)
    BY DEF Values!ListAfter
  <1>6. <<>> \in Values!ListAfter(k)
    BY DEF Values!ListAfter
  <1>7. <<v>> \o k = Values!Prepend(v, k)
    BY DEF Values!Prepend
  <1> QED
    BY <1>1, <1>2, <1>3, <1>4, <1>5, <1>6, <1>7, Zenon

LEMMA PushReads ==
    ASSUME NEW h \in Heaps, NEW l \in Lists, \A a \in Items(l) : h[a] # Null,
           NEW h2, Kept(h, Items(l), h2),
           NEW p \in Addr \cup {Null}, NEW v \in Vals \cup {Null}, Reads(h2, p, v)
    PROVE  /\ ListValue(h2, Append(l, p)) \in Values!ListAfter(ListValue(h, l))
           /\ ListValue(h2, <<p>> \o l) \in Values!ListAfter(ListValue(h, l))
  <1>1. PICK k, n : k = ListValue(h, l) /\ n = Len(l)
    OBVIOUS
  <1>2. /\ k \in Seq(Vals \cup {Null}) /\ n \in Nat /\ Len(k) = n
        /\ \A i \in 1..n : k[i] = Leaf(h, l[i])
    BY <1>1, ListFacts
  <1>3. \A i \in 1..n : Leaf(h2, l[i]) = k[i]
    BY <1>1, <1>2, ItemsOf, ValsAssumption DEF Leaf, Kept
  <1>4. ListValue(h2, Append(l, p)) = Append(k, v)
    <2>1. PICK m, c : m = Append(l, p) /\ c = Append(k, v)
      OBVIOUS
    <2>2. /\ m \in Lists /\ DOMAIN m = 1..(n + 1) /\ m[n + 1] = p
          /\ \A i \in 1..n : m[i] = l[i]
      BY <1>1, <2>1 DEF Lists
    <2>3. ListValue(h2, m) = [i \in 1..(n + 1) |-> Leaf(h2, m[i])]
      BY <2>2, ItemsOf DEF ListValue
    <2>4. /\ c \in Seq(Vals \cup {Null}) /\ Len(c) = n + 1 /\ c[n + 1] = v
          /\ \A i \in 1..n : c[i] = k[i]
      <3>1. c \in Seq(Vals \cup {Null}) /\ Len(c) = n + 1
        BY <1>2, <2>1
      <3>2. c[n + 1] = v /\ \A i \in 1..n : c[i] = k[i]
        BY <1>2, <2>1
      <3> QED
        BY <3>1, <3>2
    <2>5. \A i \in 1..(n + 1) : Leaf(h2, m[i]) = c[i]
      <3> SUFFICES ASSUME NEW i \in 1..(n + 1)
                   PROVE  Leaf(h2, m[i]) = c[i]
        OBVIOUS
      <3>1. CASE i = n + 1
        BY <2>2, <2>4, <3>1 DEF Reads
      <3>2. CASE i # n + 1
        <4>1. i \in 1..n
          BY <1>2, <3>2
        <4> QED
          BY <1>3, <2>2, <2>4, <4>1
      <3> QED
        BY <3>1, <3>2
    <2>6. c = [i \in 1..(n + 1) |-> c[i]]
      BY <1>2, <2>4
    <2> QED
      BY <2>1, <2>3, <2>5, <2>6
  <1>5. ListValue(h2, <<p>> \o l) = <<v>> \o k
    <2>1. PICK m, c : m = <<p>> \o l /\ c = <<v>> \o k
      OBVIOUS
    <2>2. /\ m \in Lists /\ DOMAIN m = 1..(n + 1) /\ m[1] = p
          /\ \A i \in 1..n : m[i + 1] = l[i]
      BY <1>1, <2>1 DEF Lists
    <2>3. ListValue(h2, m) = [i \in 1..(n + 1) |-> Leaf(h2, m[i])]
      BY <2>2, ItemsOf DEF ListValue
    <2>4. /\ c \in Seq(Vals \cup {Null}) /\ Len(c) = n + 1 /\ c[1] = v
          /\ \A i \in 1..n : c[i + 1] = k[i]
      BY <1>2, <2>1
    <2>5. \A i \in 1..(n + 1) : Leaf(h2, m[i]) = c[i]
      <3> SUFFICES ASSUME NEW i \in 1..(n + 1)
                   PROVE  Leaf(h2, m[i]) = c[i]
        OBVIOUS
      <3>1. CASE i = 1
        BY <2>2, <2>4, <3>1 DEF Reads
      <3>2. CASE i # 1
        <4>1. PICK j \in 1..n : i = j + 1
          BY <1>2, <3>2
        <4> QED
          BY <1>3, <2>2, <2>4, <4>1
      <3> QED
        BY <3>1, <3>2
    <2>6. c = [i \in 1..(n + 1) |-> c[i]]
      BY <1>2, <2>4
    <2> QED
      BY <2>1, <2>3, <2>5, <2>6
  <1> QED
    BY <1>1, <1>4, <1>5, InListAfter

LEMMA PopReads ==
    ASSUME NEW h \in Heaps, NEW l \in Lists, \A a \in Items(l) : h[a] # Null, l # <<>>,
           NEW h2
    PROVE  /\ Kept(h, Items(Tail(l)), h2)
                => ListValue(h2, Tail(l)) \in Values!ListAfter(ListValue(h, l))
           /\ Kept(h, Items(SubSeq(l, 1, Len(l) - 1)), h2)
                => ListValue(h2, SubSeq(l, 1, Len(l) - 1)) \in Values!ListAfter(ListValue(h, l))
  <1>1. PICK k, n : k = ListValue(h, l) /\ n = Len(l)
    OBVIOUS
  <1>2. /\ k \in Seq(Vals \cup {Null}) /\ n \in Nat /\ n > 0 /\ Len(k) = n
        /\ DOMAIN k = 1..n /\ 1 \in DOMAIN k
        /\ \A i \in 1..n : k[i] = Leaf(h, l[i])
    <2>1. n \in Nat /\ n > 0
      BY <1>1 DEF Lists
    <2> QED
      BY <1>1, <2>1, ListFacts
  <1>3. Kept(h, Items(Tail(l)), h2) => ListValue(h2, Tail(l)) = Tail(k)
    <2>1. PICK m, c : m = Tail(l) /\ c = Tail(k)
      OBVIOUS
    <2>2. /\ m \in Lists /\ DOMAIN m = 1..(n - 1)
          /\ \A i \in 1..(n - 1) : m[i] = l[i + 1]
      BY <1>1, <1>2, <2>1 DEF Lists
    <2>3. /\ c = [i \in 1..(n - 1) |-> c[i]]
          /\ \A i \in 1..(n - 1) : c[i] = k[i + 1]
      <3>1. /\ c \in Seq(Vals \cup {Null}) /\ Len(c) = n - 1
            /\ \A i \in 1..(n - 1) : c[i] = k[i + 1]
        BY <1>2, <2>1
      <3> QED
        BY <1>2, <3>1
    <2>4. ListValue(h, m) = [i \in 1..(n - 1) |-> Leaf(h, m[i])]
      BY <2>2, ItemsOf DEF ListValue
    <2>5. ListValue(h, m) = c
      BY <1>2, <2>2, <2>3, <2>4
    <2>6. Kept(h, Items(m), h2) => ListValue(h2, m) = ListValue(h, m)
      BY <2>2, ListValueKept DEF Kept
    <2> QED
      BY <2>1, <2>5, <2>6
  <1>4. Kept(h, Items(SubSeq(l, 1, n - 1)), h2)
           => ListValue(h2, SubSeq(l, 1, n - 1)) = SubSeq(k, 1, n - 1)
    <2>1. PICK m, c : m = SubSeq(l, 1, n - 1) /\ c = SubSeq(k, 1, n - 1)
      OBVIOUS
    <2>2. /\ m \in Lists /\ DOMAIN m = 1..(n - 1)
          /\ \A i \in 1..(n - 1) : m[i] = l[i]
      BY <1>1, <1>2, <2>1 DEF Lists
    <2>3. /\ c = [i \in 1..(n - 1) |-> c[i]]
          /\ \A i \in 1..(n - 1) : c[i] = k[i]
      <3>1. /\ c \in Seq(Vals \cup {Null}) /\ Len(c) = n - 1
            /\ \A i \in 1..(n - 1) : c[i] = k[i]
        BY <1>2, <2>1
      <3> QED
        BY <1>2, <3>1
    <2>4. ListValue(h, m) = [i \in 1..(n - 1) |-> Leaf(h, m[i])]
      BY <2>2, ItemsOf DEF ListValue
    <2>5. ListValue(h, m) = c
      BY <1>2, <2>2, <2>3, <2>4
    <2>6. Kept(h, Items(m), h2) => ListValue(h2, m) = ListValue(h, m)
      BY <2>2, ListValueKept DEF Kept
    <2> QED
      BY <2>1, <2>5, <2>6
  <1>5. Tail(k) \in Values!ListAfter(k) /\ SubSeq(k, 1, n - 1) \in Values!ListAfter(k)
    <2>1. PICK d : d = SubSeq(k, 1, Len(k) - 1)
      OBVIOUS
    <2>2. Tail(k) \in Values!ListAfter(k) /\ d \in Values!ListAfter(k)
      BY <1>2, <2>1, InListAfter, ValsAssumption
    <2> QED
      BY <1>2, <2>1, <2>2
  <1> QED
    BY <1>1, <1>3, <1>4, <1>5

LEMMA SetReads ==
    ASSUME NEW h \in Heaps, NEW l \in Lists, \A a \in Items(l) : h[a] # Null, NoRepeats(l),
           NEW i \in 1..Len(l), NEW h2, Kept(h, Items(l) \ {l[i]}, h2),
           NEW p \in Addr \cup {Null}, NEW v \in Vals \cup {Null}, Reads(h2, p, v)
    PROVE  ListValue(h2, [l EXCEPT ![i] = p]) \in Values!ListAfter(ListValue(h, l))
  <1>1. PICK k, n : k = ListValue(h, l) /\ n = Len(l)
    OBVIOUS
  <1>2. /\ k \in Seq(Vals \cup {Null}) /\ n \in Nat /\ DOMAIN k = 1..n
        /\ \A j \in 1..n : k[j] = Leaf(h, l[j])
    BY <1>1, ListFacts
  <1>3. \A j \in 1..n : j # i => Leaf(h2, l[j]) = k[j]
    <2> SUFFICES ASSUME NEW j \in 1..n, j # i
                 PROVE  Leaf(h2, l[j]) = k[j]
      OBVIOUS
    <2>1. l[j] = Null \/ (l[j] \in Items(l) /\ l[j] # l[i])
      BY <1>1, ItemsOf DEF NoRepeats
    <2> QED
      BY <1>2, <2>1, ValsAssumption DEF Leaf, Kept
  <1>4. PICK m : m = [l EXCEPT ![i] = p]
    OBVIOUS
  <1>5. /\ m \in Lists /\ DOMAIN m = 1..n /\ m[i] = p
        /\ \A j \in 1..n : j # i => m[j] = l[j]
    BY <1>1, <1>4 DEF Lists
  <1>6. ListValue(h2, m) = [j \in 1..n |-> Leaf(h2, m[j])]
    BY <1>5, ItemsOf DEF ListValue
  <1>7. \A j \in 1..n : Leaf(h2, m[j]) = IF j = i THEN v ELSE k[j]
    BY <1>3, <1>5 DEF Reads
  <1>8. PICK b : b = [k EXCEPT ![i] = v]
    OBVIOUS
  <1>9. ListValue(h2, m) = b
    BY <1>1, <1>2, <1>6, <1>7, <1>8
  <1>10. b \in Values!ListAfter(k)
    <2>1. i \in DOMAIN k
      BY <1>1, <1>2
    <2>2. [k EXCEPT ![i] = v] \in Values!ListAfter(k)
      BY <2>1, InListAfter, Zenon
    <2> QED
      BY <1>8, <2>2
  <1> QED
    BY <1>1, <1>4, <1>9, <1>10

-----------------------------------------------------------------------------
(* List operations as steps of values *)

\* A list operation leaves the other members of its object as they are.
LEMMA KeptMembers ==
    ASSUME NEW h, NEW x, Healthy(h, x), NEW D, D \subseteq Items(x.list) \cup {Null},
           NEW h2, Kept(h, Own(x) \ D, h2)
    PROVE  SameLeaf(h, h2, x.sub) /\ Kept(h, Items(x.list) \ D, h2)
  <1>1. /\ Own(x) = Items(x.list) \cup ({x.sub} \cap Addr)
        /\ x.sub \notin Items(x.list) /\ Null \notin Addr
    BY HealthyObject, ValsAssumption
  <1> QED
    BY <1>1 DEF Kept, SameLeaf, Leaf

LEMMA DeleteKeeps ==
    ASSUME NEW h, NEW x, Healthy(h, x), NEW D
    PROVE  Kept(h, Own(x) \ D, Delete(h, D))
  BY OwnInAddr DEF Healthy, Kept, Delete

LEMMA ListMemberStep ==
    ASSUME Inv, NEW u \in Objs, HasList(u), NEW l \in Lists, SetList(u, l),
           Lawful, Apart({u}), wrong' = wrong,
           NEW h2, h2 = heap', SameLeaf(heap, h2, model[u].sub),
           ListValue(h2, l) \in Values!ListAfter(ListValue(heap, model[u].list))
    PROVE  Values!AbsNext
  <1>1. PICK x, z, t : /\ x = model[u]
                       /\ z = ValueOf(heap, model[u]) /\ t = ValueOf(heap', model'[u])
    OBVIOUS
  <1>2. /\ x \in Object /\ model[u] # Dead
        /\ z.class = x.class /\ z.plain = x.plain
        /\ z.sub = Leaf(heap, x.sub) /\ z.list = ListValue(heap, x.list) /\ z.list # Missing
    BY <1>1, ValueAt DEF HasList, Healthy
  <1>3. PICK y : y = [x EXCEPT !.list = l]
    OBVIOUS
  <1>4. /\ y \in Object /\ y # Dead /\ y.list = l /\ y.sub = x.sub
        /\ y.class = x.class /\ y.plain = x.plain
    <2>1. /\ y \in Object /\ y.list = l /\ y.sub = x.sub
          /\ y.class = x.class /\ y.plain = x.plain
      BY <1>2, <1>3 DEF Object, Lists
    <2> QED
      BY <2>1, ObjectAssumption
  <1>5. model'[u] = y
    BY <1>1, <1>3 DEF SetList, Inv, Sound
  <1>6. /\ t.class = y.class /\ t.plain = y.plain
        /\ t.sub = Leaf(heap', y.sub) /\ t.list = ListValue(heap', y.list)
    BY <1>1, <1>4, <1>5, ValueAfter DEF Lawful
  <1>7. t.sub = z.sub
    BY <1>1, <1>2, <1>4, <1>6 DEF SameLeaf
  <1>8. t.list \in Values!ListAfter(z.list)
    BY <1>1, <1>2, <1>4, <1>6
  <1> QED
    BY <1>1, <1>2, <1>4, <1>5, <1>6, <1>7, <1>8, MemberStep

LEMMA PushIsValue ==
    ASSUME Inv, NEW u \in Objs, HasList(u), NEW v \in Vals \cup {Null},
           push_back(u, v) \/ push_front(u, v)
    PROVE  Values!AbsNext
  <1>1. PICK x, l : x = model[u] /\ l = model[u].list
    OBVIOUS
  <1>2. /\ Healthy(heap, x) /\ heap \in Heaps /\ l \in Lists /\ NoRepeats(l) /\ l = x.list
        /\ \A a \in Items(l) : heap[a] # Null
        /\ \A a \in Own(x) : heap[a] # Null
        /\ Own(x) \subseteq Addr
    BY <1>1, ListAt, HealthyObject, OwnInAddr DEF Healthy
  <1>3. Delete(heap, {}) = heap
    <2>1. heap = [a \in Addr |-> heap[a]]
      BY <1>2 DEF Heaps
    <2> QED
      BY <2>1 DEF Delete
  <1>4. PICK c \in Cloned(heap, v) :
            heap' = c.heap /\ (SetList(u, Append(l, c.ptr)) \/ SetList(u, <<c.ptr>> \o l))
    BY <1>1 DEF push_back, push_front
  <1>5. PICK D : D = {}
    OBVIOUS
  <1>6. c \in Cloned(Delete(heap, D), v)
    BY <1>3, <1>5
  <1>7. Reads(c.heap, c.ptr, v) /\ Kept(heap, Own(x) \ D, c.heap)
    BY <1>2, <1>6, ClonedReads
  <1>8. PICK p, h2 : p = c.ptr /\ h2 = c.heap
    OBVIOUS
  <1>9. p \in Addr \cup {Null} /\ p \notin Items(l)
    BY <1>2, <1>5, <1>6, <1>8, ClonedIs
  <1>10. SameLeaf(heap, h2, x.sub) /\ Kept(heap, Items(l), h2)
    <2>1. SameLeaf(heap, h2, x.sub) /\ Kept(heap, Items(l) \ D, h2)
      BY <1>2, <1>5, <1>7, <1>8, KeptMembers
    <2> QED
      BY <1>5, <2>1
  <1>11. Lawful /\ Apart({u}) /\ wrong' = wrong
    BY PushIsLawful DEF push_back, push_front
  <1>12. PICK k : k \in {Append(l, p), <<p>> \o l} /\ SetList(u, k)
    BY <1>4, <1>8
  <1>13. k \in Lists
    <2>1. Append(l, p) \in Lists
      BY <1>2, <1>9, ItemsAppend
    <2>2. <<p>> \o l \in Lists
      BY <1>2, <1>9, ItemsPrepend
    <2> QED
      BY <1>12, <2>1, <2>2
  <1>14. ListValue(h2, k) \in Values!ListAfter(ListValue(heap, l))
    BY <1>2, <1>7, <1>8, <1>9, <1>10, <1>12, PushReads
  <1> QED
    BY <1>1, <1>4, <1>8, <1>10, <1>11, <1>12, <1>13, <1>14, ListMemberStep

\* An operation that deletes D, the only thing that happens to the heap.
LEMMA DeletingIsValue ==
    ASSUME Inv, NEW u \in Objs, HasList(u),
           NEW D, D \subseteq Items(model[u].list) \cup {Null}, heap' = Delete(heap, D),
           NEW l \in Lists, SetList(u, l), Lawful, Apart({u}), wrong' = wrong,
           Kept(heap, Items(model[u].list) \ D, Delete(heap, D))
               => ListValue(Delete(heap, D), l) \in Values!ListAfter(ListValue(heap, model[u].list))
    PROVE  Values!AbsNext
  <1>1. PICK x, h2 : x = model[u] /\ h2 = Delete(heap, D)
    OBVIOUS
  <1>2. Healthy(heap, x)
    BY <1>1, ListAt
  <1>3. Kept(heap, Own(x) \ D, h2)
    BY <1>1, <1>2, DeleteKeeps
  <1>4. SameLeaf(heap, h2, x.sub) /\ Kept(heap, Items(x.list) \ D, h2)
    BY <1>1, <1>2, <1>3, KeptMembers
  <1> QED
    BY <1>1, <1>4, ListMemberStep

LEMMA PopIsValue ==
    ASSUME Inv, ~wrong, NEW u \in Objs, HasList(u), pop_front(u) \/ pop_back(u)
    PROVE  Values!AbsNext
  <1>1. PICK x, l : x = model[u] /\ l = model[u].list
    OBVIOUS
  <1>2. /\ Healthy(heap, x) /\ heap \in Heaps /\ l \in Lists /\ NoRepeats(l) /\ l = x.list
        /\ \A a \in Items(l) : heap[a] # Null
        /\ Len(l) \in Nat /\ Len(l) <= MaxLen
    BY <1>1, ListAt, HealthyObject
  <1>3. CASE l = <<>>
    <2>1. Undefined
      BY <1>1, <1>3 DEF pop_front, pop_back
    <2>2. PICK z : z = ValueOf(heap, model[u])
      OBVIOUS
    <2>3. z.list # Missing /\ z.list = <<>>
      <3>1. z.list = ListValue(heap, l) /\ z.list # Missing
        BY <1>1, <2>2, ValueAt DEF HasList
      <3>2. ListValue(heap, l) = <<>>
        BY <1>3, EmptyReads
      <3> QED
        BY <3>1, <3>2
    <2>4. Values!MayFail(z)
      BY <2>3 DEF Values!MayFail
    <2> QED
      BY <2>1, <2>2, <2>4, FailStep DEF HasList
  <1>4. CASE l # <<>>
    <2>1. Len(l) # 0 /\ Len(l) > 0
      BY <1>2, <1>4 DEF Lists
    <2>2. Lawful /\ Apart({u}) /\ wrong' = wrong
      BY <1>1, <1>4, <2>1, PopIsLawful DEF pop_front, pop_back
    <2>3. CASE heap' = Delete(heap, {Head(l)}) /\ SetList(u, Tail(l))
      <3>1. PICK k, D : k = Tail(l) /\ D = {Head(l)}
        OBVIOUS
      <3>2. k \in Lists /\ Items(k) = Items(l) \ D
        BY <1>2, <1>4, <3>1, ItemsTail
      <3>3. D \subseteq Items(l) \cup {Null}
        <4>1. Head(l) = l[1] /\ 1 \in 1..Len(l)
          BY <1>2, <2>1 DEF Lists
        <4> QED
          BY <1>2, <3>1, <4>1, ItemsOf
      <3>4. Kept(heap, Items(l) \ D, Delete(heap, D))
               => ListValue(Delete(heap, D), k) \in Values!ListAfter(ListValue(heap, l))
        BY <1>2, <1>4, <3>1, <3>2, PopReads
      <3> QED
        BY <1>1, <2>2, <2>3, <3>1, <3>2, <3>3, <3>4, DeletingIsValue
    <2>4. CASE heap' = Delete(heap, {l[Len(l)]}) /\ SetList(u, SubSeq(l, 1, Len(l) - 1))
      <3>1. PICK k, D : k = SubSeq(l, 1, Len(l) - 1) /\ D = {l[Len(l)]}
        OBVIOUS
      <3>2. k \in Lists /\ Items(k) = Items(l) \ D
        BY <1>2, <2>1, <3>1, ItemsFront
      <3>3. D \subseteq Items(l) \cup {Null}
        <4>1. Len(l) \in 1..Len(l)
          BY <1>2, <2>1
        <4> QED
          BY <1>2, <3>1, <4>1, ItemsOf
      <3>4. Kept(heap, Items(l) \ D, Delete(heap, D))
               => ListValue(Delete(heap, D), k) \in Values!ListAfter(ListValue(heap, l))
        BY <1>2, <1>4, <3>1, <3>2, PopReads
      <3> QED
        BY <1>1, <2>2, <2>4, <3>1, <3>2, <3>3, <3>4, DeletingIsValue
    <2> QED
      BY <1>1, <1>4, <2>1, <2>3, <2>4 DEF pop_front, pop_back
  <1> QED
    BY <1>3, <1>4

LEMMA SetIsValue ==
    ASSUME Inv, ~wrong, NEW u \in Objs, HasList(u), NEW i \in DOMAIN model[u].list,
           NEW arg \in Vals \cup {Null, model[u].list[i]}, set(u, i, arg)
    PROVE  Values!AbsNext
  <1>1. PICK x, l : x = model[u] /\ l = model[u].list
    OBVIOUS
  <1>2. /\ Healthy(heap, x) /\ heap \in Heaps /\ l \in Lists /\ NoRepeats(l) /\ l = x.list
        /\ \A a \in Items(l) : heap[a] # Null
        /\ \A a \in Own(x) : heap[a] # Null
        /\ Own(x) \subseteq Addr
        /\ i \in 1..Len(l) /\ DOMAIN l = 1..Len(l)
        /\ l[i] \in Items(l) \cup {Null} /\ l[i] \in Addr \cup {Null}
    <2>1. /\ Healthy(heap, x) /\ heap \in Heaps /\ l \in Lists /\ NoRepeats(l) /\ l = x.list
          /\ i \in 1..Len(l) /\ DOMAIN l = 1..Len(l)
      BY <1>1, ListAt
    <2> QED
      BY <2>1, HealthyObject, OwnInAddr, ItemsOf DEF Healthy
  <1>3. CASE arg \in Addr
    <2>1. Undefined
      BY <1>3 DEF set
    <2>2. arg = l[i] /\ l[i] # Null
      BY <1>1, <1>3, ValsAssumption
    <2>3. PICK z : z = ValueOf(heap, model[u])
      OBVIOUS
    <2>4. z.list # Missing /\ z.list = ListValue(heap, l)
      BY <1>1, <2>3, ValueAt DEF HasList
    <2>5. i \in DOMAIN z.list /\ z.list[i] # Null
      BY <1>2, <2>2, <2>4, ListFacts
    <2>6. Values!MayFail(z)
      BY <2>4, <2>5 DEF Values!MayFail
    <2> QED
      BY <2>1, <2>3, <2>6, FailStep DEF HasList
  <1>4. CASE arg \notin Addr
    <2>1. arg \in Vals \cup {Null}
      BY <1>1, <1>2, <1>4
    <2>2. PICK c \in Cloned(Delete(heap, {l[i]}), arg) :
              heap' = c.heap /\ SetList(u, [l EXCEPT ![i] = c.ptr])
      BY <1>1, <1>4 DEF set
    <2>3. PICK D, p, h2, k : D = {l[i]} /\ p = c.ptr /\ h2 = c.heap /\ k = [l EXCEPT ![i] = c.ptr]
      OBVIOUS
    <2>4. c \in Cloned(Delete(heap, D), arg)
      BY <2>3
    <2>5. Reads(h2, p, arg) /\ Kept(heap, Own(x) \ D, h2)
      BY <1>2, <2>1, <2>3, <2>4, ClonedReads
    <2>6. p \in Addr \cup {Null} /\ p \notin Items(l) \ D
      BY <1>2, <2>1, <2>3, <2>4, ClonedIs
    <2>7. SameLeaf(heap, h2, x.sub) /\ Kept(heap, Items(l) \ D, h2)
      BY <1>2, <2>3, <2>5, KeptMembers
    <2>8. k \in Lists
      BY <1>2, <2>3, <2>6, ItemsExcept
    <2>9. ListValue(h2, k) \in Values!ListAfter(ListValue(heap, l))
      BY <1>2, <2>1, <2>3, <2>5, <2>6, <2>7, SetReads
    <2>10. Lawful /\ Apart({u}) /\ wrong' = wrong
      BY <1>4, SetIsLawful DEF set
    <2> QED
      BY <1>1, <2>2, <2>3, <2>7, <2>8, <2>9, <2>10, ListMemberStep
  <1> QED
    BY <1>3, <1>4

LEMMA ListClearIsValue ==
    ASSUME Inv, NEW u \in Objs, HasList(u), list_clear(u)
    PROVE  Values!AbsNext
  <1>1. Lawful /\ Apart({u}) /\ wrong' = wrong
    BY ListClearIsLawful DEF list_clear
  <1>2. PICK l : l = <<>>
    OBVIOUS
  <1>3. l \in Lists /\ \A h : ListValue(h, l) = <<>>
    BY <1>2, EmptyReads
  <1>4. <<>> \in Values!ListAfter(ListValue(heap, model[u].list))
    BY InListAfter
  <1> QED
    BY <1>1, <1>2, <1>3, <1>4, DeletingIsValue DEF list_clear

\* The values of a list copied from another one.
LEMMA CopiedList ==
    ASSUME NEW h, NEW h2, NEW src \in Lists, NEW s \in Lists, Len(s) = Len(src),
           \A i \in 1..Len(src) : s[i] \in Addr /\ src[i] \in Addr,
           NEW vals, Written(h2, s, Len(src), vals),
           \A i \in 1..Len(src) : vals[i] = h[src[i]]
    PROVE  ListValue(h2, s) = ListValue(h, src)
  <1>1. PICK n : n = Len(src)
    OBVIOUS
  <1>2. DOMAIN s = 1..n /\ DOMAIN src = 1..n /\ s # Missing /\ src # Missing
    BY <1>1, ItemsOf DEF Lists
  <1>3. \A i \in 1..n : Leaf(h2, s[i]) = Leaf(h, src[i])
    BY <1>1 DEF Leaf, Written
  <1> QED
    BY <1>2, <1>3 DEF ListValue

\* One list assigned to another of a different object: what the two lists read.
LEMMA ListAssignReads ==
    ASSUME Inv, NEW u \in Objs, HasList(u), NEW w \in Objs, HasList(w), u # w,
           NEW moved \in BOOLEAN, list_assign(u, w, moved),
           \A i \in DOMAIN model[w].list : model[w].list[i] # Null
    PROVE  \E s, t \in Lists : \E h2 :
              /\ heap' = h2 /\ t = IF moved THEN <<>> ELSE model[w].list
              /\ model' = [model EXCEPT ![w].list = t, ![u].list = s]
              /\ ListValue(h2, s) = ListValue(heap, model[w].list)
              /\ ListValue(h2, t) = IF moved THEN <<>> ELSE ListValue(heap, model[w].list)
              /\ SameLeaf(heap, h2, model[u].sub) /\ SameLeaf(heap, h2, model[w].sub)
  <1>1. PICK x, y, src : x = model[u] /\ y = model[w] /\ src = model[w].list
    OBVIOUS
  <1>2. /\ Healthy(heap, x) /\ Healthy(heap, y) /\ heap \in Heaps
        /\ x \in Object /\ y \in Object
        /\ src \in Lists /\ NoRepeats(src) /\ Len(src) \in Nat /\ Len(src) <= MaxLen
        /\ DOMAIN src = 1..Len(src) /\ x.list # Missing /\ y.list = src
    BY <1>1, ListAt DEF Healthy, HasList
  <1> DEFINE g == Delete(heap, Items(x.list))
             vals(s) == [i \in DOMAIN s |-> g[src[i]]]
  <1>3. ~\E i \in DOMAIN src : src[i] = Null
    BY <1>1
  <1>4. PICK s \in Allocated(g, Len(src)) :
          /\ heap' = IF moved THEN Delete(Stored(g, s, vals(s)), Items(src)) ELSE Stored(g, s, vals(s))
          /\ model' = [model EXCEPT ![w].list = IF moved THEN <<>> ELSE @, ![u].list = s]
    BY <1>1, <1>3 DEF list_assign
  <1>5. /\ \A a \in Own(y) : a \notin Items(x.list) /\ heap[a] # Null /\ a \in Addr
        /\ Items(src) \subseteq Own(y)
        /\ Own(x) \cap Own(y) = {}
    <2>1. Own(x) \cap Own(y) = {}
      BY <1>1 DEF Inv, Sound
    <2>2. Items(x.list) \subseteq Own(x) /\ Items(src) \subseteq Own(y)
      BY <1>2, HealthyObject
    <2>3. \A a \in Own(y) : heap[a] # Null /\ a \in Addr
      BY <1>2, OwnInAddr DEF Healthy
    <2> QED
      BY <2>1, <2>2, <2>3
  <1>6. \A i \in 1..Len(src) : src[i] \in Own(y) /\ g[src[i]] = heap[src[i]] /\ heap[src[i]] \in Vals
    <2> SUFFICES ASSUME NEW i \in 1..Len(src)
                 PROVE  src[i] \in Own(y) /\ g[src[i]] = heap[src[i]] /\ heap[src[i]] \in Vals
      OBVIOUS
    <2>1. src[i] \in Items(src)
      BY <1>2, <1>3, ItemsOf
    <2>2. src[i] \in Own(y)
      BY <1>5, <2>1
    <2> QED
      BY <1>2, <1>5, <2>2 DEF Delete, Heaps
  <1>7. s \in [1..Len(src) -> Addr]
    BY DEF Allocated, FreeIn
  <1>8. s \in Lists /\ Len(s) = Len(src)
    BY <1>2, <1>7 DEF Lists
  <1>9. \A i \in 1..Len(src) : vals(s)[i] = heap[src[i]] /\ vals(s)[i] \in Vals
    BY <1>6, <1>7
  <1>10. PICK o : o = [x EXCEPT !.list = s]
    OBVIOUS
  <1>11. o \in Object /\ o.sub = x.sub /\ o.list = s
    BY <1>2, <1>8, <1>10 DEF Object, Lists
  <1> HIDE DEF vals
  <1>12. PICK h1 : h1 = Stored(g, s, vals(s))
    OBVIOUS
  <1>13. /\ Replaces(heap, x, h1, o)
         /\ Written(h1, s, Len(src), vals(s))
         /\ SameLeaf(heap, h1, x.sub)
    BY <1>2, <1>9, <1>11, <1>12, ListCopied
  <1> HIDE DEF g
  <1>14. Kept(heap, Own(y), h1) /\ \A i \in 1..Len(src) : s[i] \in Own(o)
    <2>1. Kept(heap, Own(y), h1)
      BY <1>5, <1>13 DEF Replaces, Kept
    <2>2. Own(o) = Items(s) \cup ({x.sub} \cap Addr)
      BY <1>11, ObjectAssumption DEF Own
    <2>3. \A i \in 1..Len(src) : s[i] \in Items(s)
      BY <1>7, <1>8, ItemsOf, ValsAssumption
    <2> QED
      BY <2>1, <2>2, <2>3
  <1>15. ListValue(h1, s) = ListValue(heap, src)
    <2>1. \A i \in 1..Len(src) : s[i] \in Addr /\ src[i] \in Addr
      BY <1>5, <1>6, <1>7
    <2>2. PICK v : v = vals(s)
      OBVIOUS
    <2>3. Written(h1, s, Len(src), v) /\ \A i \in 1..Len(src) : v[i] = heap[src[i]]
      BY <1>9, <1>13, <2>2
    <2> QED
      BY <1>2, <1>8, <2>1, <2>3, CopiedList
  <1>16. /\ SameLeaf(heap, h1, y.sub) /\ ListValue(h1, src) = ListValue(heap, src)
    <2>1. Own(y) = Items(src) \cup ({y.sub} \cap Addr)
      BY <1>2, HealthyObject
    <2>2. SameLeaf(heap, h1, y.sub)
      BY <1>14, <2>1 DEF SameLeaf, Leaf, Kept
    <2>3. \A a \in Items(src) : h1[a] = heap[a]
      BY <1>14, <2>1 DEF Kept
    <2> QED
      BY <1>2, <2>2, <2>3, ListValueKept
  <1>17. CASE ~moved
    BY <1>1, <1>2, <1>4, <1>8, <1>12, <1>13, <1>15, <1>16, <1>17
  <1>18. CASE moved
    <2>1. PICK D, h2 : D = Items(src) /\ h2 = Delete(h1, D)
      OBVIOUS
    <2>2. \A a \in Addr \ D : h2[a] = h1[a]
      BY <2>1 DEF Delete
    <2>3. /\ Own(x) \cap D = {} /\ y.sub \notin D
          /\ x.sub \in Addr => x.sub \in Own(x)
      BY <1>2, <1>5, <2>1, HealthyObject
    <2>4. SameLeaf(heap, h2, x.sub) /\ SameLeaf(heap, h2, y.sub)
      BY <1>13, <1>16, <2>2, <2>3 DEF SameLeaf, Leaf
    <2>5. \A a \in Items(s) : h2[a] = h1[a]
      <3>1. Items(s) \subseteq Own(o)
        BY <1>11, ObjectAssumption DEF Own
      <3>2. Own(o) \cap D = {}
        BY <1>5, <1>13, <2>1 DEF Replaces
      <3>3. Items(s) \subseteq Addr
        BY <1>8, ItemsOf
      <3> QED
        BY <2>2, <3>1, <3>2, <3>3
    <2>6. ListValue(h2, s) = ListValue(h1, s)
      BY <1>8, <2>5, ListValueKept
    <2>7. PICK t : t = <<>>
      OBVIOUS
    <2>8. t \in Lists /\ ListValue(h2, t) = <<>>
      BY <2>7, EmptyReads
    <2>9. model' = [model EXCEPT ![w].list = t, ![u].list = s]
      BY <1>4, <1>18, <2>7
    <2>10. heap' = h2
      BY <1>4, <1>12, <1>18, <2>1
    <2> QED
      BY <1>1, <1>8, <1>15, <1>18, <2>4, <2>6, <2>7, <2>8, <2>9, <2>10
  <1> QED
    BY <1>17, <1>18

\* A list assigned to itself is cleared.
LEMMA SelfListAssign ==
    ASSUME Inv, NEW u \in Objs, HasList(u), NEW moved \in BOOLEAN, list_assign(u, u, moved)
    PROVE  list_clear(u)
  <1>1. PICK g : g = Delete(heap, Items(model[u].list))
    OBVIOUS
  <1>2. g \in Heaps /\ g = [a \in Addr |-> g[a]]
    BY <1>1 DEF Delete, Heaps, Inv, Sound
  <1>3. /\ Len(<<>>) = 0 /\ DOMAIN <<>> = {} /\ Items(<<>>) = {}
    BY ValsAssumption DEF Items
  <1>4. PICK s \in Allocated(g, 0) : \E vals :
            /\ heap' = IF moved THEN Delete(Stored(g, s, vals), {}) ELSE Stored(g, s, vals)
            /\ model' = [model EXCEPT ![u].list = IF moved THEN <<>> ELSE @, ![u].list = s]
            /\ wrong' = wrong
    BY <1>1, <1>3 DEF list_assign
  <1>5. s \in [1..0 -> Addr]
    BY DEF Allocated, FreeIn
  <1>6. s = <<>> /\ DOMAIN s = {}
    BY <1>5
  <1>7. \A vals : Stored(g, s, vals) = g
    BY <1>2, <1>6 DEF Stored
  <1>8. Delete(g, {}) = g
    BY <1>2 DEF Delete
  <1>9. heap' = g
    BY <1>4, <1>7, <1>8
  <1>10. model' = [model EXCEPT ![u].list = <<>>]
    <2>1. PICK x : x = model[u]
      OBVIOUS
    <2>2. x \in Object /\ model \in [Objs -> Object \cup {Dead}]
      BY <2>1 DEF Inv, Sound, HasList
    <2>3. PICK l : l = IF moved THEN <<>> ELSE x.list
      OBVIOUS
    <2>4. model' = [[model EXCEPT ![u].list = l] EXCEPT ![u].list = s]
      BY <1>4, <2>1, <2>3
    <2>5. PICK y : y = [x EXCEPT !.list = l]
      OBVIOUS
    <2>6. [y EXCEPT !.list = s] = [x EXCEPT !.list = s]
      BY <2>2, <2>5 DEF Object
    <2>7. PICK m : m = [model EXCEPT ![u] = y]
      OBVIOUS
    <2>8. model' = [m EXCEPT ![u] = [y EXCEPT !.list = s]]
      BY <2>1, <2>2, <2>4, <2>5, <2>7
    <2>9. [m EXCEPT ![u] = [y EXCEPT !.list = s]] = [model EXCEPT ![u] = [x EXCEPT !.list = s]]
      BY <2>2, <2>6, <2>7
    <2> QED
      BY <1>6, <2>1, <2>8, <2>9
  <1> QED
    BY <1>1, <1>4, <1>9, <1>10 DEF list_clear, SetList

LEMMA ListAssignIsValue ==
    ASSUME Inv, ~wrong, NEW u \in Objs, HasList(u), NEW w \in Objs, HasList(w),
           NEW moved \in BOOLEAN, list_assign(u, w, moved)
    PROVE  Values!AbsNext
  <1>1. CASE u = w
    BY <1>1, SelfListAssign, ListClearIsValue
  <1>2. PICK x, y, z, t : /\ x = ValueOf(heap, model[u]) /\ y = ValueOf(heap, model[w])
                          /\ z = ValueOf(heap', model'[u]) /\ t = ValueOf(heap', model'[w])
    OBVIOUS
  <1>3. /\ x \in Value /\ x.class = model[u].class /\ x.plain = model[u].plain
        /\ x.sub = Leaf(heap, model[u].sub) /\ x.list # Missing
        /\ model[u] # Dead /\ model[u] \in Object
    BY <1>2, ValueAt DEF HasList, Healthy
  <1>4. /\ y \in Value /\ y.class = model[w].class /\ y.plain = model[w].plain
        /\ y.sub = Leaf(heap, model[w].sub) /\ y.list # Missing
        /\ y.list = ListValue(heap, model[w].list)
        /\ model[w] # Dead /\ model[w] \in Object
    BY <1>2, ValueAt DEF HasList, Healthy
  <1>5. PICK src : src = model[w].list
    OBVIOUS
  <1>6. /\ DOMAIN src = 1..Len(src) /\ DOMAIN y.list = 1..Len(src)
        /\ \A i \in 1..Len(src) : y.list[i] = Null <=> src[i] = Null
    <2>1. src \in Lists /\ heap \in Heaps /\ \A a \in Items(src) : heap[a] # Null
      BY <1>5, ListAt, HealthyObject
    <2> QED
      BY <1>4, <1>5, <2>1, ListFacts, ItemsOf DEF Lists
  <1>7. CASE u # w /\ \E i \in DOMAIN src : src[i] = Null
    <2>1. Undefined
      BY <1>5, <1>7 DEF list_assign
    <2>2. Values!CopyMayFail(x, y)
      BY <1>3, <1>4, <1>6, <1>7 DEF Values!CopyMayFail, Values!Holds
    <2> QED
      BY <1>2, <1>3, <1>4, <1>7, <2>1, <2>2, CopyFailStep
  <1>8. CASE u # w /\ ~\E i \in DOMAIN src : src[i] = Null
    <2>1. /\ Lawful /\ Apart({u, w}) /\ wrong' = wrong
      <3>1. wrong' = wrong
        BY <1>5, <1>8 DEF list_assign
      <3> QED
        BY <3>1, ListAssignIsLawful
    <2>2. PICK s \in Lists, tl \in Lists : \E h2 :
              /\ heap' = h2 /\ tl = IF moved THEN <<>> ELSE model[w].list
              /\ model' = [model EXCEPT ![w].list = tl, ![u].list = s]
              /\ ListValue(h2, s) = ListValue(heap, model[w].list)
              /\ ListValue(h2, tl) = IF moved THEN <<>> ELSE ListValue(heap, model[w].list)
              /\ SameLeaf(heap, h2, model[u].sub) /\ SameLeaf(heap, h2, model[w].sub)
      BY <1>5, <1>8, ListAssignReads
    <2>3. PICK xx, yy : /\ xx = [model[u] EXCEPT !.list = s]
                        /\ yy = [model[w] EXCEPT !.list = tl]
      OBVIOUS
    <2>4. model'[u] = xx /\ model'[w] = yy
      BY <1>8, <2>2, <2>3 DEF Inv, Sound
    <2>5. /\ xx \in Object /\ xx # Dead /\ xx.list = s /\ xx.sub = model[u].sub
          /\ xx.class = model[u].class /\ xx.plain = model[u].plain
      <3>1. /\ xx \in Object /\ xx.list = s /\ xx.sub = model[u].sub
            /\ xx.class = model[u].class /\ xx.plain = model[u].plain
        BY <1>3, <2>3 DEF Object, Lists
      <3> QED
        BY <3>1, ObjectAssumption
    <2>6. /\ yy \in Object /\ yy # Dead /\ yy.list = tl /\ yy.sub = model[w].sub
          /\ yy.class = model[w].class /\ yy.plain = model[w].plain
      <3>1. /\ yy \in Object /\ yy.list = tl /\ yy.sub = model[w].sub
            /\ yy.class = model[w].class /\ yy.plain = model[w].plain
        BY <1>4, <2>3 DEF Object, Lists
      <3> QED
        BY <3>1, ObjectAssumption
    <2>7. /\ z \in Value /\ z.class = xx.class /\ z.plain = xx.plain
          /\ z.sub = Leaf(heap', xx.sub) /\ z.list = ListValue(heap', xx.list)
      BY <1>2, <2>1, <2>4, <2>5, ValueAfter DEF Lawful
    <2>8. /\ t \in Value /\ t.class = yy.class /\ t.plain = yy.plain
          /\ t.sub = Leaf(heap', yy.sub) /\ t.list = ListValue(heap', yy.list)
      BY <1>2, <2>1, <2>4, <2>6, ValueAfter DEF Lawful
    <2>9. z.class = x.class /\ z.plain = x.plain /\ z.sub = x.sub /\ z.list = y.list
      BY <1>3, <1>4, <2>2, <2>5, <2>7 DEF SameLeaf
    <2>10. t.class = y.class /\ t.plain = y.plain /\ t.sub = y.sub /\ t.list \in {y.list, <<>>}
      BY <1>4, <2>2, <2>6, <2>8 DEF SameLeaf
    <2>11. ~Values!Holds(y.list, Null)
      BY <1>6, <1>8 DEF Values!Holds
    <2>12. <<z, t>> \in Values!AfterBoth(x, y, FALSE)
      BY <1>3, <1>4, <2>7, <2>8, <2>9, <2>10, <2>11, AfterLists
    <2>13. PICK fresh : fresh = FALSE
      OBVIOUS
    <2>14. fresh = (model[u] = Dead) /\ x = IF fresh THEN NewObject(model[w].class) ELSE x
      BY <1>3, <2>13
    <2> QED
      BY <1>2, <1>4, <1>8, <2>1, <2>12, <2>13, <2>14, TwoObjectsStep
  <1> QED
    BY <1>1, <1>7, <1>8

LEMMA SetItemIsValue ==
    ASSUME Inv, NEW u \in Objs, HasList(u), NEW i \in DOMAIN model[u].list,
           model[u].list[i] # Null, NEW v \in Vals, SetLeaf(model[u].list[i], v)
    PROVE  Values!AbsNext
  <1>1. PICK a : a = model[u].list[i]
    OBVIOUS
  <1>2. a \in Items(model[u].list)
    BY <1>1, ListAt, ItemsOf
  <1> QED
    BY <1>1, <1>2, SetLeafIsValue DEF HasList

-----------------------------------------------------------------------------
(* Classes *)

\* Only a composite object has an object member, set or not.
Fits(x) == x = Dead \/ x.sub = Missing \/ x.class = "composite"
Classed == \A u \in Objs : Fits(model[u])

LEMMA FitsWith ==
    ASSUME NEW x \in Object, NEW y \in Object, Fits(x), y.sub = x.sub, y.class = x.class
    PROVE  Fits(y)
  BY ObjectAssumption DEF Fits

LEMMA NewFits ==
    ASSUME NEW class \in Classes
    PROVE  Fits(NewObject(class))
  BY DEF Fits, NewObject, Classes

LEMMA ClearedFits ==
    ASSUME NEW x \in Object
    PROVE  Fits(Cleared(x))
  BY DEF Fits, Cleared, Object

LEMMA ReplacedFits ==
    ASSUME Inv, Classed, NEW u \in Objs, NEW y, Fits(y), model' = [model EXCEPT ![u] = y]
    PROVE  Classed'
  BY DEF Classed, Inv, Sound

LEMMA AssignFits ==
    ASSUME Inv, Classed, NEW u \in Objs, NEW w \in Objs, model[w] # Dead,
           NEW x, IF model[u] = Dead THEN x = NewObject(model[w].class) ELSE x = model[u],
           NEW clears, clears = "target" => model[u] # Dead,
           AssignTo(u, x, w, clears)
    PROVE  Classed'
  <1>1. PICK y : y = model[w]
    OBVIOUS
  <1>2. Healthy(heap, y) /\ y \in Object /\ Fits(y) /\ y.class \in Classes
    <2>1. Healthy(heap, y)
      BY <1>1, HealthyAt DEF Inv
    <2> QED
      BY <1>1, <2>1, HealthyObject DEF Healthy, Classed
  <1>3. Healthy(heap, x) /\ Fits(x) /\ (u # w => Own(x) \cap Own(y) = {})
    <2>1. CASE model[u] = Dead
      <3>1. Healthy(heap, x) /\ Own(x) = {}
        BY <1>1, <1>2, <2>1, NewReplaces DEF Healthy
      <3> QED
        BY <1>1, <1>2, <2>1, <3>1, NewFits
    <2>2. CASE model[u] # Dead
      <3>1. x = model[u]
        BY <2>2
      <3> QED
        BY <1>1, <2>2, <3>1, HealthyAt DEF Inv, Sound, Classed
    <2> QED
      BY <2>1, <2>2
  <1>4. CASE AssignUndefined(x, y, u = w)
    BY <1>1, <1>4 DEF AssignTo, Undefined, Classed
  <1>5. CASE ~AssignUndefined(x, y, u = w)
    <2>1. PICK r \in Assigned(heap, x, y, u = w) :
            model' = [model EXCEPT
                        ![w] = IF clears = "source" THEN Cleared(y) ELSE Asked(x, y),
                        ![u] = IF clears = "target" THEN Cleared(r.obj) ELSE r.obj]
      BY <1>1, <1>5 DEF AssignTo
    <2>2. r.obj \in Object /\ Fits(r.obj) /\ Fits(Cleared(r.obj))
      <3>1. PICK o : o = r.obj
        OBVIOUS
      <3>2. o \in Object /\ o.sub = x.sub /\ o.class = x.class
        BY <1>2, <1>3, <1>5, <3>1, AssignReplaces
      <3> QED
        BY <1>3, <3>1, <3>2, FitsWith, ClearedFits DEF Healthy
    <2>3. Fits(Asked(x, y)) /\ Fits(Cleared(y))
      BY <1>2, AskedIs, FitsWith, ClearedFits
    <2> QED
      BY <2>1, <2>2, <2>3 DEF Classed, Inv, Sound
  <1> QED
    BY <1>4, <1>5

LEMMA ObjectOpFits ==
    ASSUME Inv, Classed, NEW u \in Objs, ObjectOp(u)
    PROVE  Classed'
  <1>1. CASE \E class \in Classes : Construct(u, class)
    BY <1>1, NewFits, ReplacedFits DEF Construct
  <1>2. CASE Destroy(u)
    BY <1>2, ReplacedFits DEF Destroy, Fits
  <1>3. CASE Clear(u)
    <2>1. model[u] \in Object
      BY <1>3 DEF Clear, Inv, Sound
    <2>2. \/ model' = model
          \/ model' = [model EXCEPT ![u] = Cleared(model[u])]
      BY <1>3 DEF Clear, Undefined
    <2> QED
      BY <2>1, <2>2, ClearedFits, ReplacedFits DEF Classed
  <1>4. CASE \E v \in Alike(Default) : set_plain(u, v)
    <2>1. PICK v \in Vals : model[u] # Dead /\ model' = [model EXCEPT ![u].plain = v]
      BY <1>4, AlikeInVals DEF set_plain
    <2>2. PICK y : y = [model[u] EXCEPT !.plain = v]
      OBVIOUS
    <2>3. model[u] \in Object /\ y \in Object /\ y.sub = model[u].sub /\ y.class = model[u].class
      BY <2>1, <2>2 DEF Inv, Sound, Object
    <2>4. Fits(y)
      BY <2>3, FitsWith DEF Classed
    <2> QED
      BY <2>1, <2>2, <2>4, ReplacedFits
  <1>5. CASE \E w \in Objs : \/ CopyConstruct(u, w) \/ MoveConstruct(u, w)
                             \/ CopyAssign(u, w) \/ MoveAssign(u, w)
    <2>1. PICK w \in Objs : \/ CopyConstruct(u, w) \/ MoveConstruct(u, w)
                            \/ CopyAssign(u, w) \/ MoveAssign(u, w)
      BY <1>5
    <2>2. CASE CopyConstruct(u, w)
      BY <2>2, AssignFits DEF CopyConstruct
    <2>3. CASE MoveConstruct(u, w)
      BY <2>3, AssignFits DEF MoveConstruct
    <2>4. CASE CopyAssign(u, w)
      BY <2>4, AssignFits DEF CopyAssign, SameClass
    <2>5. CASE MoveAssign(u, w)
      BY <2>5, AssignFits DEF MoveAssign, SameClass
    <2> QED
      BY <2>1, <2>2, <2>3, <2>4, <2>5
  <1>6. CASE /\ model[u] # Dead /\ model[u].class = "composite"
             /\ \E arg \in (Alike(Default) \cup {Null, model[u].sub}) \ {Missing} : set_object(u, arg)
    <2>1. model[u] \in Object
      BY <1>6 DEF Inv, Sound
    <2>2. \/ model' = model
          \/ \E p : model' = [model EXCEPT ![u].sub = p]
      BY <1>6 DEF set_object, Undefined
    <2>3. ASSUME NEW p, model' = [model EXCEPT ![u].sub = p]
          PROVE  Classed'
      <3>1. PICK y : y = [model[u] EXCEPT !.sub = p]
        OBVIOUS
      <3>2. y.class = "composite"
        BY <1>6, <2>1, <3>1 DEF Object
      <3> QED
        BY <2>3, <3>1, <3>2, ReplacedFits DEF Fits
    <2> QED
      BY <2>2, <2>3 DEF Classed
  <1>7. CASE /\ model[u] # Dead /\ model[u].sub \in Addr
             /\ \E v \in Alike(Default) : SetLeaf(model[u].sub, v)
    BY <1>7 DEF SetLeaf, Classed
  <1>8. CASE \E doc \in AllDocs : json_to_model(u, doc)
    <2>1. PICK doc \in AllDocs : json_to_model(u, doc)
      BY <1>8
    <2>2. /\ model[u] # Dead /\ model[u] \in Object
          /\ model' = [model EXCEPT ![u] = Converted(u, doc).obj]
      BY <2>1 DEF json_to_model, Inv, Sound
    <2>3. /\ Converted(u, doc).obj.sub = model[u].sub
          /\ Converted(u, doc).obj.class = model[u].class
      BY <2>2 DEF Converted, Object
    <2>4. Fits(Converted(u, doc).obj)
      BY <2>2, <2>3, ObjectAssumption DEF Fits, Classed
    <2> QED
      BY <2>2, <2>4, ReplacedFits
  <1> QED
    BY <1>1, <1>2, <1>3, <1>4, <1>5, <1>6, <1>7, <1>8 DEF ObjectOp, AllDocs

LEMMA ListOpFits ==
    ASSUME Inv, Classed, NEW u \in Objs, ListOp(u)
    PROVE  Classed'
  <1>1. ASSUME NEW o \in Objs, HasList(o), NEW l
        PROVE  Fits([model[o] EXCEPT !.list = l])
    BY <1>1 DEF HasList, Inv, Sound, Object, Fits, Classed
  <1>2. ASSUME NEW l, SetList(u, l)
        PROVE  Classed'
    <2>1. PICK y : y = [model[u] EXCEPT !.list = l]
      OBVIOUS
    <2>2. model' = [model EXCEPT ![u] = y]
      BY <1>2, <2>1 DEF SetList
    <2>3. HasList(u)
      BY DEF ListOp
    <2> QED
      BY <1>1, <2>1, <2>2, <2>3, ReplacedFits
  <1>3. CASE \E l : SetList(u, l)
    BY <1>2, <1>3
  <1>4. CASE model' = model
    BY <1>4 DEF Classed
  <1>5. CASE \E w \in Objs, moved \in BOOLEAN : HasList(w) /\ list_assign(u, w, moved)
    <2>1. PICK w \in Objs : HasList(w) /\ \E moved \in BOOLEAN : list_assign(u, w, moved)
      BY <1>5
    <2>2. CASE u = w
      <3>1. HasList(u)
        BY DEF ListOp
      <3> QED
        BY <1>2, <2>1, <2>2, <3>1, SelfListAssign DEF list_clear
    <2>3. CASE u # w
      <3>1. \/ model' = model
            \/ \E k, l : model' = [model EXCEPT ![w].list = k, ![u].list = l]
        BY <2>1, <2>3 DEF list_assign, Undefined
      <3>2. ASSUME NEW k, NEW l, model' = [model EXCEPT ![w].list = k, ![u].list = l]
            PROVE  Classed'
        <4>1. PICK y, x : y = [model[w] EXCEPT !.list = k] /\ x = [model[u] EXCEPT !.list = l]
          OBVIOUS
        <4>2. \A o \in Objs : model'[o] = IF o = u THEN x ELSE IF o = w THEN y ELSE model[o]
          BY <2>3, <3>2, <4>1 DEF Inv, Sound
        <4>3. Fits(x) /\ Fits(y)
          BY <1>1, <2>1, <4>1 DEF ListOp
        <4> QED
          BY <4>2, <4>3 DEF Classed
      <3> QED
        BY <1>4, <3>1, <3>2
    <2> QED
      BY <2>2, <2>3
  <1>6. \/ \E l : SetList(u, l)
        \/ model' = model
        \/ \E w \in Objs, moved \in BOOLEAN : HasList(w) /\ list_assign(u, w, moved)
    <2>1. CASE \E v \in Vals \cup {Null} : push_back(u, v) \/ push_front(u, v)
      BY <2>1 DEF push_back, push_front
    <2>2. CASE pop_front(u) \/ pop_back(u) \/ list_clear(u)
      BY <2>2 DEF pop_front, pop_back, list_clear, Undefined
    <2>3. CASE \E i \in DOMAIN model[u].list :
                  \E arg \in Vals \cup {Null, model[u].list[i]} : set(u, i, arg)
      BY <2>3 DEF set, Undefined
    <2>4. CASE \E i \in DOMAIN model[u].list :
                  /\ model[u].list[i] # Null
                /\ \E v \in Alike(heap[model[u].list[i]]) : SetLeaf(model[u].list[i], v)
      BY <2>4 DEF SetLeaf
    <2> QED
      BY <2>1, <2>2, <2>3, <2>4 DEF ListOp
  <1> QED
    BY <1>3, <1>4, <1>5, <1>6

LEMMA ObjectOpIsValue ==
    ASSUME Inv, Classed, ~wrong, NEW u \in Objs, ObjectOp(u)
    PROVE  Values!AbsNext
  <1>1. CASE \E class \in Classes : Construct(u, class)
    BY <1>1, ConstructIsValue
  <1>2. CASE Destroy(u)
    BY <1>2, DestroyIsValue
  <1>3. CASE Clear(u)
    BY <1>3, ClearIsValue
  <1>4. CASE \E v \in Alike(Default) : set_plain(u, v)
    BY <1>4, SetPlainIsValue
  <1>5. CASE \E w \in Objs : \/ CopyConstruct(u, w) \/ MoveConstruct(u, w)
                             \/ CopyAssign(u, w) \/ MoveAssign(u, w)
    BY <1>5, CopyIsValue
  <1>6. CASE /\ model[u] # Dead /\ model[u].class = "composite"
             /\ \E arg \in (Alike(Default) \cup {Null, model[u].sub}) \ {Missing} : set_object(u, arg)
    BY <1>6, SetObjectIsValue
  <1>7. CASE /\ model[u] # Dead /\ model[u].sub \in Addr
             /\ \E v \in Alike(Default) : SetLeaf(model[u].sub, v)
    <2>1. model[u].class = "composite"
      BY <1>7, ValsAssumption DEF Classed, Fits
    <2>2. PICK a, v : v \in Alike(Default) /\ v \in Vals /\ a = model[u].sub /\ SetLeaf(a, v)
      BY <1>7, AlikeInVals
    <2> QED
      BY <1>7, <2>1, <2>2, SetLeafIsValue
  <1>8. CASE \E doc \in AllDocs : json_to_model(u, doc)
    BY <1>8, JsonIsValue
  <1> QED
    BY <1>1, <1>2, <1>3, <1>4, <1>5, <1>6, <1>7, <1>8 DEF ObjectOp, AllDocs

LEMMA ListOpIsValue ==
    ASSUME Inv, ~wrong, NEW u \in Objs, ListOp(u)
    PROVE  Values!AbsNext
  <1>1. HasList(u)
    BY DEF ListOp
  <1>2. CASE \E v \in Vals \cup {Null} : push_back(u, v) \/ push_front(u, v)
    BY <1>1, <1>2, PushIsValue
  <1>3. CASE pop_front(u) \/ pop_back(u)
    BY <1>1, <1>3, PopIsValue
  <1>4. CASE list_clear(u)
    BY <1>1, <1>4, ListClearIsValue
  <1>5. CASE \E i \in DOMAIN model[u].list :
                \E arg \in Vals \cup {Null, model[u].list[i]} : set(u, i, arg)
    BY <1>1, <1>5, SetIsValue
  <1>6. CASE \E i \in DOMAIN model[u].list :
                /\ model[u].list[i] # Null
                /\ \E v \in Alike(heap[model[u].list[i]]) : SetLeaf(model[u].list[i], v)
    BY <1>1, <1>6, AlikeInVals, SetItemIsValue
  <1>7. CASE \E w \in Objs, moved \in BOOLEAN : HasList(w) /\ list_assign(u, w, moved)
    BY <1>1, <1>7, ListAssignIsValue
  <1> QED
    BY <1>2, <1>3, <1>4, <1>5, <1>6, <1>7 DEF ListOp

\* Two values are the same, their doubles not looked at.
SameButDoubles(x, y) ==
    /\ x.class = y.class /\ Blur(x.plain) = Blur(y.plain) /\ Blur(x.sub) = Blur(y.sub)
    /\ BlurredList(x.list) = BlurredList(y.list)

LEMMA BlurredIs ==
    ASSUME NEW x \in Value, NEW y \in Value, SameButDoubles(x, y)
    PROVE  Blurred(x) = Blurred(y)
  <1>1. \A z \in Value : Blurred(z) = [class |-> z.class, plain |-> Blur(z.plain),
                                     list |-> BlurredList(z.list), sub |-> Blur(z.sub)]
    BY ValueExcept3 DEF Blurred
  <1> QED
    BY <1>1 DEF SameButDoubles

\* A value written to JSON and read by one of its shape arrives.
LEMMA ReadWritten ==
    ASSUME NEW x \in Value, NEW y \in Value, SameShape(x, y)
    PROVE  SameButDoubles(Values!ReadJson(x, Values!WriteJson(y)), y)
  <1>1. PICK doc : doc = Values!WriteJson(y)
    OBVIOUS
  <1>2. /\ doc.plain = y.plain /\ doc.isArray = (y.list # Missing)
        /\ doc.list = (IF y.list = Missing THEN <<>> ELSE y.list)
        /\ doc.sub = IF y.sub = Missing THEN Null ELSE y.sub
    BY <1>1 DEF Values!WriteJson, Values!ListOf
  <1>3. /\ x.plain \in Vals /\ y.plain \in Vals
        /\ x.sub \in Vals \cup {Null, Missing} /\ y.sub \in Vals \cup {Null, Missing}
        /\ x.list # Missing => x.list \in Seq(Vals \cup {Null})
        /\ y.list # Missing => y.list \in Seq(Vals \cup {Null})
        /\ Null \notin Vals /\ Missing \notin Vals
    BY ValsAssumption DEF Value
  <1> DEFINE items == [i \in 1..Len(x.list) |-> Values!ReadItem(x.list[i], doc.list, i)]
  <1>4. PICK p, l, q :
          /\ p = ReadLeaf(x.plain, doc.plain)
          /\ l = IF x.list = Missing \/ ~doc.isArray THEN x.list ELSE items
          /\ q = IF x.sub \in {Null, Missing} THEN x.sub ELSE ReadLeaf(x.sub, doc.sub)
    OBVIOUS
  <1>5. Blur(p) = Blur(y.plain)
    BY <1>2, <1>3, <1>4, ReadLeafIs DEF SameShape
  <1>6. Blur(q) = Blur(y.sub)
    <2>1. CASE x.sub \in {Null, Missing}
      BY <1>4, <2>1 DEF SameShape
    <2>2. CASE x.sub \notin {Null, Missing}
      <3>1. x.sub \in Vals /\ y.sub \in Vals /\ doc.sub = y.sub /\ SameType(x.sub, y.sub)
        BY <1>2, <1>3, <2>2 DEF SameShape
      <3> QED
        BY <1>4, <2>2, <3>1, ReadLeafIs
    <2> QED
      BY <2>1, <2>2
  <1>7. BlurredList(l) = BlurredList(y.list)
    <2>1. CASE x.list = Missing
      BY <1>4, <2>1 DEF SameShape
    <2>2. CASE x.list # Missing
      <3>1. PICK j, k, n : j = x.list /\ k = y.list /\ n = Len(y.list)
        OBVIOUS
      <3>2. /\ j \in Seq(Vals \cup {Null}) /\ k \in Seq(Vals \cup {Null})
            /\ n \in Nat /\ Len(j) = n /\ Len(k) = n
            /\ doc.list = k /\ k # Missing /\ l = [i \in 1..n |-> Values!ReadItem(j[i], k, i)]
            /\ \A i \in 1..n : k[i] # Null => j[i] # Null /\ SameType(j[i], k[i])
        <4>1. y.list # Missing /\ Len(x.list) = n
              /\ \A i \in 1..n : k[i] # Null => j[i] # Null /\ SameType(j[i], k[i])
          BY <2>2, <3>1 DEF SameShape
        <4>2. doc.list = k /\ doc.isArray
          BY <1>2, <3>1, <4>1
        <4>3. j \in Seq(Vals \cup {Null}) /\ k \in Seq(Vals \cup {Null}) /\ n \in Nat
          BY <1>3, <2>2, <3>1, <4>1
        <4>4. l = [i \in 1..n |-> Values!ReadItem(j[i], k, i)]
          BY <1>4, <2>2, <3>1, <4>1, <4>2
        <4> QED
          BY <3>1, <4>1, <4>2, <4>3, <4>4
      <3>3. \A i \in 1..n : Blur(l[i]) = Blur(k[i])
        <4> SUFFICES ASSUME NEW i \in 1..n
                     PROVE  Blur(Values!ReadItem(j[i], k, i)) = Blur(k[i])
          BY <3>2
        <4>1. j[i] \in Vals \cup {Null} /\ k[i] \in Vals \cup {Null} /\ ~(i > Len(k))
          BY <3>2
        <4>2. CASE k[i] = Null
          BY <4>1, <4>2 DEF Values!ReadItem
        <4>3. CASE k[i] # Null
          <5>1. j[i] \in Vals /\ k[i] \in Vals /\ SameType(j[i], k[i])
            BY <3>2, <4>1, <4>3
          <5>2. Values!ReadItem(j[i], k, i) = ReadLeaf(j[i], k[i])
            BY <1>3, <4>1, <4>3, <5>1
               DEF Values!ReadItem, Values!ReadLeaf, ReadLeaf, Values!Alike, Alike
          <5> QED
            BY <5>1, <5>2, ReadLeafIs
        <4> QED
          BY <4>2, <4>3
      <3>4. DOMAIN l = 1..n /\ DOMAIN k = 1..n
        BY <3>2
      <3>5. l # Missing
        <4>1. l \in Seq(Vals \cup {Null})
          <5>1. \A i \in 1..n : l[i] \in Vals \cup {Null}
            <6> SUFFICES ASSUME NEW i \in 1..n
                         PROVE  Values!ReadItem(j[i], k, i) \in Vals \cup {Null}
              BY <3>2
            <6>1. j[i] \in Vals \cup {Null} /\ ~(i > Len(k))
              BY <3>2
            <6>2. Values!ReadItem(j[i], k, i) \in {Null, ReadLeaf(j[i], k[i])}
              BY DEF Values!ReadItem, Values!ReadLeaf, ReadLeaf, Values!Alike, Alike
            <6>3. j[i] = Null => Values!ReadItem(j[i], k, i) = Null
              BY DEF Values!ReadItem
            <6> QED
              BY <6>1, <6>2, <6>3, ReadLeafIs
          <5>2. l = [i \in 1..n |-> l[i]]
            BY <3>2
          <5> QED
            BY <3>2, <5>1, <5>2
        <4> QED
          BY <4>1, ObjectAssumption
      <3>6. /\ BlurredList(l) = [i \in 1..n |-> Blur(l[i])]
            /\ BlurredList(k) = [i \in 1..n |-> Blur(k[i])]
        BY <3>2, <3>4, <3>5 DEF BlurredList
      <3> HIDE DEF Blur
      <3> QED
        BY <3>1, <3>3, <3>6
    <2> QED
      BY <2>1, <2>2
  <1>8. Values!ReadJson(x, doc) = [class |-> x.class, plain |-> p, list |-> l, sub |-> q]
    BY <1>4, ReadJsonIs DEF Values!ReadLeaf, ReadLeaf, Values!Alike, Alike
  <1> QED
    BY <1>1, <1>5, <1>6, <1>7, <1>8 DEF SameButDoubles, SameShape

LEMMA InvRoundTrip ==
    ASSUME Inv
    PROVE  RoundTrip
  <1> SUFFICES ASSUME NEW u \in Objs, NEW w \in Objs, SameShape(Seen(u), Seen(w))
               PROVE  Blurred(ReadFrom(u, w)) = Blurred(Seen(w))
    BY DEF RoundTrip
  <1>1. PICK a, b, x, y : /\ a = model[u] /\ b = model[w]
                          /\ x = Seen(u) /\ y = Seen(w)
    OBVIOUS
  <1>2. x = ValueOf(heap, a) /\ y = ValueOf(heap, b)
    BY <1>1 DEF Seen
  <1>3. a # Dead /\ b # Dead
    <2>1. x # Dead /\ y # Dead
      BY <1>1 DEF SameShape
    <2> QED
      BY <1>2, <2>1 DEF ValueOf
  <1>4. Healthy(heap, a) /\ x \in Value /\ y \in Value
    BY <1>1, <1>2, <1>3, ValueAt
  <1>5. PICK doc : doc = model_to_json(w)
    OBVIOUS
  <1>6. Values!WriteJson(y) = doc
    BY <1>1, <1>2, <1>3, <1>5, WrittenValue
  <1>7. PICK h2, o : h2 = Converted(u, doc).heap /\ o = Converted(u, doc).obj
    OBVIOUS
  <1>8. ReadFrom(u, w) = ValueOf(h2, o)
    BY <1>5, <1>7 DEF ReadFrom
  <1>9. ValueOf(h2, o) = Values!ReadJson(x, doc)
    BY <1>1, <1>2, <1>4, <1>7, ConvertedValue
  <1>10. ValueOf(h2, o) \in Value
    <2>1. Replaces(heap, a, h2, o) /\ o \in Object
      BY <1>1, <1>4, <1>7, JsonReplaces
    <2>2. Healthy(h2, o)
      BY <2>1 DEF Replaces, Healthy
    <2> QED
      BY <2>2, ValueFacts
  <1>11. SameButDoubles(ValueOf(h2, o), y)
    BY <1>1, <1>4, <1>6, <1>9, ReadWritten
  <1> QED
    BY <1>1, <1>4, <1>8, <1>10, <1>11, BlurredIs

-----------------------------------------------------------------------------
(* Slots and owners *)

\* The places of an object hold what it owns.
LEMMA PointerIs ==
    ASSUME Inv, NEW u \in Alive, NEW i \in 0..MaxLen
    PROVE  Pointer(<<u, i>>) = IF i = 0 THEN model[u].sub
                               ELSE IF model[u].list # Missing /\ i \in DOMAIN model[u].list
                                    THEN model[u].list[i] ELSE Null
  BY DEF Pointer

LEMMA AliveAt ==
    ASSUME Inv, NEW u \in Alive
    PROVE  /\ u \in Objs /\ model[u] # Dead /\ Healthy(heap, model[u])
           /\ model[u].list # Missing =>
                 /\ model[u].list \in Lists /\ NoRepeats(model[u].list)
                 /\ Len(model[u].list) \in Nat /\ Len(model[u].list) <= MaxLen
                 /\ DOMAIN model[u].list = 1..Len(model[u].list)
  <1>1. u \in Objs /\ model[u] # Dead /\ Healthy(heap, model[u])
    BY HealthyAt DEF Alive, Inv
  <1> QED
    BY <1>1, HealthyObject DEF Lists

LEMMA PointerOwned ==
    ASSUME Inv, NEW u \in Alive, NEW i \in 0..MaxLen, Pointer(<<u, i>>) \in Addr
    PROVE  /\ Pointer(<<u, i>>) \in Own(model[u])
           /\ i # 0 => /\ model[u].list # Missing /\ i \in 1..Len(model[u].list)
                       /\ Pointer(<<u, i>>) = model[u].list[i]
                       /\ Pointer(<<u, i>>) \in Items(model[u].list)
           /\ i = 0 => Pointer(<<u, i>>) = model[u].sub
  <1>1. u \in Objs /\ model[u] # Dead
    BY AliveAt
  <1>2. CASE i = 0
    BY <1>1, <1>2, PointerIs DEF Own
  <1>3. CASE i # 0
    <2>1. Null \notin Addr
      BY ValsAssumption
    <2>2. /\ model[u].list # Missing /\ i \in DOMAIN model[u].list
          /\ Pointer(<<u, i>>) = model[u].list[i]
      BY <1>3, <2>1, PointerIs
    <2>3. i \in 1..Len(model[u].list) /\ Pointer(<<u, i>>) \in Items(model[u].list)
      BY <2>1, <2>2, AliveAt, ItemsOf
    <2> QED
      BY <1>1, <1>3, <2>2, <2>3 DEF Own
  <1> QED
    BY <1>2, <1>3

LEMMA HeldIsOwned ==
    ASSUME Inv, NEW a
    PROVE  a \in Held <=> \E u \in Objs : a \in Own(model[u])
  <1>1. ASSUME a \in Held
        PROVE  \E u \in Objs : a \in Own(model[u])
    <2>1. PICK u \in Alive, i \in 0..MaxLen : a = Pointer(<<u, i>>) /\ a \in Addr
      BY <1>1 DEF Held, Slots
    <2>2. a \in Own(model[u])
      BY <2>1, PointerOwned
    <2> QED
      BY <2>2 DEF Alive
  <1>2. ASSUME NEW u \in Objs, a \in Own(model[u])
        PROVE  a \in Held
    <2>1. u \in Alive
      BY <1>2 DEF Alive, Own
    <2>2. a \in Addr
      BY <2>1, AliveAt, OwnInAddr, <1>2 DEF Healthy
    <2>3. \E i \in 0..MaxLen : Pointer(<<u, i>>) = a
      <3>1. CASE a = model[u].sub
        <4>1. 0 \in 0..MaxLen
          BY ValsAssumption
        <4> QED
          BY <2>1, <3>1, <4>1, PointerIs
      <3>2. CASE a \in Items(model[u].list)
        <4>1. model[u].list # Missing
          BY <3>2 DEF Items
        <4>2. PICK i \in 1..Len(model[u].list) : model[u].list[i] = a
          BY <2>1, <3>2, <4>1, AliveAt, ItemsOf
        <4>3. i \in 0..MaxLen /\ i # 0 /\ i \in DOMAIN model[u].list
          BY <2>1, <4>1, <4>2, AliveAt, ValsAssumption
        <4> QED
          BY <2>1, <4>1, <4>2, <4>3, PointerIs
      <3> QED
        BY <1>2, <3>1, <3>2 DEF Own
    <2>4. PICK i \in 0..MaxLen : Pointer(<<u, i>>) = a
      BY <2>3
    <2>5. <<u, i>> \in Slots
      BY <2>1 DEF Slots
    <2> QED
      BY <2>2, <2>4, <2>5 DEF Held
  <1> QED
    BY <1>1, <1>2

LEMMA LeakedIsLost == Inv => Leaked = Lost(heap, model)
  BY HeldIsOwned DEF Leaked, Lost

LEMMA InvNothingDangles ==
    ASSUME Inv
    PROVE  NothingDangles
  <1>1. \A a \in Held : heap[a] # Null
    BY HeldIsOwned DEF Inv, Sound
  <1>2. ASSUME NEW s \in Slots, NEW t \in Slots, s # t, Pointer(s) \in Addr, Pointer(s) = Pointer(t)
        PROVE  FALSE
    <2>1. PICK u \in Alive, i \in 0..MaxLen : s = <<u, i>>
      BY DEF Slots
    <2>2. PICK w \in Alive, j \in 0..MaxLen : t = <<w, j>>
      BY DEF Slots
    <2>3. PICK a : a = Pointer(s)
      OBVIOUS
    <2>4. a \in Own(model[u]) /\ a \in Own(model[w])
      BY <1>2, <2>1, <2>2, <2>3, PointerOwned
    <2>5. u = w
      BY <2>4 DEF Inv, Sound, Alive
    <2>6. i # j
      BY <1>2, <2>1, <2>2, <2>5
    <2>7. model[u] # Dead /\ model[u].sub \notin Items(model[u].list)
      BY AliveAt, HealthyObject
    <2>8. i # 0 /\ j # 0
      BY <1>2, <2>1, <2>2, <2>3, <2>5, <2>6, <2>7, PointerOwned
    <2>9. /\ model[u].list # Missing
          /\ i \in 1..Len(model[u].list) /\ j \in 1..Len(model[u].list)
          /\ model[u].list[i] = a /\ model[u].list[j] = a /\ a # Null
      BY <1>2, <2>1, <2>2, <2>3, <2>5, <2>8, PointerOwned, ValsAssumption
    <2> QED
      BY <2>6, <2>9, AliveAt DEF NoRepeats
  <1> QED
    BY <1>1, <1>2 DEF NothingDangles

-----------------------------------------------------------------------------
(* Theorems *)

\* Whatever the constants, through every sequence of constructions, copies,
\* moves, sets, pops, clears and conversions: no object or list holds a pointer
\* to a deleted leaf, and no two places hold the same leaf, so that ~Object,
\* ~List and the deletes of set and pop free each leaf once.
THEOREM NoPointerDangles == Spec => []NothingDangles
  <1>1. Inv => NothingDangles
    BY InvNothingDangles
  <1> QED
    BY <1>1, InvAlways, PTL

\* Whatever the constants, a leaf becomes unreachable in one way: clear(), or
\* the clear() of a move, erased the key of the object member that held it.
THEOREM OnlyClearLeaks == Spec => LeaksOnlyOnClear
  <1>0. Inv' => Leaked' = Lost(heap', model')
    <2>1. (Inv => Leaked = Lost(heap, model))'
      BY LeakedIsLost, PTL
    <2> QED
      BY <2>1
  <1>1. ASSUME Inv, [Next]_vars
        PROVE  \A a \in Leaked' \ Leaked :
                  \E u \in Alive : model[u].sub = a /\ model'[u] # Dead /\ model'[u].sub = Missing
    <2>1. Lawful
      BY <1>1, StepIsLawful
    <2>2. Leaked = Lost(heap, model)
      BY <1>1, LeakedIsLost
    <2> QED
      BY <1>0, <2>1, <2>2 DEF Lawful, Forgets, Alive
  <1>2. Inv /\ [Next]_vars =>
          [\A a \in Leaked' \ Leaked :
              \E u \in Alive : model[u].sub = a /\ model'[u] # Dead /\ model'[u].sub = Missing]_vars
    BY <1>1
  <1> QED
    BY <1>2, InvAlways, PTL DEF Spec, LeaksOnlyOnClear

\* Whatever the constants, and whatever the objects went through before: an
\* object written by model_to_json and read by json_to_model into an object of
\* its shape is there as it was written, with every null, item and member in
\* its place, but for its doubles, of which only the type arrives.
THEOREM JsonArrives == Spec => []RoundTrip
  BY InvRoundTrip, InvAlways, PTL

\* Objects are values: every step of objects, lists and their memory is the
\* step of ModelValues it stands for, or none; what is done to one object is
\* seen in no other, but for the copies and moves whose target equals their
\* source; and a call is undefined only where ModelValues says it may be.
THEOREM ModelsAreValues == Spec => ImplementsModelValues
  <1>1. Init => Values!AbsInit /\ Classed
    BY DEF Init, Values!AbsInit, ValueOf, Classed, Fits
  <1>2. Inv /\ Classed /\ [Next]_vars => Classed'
    <2>1. Classed /\ UNCHANGED vars => Classed'
      BY DEF Classed, vars
    <2>2. Inv /\ Classed /\ Next => Classed'
      BY ObjectOpFits, ListOpFits DEF Next
    <2> QED
      BY <2>1, <2>2
  <1>3. Inv /\ Classed /\ [Next]_vars => [Values!AbsNext]_Values!absVars
    <2>1. Inv /\ Classed /\ Next => Values!AbsNext
      BY ObjectOpIsValue, ListOpIsValue DEF Next
    <2>2. UNCHANGED vars => UNCHANGED Values!absVars
      BY DEF vars, Values!absVars, ValueOf
    <2> QED
      BY <2>1, <2>2
  <1> QED
    BY <1>1, <1>2, <1>3, InvAlways, PTL DEF Spec, ImplementsModelValues, Values!AbsSpec
=============================================================================
