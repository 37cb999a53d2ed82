------------------------------- MODULE Models -------------------------------
(***************************************************************************)
(* Objects, Lists and the memory of what they hold (include/model.h,       *)
(* src/model.cpp, json/json_to_model.cpp).  An application declares        *)
(* objects; a list item or an object member is a pointer to a leaf model   *)
(* that clone() allocated.  heap gives each address the value of the leaf  *)
(* that lives there, or Null when it is free.  An object is its plain      *)
(* member, the entry of its list in _lists and of its object member in     *)
(* _objects; Missing is a key that clear() erased, or that the class does  *)
(* not have.  Once a call is undefined (wrong) nothing is said any more.   *)
(***************************************************************************)
EXTENDS Naturals, Sequences

CONSTANTS
    Objs,       \* the objects an application declares
    Addr,       \* the addresses of leaf models
    Vals,       \* the values a plain or a leaf model may have
    Doubles,    \* those that are of type DOUBLE; the others stand for strings
    Overlaid,   \* a double whose first half has been written over with a float
    Default,    \* the value a plain starts with
    MaxLen,     \* bound on the length of a list
    Docs,       \* JSON documents an application may read
    Null,       \* a null pointer; in a document null, or an absent member
    Missing,    \* no such key in the map of members
    Dead        \* not constructed

ASSUME ValsAssumption ==
    /\ Default \in Vals
    /\ Doubles \subseteq Vals
    /\ Overlaid \in [Doubles \X Doubles -> Doubles]
    /\ {Null, Missing, Dead} \cap (Vals \cup Addr) = {}
    /\ Null # Missing
    /\ Vals \cap Addr = {}
    /\ MaxLen \in Nat

VARIABLES heap, model, wrong

vars == <<heap, model, wrong>>

Classes == {"simple", "composite"}

Object ==
    [class : Classes, plain : Vals,
     list : Seq(Addr \cup {Null}) \cup {Missing}, sub : Addr \cup {Null, Missing}]

\* An object without its memory.
Value ==
    [class : Classes, plain : Vals,
     list : Seq(Vals \cup {Null}) \cup {Missing}, sub : Vals \cup {Null, Missing}]

\* The values of v's type, which a plain keeps.  A class's plain and its object
\* member are of Default's; the items of a list are of any.
Alike(v) == IF v \in Doubles THEN Doubles ELSE Vals \ Doubles

ASSUME ObjectAssumption ==
    /\ Dead \notin Object /\ Dead \notin Value
    /\ Missing \notin Seq(Addr \cup {Null}) /\ Missing \notin Seq(Vals \cup {Null})

-----------------------------------------------------------------------------
(* Memory *)

Items(list) == IF list = Missing THEN {} ELSE {list[i] : i \in DOMAIN list} \ {Null}
FreeIn(h) == {a \in Addr : h[a] = Null}

Delete(h, A) == [a \in Addr |-> IF a \in A THEN Null ELSE h[a]]

\* n new leaf models at addresses of the allocator's choice.
Allocated(h, n) ==
    {s \in [1..n -> FreeIn(h)] : \A i, j \in 1..n : s[i] = s[j] => i = j}

Stored(h, s, vals) ==
    [a \in Addr |-> IF \E i \in DOMAIN s : s[i] = a
                    THEN vals[CHOOSE i \in DOMAIN s : s[i] = a] ELSE h[a]]

\* The pointers a push, a set or a set_o stores for an argument: null, or a
\* clone of a leaf of that value.
Cloned(h, v) ==
    IF v = Null THEN {[heap |-> h, ptr |-> Null]}
    ELSE {[heap |-> [h EXCEPT ![a] = v], ptr |-> a] : a \in FreeIn(h)}

-----------------------------------------------------------------------------
(* What assign() and clear() of a class do (RELLAF_MODEL_DCL_PLAIN). *)

NewObject(class) ==
    [class |-> class, plain |-> Default, list |-> <<>>,
     sub |-> IF class = "composite" THEN Null ELSE Missing]

\* ptr->_lists[key] inserts an empty list into a source that has none.
Asked(x, y) ==
    [y EXCEPT !.list = IF x.list # Missing /\ @ = Missing THEN <<>> ELSE @]

\* A method of a null pointer is called: of the target's object member, of the
\* source's (or of the null that _objects[key] inserted), or of a null item.
AssignUndefined(x, y, self) ==
    \/ x.sub # Missing /\ (x.sub = Null \/ y.sub \in {Null, Missing})
    \/ ~self /\ x.list # Missing /\ y.list # Missing /\ \E i \in DOMAIN y.list : y.list[i] = Null

\* Mutant: the items' addresses are copied, not the items.
AssignedShallow(h, x, y, self) ==
    {[heap |-> h, obj |-> [x EXCEPT !.plain = y.plain, !.list = y.list]]}

\* The list is cleared before the source's items are cloned: of an object
\* assigned to itself nothing is left to clone.
Assigned(h, x, y, self) ==
    LET copied == IF x.sub = Missing THEN h ELSE [h EXCEPT ![x.sub] = h[y.sub]]
        source == IF self THEN <<>> ELSE Asked(x, y).list
        emptied == Delete(copied, Items(x.list))
    IN  IF x.list = Missing
        THEN {[heap |-> copied, obj |-> [x EXCEPT !.plain = y.plain]]}
        ELSE {[heap |-> Stored(emptied, s, [i \in DOMAIN s |-> emptied[source[i]]]),
               obj  |-> [x EXCEPT !.plain = y.plain, !.list = s]] :
                  s \in Allocated(emptied, Len(source))}

\* clear() frees the items and erases the keys; the leaf of an object member is
\* cleared and forgotten.
ClearUndefined(x) == x.sub = Null
ClearedHeapLeak(h, x) == h                               \* Mutant
ClearedHeap(h, x) == Delete(h, Items(x.list))
ClearedKeepsObject(x) == [x EXCEPT !.list = Missing]     \* Mutant
Cleared(x) == [x EXCEPT !.list = Missing, !.sub = Missing]

-----------------------------------------------------------------------------
(* Objects *)

Undefined == wrong' = TRUE /\ UNCHANGED <<heap, model>>

Construct(u, class) ==
    /\ model[u] = Dead
    /\ model' = [model EXCEPT ![u] = NewObject(class)]
    /\ UNCHANGED <<heap, wrong>>

\* ~Object deletes the object member, ~List the items.
Destroy(u) ==
    /\ model[u] # Dead
    /\ heap' = Delete(heap, Items(model[u].list) \cup ({model[u].sub} \cap Addr))
    /\ model' = [model EXCEPT ![u] = Dead]
    /\ UNCHANGED wrong

\* assign(&w), then what the operation clears: nothing, the source or the target.
AssignTo(u, x, w, clears) ==
    LET y == model[w] IN
    IF AssignUndefined(x, y, u = w) THEN Undefined
    ELSE \E r \in Assigned(heap, x, y, u = w) :
        /\ heap' = CASE clears = "nothing" -> r.heap
                     [] clears = "source"  -> ClearedHeap(r.heap, Asked(x, y))
                     [] clears = "target"  -> ClearedHeap(r.heap, r.obj)
        /\ model' = [model EXCEPT
                       ![w] = IF clears = "source" THEN Cleared(y) ELSE Asked(x, y),
                       ![u] = IF clears = "target" THEN Cleared(r.obj) ELSE r.obj]
        /\ UNCHANGED wrong

\* The copy constructor; clone() constructs and assigns, which comes to the same.
CopyConstruct(u, w) ==
    /\ model[u] = Dead /\ model[w] # Dead
    /\ AssignTo(u, NewObject(model[w].class), w, "nothing")

MoveConstruct(u, w) ==
    /\ model[u] = Dead /\ model[w] # Dead
    /\ AssignTo(u, NewObject(model[w].class), w, "source")

SameClass(u, w) == model[u] # Dead /\ model[w] # Dead /\ model[u].class = model[w].class

CopyAssign(u, w) == SameClass(u, w) /\ AssignTo(u, model[u], w, "nothing")
MoveAssign(u, w) == SameClass(u, w) /\ AssignTo(u, model[u], w, "target")

Clear(u) ==
    /\ model[u] # Dead
    /\ IF ClearUndefined(model[u]) THEN Undefined
       ELSE /\ heap' = ClearedHeap(heap, model[u])
            /\ model' = [model EXCEPT ![u] = Cleared(@)]
            /\ UNCHANGED wrong

set_plain(u, v) ==
    /\ model[u] # Dead
    /\ model' = [model EXCEPT ![u].plain = v]
    /\ UNCHANGED <<heap, wrong>>

\* set_##object deletes the old member before it clones the argument, which may
\* be that member.  (Any other leaf is read as one outside the heap would be.)
set_object(u, arg) ==
    LET old == model[u].sub IN
    IF arg \in Addr THEN Undefined
    ELSE \E c \in Cloned(Delete(heap, {old}), arg) :
        /\ heap' = c.heap
        /\ model' = [model EXCEPT ![u].sub = c.ptr]
        /\ UNCHANGED wrong

\* The application assigns to a leaf through o() or at().
SetLeaf(a, v) == heap' = [heap EXCEPT ![a] = v] /\ UNCHANGED <<model, wrong>>

-----------------------------------------------------------------------------
(* Lists *)

HasList(u) == model[u] # Dead /\ model[u].list # Missing
SetList(u, list) == model' = [model EXCEPT ![u].list = list]

push_back(u, v) ==
    /\ Len(model[u].list) < MaxLen
    /\ \E c \in Cloned(heap, v) : heap' = c.heap /\ SetList(u, Append(model[u].list, c.ptr))
    /\ UNCHANGED wrong

push_front(u, v) ==
    /\ Len(model[u].list) < MaxLen
    /\ \E c \in Cloned(heap, v) : heap' = c.heap /\ SetList(u, <<c.ptr>> \o model[u].list)
    /\ UNCHANGED wrong

\* std::deque's pop of an empty deque is undefined.
pop_front(u) ==
    IF model[u].list = <<>> THEN Undefined
    ELSE /\ heap' = Delete(heap, {Head(model[u].list)})
         /\ SetList(u, Tail(model[u].list))
         /\ UNCHANGED wrong

pop_back(u) ==
    LET n == Len(model[u].list) IN
    IF n = 0 THEN Undefined
    ELSE /\ heap' = Delete(heap, {model[u].list[n]})
         /\ SetList(u, SubSeq(model[u].list, 1, n - 1))
         /\ UNCHANGED wrong

\* As set_object: the item is deleted before the argument is cloned.
set(u, i, arg) ==
    IF arg \in Addr THEN Undefined
    ELSE \E c \in Cloned(Delete(heap, {model[u].list[i]}), arg) :
        /\ heap' = c.heap
        /\ SetList(u, [model[u].list EXCEPT ![i] = c.ptr])
        /\ UNCHANGED wrong

list_clear(u) ==
    /\ heap' = Delete(heap, Items(model[u].list))
    /\ SetList(u, <<>>)
    /\ UNCHANGED wrong

\* One list assigned to another, or moved, which empties the source.
list_assign(u, w, moved) ==
    LET source  == IF u = w THEN <<>> ELSE model[w].list
        emptied == Delete(heap, Items(model[u].list))
    IN
    IF \E i \in DOMAIN source : source[i] = Null THEN Undefined
    ELSE \E s \in Allocated(emptied, Len(source)) :
        LET copied == Stored(emptied, s, [i \in DOMAIN s |-> emptied[source[i]]]) IN
        /\ heap' = IF moved THEN Delete(copied, Items(source)) ELSE copied
        /\ model' = [model EXCEPT ![w].list = IF moved THEN <<>> ELSE @, ![u].list = s]
        /\ UNCHANGED wrong

-----------------------------------------------------------------------------
(* JSON *)

\* What is not of the leaf's type is skipped.  A double is read as if it were a
\* Plain<float>: the float's four bytes go over the first four of its eight.
ReadLeaf(old, j) ==
    IF j \notin Alike(old) THEN old ELSE IF old \in Doubles THEN Overlaid[old, j] ELSE j

\* An item the document has null, or not at all, is deleted.
NoEntryOffByOne(js, i) == i >= Len(js) \/ js[i] = Null    \* Mutant
NoEntry(js, i) == i > Len(js) \/ js[i] = Null

Converted(u, doc) ==
    LET x     == model[u]
        list  == IF x.list = Missing \/ ~doc.isArray THEN <<>> ELSE x.list
        Entry(a) == CHOOSE i \in DOMAIN list : list[i] = a
        NewLeaf(a) == IF a = x.sub THEN ReadLeaf(heap[a], doc.sub)
                      ELSE IF a \notin Items(list) THEN heap[a]
                      ELSE IF NoEntry(doc.list, Entry(a)) THEN Null
                      ELSE ReadLeaf(heap[a], doc.list[Entry(a)])
    IN
    [heap |-> [a \in Addr |-> NewLeaf(a)],
     obj  |-> [x EXCEPT !.plain = ReadLeaf(@, doc.plain),
                        !.list  = IF list = <<>> THEN @
                                  ELSE [i \in DOMAIN @ |-> IF NoEntry(doc.list, i) THEN Null ELSE @[i]]]]

json_to_model(u, doc) ==
    /\ model[u] # Dead
    /\ \E new \in {Converted(u, doc)} :
          heap' = new.heap /\ model' = [model EXCEPT ![u] = new.obj]
    /\ UNCHANGED wrong

\* model_to_json: an erased key is left out, a null pointer is written as null.
model_to_json(u) ==
    LET x == model[u] IN
    [plain |-> x.plain,
     isArray |-> x.list # Missing,
     list |-> IF x.list = Missing THEN <<>>
              ELSE [i \in DOMAIN x.list |-> IF x.list[i] = Null THEN Null ELSE heap[x.list[i]]],
     sub |-> IF x.sub \in Addr THEN heap[x.sub] ELSE Null]

-----------------------------------------------------------------------------
Init ==
    /\ heap = [a \in Addr |-> Null]
    /\ model = [u \in Objs |-> Dead]
    /\ wrong = FALSE

ObjectOp(u) ==
    \/ \E class \in Classes : Construct(u, class)
    \/ Destroy(u)
    \/ Clear(u)
    \/ \E v \in Alike(Default) : set_plain(u, v)
    \/ \E w \in Objs : CopyConstruct(u, w) \/ MoveConstruct(u, w) \/ CopyAssign(u, w) \/ MoveAssign(u, w)
    \/ /\ model[u] # Dead /\ model[u].class = "composite"
       /\ \E arg \in (Alike(Default) \cup {Null, model[u].sub}) \ {Missing} : set_object(u, arg)
    \/ model[u] # Dead /\ model[u].sub \in Addr /\ \E v \in Alike(Default) : SetLeaf(model[u].sub, v)
    \/ \E doc \in Docs \cup {model_to_json(w) : w \in {o \in Objs : model[o] # Dead}} :
          json_to_model(u, doc)

ListOp(u) ==
    /\ HasList(u)
    /\ \/ \E v \in Vals \cup {Null} : push_back(u, v) \/ push_front(u, v)
       \/ pop_front(u) \/ pop_back(u) \/ list_clear(u)
       \/ \E i \in DOMAIN model[u].list :
            \/ \E arg \in Vals \cup {Null, model[u].list[i]} : set(u, i, arg)
            \/ /\ model[u].list[i] # Null
               /\ \E v \in Alike(heap[model[u].list[i]]) : SetLeaf(model[u].list[i], v)
       \/ \E w \in Objs, moved \in BOOLEAN : HasList(w) /\ list_assign(u, w, moved)

Next == ~wrong /\ \E u \in Objs : ObjectOp(u) \/ ListOp(u)

Spec == Init /\ [][Next]_vars

-----------------------------------------------------------------------------
(* Properties *)

Alive == {u \in Objs : model[u] # Dead}

\* The places an object holds a pointer in.
Slots ==
    {<<u, i>> : u \in Alive, i \in 0..MaxLen}
Pointer(slot) ==
    LET x == model[slot[1]] IN
    IF slot[2] = 0 THEN x.sub
    ELSE IF x.list # Missing /\ slot[2] \in DOMAIN x.list THEN x.list[slot[2]] ELSE Null
Held == {Pointer(slot) : slot \in Slots} \cap Addr
Leaked == {a \in Addr : heap[a] # Null} \ Held

\* Whatever sequence of copies, moves, sets, pops and conversions the
\* application makes, as long as none of them was undefined: every pointer an
\* object holds is to a living leaf, and no leaf is held twice, so that no
\* destructor deletes one again.
NothingDangles ==
    ~wrong =>
        /\ \A a \in Held : heap[a] # Null
        /\ \A s, t \in Slots : s # t /\ Pointer(s) \in Addr => Pointer(s) # Pointer(t)

\* A leaf is lost in one way only: clear(), called or reached through a move
\* assignment, empties _objects without deleting the object member.  No copy,
\* set, pop or destructor leaks, and the conversion from JSON does not either.
LeaksOnlyOnClear ==
    [][\A a \in Leaked' \ Leaked :
          \E u \in Alive : model[u].sub = a /\ model'[u] # Dead /\ model'[u].sub = Missing]_vars

\* What a reader of an object sees: the leaves in place of their addresses.
ValueOf(h, x) ==
    LET Read(a) == IF a \in Addr THEN h[a] ELSE a IN
    IF x = Dead THEN Dead
    ELSE [x EXCEPT !.list = IF @ = Missing THEN Missing ELSE [i \in DOMAIN @ |-> Read(@[i])],
                   !.sub  = Read(@)]

\* Objects are values: what is done to one is never seen in another, except by
\* the copies and moves ModelValues lists, whose targets equal their source.
Values == INSTANCE ModelValues WITH value <- [u \in Objs |-> ValueOf(heap, model[u])]
ImplementsModelValues == Values!AbsSpec

Seen(u) == ValueOf(heap, model[u])
ReadFrom(u, w) == LET new == Converted(u, model_to_json(w)) IN ValueOf(new.heap, new.obj)

SameType(v, w) == v \in Doubles <=> w \in Doubles

\* Two values of one class with the same keys, whose lists are of one length,
\* have items of the same types, and no null in x where y has something.
SameShape(x, y) ==
    /\ x # Dead /\ y # Dead /\ x.class = y.class
    /\ SameType(x.plain, y.plain) /\ SameType(x.sub, y.sub)
    /\ (x.sub = Null) = (y.sub = Null) /\ (x.sub = Missing) = (y.sub = Missing)
    /\ (x.list = Missing) = (y.list = Missing)
    /\ x.list # Missing =>
          /\ Len(x.list) = Len(y.list)
          /\ \A i \in 1..Len(x.list) :
                y.list[i] # Null => x.list[i] # Null /\ SameType(x.list[i], y.list[i])

\* A value whose doubles nobody looks at.
Blur(v) == IF v \in Doubles THEN "double" ELSE v
BlurredList(l) == IF l = Missing THEN Missing ELSE [i \in DOMAIN l |-> Blur(l[i])]
Blurred(x) == [x EXCEPT !.plain = Blur(@), !.list = BlurredList(@), !.sub = Blur(@)]

\* Written to JSON and read by an object of the same shape, an object arrives,
\* with every null, member and item where it was, but for what its doubles are.
RoundTrip ==
    ~wrong => \A u, w \in Objs :
        SameShape(Seen(u), Seen(w)) => Blurred(ReadFrom(u, w)) = Blurred(Seen(w))

\* docs/reference.md:394-395: FLOAT and DOUBLE both correspond to a realValue;
\* so that doubles, too, should come back as they were written.
DoublesArrive ==
    ~wrong => \A u, w \in Objs :
        SameShape(Seen(u), Seen(w)) => ReadFrom(u, w) = Seen(w)
=============================================================================
