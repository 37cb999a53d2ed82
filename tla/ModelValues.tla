---------------------------- MODULE ModelValues ----------------------------
(***************************************************************************)
(* What the operations on Objects and Lists (include/model.h, model.cpp)   *)
(* do to values, with no memory in sight: an object owns all it holds, so  *)
(* an operation on one of them changes no other, except as said here.      *)
(*                                                                         *)
(* An object has one plain member, one list of leaf models and, when its   *)
(* class is "composite", one object member.  clear() erases the keys of    *)
(* the list and of the object member from the object's maps: Missing.      *)
(* "wrong" is set by a call whose behaviour C++ does not define.           *)
(***************************************************************************)
EXTENDS Naturals, Sequences

CONSTANTS
    Objs,       \* the objects an application declares
    Vals,       \* values of a plain or a leaf model
    Doubles,    \* those of type DOUBLE
    Overlaid,   \* a double with a float written over its first half
    Default,    \* the value a plain starts with
    Docs,       \* JSON documents it may read
    Null,       \* a null pointer, and JSON's null or an absent member
    Missing,    \* no such key in the map of members
    Dead        \* not constructed

VARIABLES value, wrong

absVars == <<value, wrong>>

Classes == {"simple", "composite"}

\* The values of v's type.
Alike(v) == IF v \in Doubles THEN Doubles ELSE Vals \ Doubles

NewObject(class) ==
    [class |-> class, plain |-> Default, list |-> <<>>,
     sub |-> IF class = "composite" THEN Null ELSE Missing]

Holds(s, x) == \E i \in DOMAIN s : s[i] = x

\* What _lists[key] of a source gives: the operator inserts a missing list.
ListOf(y) == IF y.list = Missing THEN <<>> ELSE y.list

\* Copying y into x calls a method of a null object member, or of a null item.
CopyUndefined(x, y) ==
    \/ x.sub # Missing /\ (x.sub = Null \/ y.sub \in {Null, Missing})
    \/ x.list # Missing /\ Holds(ListOf(y), Null)

CopyOf(x, y) ==
    [x EXCEPT !.plain = y.plain,
              !.list  = IF @ = Missing THEN Missing ELSE ListOf(y),
              !.sub   = IF @ = Missing THEN Missing ELSE y.sub]

\* A source gets the list the copy asked it for.
CopiedFrom(x, y) == [y EXCEPT !.list = IF x.list = Missing THEN @ ELSE ListOf(y)]

\* clear() calls a method of a null object member; plains keep their values.
ClearUndefined(x) == x.sub = Null
Cleared(x) == [x EXCEPT !.list = Missing, !.sub = Missing]

\* An object assigned to itself loses its list before it is copied.
SelfCopied(x) == [x EXCEPT !.list = IF @ = Missing THEN Missing ELSE <<>>]

-----------------------------------------------------------------------------
(* JSON: what a document has for a member is a value, Null (null, or the   *)
(* member is absent), or anything else, which is skipped.  Doubles are      *)
(* read as floats, into the first half of what they were.                  *)

ReadLeaf(old, j) ==
    IF j \notin Alike(old) THEN old ELSE IF old \in Doubles THEN Overlaid[old, j] ELSE j

\* Items beyond the document's array count as null, further entries are
\* ignored; a null item stays null.
ReadItem(old, js, i) ==
    IF i > Len(js) \/ old = Null THEN Null
    ELSE IF js[i] = Null THEN Null ELSE ReadLeaf(old, js[i])

ReadJson(x, doc) ==
    [x EXCEPT !.plain = ReadLeaf(@, doc.plain),
              !.list  = IF @ = Missing \/ ~doc.isArray THEN @
                        ELSE [i \in 1..Len(@) |-> ReadItem(@[i], doc.list, i)],
              !.sub   = IF @ \in {Null, Missing} THEN @ ELSE ReadLeaf(@, doc.sub)]

\* model_to_json: a null member or item is written as null.
WriteJson(x) ==
    [plain |-> x.plain, isArray |-> x.list # Missing, list |-> ListOf(x),
     sub |-> IF x.sub = Missing THEN Null ELSE x.sub]

-----------------------------------------------------------------------------
Fail == ~wrong /\ wrong' = TRUE /\ UNCHANGED value

Prepend(v, l) == <<v>> \o l

\* push, pop, set and clear of a list, and assignments through the pointers it
\* hands out.
ListAfter(l) ==
    {<<>>} \cup {Tail(l) : i \in DOMAIN l}
           \cup {SubSeq(l, 1, Len(l) - 1) : i \in DOMAIN l}
           \cup {Append(l, v) : v \in Vals \cup {Null}}
           \cup {Prepend(v, l) : v \in Vals \cup {Null}}
           \cup {[l EXCEPT ![i] = v] : i \in DOMAIN l, v \in Vals \cup {Null}}

\* y is what one operation can make of the object x; clear() and a move to
\* itself make it Cleared.
After(x, y, docs) ==
    \/ y = Dead
    \/ x.list # Missing /\ \E l \in ListAfter(x.list) : y = [x EXCEPT !.list = l]
    \/ \E v \in Alike(Default) : y = [x EXCEPT !.plain = v]
    \/ x.class = "composite" /\ \E v \in Alike(Default) \cup {Null} : y = [x EXCEPT !.sub = v]
    \/ ~ClearUndefined(x) /\ y \in {Cleared(x), SelfCopied(x)}
    \/ \E doc \in docs : y = ReadJson(x, doc)

\* clear() or a copy to itself with a null member; set_o(o()); a pop of an empty
\* list; a set whose argument is the item it deletes.
MayFail(x) ==
    \/ ClearUndefined(x) \/ x.sub \in Vals
    \/ x.list # Missing /\ (x.list = <<>> \/ \E i \in DOMAIN x.list : x.list[i] # Null)

\* What x and y are when x has been constructed from y (fresh) or assigned y,
\* by copy or by move, or x's list has been assigned y's.
AfterBoth(x, y, fresh) ==
    LET copied == CopyOf(x, y)
        asked  == CopiedFrom(x, y)
        moved  == IF fresh THEN <<copied, Cleared(y)>> ELSE <<Cleared(copied), asked>>
        lists  == ~fresh /\ x.list # Missing /\ y.list # Missing /\ ~Holds(y.list, Null)
    IN  (IF x.class # y.class \/ CopyUndefined(x, y) THEN {} ELSE {<<copied, asked>>, moved})
        \cup IF lists THEN {<<[x EXCEPT !.list = y.list], [y EXCEPT !.list = l]>> : l \in {y.list, <<>>}}
             ELSE {}

CopyMayFail(x, y) ==
    \/ x.class = y.class /\ CopyUndefined(x, y)
    \/ x.list # Missing /\ y.list # Missing /\ Holds(y.list, Null)

-----------------------------------------------------------------------------
Others(A) == DOMAIN value' = Objs /\ \A o \in Objs \ A : value'[o] = value[o]

New(u) ==
    /\ value[u] = Dead
    /\ value'[u] \in {NewObject(class) : class \in Classes}
    /\ Others({u}) /\ UNCHANGED wrong

OneObject(u) ==
    /\ value[u] # Dead
    /\ Others({u})
    /\ After(value[u], value'[u], Docs \cup {WriteJson(value[w]) : w \in {o \in Objs : value[o] # Dead}})
    /\ UNCHANGED wrong

TwoObjects(u, w) ==
    LET fresh == value[u] = Dead
        x == IF fresh THEN NewObject(value[w].class) ELSE value[u]
    IN  /\ u # w /\ value[w] # Dead
        /\ Others({u, w})
        /\ <<value'[u], value'[w]>> \in AfterBoth(x, value[w], fresh)
        /\ UNCHANGED wrong

Undefined ==
    /\ \/ \E u \in Objs : value[u] # Dead /\ MayFail(value[u])
       \/ \E u, w \in Objs :
            /\ u # w /\ value[w] # Dead
            /\ CopyMayFail(IF value[u] = Dead THEN NewObject(value[w].class) ELSE value[u], value[w])
    /\ Fail

AbsInit == value = [u \in Objs |-> Dead] /\ wrong = FALSE

AbsNext ==
    \/ \E u \in Objs : New(u) \/ OneObject(u)
    \/ \E u, w \in Objs : TwoObjects(u, w)
    \/ Undefined

AbsSpec == AbsInit /\ [][AbsNext]_absVars
=============================================================================
