--------------------------- MODULE OrderedObjects ---------------------------
(***************************************************************************)
(* What cJSON promises of its objects: an object is a sequence of named    *)
(* items, an item belongs to one object at most, and a deleted item takes  *)
(* what it contains with it.  Module CJSON implements this with linked     *)
(* lists.                                                                  *)
(***************************************************************************)
EXTENDS Integers, SequencesExt

CONSTANTS
  Items,  \* the items memory has room for
  Keys,   \* names
  NULL    \* no name

VARIABLES
  live,     \* the items that exist
  content,  \* the sequence of the items of each item
  name      \* the name of each item in the object it belongs to

objects == <<live, content, name>>

\* n is in no object.
Root(n) == n \in live /\ \A o \in live : n \notin ToSet(content[o])

\* n and what is inside it: the least set that contains n and the items of its members.
Inside(n) ==
  LET closed == {S \in SUBSET Items : n \in S /\ \A o \in S : ToSet(content[o]) \subseteq S}
  IN  {p \in Items : \A S \in closed : p \in S}

\* The i-th item of o is the first with the name k.
First(o, k, i) ==
  i \in DOMAIN content[o] /\ \A j \in 1..i : name[content[o][j]] = k <=> j = i

\* n can be given to o.
Free(n, o) == Root(n) /\ o \in live \ Inside(n)

\* n and what is inside it cease to exist; the rest is as before.
Dispose(n, before, named) ==
  LET gone == Inside(n)
  IN  /\ n \in live \ live' /\ live' = live \ gone
      /\ content' = [o \in Items |-> IF o \in gone THEN << >> ELSE before[o]]
      /\ name' = [o \in Items |-> IF o \in gone THEN NULL ELSE named[o]]

Init ==
  /\ live = {}
  /\ content = [n \in Items |-> << >>]
  /\ name = [n \in Items |-> NULL]

Create(n) == n \notin live /\ live' = live \union {n} /\ UNCHANGED <<content, name>>

Add(o, k, n) ==
  /\ UNCHANGED live
  /\ name' = [name EXCEPT ![n] = k]
  /\ content' = [content EXCEPT ![o] = Append(@, n)]
  /\ Free(n, o)

Insert(o, i, n) ==
  /\ UNCHANGED <<live, name>>
  /\ i \in 1..Len(content[o]) + 1
  /\ content' = [content EXCEPT ![o] = InsertAt(@, i, n)]
  /\ Free(n, o)

\* The i-th item leaves o; it may be deleted at once.
Detach(o, i) ==
  /\ o \in live /\ i \in DOMAIN content[o]
  /\ LET rest == [content EXCEPT ![o] = RemoveAt(@, i)]
     IN  \/ UNCHANGED <<live, name>> /\ content' = rest
         \/ Dispose(content[o][i], rest, name)

Rename(o, k, n) == UNCHANGED <<live, content>> /\ name' = [name EXCEPT ![n] = k] /\ Free(n, o)

\* n takes the place of the i-th item, which is deleted, and the name k.
Replace(o, i, k, n) ==
  /\ i \in DOMAIN content[o]
  /\ Dispose(content[o][i], [content EXCEPT ![o][i] = n], [name EXCEPT ![n] = k])
  /\ Free(n, o)

Delete(n) == Dispose(n, content, name) /\ Root(n)

\* A new item with new items, named or not, inside it.
Parse(o) ==
  LET members == content'[o]
  IN  /\ o \in Items \ live
      /\ IsInjective(<<o>> \o members) /\ ToSet(members) \cap live = {}
      /\ live' = live \union ToSet(<<o>> \o members)
      /\ content' = [content EXCEPT ![o] = members]
      /\ \A n \in Items \ ToSet(members) : name'[n] = name[n]
      /\ \A n \in ToSet(members) : name'[n] \in Keys \union {NULL}

\* f maps n, or n with all that is inside, to new items with the same names that
\* are as deep inside one another and in the same order.
Duplicate(f) ==
  LET Original(p) == CHOOSE n \in DOMAIN f : f[n] = p
  IN  /\ live' = live \union Range(f)
      /\ content' = [p \in Items |->
           IF p \notin Range(f) THEN content[p]
           ELSE IF ToSet(content[Original(p)]) \subseteq DOMAIN f
           THEN [j \in DOMAIN content[Original(p)] |-> f[content[Original(p)][j]]]
           ELSE << >>]
      /\ name' = [p \in Items |-> IF p \in Range(f) THEN name[Original(p)] ELSE name[p]]

Next ==
  \/ \E n \in Items : Create(n) \/ Delete(n)
  \/ \E o \in live, k \in Keys, n \in Items :
       \/ Add(o, k, n) \/ Rename(o, k, n)
       \/ \E i \in DOMAIN content[o] : First(o, k, i) /\ Replace(o, i, k, n)
  \/ \E o \in live, n \in Items : \E i \in 1..Len(content[o]) + 1 :
       Insert(o, i, n) \/ Replace(o, i, name[n], n) \/ Detach(o, i)
  \/ \E o \in Items : Parse(o)
  \/ \E n \in live : \E T \in {{n}, Inside(n)} : \E f \in [T -> live' \ live] :
       IsInjective(f) /\ Duplicate(f)

Spec == Init /\ [][Next]_objects
=============================================================================
