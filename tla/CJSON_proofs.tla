---------------------------- MODULE CJSON_proofs ----------------------------
(***************************************************************************)
(* Proofs about module CJSON, for any number of items and names: no item   *)
(* points to freed memory, and the two links of every list agree.          *)
(*                                                                         *)
(* What a loop visits is the least closed set (From, Deleted), so that a   *)
(* fact about all of it is proved by one closed set on which it holds.     *)
(***************************************************************************)
EXTENDS CJSON, SequenceTheorems, WellFoundedInduction, TLAPS

\* The parts of TypeOK the proofs use.
LEMMA PointerTypes ==
  ASSUME TypeOK
  PROVE  /\ allocated \subseteq Items /\ NULL \notin Items /\ NULL \notin allocated
         /\ child \in [Items -> Pointers] /\ next \in [Items -> Pointers]
         /\ prev \in [Items -> Pointers] /\ string \in [Items -> Keys \union {NULL}]
         /\ \A n \in allocated : /\ child[n] \in allocated \union {NULL}
                                 /\ next[n] \in allocated \union {NULL}
                                 /\ prev[n] \in allocated \union {NULL}
BY NullAssumption DEF TypeOK

-----------------------------------------------------------------------------
(* The closures.                                                           *)

\* What a walk along next visits.
LEMMA FromClosed ==
  ASSUME NEW p \in Items
  PROVE  p \in From(p) /\ From(p) \subseteq Items
<1>1. From(p) \subseteq Items
  BY DEF From
<1>2. p \in From(p)
  BY DEF From
<1>. QED  BY <1>1, <1>2

\* It is closed under next ...
LEMMA FromNext ==
  ASSUME TypeOK, NEW p \in Items, NEW n \in From(p), next[n] # NULL
  PROVE  next[n] \in From(p)
<1>. DEFINE closed == {S \in SUBSET Items : p \in S /\ NextInside(S)}
<1>1. n \in Items /\ next[n] \in Items
  BY PointerTypes DEF From, Pointers
<1>2. \A S \in closed : next[n] \in S
  <2>. SUFFICES ASSUME NEW S \in closed
                PROVE  next[n] \in S
    OBVIOUS
  <2>1. n \in S
    BY DEF From
  <2>. QED  BY <2>1 DEF NextInside
<1>. QED  BY <1>1, <1>2 DEF From

\* ... and part of every set of items that is.
LEMMA FromLeast ==
  ASSUME NEW p \in Items, NEW S \in SUBSET Items, p \in S,
         \A n \in S : next[n] # NULL => next[n] \in S
  PROVE  From(p) \subseteq S
BY DEF From, NextInside

\* What cJSON_Delete visits.
LEMMA DeletedClosed ==
  ASSUME NEW p \in Items
  PROVE  p \in Deleted(p) /\ Deleted(p) \subseteq Items
<1>1. Deleted(p) \subseteq Items
  BY DEF Deleted
<1>2. p \in Deleted(p)
  BY DEF Deleted
<1>. QED  BY <1>1, <1>2

\* It is closed under next and child ...
LEMMA DeletedNext ==
  ASSUME TypeOK, NEW p \in Items, NEW n \in Deleted(p)
  PROVE  /\ next[n] # NULL => next[n] \in Deleted(p)
         /\ child[n] # NULL => child[n] \in Deleted(p)
<1>. DEFINE closed == {S \in SUBSET Items : p \in S /\ NextInside(S) /\ ChildInside(S)}
<1>1. /\ n \in Items
      /\ next[n] \in Items \union {NULL} /\ child[n] \in Items \union {NULL}
  BY PointerTypes DEF Deleted, Pointers
<1>2. \A S \in closed : next[n] \in S \union {NULL} /\ child[n] \in S \union {NULL}
  <2>. SUFFICES ASSUME NEW S \in closed
                PROVE  next[n] \in S \union {NULL} /\ child[n] \in S \union {NULL}
    OBVIOUS
  <2>1. n \in S
    BY DEF Deleted
  <2>. QED  BY <2>1 DEF NextInside, ChildInside
<1>3. next[n] # NULL => next[n] \in Deleted(p)
  BY <1>1, <1>2, PointerTypes DEF Deleted
<1>4. child[n] # NULL => child[n] \in Deleted(p)
  BY <1>1, <1>2, PointerTypes DEF Deleted
<1>. QED  BY <1>3, <1>4

\* ... and part of every set of items that is.
LEMMA DeletedLeast ==
  ASSUME NEW p \in Items, NEW S \in SUBSET Items, p \in S,
         \A n \in S : /\ next[n] # NULL => next[n] \in S
                      /\ child[n] # NULL => child[n] \in S
  PROVE  Deleted(p) \subseteq S
BY DEF Deleted, NextInside, ChildInside

\* Items that exist lead to items that exist.
LEMMA ClosuresAllocated ==
  ASSUME TypeOK, NEW p \in allocated
  PROVE  From(p) \subseteq allocated /\ Deleted(p) \subseteq allocated
<1>1. /\ p \in Items /\ allocated \in SUBSET Items
      /\ \A n \in allocated : /\ next[n] # NULL => next[n] \in allocated
                              /\ child[n] # NULL => child[n] \in allocated
  BY PointerTypes
<1>. QED  BY <1>1, FromLeast, DeletedLeast

\* Every item of a closure but the first is led to by another one of it.
LEMMA FromEntered ==
  ASSUME TypeOK, NEW p \in Items, NEW n \in From(p), n # p
  PROVE  \E m \in From(p) : next[m] = n
<1>. SUFFICES ASSUME \A m \in From(p) : next[m] # n
              PROVE  FALSE
  OBVIOUS
<1>1. /\ From(p) \ {n} \in SUBSET Items /\ p \in From(p) \ {n}
      /\ \A m \in From(p) \ {n} : next[m] # NULL => next[m] \in From(p) \ {n}
  BY FromClosed, FromNext
<1>. QED  BY <1>1, FromLeast

\* The same for what cJSON_Delete visits.
LEMMA DeletedEntered ==
  ASSUME TypeOK, NEW p \in Items, NEW n \in Deleted(p), n # p
  PROVE  \E m \in Deleted(p) : next[m] = n \/ child[m] = n
<1>. SUFFICES ASSUME \A m \in Deleted(p) : next[m] # n /\ child[m] # n
              PROVE  FALSE
  OBVIOUS
<1>1. /\ Deleted(p) \ {n} \in SUBSET Items /\ p \in Deleted(p) \ {n}
      /\ \A m \in Deleted(p) \ {n} : /\ next[m] # NULL => next[m] \in Deleted(p) \ {n}
                                     /\ child[m] # NULL => child[m] \in Deleted(p) \ {n}
  BY DeletedClosed, DeletedNext
<1>. QED  BY <1>1, DeletedLeast

\* A list is part of what is inside its object and of what follows its head.
LEMMA FromDeleted ==
  ASSUME TypeOK, NEW p \in Items, NEW n \in Deleted(p)
  PROVE  From(n) \subseteq Deleted(p)
<1>1. n \in Items /\ Deleted(p) \in SUBSET Items
  BY DeletedClosed
<1>. QED  BY <1>1, DeletedNext, FromLeast

-----------------------------------------------------------------------------
(* Lists and trees.                                                        *)

\* An item leads nowhere it is led to twice, and nothing leads to the head of a list
\* by next.
LEMMA LinkedFacts ==
  ASSUME TreeInv
  PROVE  /\ TypeOK
         /\ \A n, m \in allocated : next[n] # NULL /\ next[n] = next[m] => n = m
         /\ \A n, m \in allocated : child[n] # NULL /\ child[n] = child[m] => n = m
         /\ \A n, m \in allocated : child[n] # NULL => child[n] # next[m]
         /\ \A n, m \in allocated : next[n] = m <=> prev[m] = n
         /\ \A n \in allocated : next[n] # n
<1>1. TypeOK /\ Linked /\ Owned /\ Grounded
  BY DEF TreeInv
<1>2. \A n, m \in allocated : next[n] = m <=> prev[m] = n
  BY <1>1, PointerTypes DEF Linked
<1>3. \A n \in allocated : next[n] # n
  <2>. SUFFICES ASSUME NEW n \in allocated, next[n] = n
                PROVE  FALSE
    OBVIOUS
  <2>1. {n} \in SUBSET allocated /\ {n} # {}
    OBVIOUS
  <2>. QED  BY <1>1, <2>1 DEF Grounded
<1>. QED  BY <1>1, <1>2, <1>3, PointerTypes DEF Linked, Owned

\* The list of an object: it starts at child, ends at NULL and prev leads back in it.
LEMMA MembersFacts ==
  ASSUME TreeInv, NEW o \in allocated
  PROVE  /\ Members(o) \subseteq allocated
         /\ child[o] # NULL => child[o] \in Members(o)
         /\ \A n \in Members(o) : n # child[o] => prev[n] \in Members(o) /\ next[prev[n]] = n
         /\ \A n \in Members(o) : next[n] # NULL => next[n] \in Members(o)
<1>1. CASE child[o] = NULL
  BY <1>1 DEF Members
<1>2. CASE child[o] # NULL
  <2>1. TypeOK /\ child[o] \in allocated /\ child[o] \in Items /\ Members(o) = From(child[o])
    BY <1>2, PointerTypes DEF TreeInv, Members
  <2>2. Members(o) \subseteq allocated /\ child[o] \in Members(o)
    BY <2>1, ClosuresAllocated, FromClosed
  <2>3. \A n \in Members(o) : n # child[o] => \E m \in Members(o) : next[m] = n
    BY <2>1, FromEntered
  <2>4. \A n \in Members(o) : n # child[o] => prev[n] \in Members(o) /\ next[prev[n]] = n
    BY <2>2, <2>3, LinkedFacts
  <2>. QED  BY <2>1, <2>2, <2>4, FromNext
<1>. QED  BY <1>1, <1>2

\* A list ends.
LEMMA LastItemFacts ==
  ASSUME TreeInv, NEW o \in allocated, child[o] # NULL
  PROVE  LastItem(o) \in Members(o) /\ next[LastItem(o)] = NULL
<1>1. Members(o) \in SUBSET allocated /\ Members(o) # {}
  BY MembersFacts
<1>2. PICK n \in Members(o) : next[n] \notin Members(o)
  BY <1>1 DEF TreeInv, Grounded
<1>3. next[n] = NULL
  BY <1>2, MembersFacts
<1>. QED  BY <1>3 DEF LastItem

\* There is a first of the items of a list with the same name.
LEMMA FirstNamed ==
  ASSUME TreeInv, NEW o \in allocated, NEW named \in SUBSET Members(o), named # {}
  PROVE  \E n \in named : named \subseteq From(n)
<1>. DEFINE Early == {n \in Members(o) : named \subseteq From(n)}
<1>1. /\ TypeOK /\ child[o] # NULL /\ child[o] \in Early
      /\ Early \in SUBSET allocated
  BY MembersFacts DEF Members, TreeInv
<1>2. PICK n \in Early : next[n] \notin Early
  BY <1>1 DEF TreeInv, Grounded
<1>3. /\ n \in allocated /\ n \in Items /\ next[n] \in Items \union {NULL}
      /\ next[n] # NULL => next[n] \in Members(o)
  BY <1>1, <1>2, MembersFacts, PointerTypes
<1>4. CASE n \in named
  BY <1>4
<1>5. CASE n \notin named
  <2>1. CASE next[n] = NULL
    <3>1. From(n) \subseteq {n}
      BY <1>3, <2>1, FromLeast
    <3>. QED  BY <1>5, <3>1
  <2>2. CASE next[n] # NULL
    <3>1. From(n) \subseteq {n} \union From(next[n])
      <4>. DEFINE S == {n} \union From(next[n])
      <4>1. /\ S \in SUBSET Items /\ n \in S
            /\ \A m \in S : next[m] # NULL => next[m] \in S
        BY <1>1, <1>3, <2>2, FromClosed, FromNext
      <4>. HIDE DEF S
      <4>2. From(n) \subseteq S
        BY <1>3, <4>1, FromLeast
      <4>. QED  BY <4>2 DEF S
    <3>. QED  BY <1>2, <1>3, <1>5, <2>2, <3>1
  <2>. QED  BY <2>1, <2>2
<1>. QED  BY <1>4, <1>5

\* What the two lookups find is an item of the list.
LEMMA FoundNamed ==
  ASSUME TreeInv, NEW o \in allocated, NEW k
  PROVE  get_object_item(o, k) \in Members(o) \union {NULL}
<1>. DEFINE named == {n \in Members(o) : string[n] = k}
<1>1. CASE named = {}
  BY <1>1 DEF get_object_item
<1>2. CASE named # {}
  <2>1. named \in SUBSET Members(o)
    OBVIOUS
  <2>2. \E n \in named : named \subseteq From(n)
    <3>. HIDE DEF named
    <3>. QED  BY <1>2, <2>1, FirstNamed
  <2>3. get_object_item(o, k) \in named
    BY <1>2, <2>2 DEF get_object_item
  <2>. QED  BY <2>3
<1>. QED  BY <1>1, <1>2

\* What get_array_item finds is in the list.
LEMMA FoundAt ==
  ASSUME NEW o, NEW i
  PROVE  get_array_item(o, i) \in Members(o) \union {NULL}
BY DEF get_array_item

\* No item is inside itself.
LEMMA NotInsideItself ==
  ASSUME TreeInv, NEW n \in allocated, child[n] # NULL
  PROVE  n \notin Deleted(child[n])
<1>. SUFFICES ASSUME n \in Deleted(child[n])
              PROVE  FALSE
  OBVIOUS
<1>. DEFINE Above == {m \in Deleted(child[n]) : n \in Deleted(m)}
<1>1. TypeOK /\ child[n] \in allocated /\ allocated \subseteq Items
  BY PointerTypes DEF TreeInv
<1>2. Above \in SUBSET allocated /\ child[n] \in Above
  BY <1>1, ClosuresAllocated, DeletedClosed
<1>3. PICK m \in Above : next[m] \notin Above /\ child[m] \notin Above
  BY <1>2 DEF TreeInv, Grounded
<1>4. /\ m \in allocated /\ m \in Items
      /\ next[m] # NULL => next[m] \in Deleted(child[n]) /\ n \notin Deleted(next[m])
      /\ child[m] # NULL => child[m] \in Deleted(child[n]) /\ n \notin Deleted(child[m])
  BY <1>1, <1>2, <1>3, DeletedNext
<1>5. m # n
  BY <1>2, <1>3
<1>. DEFINE S == {m} \union {x \in Items : \/ next[m] # NULL /\ x \in Deleted(next[m])
                                           \/ child[m] # NULL /\ x \in Deleted(child[m])}
<1>6. S \in SUBSET Items /\ m \in S /\ n \notin S
  BY <1>4, <1>5
<1>7. ASSUME NEW x \in S
      PROVE  /\ next[x] # NULL => next[x] \in S
             /\ child[x] # NULL => child[x] \in S
  <2>1. /\ next[m] \in Items \union {NULL} /\ child[m] \in Items \union {NULL}
        /\ next[x] \in Items \union {NULL} /\ child[x] \in Items \union {NULL}
    BY <1>1, <1>4, <1>6, PointerTypes DEF Pointers
  <2>2. CASE x = m
    BY <2>1, <2>2, DeletedClosed
  <2>3. CASE next[m] # NULL /\ x \in Deleted(next[m])
    BY <1>1, <2>1, <2>3, DeletedNext
  <2>4. CASE child[m] # NULL /\ x \in Deleted(child[m])
    BY <1>1, <2>1, <2>4, DeletedNext
  <2>. QED  BY <2>2, <2>3, <2>4
<1>8. Deleted(m) \subseteq S
  <2>. HIDE DEF S
  <2>. QED  BY <1>4, <1>6, <1>7, DeletedLeast
<1>. QED  BY <1>3, <1>6, <1>8

\* Nothing leads to an item that is in no list.
LEMMA LooseFacts ==
  ASSUME TreeInv, NEW n, Loose(n)
  PROVE  /\ n \in allocated /\ next[n] = NULL /\ prev[n] = NULL
         /\ \A x \in allocated : next[x] # n /\ child[x] # n /\ prev[x] # n
BY LinkedFacts, PointerTypes DEF Loose

\* The list of an object is not inside an item that may be put into it.
LEMMA ListOutside ==
  ASSUME TreeInv, NEW o \in allocated, NEW n \in allocated, MayAdd(o, n)
  PROVE  Members(o) \cap Deleted(n) = {}
<1>. DEFINE S == Members(o) \ Deleted(n)
<1>0. /\ TypeOK /\ Loose(n) /\ o \notin Deleted(n) /\ n \in Items
      /\ Deleted(n) \subseteq allocated
  BY PointerTypes, ClosuresAllocated DEF MayAdd, TreeInv
<1>1. CASE child[o] = NULL
  BY <1>1 DEF Members
<1>2. CASE child[o] # NULL
  <2>1. /\ child[o] \in allocated /\ child[o] \in Items /\ child[o] \in Members(o)
        /\ Members(o) = From(child[o]) /\ Members(o) \in SUBSET Items
    BY <1>0, <1>2, PointerTypes, MembersFacts, FromClosed DEF Members
  <2>2. child[o] \notin Deleted(n)
    <3>. SUFFICES ASSUME child[o] \in Deleted(n)
                  PROVE  FALSE
      OBVIOUS
    <3>1. PICK m \in Deleted(n) : next[m] = child[o] \/ child[m] = child[o]
      BY <1>0, DeletedEntered, LooseFacts
    <3>. QED  BY <1>0, <1>2, <3>1, LinkedFacts
  <2>3. ASSUME NEW x \in S, next[x] # NULL
        PROVE  next[x] \in S
    <3>. SUFFICES ASSUME next[x] \in Deleted(n)
                  PROVE  FALSE
      BY <2>3, MembersFacts
    <3>1. x \in allocated
      BY MembersFacts
    <3>2. PICK m \in Deleted(n) : next[m] = next[x] \/ child[m] = next[x]
      BY <1>0, <3>1, DeletedEntered, LooseFacts
    <3>3. m = x
      BY <1>0, <2>3, <3>1, <3>2, LinkedFacts
    <3>. QED  BY <3>3
  <2>4. S \in SUBSET Items /\ child[o] \in S
    BY <2>1, <2>2
  <2>. HIDE DEF S
  <2>5. From(child[o]) \subseteq S
    BY <2>1, <2>3, <2>4, FromLeast
  <2>. QED  BY <2>1, <2>5 DEF S
<1>. QED  BY <1>1, <1>2

\* What is deleted with an item: nothing else leads into it but to the item.
LEMMA TreeFacts ==
  ASSUME TreeInv, NEW item \in allocated
  PROVE  /\ item \in Tree(item) /\ Tree(item) \subseteq allocated
         /\ next[item] \notin Tree(item) /\ prev[item] \notin Tree(item)
         /\ \A x \in allocated \ Tree(item) :
              /\ next[x] \in Tree(item) => next[x] = item
              /\ child[x] \in Tree(item) => child[x] = item
              /\ prev[x] \in Tree(item) => prev[x] = item
<1>0. /\ TypeOK /\ allocated \subseteq Items /\ NULL \notin allocated
      /\ next[item] # item /\ prev[item] # item
  BY LinkedFacts, PointerTypes
<1>1. CASE child[item] = NULL
  <2>1. Tree(item) = {item}
    BY <1>1 DEF Tree
  <2>. QED  BY <1>0, <2>1
<1>2. CASE child[item] # NULL
  <2>. DEFINE c == child[item]
  <2>1. /\ Tree(item) = {item} \union Deleted(c) /\ c \in allocated /\ c \in Items
        /\ Deleted(c) \subseteq allocated /\ item \notin Deleted(c)
    BY <1>0, <1>2, PointerTypes, ClosuresAllocated, NotInsideItself DEF Tree
  <2>. HIDE DEF c
  <2>2. \A x \in Deleted(c) : /\ next[x] # NULL => next[x] \in Deleted(c)
                              /\ child[x] # NULL => child[x] \in Deleted(c)
    BY <1>0, <2>1, DeletedNext
  <2>3. \A x \in Deleted(c) : x # c => \E m \in Deleted(c) : next[m] = x \/ child[m] = x
    BY <1>0, <2>1, DeletedEntered
  <2>4. ASSUME NEW x \in allocated, x \notin Deleted(c)
        PROVE  /\ next[x] \notin Deleted(c) /\ prev[x] \notin Deleted(c)
               /\ child[x] \in Deleted(c) => x = item
    <3>1. next[x] \notin Deleted(c)
      <4>. SUFFICES ASSUME next[x] \in Deleted(c)
                    PROVE  FALSE
        OBVIOUS
      <4>1. next[x] # c /\ next[x] # NULL
        BY <1>0, <1>2, <2>1, LinkedFacts DEF c
      <4>2. PICK m \in Deleted(c) : next[m] = next[x] \/ child[m] = next[x]
        BY <2>3, <4>1
      <4>3. m = x
        BY <2>1, <4>1, <4>2, LinkedFacts
      <4>. QED  BY <2>4, <4>3
    <3>2. prev[x] \notin Deleted(c)
      <4>. SUFFICES ASSUME prev[x] \in Deleted(c)
                    PROVE  FALSE
        OBVIOUS
      <4>1. next[prev[x]] = x
        BY <2>1, LinkedFacts
      <4>. QED  BY <1>0, <2>2, <2>4, <4>1
    <3>3. ASSUME child[x] \in Deleted(c)
          PROVE  x = item
      <4>1. CASE child[x] = c
        BY <1>0, <2>1, <4>1, LinkedFacts DEF c
      <4>2. CASE child[x] # c
        <5>1. PICK m \in Deleted(c) : next[m] = child[x] \/ child[m] = child[x]
          BY <2>3, <3>3, <4>2
        <5>2. m = x
          BY <1>0, <2>1, <3>3, <5>1, LinkedFacts
        <5>. QED  BY <2>4, <5>2
      <4>. QED  BY <4>1, <4>2
    <3>. QED  BY <3>1, <3>2, <3>3
  <2>5. \A x \in allocated : x \notin Deleted(c) =>
          /\ next[x] \notin Deleted(c) /\ prev[x] \notin Deleted(c)
          /\ child[x] \in Deleted(c) => x = item
    BY <2>4
  <2>. QED  BY <1>0, <2>1, <2>5
<1>. QED  BY <1>1, <1>2

-----------------------------------------------------------------------------
(* The invariant as a property of a set A of items and of three fields, so *)
(* that an operation can be taken to pieces.                               *)

Inside(A, field) ==
  field \in [Items -> Pointers] /\ \A x \in A : field[x] \in A \union {NULL}

Heap(A, c, n, p) ==
  /\ A \subseteq Items
  /\ Inside(A, c) /\ Inside(A, n) /\ Inside(A, p)
  /\ \A x \in A : /\ n[x] # NULL => p[n[x]] = x
                  /\ p[x] # NULL => n[p[x]] = x
                  /\ c[x] # NULL => p[c[x]] = NULL
  /\ \A x, y \in A : c[x] # NULL /\ c[x] = c[y] => x = y
  /\ \A S \in SUBSET A : S # {} => \E x \in S : n[x] \notin S /\ c[x] \notin S

\* The invariant is about the items that are allocated.
LEMMA HeapIInv == TreeInv => Heap(allocated, child, next, prev)
BY DEF TreeInv, Heap, Inside, TypeOK, Linked, Owned, Grounded

\* The invariant after a step, from the fields it leaves.
LEMMA IInvHeap ==
  ASSUME Heap(allocated, child, next, prev)', string' \in [Items -> Keys \union {NULL}]
  PROVE  TreeInv'
BY DEF TreeInv, Heap, Inside, TypeOK, Linked, Owned, Grounded

\* Some items are freed that the others do not lead to.
LEMMA HeapFreed ==
  ASSUME NEW A, NEW c, NEW n, NEW p, Heap(A, c, n, p), NEW gone,
         \A x \in A \ gone : c[x] \notin gone /\ n[x] \notin gone /\ p[x] \notin gone
  PROVE  Heap(A \ gone, Cleared(c, gone), Cleared(n, gone), Cleared(p, gone))
<1>. DEFINE B == A \ gone
            c2 == Cleared(c, gone)
            n2 == Cleared(n, gone)
            p2 == Cleared(p, gone)
<1>1. /\ A \subseteq Items /\ NULL \notin A /\ Inside(A, c) /\ Inside(A, n) /\ Inside(A, p)
  BY NullAssumption DEF Heap
<1>2. \A x \in B : c2[x] = c[x] /\ n2[x] = n[x] /\ p2[x] = p[x]
  BY <1>1 DEF Cleared
<1>3. c2 \in [Items -> Pointers] /\ n2 \in [Items -> Pointers] /\ p2 \in [Items -> Pointers]
  BY <1>1 DEF Cleared, Pointers, Inside
<1>. HIDE DEF c2, n2, p2
<1>4. Inside(B, c2) /\ Inside(B, n2) /\ Inside(B, p2)
  BY <1>1, <1>2, <1>3 DEF Inside
<1>5. \A x \in B : /\ n2[x] # NULL => p2[n2[x]] = x
                   /\ p2[x] # NULL => n2[p2[x]] = x
                   /\ c2[x] # NULL => p2[c2[x]] = NULL
  BY <1>2, <1>4 DEF Heap, Inside
<1>6. \A x, y \in B : c2[x] # NULL /\ c2[x] = c2[y] => x = y
  BY <1>2 DEF Heap
<1>7. ASSUME NEW S \in SUBSET B, S # {}
      PROVE  \E x \in S : n2[x] \notin S /\ c2[x] \notin S
  <2>1. S \in SUBSET A
    OBVIOUS
  <2>. QED  BY <1>2, <1>7, <2>1 DEF Heap
<1>8. Heap(B, c2, n2, p2)
  BY <1>1, <1>4, <1>5, <1>6, <1>7 DEF Heap
<1>. QED  BY <1>8 DEF c2, n2, p2

\* Two sets of items that do not lead to each other are put together.
LEMMA HeapUnion ==
  ASSUME NEW A, NEW c, NEW n, NEW p, Heap(A, c, n, p),
         NEW B, NEW c2, NEW n2, NEW p2, Heap(B, c2, n2, p2), A \cap B = {},
         \A x \in A : c2[x] = c[x] /\ n2[x] = n[x] /\ p2[x] = p[x]
  PROVE  Heap(A \union B, c2, n2, p2)
<1>1. /\ A \subseteq Items /\ B \subseteq Items /\ NULL \notin A \union B
      /\ \A x \in A : c[x] \in A \union {NULL} /\ n[x] \in A \union {NULL}
                        /\ p[x] \in A \union {NULL}
      /\ \A x \in B : c2[x] \in B \union {NULL} /\ n2[x] \in B \union {NULL}
                        /\ p2[x] \in B \union {NULL}
      /\ c2 \in [Items -> Pointers] /\ n2 \in [Items -> Pointers] /\ p2 \in [Items -> Pointers]
  BY NullAssumption DEF Heap, Inside
<1>2. Inside(A \union B, c2) /\ Inside(A \union B, n2) /\ Inside(A \union B, p2)
  BY <1>1 DEF Inside
<1>3. \A x \in A \union B : /\ n2[x] # NULL => p2[n2[x]] = x
                            /\ p2[x] # NULL => n2[p2[x]] = x
                            /\ c2[x] # NULL => p2[c2[x]] = NULL
  BY <1>1 DEF Heap
<1>4. \A x, y \in A \union B : c2[x] # NULL /\ c2[x] = c2[y] => x = y
  BY <1>1 DEF Heap
<1>5. ASSUME NEW S \in SUBSET (A \union B), S # {}
      PROVE  \E x \in S : n2[x] \notin S /\ c2[x] \notin S
  <2>1. CASE S \cap A # {}
    <3>1. S \cap A \in SUBSET A
      OBVIOUS
    <3>2. PICK x \in S \cap A : n[x] \notin S \cap A /\ c[x] \notin S \cap A
      BY <2>1, <3>1 DEF Heap
    <3>. QED  BY <1>1, <3>2
  <2>2. CASE S \cap A = {}
    <3>1. S \in SUBSET B
      BY <2>2
    <3>. QED  BY <1>5, <3>1 DEF Heap
  <2>. QED  BY <2>1, <2>2
<1>. QED  BY <1>1, <1>2, <1>3, <1>4, <1>5 DEF Heap

\* The item r, which nothing leads to, is put between the items a and q of the list
\* of o, either of which may be missing.  What is inside r is in the closed set D.
LEMMA HeapPut ==
  ASSUME NEW A, NEW c, NEW n, NEW p, Heap(A, c, n, p),
         NEW r \in A, n[r] = NULL, p[r] = NULL, \A x \in A : c[x] # r,
         NEW D \in SUBSET A, r \in D,
         \A x \in D : /\ n[x] # NULL => n[x] \in D
                      /\ c[x] # NULL => c[x] \in D,
         NEW o \in A \ D, NEW a \in (A \ D) \union {NULL}, NEW q \in A \union {NULL},
         IF a = NULL THEN c[o] = q ELSE n[a] = q,
         NEW c2 \in [Items -> Pointers], NEW n2 \in [Items -> Pointers],
         NEW p2 \in [Items -> Pointers],
         \A x \in A : c2[x] = IF a = NULL /\ x = o THEN r ELSE c[x],
         \A x \in A : n2[x] = IF x = r THEN q ELSE IF x = a THEN r ELSE n[x],
         \A x \in A : p2[x] = IF x = r THEN a ELSE IF x = q THEN r ELSE p[x]
  PROVE  Heap(A, c2, n2, p2)
<1>1. /\ A \subseteq Items /\ NULL \notin A
      /\ \A x \in A : c[x] \in A \union {NULL} /\ n[x] \in A \union {NULL}
                        /\ p[x] \in A \union {NULL}
  BY NullAssumption DEF Heap, Inside
<1>2. \A x \in A : n[x] # r /\ p[x] # r
  BY <1>1 DEF Heap
<1>3. q # r /\ a # r
  BY <1>2
<1>4. Inside(A, c2) /\ Inside(A, n2) /\ Inside(A, p2)
  BY <1>1 DEF Inside
<1>5. \A x \in A : /\ n[x] # NULL => p[n[x]] = x
                   /\ p[x] # NULL => n[p[x]] = x
                   /\ c[x] # NULL => p[c[x]] = NULL
  BY DEF Heap
<1>6. \A x, y \in A : c[x] # NULL /\ c[x] = c[y] => x = y
  BY DEF Heap
<1>7. ASSUME NEW x \in A
      PROVE  /\ n2[x] # NULL => p2[n2[x]] = x
             /\ p2[x] # NULL => n2[p2[x]] = x
             /\ c2[x] # NULL => p2[c2[x]] = NULL
  <2>1. n2[x] # NULL => p2[n2[x]] = x
    <3>1. CASE a = NULL
      BY <1>1, <1>2, <1>3, <1>5, <3>1
    <3>2. CASE a # NULL
      BY <1>1, <1>2, <1>3, <1>5, <3>2
    <3>. QED  BY <3>1, <3>2
  <2>2. p2[x] # NULL => n2[p2[x]] = x
    <3>1. CASE a = NULL
      BY <1>1, <1>2, <1>3, <1>5, <3>1
    <3>2. CASE a # NULL
      BY <1>1, <1>2, <1>3, <1>5, <3>2
    <3>. QED  BY <3>1, <3>2
  <2>3. c2[x] # NULL => p2[c2[x]] = NULL
    <3>1. CASE a = NULL
      BY <1>1, <1>2, <1>3, <1>5, <1>6, <3>1
    <3>2. CASE a # NULL
      BY <1>1, <1>2, <1>3, <1>5, <1>6, <3>2
    <3>. QED  BY <3>1, <3>2
  <2>. QED  BY <2>1, <2>2, <2>3
<1>8. \A x, y \in A : c2[x] # NULL /\ c2[x] = c2[y] => x = y
  BY <1>6
<1>9. ASSUME NEW S \in SUBSET A, S # {}
      PROVE  \E x \in S : n2[x] \notin S /\ c2[x] \notin S
  <2>0. \A T \in SUBSET A : T # {} => \E x \in T : n[x] \notin T /\ c[x] \notin T
    BY DEF Heap
  <2>1. CASE r \notin S
    <3>1. PICK x \in S : n[x] \notin S /\ c[x] \notin S
      BY <1>9, <2>0
    <3>. QED  BY <2>1, <3>1
  <2>2. CASE r \in S /\ q \in S
    <3>1. S \ {r} \in SUBSET A /\ S \ {r} # {}
      BY <1>3, <2>2
    <3>2. PICK x \in S \ {r} : n[x] \notin S \ {r} /\ c[x] \notin S \ {r}
      BY <2>0, <3>1
    <3>3. x \in A /\ n[x] # q /\ c[x] # q
      BY <1>3, <2>2, <3>2
    <3>4. n2[x] = n[x]
      BY <1>1, <3>2, <3>3
    <3>5. c2[x] = c[x]
      BY <3>3
    <3>. QED  BY <1>2, <3>2, <3>3, <3>4, <3>5
  <2>3. CASE r \in S /\ q \notin S
    <3>1. S \cap D \in SUBSET A /\ S \cap D # {}
      BY <2>3
    <3>2. PICK x \in S \cap D : n[x] \notin S \cap D /\ c[x] \notin S \cap D
      BY <2>0, <3>1
    <3>3. n[x] \notin S /\ c[x] \notin S
      BY <1>1, <1>9, <3>2
    <3>4. n2[x] \notin S
      BY <1>1, <2>3, <3>2, <3>3
    <3>5. c2[x] = c[x]
      BY <3>2
    <3>. QED  BY <3>2, <3>3, <3>4, <3>5
  <2>. QED  BY <2>1, <2>2, <2>3
<1>. QED  BY <1>1, <1>4, <1>7, <1>8, <1>9 DEF Heap

-----------------------------------------------------------------------------
(* The operations.                                                         *)

\* The fields after DetachItemViaPointer: the list of o is closed over the gap at
\* item, which then leads to its contents only.
DetachedChild(o, item) == IF item = child[o] THEN [child EXCEPT ![o] = next[item]] ELSE child
DetachedNext(item) == [Assign(next, prev[item], next[item]) EXCEPT ![item] = NULL]
DetachedPrev(item) == [Assign(prev, next[item], prev[item]) EXCEPT ![item] = NULL]

\* What a detachment leaves in the fields of the items.
LEMMA DetachedFields ==
  ASSUME TreeInv, NEW o \in allocated, NEW item \in Members(o)
  PROVE  /\ {DetachedChild(o, item), DetachedNext(item), DetachedPrev(item)}
              \subseteq [Items -> Pointers]
         /\ \A x \in allocated :
              /\ DetachedChild(o, item)[x] = IF x = o /\ item = child[o]
                                             THEN next[item] ELSE child[x]
              /\ DetachedNext(item)[x] = IF x = item THEN NULL
                        ELSE IF x = prev[item] THEN next[item] ELSE next[x]
              /\ DetachedPrev(item)[x] = IF x = item THEN NULL
                        ELSE IF x = next[item] THEN prev[item] ELSE prev[x]
<1>1. /\ TypeOK /\ item \in allocated /\ item \in Items /\ o \in Items
      /\ next[item] \in Pointers /\ prev[item] \in Pointers /\ NULL \in Pointers
  BY MembersFacts, PointerTypes DEF TreeInv, Pointers
<1>2. /\ Assign(next, prev[item], next[item]) \in [Items -> Pointers]
      /\ \A x \in allocated : Assign(next, prev[item], next[item])[x]
                                = IF x = prev[item] THEN next[item] ELSE next[x]
  BY <1>1, PointerTypes DEF Assign
<1>3. /\ Assign(prev, next[item], prev[item]) \in [Items -> Pointers]
      /\ \A x \in allocated : Assign(prev, next[item], prev[item])[x]
                                = IF x = next[item] THEN prev[item] ELSE prev[x]
  BY <1>1, PointerTypes DEF Assign
<1>4. {DetachedChild(o, item), DetachedNext(item), DetachedPrev(item)} \subseteq [Items -> Pointers]
  BY <1>1, <1>2, <1>3, PointerTypes DEF DetachedChild, DetachedNext, DetachedPrev
<1>5. ASSUME NEW x \in allocated
      PROVE  /\ DetachedChild(o, item)[x] = IF x = o /\ item = child[o]
                                            THEN next[item] ELSE child[x]
             /\ DetachedNext(item)[x] = IF x = item THEN NULL
                       ELSE IF x = prev[item] THEN next[item] ELSE next[x]
             /\ DetachedPrev(item)[x] = IF x = item THEN NULL
                       ELSE IF x = next[item] THEN prev[item] ELSE prev[x]
  <2>1. x \in Items
    BY <1>1, PointerTypes
  <2>2. DetachedChild(o, item)[x] = IF x = o /\ item = child[o] THEN next[item] ELSE child[x]
    BY <1>1, <2>1, PointerTypes DEF DetachedChild
  <2>3. DetachedNext(item)[x] = IF x = item THEN NULL
                                ELSE IF x = prev[item] THEN next[item] ELSE next[x]
    BY <1>1, <1>2, <2>1 DEF DetachedNext
  <2>4. DetachedPrev(item)[x] = IF x = item THEN NULL
                                ELSE IF x = next[item] THEN prev[item] ELSE prev[x]
    BY <1>1, <1>3, <2>1 DEF DetachedPrev
  <2>. QED  BY <2>2, <2>3, <2>4
<1>. QED  BY <1>4, <1>5

\* Only its object and its neighbours lead to an item of a list.
LEMMA Neighbours ==
  ASSUME TreeInv, NEW o \in allocated, NEW item \in Members(o)
  PROVE  /\ item \in allocated /\ next[item] # item /\ prev[item] # item
         /\ item = child[o] <=> prev[item] = NULL
         /\ prev[item] # NULL => prev[item] \in Members(o)
         /\ \A x \in allocated : /\ next[x] = item <=> x = prev[item]
                                 /\ prev[x] = item <=> x = next[item]
                                 /\ child[x] = item => x = o /\ item = child[o]
<1>1. /\ item \in allocated /\ NULL \notin allocated
      /\ prev[item] \in allocated \union {NULL} /\ next[item] \in allocated \union {NULL}
      /\ item # child[o] => prev[item] \in Members(o) /\ prev[item] # NULL
      /\ item = child[o] => prev[item] = NULL
  BY MembersFacts, PointerTypes DEF TreeInv, Linked
<1>2. \A x \in allocated : /\ next[x] = item <=> x = prev[item]
                           /\ prev[x] = item <=> x = next[item]
  BY <1>1, LinkedFacts
<1>3. ASSUME NEW x \in allocated, child[x] = item
      PROVE  x = o /\ item = child[o]
  <2>1. prev[item] = NULL
    BY <1>1, <1>3 DEF TreeInv, Linked
  <2>. QED  BY <1>1, <1>3, <2>1, LinkedFacts
<1>. QED  BY <1>1, <1>2, <1>3, LinkedFacts

\* A detachment, before anything is freed, leaves a forest of lists.
LEMMA DetachedHeap ==
  ASSUME TreeInv, NEW o \in allocated, NEW item \in Members(o)
  PROVE  Heap(allocated, DetachedChild(o, item), DetachedNext(item), DetachedPrev(item))
<1>. DEFINE c == DetachedChild(o, item)
            n == DetachedNext(item)
            p == DetachedPrev(item)
<1>1. /\ allocated \subseteq Items /\ NULL \notin allocated
      /\ \A x \in allocated : /\ child[x] \in allocated \union {NULL}
                              /\ next[x] \in allocated \union {NULL}
                              /\ prev[x] \in allocated \union {NULL}
      /\ item \in allocated
  BY PointerTypes, MembersFacts DEF TreeInv
<1>2. /\ c \in [Items -> Pointers] /\ n \in [Items -> Pointers] /\ p \in [Items -> Pointers]
      /\ \A x \in allocated :
              /\ c[x] = IF x = o /\ item = child[o] THEN next[item] ELSE child[x]
              /\ n[x] = IF x = item THEN NULL
                        ELSE IF x = prev[item] THEN next[item] ELSE next[x]
              /\ p[x] = IF x = item THEN NULL
                        ELSE IF x = next[item] THEN prev[item] ELSE prev[x]
  BY DetachedFields
<1>. HIDE DEF c, n, p
<1>3. Inside(allocated, c) /\ Inside(allocated, n) /\ Inside(allocated, p)
  BY <1>1, <1>2 DEF Inside
<1>4. ASSUME NEW x \in allocated
      PROVE  /\ n[x] # NULL => p[n[x]] = x
             /\ p[x] # NULL => n[p[x]] = x
             /\ c[x] # NULL => p[c[x]] = NULL
  <2>1. n[x] # NULL => p[n[x]] = x
    BY <1>1, <1>2, Neighbours, LinkedFacts
  <2>2. p[x] # NULL => n[p[x]] = x
    BY <1>1, <1>2, Neighbours, LinkedFacts
  <2>3. c[x] # NULL => p[c[x]] = NULL
    <3>1. CASE x = o /\ item = child[o]
      BY <1>1, <1>2, <3>1, Neighbours
    <3>2. CASE ~ (x = o /\ item = child[o])
      <4>1. /\ c[x] = child[x] /\ child[x] # item
            /\ child[x] # NULL => prev[child[x]] = NULL /\ child[x] # next[item]
        BY <1>1, <1>2, <3>2, Neighbours, LinkedFacts DEF TreeInv, Linked
      <4>. QED  BY <1>1, <1>2, <4>1
    <3>. QED  BY <3>1, <3>2
  <2>. QED  BY <2>1, <2>2, <2>3
<1>5. \A x, y \in allocated : c[x] # NULL /\ c[x] = c[y] => x = y
  BY <1>1, <1>2, LinkedFacts
<1>6. ASSUME NEW S \in SUBSET allocated, S # {}
      PROVE  \E x \in S : n[x] \notin S /\ c[x] \notin S
  <2>1. \A T \in SUBSET allocated :
          T # {} => \E x \in T : next[x] \notin T /\ child[x] \notin T
    BY DEF TreeInv, Grounded
  <2>2. PICK x \in S \union {item} :
          next[x] \notin S \union {item} /\ child[x] \notin S \union {item}
    BY <1>1, <2>1
  <2>3. CASE x # item
    <3>1. x \in S /\ x # prev[item] /\ ~ (x = o /\ item = child[o])
      BY <2>2, <2>3, Neighbours
    <3>2. n[x] = next[x] /\ c[x] = child[x]
      BY <1>2, <2>3, <3>1
    <3>. QED  BY <2>2, <3>1, <3>2
  <2>4. CASE x = item /\ item \in S
    <3>1. n[item] = NULL /\ (c[item] = child[item] \/ c[item] = next[item])
      BY <1>1, <1>2
    <3>. QED  BY <1>1, <2>2, <2>4, <3>1
  <2>5. CASE x = item /\ item \notin S
    <3>1. PICK y \in S : next[y] \notin S /\ child[y] \notin S
      BY <1>6, <2>1
    <3>2. /\ n[y] = next[y] \/ n[y] = next[item]
          /\ c[y] = child[y] \/ c[y] = next[item]
      BY <1>2, <2>5, <3>1
    <3>. QED  BY <2>2, <2>5, <3>1, <3>2
  <2>. QED  BY <2>2, <2>3, <2>4, <2>5
<1>7. Heap(allocated, c, n, p)
  BY <1>1, <1>3, <1>4, <1>5, <1>6 DEF Heap
<1>. QED  BY <1>7 DEF c, n, p

\* Names stay names when some are cleared.
LEMMA ClearedString ==
  ASSUME TypeOK, NEW S, NEW f \in [Items -> Keys \union {NULL}]
  PROVE  Cleared(f, S) \in [Items -> Keys \union {NULL}]
BY DEF Cleared

\* Detaching an item, and deleting it with all that is inside.
LEMMA DetachIInv ==
  ASSUME TreeInv, NEW o \in allocated, NEW item \in Members(o), NEW gone \in {{}, Tree(item)},
         DetachItemViaPointer(o, item, gone)
  PROVE  TreeInv'
<1>. DEFINE c == DetachedChild(o, item)
            n == DetachedNext(item)
            p == DetachedPrev(item)
<1>1. /\ allocated' = allocated \ gone
      /\ child' = Cleared(c, gone) /\ next' = Cleared(n, gone) /\ prev' = Cleared(p, gone)
      /\ string' = Cleared(string, gone)
  BY DEF DetachItemViaPointer, DetachedChild, DetachedNext, DetachedPrev
<1>2. \A x \in allocated : /\ c[x] = IF x = o /\ item = child[o] THEN next[item] ELSE child[x]
                           /\ n[x] = IF x = item THEN NULL
                                     ELSE IF x = prev[item] THEN next[item] ELSE next[x]
                           /\ p[x] = IF x = item THEN NULL
                                     ELSE IF x = next[item] THEN prev[item] ELSE prev[x]
  BY DetachedFields
<1>3. Heap(allocated, c, n, p)
  BY DetachedHeap
<1>. HIDE DEF c, n, p
<1>4. ASSUME NEW x \in allocated \ gone
      PROVE  c[x] \notin gone /\ n[x] \notin gone /\ p[x] \notin gone
  <2>1. CASE gone = {}
    BY <2>1
  <2>2. CASE gone = Tree(item)
    <3>1. item \in allocated /\ NULL \notin Tree(item) /\ x # item
      BY <2>2, MembersFacts, TreeFacts, PointerTypes DEF TreeInv
    <3>2. /\ next[item] \notin Tree(item) /\ prev[item] \notin Tree(item)
          /\ next[x] \in Tree(item) => x = prev[item]
          /\ child[x] \in Tree(item) => x = o /\ item = child[o]
          /\ prev[x] \in Tree(item) => x = next[item]
      BY <2>2, <3>1, TreeFacts, Neighbours
    <3>. QED  BY <1>2, <2>2, <3>1, <3>2
  <2>. QED  BY <2>1, <2>2
<1>5. Heap(allocated \ gone, Cleared(c, gone), Cleared(n, gone), Cleared(p, gone))
  BY <1>3, <1>4, HeapFreed
<1>6. string' \in [Items -> Keys \union {NULL}]
  BY <1>1, ClearedString, PointerTypes DEF TreeInv
<1>. QED  BY <1>1, <1>5, <1>6, IInvHeap

\* Putting an item at the end of a list.
LEMMA AddIInv ==
  ASSUME TreeInv, NEW o \in allocated, NEW r \in allocated, MayAdd(o, r),
         add_item_to_array(o, r), allocated' = allocated,
         string' \in [Items -> Keys \union {NULL}]
  PROVE  TreeInv'
<1>1. /\ TypeOK /\ Loose(r) /\ o \notin Deleted(r) /\ r \in Items /\ o \in Items
      /\ Deleted(r) \in SUBSET allocated /\ r \in Deleted(r)
      /\ NULL \notin allocated /\ NULL \in Pointers /\ allocated \subseteq Pointers
  BY PointerTypes, ClosuresAllocated, DeletedClosed DEF TreeInv, MayAdd, Pointers
<1>2. /\ child \in [Items -> Pointers] /\ next \in [Items -> Pointers]
      /\ prev \in [Items -> Pointers] /\ allocated \subseteq Items
  BY <1>1, PointerTypes
<1>3. /\ Heap(allocated, child, next, prev)
      /\ next[r] = NULL /\ prev[r] = NULL /\ \A x \in allocated : child[x] # r
      /\ \A x \in Deleted(r) : /\ next[x] # NULL => next[x] \in Deleted(r)
                               /\ child[x] # NULL => child[x] \in Deleted(r)
  BY <1>1, HeapIInv, LooseFacts, DeletedNext
<1>. DEFINE Put(a) == /\ a \in (allocated \ Deleted(r)) \union {NULL}
                      /\ IF a = NULL THEN child[o] = NULL ELSE next[a] = NULL
                      /\ {child', next', prev'} \subseteq [Items -> Pointers]
                      /\ \A x \in allocated :
                           /\ child'[x] = IF a = NULL /\ x = o THEN r ELSE child[x]
                           /\ next'[x] = IF x = r THEN NULL ELSE IF x = a THEN r ELSE next[x]
                           /\ prev'[x] = IF x = r THEN a ELSE IF x = NULL THEN r ELSE prev[x]
<1>4. \E a : Put(a)
  <2>1. CASE child[o] = NULL
    <3>1. child' = [child EXCEPT ![o] = r] /\ next' = next /\ prev' = prev
      BY <2>1 DEF add_item_to_array
    <3>2. Put(NULL)
      BY <1>1, <1>2, <1>3, <2>1, <3>1
    <3>. QED  BY <3>2
  <2>2. CASE child[o] # NULL
    <3>. DEFINE a == LastItem(o)
    <3>1. a \in Members(o) /\ next[a] = NULL
      BY <2>2, LastItemFacts
    <3>2. a \in allocated /\ a \notin Deleted(r) /\ a # r
      BY <1>1, <3>1, MembersFacts, ListOutside
    <3>. HIDE DEF a
    <3>3. /\ child' = child /\ next' = [next EXCEPT ![a] = r]
          /\ prev' = [prev EXCEPT ![r] = a]
      BY <2>2 DEF add_item_to_array, suffix_object, a
    <3>4. Put(a)
      BY <1>1, <1>2, <1>3, <3>1, <3>2, <3>3
    <3>. QED  BY <3>4
  <2>. QED  BY <2>1, <2>2
<1>5. PICK a : Put(a)
  BY <1>4
<1>6. Heap(allocated, child', next', prev')
  BY <1>1, <1>3, <1>5, HeapPut
<1>. QED  BY <1>6, IInvHeap

\* Putting an item before another one.
LEMMA InsertIInv ==
  ASSUME TreeInv, NEW o \in allocated, NEW i, NEW r \in allocated,
         cJSON_InsertItemInArray(o, i, r)
  PROVE  TreeInv'
<1>. DEFINE after == get_array_item(o, i)
<1>1. /\ MayAdd(o, r) /\ allocated' = allocated /\ string' = string
      /\ after \in Members(o) \union {NULL}
  BY FoundAt DEF cJSON_InsertItemInArray
<1>2. /\ TypeOK /\ Loose(r) /\ o \notin Deleted(r) /\ r \in Items /\ o \in Items
      /\ Deleted(r) \in SUBSET allocated /\ r \in Deleted(r)
      /\ NULL \notin allocated /\ NULL \in Pointers /\ allocated \subseteq Pointers
  BY <1>1, PointerTypes, ClosuresAllocated, DeletedClosed DEF TreeInv, MayAdd, Pointers
<1>3. /\ child \in [Items -> Pointers] /\ next \in [Items -> Pointers]
      /\ prev \in [Items -> Pointers] /\ allocated \subseteq Items
      /\ string \in [Items -> Keys \union {NULL}]
  BY <1>2, PointerTypes
<1>4. CASE after = NULL
  <2>1. add_item_to_array(o, r)
    BY <1>4 DEF cJSON_InsertItemInArray
  <2>. QED  BY <1>1, <1>3, <2>1, AddIInv
<1>5. CASE after # NULL
  <2>. DEFINE a == prev[after]
  <2>1. after \in Members(o) /\ after \in allocated /\ a \in allocated \union {NULL}
    BY <1>1, <1>2, <1>5, MembersFacts, PointerTypes
  <2>2. /\ a # NULL => a \in Members(o) /\ next[a] = after
        /\ a = NULL <=> after = child[o]
        /\ a # after /\ after \notin Deleted(r) /\ a \notin Deleted(r)
    BY <1>1, <1>2, <2>1, Neighbours, ListOutside
  <2>3. /\ prev' = [prev EXCEPT ![r] = a, ![after] = r]
        /\ IF after = child[o]
           THEN child' = [child EXCEPT ![o] = r] /\ next' = [next EXCEPT ![r] = after]
           ELSE next' = [next EXCEPT ![r] = after, ![a] = r] /\ child' = child
    BY <1>5 DEF cJSON_InsertItemInArray
  <2>. HIDE DEF a, after
  <2>4. {child', next', prev'} \subseteq [Items -> Pointers]
    BY <1>2, <1>3, <2>1, <2>3
  <2>5. ASSUME NEW x \in allocated
        PROVE  /\ child'[x] = IF a = NULL /\ x = o THEN r ELSE child[x]
               /\ next'[x] = IF x = r THEN after ELSE IF x = a THEN r ELSE next[x]
               /\ prev'[x] = IF x = r THEN a ELSE IF x = after THEN r ELSE prev[x]
    <3>1. x \in Items /\ after # r /\ a # r
      BY <1>2, <1>3, <2>1, <2>2
    <3>2. CASE a = NULL
      BY <1>2, <1>3, <2>1, <2>2, <2>3, <3>1, <3>2
    <3>3. CASE a # NULL
      BY <1>2, <1>3, <2>1, <2>2, <2>3, <3>1, <3>3
    <3>. QED  BY <3>2, <3>3
  <2>6. /\ Heap(allocated, child, next, prev)
        /\ next[r] = NULL /\ prev[r] = NULL /\ \A x \in allocated : child[x] # r
        /\ \A x \in Deleted(r) : /\ next[x] # NULL => next[x] \in Deleted(r)
                                 /\ child[x] # NULL => child[x] \in Deleted(r)
    BY <1>2, HeapIInv, LooseFacts, DeletedNext
  <2>7. /\ a \in (allocated \ Deleted(r)) \union {NULL}
        /\ IF a = NULL THEN child[o] = after ELSE next[a] = after
    BY <2>1, <2>2
  <2>8. Heap(allocated, child', next', prev')
    BY <1>2, <2>1, <2>4, <2>5, <2>6, <2>7, HeapPut
  <2>. QED  BY <1>1, <1>3, <2>8, IInvHeap
<1>. QED  BY <1>4, <1>5

\* Nothing that exists leads to an item in no list, so it is not inside another one.
LEMMA LooseOutside ==
  ASSUME TreeInv, NEW r \in allocated, Loose(r), NEW item \in allocated, r # item
  PROVE  r \notin Tree(item)
<1>. SUFFICES ASSUME r \in Tree(item)
              PROVE  FALSE
  OBVIOUS
<1>1. TypeOK /\ child[item] # NULL /\ r \in Deleted(child[item])
  BY DEF Tree, TreeInv
<1>2. child[item] \in allocated /\ child[item] \in Items /\ child[item] # r
  BY <1>1, LooseFacts, PointerTypes
<1>3. Deleted(child[item]) \subseteq allocated
  BY <1>1, <1>2, ClosuresAllocated
<1>4. \E m \in Deleted(child[item]) : next[m] = r \/ child[m] = r
  BY <1>1, <1>2, DeletedEntered
<1>. QED  BY <1>3, <1>4, LooseFacts

\* An item takes the place of another one, which is deleted: the other one is detached,
\* the item is put into the gap, and the tree is freed.
LEMMA ReplaceIInv ==
  ASSUME TreeInv, NEW o \in allocated, NEW item \in Members(o), NEW r \in allocated, MayAdd(o, r),
         NEW named \in [Items -> Keys \union {NULL}], ReplaceItemViaPointer(o, item, r, named)
  PROVE  TreeInv'
<1>. DEFINE gone == Tree(item)
            D == Deleted(r)
            c == DetachedChild(o, item)
            n == DetachedNext(item)
            p == DetachedPrev(item)
            c2 == IF child[o] = item THEN [child EXCEPT ![o] = r] ELSE child
            n1 == [Assign(next, prev[item], r) EXCEPT ![r] = next[item]]
            p1 == [Assign(prev, next[item], r) EXCEPT ![r] = prev[item]]
            n2 == [n1 EXCEPT ![item] = NULL]
            p2 == [p1 EXCEPT ![item] = NULL]
<1>1. /\ TypeOK /\ Loose(r) /\ o \notin D /\ r \in Items /\ o \in Items /\ r \in D
      /\ D \in SUBSET allocated /\ item \in allocated /\ item \in Items
      /\ NULL \notin allocated /\ NULL \in Pointers /\ allocated \subseteq Pointers
      /\ NULL \notin Items /\ allocated \subseteq Items
  BY PointerTypes, ClosuresAllocated, DeletedClosed, MembersFacts DEF TreeInv, MayAdd, Pointers
<1>2. /\ child \in [Items -> Pointers] /\ next \in [Items -> Pointers]
      /\ prev \in [Items -> Pointers]
      /\ next[item] \in allocated \union {NULL} /\ prev[item] \in allocated \union {NULL}
  BY <1>1, PointerTypes
<1>3. /\ Members(o) \cap D = {}
      /\ next[item] # NULL => next[item] \in Members(o)
      /\ prev[item] # NULL => prev[item] \in Members(o)
      /\ item = child[o] <=> prev[item] = NULL
      /\ next[item] # item /\ prev[item] # item
  BY ListOutside, MembersFacts, Neighbours
<1>4. r # item /\ r # prev[item] /\ r # next[item]
  BY <1>1, <1>3
<1>5. /\ Heap(allocated, c, n, p)
      /\ \A x \in allocated :
           /\ c[x] = IF x = o /\ item = child[o] THEN next[item] ELSE child[x]
           /\ n[x] = IF x = item THEN NULL
                     ELSE IF x = prev[item] THEN next[item] ELSE next[x]
           /\ p[x] = IF x = item THEN NULL
                     ELSE IF x = next[item] THEN prev[item] ELSE prev[x]
  BY DetachedHeap, DetachedFields
<1>6. /\ Assign(next, prev[item], r) \in [Items -> Pointers]
      /\ Assign(prev, next[item], r) \in [Items -> Pointers]
      /\ \A x \in allocated :
           /\ Assign(next, prev[item], r)[x] = IF x = prev[item] THEN r ELSE next[x]
           /\ Assign(prev, next[item], r)[x] = IF x = next[item] THEN r ELSE prev[x]
  BY <1>1, <1>2 DEF Assign
<1>7. /\ {n1, p1} \subseteq [Items -> Pointers]
      /\ \A x \in allocated :
           /\ n1[x] = IF x = r THEN next[item] ELSE IF x = prev[item] THEN r ELSE next[x]
           /\ p1[x] = IF x = r THEN prev[item] ELSE IF x = next[item] THEN r ELSE prev[x]
  BY <1>1, <1>2, <1>6
<1>. HIDE DEF c, n, p, n1, p1
<1>8. /\ {c2, n2, p2} \subseteq [Items -> Pointers]
      /\ \A x \in Items : x # item => n2[x] = n1[x] /\ p2[x] = p1[x]
      /\ n2[item] = NULL /\ p2[item] = NULL
  BY <1>1, <1>2, <1>7
<1>9. \A x \in allocated :
        /\ c2[x] = IF prev[item] = NULL /\ x = o THEN r ELSE c[x]
        /\ n2[x] = IF x = r THEN next[item] ELSE IF x = prev[item] THEN r ELSE n[x]
        /\ p2[x] = IF x = r THEN prev[item] ELSE IF x = next[item] THEN r ELSE p[x]
  <2>. SUFFICES ASSUME NEW x \in allocated
                PROVE  /\ c2[x] = IF prev[item] = NULL /\ x = o THEN r ELSE c[x]
                       /\ n2[x] = IF x = r THEN next[item]
                                  ELSE IF x = prev[item] THEN r ELSE n[x]
                       /\ p2[x] = IF x = r THEN prev[item]
                                  ELSE IF x = next[item] THEN r ELSE p[x]
    OBVIOUS
  <2>1. c2[x] = IF prev[item] = NULL /\ x = o THEN r ELSE c[x]
    BY <1>1, <1>2, <1>3, <1>5
  <2>2. n2[x] = IF x = r THEN next[item] ELSE IF x = prev[item] THEN r ELSE n[x]
    BY <1>1, <1>3, <1>4, <1>5, <1>7, <1>8
  <2>3. p2[x] = IF x = r THEN prev[item] ELSE IF x = next[item] THEN r ELSE p[x]
    BY <1>1, <1>3, <1>4, <1>5, <1>7, <1>8
  <2>. QED  BY <2>1, <2>2, <2>3
<1>. HIDE DEF c2, n2, p2
<1>10. /\ n[r] = NULL /\ p[r] = NULL /\ \A x \in allocated : c[x] # r
       /\ IF prev[item] = NULL THEN c[o] = next[item] ELSE n[prev[item]] = next[item]
  BY <1>1, <1>2, <1>3, <1>4, <1>5, LooseFacts
<1>11. \A x \in D : /\ n[x] # NULL => n[x] \in D
                    /\ c[x] # NULL => c[x] \in D
  <2>. SUFFICES ASSUME NEW x \in D
                PROVE  /\ n[x] # NULL => n[x] \in D
                       /\ c[x] # NULL => c[x] \in D
    OBVIOUS
  <2>1. x \in allocated /\ x # item /\ x # prev[item] /\ x # o
    BY <1>1, <1>3
  <2>2. n[x] = next[x] /\ c[x] = child[x]
    BY <1>5, <2>1
  <2>. QED  BY <1>1, <2>2, DeletedNext
<1>12. Heap(allocated, c2, n2, p2)
  <2>1. prev[item] \in (allocated \ D) \union {NULL}
    BY <1>2, <1>3
  <2>. DEFINE a == prev[item]
              q == next[item]
  <2>2. /\ Heap(allocated, c, n, p) /\ n[r] = NULL /\ p[r] = NULL /\ r \in D
        /\ D \in SUBSET allocated /\ o \in allocated \ D
        /\ \A x \in allocated : c[x] # r
        /\ IF a = NULL THEN c[o] = q ELSE n[a] = q
        /\ a \in (allocated \ D) \union {NULL} /\ q \in allocated \union {NULL}
        /\ c2 \in [Items -> Pointers] /\ n2 \in [Items -> Pointers]
        /\ p2 \in [Items -> Pointers]
    BY <1>1, <1>2, <1>5, <1>8, <1>10, <2>1
  <2>3. /\ \A x \in allocated : c2[x] = IF a = NULL /\ x = o THEN r ELSE c[x]
        /\ \A x \in allocated : n2[x] = IF x = r THEN q ELSE IF x = a THEN r ELSE n[x]
        /\ \A x \in allocated : p2[x] = IF x = r THEN a ELSE IF x = q THEN r ELSE p[x]
    BY <1>9
  <2>. HIDE DEF D, a, q
  <2>. QED  BY <1>11, <2>2, <2>3, HeapPut
<1>13. ASSUME NEW x \in allocated \ gone
       PROVE  c2[x] \notin gone /\ n2[x] \notin gone /\ p2[x] \notin gone
  <2>1. /\ x # item /\ item \in gone /\ NULL \notin gone /\ r \notin gone
        /\ next[item] \notin gone /\ prev[item] \notin gone
        /\ next[x] \in gone => x = prev[item]
        /\ child[x] \in gone => x = o /\ item = child[o]
        /\ prev[x] \in gone => x = next[item]
    BY <1>1, <1>4, TreeFacts, Neighbours, LooseOutside
  <2>. HIDE DEF gone
  <2>. QED  BY <1>3, <1>5, <1>9, <2>1
<1>14. Heap(allocated \ gone, Cleared(c2, gone), Cleared(n2, gone), Cleared(p2, gone))
  <2>. HIDE DEF gone
  <2>. QED  BY <1>12, <1>13, HeapFreed
<1>15. /\ allocated' = allocated \ gone /\ child' = Cleared(c2, gone)
       /\ next' = Cleared(n1, gone) /\ prev' = Cleared(p1, gone)
       /\ string' = Cleared(named, gone)
  BY DEF ReplaceItemViaPointer, c2, n1, p1
<1>16. next' = Cleared(n2, gone) /\ prev' = Cleared(p2, gone)
  <2>1. item \in gone
    BY <1>1, TreeFacts
  <2>. HIDE DEF gone
  <2>. QED  BY <1>8, <1>15, <2>1 DEF Cleared
<1>17. string' \in [Items -> Keys \union {NULL}]
  BY <1>1, <1>15, ClearedString
<1>. QED  BY <1>14, <1>15, <1>16, <1>17, IInvHeap

\* An item that is in no list is deleted.
LEMMA DeleteIInv ==
  ASSUME TreeInv, NEW r, cJSON_Delete(r)
  PROVE  TreeInv'
<1>. DEFINE D == Deleted(r)
<1>1. /\ TypeOK /\ Loose(r) /\ r \in allocated /\ r \in Items /\ NULL \notin allocated
      /\ D \subseteq allocated /\ string \in [Items -> Keys \union {NULL}]
  BY PointerTypes, LooseFacts, ClosuresAllocated DEF TreeInv, cJSON_Delete
<1>2. \A y \in D : /\ next[y] # NULL => next[y] \in D
                   /\ y # r => \E m \in D : next[m] = y \/ child[m] = y
  BY <1>1, DeletedNext, DeletedEntered
<1>. HIDE DEF D
<1>3. ASSUME NEW x \in allocated \ D
      PROVE  child[x] \notin D /\ next[x] \notin D /\ prev[x] \notin D
  <2>1. next[x] # r /\ child[x] # r
    BY <1>1, LooseFacts
  <2>2. next[x] \notin D
    BY <1>1, <1>2, <2>1, LinkedFacts
  <2>3. child[x] \notin D
    BY <1>1, <1>2, <2>1, LinkedFacts
  <2>4. prev[x] \notin D
    BY <1>1, <1>2, LinkedFacts
  <2>. QED  BY <2>2, <2>3, <2>4
<1>4. Heap(allocated \ D, Cleared(child, D), Cleared(next, D), Cleared(prev, D))
  BY <1>3, HeapIInv, HeapFreed
<1>5. /\ allocated' = allocated \ D /\ child' = Cleared(child, D) /\ next' = Cleared(next, D)
      /\ prev' = Cleared(prev, D) /\ string' = Cleared(string, D)
  BY DEF cJSON_Delete, D
<1>6. string' \in [Items -> Keys \union {NULL}]
  BY <1>1, <1>5, ClearedString
<1>. QED  BY <1>4, <1>5, <1>6, IInvHeap

\* A new item leads nowhere.
LEMMA CreateIInv ==
  ASSUME TreeInv, NEW r \in Items, cJSON_CreateObject(r)
  PROVE  TreeInv'
<1>1. /\ TypeOK /\ r \notin allocated /\ allocated' = allocated \union {r}
      /\ child' = [child EXCEPT ![r] = NULL] /\ next' = [next EXCEPT ![r] = NULL]
      /\ prev' = [prev EXCEPT ![r] = NULL] /\ string' = [string EXCEPT ![r] = NULL]
  BY DEF TreeInv, cJSON_CreateObject
<1>2. /\ {child', next', prev'} \subseteq [Items -> Pointers]
      /\ string' \in [Items -> Keys \union {NULL}]
      /\ child'[r] = NULL /\ next'[r] = NULL /\ prev'[r] = NULL
      /\ \A x \in allocated : child'[x] = child[x] /\ next'[x] = next[x] /\ prev'[x] = prev[x]
  BY <1>1, PointerTypes DEF Pointers
<1>3. Heap({r}, child', next', prev')
  BY <1>2, NullAssumption DEF Heap, Inside
<1>4. Heap(allocated \union {r}, child', next', prev')
  <2>1. Heap(allocated, child, next, prev) /\ allocated \cap {r} = {}
    BY <1>1, HeapIInv
  <2>. QED  BY <1>2, <1>3, <2>1, HeapUnion
<1>. QED  BY <1>1, <1>2, <1>4, IInvHeap

-----------------------------------------------------------------------------
(* The operations that build several items at once.                        *)

LessThan == {ss \in Nat \X Nat : ss[1] < ss[2]}

\* A set of numbers that is not empty has a least one.
LEMMA Least ==
  ASSUME NEW K \in SUBSET Nat, K # {}
  PROVE  \E k \in K : \A i \in K : k <= i
<1>1. IsWellFoundedOn(LessThan, Nat)
  BY NatLessThanWellFounded DEF OpToRel, LessThan
<1>2. PICK k \in K : \A i \in K : <<i, k>> \notin LessThan
  BY <1>1, WFMin
<1>3. \A i \in K : ~ (i < k)
  BY <1>2 DEF LessThan
<1>. QED  BY <1>3

\* A set of numbers up to n that is not empty has a greatest one.
LEMMA Greatest ==
  ASSUME NEW n \in Nat, NEW J \in SUBSET (1..n), J # {}
  PROVE  \E j \in J : \A i \in J : i <= j
<1>. DEFINE K == {n - j : j \in J}
<1>1. PICK j0 \in J : TRUE
  OBVIOUS
<1>2. K \subseteq Nat /\ n - j0 \in K
  OBVIOUS
<1>3. \E k \in K : \A i \in K : k <= i
  <2>. HIDE DEF K
  <2>. QED  BY <1>2, Least
<1>4. PICK j \in J : \A i \in K : n - j <= i
  BY <1>3
<1>5. \A i \in J : n - j <= n - i
  BY <1>4
<1>. QED  BY <1>5

\* What the items of a sequence, and the others, have after they are filled in.
LEMMA FilledFields ==
  ASSUME NEW T, NULL \in T, NEW field \in [Items -> T], NEW N \in Nat, NEW new \in [1..N -> Items],
         \A i, j \in 1..N : new[i] = new[j] => i = j, NEW values \in [1..N -> T]
  PROVE  /\ Filled(field, new, values) \in [Items -> T]
         /\ \A j \in 1..N : Filled(field, new, values)[new[j]] = values[j]
         /\ \A x \in Items \ ToSet(new) : Filled(field, new, values)[x] = field[x]
<1>1. ToSet(new) = {new[j] : j \in 1..N}
  BY DEF ToSet
<1>2. ASSUME NEW j \in 1..N
      PROVE  (CHOOSE i \in DOMAIN new : new[i] = new[j]) = j
  OBVIOUS
<1>3. \A j \in 1..N : Filled(field, new, values)[new[j]] = values[j]
  BY <1>1, <1>2 DEF Filled
<1>4. \A x \in Items \ ToSet(new) : Filled(field, new, values)[x] = field[x]
  BY DEF Filled
<1>5. ASSUME NEW x \in Items
      PROVE  Filled(field, new, values)[x] \in T
  BY <1>1, <1>3, <1>4
<1>6. Filled(field, new, values) = [x \in Items |-> Filled(field, new, values)[x]]
  BY DEF Filled
<1>. QED  BY <1>3, <1>4, <1>5, <1>6

\* New items, chained behind the first of them, which is their parent.
LEMMA ChainHeap ==
  ASSUME NEW N \in Nat \ {0}, NEW new \in [1..N -> Items],
         \A i, j \in 1..N : new[i] = new[j] => i = j,
         NEW c \in [Items -> Pointers], NEW n \in [Items -> Pointers],
         NEW p \in [Items -> Pointers],
         \A j \in 1..N : /\ c[new[j]] = IF j = 1 /\ 2 \in 1..N THEN new[2] ELSE NULL
                         /\ n[new[j]] = IF j # 1 /\ j + 1 \in 1..N THEN new[j + 1] ELSE NULL
                         /\ p[new[j]] = IF j <= 2 THEN NULL ELSE new[j - 1]
  PROVE  Heap(ToSet(new), c, n, p)
<1>1. /\ ToSet(new) = {new[j] : j \in 1..N} /\ ToSet(new) \subseteq Items
      /\ \A j \in 1..N : new[j] \in ToSet(new) /\ new[j] # NULL
  BY NullAssumption DEF ToSet
<1>2. \A x \in ToSet(new) : \E j \in 1..N : x = new[j]
  BY <1>1
<1>3. ASSUME NEW j \in 1..N
      PROVE  /\ {c[new[j]], n[new[j]], p[new[j]]} \subseteq ToSet(new) \union {NULL}
             /\ n[new[j]] # NULL => p[n[new[j]]] = new[j]
             /\ p[new[j]] # NULL => n[p[new[j]]] = new[j]
             /\ c[new[j]] # NULL => p[c[new[j]]] = NULL
  <2>1. {c[new[j]], n[new[j]], p[new[j]]} \subseteq ToSet(new) \union {NULL}
    <3>1. j - 1 \in 1..N \/ j <= 2
      OBVIOUS
    <3>. QED  BY <1>1, <3>1
  <2>2. n[new[j]] # NULL => p[n[new[j]]] = new[j]
    <3>. SUFFICES ASSUME j # 1, j + 1 \in 1..N
                  PROVE  p[new[j + 1]] = new[j]
      OBVIOUS
    <3>1. ~ (j + 1 <= 2) /\ (j + 1) - 1 = j
      OBVIOUS
    <3>. QED  BY <3>1
  <2>3. p[new[j]] # NULL => n[p[new[j]]] = new[j]
    <3>. SUFFICES ASSUME ~ (j <= 2)
                  PROVE  n[new[j - 1]] = new[j]
      OBVIOUS
    <3>1. j - 1 \in 1..N /\ j - 1 # 1 /\ (j - 1) + 1 = j
      OBVIOUS
    <3>. QED  BY <3>1
  <2>4. c[new[j]] # NULL => p[c[new[j]]] = NULL
    OBVIOUS
  <2>. QED  BY <2>1, <2>2, <2>3, <2>4
<1>4. Inside(ToSet(new), c) /\ Inside(ToSet(new), n) /\ Inside(ToSet(new), p)
  BY <1>2, <1>3 DEF Inside
<1>5. \A x \in ToSet(new) : /\ n[x] # NULL => p[n[x]] = x
                            /\ p[x] # NULL => n[p[x]] = x
                            /\ c[x] # NULL => p[c[x]] = NULL
  BY <1>2, <1>3
<1>6. \A x, y \in ToSet(new) : c[x] # NULL /\ c[x] = c[y] => x = y
  <2>1. \A j \in 1..N : c[new[j]] # NULL => j = 1
    OBVIOUS
  <2>. QED  BY <1>2, <2>1
<1>7. ASSUME NEW S \in SUBSET ToSet(new), S # {}
      PROVE  \E x \in S : n[x] \notin S /\ c[x] \notin S
  <2>. DEFINE J == {j \in 1..N : new[j] \in S}
  <2>1. J \in SUBSET (1..N) /\ J # {}
    <3>1. PICK x \in S : TRUE
      BY <1>7
    <3>2. PICK j \in 1..N : x = new[j]
      BY <1>2, <3>1
    <3>. QED  BY <3>1, <3>2
  <2>2. PICK j \in J : \A i \in J : i <= j
    <3>. HIDE DEF J
    <3>. QED  BY <2>1, Greatest
  <2>3. j \in 1..N /\ new[j] \in S /\ NULL \notin S
    BY <1>1
  <2>4. j + 1 \in 1..N => new[j + 1] \notin S
    <3>. SUFFICES ASSUME j + 1 \in 1..N, new[j + 1] \in S
                  PROVE  FALSE
      OBVIOUS
    <3>1. j + 1 \in J
      OBVIOUS
    <3>. QED  BY <2>2, <2>3, <3>1
  <2>5. n[new[j]] \notin S
    BY <2>3, <2>4
  <2>6. c[new[j]] \notin S
    BY <2>3, <2>4
  <2>. QED  BY <2>3, <2>5, <2>6
<1>. QED  BY <1>1, <1>4, <1>5, <1>6, <1>7 DEF Heap

NewItems(o, members) == <<o>> \o members

\* What parsing writes: the fields of the new items, the first of which is their parent.
LEMMA ParseFields ==
  ASSUME TreeInv, NEW o \in Items, NEW members \in SeqOf(Items \ allocated, MaxMembers),
         NEW text \in Texts(Len(members)), cJSON_Parse(o, members, text)
  PROVE  LET new == NewItems(o, members)
             N == Len(new)
         IN  /\ N \in Nat \ {0} /\ new \in [1..N -> Items]
             /\ \A i, j \in 1..N : new[i] = new[j] => i = j
             /\ allocated' = allocated \union ToSet(new) /\ allocated \cap ToSet(new) = {}
             /\ child' \in [Items -> Pointers] /\ next' \in [Items -> Pointers]
             /\ prev' \in [Items -> Pointers] /\ string' \in [Items -> Keys \union {NULL}]
             /\ \A j \in 1..N :
                  /\ child'[new[j]] = IF j = 1 /\ 2 \in 1..N THEN new[2] ELSE NULL
                  /\ next'[new[j]] = IF j # 1 /\ j + 1 \in 1..N THEN new[j + 1] ELSE NULL
                  /\ prev'[new[j]] = IF j <= 2 THEN NULL ELSE new[j - 1]
             /\ string'[new[1]] = NULL
             /\ \A x \in Items \ ToSet(new) : /\ child'[x] = child[x] /\ next'[x] = next[x]
                                              /\ prev'[x] = prev[x] /\ string'[x] = string[x]
<1>. DEFINE new == NewItems(o, members)
            N == Len(new)
            names == <<NULL>> \o text
            c == [j \in DOMAIN new |-> IF j = 1 THEN At(new, 2) ELSE NULL]
            n == [j \in DOMAIN new |-> IF j = 1 THEN NULL ELSE At(new, j + 1)]
            p == [j \in DOMAIN new |-> IF j <= 2 THEN NULL ELSE new[j - 1]]
<1>1. /\ ToSet(new) \subseteq Items \ allocated /\ IsInjective(new)
      /\ allocated' = allocated \union ToSet(new)
      /\ child' = Filled(child, new, c) /\ next' = Filled(next, new, n)
      /\ prev' = Filled(prev, new, p) /\ string' = Filled(string, new, names)
  BY DEF cJSON_Parse, NewItems
<1>2. PICK m \in Nat : members \in [1..m -> Items \ allocated]
  BY ItemsAssumption DEF SeqOf
<1>3. Len(members) = m /\ members \in Seq(Items)
  BY <1>2
<1>4. new \in Seq(Items) /\ N = m + 1 /\ N \in Nat \ {0}
  BY <1>3 DEF NewItems
<1>5. new \in [1..N -> Items] /\ DOMAIN new = 1..N
  BY <1>4, LenProperties
<1>6. names \in [1..N -> Keys \union {NULL}] /\ names[1] = NULL
  <2>1. text \in Seq(Keys \union {NULL}) /\ Len(text) = m
    BY <1>2, <1>3 DEF Texts
  <2>2. names \in Seq(Keys \union {NULL}) /\ Len(names) = N /\ names[1] = NULL
    BY <1>4, <2>1
  <2>. QED  BY <2>2, LenProperties
<1>7. \A i, j \in 1..N : new[i] = new[j] => i = j
  BY <1>1, <1>5 DEF IsInjective
<1>. HIDE DEF new, names, N
<1>8. \A j \in 1..N : new[j] \in Pointers /\ At(new, j) = new[j]
  BY <1>5 DEF Pointers, At
<1>9. /\ c \in [1..N -> Pointers] /\ n \in [1..N -> Pointers] /\ p \in [1..N -> Pointers]
      /\ \A j \in 1..N : /\ c[j] = IF j = 1 /\ 2 \in 1..N THEN new[2] ELSE NULL
                         /\ n[j] = IF j # 1 /\ j + 1 \in 1..N THEN new[j + 1] ELSE NULL
                         /\ p[j] = IF j <= 2 THEN NULL ELSE new[j - 1]
  <2>1. NULL \in Pointers /\ \A j : j \notin 1..N => At(new, j) = NULL
    BY <1>5 DEF Pointers, At
  <2>2. \A j \in 1..N : At(new, j + 1) \in Pointers /\ At(new, 2) \in Pointers
    BY <1>8, <2>1
  <2>3. \A j \in 1..N : ~ (j <= 2) => j - 1 \in 1..N
    BY <1>4
  <2>4. c \in [1..N -> Pointers] /\ n \in [1..N -> Pointers] /\ p \in [1..N -> Pointers]
    BY <1>5, <1>8, <2>1, <2>2, <2>3
  <2>. QED  BY <1>5, <1>8, <2>1, <2>4
<1>. HIDE DEF c, n, p
<1>10. /\ TypeOK /\ NULL \in Pointers /\ NULL \in Keys \union {NULL}
       /\ child \in [Items -> Pointers] /\ next \in [Items -> Pointers]
       /\ prev \in [Items -> Pointers] /\ string \in [Items -> Keys \union {NULL}]
  BY PointerTypes DEF TreeInv, Pointers
<1>11. ASSUME NEW field \in [Items -> Pointers], NEW values \in [1..N -> Pointers]
       PROVE  /\ Filled(field, new, values) \in [Items -> Pointers]
              /\ \A j \in 1..N : Filled(field, new, values)[new[j]] = values[j]
              /\ \A x \in Items \ ToSet(new) : Filled(field, new, values)[x] = field[x]
  <2>1. N \in Nat /\ new \in [1..N -> Items] /\ NULL \in Pointers
    BY <1>4, <1>5, <1>10
  <2>. QED  BY <1>7, <2>1, FilledFields
<1>12. /\ child' \in [Items -> Pointers] /\ next' \in [Items -> Pointers]
       /\ prev' \in [Items -> Pointers]
       /\ \A j \in 1..N : child'[new[j]] = c[j] /\ next'[new[j]] = n[j] /\ prev'[new[j]] = p[j]
       /\ \A x \in Items \ ToSet(new) :
            child'[x] = child[x] /\ next'[x] = next[x] /\ prev'[x] = prev[x]
  <2>1. /\ Filled(child, new, c) \in [Items -> Pointers]
        /\ \A j \in 1..N : Filled(child, new, c)[new[j]] = c[j]
        /\ \A x \in Items \ ToSet(new) : Filled(child, new, c)[x] = child[x]
    BY <1>9, <1>10, <1>11
  <2>2. /\ Filled(next, new, n) \in [Items -> Pointers]
        /\ \A j \in 1..N : Filled(next, new, n)[new[j]] = n[j]
        /\ \A x \in Items \ ToSet(new) : Filled(next, new, n)[x] = next[x]
    BY <1>9, <1>10, <1>11
  <2>3. /\ Filled(prev, new, p) \in [Items -> Pointers]
        /\ \A j \in 1..N : Filled(prev, new, p)[new[j]] = p[j]
        /\ \A x \in Items \ ToSet(new) : Filled(prev, new, p)[x] = prev[x]
    BY <1>9, <1>10, <1>11
  <2>. QED  BY <1>1, <2>1, <2>2, <2>3
<1>13. /\ string' \in [Items -> Keys \union {NULL}]
       /\ \A j \in 1..N : string'[new[j]] = names[j]
       /\ \A x \in Items \ ToSet(new) : string'[x] = string[x]
  <2>. DEFINE V == Keys \union {NULL}
  <2>1. /\ N \in Nat /\ new \in [1..N -> Items] /\ NULL \in V
        /\ string \in [Items -> V] /\ names \in [1..N -> V]
    BY <1>4, <1>5, <1>6, <1>10
  <2>. HIDE DEF V
  <2>2. /\ Filled(string, new, names) \in [Items -> V]
        /\ \A j \in 1..N : Filled(string, new, names)[new[j]] = names[j]
        /\ \A x \in Items \ ToSet(new) : Filled(string, new, names)[x] = string[x]
    BY <1>7, <2>1, FilledFields
  <2>. QED  BY <1>1, <2>2 DEF V
<1>14. \A j \in 1..N :
         /\ child'[new[j]] = IF j = 1 /\ 2 \in 1..N THEN new[2] ELSE NULL
         /\ next'[new[j]] = IF j # 1 /\ j + 1 \in 1..N THEN new[j + 1] ELSE NULL
         /\ prev'[new[j]] = IF j <= 2 THEN NULL ELSE new[j - 1]
  BY <1>9, <1>12
<1>15. allocated' = allocated \union ToSet(new) /\ allocated \cap ToSet(new) = {}
  BY <1>1, <1>10, PointerTypes
<1>16. 1 \in 1..N
  BY <1>4
<1>. QED  BY <1>4, <1>5, <1>6, <1>7, <1>12, <1>13, <1>14, <1>15, <1>16 DEF new, N

\* The new items of a parsed text are apart from the ones before.
LEMMA ParseIInv ==
  ASSUME TreeInv, NEW o \in Items, NEW members \in SeqOf(Items \ allocated, MaxMembers),
         NEW text \in Texts(Len(members)), cJSON_Parse(o, members, text)
  PROVE  TreeInv'
<1>. DEFINE new == NewItems(o, members)
            N == Len(new)
<1>1. /\ N \in Nat \ {0} /\ new \in [1..N -> Items]
      /\ \A i, j \in 1..N : new[i] = new[j] => i = j
      /\ allocated' = allocated \union ToSet(new) /\ allocated \cap ToSet(new) = {}
      /\ child' \in [Items -> Pointers] /\ next' \in [Items -> Pointers]
      /\ prev' \in [Items -> Pointers] /\ string' \in [Items -> Keys \union {NULL}]
      /\ \A j \in 1..N :
           /\ child'[new[j]] = IF j = 1 /\ 2 \in 1..N THEN new[2] ELSE NULL
           /\ next'[new[j]] = IF j # 1 /\ j + 1 \in 1..N THEN new[j + 1] ELSE NULL
           /\ prev'[new[j]] = IF j <= 2 THEN NULL ELSE new[j - 1]
      /\ \A x \in Items \ ToSet(new) :
           child'[x] = child[x] /\ next'[x] = next[x] /\ prev'[x] = prev[x]
  BY ParseFields
<1>. HIDE DEF new, N
<1>2. Heap(ToSet(new), child', next', prev')
  BY <1>1, ChainHeap
<1>3. /\ Heap(allocated, child, next, prev)
      /\ \A x \in allocated : child'[x] = child[x] /\ next'[x] = next[x] /\ prev'[x] = prev[x]
  BY <1>1, HeapIInv, PointerTypes DEF TreeInv
<1>4. Heap(allocated \union ToSet(new), child', next', prev')
  BY <1>1, <1>2, <1>3, HeapUnion
<1>. QED  BY <1>1, <1>4, IInvHeap

\* Copied writes the value of each item to its copy and to nothing else ...
LEMMA CopiedFields ==
  ASSUME NEW f, IsInjective(f), \A a \in DOMAIN f : f[a] \in Items, NEW field, NEW values
  PROVE  /\ \A a \in DOMAIN f : Copied(field, f, values)[f[a]] = values[a]
         /\ \A x \in Items \ Range(f) : Copied(field, f, values)[x] = field[x]
<1>1. Range(f) = {f[a] : a \in DOMAIN f}
  BY DEF Range
<1>2. ASSUME NEW a \in DOMAIN f
      PROVE  (CHOOSE b \in DOMAIN f : f[b] = f[a]) = a
  BY DEF IsInjective
<1>3. \A a \in DOMAIN f : Copied(field, f, values)[f[a]] = values[a]
  BY <1>1, <1>2 DEF Copied
<1>4. \A x \in Items \ Range(f) : Copied(field, f, values)[x] = field[x]
  BY DEF Copied
<1>. QED  BY <1>3, <1>4

\* ... and the values it writes are the field's values.
LEMMA CopiedType ==
  ASSUME NEW f, IsInjective(f), \A a \in DOMAIN f : f[a] \in Items,
         NEW V, NEW field \in [Items -> V], NEW values \in [DOMAIN f -> V]
  PROVE  Copied(field, f, values) \in [Items -> V]
<1>1. ASSUME NEW x \in Items
      PROVE  Copied(field, f, values)[x] \in V
  <2>1. CASE x \in Range(f)
    <3>1. PICK a \in DOMAIN f : x = f[a]
      BY <2>1 DEF Range
    <3>2. Copied(field, f, values)[f[a]] = values[a]
      BY CopiedFields
    <3>. QED  BY <3>1, <3>2
  <2>2. CASE x \notin Range(f)
    BY <2>2, CopiedFields
  <2>. QED  BY <2>1, <2>2
<1>2. Copied(field, f, values) = [x \in Items |-> Copied(field, f, values)[x]]
  BY DEF Copied
<1>. QED  BY <1>1, <1>2

\* The copies of some items are linked as the items are, as far as they lead to items
\* that are copied too.
LEMMA CopyHeap ==
  ASSUME TreeInv, NEW T \in SUBSET allocated, NEW f \in [T -> Items],
         \A a, b \in T : f[a] = f[b] => a = b,
         NEW c \in [Items -> Pointers], NEW n \in [Items -> Pointers],
         NEW p \in [Items -> Pointers],
         \A a \in T : /\ c[f[a]] = IF child[a] \in T THEN f[child[a]] ELSE NULL
                      /\ n[f[a]] = IF next[a] \in T THEN f[next[a]] ELSE NULL
                      /\ \A b \in T : next[b] = a => p[f[a]] = f[b]
                      /\ (\A b \in T : next[b] # a) => p[f[a]] = NULL
  PROVE  Heap(Range(f), c, n, p)
<1>1. /\ Range(f) = {f[a] : a \in T} /\ Range(f) \subseteq Items
      /\ \A a \in T : f[a] \in Range(f) /\ f[a] # NULL
  BY NullAssumption DEF Range
<1>2. \A x \in Range(f) : \E a \in T : x = f[a]
  BY <1>1
<1>3. \A a \in T : /\ a \in allocated /\ a # NULL
                   /\ child[a] # NULL => \A b \in T : next[b] # child[a]
                   /\ \A b \in T : next[a] = next[b] /\ next[a] # NULL => a = b
                   /\ \A b \in T : child[a] = child[b] /\ child[a] # NULL => a = b
  BY LinkedFacts, PointerTypes DEF TreeInv
<1>4. ASSUME NEW a \in T
      PROVE  /\ {c[f[a]], n[f[a]], p[f[a]]} \subseteq Range(f) \union {NULL}
             /\ n[f[a]] # NULL => p[n[f[a]]] = f[a]
             /\ p[f[a]] # NULL => n[p[f[a]]] = f[a]
             /\ c[f[a]] # NULL => p[c[f[a]]] = NULL
  <2>1. {c[f[a]], n[f[a]]} \subseteq Range(f) \union {NULL}
    BY <1>1
  <2>2. p[f[a]] = NULL \/ \E b \in T : next[b] = a /\ p[f[a]] = f[b]
    OBVIOUS
  <2>3. n[f[a]] # NULL => p[n[f[a]]] = f[a]
    OBVIOUS
  <2>4. p[f[a]] # NULL => n[p[f[a]]] = f[a]
    BY <2>2
  <2>5. c[f[a]] # NULL => p[c[f[a]]] = NULL
    BY <1>3
  <2>. QED  BY <1>1, <2>1, <2>2, <2>3, <2>4, <2>5
<1>5. Inside(Range(f), c) /\ Inside(Range(f), n) /\ Inside(Range(f), p)
  BY <1>2, <1>4 DEF Inside
<1>6. \A x \in Range(f) : /\ n[x] # NULL => p[n[x]] = x
                          /\ p[x] # NULL => n[p[x]] = x
                          /\ c[x] # NULL => p[c[x]] = NULL
  BY <1>2, <1>4
<1>7. \A x, y \in Range(f) : c[x] # NULL /\ c[x] = c[y] => x = y
  <2>. SUFFICES ASSUME NEW a \in T, NEW b \in T, c[f[a]] # NULL, c[f[a]] = c[f[b]]
                PROVE  a = b
    BY <1>2
  <2>1. child[a] \in T /\ child[b] \in T /\ f[child[a]] = f[child[b]]
    OBVIOUS
  <2>. QED  BY <1>3, <2>1
<1>8. ASSUME NEW S \in SUBSET Range(f), S # {}
      PROVE  \E x \in S : n[x] \notin S /\ c[x] \notin S
  <2>. DEFINE S0 == {a \in T : f[a] \in S}
  <2>1. S0 \in SUBSET allocated /\ S0 # {}
    BY <1>2, <1>8
  <2>2. PICK a \in S0 : next[a] \notin S0 /\ child[a] \notin S0
    <3>. HIDE DEF S0
    <3>. QED  BY <2>1 DEF TreeInv, Grounded
  <2>3. NULL \notin S /\ a \in T /\ f[a] \in S
    BY <1>1
  <2>4. n[f[a]] \notin S /\ c[f[a]] \notin S
    BY <2>2, <2>3
  <2>. QED  BY <2>3, <2>4
<1>. QED  BY <1>1, <1>5, <1>6, <1>7, <1>8 DEF Heap

\* What a copy writes: the fields of the copies.
CopiesLinked(T, f) ==
  /\ T \in SUBSET allocated /\ f \in [T -> Items \ allocated]
  /\ \A a, b \in T : f[a] = f[b] => a = b
  /\ allocated' = allocated \union Range(f) /\ allocated \cap Range(f) = {}
  /\ child' \in [Items -> Pointers] /\ next' \in [Items -> Pointers]
  /\ prev' \in [Items -> Pointers] /\ string' \in [Items -> Keys \union {NULL}]
  /\ \A a \in T : /\ child'[f[a]] = IF child[a] \in T THEN f[child[a]] ELSE NULL
                  /\ next'[f[a]] = IF next[a] \in T THEN f[next[a]] ELSE NULL
                  /\ \A b \in T : next[b] = a => prev'[f[a]] = f[b]
                  /\ (\A b \in T : next[b] # a) => prev'[f[a]] = NULL
                  /\ string'[f[a]] = string[a]
  /\ \A x \in Items \ Range(f) : /\ child'[x] = child[x] /\ next'[x] = next[x]
                                 /\ prev'[x] = prev[x] /\ string'[x] = string[x]

\* cJSON_Duplicate writes these.
LEMMA DuplicateFields ==
  ASSUME TreeInv, NEW r \in allocated, NEW T \in {{r}, Tree(r)}, NEW f \in Copies(T),
         cJSON_Duplicate(f)
  PROVE  CopiesLinked(T, f)
<1>. DEFINE Predecessor(a) == {b \in DOMAIN f : next[b] = a}
            c == [a \in DOMAIN f |-> Image(f, child[a])]
            n == [a \in DOMAIN f |-> Image(f, next[a])]
            p == [a \in DOMAIN f |-> IF Predecessor(a) = {} THEN NULL
                                     ELSE f[CHOOSE b \in Predecessor(a) : TRUE]]
<1>1. /\ allocated' = allocated \union Range(f)
      /\ child' = Copied(child, f, c) /\ next' = Copied(next, f, n)
      /\ prev' = Copied(prev, f, p)
  BY DEF cJSON_Duplicate
<1>2. T \in SUBSET allocated
  BY TreeFacts
<1>3. /\ f \in [T -> Items \ allocated] /\ f \in [T -> Items] /\ DOMAIN f = T
      /\ \A a, b \in T : f[a] = f[b] => a = b
      /\ allocated \cap Range(f) = {}
  BY DEF Copies, IsInjective, Range
<1>4. /\ TypeOK /\ NULL \notin T /\ allocated \subseteq Items
      /\ child \in [Items -> Pointers] /\ next \in [Items -> Pointers]
      /\ prev \in [Items -> Pointers] /\ string \in [Items -> Keys \union {NULL}]
      /\ \A a, b, m \in allocated : next[a] = m /\ next[b] = m => a = b
      /\ \A a \in allocated : a # NULL
  BY <1>2, PointerTypes, LinkedFacts DEF TreeInv
<1>5. \A a \in T : /\ c[a] = IF child[a] \in T THEN f[child[a]] ELSE NULL
                   /\ n[a] = IF next[a] \in T THEN f[next[a]] ELSE NULL
  BY <1>3 DEF Image
<1>6. ASSUME NEW a \in T
      PROVE  /\ \A b \in T : next[b] = a => p[a] = f[b]
             /\ (\A b \in T : next[b] # a) => p[a] = NULL
  <2>1. Predecessor(a) = {b \in T : next[b] = a}
    BY <1>3
  <2>2. ASSUME NEW b \in T, next[b] = a
        PROVE  Predecessor(a) = {b}
    BY <1>2, <1>4, <2>1, <2>2
  <2>3. p[a] = IF Predecessor(a) = {} THEN NULL ELSE f[CHOOSE b \in Predecessor(a) : TRUE]
    BY <1>3
  <2>. HIDE DEF p, Predecessor
  <2>4. \A b \in T : next[b] = a => p[a] = f[b]
    BY <2>2, <2>3
  <2>. QED  BY <2>1, <2>3, <2>4
<1>. HIDE DEF Predecessor, c, n, p
<1>7. /\ c \in [DOMAIN f -> Pointers] /\ n \in [DOMAIN f -> Pointers]
      /\ p \in [DOMAIN f -> Pointers]
  <2>1. NULL \in Pointers /\ \A a \in T : f[a] \in Pointers
    BY <1>3 DEF Pointers
  <2>2. \A a \in T : c[a] \in Pointers /\ n[a] \in Pointers
    BY <1>5, <2>1
  <2>3. ASSUME NEW a \in T
        PROVE  p[a] \in Pointers
    BY <1>6, <2>1
  <2>. QED  BY <1>3, <2>2, <2>3 DEF c, n, p
<1>8. IsInjective(f) /\ \A a \in DOMAIN f : f[a] \in Items
  BY <1>3 DEF Copies
<1>9. /\ child' \in [Items -> Pointers]
      /\ \A a \in T : child'[f[a]] = c[a]
      /\ \A x \in Items \ Range(f) : child'[x] = child[x]
  <2>1. /\ \A a \in DOMAIN f : Copied(child, f, c)[f[a]] = c[a]
        /\ \A x \in Items \ Range(f) : Copied(child, f, c)[x] = child[x]
    BY <1>8, CopiedFields
  <2>2. Copied(child, f, c) \in [Items -> Pointers]
    BY <1>4, <1>7, <1>8, CopiedType
  <2>. QED  BY <1>1, <1>3, <2>1, <2>2
<1>10. /\ next' \in [Items -> Pointers]
       /\ \A a \in T : next'[f[a]] = n[a]
       /\ \A x \in Items \ Range(f) : next'[x] = next[x]
  <2>1. /\ \A a \in DOMAIN f : Copied(next, f, n)[f[a]] = n[a]
        /\ \A x \in Items \ Range(f) : Copied(next, f, n)[x] = next[x]
    BY <1>8, CopiedFields
  <2>2. Copied(next, f, n) \in [Items -> Pointers]
    BY <1>4, <1>7, <1>8, CopiedType
  <2>. QED  BY <1>1, <1>3, <2>1, <2>2
<1>11. /\ prev' \in [Items -> Pointers]
       /\ \A a \in T : prev'[f[a]] = p[a]
       /\ \A x \in Items \ Range(f) : prev'[x] = prev[x]
  <2>1. /\ \A a \in DOMAIN f : Copied(prev, f, p)[f[a]] = p[a]
        /\ \A x \in Items \ Range(f) : Copied(prev, f, p)[x] = prev[x]
    BY <1>8, CopiedFields
  <2>2. Copied(prev, f, p) \in [Items -> Pointers]
    BY <1>4, <1>7, <1>8, CopiedType
  <2>. QED  BY <1>1, <1>3, <2>1, <2>2
<1>12. /\ string' \in [Items -> Keys \union {NULL}]
       /\ \A a \in T : string'[f[a]] = string[a]
       /\ \A x \in Items \ Range(f) : string'[x] = string[x]
  <2>. DEFINE names == [a \in DOMAIN f |-> string[a]]
  <2>1. names \in [DOMAIN f -> Keys \union {NULL}] /\ \A a \in T : names[a] = string[a]
    BY <1>2, <1>3, <1>4
  <2>2. string' = Copied(string, f, names)
    BY DEF cJSON_Duplicate
  <2>. HIDE DEF names
  <2>3. Copied(string, f, names) \in [Items -> Keys \union {NULL}]
    BY <1>4, <1>8, <2>1, CopiedType
  <2>4. /\ \A a \in DOMAIN f : Copied(string, f, names)[f[a]] = names[a]
        /\ \A x \in Items \ Range(f) : Copied(string, f, names)[x] = string[x]
    BY <1>8, CopiedFields
  <2>. QED  BY <1>3, <2>1, <2>2, <2>3, <2>4
<1>13. \A a \in T : /\ child'[f[a]] = IF child[a] \in T THEN f[child[a]] ELSE NULL
                    /\ next'[f[a]] = IF next[a] \in T THEN f[next[a]] ELSE NULL
                    /\ \A b \in T : next[b] = a => prev'[f[a]] = f[b]
                    /\ (\A b \in T : next[b] # a) => prev'[f[a]] = NULL
  BY <1>5, <1>6, <1>9, <1>10, <1>11
<1>. QED  BY <1>1, <1>2, <1>3, <1>9, <1>10, <1>11, <1>12, <1>13 DEF CopiesLinked

\* The copies are apart from the items before.
LEMMA DuplicateIInv ==
  ASSUME TreeInv, NEW r \in allocated, NEW T \in {{r}, Tree(r)}, NEW f \in Copies(T),
         cJSON_Duplicate(f)
  PROVE  TreeInv'
<1>0. CopiesLinked(T, f)
  BY DuplicateFields
<1>1. /\ T \in SUBSET allocated /\ f \in [T -> Items \ allocated]
      /\ \A a, b \in T : f[a] = f[b] => a = b
      /\ allocated' = allocated \union Range(f) /\ allocated \cap Range(f) = {}
      /\ child' \in [Items -> Pointers] /\ next' \in [Items -> Pointers]
      /\ prev' \in [Items -> Pointers] /\ string' \in [Items -> Keys \union {NULL}]
      /\ \A a \in T : /\ child'[f[a]] = IF child[a] \in T THEN f[child[a]] ELSE NULL
                      /\ next'[f[a]] = IF next[a] \in T THEN f[next[a]] ELSE NULL
                      /\ \A b \in T : next[b] = a => prev'[f[a]] = f[b]
                      /\ (\A b \in T : next[b] # a) => prev'[f[a]] = NULL
      /\ \A x \in Items \ Range(f) :
           child'[x] = child[x] /\ next'[x] = next[x] /\ prev'[x] = prev[x]
  BY <1>0 DEF CopiesLinked
<1>2. f \in [T -> Items] /\ allocated \subseteq Items
  BY <1>1, PointerTypes DEF TreeInv
<1>3. Heap(Range(f), child', next', prev')
  BY <1>1, <1>2, CopyHeap
<1>4. /\ Heap(allocated, child, next, prev)
      /\ \A x \in allocated : child'[x] = child[x] /\ next'[x] = next[x] /\ prev'[x] = prev[x]
  BY <1>1, <1>2, HeapIInv
<1>5. Heap(allocated \union Range(f), child', next', prev')
  BY <1>1, <1>3, <1>4, HeapUnion
<1>. QED  BY <1>1, <1>5, IInvHeap

-----------------------------------------------------------------------------
(* The theorems.                                                           *)

\* The invariant holds at the start, and each group of steps keeps it.
LEMMA InitIInv == Init => TreeInv
<1>. SUFFICES ASSUME Init
              PROVE  TreeInv
  OBVIOUS
<1>1. TypeOK
  BY DEF Init, TypeOK, Pointers
<1>. QED  BY <1>1 DEF Init, TreeInv, Linked, Owned, Grounded

\* The operations that take a name keep the invariant ...
LEMMA NamedIInv ==
  ASSUME TreeInv, NEW o \in allocated, NEW k \in Keys, Named(o, k)
  PROVE  TreeInv'
<1>. DEFINE item == get_object_item(o, k)
<1>1. /\ item \in Members(o) \union {NULL} /\ TypeOK
      /\ string \in [Items -> Keys \union {NULL}]
  BY FoundNamed, PointerTypes DEF TreeInv
<1>2. CASE Detach(o, item)
  BY <1>1, <1>2, DetachIInv DEF Detach
<1>3. CASE DeleteItem(o, item)
  BY <1>1, <1>3, DetachIInv DEF DeleteItem
<1>4. ASSUME NEW r \in Items, cJSON_AddItemToObject(o, k, r)
      PROVE  TreeInv'
  <2>1. /\ MayAdd(o, r) /\ r \in allocated /\ add_item_to_array(o, r)
        /\ allocated' = allocated /\ string' = [string EXCEPT ![r] = k]
    BY <1>4 DEF cJSON_AddItemToObject, MayAdd, Loose
  <2>2. string' \in [Items -> Keys \union {NULL}]
    BY <1>1, <2>1
  <2>. QED  BY <2>1, <2>2, AddIInv
<1>5. ASSUME NEW r \in Items, cJSON_ReplaceItemInObject(o, k, r)
      PROVE  TreeInv'
  <2>. DEFINE named == [string EXCEPT ![r] = k]
  <2>1. named \in [Items -> Keys \union {NULL}]
    BY <1>1
  <2>2. CASE item \in {NULL, r}
    <3>1. string' = named /\ UNCHANGED <<allocated, child, next, prev>>
      BY <1>5, <2>2 DEF cJSON_ReplaceItemInObject
    <3>2. Heap(allocated, child, next, prev)'
      BY <3>1, HeapIInv
    <3>. QED  BY <2>1, <3>1, <3>2, IInvHeap
  <2>3. CASE item \notin {NULL, r}
    <3>1. /\ MayAdd(o, r) /\ r \in allocated /\ item \in Members(o)
          /\ ReplaceItemViaPointer(o, item, r, named)
      BY <1>1, <1>5, <2>3 DEF cJSON_ReplaceItemInObject, MayAdd, Loose
    <3>. HIDE DEF item, named
    <3>. QED  BY <2>1, <3>1, ReplaceIInv
  <2>. QED  BY <2>2, <2>3
<1>. QED  BY <1>2, <1>3, <1>4, <1>5 DEF Named

\* ... and those that take a position ...
LEMMA IndexedIInv ==
  ASSUME TreeInv, NEW o \in allocated, NEW i \in Places(o), Indexed(o, i)
  PROVE  TreeInv'
<1>. DEFINE item == get_array_item(o, i)
<1>1. /\ item \in Members(o) \union {NULL} /\ TypeOK
      /\ string \in [Items -> Keys \union {NULL}]
  BY FoundAt, PointerTypes DEF TreeInv
<1>2. CASE Detach(o, item)
  BY <1>1, <1>2, DetachIInv DEF Detach
<1>3. CASE DeleteItem(o, item)
  BY <1>1, <1>3, DetachIInv DEF DeleteItem
<1>4. ASSUME NEW r \in Items, cJSON_InsertItemInArray(o, i, r)
      PROVE  TreeInv'
  <2>1. r \in allocated
    BY <1>4 DEF cJSON_InsertItemInArray, MayAdd, Loose
  <2>. QED  BY <1>4, <2>1, InsertIInv
<1>5. ASSUME NEW r \in Items, cJSON_ReplaceItemInArray(o, i, r)
      PROVE  TreeInv'
  <2>1. /\ MayAdd(o, r) /\ r \in allocated /\ item \in Members(o)
        /\ ReplaceItemViaPointer(o, item, r, string)
    BY <1>1, <1>5 DEF cJSON_ReplaceItemInArray, MayAdd, Loose
  <2>. HIDE DEF item
  <2>. QED  BY <1>1, <2>1, ReplaceIInv
<1>. QED  BY <1>2, <1>3, <1>4, <1>5 DEF Indexed

\* ... and so does every step.
LEMMA NextIInv == TreeInv /\ [Next]_vars => TreeInv'
<1>. SUFFICES ASSUME TreeInv, [Next]_vars
              PROVE  TreeInv'
  OBVIOUS
<1>1. ASSUME NEW r \in Items, One(r)
      PROVE  TreeInv'
  BY <1>1, CreateIInv, DeleteIInv DEF One
<1>2. ASSUME NEW o \in allocated, NEW k \in Keys, Named(o, k)
      PROVE  TreeInv'
  BY <1>2, NamedIInv
<1>3. ASSUME NEW o \in allocated, NEW i \in Places(o), Indexed(o, i)
      PROVE  TreeInv'
  BY <1>3, IndexedIInv
<1>4. ASSUME NEW o \in Items, NEW r \in Items, cJSON_AddItemToArray(o, r)
      PROVE  TreeInv'
  <2>1. /\ MayAdd(o, r) /\ o \in allocated /\ r \in allocated /\ add_item_to_array(o, r)
        /\ allocated' = allocated /\ string' = string
    BY <1>4 DEF cJSON_AddItemToArray, MayAdd, Loose
  <2>2. string' \in [Items -> Keys \union {NULL}]
    BY <2>1, PointerTypes DEF TreeInv
  <2>. QED  BY <2>1, <2>2, AddIInv
<1>5. ASSUME NEW o \in Items, NEW members \in SeqOf(Items \ allocated, MaxMembers),
             NEW text \in Texts(Len(members)), cJSON_Parse(o, members, text)
      PROVE  TreeInv'
  BY <1>5, ParseIInv
<1>6. ASSUME NEW r \in allocated, NEW T \in {{r}, Tree(r)}, NEW f \in Copies(T),
             cJSON_Duplicate(f)
      PROVE  TreeInv'
  BY <1>6, DuplicateIInv
<1>7. CASE UNCHANGED vars
  BY <1>7 DEF vars, TreeInv, TypeOK, Linked, Owned, Grounded
<1>. QED  BY <1>1, <1>2, <1>3, <1>4, <1>5, <1>6, <1>7 DEF Next

\* However the objects and arrays of a program are built, extended, detached, replaced,
\* copied and deleted, their links stay those of a forest of lists.
THEOREM Invariance == Spec => []TreeInv
BY InitIInv, NextIInv, PTL DEF Spec

\* No item that exists leads to one that has been freed: cJSON_Delete, and the deletion
\* inside cJSON_DeleteItemFrom... and cJSON_ReplaceItemIn..., free what is theirs and
\* nothing that another list still needs.
THEOREM TypeCorrect == Spec => []TypeOK
<1>1. TreeInv => TypeOK
  BY DEF TreeInv
<1>. QED  BY <1>1, Invariance, PTL

\* Forward and backward links agree after every operation, the head of a list has no
\* item before it: cJSON_DetachItemViaPointer and cJSON_ReplaceItemViaPointer, which
\* take the neighbours of an item from it, cut the list at the right place.
THEOREM ListsLinked == Spec => []Linked
<1>1. TreeInv => Linked
  BY DEF TreeInv
<1>. QED  BY <1>1, Invariance, PTL

=============================================================================
