------------------------------- MODULE CJSON --------------------------------
(***************************************************************************)
(* The items of cJSON (src/cJSON.c) as this SDK builds its messages and    *)
(* pPrevious from them: the items of an object are a list, doubly linked   *)
(* through next and prev, whose head is the child of the object; neither a *)
(* tail pointer nor the owner of an item is stored.  Every operation is    *)
(* the pointer surgery of the code; what it must amount to is said in      *)
(* module OrderedObjects.                                                  *)
(*                                                                         *)
(* Names are compared without regard to case: a member of Keys is a class  *)
(* of names that the library takes for equal.                              *)
(***************************************************************************)
EXTENDS Integers, FiniteSets, SequencesExt

CONSTANTS
  Items,  \* the items memory has room for
  Keys,   \* names
  NULL,
  MaxMembers  \* bound: members of an object or array that is parsed

ASSUME NullAssumption == NULL \notin Items /\ NULL \notin Keys
ASSUME ItemsAssumption == IsFiniteSet(Items) /\ MaxMembers \in Nat

Pointers == Items \union {NULL}

VARIABLES
  allocated,  \* the items that have been allocated and not freed
  child,      \* the head of the list of an object
  next, prev,
  string      \* the name of an item

vars == <<allocated, child, next, prev, string>>

Init ==
  /\ allocated = {}
  /\ child = [n \in Items |-> NULL]
  /\ next = [n \in Items |-> NULL]
  /\ prev = [n \in Items |-> NULL]
  /\ string = [n \in Items |-> NULL]

-----------------------------------------------------------------------------
(* Walking along the lists.  What a loop or a recursion of the code visits  *)
(* is the least set of items that contains the first one and is closed     *)
(* under the pointers it follows.                                          *)

NextInside(S) == \A n \in S : next[n] \in S \union {NULL}
ChildInside(S) == \A n \in S : child[n] \in S \union {NULL}

\* The item p and what follows it in its list.
From(p) ==
  LET closed == {S \in SUBSET Items : p \in S /\ NextInside(S)}
  IN  {n \in Items : \A S \in closed : n \in S}

\* The items of the list of o.
Members(o) == IF child[o] = NULL THEN {} ELSE From(child[o])

\* get_object_item: the first item with the name, or NULL.
get_object_item(o, k) ==
  LET named == {n \in Members(o) : string[n] = k}
  IN  IF named = {} THEN NULL ELSE CHOOSE n \in named : named \subseteq From(n)

\* The item that i - 1 items of o come before, or NULL.
get_array_item(o, i) ==
  LET at == {n \in Members(o) : Cardinality(Members(o) \ From(n)) = i - 1}
  IN  IF at = {} THEN NULL ELSE CHOOSE n \in at : TRUE

\* The last item of a list that is not empty.
LastItem(o) == CHOOSE n \in Members(o) : next[n] = NULL

\* What cJSON_Delete frees: the item, what follows it in its list, and what is
\* in any of them.
Deleted(p) ==
  LET closed == {S \in SUBSET Items : p \in S /\ NextInside(S) /\ ChildInside(S)}
  IN  {n \in Items : \A S \in closed : n \in S}

-----------------------------------------------------------------------------
(* What the callers of the library have to respect.                        *)

\* n is in no list.
Loose(n) ==
  /\ n \in allocated /\ next[n] = NULL /\ prev[n] = NULL
  /\ \A o \in allocated : child[o] # n

\* n may be put into o: it is in no list, and o is not inside n.
MayAdd(o, n) == Loose(n) /\ o \in allocated /\ o \notin Deleted(n)

-----------------------------------------------------------------------------
\* cJSON_New_Item clears the memory of the item.
cJSON_CreateObject(n) ==
  /\ n \notin allocated
  /\ allocated' = allocated \union {n}
  /\ child' = [child EXCEPT ![n] = NULL]
  /\ next' = [next EXCEPT ![n] = NULL]
  /\ prev' = [prev EXCEPT ![n] = NULL]
  /\ string' = [string EXCEPT ![n] = NULL]

\* Mutant of suffix_object: the link back is forgotten.
suffix_objectForward(p, n) ==
  next' = [next EXCEPT ![p] = n] /\ UNCHANGED prev

suffix_object(p, n) ==
  next' = [next EXCEPT ![p] = n] /\ prev' = [prev EXCEPT ![n] = p]

add_item_to_array(o, n) ==
  IF child[o] = NULL
  THEN child' = [child EXCEPT ![o] = n] /\ UNCHANGED <<next, prev>>
  ELSE suffix_object(LastItem(o), n) /\ UNCHANGED child

cJSON_AddItemToObject(o, k, n) ==
  /\ MayAdd(o, n)
  /\ string' = [string EXCEPT ![n] = k]
  /\ add_item_to_array(o, n)
  /\ UNCHANGED allocated

cJSON_AddItemToArray(o, n) ==
  /\ MayAdd(o, n)
  /\ add_item_to_array(o, n)
  /\ UNCHANGED <<allocated, string>>

\* Mutant of cJSON_InsertItemInArray: the item behind keeps its link back.
cJSON_InsertItemInArrayBackless(o, i, n) ==
  LET after == get_array_item(o, i)
  IN  /\ MayAdd(o, n)
      /\ IF after = NULL
         THEN add_item_to_array(o, n)
         ELSE /\ prev' = [prev EXCEPT ![n] = prev[after]]
              /\ IF after = child[o]
                 THEN /\ child' = [child EXCEPT ![o] = n]
                      /\ next' = [next EXCEPT ![n] = after]
                 ELSE /\ next' = [next EXCEPT ![n] = after, ![prev[after]] = n]
                      /\ UNCHANGED child
      /\ UNCHANGED <<allocated, string>>

\* Before the item at position i, or at the end of the list.
cJSON_InsertItemInArray(o, i, n) ==
  LET after == get_array_item(o, i)
  IN  /\ MayAdd(o, n)
      /\ IF after = NULL
         THEN add_item_to_array(o, n)
         ELSE /\ prev' = [prev EXCEPT ![n] = prev[after], ![after] = n]
              /\ IF after = child[o]
                 THEN /\ child' = [child EXCEPT ![o] = n]
                      /\ next' = [next EXCEPT ![n] = after]
                 ELSE /\ next' = [next EXCEPT ![n] = after, ![prev[after]] = n]
                      /\ UNCHANGED child
      /\ UNCHANGED <<allocated, string>>

\* Assignments to the field of the item p, unless p is NULL.
Assign(field, p, value) == IF p = NULL THEN field ELSE [field EXCEPT ![p] = value]

\* The field once the items of S are freed. What freed memory holds is undefined
\* and no item points to it (TypeOK): it is NULL here.
Cleared(field, S) == [n \in Items |-> IF n \in S THEN NULL ELSE field[n]]

\* Mutant of Tree: the item is deleted while it still points to what follows.
TreeWithFollowers(item) == Deleted(item)

\* The item and what is inside it: what cJSON_Delete frees of an item whose next
\* and prev have just been cleared, and what cJSON_Duplicate visits.
Tree(item) ==
  {item} \union (IF child[item] = NULL THEN {} ELSE Deleted(child[item]))

\* cJSON_DetachItemViaPointer, after which the items of gone are freed.
DetachItemViaPointer(o, item, gone) ==
  /\ next' = Cleared([Assign(next, prev[item], next[item]) EXCEPT ![item] = NULL], gone)
  /\ prev' = Cleared([Assign(prev, next[item], prev[item]) EXCEPT ![item] = NULL], gone)
  /\ child' = Cleared(IF item = child[o] THEN [child EXCEPT ![o] = next[item]] ELSE child, gone)
  /\ string' = Cleared(string, gone)
  /\ allocated' = allocated \ gone

\* cJSON_DetachItemFrom... and cJSON_DeleteItemFrom... Object and Array: without
\* an item nothing happens.
Detach(o, item) == item # NULL /\ DetachItemViaPointer(o, item, {})
DeleteItem(o, item) == item # NULL /\ DetachItemViaPointer(o, item, Tree(item))

\* cJSON_ReplaceItemViaPointer: r takes the place of item, which is deleted.
ReplaceItemViaPointer(o, item, r, named) ==
  /\ allocated' = allocated \ Tree(item)
  /\ next' = Cleared([Assign(next, prev[item], r) EXCEPT ![r] = next[item]], Tree(item))
  /\ prev' = Cleared([Assign(prev, next[item], r) EXCEPT ![r] = prev[item]], Tree(item))
  /\ child' = Cleared(IF child[o] = item THEN [child EXCEPT ![o] = r] ELSE child, Tree(item))
  /\ string' = Cleared(named, Tree(item))

\* The replacement takes the name whether or not there is an item to replace;
\* an item that is replaced by itself stays.
cJSON_ReplaceItemInObject(o, k, r) ==
  LET item == get_object_item(o, k)
      named == [string EXCEPT ![r] = k]
  IN  /\ MayAdd(o, r) \/ (o \in allocated /\ r = item /\ r # NULL)
      /\ IF item \in {NULL, r}
         THEN string' = named /\ UNCHANGED <<allocated, child, next, prev>>
         ELSE ReplaceItemViaPointer(o, item, r, named)

cJSON_ReplaceItemInArray(o, i, r) ==
  LET item == get_array_item(o, i)
  IN  /\ MayAdd(o, r) /\ item # NULL
      /\ ReplaceItemViaPointer(o, item, r, string)

cJSON_Delete(n) ==
  /\ Loose(n)
  /\ allocated' = allocated \ Deleted(n)
  /\ child' = Cleared(child, Deleted(n))
  /\ next' = Cleared(next, Deleted(n))
  /\ prev' = Cleared(prev, Deleted(n))
  /\ string' = Cleared(string, Deleted(n))

-----------------------------------------------------------------------------
(* Operations that build several items at once.                            *)

At(seq, j) == IF j \in DOMAIN seq THEN seq[j] ELSE NULL

\* The field after the j-th of the items has got values[j].
Filled(field, items, values) ==
  [n \in Items |-> IF n \in ToSet(items)
                   THEN values[CHOOSE j \in DOMAIN items : items[j] = n]
                   ELSE field[n]]

\* parse_object and parse_array: new items, one for each of the names of text
\* (all NULL for an array), are chained behind one another and the parent o gets
\* the first. The values of the members are scalars here: a deeper value is parsed
\* by the same code with the member as the parent. A text that is not valid JSON
\* changes nothing: what was built is deleted.
cJSON_Parse(o, members, text) ==
  LET new == <<o>> \o members
  IN  /\ ToSet(new) \subseteq Items \ allocated /\ IsInjective(new)
      /\ allocated' = allocated \union ToSet(new)
      /\ child' = Filled(child, new, [j \in DOMAIN new |-> IF j = 1 THEN At(new, 2) ELSE NULL])
      /\ next' = Filled(next, new, [j \in DOMAIN new |-> IF j = 1 THEN NULL ELSE At(new, j + 1)])
      /\ prev' = Filled(prev, new, [j \in DOMAIN new |-> IF j <= 2 THEN NULL ELSE new[j - 1]])
      /\ string' = Filled(string, new, <<NULL>> \o text)

\* The copy of the item p, NULL if it is not copied.
Image(f, p) == IF p \in DOMAIN f THEN f[p] ELSE NULL

\* The field after the copy f[p] of each item p has got values[p].
Copied(field, f, values) ==
  [n \in Items |-> IF n \in Range(f) THEN values[CHOOSE p \in DOMAIN f : f[p] = n]
                   ELSE field[n]]

\* cJSON_Duplicate of n, or of the whole tree of n: the copies are f. They are
\* chained in the order of next.
cJSON_Duplicate(f) ==
  LET Predecessor(p) == {q \in DOMAIN f : next[q] = p}
  IN  /\ allocated' = allocated \union Range(f)
      /\ child' = Copied(child, f, [p \in DOMAIN f |-> Image(f, child[p])])
      /\ next' = Copied(next, f, [p \in DOMAIN f |-> Image(f, next[p])])
      /\ prev' = Copied(prev, f, [p \in DOMAIN f |->
                   IF Predecessor(p) = {} THEN NULL ELSE f[CHOOSE q \in Predecessor(p) : TRUE]])
      /\ string' = Copied(string, f, [p \in DOMAIN f |-> string[p]])

-----------------------------------------------------------------------------
\* The names in the text of an object of n members, the absent ones of an array.
Texts(n) == [1..n -> Keys] \union [1..n -> {NULL}]
\* The new items that copies of the items of T may get.
Copies(T) == {f \in [T -> Items \ allocated] : IsInjective(f)}

\* The positions of the items of o, and one where there is none.
Places(o) == 1..Cardinality(Members(o)) + 1

One(n) == cJSON_CreateObject(n) \/ cJSON_Delete(n)

Named(o, k) ==
  \/ Detach(o, get_object_item(o, k)) \/ DeleteItem(o, get_object_item(o, k))
  \/ \E n \in Items : cJSON_AddItemToObject(o, k, n) \/ cJSON_ReplaceItemInObject(o, k, n)

Indexed(o, i) ==
  \/ Detach(o, get_array_item(o, i)) \/ DeleteItem(o, get_array_item(o, i))
  \/ \E n \in Items : cJSON_InsertItemInArray(o, i, n) \/ cJSON_ReplaceItemInArray(o, i, n)

Next ==
  \/ \E n \in Items : One(n)
  \/ \E o \in allocated, k \in Keys : Named(o, k)
  \/ \E o \in allocated : \E i \in Places(o) : Indexed(o, i)
  \/ \E o, n \in Items : cJSON_AddItemToArray(o, n)
  \/ \E o \in Items, members \in SeqOf(Items \ allocated, MaxMembers) :
       \E text \in Texts(Len(members)) : cJSON_Parse(o, members, text)
  \/ \E n \in allocated : \E T \in {{n}, Tree(n)} : \E f \in Copies(T) : cJSON_Duplicate(f)

Spec == Init /\ [][Next]_vars

-----------------------------------------------------------------------------
(* Properties.                                                             *)

\* No item that exists points to one that has been freed.
TypeOK ==
  /\ allocated \subseteq Items
  /\ {child, next, prev} \subseteq [Items -> Pointers]
  /\ string \in [Items -> Keys \union {NULL}]
  /\ \A n \in allocated : {child[n], next[n], prev[n]} \subseteq allocated \union {NULL}

\* The two links of every list agree, however objects were extended, detached,
\* replaced and deleted before: the next detachment or replacement, which
\* trusts prev, cuts the list at the right place.
Linked ==
  \A n \in allocated :
    /\ next[n] # NULL => prev[next[n]] = n
    /\ prev[n] # NULL => next[prev[n]] = n
    /\ child[n] # NULL => prev[child[n]] = NULL

\* No item is the head of two lists.
Owned == \A o, p \in allocated : child[o] # NULL /\ child[o] = child[p] => o = p

\* No item follows itself or is inside itself: every set of items has one that leads
\* to none of the set.
Grounded ==
  \A S \in SUBSET allocated :
    S # {} => \E n \in S : next[n] \notin S /\ child[n] \notin S

\* The inductive invariant behind TypeOK and Linked.
TreeInv == TypeOK /\ Linked /\ Owned /\ Grounded

\* The list of o as a sequence: the walk from its head, k items at most.
Walk[k \in 0..Cardinality(Items)] ==
  [p \in Pointers |-> IF p = NULL \/ k = 0 THEN << >> ELSE <<p>> \o Walk[k - 1][next[p]]]

List(o) == Walk[Cardinality(Items)][child[o]]

\* The linked lists implement sequences of named items.
Objects == INSTANCE OrderedObjects
  WITH live <- allocated,
       content <- [o \in Items |-> List(o)],
       name <- string

ImplementsObjects == Objects!Spec
=============================================================================
