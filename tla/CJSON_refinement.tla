-------------------------- MODULE CJSON_refinement --------------------------
(***************************************************************************)
(* Proof that the linked lists of CJSON implement the sequences of         *)
(* OrderedObjects, for any number of items and names.                      *)
(***************************************************************************)
EXTENDS CJSON_proofs, FiniteSetTheorems

-----------------------------------------------------------------------------
(* The sequence of items that the links nx make of the pointer p.          *)

Chain(s, p, nx) ==
  /\ s \in Seq(Items)
  /\ p = IF Len(s) = 0 THEN NULL ELSE s[1]
  /\ \A j \in 1..Len(s) : nx[s[j]] = IF j = Len(s) THEN NULL ELSE s[j + 1]

\* There is one such sequence at most.
LEMMA ChainPrefix ==
  ASSUME NEW nx, NEW p, NEW s, NEW t, Chain(s, p, nx), Chain(t, p, nx)
  PROVE  \A j \in 1..Len(s) : j \in 1..Len(t) /\ s[j] = t[j]
<1>. DEFINE Bad == {j \in 1..Len(s) : ~ (j \in 1..Len(t) /\ s[j] = t[j])}
<1>. SUFFICES ASSUME Bad # {}
              PROVE  FALSE
  OBVIOUS
<1>1. /\ s \in Seq(Items) /\ t \in Seq(Items) /\ Len(s) \in Nat /\ Len(t) \in Nat
      /\ \A j \in 1..Len(s) : s[j] \in Items /\ s[j] # NULL
      /\ \A j \in 1..Len(t) : t[j] \in Items /\ t[j] # NULL
  BY ElementOfSeq, LenProperties, NullAssumption DEF Chain
<1>2. PICK j \in Bad : \A i \in Bad : j <= i
  <2>1. Bad \in SUBSET Nat
    BY <1>1
  <2>. HIDE DEF Bad
  <2>. QED  BY <2>1, Least
<1>3. CASE j = 1
  BY <1>1, <1>2, <1>3 DEF Chain
<1>4. CASE j # 1
  <2>1. j - 1 \in 1..Len(s) /\ j - 1 \notin Bad
    BY <1>1, <1>2, <1>4
  <2>2. j - 1 \in 1..Len(t) /\ s[j - 1] = t[j - 1] /\ j - 1 # Len(s)
    BY <1>1, <1>2, <2>1
  <2>3. nx[s[j - 1]] = s[(j - 1) + 1] /\ (j - 1) + 1 = j /\ s[j] # NULL
    BY <1>1, <1>2, <2>1, <2>2 DEF Chain
  <2>4. nx[t[j - 1]] = IF j - 1 = Len(t) THEN NULL ELSE t[(j - 1) + 1]
    BY <2>2 DEF Chain
  <2>5. j - 1 # Len(t) /\ s[j] = t[j]
    BY <2>2, <2>3, <2>4
  <2>6. j \in 1..Len(t)
    BY <1>1, <2>2, <2>5
  <2>. QED  BY <1>2, <2>5, <2>6
<1>. QED  BY <1>3, <1>4

\* Two sequences that the same links make of the same pointer are equal.
LEMMA ChainUnique ==
  ASSUME NEW nx, NEW p, NEW s, NEW t, Chain(s, p, nx), Chain(t, p, nx)
  PROVE  s = t
<1>1. s \in Seq(Items) /\ t \in Seq(Items) /\ Len(s) \in Nat /\ Len(t) \in Nat
  BY LenProperties DEF Chain
<1>2. \A j \in 1..Len(s) : j \in 1..Len(t) /\ s[j] = t[j]
  BY ChainPrefix
<1>3. \A j \in 1..Len(t) : j \in 1..Len(s) /\ s[j] = t[j]
  BY ChainPrefix
<1>4. Len(s) = Len(t)
  BY <1>1, <1>2, <1>3
<1>. QED  BY <1>1, <1>2, <1>4, SeqEqual

\* An item before a chain.
LEMMA ChainCons ==
  ASSUME NEW nx, NEW p \in Items, NEW t, Chain(t, nx[p], nx)
  PROVE  Chain(<<p>> \o t, p, nx)
<1>. DEFINE s == <<p>> \o t
<1>1. t \in Seq(Items) /\ Len(t) \in Nat
  BY LenProperties DEF Chain
<1>2. /\ s \in Seq(Items) /\ Len(s) = Len(t) + 1 /\ s[1] = p
      /\ \A j \in 1..Len(t) : s[j + 1] = t[j]
  BY <1>1
<1>. HIDE DEF s
<1>3. ASSUME NEW j \in 1..Len(s)
      PROVE  nx[s[j]] = IF j = Len(s) THEN NULL ELSE s[j + 1]
  <2>1. CASE j = 1
    BY <1>1, <1>2, <2>1 DEF Chain
  <2>2. CASE j # 1
    <3>1. j - 1 \in 1..Len(t) /\ s[(j - 1) + 1] = t[j - 1] /\ (j - 1) + 1 = j
      BY <1>1, <1>2, <2>2
    <3>2. nx[t[j - 1]] = IF j - 1 = Len(t) THEN NULL ELSE t[(j - 1) + 1]
      BY <3>1 DEF Chain
    <3>3. j # Len(s) => j \in 1..Len(t)
      BY <1>1, <1>2
    <3>4. j = Len(s) <=> j - 1 = Len(t)
      BY <1>1, <1>2
    <3>. QED  BY <1>2, <3>1, <3>2, <3>3, <3>4
  <2>. QED  BY <2>1, <2>2
<1>. QED  BY <1>1, <1>2, <1>3 DEF Chain, s

\* What follows the first item of a chain.
LEMMA ChainTail ==
  ASSUME NEW nx, NEW p, NEW s, Chain(s, p, nx), p # NULL
  PROVE  /\ p \in Items /\ Chain(Tail(s), nx[p], nx) /\ s = <<p>> \o Tail(s)
         /\ Len(Tail(s)) = Len(s) - 1
<1>1. s \in Seq(Items) /\ Len(s) \in Nat \ {0} /\ p = s[1]
  BY LenProperties DEF Chain
<1>2. /\ Tail(s) \in Seq(Items) /\ Len(Tail(s)) = Len(s) - 1
      /\ \A j \in 1..Len(s) - 1 : Tail(s)[j] = s[j + 1]
  BY <1>1
<1>3. p \in Items /\ s = <<p>> \o Tail(s)
  BY <1>1, <1>2
<1>4. nx[p] = IF Len(Tail(s)) = 0 THEN NULL ELSE Tail(s)[1]
  <2>1. nx[s[1]] = IF 1 = Len(s) THEN NULL ELSE s[1 + 1]
    BY <1>1 DEF Chain
  <2>. QED  BY <1>1, <1>2, <2>1
<1>5. ASSUME NEW j \in 1..Len(Tail(s))
      PROVE  nx[Tail(s)[j]] = IF j = Len(Tail(s)) THEN NULL ELSE Tail(s)[j + 1]
  <2>1. j + 1 \in 1..Len(s)
    BY <1>1, <1>2
  <2>2. nx[s[j + 1]] = IF j + 1 = Len(s) THEN NULL ELSE s[(j + 1) + 1]
    BY <2>1 DEF Chain
  <2>3. Tail(s)[j] = s[j + 1] /\ (j = Len(Tail(s)) <=> j + 1 = Len(s))
    BY <1>1, <1>2
  <2>4. j # Len(Tail(s)) => Tail(s)[j + 1] = s[(j + 1) + 1]
    <3>. SUFFICES ASSUME j # Len(Tail(s))
                  PROVE  Tail(s)[j + 1] = s[(j + 1) + 1]
      OBVIOUS
    <3>1. j + 1 \in 1..Len(s) - 1
      <4>1. Len(Tail(s)) = Len(s) - 1 /\ Len(s) \in Nat
        BY <1>1, <1>2
      <4>. QED  BY <4>1
    <3>. QED  BY <1>2, <3>1
  <2>. QED  BY <2>2, <2>3, <2>4
<1>. QED  BY <1>2, <1>3, <1>4, <1>5 DEF Chain

\* Every list ends, so every item that exists has its chain.
LEMMA ChainExists ==
  ASSUME TreeInv, NEW p \in allocated \union {NULL}
  PROVE  \E s \in Seq(allocated) : Chain(s, p, next)
<1>. DEFINE Chained(q) == \E s \in Seq(allocated) : Chain(s, q, next)
            S == {q \in allocated : ~ Chained(q)}
<1>1. TypeOK /\ allocated \subseteq Items /\ NULL \notin allocated
  BY PointerTypes DEF TreeInv
<1>2. Chained(NULL)
  <2>1. << >> \in Seq(allocated) /\ << >> \in Seq(Items) /\ Len(<< >>) = 0
    OBVIOUS
  <2>2. Chain(<< >>, NULL, next)
    BY <2>1 DEF Chain
  <2>. QED  BY <2>1, <2>2
<1>. HIDE DEF Chained
<1>3. S = {}
  <2>. SUFFICES ASSUME S # {}
                PROVE  FALSE
    OBVIOUS
  <2>1. PICK q \in S : next[q] \notin S
    BY DEF TreeInv, Grounded
  <2>2. q \in allocated /\ q \in Items /\ next[q] \in allocated \union {NULL}
    BY <1>1, PointerTypes
  <2>3. Chained(next[q])
    BY <1>2, <2>1, <2>2
  <2>4. PICK t \in Seq(allocated) : Chain(t, next[q], next)
    BY <2>3 DEF Chained
  <2>5. <<q>> \o t \in Seq(allocated) /\ Chain(<<q>> \o t, q, next)
    BY <2>2, <2>4, ChainCons
  <2>. QED  BY <2>1, <2>5 DEF Chained
<1>4. Chained(p)
  BY <1>2, <1>3
<1>. QED  BY <1>4 DEF Chained

\* No item is twice in a list, so a list is not longer than there are items.
LEMMA ChainInjective ==
  ASSUME TreeInv, NEW s \in Seq(allocated), NEW p, Chain(s, p, next)
  PROVE  IsInjective(s) /\ Len(s) <= Cardinality(Items)
<1>1. /\ Len(s) \in Nat /\ s \in [1..Len(s) -> allocated] /\ s \in [1..Len(s) -> Items]
      /\ DOMAIN s = 1..Len(s)
  BY LenProperties, PointerTypes DEF TreeInv
<1>2. ASSUME NEW i \in 1..Len(s), NEW j \in 1..Len(s), i < j, s[i] = s[j]
      PROVE  FALSE
  <2>. DEFINE S == {s[k] : k \in i..j - 1}
  <2>1. S \in SUBSET allocated /\ s[i] \in S
    BY <1>1, <1>2
  <2>2. PICK n \in S : next[n] \notin S
    <3>. HIDE DEF S
    <3>. QED  BY <2>1 DEF TreeInv, Grounded
  <2>3. PICK k \in i..j - 1 : n = s[k]
    BY <2>2
  <2>4. k \in 1..Len(s) /\ k # Len(s) /\ next[s[k]] = s[k + 1]
    BY <1>1, <1>2, <2>3 DEF Chain
  <2>5. CASE k + 1 = j
    BY <1>2, <2>1, <2>2, <2>3, <2>4, <2>5
  <2>6. CASE k + 1 # j
    <3>1. k + 1 \in i..j - 1
      BY <1>1, <1>2, <2>3, <2>6
    <3>. QED  BY <2>2, <2>3, <2>4, <3>1
  <2>. QED  BY <2>5, <2>6
<1>3. IsInjective(s)
  <2>. SUFFICES ASSUME NEW i \in 1..Len(s), NEW j \in 1..Len(s), s[i] = s[j], i # j
                PROVE  FALSE
    BY <1>1 DEF IsInjective
  <2>1. i < j \/ j < i
    BY <1>1
  <2>. QED  BY <1>2, <2>1
<1>4. Len(s) <= Cardinality(Items)
  <2>1. s \in Injection(1..Len(s), Items)
    BY <1>1, <1>3 DEF Injection, IsInjective
  <2>2. IsFiniteSet(Items) /\ Cardinality(1..Len(s)) = Len(s)
    BY <1>1, ItemsAssumption, FS_Interval
  <2>. QED  BY <2>1, <2>2, FS_Injection
<1>. QED  BY <1>3, <1>4

\* The recursive walk is well defined.
LEMMA WalkStep ==
  ASSUME TypeOK, NEW k \in 0..Cardinality(Items), NEW p \in Pointers
  PROVE  Walk[k][p] = IF p = NULL \/ k = 0 THEN << >> ELSE <<p>> \o Walk[k - 1][next[p]]
<1>. DEFINE N == Cardinality(Items)
            Body(f, j) == [q \in Pointers |->
                            IF q = NULL \/ j = 0 THEN << >> ELSE <<q>> \o f[j - 1][next[q]]]
            Defined(m) == \E f : f = [j \in 0..m |-> Body(f, j)]
            Bad == {m \in Nat : ~ Defined(m)}
<1>1. N \in Nat
  BY ItemsAssumption, FS_CardinalityType
<1>2. Defined(0)
  <2>. DEFINE f == [j \in 0..0 |-> [q \in Pointers |-> << >>]]
  <2>1. \A j \in 0..0 : Body(f, j) = [q \in Pointers |-> << >>]
    OBVIOUS
  <2>. HIDE DEF Body
  <2>2. f = [j \in 0..0 |-> Body(f, j)]
    BY <2>1
  <2>. QED  BY <2>2
<1>3. ASSUME NEW m \in Nat, Defined(m)
      PROVE  Defined(m + 1)
  <2>1. PICK f : f = [j \in 0..m |-> Body(f, j)]
    BY <1>3
  <2>. DEFINE g == [j \in 0..m + 1 |-> Body(f, j)]
  <2>2. \A j \in 0..m : f[j] = g[j]
    <3>. HIDE DEF Body
    <3>1. \A j \in 0..m : g[j] = Body(f, j)
      OBVIOUS
    <3>2. \A j \in 0..m : f[j] = Body(f, j)
      BY <2>1
    <3>. QED  BY <3>1, <3>2
  <2>. HIDE DEF g
  <2>3. ASSUME NEW j \in 0..m + 1
        PROVE  Body(f, j) = Body(g, j)
    <3>1. j # 0 => j - 1 \in 0..m
      OBVIOUS
    <3>2. CASE j = 0
      BY <3>2
    <3>3. CASE j # 0
      <4>1. f[j - 1] = g[j - 1]
        BY <2>2, <3>1, <3>3
      <4>. QED  BY <4>1
    <3>. QED  BY <3>2, <3>3
  <2>. HIDE DEF Body
  <2>4. g = [j \in 0..m + 1 |-> Body(g, j)]
    BY <2>3 DEF g
  <2>. QED  BY <2>4
<1>. HIDE DEF Body
<1>4. Bad = {}
  <2>. SUFFICES ASSUME Bad # {}
                PROVE  FALSE
    OBVIOUS
  <2>. HIDE DEF Defined
  <2>1. PICK m \in Bad : \A i \in Bad : m <= i
    <3>1. Bad \in SUBSET Nat
      OBVIOUS
    <3>. HIDE DEF Bad
    <3>. QED  BY <3>1, Least
  <2>2. m \in Nat /\ m # 0 /\ m - 1 \in Nat /\ (m - 1) + 1 = m
    BY <1>2, <2>1
  <2>3. Defined(m - 1)
    BY <2>1, <2>2
  <2>. QED  BY <1>3, <2>1, <2>2, <2>3
<1>5. Defined(N)
  <2>. HIDE DEF Defined, N
  <2>. QED  BY <1>1, <1>4
<1>6. Walk = CHOOSE f : f = [j \in 0..N |-> Body(f, j)]
  BY DEF Walk, Body
<1>. HIDE DEF N
<1>7. Walk = [j \in 0..N |-> Body(Walk, j)]
  BY <1>5, <1>6
<1>8. Walk[k] = Body(Walk, k)
  <2>1. k \in 0..N
    BY DEF N
  <2>. HIDE DEF N
  <2>. QED  BY <1>7, <2>1
<1>. QED  BY <1>8 DEF Body

\* A walk that is long enough makes the chain.
LEMMA WalkChain ==
  ASSUME TypeOK, NEW k \in 0..Cardinality(Items)
  PROVE  \A p \in Pointers : \A s : Chain(s, p, next) /\ Len(s) <= k => Walk[k][p] = s
<1>. DEFINE Walks(m) == \A p \in Pointers :
                          \A s : Chain(s, p, next) /\ Len(s) <= m => Walk[m][p] = s
            Bad == {m \in 0..Cardinality(Items) : ~ Walks(m)}
<1>1. Cardinality(Items) \in Nat
  BY ItemsAssumption, FS_CardinalityType
<1>. SUFFICES ASSUME Bad # {}
              PROVE  FALSE
  OBVIOUS
<1>2. PICK m \in Bad : \A i \in Bad : m <= i
  <2>1. Bad \in SUBSET Nat
    BY <1>1
  <2>. HIDE DEF Bad
  <2>. QED  BY <2>1, Least
<1>3. PICK p \in Pointers : \E s : Chain(s, p, next) /\ Len(s) <= m /\ Walk[m][p] # s
  BY <1>2
<1>4. PICK s : Chain(s, p, next) /\ Len(s) <= m /\ Walk[m][p] # s
  BY <1>3
<1>5. m \in 0..Cardinality(Items) /\ s \in Seq(Items) /\ Len(s) \in Nat
  BY <1>2, <1>4, LenProperties DEF Chain
<1>6. Walk[m][p] = IF p = NULL \/ m = 0 THEN << >> ELSE <<p>> \o Walk[m - 1][next[p]]
  BY <1>5, WalkStep
<1>7. CASE p = NULL
  <2>1. Len(s) = 0
    BY <1>4, <1>5, <1>7, ElementOfSeq, NullAssumption DEF Chain
  <2>. QED  BY <1>4, <1>5, <1>6, <1>7, <2>1, EmptySeq
<1>8. CASE p # NULL
  <2>1. /\ p \in Items /\ Chain(Tail(s), next[p], next) /\ s = <<p>> \o Tail(s)
        /\ Len(Tail(s)) = Len(s) - 1
    BY <1>4, <1>8, ChainTail
  <2>2. Len(s) # 0
    BY <1>4, <1>8 DEF Chain
  <2>3. m # 0 /\ m - 1 \in 0..Cardinality(Items) /\ m - 1 \notin Bad /\ Len(Tail(s)) <= m - 1
    <3>1. m # 0 /\ m - 1 \in 0..Cardinality(Items) /\ ~ (m <= m - 1)
      BY <1>1, <1>4, <1>5, <2>2
    <3>2. Len(Tail(s)) <= m - 1
      BY <1>4, <1>5, <2>1
    <3>. HIDE DEF Bad
    <3>. QED  BY <1>2, <3>1, <3>2
  <2>4. next[p] \in Pointers
    BY <2>1, PointerTypes
  <2>5. Walk[m - 1][next[p]] = Tail(s)
    BY <2>1, <2>3, <2>4
  <2>. QED  BY <1>4, <1>6, <1>8, <2>1, <2>3, <2>5
<1>. QED  BY <1>7, <1>8

\* The walk over the list of an object makes the chain of its head ...
LEMMA ListChain ==
  ASSUME TreeInv, NEW o \in allocated
  PROVE  /\ List(o) \in Seq(allocated) /\ Chain(List(o), child[o], next)
         /\ IsInjective(List(o))
<1>1. TypeOK /\ child[o] \in allocated \union {NULL} /\ child[o] \in Pointers
  BY PointerTypes DEF TreeInv, Pointers
<1>2. PICK s \in Seq(allocated) : Chain(s, child[o], next)
  BY <1>1, ChainExists
<1>3. IsInjective(s) /\ Len(s) <= Cardinality(Items)
  BY <1>2, ChainInjective
<1>4. Cardinality(Items) \in 0..Cardinality(Items)
  <2>1. Cardinality(Items) \in Nat
    BY ItemsAssumption, FS_CardinalityType
  <2>. QED  BY <2>1
<1>5. List(o) = s
  BY <1>1, <1>2, <1>3, <1>4, WalkChain DEF List
<1>. QED  BY <1>2, <1>3, <1>5

\* ... and no other sequence is one.
LEMMA ListIs == TreeInv => \A o \in allocated : \A s : Chain(s, child[o], next) => List(o) = s
BY ListChain, ChainUnique

\* The same after a step.
LEMMA ListIsNext == TreeInv' => (\A o \in allocated : \A s : Chain(s, child[o], next) => List(o) = s)'
BY ListIs, PTL

\* The items of the sequence are those of the list, and what follows an item of the list
\* is what comes after it in the sequence.
LEMMA ListItems ==
  ASSUME TreeInv, NEW o \in allocated
  PROVE  /\ ToSet(List(o)) = Members(o)
         /\ \A i \in 1..Len(List(o)) : From(List(o)[i]) = {List(o)[j] : j \in i..Len(List(o))}
<1>. DEFINE s == List(o)
            N == Len(s)
            Rest(i) == {s[j] : j \in i..N}
<1>1. /\ s \in Seq(allocated) /\ Chain(s, child[o], next) /\ N \in Nat /\ DOMAIN s = 1..N
      /\ \A i \in 1..N : s[i] \in allocated /\ s[i] \in Items
      /\ TypeOK /\ NULL \notin allocated
  BY ListChain, LenProperties, ElementOfSeq, PointerTypes DEF TreeInv
<1>. HIDE DEF s
<1>2. /\ \A j \in 1..N : next[s[j]] = IF j = N THEN NULL ELSE s[j + 1]
      /\ child[o] = IF N = 0 THEN NULL ELSE s[1]
  BY <1>1 DEF Chain
<1>. HIDE DEF N
<1>3. ASSUME NEW i \in 1..N
      PROVE  From(s[i]) = Rest(i)
  <2>1. From(s[i]) \subseteq Rest(i)
    <3>1. Rest(i) \in SUBSET Items /\ s[i] \in Rest(i)
      BY <1>1
    <3>2. \A n \in Rest(i) : next[n] # NULL => next[n] \in Rest(i)
      <4>. SUFFICES ASSUME NEW j \in i..N, next[s[j]] # NULL
                    PROVE  next[s[j]] \in Rest(i)
        OBVIOUS
      <4>1. j \in 1..N /\ j # N /\ next[s[j]] = s[j + 1] /\ j + 1 \in i..N
        <5>1. j \in 1..N
          BY <1>1
        <5>2. j # N
          BY <1>2, <5>1
        <5>. QED  BY <1>1, <1>2, <5>1, <5>2
      <4>. QED  BY <4>1
    <3>. HIDE DEF Rest
    <3>. QED  BY <1>1, <3>1, <3>2, FromLeast
  <2>2. Rest(i) \subseteq From(s[i])
    <3>. DEFINE Bad == {j \in i..N : s[j] \notin From(s[i])}
    <3>. SUFFICES ASSUME Bad # {}
                  PROVE  FALSE
      OBVIOUS
    <3>1. PICK j \in Bad : \A k \in Bad : j <= k
      <4>1. Bad \in SUBSET Nat
        BY <1>1
      <4>. HIDE DEF Bad
      <4>. QED  BY <4>1, Least
    <3>2. s[i] \in From(s[i])
      BY <1>1, FromClosed
    <3>3. j - 1 \in i..N /\ j - 1 \notin Bad /\ j - 1 \in 1..N /\ j - 1 # N
      BY <1>1, <3>1, <3>2
    <3>4. next[s[j - 1]] = s[(j - 1) + 1] /\ (j - 1) + 1 = j /\ s[j] # NULL
      <4>1. (j - 1) + 1 = j /\ j \in 1..N
        BY <1>1, <3>1
      <4>. QED  BY <1>1, <1>2, <3>3, <4>1
    <3>5. s[j] \in From(s[i])
      BY <1>1, <3>3, <3>4, FromNext
    <3>. QED  BY <3>1, <3>5
  <2>. QED  BY <2>1, <2>2
<1>4. ToSet(s) = Members(o)
  <2>1. CASE N = 0
    BY <1>1, <1>2, <2>1 DEF Members, ToSet
  <2>2. CASE N # 0
    <3>1. 1 \in 1..N /\ child[o] = s[1] /\ child[o] # NULL
      BY <1>1, <1>2, <2>2
    <3>. QED  BY <1>1, <1>3, <3>1 DEF Members, ToSet
  <2>. QED  BY <2>1, <2>2
<1>. QED  BY <1>3, <1>4 DEF s, N

-----------------------------------------------------------------------------
(* Lists and what they contain.                                            *)

\* What does not exist has neither contents nor a name.
Blank == \A x \in Items \ allocated : child[x] = NULL /\ string[x] = NULL

\* Without a head the list is empty ...
LEMMA ListEmpty == TypeOK => \A x \in Items : child[x] = NULL => List(x) = << >>
<1>. SUFFICES ASSUME TypeOK, NEW x \in Items, child[x] = NULL
              PROVE  List(x) = << >>
  OBVIOUS
<1>1. NULL \in Pointers /\ Cardinality(Items) \in 0..Cardinality(Items)
  <2>1. Cardinality(Items) \in Nat
    BY ItemsAssumption, FS_CardinalityType
  <2>. QED  BY <2>1 DEF Pointers
<1>2. Walk[Cardinality(Items)][NULL] = << >>
  BY <1>1, WalkStep
<1>. QED  BY <1>2 DEF List

\* ... and after a step as well.
LEMMA ListEmptyNext == TypeOK' => (\A x \in Items : child[x] = NULL => List(x) = << >>)'
BY ListEmpty, PTL

\* The contents of every item, whether it exists or not, are its list.
LEMMA ListSet ==
  ASSUME TreeInv, Blank, NEW x \in Items
  PROVE  List(x) \in Seq(Items) /\ ToSet(List(x)) = Members(x)
<1>1. TypeOK /\ allocated \subseteq Items
  BY PointerTypes DEF TreeInv
<1>2. CASE x \in allocated
  BY <1>2, ListChain, ListItems DEF Chain
<1>3. CASE x \notin allocated
  <2>1. child[x] = NULL /\ List(x) = << >> /\ Members(x) = {}
    BY <1>1, <1>3, ListEmpty DEF Blank, Members
  <2>2. ToSet(<< >>) = {} /\ << >> \in Seq(Items)
    BY DEF ToSet
  <2>. QED  BY <2>1, <2>2
<1>. QED  BY <1>2, <1>3

\* The items of a list by their places.
LEMMA PlaceFacts ==
  ASSUME TreeInv, NEW o \in allocated
  PROVE  /\ List(o) \in Seq(allocated) /\ Len(List(o)) \in Nat
         /\ \A n \in Members(o) : \E i \in 1..Len(List(o)) : n = List(o)[i]
         /\ \A i \in 1..Len(List(o)) : List(o)[i] \in Members(o) /\ List(o)[i] \in allocated
         /\ \A i, j \in 1..Len(List(o)) : List(o)[i] = List(o)[j] => i = j
         /\ child[o] = IF Len(List(o)) = 0 THEN NULL ELSE List(o)[1]
         /\ \A i \in 1..Len(List(o)) :
              /\ next[List(o)[i]] = IF i = Len(List(o)) THEN NULL ELSE List(o)[i + 1]
              /\ prev[List(o)[i]] = IF i = 1 THEN NULL ELSE List(o)[i - 1]
<1>. DEFINE s == List(o)
            N == Len(s)
<1>1. s \in Seq(allocated) /\ Chain(s, child[o], next) /\ IsInjective(s) /\ ToSet(s) = Members(o)
  BY ListChain, ListItems
<1>. HIDE DEF s
<1>2. /\ N \in Nat /\ DOMAIN s = 1..N /\ \A i \in 1..N : s[i] \in allocated
      /\ TypeOK /\ NULL \notin allocated
  BY <1>1, LenProperties, ElementOfSeq, PointerTypes DEF TreeInv
<1>3. /\ child[o] = IF N = 0 THEN NULL ELSE s[1]
      /\ \A i \in 1..N : next[s[i]] = IF i = N THEN NULL ELSE s[i + 1]
  BY <1>1 DEF Chain
<1>. HIDE DEF N
<1>4. /\ \A n \in Members(o) : \E i \in 1..N : n = s[i]
      /\ \A i \in 1..N : s[i] \in Members(o)
      /\ \A i, j \in 1..N : s[i] = s[j] => i = j
  BY <1>1, <1>2 DEF ToSet, IsInjective
<1>5. ASSUME NEW i \in 1..N
      PROVE  prev[s[i]] = IF i = 1 THEN NULL ELSE s[i - 1]
  <2>1. CASE i = 1
    <3>1. child[o] = s[1] /\ child[o] # NULL
      BY <1>2, <1>3, <2>1
    <3>. QED  BY <2>1, <3>1 DEF TreeInv, Linked
  <2>2. CASE i # 1
    <3>1. i - 1 \in 1..N /\ i - 1 # N /\ (i - 1) + 1 = i
      BY <1>2, <2>2
    <3>2. next[s[i - 1]] = s[i] /\ s[i - 1] \in allocated /\ s[i] # NULL
      BY <1>2, <1>3, <3>1
    <3>. QED  BY <2>2, <3>2 DEF TreeInv, Linked
  <2>. QED  BY <2>1, <2>2
<1>. QED  BY <1>1, <1>2, <1>3, <1>4, <1>5 DEF s, N

\* An item of a list has a place in it.
LEMMA PlaceOf ==
  ASSUME TreeInv, NEW o \in allocated, NEW n \in Members(o)
  PROVE  \E i \in 1..Len(List(o)) : n = List(o)[i]
BY PlaceFacts

\* An item is in one list at most.
LEMMA ListsApart ==
  ASSUME TreeInv, NEW o \in allocated, NEW q \in allocated, NEW x \in Members(o), x \in Members(q)
  PROVE  o = q
<1>. DEFINE s == List(o)
            N == Len(s)
            Shared == {i \in 1..N : s[i] \in Members(q)}
<1>1. /\ N \in Nat
      /\ \E i \in 1..N : x = s[i]
      /\ \A i \in 1..N : /\ s[i] \in allocated
                         /\ prev[s[i]] = IF i = 1 THEN NULL ELSE s[i - 1]
      /\ child[o] = IF N = 0 THEN NULL ELSE s[1]
      /\ NULL \notin allocated
  BY PlaceFacts, PointerTypes DEF TreeInv
<1>. HIDE DEF s, N
<1>2. PICK i \in Shared : \A j \in Shared : i <= j
  <2>1. Shared \in SUBSET Nat /\ Shared # {}
    BY <1>1
  <2>. HIDE DEF Shared
  <2>. QED  BY <2>1, Least
<1>3. CASE i = 1
  <2>1. child[o] = s[1] /\ prev[s[1]] = NULL /\ s[1] \in Members(q)
    BY <1>1, <1>2, <1>3
  <2>2. s[1] = child[q]
    BY <1>1, <2>1, MembersFacts
  <2>. QED  BY <1>1, <1>2, <1>3, <2>1, <2>2 DEF TreeInv, Owned
<1>4. CASE i # 1
  <2>1. i - 1 \in 1..N /\ i - 1 \notin Shared /\ prev[s[i]] = s[i - 1]
    BY <1>1, <1>2, <1>4
  <2>2. s[i] # child[q]
    <3>1. prev[s[i]] # NULL
      BY <1>1, <2>1
    <3>. QED  BY <1>1, <1>2, <3>1 DEF TreeInv, Linked
  <2>3. s[i - 1] \in Members(q)
    BY <1>2, <2>1, <2>2, MembersFacts
  <2>. QED  BY <2>1, <2>3
<1>. QED  BY <1>3, <1>4

\* A list stays as it is if its head and the links of its items do.
LEMMA ListKept ==
  ASSUME TreeInv, TreeInv', NEW x \in allocated, x \in allocated', child'[x] = child[x],
         \A n \in Members(x) : next'[n] = next[n]
  PROVE  List(x)' = List(x)
<1>. DEFINE s == List(x)
<1>1. Chain(s, child[x], next) /\ \A j \in 1..Len(s) : s[j] \in Members(x)
  BY ListChain, PlaceFacts
<1>. HIDE DEF s
<1>2. Chain(s, child'[x], next')
  BY <1>1 DEF Chain
<1>3. (\A o \in allocated : \A t : Chain(t, child[o], next) => List(o) = t)'
  BY ListIsNext
<1>4. List(x)' = s
  BY <1>2, <1>3
<1>. QED  BY <1>4 DEF s

\* The list of an item of a tree is in the tree.
LEMMA TreeLists ==
  ASSUME TreeInv, NEW n \in allocated, NEW x \in Tree(n)
  PROVE  Members(x) \subseteq Tree(n)
<1>. SUFFICES ASSUME child[x] # NULL
              PROVE  From(child[x]) \subseteq Tree(n)
  BY DEF Members
<1>1. TypeOK /\ n \in Items /\ child[n] \in Items \union {NULL}
  BY PointerTypes DEF TreeInv
<1>2. child[n] # NULL /\ child[n] \in Items
  BY <1>1 DEF Tree
<1>3. child[x] \in Deleted(child[n])
  BY <1>1, <1>2, DeletedClosed, DeletedNext DEF Tree
<1>4. From(child[x]) \subseteq Deleted(child[n])
  BY <1>1, <1>2, <1>3, FromDeleted
<1>. QED  BY <1>2, <1>4 DEF Tree

\* What is inside an item is its tree.
LEMMA InsideTree ==
  ASSUME TreeInv, Blank, NEW n \in allocated
  PROVE  Objects!Inside(n) = Tree(n)
<1>. DEFINE content == [o \in Items |-> List(o)]
            Closed(S) == n \in S /\ \A o \in S : Members(o) \subseteq S
<1>1. /\ TypeOK /\ n \in Items /\ child[n] \in Items \union {NULL} /\ Tree(n) \in SUBSET Items
      /\ allocated \subseteq Items
  BY PointerTypes, TreeFacts DEF TreeInv
<1>2. \A o \in Items : ToSet(content[o]) = Members(o)
  BY ListSet
<1>3. Objects!Inside(n) = {p \in Items : \A S \in SUBSET Items : Closed(S) => p \in S}
  <2>1. \A S \in SUBSET Items :
          Closed(S) <=> n \in S /\ \A o \in S : ToSet(content[o]) \subseteq S
    BY <1>2
  <2>. HIDE DEF Closed
  <2>2. Objects!Inside(n) =
          {p \in Items : \A S \in {S \in SUBSET Items :
                           n \in S /\ \A o \in S : ToSet(content[o]) \subseteq S} : p \in S}
    BY DEF Objects!Inside, Objects!ToSet, ToSet
  <2>. HIDE DEF content
  <2>. QED  BY <2>1, <2>2
<1>4. Closed(Tree(n))
  BY TreeLists, TreeFacts
<1>5. ASSUME NEW S \in SUBSET Items, Closed(S)
      PROVE  Tree(n) \subseteq S
  <2>. DEFINE Q == {x \in S : \E y \in S : x \in Members(y) /\ child[y] # NULL}
  <2>. SUFFICES ASSUME child[n] # NULL
                PROVE  Deleted(child[n]) \subseteq S
    BY <1>5 DEF Tree
  <2>1. \A y \in S : child[y] # NULL => child[y] \in Members(y) /\ child[y] \in Items
    <3>1. \A y \in S : child[y] # NULL => child[y] \in Items
      BY <1>1, PointerTypes DEF Pointers
    <3>. QED  BY <3>1, FromClosed DEF Members
  <2>2. child[n] \in Q /\ Q \in SUBSET Items
    BY <1>5, <2>1
  <2>3. ASSUME NEW x \in Q
        PROVE  /\ next[x] # NULL => next[x] \in Q
               /\ child[x] # NULL => child[x] \in Q
    <3>1. PICK y \in S : x \in From(child[y]) /\ child[y] # NULL /\ Members(y) = From(child[y])
      BY DEF Members
    <3>2. next[x] # NULL => next[x] \in Members(y)
      BY <1>1, <2>1, <3>1, FromNext
    <3>3. Members(y) \subseteq S
      BY <1>5
    <3>4. child[x] # NULL => child[x] \in Q
      BY <1>5, <2>1
    <3>. QED  BY <3>1, <3>2, <3>3, <3>4
  <2>. HIDE DEF Q
  <2>4. Deleted(child[n]) \subseteq Q
    BY <2>2, <2>3, DeletedLeast
  <2>. QED  BY <2>4 DEF Q
<1>. QED  BY <1>1, <1>3, <1>4, <1>5

\* Nothing follows an item that is in no list: what is deleted with it is its tree.
LEMMA LooseTree ==
  ASSUME TreeInv, NEW r, Loose(r)
  PROVE  Deleted(r) = Tree(r)
<1>1. /\ TypeOK /\ r \in allocated /\ r \in Items /\ next[r] = NULL
      /\ child[r] \in Items \union {NULL} /\ Tree(r) \in SUBSET Items
  BY PointerTypes, LooseFacts, TreeFacts DEF TreeInv
<1>2. Deleted(r) \subseteq Tree(r)
  <2>1. r \in Tree(r)
    BY DEF Tree
  <2>2. ASSUME NEW x \in Tree(r)
        PROVE  /\ next[x] # NULL => next[x] \in Tree(r)
               /\ child[x] # NULL => child[x] \in Tree(r)
    <3>1. CASE child[r] = NULL
      BY <1>1, <2>2, <3>1 DEF Tree
    <3>2. CASE child[r] # NULL
      BY <1>1, <2>2, <3>2, DeletedClosed, DeletedNext DEF Tree
    <3>. QED  BY <3>1, <3>2
  <2>. QED  BY <1>1, <2>1, <2>2, DeletedLeast
<1>3. Tree(r) \subseteq Deleted(r)
  <2>1. r \in Deleted(r) /\ Deleted(r) \in SUBSET Items
    BY <1>1, DeletedClosed
  <2>2. ASSUME child[r] # NULL
        PROVE  Deleted(child[r]) \subseteq Deleted(r)
    <3>1. child[r] \in Items /\ child[r] \in Deleted(r)
      BY <1>1, <2>1, <2>2, DeletedNext
    <3>. QED  BY <1>1, <2>1, <3>1, DeletedNext, DeletedLeast
  <2>. QED  BY <2>1, <2>2 DEF Tree
<1>. QED  BY <1>2, <1>3

\* An item that is in no list is a member of none.
LEMMA LooseUnlisted ==
  ASSUME TreeInv, NEW r, Loose(r), NEW x \in allocated
  PROVE  r \notin Members(x)
<1>. SUFFICES ASSUME r \in Members(x)
              PROVE  FALSE
  OBVIOUS
<1>1. r # child[x] /\ prev[r] = NULL /\ NULL \notin allocated
  BY LooseFacts, PointerTypes DEF TreeInv
<1>2. prev[r] \in allocated
  BY <1>1, MembersFacts
<1>. QED  BY <1>1, <1>2

\* An item that may be put into o is free for the sequences as well.
LEMMA MayAddFree ==
  ASSUME TreeInv, Blank, NEW o, NEW r, MayAdd(o, r)
  PROVE  Objects!Free(r, o)
<1>1. /\ r \in allocated /\ o \in allocated /\ Loose(r) /\ o \notin Tree(r)
      /\ allocated \subseteq Items
  BY LooseTree, PointerTypes DEF MayAdd, Loose, TreeInv
<1>2. \A x \in allocated : r \notin Members(x)
  BY <1>1, LooseUnlisted
<1>3. Objects!Root(r)
  <2>1. \A x \in allocated : ToSet([o_1 \in Items |-> List(o_1)][x]) = Members(x)
    BY <1>1, ListSet
  <2>. QED  BY <1>1, <1>2, <2>1 DEF Objects!Root, Objects!ToSet, ToSet
<1>. QED  BY <1>1, <1>3, InsideTree DEF Objects!Free

-----------------------------------------------------------------------------
(* What the surgery does to the sequences.                                 *)

\* What InsertAt makes of a sequence, place by place ...
LEMMA Inserted ==
  ASSUME NEW S, NEW s \in Seq(S), NEW e \in S, NEW i \in 1..Len(s) + 1
  PROVE  /\ InsertAt(s, i, e) \in Seq(S) /\ Len(InsertAt(s, i, e)) = Len(s) + 1
         /\ \A j \in 1..Len(s) + 1 :
              InsertAt(s, i, e)[j] = IF j < i THEN s[j] ELSE IF j = i THEN e ELSE s[j - 1]
<1>. DEFINE a == SubSeq(s, 1, i - 1)
            b == SubSeq(s, i, Len(s))
<1>1. Len(s) \in Nat /\ i \in Nat \ {0} /\ i - 1 <= Len(s)
  BY LenProperties
<1>2. /\ a \in Seq(S) /\ Len(a) = i - 1
      /\ \A j \in 1..i - 1 : a[j] = s[j]
  BY <1>1
<1>3. /\ b \in Seq(S) /\ Len(b) = Len(s) - i + 1
      /\ \A j \in 1..Len(s) - i + 1 : b[j] = s[i + j - 1]
  BY <1>1
<1>. HIDE DEF a, b
<1>4. /\ a \o <<e>> \in Seq(S) /\ Len(a \o <<e>>) = i
      /\ \A j \in 1..i : (a \o <<e>>)[j] = IF j < i THEN s[j] ELSE e
  BY <1>1, <1>2
<1>. DEFINE c == a \o <<e>>
<1>5. InsertAt(s, i, e) = c \o b
  BY DEF InsertAt, a, b
<1>6. /\ c \in Seq(S) /\ b \in Seq(S) /\ Len(c) = i /\ Len(b) = Len(s) - i + 1
  BY <1>3, <1>4
<1>. HIDE DEF c
<1>7. /\ c \o b \in Seq(S) /\ Len(c \o b) = Len(s) + 1
      /\ \A j \in 1..Len(s) + 1 : (c \o b)[j] = IF j <= i THEN c[j] ELSE b[j - i]
  BY <1>1, <1>6
<1>8. ASSUME NEW j \in 1..Len(s) + 1
      PROVE  (c \o b)[j] = IF j < i THEN s[j] ELSE IF j = i THEN e ELSE s[j - 1]
  <2>1. CASE j <= i
    <3>1. j \in 1..i
      BY <1>1, <2>1
    <3>2. c[j] = IF j < i THEN s[j] ELSE e
      BY <1>4, <3>1 DEF c
    <3>. QED  BY <1>1, <1>7, <2>1, <3>2
  <2>2. CASE ~ (j <= i)
    <3>1. j - i \in 1..Len(s) - i + 1 /\ i + (j - i) - 1 = j - 1
      BY <1>1, <2>2
    <3>2. b[j - i] = s[j - 1]
      BY <1>3, <3>1
    <3>. QED  BY <1>1, <1>7, <2>2, <3>2
  <2>. QED  BY <2>1, <2>2
<1>. QED  BY <1>5, <1>7, <1>8

\* ... and RemoveAt.
LEMMA Removed ==
  ASSUME NEW S, NEW s \in Seq(S), NEW i \in 1..Len(s)
  PROVE  /\ RemoveAt(s, i) \in Seq(S) /\ Len(RemoveAt(s, i)) = Len(s) - 1
         /\ \A j \in 1..Len(s) - 1 : RemoveAt(s, i)[j] = IF j < i THEN s[j] ELSE s[j + 1]
<1>. DEFINE a == SubSeq(s, 1, i - 1)
            b == SubSeq(s, i + 1, Len(s))
<1>1. Len(s) \in Nat /\ i \in Nat \ {0} /\ i - 1 <= Len(s)
  BY LenProperties
<1>2. /\ a \in Seq(S) /\ Len(a) = i - 1
      /\ \A j \in 1..i - 1 : a[j] = s[j]
  BY <1>1
<1>3. /\ b \in Seq(S) /\ Len(b) = Len(s) - i
      /\ \A j \in 1..Len(s) - i : b[j] = s[i + j]
  BY <1>1
<1>4. RemoveAt(s, i) = a \o b
  BY DEF RemoveAt
<1>. HIDE DEF a, b
<1>5. /\ a \o b \in Seq(S) /\ Len(a \o b) = Len(s) - 1
      /\ \A j \in 1..Len(s) - 1 : (a \o b)[j] = IF j <= i - 1 THEN a[j] ELSE b[j - (i - 1)]
  <2>1. a \in Seq(S) /\ b \in Seq(S) /\ Len(a) = i - 1 /\ Len(b) = Len(s) - i
    BY <1>2, <1>3
  <2>. QED  BY <1>1, <2>1
<1>6. ASSUME NEW j \in 1..Len(s) - 1
      PROVE  (a \o b)[j] = IF j < i THEN s[j] ELSE s[j + 1]
  <2>1. CASE j < i
    <3>1. j \in 1..i - 1 /\ j <= i - 1
      BY <1>1, <2>1
    <3>. QED  BY <1>2, <1>5, <2>1, <3>1
  <2>2. CASE ~ (j < i)
    <3>1. j - (i - 1) \in 1..Len(s) - i /\ i + (j - (i - 1)) = j + 1 /\ ~ (j <= i - 1)
      BY <1>1, <2>2
    <3>. QED  BY <1>3, <1>5, <2>2, <3>1
  <2>. QED  BY <2>1, <2>2
<1>. QED  BY <1>4, <1>5, <1>6

\* The item r is put before the i-th item of o, or at the end: the other lists stay.
LEMMA PutList ==
  ASSUME TreeInv, TreeInv', NEW o \in allocated, NEW r \in allocated, MayAdd(o, r),
         allocated' = allocated, NEW i \in 1..Len(List(o)) + 1,
         \A x \in allocated :
           /\ child'[x] = IF i = 1 /\ x = o THEN r ELSE child[x]
           /\ next'[x] = IF x = r THEN IF i = Len(List(o)) + 1 THEN NULL ELSE List(o)[i]
                         ELSE IF i # 1 /\ x = List(o)[i - 1] THEN r ELSE next[x]
  PROVE  /\ List(o)' = InsertAt(List(o), i, r)
         /\ \A x \in allocated \ {o} : List(x)' = List(x)
<1>. DEFINE s == List(o)
            N == Len(s)
            t == InsertAt(s, i, r)
<1>1. /\ s \in Seq(allocated) /\ N \in Nat /\ allocated \subseteq Items
      /\ \A j \in 1..N : s[j] \in Members(o) /\ s[j] \in allocated
      /\ \A j, k \in 1..N : s[j] = s[k] => j = k
      /\ child[o] = IF N = 0 THEN NULL ELSE s[1]
      /\ \A j \in 1..N : next[s[j]] = IF j = N THEN NULL ELSE s[j + 1]
  BY PlaceFacts, PointerTypes DEF TreeInv
<1>2. \A x \in allocated : Members(x) \subseteq allocated /\ r \notin Members(x)
  <2>. SUFFICES ASSUME NEW x \in allocated
                PROVE  Members(x) \subseteq allocated /\ r \notin Members(x)
    OBVIOUS
  <2>1. Members(x) \subseteq allocated
    BY MembersFacts
  <2>2. r \notin Members(x)
    BY LooseUnlisted DEF MayAdd
  <2>. QED  BY <2>1, <2>2
<1>3. /\ t \in Seq(Items) /\ Len(t) = N + 1
      /\ \A j \in 1..N + 1 : t[j] = IF j < i THEN s[j] ELSE IF j = i THEN r ELSE s[j - 1]
  <2>1. s \in Seq(Items) /\ r \in Items /\ i \in 1..Len(s) + 1
    BY <1>1
  <2>. HIDE DEF s
  <2>. QED  BY <2>1, Inserted
<1>4. \A x \in allocated :
        /\ child'[x] = IF i = 1 /\ x = o THEN r ELSE child[x]
        /\ next'[x] = IF x = r THEN IF i = N + 1 THEN NULL ELSE s[i]
                      ELSE IF i # 1 /\ x = s[i - 1] THEN r ELSE next[x]
  OBVIOUS
<1>. HIDE DEF s, t
<1>5. /\ i \in Nat \ {0} /\ i <= N + 1 /\ \A j \in 1..N : s[j] # r
      /\ \A x \in allocated \ {o} : \A n \in Members(x) : i # 1 => n # s[i - 1]
  <2>1. i # 1 => i - 1 \in 1..N
    BY <1>1 DEF s
  <2>2. \A x \in allocated \ {o} : Members(x) \cap Members(o) = {}
    BY ListsApart
  <2>. QED  BY <1>1, <1>2, <2>1, <2>2 DEF s
<1>6. Chain(t, child'[o], next')
  <2>1. child'[o] = IF Len(t) = 0 THEN NULL ELSE t[1]
    <3>1. 1 \in 1..N + 1 /\ Len(t) # 0 /\ (i # 1 => N # 0 /\ 1 < i)
      BY <1>1, <1>3, <1>5
    <3>2. t[1] = IF 1 < i THEN s[1] ELSE IF 1 = i THEN r ELSE s[1 - 1]
      BY <1>3, <3>1
    <3>. QED  BY <1>1, <1>4, <1>5, <3>1, <3>2
  <2>2. ASSUME NEW j \in 1..Len(t)
        PROVE  next'[t[j]] = IF j = Len(t) THEN NULL ELSE t[j + 1]
    <3>0. /\ j \in 1..N + 1
          /\ t[j] = IF j < i THEN s[j] ELSE IF j = i THEN r ELSE s[j - 1]
          /\ j # N + 1 => /\ j + 1 \in 1..N + 1
                          /\ t[j + 1] = IF j + 1 < i THEN s[j + 1]
                                        ELSE IF j + 1 = i THEN r ELSE s[(j + 1) - 1]
      <4>1. j \in 1..N + 1 /\ (j # N + 1 => j + 1 \in 1..N + 1)
        BY <1>1, <1>3
      <4>. QED  BY <1>3, <4>1
    <3>1. CASE j = i
      <4>1. t[j] = r /\ r \in allocated /\ (j + 1) - 1 = j /\ ~ (j + 1 < i) /\ j + 1 # i
        BY <1>5, <3>0, <3>1
      <4>. QED  BY <1>3, <1>4, <3>0, <3>1, <4>1
    <3>2. CASE j < i
      <4>1. t[j] = s[j] /\ j \in 1..N /\ j # N + 1 /\ s[j] \in allocated /\ s[j] # r
        BY <1>1, <1>5, <3>0, <3>2
      <4>2. next'[s[j]] = IF i # 1 /\ s[j] = s[i - 1] THEN r ELSE next[s[j]]
        BY <1>4, <4>1
      <4>3. CASE j + 1 = i
        <5>1. i # 1 /\ i - 1 = j /\ ~ (j + 1 < i)
          BY <1>5, <3>2, <4>3
        <5>. QED  BY <1>3, <3>0, <4>1, <4>2, <4>3, <5>1
      <4>4. CASE j + 1 # i
        <5>1. j + 1 < i /\ i - 1 \in 1..N /\ i - 1 # j /\ j # N
          BY <1>1, <1>5, <3>2, <4>4, <4>1
        <5>2. next'[s[j]] = s[j + 1]
          BY <1>1, <4>1, <4>2, <5>1
        <5>. QED  BY <1>3, <3>0, <4>1, <5>1, <5>2
      <4>. QED  BY <4>3, <4>4
    <3>3. CASE i < j
      <4>1. /\ t[j] = s[j - 1] /\ j - 1 \in 1..N /\ s[j - 1] \in allocated /\ s[j - 1] # r
            /\ (j - 1) + 1 = j /\ (j + 1) - 1 = j /\ ~ (j + 1 < i) /\ j + 1 # i
            /\ j - 1 = N <=> j = N + 1
        BY <1>1, <1>5, <3>0, <3>3
      <4>2. i # 1 => i - 1 \in 1..N /\ i - 1 # j - 1
        BY <1>1, <1>5, <3>3
      <4>3. next'[s[j - 1]] = next[s[j - 1]]
        BY <1>1, <1>4, <4>1, <4>2
      <4>4. next[s[j - 1]] = IF j - 1 = N THEN NULL ELSE s[(j - 1) + 1]
        BY <1>1, <4>1
      <4>. QED  BY <1>3, <3>0, <4>1, <4>3, <4>4
    <3>. QED  BY <1>5, <3>0, <3>1, <3>2, <3>3
  <2>. QED  BY <1>3, <2>1, <2>2 DEF Chain
<1>7. List(o)' = t
  BY <1>6, ListIsNext
<1>8. \A x \in allocated \ {o} : List(x)' = List(x)
  <2>. SUFFICES ASSUME NEW x \in allocated \ {o}
                PROVE  List(x)' = List(x)
    OBVIOUS
  <2>1. child'[x] = child[x] /\ \A n \in Members(x) : next'[n] = next[n]
    BY <1>2, <1>4, <1>5
  <2>. QED  BY <2>1, ListKept
<1>. QED  BY <1>7, <1>8 DEF s, t

\* The list of an object that is not freed has nothing of a tree that is freed, unless
\* the root of the tree is in it.
LEMMA ListOutsideTree ==
  ASSUME TreeInv, NEW item \in allocated, NEW x \in allocated \ Tree(item), item \notin Members(x)
  PROVE  Members(x) \cap Tree(item) = {}
<1>. DEFINE Kept == Members(x) \ Tree(item)
<1>. SUFFICES ASSUME child[x] # NULL
              PROVE  From(child[x]) \subseteq Kept
  BY DEF Members
<1>1. /\ TypeOK /\ child[x] \in Members(x) /\ child[x] \in Items
      /\ Members(x) \subseteq allocated /\ allocated \subseteq Items
  BY MembersFacts, PointerTypes DEF TreeInv
<1>2. Kept \in SUBSET Items /\ child[x] \in Kept
  BY <1>1, TreeFacts
<1>3. \A n \in Kept : next[n] # NULL => next[n] \in Kept
  <2>. SUFFICES ASSUME NEW n \in Kept, next[n] # NULL
                PROVE  next[n] \in Kept
    OBVIOUS
  <2>1. next[n] \in Members(x) /\ n \in allocated \ Tree(item)
    BY <1>1, MembersFacts
  <2>2. next[n] \notin Tree(item)
    BY <2>1, TreeFacts
  <2>. QED  BY <2>1, <2>2
<1>. HIDE DEF Kept
<1>. QED  BY <1>1, <1>2, <1>3, FromLeast

\* The object of a list is outside the trees of its items.
LEMMA OwnerOutside ==
  ASSUME TreeInv, NEW o \in allocated, NEW item \in Members(o)
  PROVE  o \notin Tree(item)
<1>. SUFFICES ASSUME o \in Tree(item)
              PROVE  FALSE
  OBVIOUS
<1>0. /\ TypeOK /\ child[o] # NULL /\ item \in allocated /\ child[o] \in Items
      /\ Members(o) = From(child[o]) /\ child[item] \in Items \union {NULL}
  BY MembersFacts, PointerTypes DEF TreeInv, Members
<1>1. child[item] # NULL /\ child[item] \in allocated /\ child[item] \in Items
  BY <1>0, PointerTypes DEF Tree
<1>2. child[o] \in Deleted(child[item])
  <2>1. CASE o = item
    BY <1>0, <1>1, <2>1, DeletedClosed
  <2>2. CASE o # item
    BY <1>0, <1>1, <2>2, DeletedNext DEF Tree
  <2>. QED  BY <2>1, <2>2
<1>3. item \in Deleted(child[item])
  BY <1>0, <1>1, <1>2, FromDeleted
<1>. QED  BY <1>0, <1>1, <1>3, NotInsideItself

\* In the list of a tree that is freed only the root of the tree goes.
LEMMA ListApartFromTree ==
  ASSUME TreeInv, NEW o \in allocated, NEW item \in Members(o), NEW n \in Members(o), n # item
  PROVE  n \notin Tree(item)
<1>. DEFINE s == List(o)
            N == Len(s)
            Late == {j \in 1..N : s[j] # item /\ s[j] \in Tree(item)}
<1>. SUFFICES ASSUME n \in Tree(item)
              PROVE  FALSE
  OBVIOUS
<1>1. /\ N \in Nat /\ item \in allocated
      /\ \A j \in 1..N : s[j] \in Members(o) /\ s[j] \in allocated
      /\ child[o] = IF N = 0 THEN NULL ELSE s[1]
      /\ \A j \in 1..N : next[s[j]] = IF j = N THEN NULL ELSE s[j + 1]
      /\ \E j \in 1..N : n = s[j]
  BY PlaceFacts, MembersFacts
<1>. HIDE DEF s, N
<1>2. PICK j \in Late : \A k \in Late : j <= k
  <2>1. Late \in SUBSET Nat /\ Late # {}
    BY <1>1
  <2>. HIDE DEF Late
  <2>. QED  BY <2>1, Least
<1>3. /\ next[item] \notin Tree(item)
      /\ \A x \in allocated \ Tree(item) : /\ next[x] \in Tree(item) => next[x] = item
                                           /\ child[x] \in Tree(item) => child[x] = item
  BY <1>1, TreeFacts
<1>4. CASE j = 1
  BY <1>1, <1>2, <1>3, <1>4, OwnerOutside
<1>5. CASE j # 1
  <2>1. j - 1 \in 1..N /\ j - 1 \notin Late /\ (j - 1) + 1 = j /\ j - 1 # N
    BY <1>1, <1>2, <1>5
  <2>2. next[s[j - 1]] = s[j] /\ s[j - 1] \in allocated
    BY <1>1, <2>1
  <2>3. s[j - 1] # item
    BY <1>2, <1>3, <2>2
  <2>4. s[j - 1] \notin Tree(item)
    BY <2>1, <2>3
  <2>. QED  BY <1>2, <1>3, <2>2, <2>4
<1>. QED  BY <1>4, <1>5

\* The i-th item of o is detached and perhaps freed: the lists that are left stay.
LEMMA DetachList ==
  ASSUME TreeInv, TreeInv', NEW o \in allocated, NEW i \in 1..Len(List(o)),
         NEW gone \in {{}, Tree(List(o)[i])},
         DetachItemViaPointer(o, List(o)[i], gone)
  PROVE  /\ List(o)' = RemoveAt(List(o), i)
         /\ \A x \in allocated \ (gone \union {o}) : List(x)' = List(x)
<1>. DEFINE s == List(o)
            N == Len(s)
            item == s[i]
            t == RemoveAt(s, i)
<1>1. /\ s \in Seq(allocated) /\ N \in Nat /\ allocated \subseteq Items /\ NULL \notin allocated
      /\ \A j \in 1..N : s[j] \in Members(o) /\ s[j] \in allocated
      /\ \A j, k \in 1..N : s[j] = s[k] => j = k
      /\ child[o] = IF N = 0 THEN NULL ELSE s[1]
      /\ \A j \in 1..N : /\ next[s[j]] = IF j = N THEN NULL ELSE s[j + 1]
                         /\ prev[s[j]] = IF j = 1 THEN NULL ELSE s[j - 1]
  BY PlaceFacts, PointerTypes DEF TreeInv
<1>2. /\ t \in Seq(Items) /\ Len(t) = N - 1
      /\ \A j \in 1..N - 1 : t[j] = IF j < i THEN s[j] ELSE s[j + 1]
  <2>1. s \in Seq(Items) /\ i \in 1..Len(s)
    BY <1>1
  <2>. HIDE DEF s
  <2>. QED  BY <2>1, Removed
<1>3. item \in Members(o) /\ item \in allocated /\ o \notin gone
  BY <1>1, OwnerOutside
<1>4. /\ allocated' = allocated \ gone
      /\ child' = Cleared(DetachedChild(o, item), gone)
      /\ next' = Cleared(DetachedNext(item), gone)
  BY DEF DetachItemViaPointer, DetachedChild, DetachedNext
<1>5. \A x \in allocated :
        /\ DetachedChild(o, item)[x] = IF x = o /\ item = child[o] THEN next[item] ELSE child[x]
        /\ DetachedNext(item)[x] = IF x = item THEN NULL
                                   ELSE IF x = prev[item] THEN next[item] ELSE next[x]
  BY <1>3, DetachedFields
<1>6. \A x \in allocated \ gone :
        /\ child'[x] = IF x = o /\ item = child[o] THEN next[item] ELSE child[x]
        /\ next'[x] = IF x = item THEN NULL
                      ELSE IF x = prev[item] THEN next[item] ELSE next[x]
  BY <1>1, <1>4, <1>5 DEF Cleared
<1>7. \A n \in Members(o) : n # item => n \notin gone
  BY <1>3, ListApartFromTree
<1>8. \A x \in allocated \ {o} : \A n \in Members(x) : n # item /\ n # prev[item]
  <2>1. prev[item] # NULL => prev[item] \in Members(o)
    BY <1>3, Neighbours
  <2>2. ASSUME NEW x \in allocated \ {o}, NEW n \in Members(x)
        PROVE  n \notin Members(o) /\ n \in allocated
    BY <2>2, ListsApart, MembersFacts
  <2>. QED  BY <1>1, <1>3, <2>1, <2>2
<1>. HIDE DEF s, N, t
<1>9. item = s[i] /\ i \in 1..N /\ item \in allocated
  BY <1>3 DEF s, N
<1>. HIDE DEF item
<1>10. Chain(t, child'[o], next')
  <2>1. child'[o] = IF Len(t) = 0 THEN NULL ELSE t[1]
    <3>1. child'[o] = IF item = child[o] THEN next[item] ELSE child[o]
      BY <1>3, <1>6
    <3>2. item = child[o] <=> i = 1
      BY <1>1, <1>9
    <3>3. CASE i = 1
      <4>1. next[item] = IF 1 = N THEN NULL ELSE s[1 + 1]
        BY <1>1, <1>9, <3>3
      <4>2. CASE N = 1
        BY <1>2, <3>1, <3>2, <3>3, <4>1, <4>2
      <4>3. CASE N # 1
        <5>1. 1 \in 1..N - 1 /\ ~ (1 < i) /\ Len(t) # 0
          BY <1>1, <1>2, <1>9, <3>3, <4>3
        <5>. QED  BY <1>2, <3>1, <3>2, <3>3, <4>1, <4>3, <5>1
      <4>. QED  BY <4>2, <4>3
    <3>4. CASE i # 1
      <4>1. 1 \in 1..N - 1 /\ 1 < i /\ N # 0 /\ Len(t) # 0
        BY <1>1, <1>2, <1>9, <3>4
      <4>. QED  BY <1>1, <1>2, <3>1, <3>2, <3>4, <4>1
    <3>. QED  BY <3>3, <3>4
  <2>2. ASSUME NEW j \in 1..Len(t)
        PROVE  next'[t[j]] = IF j = Len(t) THEN NULL ELSE t[j + 1]
    <3>1. /\ j \in 1..N - 1 /\ j \in 1..N /\ j + 1 \in 1..N /\ j # N
          /\ t[j] = IF j < i THEN s[j] ELSE s[j + 1]
          /\ j # N - 1 => t[j + 1] = IF j + 1 < i THEN s[j + 1] ELSE s[(j + 1) + 1]
      <4>1. j \in 1..N - 1 /\ (j # N - 1 => j + 1 \in 1..N - 1)
        BY <1>1, <1>2
      <4>2. j \in 1..N /\ j + 1 \in 1..N /\ j # N
        BY <1>1, <4>1
      <4>. QED  BY <1>2, <4>1, <4>2
    <3>2. prev[item] = IF i = 1 THEN NULL ELSE s[i - 1]
      BY <1>1, <1>9
    <3>3. next[item] = IF i = N THEN NULL ELSE s[i + 1]
      BY <1>1, <1>9
    <3>4. \A k \in 1..N : k # i =>
             next'[s[k]] = IF k + 1 = i THEN next[item] ELSE next[s[k]]
      <4>. SUFFICES ASSUME NEW k \in 1..N, k # i
                    PROVE  next'[s[k]] = IF k + 1 = i THEN next[item] ELSE next[s[k]]
        OBVIOUS
      <4>1. s[k] \in allocated /\ s[k] # item /\ s[k] \notin gone
        BY <1>1, <1>7, <1>9
      <4>2. next'[s[k]] = IF s[k] = prev[item] THEN next[item] ELSE next[s[k]]
        BY <1>6, <4>1
      <4>3. s[k] = prev[item] <=> k + 1 = i
        <5>1. CASE i = 1
          BY <1>1, <3>2, <4>1, <5>1
        <5>2. CASE i # 1
          <6>1. i - 1 \in 1..N /\ (k = i - 1 <=> k + 1 = i)
            BY <1>1, <1>9, <5>2
          <6>. QED  BY <1>1, <3>2, <5>2, <6>1
        <5>. QED  BY <5>1, <5>2
      <4>. QED  BY <4>2, <4>3
    <3>5. CASE j < i
      <4>1. t[j] = s[j] /\ j # i
        BY <1>9, <3>1, <3>5
      <4>2. next'[s[j]] = IF j + 1 = i THEN next[item] ELSE next[s[j]]
        BY <3>1, <3>4, <4>1
      <4>3. CASE j + 1 = i
        <5>1. ~ (j + 1 < i) /\ (j = N - 1 <=> i = N) /\ i + 1 = (j + 1) + 1
          BY <1>1, <1>9, <3>1, <4>3
        <5>. QED  BY <1>2, <3>1, <3>3, <4>1, <4>2, <4>3, <5>1
      <4>4. CASE j + 1 # i
        <5>1. j + 1 < i /\ j # N - 1
          BY <1>1, <1>9, <3>1, <3>5, <4>4
        <5>2. next[s[j]] = s[j + 1]
          BY <1>1, <3>1
        <5>. QED  BY <1>2, <3>1, <4>1, <4>2, <4>4, <5>1, <5>2
      <4>. QED  BY <4>3, <4>4
    <3>6. CASE ~ (j < i)
      <4>1. t[j] = s[j + 1] /\ j + 1 # i /\ (j + 1) + 1 # i /\ ~ (j + 1 < i)
            /\ (j = N - 1 <=> j + 1 = N)
        BY <1>1, <1>9, <3>1, <3>6
      <4>2. next'[s[j + 1]] = next[s[j + 1]]
        BY <3>1, <3>4, <4>1
      <4>3. next[s[j + 1]] = IF j + 1 = N THEN NULL ELSE s[(j + 1) + 1]
        BY <1>1, <3>1
      <4>. QED  BY <1>2, <3>1, <4>1, <4>2, <4>3
    <3>. QED  BY <3>5, <3>6
  <2>. QED  BY <1>2, <2>1, <2>2 DEF Chain
<1>11. List(o)' = t
  <2>1. o \in allocated'
    BY <1>3, <1>4
  <2>. QED  BY <1>10, <2>1, ListIsNext
<1>12. \A x \in allocated \ (gone \union {o}) : List(x)' = List(x)
  <2>. SUFFICES ASSUME NEW x \in allocated \ (gone \union {o})
                PROVE  List(x)' = List(x)
    OBVIOUS
  <2>1. child'[x] = child[x] /\ x \in allocated'
    BY <1>4, <1>6
  <2>2. Members(x) \cap gone = {} /\ Members(x) \subseteq allocated
    <3>1. item \notin Members(x)
      BY <1>8
    <3>2. gone = {} \/ gone = Tree(item)
      BY DEF item, s
    <3>. QED  BY <1>9, <3>1, <3>2, ListOutsideTree, MembersFacts
  <2>3. \A n \in Members(x) : next'[n] = next[n]
    BY <1>6, <1>8, <2>2
  <2>. QED  BY <2>1, <2>3, ListKept
<1>. QED  BY <1>11, <1>12 DEF s, t

\* The item r takes the place of the i-th item of o, which is deleted.
LEMMA ReplaceList ==
  ASSUME TreeInv, TreeInv', NEW o \in allocated, NEW r \in allocated, MayAdd(o, r),
         NEW i \in 1..Len(List(o)), NEW named, ReplaceItemViaPointer(o, List(o)[i], r, named)
  PROVE  /\ List(o)' = [List(o) EXCEPT ![i] = r]
         /\ \A x \in allocated \ (Tree(List(o)[i]) \union {o}) : List(x)' = List(x)
<1>. DEFINE s == List(o)
            N == Len(s)
            item == s[i]
            gone == Tree(item)
            t == [s EXCEPT ![i] = r]
<1>1. /\ s \in Seq(allocated) /\ N \in Nat /\ allocated \subseteq Items /\ NULL \notin allocated
      /\ \A j \in 1..N : s[j] \in Members(o) /\ s[j] \in allocated
      /\ \A j, k \in 1..N : s[j] = s[k] => j = k
      /\ child[o] = IF N = 0 THEN NULL ELSE s[1]
      /\ \A j \in 1..N : /\ next[s[j]] = IF j = N THEN NULL ELSE s[j + 1]
                         /\ prev[s[j]] = IF j = 1 THEN NULL ELSE s[j - 1]
      /\ child \in [Items -> Pointers] /\ next \in [Items -> Pointers]
  BY PlaceFacts, PointerTypes DEF TreeInv
<1>2. t \in Seq(Items) /\ Len(t) = N /\ \A j \in 1..N : t[j] = IF j = i THEN r ELSE s[j]
  <2>1. s \in Seq(Items) /\ i \in 1..Len(s) /\ r \in Items
    BY <1>1
  <2>. HIDE DEF s
  <2>. QED  BY <2>1
<1>3. item \in Members(o) /\ item \in allocated /\ o \notin gone
  BY <1>1, OwnerOutside
<1>4. Loose(r) /\ \A x \in allocated : r \notin Members(x)
  <2>1. Loose(r)
    BY DEF MayAdd
  <2>. QED  BY <2>1, LooseUnlisted
<1>5. r # item /\ r \notin gone
  BY <1>3, <1>4, LooseOutside
<1>6. /\ allocated' = allocated \ gone
      /\ \A x \in allocated \ gone :
           /\ child'[x] = IF x = o /\ item = child[o] THEN r ELSE child[x]
           /\ next'[x] = IF x = r THEN next[item] ELSE IF x = prev[item] THEN r ELSE next[x]
  <2>1. /\ allocated' = allocated \ gone
        /\ next' = Cleared([Assign(next, prev[item], r) EXCEPT ![r] = next[item]], gone)
        /\ child' = Cleared(IF child[o] = item THEN [child EXCEPT ![o] = r] ELSE child, gone)
    BY DEF ReplaceItemViaPointer
  <2>. HIDE DEF gone, item
  <2>2. \A x \in allocated \ gone :
          child'[x] = IF x = o /\ item = child[o] THEN r ELSE child[x]
    BY <1>1, <2>1 DEF Cleared
  <2>3. /\ Assign(next, prev[item], r) \in [Items -> Pointers]
        /\ \A x \in allocated :
             Assign(next, prev[item], r)[x] = IF x = prev[item] THEN r ELSE next[x]
    <3>1. prev[item] \in Items \union {NULL} /\ r \in Pointers
      BY <1>1, <1>3, PointerTypes DEF TreeInv, Pointers
    <3>. QED  BY <1>1, <3>1 DEF Assign
  <2>4. \A x \in allocated \ gone :
          next'[x] = IF x = r THEN next[item] ELSE IF x = prev[item] THEN r ELSE next[x]
    BY <1>1, <2>1, <2>3 DEF Cleared
  <2>. QED  BY <2>1, <2>2, <2>4
<1>7. \A n \in Members(o) : n # item => n \notin gone
  BY <1>3, ListApartFromTree
<1>8. \A x \in allocated \ {o} : \A n \in Members(x) : n # item /\ n # prev[item] /\ n # r
  <2>1. prev[item] # NULL => prev[item] \in Members(o)
    BY <1>3, Neighbours
  <2>2. ASSUME NEW x \in allocated \ {o}, NEW n \in Members(x)
        PROVE  n \notin Members(o) /\ n \in allocated
    BY <2>2, ListsApart, MembersFacts
  <2>. QED  BY <1>1, <1>3, <1>4, <2>1, <2>2
<1>. HIDE DEF s, N, t
<1>9. item = s[i] /\ i \in 1..N /\ \A j \in 1..N : s[j] # r
  BY <1>1, <1>4 DEF s, N
<1>. HIDE DEF item
<1>10. Chain(t, child'[o], next')
  <2>1. child'[o] = IF Len(t) = 0 THEN NULL ELSE t[1]
    <3>1. child'[o] = IF item = child[o] THEN r ELSE child[o]
      BY <1>3, <1>6
    <3>2. 1 \in 1..N /\ Len(t) # 0 /\ child[o] = s[1] /\ (item = child[o] <=> i = 1)
      BY <1>1, <1>2, <1>9
    <3>. QED  BY <1>2, <3>1, <3>2
  <2>2. ASSUME NEW j \in 1..Len(t)
        PROVE  next'[t[j]] = IF j = Len(t) THEN NULL ELSE t[j + 1]
    <3>1. /\ j \in 1..N /\ (j # N => j + 1 \in 1..N)
          /\ next[s[j]] = IF j = N THEN NULL ELSE s[j + 1]
          /\ prev[item] = IF i = 1 THEN NULL ELSE s[i - 1]
      BY <1>1, <1>2, <1>9
    <3>2. CASE j = i
      <4>1. t[j] = r /\ next'[r] = next[item]
        BY <1>2, <1>5, <1>6, <3>1, <3>2
      <4>2. j # N => j + 1 # i /\ t[j + 1] = s[j + 1]
        BY <1>2, <3>1, <3>2
      <4>. QED  BY <1>2, <1>9, <3>1, <3>2, <4>1, <4>2
    <3>3. CASE j # i
      <4>1. t[j] = s[j] /\ s[j] \in allocated /\ s[j] # item /\ s[j] \notin gone /\ s[j] # r
        BY <1>1, <1>2, <1>7, <1>9, <3>1, <3>3
      <4>2. next'[s[j]] = IF s[j] = prev[item] THEN r ELSE next[s[j]]
        BY <1>6, <4>1
      <4>3. s[j] = prev[item] <=> j + 1 = i
        <5>1. CASE i = 1
          BY <1>1, <3>1, <4>1, <5>1
        <5>2. CASE i # 1
          <6>1. i - 1 \in 1..N /\ (j = i - 1 <=> j + 1 = i)
            BY <1>1, <1>9, <3>1, <5>2
          <6>. QED  BY <1>1, <3>1, <5>2, <6>1
        <5>. QED  BY <5>1, <5>2
      <4>4. j # N => t[j + 1] = IF j + 1 = i THEN r ELSE s[j + 1]
        BY <1>2, <3>1
      <4>5. j + 1 = i => j # N
        BY <1>1, <1>9
      <4>. QED  BY <1>2, <3>1, <4>1, <4>2, <4>3, <4>4, <4>5
    <3>. QED  BY <3>2, <3>3
  <2>. QED  BY <1>2, <2>1, <2>2 DEF Chain
<1>11. List(o)' = t
  <2>1. o \in allocated'
    BY <1>3, <1>6
  <2>. QED  BY <1>10, <2>1, ListIsNext
<1>12. \A x \in allocated \ (gone \union {o}) : List(x)' = List(x)
  <2>. SUFFICES ASSUME NEW x \in allocated \ (gone \union {o})
                PROVE  List(x)' = List(x)
    OBVIOUS
  <2>1. child'[x] = child[x] /\ x \in allocated'
    BY <1>6
  <2>2. Members(x) \cap gone = {} /\ Members(x) \subseteq allocated
    <3>1. item \notin Members(x)
      BY <1>8
    <3>. QED  BY <1>3, <3>1, ListOutsideTree, MembersFacts
  <2>3. \A n \in Members(x) : next'[n] = next[n]
    BY <1>6, <1>8, <2>2
  <2>. QED  BY <2>1, <2>3, ListKept
<1>. QED  BY <1>11, <1>12 DEF s, t, item

-----------------------------------------------------------------------------
(* The steps.                                                              *)

\* What the variable content of OrderedObjects is mapped to.
Content == [x \in Items |-> List(x)]

\* Items that do not exist have empty lists, before and after a step.
LEMMA EmptyLists ==
  ASSUME TreeInv, TreeInv', Blank, Blank'
  PROVE  /\ \A x \in Items \ allocated : List(x) = << >>
         /\ \A x \in Items \ allocated' : List(x)' = << >>
<1>1. \A x \in Items \ allocated : List(x) = << >>
  BY ListEmpty DEF Blank, TreeInv
<1>2. (\A x \in Items : child[x] = NULL => List(x) = << >>)'
  BY ListEmptyNext DEF TreeInv
<1>3. \A x \in Items \ allocated' : List(x)' = << >>
  BY <1>2 DEF Blank
<1>. QED  BY <1>1, <1>3

\* An item that leads nowhere begins to exist.
LEMMA CreateStep ==
  ASSUME TreeInv, TreeInv', Blank, NEW r \in Items, cJSON_CreateObject(r)
  PROVE  Blank' /\ Objects!Next
<1>1. /\ TypeOK /\ r \notin allocated /\ allocated' = allocated \union {r}
      /\ child' = [child EXCEPT ![r] = NULL] /\ next' = [next EXCEPT ![r] = NULL]
      /\ string' = [string EXCEPT ![r] = NULL]
      /\ child \in [Items -> Pointers] /\ next \in [Items -> Pointers]
      /\ string \in [Items -> Keys \union {NULL}] /\ allocated \subseteq Items
  BY PointerTypes DEF TreeInv, cJSON_CreateObject
<1>2. \A x \in Items : child'[x] = child[x] /\ string'[x] = string[x]
  BY <1>1 DEF Blank
<1>3. Blank'
  BY <1>1, <1>2 DEF Blank
<1>4. \A x \in Items : List(x)' = List(x)
  <2>1. \A x \in allocated : List(x)' = List(x)
    <3>. SUFFICES ASSUME NEW x \in allocated
                  PROVE  List(x)' = List(x)
      OBVIOUS
    <3>1. /\ x \in allocated' /\ child'[x] = child[x] /\ Members(x) \subseteq allocated
          /\ \A n \in allocated : next'[n] = next[n]
      BY <1>1, <1>2, MembersFacts
    <3>. QED  BY <3>1, ListKept
  <2>2. child[r] = NULL /\ child'[r] = NULL
    BY <1>1, <1>2 DEF Blank
  <2>3. List(r) = << >>
    BY <1>1, <2>2, ListEmpty
  <2>4. (\A x \in Items : child[x] = NULL => List(x) = << >>)'
    BY ListEmptyNext DEF TreeInv
  <2>5. List(r)' = << >>
    BY <2>2, <2>4
  <2>. QED  BY <1>1, <1>3, <2>1, <2>3, <2>5, EmptyLists
<1>5. [x \in Items |-> List(x)]' = [x \in Items |-> List(x)]
  BY <1>4
<1>6. string' = string
  BY <1>1, <1>2
<1>7. Objects!Create(r)
  BY <1>1, <1>5, <1>6 DEF Objects!Create
<1>. QED  BY <1>3, <1>7 DEF Objects!Next

\* Adding an item at the end of a list.
LEMMA AddList ==
  ASSUME TreeInv, TreeInv', NEW o \in allocated, NEW r \in allocated, MayAdd(o, r),
         add_item_to_array(o, r), allocated' = allocated
  PROVE  /\ List(o)' = InsertAt(List(o), Len(List(o)) + 1, r)
         /\ \A x \in allocated \ {o} : List(x)' = List(x)
<1>. DEFINE s == List(o)
            N == Len(s)
            i == N + 1
<1>1. /\ s \in Seq(allocated) /\ N \in Nat /\ allocated \subseteq Items /\ NULL \notin allocated
      /\ child[o] = IF N = 0 THEN NULL ELSE s[1]
      /\ \A j \in 1..N : s[j] \in Members(o) /\ s[j] \in allocated
      /\ \A j \in 1..N : next[s[j]] = IF j = N THEN NULL ELSE s[j + 1]
      /\ \A n \in Members(o) : \E j \in 1..N : n = s[j]
      /\ child \in [Items -> Pointers] /\ next \in [Items -> Pointers]
      /\ next[r] = NULL /\ i \in 1..N + 1
      /\ r \notin Members(o)
  BY PlaceFacts, PointerTypes, LooseFacts, LooseUnlisted DEF TreeInv, MayAdd
<1>. HIDE DEF s, N
<1>2. \A x \in allocated :
        /\ child'[x] = IF i = 1 /\ x = o THEN r ELSE child[x]
        /\ next'[x] = IF x = r THEN IF i = N + 1 THEN NULL ELSE s[i]
                      ELSE IF i # 1 /\ x = s[i - 1] THEN r ELSE next[x]
  <2>1. CASE child[o] = NULL
    <3>1. N = 0
      <4>1. N # 0 => s[1] \in allocated
        BY <1>1
      <4>. QED  BY <1>1, <2>1, <4>1
    <3>2. child' = [child EXCEPT ![o] = r] /\ next' = next
      BY <2>1 DEF add_item_to_array
    <3>. QED  BY <1>1, <3>1, <3>2
  <2>2. CASE child[o] # NULL
    <3>1. N # 0
      BY <1>1, <2>2
    <3>2. LastItem(o) = s[N]
      <4>1. LastItem(o) \in Members(o) /\ next[LastItem(o)] = NULL
        BY <2>2, LastItemFacts
      <4>2. PICK j \in 1..N : LastItem(o) = s[j]
        BY <1>1, <4>1
      <4>3. j # N => j + 1 \in 1..N
        BY <1>1
      <4>. QED  BY <1>1, <4>1, <4>2, <4>3
    <3>3. child' = child /\ next' = [next EXCEPT ![s[N]] = r]
      BY <2>2, <3>2 DEF add_item_to_array, suffix_object
    <3>4. s[N] \in allocated /\ s[N] # r /\ i # 1 /\ i - 1 = N
      BY <1>1, <3>1
    <3>. QED  BY <1>1, <3>3, <3>4
  <2>. QED  BY <2>1, <2>2
<1>. QED  BY <1>1, <1>2, PutList DEF s, N

\* Inserting an item before another one.
LEMMA InsertList ==
  ASSUME TreeInv, TreeInv', NEW o \in allocated, NEW r \in allocated, MayAdd(o, r),
         NEW k, cJSON_InsertItemInArray(o, k, r)
  PROVE  \E i \in 1..Len(List(o)) + 1 :
           /\ List(o)' = InsertAt(List(o), i, r)
           /\ \A x \in allocated \ {o} : List(x)' = List(x)
<1>. DEFINE after == get_array_item(o, k)
            s == List(o)
            N == Len(s)
<1>1. /\ allocated' = allocated /\ after \in Members(o) \union {NULL} /\ N \in Nat
  BY FoundAt, PlaceFacts DEF cJSON_InsertItemInArray
<1>2. CASE after = NULL
  <2>1. add_item_to_array(o, r)
    BY <1>2 DEF cJSON_InsertItemInArray
  <2>2. N + 1 \in 1..N + 1
    BY <1>1
  <2>. QED  BY <1>1, <2>1, <2>2, AddList
<1>3. CASE after # NULL
  <2>1. PICK i \in 1..N : after = s[i]
    BY <1>1, <1>3, PlaceOf
  <2>2. /\ s[i] \in Members(o) /\ s[i] \in allocated
        /\ allocated \subseteq Items /\ NULL \notin allocated
        /\ prev[s[i]] = IF i = 1 THEN NULL ELSE s[i - 1]
        /\ \A j \in 1..N : s[j] \in allocated /\ s[j] \in Members(o)
        /\ \A j, m \in 1..N : s[j] = s[m] => j = m
        /\ child[o] = IF N = 0 THEN NULL ELSE s[1]
        /\ child \in [Items -> Pointers] /\ next \in [Items -> Pointers]
        /\ r \notin Members(o)
    BY PlaceFacts, PointerTypes, LooseUnlisted DEF TreeInv, MayAdd
  <2>3. IF after = child[o]
        THEN child' = [child EXCEPT ![o] = r] /\ next' = [next EXCEPT ![r] = after]
        ELSE next' = [next EXCEPT ![r] = after, ![prev[after]] = r] /\ child' = child
    BY <1>3 DEF cJSON_InsertItemInArray
  <2>. HIDE DEF after, s, N
  <2>4. after = child[o] <=> i = 1
    <3>1. 1 \in 1..N /\ N # 0
      BY <1>1
    <3>. QED  BY <2>1, <2>2, <3>1
  <2>5. i # 1 => i - 1 \in 1..N
    BY <1>1
  <2>6. \A x \in allocated :
          /\ child'[x] = IF i = 1 /\ x = o THEN r ELSE child[x]
          /\ next'[x] = IF x = r THEN IF i = N + 1 THEN NULL ELSE s[i]
                        ELSE IF i # 1 /\ x = s[i - 1] THEN r ELSE next[x]
    <3>1. i # N + 1 /\ s[i] # r
      BY <1>1, <2>2
    <3>2. CASE i = 1
      BY <2>1, <2>2, <2>3, <2>4, <3>1, <3>2
    <3>3. CASE i # 1
      <4>1. s[i - 1] \in Items /\ s[i - 1] # r /\ prev[after] = s[i - 1]
        BY <2>1, <2>2, <2>5, <3>3
      <4>. QED  BY <2>1, <2>2, <2>3, <2>4, <3>1, <3>3, <4>1
    <3>. QED  BY <3>2, <3>3
  <2>7. i \in 1..N + 1
    BY <1>1
  <2>. QED  BY <1>1, <2>6, <2>7, PutList DEF s, N
<1>. QED  BY <1>2, <1>3

\* To insert behind the last item is to append.
LEMMA AppendInsert ==
  ASSUME NEW S, NEW s \in Seq(S), NEW e \in S
  PROVE  InsertAt(s, Len(s) + 1, e) = Append(s, e)
<1>. DEFINE t == InsertAt(s, Len(s) + 1, e)
<1>1. Len(s) \in Nat /\ Len(s) + 1 \in 1..Len(s) + 1
  BY LenProperties
<1>2. /\ t \in Seq(S) /\ Len(t) = Len(s) + 1
      /\ \A j \in 1..Len(s) + 1 : t[j] = IF j < Len(s) + 1 THEN s[j]
                                         ELSE IF j = Len(s) + 1 THEN e ELSE s[j - 1]
  BY <1>1, Inserted
<1>. HIDE DEF t
<1>3. /\ Append(s, e) \in Seq(S) /\ Len(Append(s, e)) = Len(s) + 1
      /\ \A j \in 1..Len(s) + 1 : Append(s, e)[j] = IF j = Len(s) + 1 THEN e ELSE s[j]
  BY <1>1
<1>4. \A j \in 1..Len(t) : t[j] = Append(s, e)[j]
  <2>. SUFFICES ASSUME NEW j \in 1..Len(s) + 1
                PROVE  t[j] = Append(s, e)[j]
    BY <1>2
  <2>1. j < Len(s) + 1 \/ j = Len(s) + 1
    BY <1>1
  <2>. QED  BY <1>1, <1>2, <1>3, <2>1
<1>. QED  BY <1>2, <1>3, <1>4, SeqEqual DEF t

\* One list changes and nothing is freed: so does the content.
LEMMA ContentPut ==
  ASSUME TreeInv, TreeInv', Blank, Blank', allocated' = allocated, NEW o \in allocated, NEW t,
         List(o)' = t, \A x \in allocated \ {o} : List(x)' = List(x)
  PROVE  Content' = [Content EXCEPT ![o] = t]
<1>1. \A x \in Items : List(x)' = IF x = o THEN t ELSE List(x)
  BY EmptyLists
<1>. QED  BY <1>1 DEF Content

\* Adding an item leaves what does not exist blank.
LEMMA BlankAdd ==
  ASSUME TreeInv, Blank, NEW o \in allocated, NEW r \in allocated, add_item_to_array(o, r),
         allocated' = allocated, \A x \in Items \ allocated : string'[x] = string[x]
  PROVE  Blank'
<1>1. child \in [Items -> Pointers] /\ allocated \subseteq Items
  BY PointerTypes DEF TreeInv
<1>2. child' = child \/ child' = [child EXCEPT ![o] = r]
  BY DEF add_item_to_array
<1>. QED  BY <1>1, <1>2 DEF Blank

\* An item is added under a name ...
LEMMA AddStep ==
  ASSUME TreeInv, TreeInv', Blank, NEW o \in allocated, NEW k \in Keys, NEW r \in Items,
         cJSON_AddItemToObject(o, k, r)
  PROVE  Blank' /\ Objects!Next
<1>1. /\ MayAdd(o, r) /\ r \in allocated /\ add_item_to_array(o, r)
      /\ allocated' = allocated /\ string' = [string EXCEPT ![r] = k]
  BY DEF cJSON_AddItemToObject, MayAdd, Loose
<1>2. /\ string \in [Items -> Keys \union {NULL}] /\ allocated \subseteq Items
      /\ List(o) \in Seq(allocated)
  BY PointerTypes, PlaceFacts DEF TreeInv
<1>3. Blank'
  BY <1>1, <1>2, BlankAdd
<1>4. Content' = [Content EXCEPT ![o] = Append(List(o), r)]
  BY <1>1, <1>2, <1>3, AddList, AppendInsert, ContentPut
<1>5. Content' = [Content EXCEPT ![o] = Append(@, r)]
  BY <1>2, <1>4 DEF Content
<1>6. Objects!Free(r, o)
  BY <1>1, MayAddFree
<1>7. Objects!Add(o, k, r)
  BY <1>1, <1>5, <1>6 DEF Objects!Add, Content
<1>. QED  BY <1>3, <1>7 DEF Objects!Next

\* ... or put somewhere into an array.
LEMMA InsertObjects ==
  ASSUME TreeInv, TreeInv', Blank, Blank', NEW o \in allocated, NEW r \in allocated, MayAdd(o, r),
         allocated' = allocated, string' = string,
         NEW i \in 1..Len(List(o)) + 1, List(o)' = InsertAt(List(o), i, r),
         \A x \in allocated \ {o} : List(x)' = List(x)
  PROVE  Objects!Next
<1>1. Content' = [Content EXCEPT ![o] = InsertAt(List(o), i, r)]
  BY ContentPut
<1>2. allocated \subseteq Items /\ Content[o] = List(o)
  BY PointerTypes DEF TreeInv, Content
<1>3. Objects!Free(r, o)
  BY MayAddFree
<1>4. Objects!Insert(o, i, r)
  BY <1>1, <1>2, <1>3 DEF Objects!Insert, Objects!InsertAt, InsertAt, Content
<1>. QED  BY <1>2, <1>4 DEF Objects!Next, Content

\* At the end, as add_item_to_array does ...
LEMMA AddToArrayStep ==
  ASSUME TreeInv, TreeInv', Blank, NEW o \in Items, NEW r \in Items, cJSON_AddItemToArray(o, r)
  PROVE  Blank' /\ Objects!Next
<1>1. /\ MayAdd(o, r) /\ o \in allocated /\ r \in allocated /\ add_item_to_array(o, r)
      /\ allocated' = allocated /\ string' = string
  BY DEF cJSON_AddItemToArray, MayAdd, Loose
<1>2. Len(List(o)) + 1 \in 1..Len(List(o)) + 1
  BY <1>1, PlaceFacts
<1>3. Blank'
  BY <1>1, BlankAdd
<1>4. /\ List(o)' = InsertAt(List(o), Len(List(o)) + 1, r)
      /\ \A x \in allocated \ {o} : List(x)' = List(x)
  BY <1>1, AddList
<1>. QED  BY <1>1, <1>2, <1>3, <1>4, InsertObjects

\* ... or before the item at a position.
LEMMA InsertStep ==
  ASSUME TreeInv, TreeInv', Blank, NEW o \in allocated, NEW k, NEW r \in Items,
         cJSON_InsertItemInArray(o, k, r)
  PROVE  Blank' /\ Objects!Next
<1>1. MayAdd(o, r) /\ r \in allocated /\ allocated' = allocated /\ string' = string
  BY DEF cJSON_InsertItemInArray, MayAdd, Loose
<1>2. PICK i \in 1..Len(List(o)) + 1 :
        /\ List(o)' = InsertAt(List(o), i, r)
        /\ \A x \in allocated \ {o} : List(x)' = List(x)
  BY <1>1, InsertList
<1>3. Blank'
  <2>1. CASE get_array_item(o, k) = NULL
    <3>1. add_item_to_array(o, r)
      BY <2>1 DEF cJSON_InsertItemInArray
    <3>. QED  BY <1>1, <3>1, BlankAdd
  <2>2. CASE get_array_item(o, k) # NULL
    <3>1. child' = child \/ child' = [child EXCEPT ![o] = r]
      BY <2>2 DEF cJSON_InsertItemInArray
    <3>2. child \in [Items -> Pointers] /\ allocated \subseteq Items
      BY PointerTypes DEF TreeInv
    <3>. QED  BY <1>1, <3>1, <3>2 DEF Blank
  <2>. QED  BY <2>1, <2>2
<1>. QED  BY <1>1, <1>2, <1>3, InsertObjects

\* Some items are freed, one list may change, the rest stays.
LEMMA ContentFreed ==
  ASSUME TreeInv, TreeInv', Blank, Blank', NEW gone, allocated' = allocated \ gone,
         NEW before \in [Items -> Seq(Items)],
         \A x \in allocated \ gone : List(x)' = before[x],
         \A x \in Items \ allocated : before[x] = << >>
  PROVE  Content' = [x \in Items |-> IF x \in gone THEN << >> ELSE before[x]]
<1>1. \A x \in Items : List(x)' = IF x \in gone THEN << >> ELSE before[x]
  BY EmptyLists
<1>. QED  BY <1>1 DEF Content

\* Fields are cleared: what does not exist afterwards is blank.
LEMMA BlankFreed ==
  ASSUME NEW f, NEW gone, \A x \in Items \ allocated : f[x] = NULL
  PROVE  \A x \in Items \ (allocated \ gone) : Cleared(f, gone)[x] = NULL
BY DEF Cleared

\* An item leaves its list, and is deleted at once or not.
LEMMA DetachStep ==
  ASSUME TreeInv, TreeInv', Blank, NEW o \in allocated, NEW item \in Members(o),
         NEW gone \in {{}, Tree(item)}, DetachItemViaPointer(o, item, gone)
  PROVE  Blank' /\ Objects!Next
<1>1. /\ child \in [Items -> Pointers] /\ string \in [Items -> Keys \union {NULL}]
      /\ allocated \subseteq Items /\ item \in allocated
  BY PointerTypes, MembersFacts DEF TreeInv
<1>2. /\ allocated' = allocated \ gone
      /\ child' = Cleared(DetachedChild(o, item), gone)
      /\ string' = Cleared(string, gone)
  BY DEF DetachItemViaPointer, DetachedChild
<1>3. Blank'
  <2>1. \A x \in Items \ allocated : DetachedChild(o, item)[x] = NULL /\ string[x] = NULL
    BY <1>1 DEF Blank, DetachedChild
  <2>2. \A x \in Items \ (allocated \ gone) :
          Cleared(DetachedChild(o, item), gone)[x] = NULL
    BY <2>1, BlankFreed
  <2>3. \A x \in Items \ (allocated \ gone) : Cleared(string, gone)[x] = NULL
    BY <2>1, BlankFreed
  <2>. QED  BY <1>2, <2>2, <2>3 DEF Blank
<1>4. PICK i \in 1..Len(List(o)) : item = List(o)[i]
  BY PlaceOf
<1>5. /\ List(o)' = RemoveAt(List(o), i)
      /\ \A x \in allocated \ (gone \union {o}) : List(x)' = List(x)
  BY <1>4, DetachList
<1>. DEFINE rest == [Content EXCEPT ![o] = RemoveAt(List(o), i)]
<1>6. /\ rest \in [Items -> Seq(Items)] /\ o \notin gone
      /\ \A x \in Items : rest[x] = IF x = o THEN RemoveAt(List(o), i) ELSE List(x)
  <2>1. \A x \in Items : List(x) \in Seq(Items)
    BY ListSet
  <2>2. RemoveAt(List(o), i) \in Seq(Items)
    BY <1>1, <2>1, Removed
  <2>3. o \notin gone
    BY OwnerOutside
  <2>. QED  BY <1>1, <2>1, <2>2, <2>3 DEF Content
<1>7. Content' = [x \in Items |-> IF x \in gone THEN << >> ELSE rest[x]]
  <2>1. \A x \in allocated \ gone : List(x)' = rest[x]
    BY <1>1, <1>5, <1>6
  <2>2. \A x \in Items \ allocated : rest[x] = << >>
    BY <1>3, <1>6, EmptyLists
  <2>. HIDE DEF rest
  <2>. QED  BY <1>2, <1>3, <1>6, <2>1, <2>2, ContentFreed
<1>8. i \in 1..Len(Content[o]) + 1 /\ i \in DOMAIN Content[o] /\ Content[o] = List(o)
  <2>1. Content[o] = List(o) /\ Len(List(o)) \in Nat /\ List(o) \in Seq(allocated)
    BY <1>1, PlaceFacts DEF Content
  <2>. QED  BY <2>1, LenProperties
<1>9. rest = [Content EXCEPT ![o] = Objects!RemoveAt(@, i)]
  BY <1>8 DEF Objects!RemoveAt, RemoveAt, Content
<1>10. Objects!Detach(o, i)
  <2>1. CASE gone = {}
    <3>1. allocated' = allocated /\ Content' = rest /\ string' = string
      <4>1. Content' = rest
        <5>. HIDE DEF rest
        <5>. QED  BY <1>6, <1>7, <2>1
      <4>. QED  BY <1>1, <1>2, <2>1, <4>1 DEF Cleared
    <3>. HIDE DEF rest
    <3>. QED  BY <1>8, <1>9, <3>1 DEF Objects!Detach, Content
  <2>2. CASE gone = Tree(item)
    <3>1. gone = Objects!Inside(item) /\ item \in gone
      BY <1>1, <2>2, InsideTree, TreeFacts
    <3>2. string' = [x \in Items |-> IF x \in gone THEN NULL ELSE string[x]]
      BY <1>2 DEF Cleared
    <3>. HIDE DEF rest
    <3>3. Objects!Dispose(item, rest, string)
      BY <1>1, <1>2, <1>7, <3>1, <3>2 DEF Objects!Dispose, Content
    <3>4. item = Content[o][i]
      BY <1>4, <1>8
    <3>. QED  BY <1>8, <1>9, <3>3, <3>4 DEF Objects!Detach, Content
  <2>. QED  BY <2>1, <2>2
<1>. QED  BY <1>1, <1>3, <1>8, <1>10 DEF Objects!Next, Content


\* The item that a name finds is the first of the sequence with that name.
LEMMA FoundFirst ==
  ASSUME TreeInv, NEW o \in allocated, NEW k, NEW i \in 1..Len(List(o)),
         get_object_item(o, k) = List(o)[i]
  PROVE  Objects!First(o, k, i)
<1>. DEFINE s == List(o)
            N == Len(s)
            named == {n \in Members(o) : string[n] = k}
<1>1. /\ DOMAIN s = 1..N /\ N \in Nat /\ i \in 1..N
      /\ \A j \in 1..N : s[j] \in Members(o) /\ s[j] \in allocated
      /\ \A j, m \in 1..N : s[j] = s[m] => j = m
      /\ From(s[i]) = {s[j] : j \in i..N}
      /\ NULL \notin allocated /\ allocated \subseteq Items
  <2>1. s \in Seq(allocated) /\ From(s[i]) = {s[j] : j \in i..N}
    BY PlaceFacts, ListItems
  <2>2. DOMAIN s = 1..N
    BY <2>1, LenProperties
  <2>. QED  BY <2>1, <2>2, PlaceFacts, PointerTypes DEF TreeInv
<1>2. s[i] \in named /\ named \subseteq From(s[i])
  <2>1. named # {}
    BY <1>1 DEF get_object_item
  <2>2. \E n \in named : named \subseteq From(n)
    <3>1. named \in SUBSET Members(o)
      OBVIOUS
    <3>. HIDE DEF named
    <3>. QED  BY <2>1, <3>1, FirstNamed
  <2>. QED  BY <2>1, <2>2 DEF get_object_item
<1>. HIDE DEF s, N
<1>3. ASSUME NEW j \in 1..i
      PROVE  string[s[j]] = k <=> j = i
  <2>1. j \in 1..N
    BY <1>1
  <2>2. ASSUME string[s[j]] = k
        PROVE  j = i
    <3>1. s[j] \in From(s[i])
      BY <1>1, <1>2, <2>1, <2>2
    <3>2. PICK m \in i..N : s[j] = s[m]
      BY <1>1, <3>1
    <3>3. m \in 1..N
      BY <1>1
    <3>. QED  BY <1>1, <2>1, <3>2, <3>3
  <2>3. string[s[i]] = k
    BY <1>2
  <2>. QED  BY <2>2, <2>3
<1>. QED  BY <1>1, <1>3 DEF Objects!First, s, N

\* It has the name.
LEMMA NameFound ==
  ASSUME TreeInv, NEW o \in allocated, NEW k, NEW r \in Members(o), r = get_object_item(o, k)
  PROVE  string[r] = k
<1>. DEFINE content == [x \in Items |-> List(x)]
<1>1. PICK i \in 1..Len(List(o)) : r = List(o)[i]
  BY PlaceOf
<1>2. Objects!First(o, k, i)
  BY <1>1, FoundFirst
<1>3. Len(List(o)) \in Nat /\ content[o] = List(o)
  BY PlaceFacts, PointerTypes DEF TreeInv
<1>4. \A j \in 1..i : string[content[o][j]] = k <=> j = i
  BY <1>2 DEF Objects!First
<1>5. i \in 1..i
  BY <1>3
<1>. HIDE DEF content
<1>. QED  BY <1>1, <1>3, <1>4, <1>5

\* An item takes the place of another one, which is deleted.
LEMMA ReplaceObjects ==
  ASSUME TreeInv, TreeInv', Blank, NEW o \in allocated, NEW r \in allocated, MayAdd(o, r),
         NEW i \in 1..Len(List(o)), NEW k,
         ReplaceItemViaPointer(o, List(o)[i], r, [string EXCEPT ![r] = k])
  PROVE  Blank' /\ Objects!Replace(o, i, k, r)
<1>. DEFINE item == List(o)[i]
            gone == Tree(item)
            named == [string EXCEPT ![r] = k]
            heads == IF child[o] = item THEN [child EXCEPT ![o] = r] ELSE child
            rest == [Content EXCEPT ![o] = [List(o) EXCEPT ![i] = r]]
<1>1. /\ child \in [Items -> Pointers] /\ string \in [Items -> Keys \union {NULL}]
      /\ allocated \subseteq Items /\ item \in allocated /\ item \in Members(o)
      /\ List(o) \in Seq(allocated) /\ DOMAIN List(o) = 1..Len(List(o))
  BY PointerTypes, PlaceFacts, LenProperties DEF TreeInv
<1>2. /\ allocated' = allocated \ gone /\ child' = Cleared(heads, gone)
      /\ string' = Cleared(named, gone)
  BY DEF ReplaceItemViaPointer
<1>3. Blank'
  <2>1. \A x \in Items \ allocated : heads[x] = NULL /\ named[x] = NULL
    BY <1>1 DEF Blank
  <2>. HIDE DEF heads, named, gone
  <2>2. /\ \A x \in Items \ (allocated \ gone) : Cleared(heads, gone)[x] = NULL
        /\ \A x \in Items \ (allocated \ gone) : Cleared(named, gone)[x] = NULL
    BY <2>1, BlankFreed
  <2>. QED  BY <1>2, <2>2 DEF Blank
<1>4. /\ List(o)' = [List(o) EXCEPT ![i] = r]
      /\ \A x \in allocated \ (gone \union {o}) : List(x)' = List(x)
  BY ReplaceList
<1>5. /\ rest \in [Items -> Seq(Items)] /\ o \notin gone
      /\ \A x \in Items : rest[x] = IF x = o THEN [List(o) EXCEPT ![i] = r] ELSE List(x)
  <2>1. \A x \in Items : List(x) \in Seq(Items)
    BY ListSet
  <2>2. [List(o) EXCEPT ![i] = r] \in Seq(Items)
    BY <1>1
  <2>3. o \notin gone
    BY <1>1, OwnerOutside
  <2>. QED  BY <1>1, <2>1, <2>2, <2>3 DEF Content
<1>6. Content' = [x \in Items |-> IF x \in gone THEN << >> ELSE rest[x]]
  <2>1. \A x \in allocated \ gone : List(x)' = rest[x]
    BY <1>1, <1>4, <1>5
  <2>2. \A x \in Items \ allocated : rest[x] = << >>
    BY <1>3, <1>5, EmptyLists
  <2>3. rest \in [Items -> Seq(Items)] /\ allocated' = allocated \ gone
    BY <1>2, <1>5
  <2>. HIDE DEF rest, gone
  <2>. QED  BY <1>3, <2>1, <2>2, <2>3, ContentFreed
<1>7. gone = Objects!Inside(item) /\ item \in gone
  BY <1>1, InsideTree, TreeFacts
<1>8. string' = [x \in Items |-> IF x \in gone THEN NULL ELSE named[x]]
  BY <1>2 DEF Cleared
<1>9. Content[o] = List(o) /\ rest = [Content EXCEPT ![o][i] = r]
  BY <1>1 DEF Content
<1>10. item = Content[o][i] /\ i \in DOMAIN Content[o]
  BY <1>1, <1>9
<1>11. Objects!Free(r, o)
  BY MayAddFree
<1>. HIDE DEF item, gone, heads
<1>12. Objects!Dispose(item, rest, named)
  <2>. HIDE DEF rest, named
  <2>. QED  BY <1>1, <1>2, <1>6, <1>7, <1>8 DEF Objects!Dispose, Content
<1>13. Objects!Replace(o, i, k, r)
  <2>1. Objects!Dispose(Content[o][i], [Content EXCEPT ![o][i] = r], [string EXCEPT ![r] = k])
    <3>. HIDE DEF rest
    <3>. QED  BY <1>9, <1>10, <1>12
  <2>. QED  BY <1>10, <1>11, <2>1 DEF Objects!Replace, Content
<1>. QED  BY <1>3, <1>13

\* By name: an item that is not found, or is the replacement itself, stays.
LEMMA ReplaceInObjectStep ==
  ASSUME TreeInv, TreeInv', Blank, NEW o \in allocated, NEW k \in Keys, NEW r \in Items,
         cJSON_ReplaceItemInObject(o, k, r)
  PROVE  Blank' /\ (Objects!Next \/ UNCHANGED Objects!objects)
<1>. DEFINE item == get_object_item(o, k)
<1>1. /\ string \in [Items -> Keys \union {NULL}] /\ allocated \subseteq Items
      /\ NULL \notin allocated
      /\ item \in Members(o) \union {NULL} /\ Members(o) \subseteq allocated
  BY PointerTypes, FoundNamed, MembersFacts DEF TreeInv
<1>2. CASE item \in {NULL, r}
  <2>1. /\ string' = [string EXCEPT ![r] = k]
        /\ allocated' = allocated /\ child' = child /\ next' = next
    BY <1>2 DEF cJSON_ReplaceItemInObject
  <2>2. r \in allocated
    BY <1>1, <1>2 DEF cJSON_ReplaceItemInObject, MayAdd, Loose
  <2>3. Blank'
    BY <1>1, <2>1, <2>2 DEF Blank
  <2>4. Content' = Content
    <3>1. \A x \in allocated : List(x)' = List(x)
      BY <2>1, ListKept
    <3>2. \A x \in Items : List(x)' = List(x)
      BY <2>1, <2>3, <3>1, EmptyLists
    <3>. QED  BY <3>2 DEF Content
  <2>5. CASE MayAdd(o, r)
    <3>1. Objects!Free(r, o)
      BY <2>2, <2>5, MayAddFree
    <3>2. Objects!Rename(o, k, r)
      BY <2>1, <2>4, <3>1 DEF Objects!Rename, Content
    <3>. QED  BY <2>3, <3>2 DEF Objects!Next
  <2>6. CASE ~ MayAdd(o, r)
    <3>1. r = item /\ r \in Members(o)
      BY <1>1, <2>6 DEF cJSON_ReplaceItemInObject
    <3>2. string[r] = k
      BY <3>1, NameFound
    <3>3. string' = string
      BY <1>1, <2>1, <3>2
    <3>. QED  BY <2>1, <2>3, <2>4, <3>3 DEF Objects!objects, Content
  <2>. QED  BY <2>5, <2>6
<1>3. CASE item \notin {NULL, r}
  <2>1. /\ MayAdd(o, r) /\ r \in allocated /\ item \in Members(o)
        /\ ReplaceItemViaPointer(o, item, r, [string EXCEPT ![r] = k])
    BY <1>1, <1>3 DEF cJSON_ReplaceItemInObject, MayAdd, Loose
  <2>2. PICK i \in 1..Len(List(o)) : item = List(o)[i]
    BY <2>1, PlaceOf
  <2>3. Blank' /\ Objects!Replace(o, i, k, r)
    BY <2>1, <2>2, ReplaceObjects
  <2>4. Objects!First(o, k, i)
    BY <2>2, FoundFirst
  <2>5. i \in DOMAIN [x \in Items |-> List(x)][o]
    BY <2>4 DEF Objects!First
  <2>. QED  BY <1>1, <2>3, <2>4, <2>5 DEF Objects!Next
<1>. QED  BY <1>2, <1>3

\* By position: the name is that of the replacement.
LEMMA ReplaceInArrayStep ==
  ASSUME TreeInv, TreeInv', Blank, NEW o \in allocated, NEW j, NEW r \in Items,
         cJSON_ReplaceItemInArray(o, j, r)
  PROVE  Blank' /\ Objects!Next
<1>. DEFINE item == get_array_item(o, j)
<1>1. /\ MayAdd(o, r) /\ r \in allocated /\ item \in Members(o)
      /\ ReplaceItemViaPointer(o, item, r, string)
      /\ string \in [Items -> Keys \union {NULL}] /\ allocated \subseteq Items
  BY FoundAt, PointerTypes DEF cJSON_ReplaceItemInArray, MayAdd, Loose, TreeInv
<1>2. PICK i \in 1..Len(List(o)) : item = List(o)[i]
  BY <1>1, PlaceOf
<1>3. [string EXCEPT ![r] = string[r]] = string
  BY <1>1
<1>4. Blank' /\ Objects!Replace(o, i, string[r], r)
  BY <1>1, <1>2, <1>3, ReplaceObjects
<1>5. i \in 1..Len([x \in Items |-> List(x)][o]) + 1
  BY <1>1, PlaceFacts
<1>. QED  BY <1>1, <1>4, <1>5 DEF Objects!Next

\* An item that is in no list is deleted.
LEMMA DeleteStep ==
  ASSUME TreeInv, TreeInv', Blank, NEW r \in Items, cJSON_Delete(r)
  PROVE  Blank' /\ Objects!Next
<1>. DEFINE gone == Tree(r)
<1>1. /\ Loose(r) /\ r \in allocated /\ gone = Deleted(r)
      /\ allocated' = allocated \ gone /\ child' = Cleared(child, gone)
      /\ next' = Cleared(next, gone) /\ string' = Cleared(string, gone)
  BY LooseTree DEF cJSON_Delete, Loose
<1>2. /\ child \in [Items -> Pointers] /\ allocated \subseteq Items
      /\ gone \subseteq allocated /\ r \in gone
  BY <1>1, PointerTypes, TreeFacts DEF TreeInv
<1>. HIDE DEF gone
<1>3. Blank'
  <2>1. /\ \A x \in Items \ (allocated \ gone) : Cleared(child, gone)[x] = NULL
        /\ \A x \in Items \ (allocated \ gone) : Cleared(string, gone)[x] = NULL
    BY BlankFreed DEF Blank
  <2>. QED  BY <1>1, <2>1 DEF Blank
<1>4. ASSUME NEW x \in allocated \ gone
      PROVE  List(x)' = List(x)
  <2>1. Members(x) \cap gone = {} /\ Members(x) \subseteq allocated
    BY <1>1, LooseUnlisted, ListOutsideTree, MembersFacts DEF gone
  <2>2. child'[x] = child[x] /\ \A n \in Members(x) : next'[n] = next[n]
    BY <1>1, <1>2, <2>1 DEF Cleared
  <2>. QED  BY <1>1, <2>2, ListKept
<1>5. Content' = [x \in Items |-> IF x \in gone THEN << >> ELSE Content[x]]
  <2>. DEFINE before == [x \in Items |-> List(x)]
  <2>1. /\ before \in [Items -> Seq(Items)]
        /\ \A x \in Items : before[x] = List(x)
    BY ListSet
  <2>2. \A x \in Items \ allocated : before[x] = << >>
    BY <1>3, <2>1, EmptyLists
  <2>3. \A x \in allocated \ gone : List(x)' = before[x]
    BY <1>2, <1>4, <2>1
  <2>4. allocated' = allocated \ gone /\ Content = before
    BY <1>1 DEF Content
  <2>. HIDE DEF before
  <2>. QED  BY <1>3, <2>1, <2>2, <2>3, <2>4, ContentFreed
<1>6. gone = Objects!Inside(r)
  BY <1>1, InsideTree DEF gone
<1>7. Objects!Root(r)
  <2>1. \A x \in allocated : r \notin Members(x)
    BY <1>1, LooseUnlisted
  <2>2. \A x \in allocated : ToSet([x_1 \in Items |-> List(x_1)][x]) = Members(x)
    BY <1>2, ListSet
  <2>. QED  BY <1>1, <2>1, <2>2 DEF Objects!Root, Objects!ToSet, ToSet
<1>8. string' = [x \in Items |-> IF x \in gone THEN NULL ELSE string[x]]
  BY <1>1 DEF Cleared
<1>9. Objects!Delete(r)
  BY <1>1, <1>2, <1>5, <1>6, <1>7, <1>8 DEF Objects!Delete, Objects!Dispose, Content
<1>. QED  BY <1>3, <1>9 DEF Objects!Next

\* A text is parsed: the new items are the list of the first of them.
LEMMA ParseStep ==
  ASSUME TreeInv, TreeInv', Blank, NEW o \in Items, NEW members \in SeqOf(Items \ allocated, MaxMembers),
         NEW text \in Texts(Len(members)), cJSON_Parse(o, members, text)
  PROVE  Blank' /\ Objects!Next
<1>. DEFINE new == NewItems(o, members)
            N == Len(new)
<1>1. /\ N \in Nat \ {0} /\ new \in [1..N -> Items]
      /\ \A i, j \in 1..N : new[i] = new[j] => i = j
      /\ allocated' = allocated \union ToSet(new) /\ allocated \cap ToSet(new) = {}
      /\ \A j \in 1..N :
           /\ child'[new[j]] = IF j = 1 /\ 2 \in 1..N THEN new[2] ELSE NULL
           /\ next'[new[j]] = IF j # 1 /\ j + 1 \in 1..N THEN new[j + 1] ELSE NULL
      /\ string'[new[1]] = NULL /\ string' \in [Items -> Keys \union {NULL}]
      /\ \A x \in Items \ ToSet(new) :
           child'[x] = child[x] /\ next'[x] = next[x] /\ string'[x] = string[x]
  BY ParseFields
<1>2. /\ members \in Seq(Items) /\ Len(members) \in Nat /\ N = Len(members) + 1 /\ new[1] = o
      /\ \A j \in 1..Len(members) : new[j + 1] = members[j]
      /\ DOMAIN members = 1..Len(members) /\ new = <<o>> \o members
  <2>1. PICK m \in Nat : members \in [1..m -> Items \ allocated]
    BY ItemsAssumption DEF SeqOf
  <2>2. members \in Seq(Items) /\ Len(members) = m
    BY <2>1
  <2>. QED  BY <2>1, <2>2 DEF NewItems
<1>. HIDE DEF new, N
<1>0. /\ Len(members) \in Nat /\ N = Len(members) + 1
      /\ \A j \in 1..Len(members) : j + 1 \in 1..N /\ j + 1 # 1 /\ members[j] = new[j + 1]
  <2>1. Len(members) \in Nat /\ N = Len(members) + 1
    BY <1>2
  <2>2. \A j \in 1..Len(members) : j + 1 \in 1..N /\ j + 1 # 1
    BY <2>1
  <2>. QED  BY <1>2, <2>1, <2>2
<1>3. /\ ToSet(new) = {new[j] : j \in 1..N} /\ ToSet(members) = {members[j] : j \in 1..Len(members)}
      /\ o \in ToSet(new) /\ ToSet(members) \subseteq ToSet(new) /\ o \notin ToSet(members)
      /\ \A x \in ToSet(new) : x = o \/ x \in ToSet(members)
      /\ \A j \in 1..Len(members) : members[j] = new[j + 1] /\ j + 1 \in 1..N /\ j + 1 # 1
  <2>1. ToSet(new) = {new[j] : j \in 1..N} /\ ToSet(members) = {members[j] : j \in 1..Len(members)}
    BY <1>1, <1>2 DEF ToSet
  <2>2. 1 \in 1..N
    BY <1>0
  <2>3. \A j \in 1..N : j = 1 \/ (j - 1 \in 1..Len(members) /\ (j - 1) + 1 = j)
    BY <1>0
  <2>4. \A x \in ToSet(new) : x = o \/ x \in ToSet(members)
    <3>. SUFFICES ASSUME NEW j \in 1..N, j # 1
                  PROVE  new[j] \in ToSet(members)
      BY <1>2, <2>1
    <3>1. new[j] = members[j - 1] /\ j - 1 \in 1..Len(members)
      BY <1>2, <2>3
    <3>. QED  BY <2>1, <3>1
  <2>5. o \in ToSet(new) /\ ToSet(members) \subseteq ToSet(new)
    BY <1>0, <1>2, <2>1, <2>2
  <2>6. o \notin ToSet(members)
    <3>. SUFFICES ASSUME NEW j \in 1..Len(members), new[1] = new[j + 1]
                  PROVE  FALSE
      BY <1>0, <1>2, <2>1
    <3>. QED  BY <1>0, <1>1, <2>2
  <2>. QED  BY <1>0, <2>1, <2>4, <2>5, <2>6
<1>4. /\ TypeOK /\ TypeOK' /\ allocated \subseteq Items /\ ToSet(new) \subseteq Items
      /\ o \in allocated' /\ o \in Items \ allocated
  BY <1>1, <1>3, PointerTypes DEF TreeInv
<1>5. Blank'
  BY <1>1 DEF Blank
<1>6. Chain(members, child'[o], next')
  <2>1. child'[o] = IF Len(members) = 0 THEN NULL ELSE members[1]
    <3>1. /\ 1 \in 1..N
          /\ Len(members) = 0 <=> 2 \notin 1..N
          /\ Len(members) # 0 => 1 \in 1..Len(members)
      BY <1>0
    <3>2. Len(members) # 0 => members[1] = new[1 + 1] /\ 1 + 1 = 2
      BY <1>0, <3>1
    <3>. QED  BY <1>1, <1>2, <3>1, <3>2
  <2>2. ASSUME NEW j \in 1..Len(members)
        PROVE  next'[members[j]] = IF j = Len(members) THEN NULL ELSE members[j + 1]
    <3>1. next'[members[j]] = IF (j + 1) + 1 \in 1..N THEN new[(j + 1) + 1] ELSE NULL
      BY <1>1, <1>3
    <3>2. (j + 1) + 1 \in 1..N <=> j # Len(members)
      BY <1>0
    <3>3. j # Len(members) => members[j + 1] = new[(j + 1) + 1]
      <4>1. j # Len(members) => j + 1 \in 1..Len(members)
        BY <1>0
      <4>. QED  BY <1>0, <4>1
    <3>. QED  BY <3>1, <3>2, <3>3
  <2>. QED  BY <1>2, <2>1, <2>2 DEF Chain
<1>7. List(o)' = members
  <2>1. (\A x \in allocated : \A s : Chain(s, child[x], next) => List(x) = s)'
    BY ListIsNext
  <2>. QED  BY <1>4, <1>6, <2>1
<1>8. \A x \in Items \ {o} : List(x)' = List(x)
  <2>1. ASSUME NEW x \in allocated
        PROVE  List(x)' = List(x)
    <3>1. Members(x) \subseteq allocated
      BY MembersFacts
    <3>2. child'[x] = child[x] /\ (\A n \in Members(x) : next'[n] = next[n]) /\ x \in allocated'
      BY <1>1, <1>4, <3>1
    <3>. QED  BY <3>2, ListKept
  <2>2. ASSUME NEW x \in ToSet(members)
        PROVE  List(x)' = << >> /\ x \in Items /\ x \notin allocated
    <3>1. PICK j \in 1..Len(members) : x = members[j]
      BY <1>3, <2>2
    <3>2. child'[x] = NULL /\ x \in Items /\ x \in ToSet(new)
      BY <1>1, <1>3, <1>4, <3>1
    <3>3. (\A y \in Items : child[y] = NULL => List(y) = << >>)'
      BY <1>4, ListEmptyNext
    <3>. QED  BY <1>1, <3>2, <3>3
  <2>. QED  BY <1>1, <1>3, <1>5, <2>1, <2>2, EmptyLists
<1>9. Content' = [Content EXCEPT ![o] = members] /\ Content'[o] = members
  BY <1>4, <1>7, <1>8 DEF Content
<1>10. IsInjective(new)
  BY <1>1 DEF IsInjective
<1>11. /\ allocated' = allocated \union ToSet(<<o>> \o members)
       /\ IsInjective(<<o>> \o members)
       /\ ToSet(members) \cap allocated = {}
  BY <1>1, <1>2, <1>3, <1>10
<1>12. \A n \in Items \ ToSet(members) : string'[n] = string[n]
  BY <1>1, <1>2, <1>3, <1>4 DEF Blank
<1>13. \A n \in ToSet(members) : string'[n] \in Keys \union {NULL}
  BY <1>1, <1>3, <1>4
<1>14. Objects!Parse(o)
  BY <1>4, <1>9, <1>11, <1>12, <1>13
     DEF Objects!Parse, Objects!ToSet, ToSet, Objects!IsInjective, IsInjective, Content
<1>. QED  BY <1>5, <1>14 DEF Objects!Next

\* The list of a copy: the copies of the members if all are copied, else nothing.
LEMMA CopyList ==
  ASSUME TreeInv, TreeInv', NEW r \in allocated, NEW T \in {{r}, Tree(r)}, NEW f \in Copies(T),
         cJSON_Duplicate(f), NEW a \in T
  PROVE  List(f[a])' = IF Members(a) \subseteq T
                       THEN [j \in DOMAIN List(a) |-> f[List(a)[j]]] ELSE << >>
<1>. DEFINE s == List(a)
            N == Len(s)
            t == [j \in DOMAIN s |-> f[s[j]]]
<1>1. CopiesLinked(T, f)
  BY DuplicateFields
<1>2. /\ T \in SUBSET allocated /\ f \in [T -> Items \ allocated] /\ f[a] \in allocated'
      /\ child'[f[a]] = IF child[a] \in T THEN f[child[a]] ELSE NULL
      /\ \A b \in T : next'[f[b]] = IF next[b] \in T THEN f[next[b]] ELSE NULL
      /\ NULL \notin T /\ a \in allocated /\ f[a] \in Items
  <2>1. f[a] \in Range(f)
    BY <1>1 DEF CopiesLinked, Range
  <2>. QED  BY <1>1, <2>1, PointerTypes DEF CopiesLinked, TreeInv
<1>3. /\ N \in Nat /\ DOMAIN s = 1..N /\ child[a] = IF N = 0 THEN NULL ELSE s[1]
      /\ \A j \in 1..N : /\ s[j] \in Members(a)
                         /\ next[s[j]] = IF j = N THEN NULL ELSE s[j + 1]
  <2>1. DOMAIN s = 1..N
    BY <1>2, PlaceFacts, LenProperties
  <2>. QED  BY <1>2, <2>1, PlaceFacts
<1>. HIDE DEF s, N
<1>4. CASE Members(a) \subseteq T
  <2>1. t \in [1..N -> Items] /\ t \in Seq(Items) /\ Len(t) = N
    BY <1>2, <1>3, <1>4
  <2>2. \A j \in 1..N : t[j] = f[s[j]] /\ s[j] \in T
    BY <1>3, <1>4
  <2>. HIDE DEF t
  <2>3. child'[f[a]] = IF N = 0 THEN NULL ELSE t[1]
    BY <1>2, <1>3, <2>2
  <2>4. ASSUME NEW j \in 1..N
        PROVE  next'[t[j]] = IF j = N THEN NULL ELSE t[j + 1]
    <3>1. next'[t[j]] = IF next[s[j]] \in T THEN f[next[s[j]]] ELSE NULL
      BY <1>2, <2>2
    <3>2. CASE j = N
      BY <1>2, <1>3, <3>1, <3>2
    <3>3. CASE j # N
      <4>1. j + 1 \in 1..N
        BY <1>3, <3>3
      <4>2. next[s[j]] = s[j + 1] /\ s[j + 1] \in T /\ t[j + 1] = f[s[j + 1]]
        BY <1>3, <2>2, <3>3, <4>1
      <4>. QED  BY <3>1, <3>3, <4>2
    <3>. QED  BY <3>2, <3>3
  <2>5. Chain(t, child'[f[a]], next')
    BY <2>1, <2>3, <2>4 DEF Chain
  <2>6. (\A x \in allocated : \A q : Chain(q, child[x], next) => List(x) = q)'
    BY ListIsNext
  <2>7. List(f[a])' = t
    BY <1>2, <2>5, <2>6
  <2>. QED  BY <1>4, <2>7 DEF t, s
<1>5. CASE ~ (Members(a) \subseteq T)
  <2>1. T = {r} /\ a = r
    BY <1>5, TreeLists
  <2>2. child[a] \notin T
    <3>1. r \notin Members(r)
      BY OwnerOutside, TreeFacts
    <3>2. child[r] # NULL => child[r] \in Members(r)
      BY MembersFacts
    <3>. QED  BY <1>2, <2>1, <3>1, <3>2
  <2>3. (\A x \in Items : child[x] = NULL => List(x) = << >>)'
    BY ListEmptyNext DEF TreeInv
  <2>4. List(f[a])' = << >>
    BY <1>2, <2>2, <2>3
  <2>. QED  BY <1>5, <2>4
<1>. QED  BY <1>4, <1>5

\* An item, or an item with all that is inside, is copied.
LEMMA DuplicateStep ==
  ASSUME TreeInv, TreeInv', Blank, NEW r \in allocated, NEW T \in {{r}, Tree(r)}, NEW f \in Copies(T),
         cJSON_Duplicate(f)
  PROVE  Blank' /\ Objects!Next
<1>. DEFINE Original(p) == CHOOSE n \in DOMAIN f : f[n] = p
<1>1. CopiesLinked(T, f)
  BY DuplicateFields
<1>2. /\ T \in SUBSET allocated /\ f \in [T -> Items \ allocated] /\ DOMAIN f = T
      /\ Range(f) = {f[a] : a \in T} /\ \A a, b \in T : f[a] = f[b] => a = b
      /\ allocated' = allocated \union Range(f) /\ allocated \cap Range(f) = {}
      /\ string' \in [Items -> Keys \union {NULL}]
      /\ \A a \in T : string'[f[a]] = string[a]
      /\ \A x \in Items \ Range(f) :
           child'[x] = child[x] /\ next'[x] = next[x] /\ string'[x] = string[x]
      /\ allocated \subseteq Items
  BY <1>1, PointerTypes DEF CopiesLinked, Range, TreeInv
<1>3. \A a \in T : Original(f[a]) = a
  BY <1>2
<1>4. \A p \in Range(f) : Original(p) \in T /\ f[Original(p)] = p
  BY <1>2, <1>3
<1>. HIDE DEF Original
<1>5. Blank'
  BY <1>2 DEF Blank
<1>6. \A x \in Items \ Range(f) : List(x)' = List(x)
  <2>1. ASSUME NEW x \in allocated
        PROVE  List(x)' = List(x)
    <3>1. Members(x) \subseteq allocated
      BY MembersFacts
    <3>2. child'[x] = child[x] /\ (\A n \in Members(x) : next'[n] = next[n]) /\ x \in allocated'
      BY <1>2, <3>1
    <3>. QED  BY <3>2, ListKept
  <2>. QED  BY <1>2, <1>5, <2>1, EmptyLists
<1>7. \A x \in Range(f) :
        List(x)' = IF ToSet(Content[Original(x)]) \subseteq DOMAIN f
                   THEN [j \in DOMAIN Content[Original(x)] |-> f[Content[Original(x)][j]]]
                   ELSE << >>
  <2>. SUFFICES ASSUME NEW a \in T
                PROVE  List(f[a])' = IF ToSet(Content[a]) \subseteq DOMAIN f
                                     THEN [j \in DOMAIN Content[a] |-> f[Content[a][j]]]
                                     ELSE << >>
    BY <1>2, <1>3
  <2>1. Content[a] = List(a) /\ ToSet(List(a)) = Members(a)
    BY <1>2, ListSet DEF Content
  <2>2. [j \in DOMAIN Content[a] |-> f[Content[a][j]]] = [j \in DOMAIN List(a) |-> f[List(a)[j]]]
    BY <2>1
  <2>3. List(f[a])' = IF Members(a) \subseteq T
                      THEN [j \in DOMAIN List(a) |-> f[List(a)[j]]] ELSE << >>
    BY CopyList
  <2>. QED  BY <1>2, <2>1, <2>2, <2>3
<1>8. Content' = [p \in Items |->
           IF p \notin Range(f) THEN Content[p]
           ELSE IF ToSet(Content[Original(p)]) \subseteq DOMAIN f
           THEN [j \in DOMAIN Content[Original(p)] |-> f[Content[Original(p)][j]]]
           ELSE << >>]
  <2>1. \A x \in Items : x \notin Range(f) => Content'[x] = Content[x]
    BY <1>6 DEF Content
  <2>2. Content' = [x \in Items |-> List(x)']
    BY DEF Content
  <2>. QED  BY <1>6, <1>7, <2>1, <2>2
<1>9. string' = [p \in Items |-> IF p \in Range(f) THEN string[Original(p)] ELSE string[p]]
  BY <1>2, <1>3
<1>10. Objects!Duplicate(f)
  BY <1>2, <1>8, <1>9
     DEF Objects!Duplicate, Original, Content, Objects!Range, Range, Objects!ToSet, ToSet
<1>11. IsInjective(f) /\ f \in [T -> allocated' \ allocated]
  BY <1>2 DEF IsInjective
<1>12. T \in {{r}, Objects!Inside(r)}
  BY InsideTree
<1>. QED  BY <1>5, <1>10, <1>11, <1>12 DEF Objects!Next, Objects!IsInjective, IsInjective

-----------------------------------------------------------------------------
(* The refinement.                                                         *)

\* No item exists at the start: every sequence is empty.
LEMMA InitObjects == Init => Blank /\ Objects!Init
<1>. SUFFICES ASSUME Init
              PROVE  Blank /\ Objects!Init
  OBVIOUS
<1>1. TypeOK
  BY InitIInv DEF TreeInv
<1>2. Blank
  BY DEF Init, Blank
<1>3. \A x \in Items : List(x) = << >>
  BY <1>1, ListEmpty DEF Init
<1>. QED  BY <1>2, <1>3 DEF Init, Objects!Init

\* The operations that take a name are operations on sequences ...
LEMMA NamedObjects ==
  ASSUME TreeInv, TreeInv', Blank, NEW o \in allocated, NEW k \in Keys, Named(o, k)
  PROVE  Blank' /\ (Objects!Next \/ UNCHANGED Objects!objects)
<1>. DEFINE item == get_object_item(o, k)
<1>1. item # NULL => item \in Members(o)
  BY FoundNamed
<1>2. CASE Detach(o, item)
  BY <1>1, <1>2, DetachStep DEF Detach
<1>3. CASE DeleteItem(o, item)
  BY <1>1, <1>3, DetachStep DEF DeleteItem
<1>4. ASSUME NEW r \in Items, cJSON_AddItemToObject(o, k, r)
      PROVE  Blank' /\ Objects!Next
  BY <1>4, AddStep
<1>5. ASSUME NEW r \in Items, cJSON_ReplaceItemInObject(o, k, r)
      PROVE  Blank' /\ (Objects!Next \/ UNCHANGED Objects!objects)
  BY <1>5, ReplaceInObjectStep
<1>. QED  BY <1>2, <1>3, <1>4, <1>5 DEF Named

\* ... and those that take a position.
LEMMA IndexedObjects ==
  ASSUME TreeInv, TreeInv', Blank, NEW o \in allocated, NEW i \in Places(o), Indexed(o, i)
  PROVE  Blank' /\ Objects!Next
<1>. DEFINE item == get_array_item(o, i)
<1>1. item # NULL => item \in Members(o)
  BY FoundAt
<1>2. CASE Detach(o, item)
  BY <1>1, <1>2, DetachStep DEF Detach
<1>3. CASE DeleteItem(o, item)
  BY <1>1, <1>3, DetachStep DEF DeleteItem
<1>4. ASSUME NEW r \in Items, cJSON_InsertItemInArray(o, i, r)
      PROVE  Blank' /\ Objects!Next
  BY <1>4, InsertStep
<1>5. ASSUME NEW r \in Items, cJSON_ReplaceItemInArray(o, i, r)
      PROVE  Blank' /\ Objects!Next
  BY <1>5, ReplaceInArrayStep
<1>. QED  BY <1>2, <1>3, <1>4, <1>5 DEF Indexed

\* Every step of the lists is a step of the sequences, or none of it.
LEMMA NextObjects ==
  TreeInv /\ TreeInv' /\ Blank /\ [Next]_vars => Blank' /\ [Objects!Next]_Objects!objects
<1>. SUFFICES ASSUME TreeInv, TreeInv', Blank, [Next]_vars
              PROVE  Blank' /\ (Objects!Next \/ UNCHANGED Objects!objects)
  OBVIOUS
<1>1. ASSUME NEW r \in Items, One(r)
      PROVE  Blank' /\ Objects!Next
  BY <1>1, CreateStep, DeleteStep DEF One
<1>2. ASSUME NEW o \in allocated, NEW k \in Keys, Named(o, k)
      PROVE  Blank' /\ (Objects!Next \/ UNCHANGED Objects!objects)
  BY <1>2, NamedObjects
<1>3. ASSUME NEW o \in allocated, NEW i \in Places(o), Indexed(o, i)
      PROVE  Blank' /\ Objects!Next
  BY <1>3, IndexedObjects
<1>4. ASSUME NEW o \in Items, NEW r \in Items, cJSON_AddItemToArray(o, r)
      PROVE  Blank' /\ Objects!Next
  BY <1>4, AddToArrayStep
<1>5. ASSUME NEW o \in Items, NEW members \in SeqOf(Items \ allocated, MaxMembers),
             NEW text \in Texts(Len(members)), cJSON_Parse(o, members, text)
      PROVE  Blank' /\ Objects!Next
  BY <1>5, ParseStep
<1>6. ASSUME NEW r \in allocated, NEW T \in {{r}, Tree(r)}, NEW f \in Copies(T),
             cJSON_Duplicate(f)
      PROVE  Blank' /\ Objects!Next
  BY <1>6, DuplicateStep
<1>7. CASE UNCHANGED vars
  <2>1. allocated' = allocated /\ child' = child /\ next' = next /\ string' = string
    BY <1>7 DEF vars
  <2>2. Blank'
    BY <2>1 DEF Blank
  <2>3. \A x \in allocated : List(x)' = List(x)
    BY <2>1, ListKept
  <2>4. \A x \in Items : List(x)' = List(x)
    BY <2>1, <2>2, <2>3, EmptyLists
  <2>. QED  BY <2>1, <2>2, <2>4 DEF Objects!objects
<1>. QED  BY <1>1, <1>2, <1>3, <1>4, <1>5, <1>6, <1>7 DEF Next

\* Whatever the items, the names and the order of the calls: the pointer surgery of
\* cJSON.c amounts to operations on sequences of named items, each call to one of them.
THEOREM Refinement == Spec => ImplementsObjects
<1>1. Spec => []TreeInv
  BY Invariance
<1>2. Init => Blank /\ Objects!Init
  BY InitObjects
<1>3. TreeInv /\ TreeInv' /\ Blank /\ [Next]_vars => Blank' /\ [Objects!Next]_Objects!objects
  BY NextObjects
<1>. QED  BY <1>1, <1>2, <1>3, PTL DEF Spec, ImplementsObjects, Objects!Spec
=============================================================================
