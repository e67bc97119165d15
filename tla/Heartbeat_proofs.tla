-------------------------- MODULE Heartbeat_proofs --------------------------
(***************************************************************************)
(* Proofs about module Heartbeat, for any places of a stamp, any clock,    *)
(* any order in which the C library deals with the places, and any length  *)
(* of time.                                                                *)
(***************************************************************************)
EXTENDS Heartbeat, TLAPS

-----------------------------------------------------------------------------
(* Steps.                                                                  *)

\* A thread begins a message: heartbeat_proc only while the flag is up.
Begins(t) ==
  /\ \E k \in Kinds : Begin(t, k) /\ (k = "heartbeat" <=> t = "hbt")
  /\ t = "hbt" => IsConnected

\* The steps of Next, by the thread that takes them.
LEMMA NextSteps ==
  ASSUME Next
  PROVE  \/ Tick \/ connect_callback \/ disconnect_callback \/ KeepBack
         \/ \E t \in Threads :
              \/ Begins(t) \/ Gmtime(t) \/ Strftime(t) \/ Gettimeofday(t)
              \/ Sprintf(t) \/ OwnTime(t) \/ AddStamp(t)
              \/ ToHandOver(t) \/ Publish(t)
<1>1. "app" \in Threads /\ "hbt" \in Threads
  BY DEF Threads
<1>2. SendData \/ SendDeviceStatus \/ UploadConfig \/ Disconnect => Begins("app")
  BY DEF SendData, SendDeviceStatus, UploadConfig, Disconnect, Begins, Kinds, DataKinds
<1>3. HeartbeatDue => Begins("hbt")
  BY DEF HeartbeatDue, Begins, Kinds
<1>. QED  BY <1>1, <1>2, <1>3 DEF Next, Network, Application, heartbeat_proc, Build

\* The library deals with a place that is left.
LEMMA TurnOfLeft ==
  ASSUME TypeOK, NEW t \in Threads, NEW p \in Turn(left[t])
  PROVE  p \in left[t] /\ p \in Places
BY TurnAssumption DEF TypeOK

\* A thread that has dealt with a place goes on with the others, or moves on.
LEMMA HandledCases ==
  ASSUME TypeOK, NEW t \in Threads, NEW p \in left[t], NEW next, NEW more,
         Handled(t, p, next, more)
  PROVE  /\ \/ left[t] = {p} /\ pc'[t] = next /\ left'[t] = more
            \/ left'[t] = left[t] \ {p} /\ left'[t] # {} /\ pc'[t] = pc[t]
         /\ pc' = [pc EXCEPT ![t] = pc'[t]] /\ left' = [left EXCEPT ![t] = left'[t]]
         /\ \A u \in Threads : u # t => pc'[u] = pc[u] /\ left'[u] = left[u]
<1>1. pc = [u \in Threads |-> pc[u]] /\ left = [u \in Threads |-> left[u]]
  BY DEF TypeOK
<1>2. CASE left[t] = {p}
  BY <1>1, <1>2 DEF Handled
<1>3. CASE left[t] # {p}
  <2>1. left' = [left EXCEPT ![t] = left[t] \ {p}] /\ pc' = pc
    BY <1>3 DEF Handled
  <2>2. left[t] \ {p} # {}
    BY <1>3
  <2>. QED  BY <1>1, <2>1, <2>2
<1>. QED  BY <1>2, <1>3

\* It has written that place then, and no other it had not written before.
LEMMA WrittenGrows ==
  ASSUME TypeOK, NEW t \in Threads, NEW p \in left[t], NEW next, NEW more,
         Handled(t, p, next, more),
         NEW at, pc[t] = at, next # at, NEW places, NEW after, at \notin after
  PROVE  Written(t, places, at, after)' \subseteq Written(t, places, at, after) \union {p}
BY HandledCases DEF Written

\* The program starts in a state the type invariant describes.
LEMMA InitTypeOK == Init => TypeOK
<1>. SUFFICES ASSUME Init
              PROVE  TypeOK
  OBVIOUS
<1>0. 0 \in 0..MaxTime /\ \A p \in Places : Part(0, p) \in Nat
  BY BoundAssumption, PartAssumption
<1>1. /\ now \in 0..MaxTime /\ IsConnected \in BOOLEAN
      /\ tm \in [SecPlaces -> Nat] /\ ts \in [Places -> Nat \union {Own, Nothing}]
  BY <1>0 DEF Init, Places
<1>2. /\ pc \in [Threads -> {"idle", "built", "publish"} \union Building]
      /\ left \in [Threads -> SUBSET Places]
      /\ \A t \in Threads : pc[t] = "idle" /\ left[t] = {}
  BY DEF Init
<1>3. /\ kind \in [Threads -> Kinds]
      /\ \A t \in Threads : kind[t] = "heartbeat" <=> t = "hbt"
  BY DEF Init, NoKind, Kinds, DataKinds
<1>4. local \in [Threads -> Locals]
  BY <1>0 DEF Init, Locals, NoLocals, NoText
<1>5. /\ stamp \in [Threads -> [Places -> Nat \union {Own, Nothing}]]
      /\ since \in [Threads -> Nat]
      /\ disturbed \in [Threads -> SUBSET {"tm", "ts"}] /\ late \in [Threads -> Nat]
  BY DEF Init, NoStamp
<1>. QED  BY <1>1, <1>2, <1>3, <1>4, <1>5 DEF TypeOK, Building

\* Every step of either thread keeps the types.
LEMMA NextTypeOK == TypeOK /\ [Next]_vars => TypeOK'
<1>. SUFFICES ASSUME TypeOK, [Next]_vars
              PROVE  TypeOK'
  OBVIOUS
<1>0. /\ MaxTime \in Nat /\ SecPlaces \subseteq Places /\ SecPlaces # {} /\ Places # {}
      /\ \A n \in 0..MaxTime, p \in Places : Part(n, p) \in Nat
  BY BoundAssumption, PartAssumption, PlacesAssumption DEF Places
<1>d. ASSUME NEW t \in Threads, NEW static \in {"tm", "ts"}, Disturb(t, static)
      PROVE  disturbed' \in [Threads -> SUBSET {"tm", "ts"}]
  <2>1. Other(t) \in Threads
    BY DEF Other, Threads
  <2>. QED  BY <2>1, <1>d DEF Disturb, TypeOK
<1>l. ASSUME NEW l \in Locals, NEW n \in 0..MaxTime, NEW p, NEW c \in Nat
      PROVE  /\ [l EXCEPT !.rawtime = n] \in Locals
             /\ [l EXCEPT !.tv = n] \in Locals
             /\ [l EXCEPT !.buffer = [l.buffer EXCEPT ![p] = c]] \in Locals
  BY DEF Locals
<1>1. CASE Tick \/ connect_callback \/ disconnect_callback
  <2>1. now' \in 0..MaxTime
    BY <1>0, <1>1 DEF TypeOK, Tick, connect_callback, disconnect_callback
  <2>2. IsConnected' \in BOOLEAN
    BY <1>1, Zenon DEF TypeOK, Tick, connect_callback, disconnect_callback
  <2>3. late' \in [Threads -> Nat]
    BY <1>1 DEF TypeOK, Tick, connect_callback, disconnect_callback
  <2>4. UNCHANGED <<tm, ts, pc, left, kind, local, stamp, since, disturbed>>
    BY <1>1 DEF Tick, connect_callback, disconnect_callback, shared, build
  <2>. QED  BY <2>1, <2>2, <2>3, <2>4 DEF TypeOK
<1>2. ASSUME NEW t \in Threads, Forget(t), pc[t] \in {"built", "publish"},
             late' \in [Threads -> Nat], UNCHANGED <<now, IsConnected, shared>>
      PROVE  TypeOK'
  <2>1. NoKind(t) \in Kinds /\ (NoKind(t) = "heartbeat" <=> t = "hbt")
    BY DEF NoKind, Kinds, DataKinds
  <2>2. left[t] = {}
    BY <1>2 DEF TypeOK, Building
  <2>. QED  BY <1>2, <2>1, <2>2 DEF Forget, NoStamp, TypeOK, Building, shared
<1>3. ASSUME NEW t \in Threads, Begins(t)
      PROVE  TypeOK'
  <2>1. PICK k \in Kinds : Begin(t, k) /\ (k = "heartbeat" <=> t = "hbt")
    BY <1>3 DEF Begins
  <2>2. Other(t) \in Threads
    BY DEF Other, Threads
  <2>3. since' \in [Threads -> Nat]
    BY <2>1, <2>2, <1>0 DEF Begin, TypeOK
  <2>4. local' \in [Threads -> Locals]
    <3>1. local' = [local EXCEPT ![t] = [local[t] EXCEPT !.rawtime = now]]
      BY <2>1 DEF Begin
    <3>. QED  BY <3>1, <1>l DEF TypeOK
  <2>5. left' = [left EXCEPT ![t] = SecPlaces] /\ pc' = [pc EXCEPT ![t] = "gmtime"]
        /\ kind' = [kind EXCEPT ![t] = k]
        /\ UNCHANGED <<now, IsConnected, tm, ts, stamp, disturbed, late>>
    BY <2>1 DEF Begin, shared
  <2>. QED  BY <2>1, <2>3, <2>4, <2>5, <1>0 DEF TypeOK, Building
<1>h. ASSUME NEW t \in Threads, NEW p \in left[t], NEW next, NEW more,
             Handled(t, p, next, more), kind' = kind,
             pc[t] \in {"gmtime", "strftime", "sprintf", "own", "copy"},
             next \in {"strftime", "gettimeofday", "own", "copy", "built"},
             more \in SUBSET Places, next = "strftime" => more = SecPlaces,
             more # {} <=> next \in {"strftime", "own", "copy"},
             next = "own" => kind[t] = "dataOwnTime"
      PROVE  /\ pc' \in [Threads -> {"idle", "built", "publish"} \union Building]
             /\ left' \in [Threads -> SUBSET Places]
             /\ \A u \in Threads :
                  /\ pc'[u] = "own" => kind'[u] = "dataOwnTime"
                  /\ pc'[u] \in {"gmtime", "strftime"} => left'[u] \subseteq SecPlaces
                  /\ left'[u] # {} <=> pc'[u] \in Building \ {"gettimeofday"}
  <2>1. /\ \/ pc'[t] = next /\ left'[t] = more
           \/ left'[t] = left[t] \ {p} /\ left'[t] # {} /\ pc'[t] = pc[t]
        /\ pc' = [pc EXCEPT ![t] = pc'[t]] /\ left' = [left EXCEPT ![t] = left'[t]]
        /\ \A u \in Threads : u # t => pc'[u] = pc[u] /\ left'[u] = left[u]
    BY <1>h, HandledCases
  <2>2. /\ pc'[t] \in Building \union {"built"} /\ left'[t] \in SUBSET Places
        /\ pc'[t] = "own" => kind[t] = "dataOwnTime"
        /\ pc'[t] \in {"gmtime", "strftime"} => left'[t] \subseteq SecPlaces
        /\ left'[t] # {} <=> pc'[t] \in Building \ {"gettimeofday"}
    BY <2>1, <1>h, <1>0 DEF TypeOK, Building
  <2>3. /\ pc' \in [Threads -> {"idle", "built", "publish"} \union Building]
        /\ left' \in [Threads -> SUBSET Places]
    <3>. DEFINE v == pc'[t]
                w == left'[t]
    <3>1. pc' = [pc EXCEPT ![t] = v] /\ left' = [left EXCEPT ![t] = w]
      BY <2>1
    <3>2. v \in {"idle", "built", "publish"} \union Building /\ w \in SUBSET Places
      BY <2>2
    <3>. HIDE DEF v, w
    <3>. QED  BY <3>1, <3>2 DEF TypeOK
  <2>4. ASSUME NEW u \in Threads, u # t
        PROVE  /\ pc'[u] = "own" => kind'[u] = "dataOwnTime"
               /\ pc'[u] \in {"gmtime", "strftime"} => left'[u] \subseteq SecPlaces
               /\ left'[u] # {} <=> pc'[u] \in Building \ {"gettimeofday"}
    BY <2>1, <2>4, <1>h DEF TypeOK
  <2>. QED  BY <2>2, <2>3, <2>4, <1>h
<1>4. ASSUME NEW t \in Threads, Gmtime(t)
      PROVE  TypeOK'
  <2>1. PICK p \in Turn(left[t]) : /\ tm' = [tm EXCEPT ![p] = Part(local[t].rawtime, p)]
                                   /\ Handled(t, p, "strftime", SecPlaces)
    BY <1>4 DEF Gmtime
  <2>2. p \in left[t] /\ p \in SecPlaces /\ p \in Places
    BY <1>4, TurnOfLeft DEF Gmtime, TypeOK
  <2>3. tm' \in [SecPlaces -> Nat]
    <3>1. local[t].rawtime \in 0..MaxTime
      BY DEF TypeOK, Locals
    <3>2. Part(local[t].rawtime, p) \in Nat
      BY <3>1, <2>2, <1>0
    <3>. QED  BY <3>2, <2>1, <2>2 DEF TypeOK
  <2>4. pc[t] = "gmtime" /\ UNCHANGED <<now, IsConnected, ts, kind, local, stamp, since, late>>
    BY <1>4 DEF Gmtime
  <2>5. disturbed' \in [Threads -> SUBSET {"tm", "ts"}]
    BY <1>4, <1>d DEF Gmtime
  <2>6. SecPlaces \in SUBSET Places /\ SecPlaces # {}
    BY <1>0
  <2>. QED  BY <2>1, <2>2, <2>3, <2>4, <2>5, <2>6, <1>h DEF TypeOK
<1>5. ASSUME NEW t \in Threads, Strftime(t)
      PROVE  TypeOK'
  <2>1. PICK p \in Turn(left[t]) : /\ local' = [local EXCEPT ![t].buffer[p] = tm[p]]
                                   /\ Handled(t, p, "gettimeofday", {})
    BY <1>5 DEF Strftime
  <2>2. p \in left[t] /\ p \in SecPlaces /\ tm[p] \in Nat
    BY <1>5, TurnOfLeft DEF Strftime, TypeOK
  <2>3. local' \in [Threads -> Locals]
    <3>1. local' = [local EXCEPT ![t] = [local[t] EXCEPT !.buffer =
                      [local[t].buffer EXCEPT ![p] = tm[p]]]]
      BY <2>1
    <3>2. local[t] \in Locals /\ 0 \in 0..MaxTime
      BY <1>0 DEF TypeOK
    <3>. QED  BY <2>2, <3>1, <3>2, <1>l DEF TypeOK
  <2>4. /\ pc[t] = "strftime"
        /\ UNCHANGED <<now, IsConnected, tm, ts, kind, stamp, since, disturbed, late>>
    BY <1>5 DEF Strftime, shared
  <2>. QED  BY <2>1, <2>2, <2>3, <2>4, <1>h DEF TypeOK
<1>6. ASSUME NEW t \in Threads, Gettimeofday(t)
      PROVE  TypeOK'
  <2>1. local' \in [Threads -> Locals]
    <3>1. local' = [local EXCEPT ![t] = [local[t] EXCEPT !.tv = now]]
      BY <1>6 DEF Gettimeofday, Microseconds
    <3>. QED  BY <3>1, <1>l DEF TypeOK
  <2>2. /\ pc' = [pc EXCEPT ![t] = "sprintf"] /\ left' = [left EXCEPT ![t] = Places]
        /\ UNCHANGED <<now, IsConnected, tm, ts, kind, stamp, since, disturbed, late>>
    BY <1>6 DEF Gettimeofday, shared
  <2>. QED  BY <2>1, <2>2, <1>0 DEF TypeOK, Building
<1>7. ASSUME NEW t \in Threads, Sprintf(t)
      PROVE  TypeOK'
  <2>. DEFINE next == AfterGetTime(kind[t])
              more == IF next = "built" THEN {} ELSE Places
  <2>1. PICK p \in Turn(left[t]) :
          /\ ts' = [ts EXCEPT ![p] = IF p \in SecPlaces THEN local[t].buffer[p]
                                     ELSE Part(local[t].tv, p)]
          /\ Handled(t, p, next, more)
          /\ local' = IF left[t] = {p} THEN [local EXCEPT ![t] = NoLocals] ELSE local
    BY <1>7 DEF Sprintf
  <2>2. p \in left[t] /\ p \in Places
    BY <2>1, TurnOfLeft
  <2>3. ts' \in [Places -> Nat \union {Own, Nothing}]
    <3>1. local[t].tv \in 0..MaxTime /\ local[t].buffer \in [SecPlaces -> Nat \union {Nothing}]
      BY DEF TypeOK, Locals
    <3>2. Part(local[t].tv, p) \in Nat
      BY <3>1, <2>2, <1>0
    <3>3. p \in SecPlaces => local[t].buffer[p] \in Nat \union {Nothing}
      BY <3>1
    <3>. QED  BY <3>2, <3>3, <2>1, <2>2 DEF TypeOK
  <2>4. local' \in [Threads -> Locals]
    BY <2>1, <1>0 DEF TypeOK, Locals, NoLocals, NoText
  <2>5. next \in {"own", "built", "copy"} /\ (next = "own" => kind[t] = "dataOwnTime")
    BY DEF AfterGetTime
  <2>6. more \in SUBSET Places /\ (more # {} <=> next \in {"own", "copy"})
    BY <2>5, <1>0
  <2>7. pc[t] = "sprintf" /\ UNCHANGED <<now, IsConnected, tm, kind, stamp, since, late>>
    BY <1>7 DEF Sprintf
  <2>8. disturbed' \in [Threads -> SUBSET {"tm", "ts"}]
    BY <1>7, <1>d DEF Sprintf
  <2>. HIDE DEF next, more
  <2>. QED  BY <2>1, <2>2, <2>3, <2>4, <2>5, <2>6, <2>7, <2>8, <1>h DEF TypeOK
<1>8. ASSUME NEW t \in Threads, OwnTime(t)
      PROVE  TypeOK'
  <2>1. PICK p \in Turn(left[t]) : /\ ts' = [ts EXCEPT ![p] = Own]
                                   /\ Handled(t, p, "copy", Places)
    BY <1>8 DEF OwnTime
  <2>2. p \in left[t] /\ ts' \in [Places -> Nat \union {Own, Nothing}]
    BY <2>1, TurnOfLeft DEF TypeOK
  <2>3. pc[t] = "own" /\ UNCHANGED <<now, IsConnected, tm, kind, local, stamp, since, late>>
    BY <1>8 DEF OwnTime
  <2>4. disturbed' \in [Threads -> SUBSET {"tm", "ts"}]
    BY <1>8, <1>d DEF OwnTime
  <2>. QED  BY <2>1, <2>2, <2>3, <2>4, <1>0, <1>h DEF TypeOK
<1>9. ASSUME NEW t \in Threads, AddStamp(t)
      PROVE  TypeOK'
  <2>1. PICK p \in Turn(left[t]) : /\ stamp' = [stamp EXCEPT ![t][p] = ts[p]]
                                   /\ Handled(t, p, "built", {})
    BY <1>9 DEF AddStamp
  <2>2. p \in left[t] /\ p \in Places
    BY <2>1, TurnOfLeft
  <2>3. stamp' \in [Threads -> [Places -> Nat \union {Own, Nothing}]]
    BY <2>1, <2>2 DEF TypeOK
  <2>4. /\ pc[t] = "copy"
        /\ UNCHANGED <<now, IsConnected, tm, ts, kind, local, since, disturbed, late>>
    BY <1>9 DEF AddStamp, shared
  <2>. QED  BY <2>1, <2>2, <2>3, <2>4, <1>h DEF TypeOK
<1>10. ASSUME NEW t \in Threads, ToHandOver(t)
       PROVE  TypeOK'
  BY <1>10 DEF ToHandOver, TypeOK, shared, build, Building
<1>11. CASE UNCHANGED vars
  BY <1>11 DEF vars, shared, build, TypeOK
<1>. QED
  <2>1. KeepBack => TypeOK'
    <3>. SUFFICES ASSUME KeepBack  PROVE TypeOK'
      OBVIOUS
    <3>1. /\ "app" \in Threads /\ pc["app"] = "built" /\ Forget("app")
          /\ UNCHANGED <<now, IsConnected, shared, late>>
      BY DEF KeepBack, Threads
    <3>2. late' \in [Threads -> Nat]
      BY <3>1 DEF TypeOK
    <3>. QED  BY <3>1, <3>2, <1>2
  <2>2. ASSUME NEW t \in Threads, Publish(t)
        PROVE  TypeOK'
    <3>1. late' \in [Threads -> Nat]
      BY <2>2 DEF Publish, TypeOK
    <3>. QED  BY <2>2, <3>1, <1>2 DEF Publish
  <2>. QED
    BY <1>1, <1>3, <1>4, <1>5, <1>6, <1>7, <1>8, <1>9, <1>10, <1>11, <2>1, <2>2, NextSteps

\* Type correctness: in particular a heartbeat never takes the path of data.Time.
THEOREM TypeCorrect == Spec => []TypeOK
<1>. QED  BY InitTypeOK, NextTypeOK, PTL DEF Spec

-----------------------------------------------------------------------------
(* The flag.                                                               *)

\* A step inside a build leaves the flag, and whether a message is pending.
LEMMA BuildSteps ==
  ASSUME TypeOK, NEW t \in Threads,
         Gmtime(t) \/ Strftime(t) \/ Gettimeofday(t) \/ Sprintf(t) \/ OwnTime(t) \/ AddStamp(t)
  PROVE  /\ pc[t] \notin {"idle", "built", "publish"} /\ pc'[t] \notin {"idle", "publish"}
         /\ \A u \in Threads : u # t => pc'[u] = pc[u] /\ left'[u] = left[u]
         /\ UNCHANGED <<now, IsConnected, kind, since, late>>
<1>1. ASSUME NEW p \in Turn(left[t]), NEW next, NEW more, Handled(t, p, next, more),
             next \notin {"idle", "publish"}, pc[t] \notin {"idle", "publish"}
      PROVE  /\ pc'[t] \notin {"idle", "publish"}
             /\ \A u \in Threads : u # t => pc'[u] = pc[u] /\ left'[u] = left[u]
  BY <1>1, TurnOfLeft, HandledCases
<1>2. CASE Gmtime(t)
  BY <1>1, <1>2 DEF Gmtime
<1>3. CASE Strftime(t)
  BY <1>1, <1>3 DEF Strftime
<1>4. CASE Gettimeofday(t)
  BY <1>4 DEF Gettimeofday, TypeOK
<1>5. CASE Sprintf(t)
  <2>1. AfterGetTime(kind[t]) \notin {"idle", "publish"}
    BY DEF AfterGetTime
  <2>. QED  BY <1>1, <1>5, <2>1 DEF Sprintf
<1>6. CASE OwnTime(t)
  BY <1>1, <1>6 DEF OwnTime
<1>7. CASE AddStamp(t)
  BY <1>1, <1>7 DEF AddStamp
<1>. QED  BY <1>2, <1>3, <1>4, <1>5, <1>6, <1>7

\* The flag is tested before each conditional publication, once.
LEMMA NextLateInv == TypeOK /\ LateInv /\ [Next]_vars => LateInv'
<1>. SUFFICES ASSUME TypeOK, LateInv, [Next]_vars
              PROVE  LateInv'
  OBVIOUS
<1>0. /\ IsConnected \in BOOLEAN
      /\ pc \in [Threads -> {"idle", "built", "publish"} \union Building]
      /\ kind \in [Threads -> Kinds]
      /\ \A t \in Threads : kind[t] = "heartbeat" <=> t = "hbt"
      /\ late \in [Threads -> Nat]
      /\ Threads = {"app", "hbt"}
  BY DEF TypeOK, Threads
<1>. USE <1>0 DEF LateInv, Pending
<1>1. CASE Tick \/ connect_callback \/ disconnect_callback
  BY <1>1 DEF Tick, connect_callback, disconnect_callback, build
<1>2. CASE KeepBack
  BY <1>2 DEF KeepBack, Forget
<1>3. ASSUME NEW t \in Threads, Begins(t)
      PROVE  LateInv'
  <2>1. PICK k \in Kinds : Begin(t, k)
    BY <1>3 DEF Begins
  <2>2. t = "hbt" => IsConnected
    BY <1>3 DEF Begins
  <2>. QED  BY <2>1, <2>2 DEF Begin
<1>4. ASSUME NEW t \in Threads,
             Gmtime(t) \/ Strftime(t) \/ Gettimeofday(t) \/ Sprintf(t) \/ OwnTime(t) \/ AddStamp(t)
      PROVE  LateInv'
  <2>1. /\ pc[t] # "idle" /\ pc'[t] \notin {"idle", "publish"}
        /\ \A u \in Threads : u # t => pc'[u] = pc[u]
        /\ UNCHANGED <<IsConnected, kind, late>>
    BY <1>4, BuildSteps
  <2>. QED  BY <2>1
<1>5. ASSUME NEW t \in Threads, ToHandOver(t)
      PROVE  LateInv'
  <2>1. /\ pc[t] = "built" /\ pc' = [pc EXCEPT ![t] = "publish"]
        /\ UNCHANGED <<IsConnected, kind, late>>
        /\ kind[t] \in DataKinds \union {"status"} => IsConnected
    BY <1>5 DEF ToHandOver, build
  <2>2. t # "hbt" /\ kind[t] \in Conditional => IsConnected
    BY <2>1 DEF Conditional
  <2>. QED  BY <2>1, <2>2
<1>6. ASSUME NEW t \in Threads, Publish(t)
      PROVE  LateInv'
  BY <1>6 DEF Publish, Forget, Conditional, DataKinds
<1>7. CASE UNCHANGED vars
  BY <1>7 DEF vars, build
<1>. QED
  BY <1>1, <1>2, <1>3, <1>4, <1>5, <1>6, <1>7, NextSteps

-----------------------------------------------------------------------------
(* The shared buffer.                                                      *)

\* A thread that begins, or whose message is gone, has nothing in it.
LEMMA Emptied ==
  ASSUME TypeOK, NEW t \in Threads, Forget(t), pc[t] \in {"built", "publish"}
  PROVE  /\ pc'[t] = "idle" /\ stamp'[t] = NoStamp /\ since'[t] = 0
         /\ \A u \in Threads : u # t =>
              /\ pc'[u] = pc[u] /\ left'[u] = left[u] /\ kind'[u] = kind[u]
              /\ local'[u] = local[u] /\ stamp'[u] = stamp[u] /\ since'[u] = since[u]
              /\ disturbed'[u] = disturbed[u]
BY DEF Forget, TypeOK

\* Writing to a static object leaves a note with a thread that relies on it, and
\* with nobody else.
LEMMA DisturbedThread ==
  ASSUME TypeOK, NEW t \in Threads, NEW static \in {"tm", "ts"}, Disturb(t, static)
  PROVE  /\ disturbed'[t] = disturbed[t]
         /\ \A u \in Threads : u # t =>
              /\ disturbed[u] \subseteq disturbed'[u]
              /\ Exposed(u, static) => static \in disturbed'[u]
              /\ ~ Exposed(u, static) => disturbed'[u] = disturbed[u]
BY DEF Disturb, Other, Threads, TypeOK

\* What is left of the effects on one thread of the other's steps in a build.
LEMMA OtherThread ==
  ASSUME TypeOK, NEW t \in Threads, NEW u \in Threads, u # t,
         Gmtime(t) \/ Strftime(t) \/ Gettimeofday(t) \/ Sprintf(t) \/ OwnTime(t) \/ AddStamp(t)
  PROVE  /\ local'[u] = local[u] /\ stamp'[u] = stamp[u]
         /\ disturbed[u] \subseteq disturbed'[u]
         /\ tm' = tm \/ (Gmtime(t) /\ (Exposed(u, "tm") => "tm" \in disturbed'[u]))
         /\ ts' = ts \/ ((Sprintf(t) \/ OwnTime(t)) /\ (Exposed(u, "ts") => "ts" \in disturbed'[u]))
<1>1. CASE Gmtime(t)
  BY <1>1, DisturbedThread DEF Gmtime
<1>2. CASE Strftime(t)
  BY <1>2 DEF Strftime, shared, TypeOK
<1>3. CASE Gettimeofday(t)
  BY <1>3 DEF Gettimeofday, shared, TypeOK
<1>4. CASE Sprintf(t)
  <2>1. local'[u] = local[u]
    BY <1>4 DEF Sprintf, TypeOK
  <2>. QED  BY <1>4, <2>1, DisturbedThread DEF Sprintf
<1>5. CASE OwnTime(t)
  BY <1>5, DisturbedThread DEF OwnTime
<1>6. CASE AddStamp(t)
  BY <1>6 DEF AddStamp, shared, TypeOK
<1>. QED  BY <1>1, <1>2, <1>3, <1>4, <1>5, <1>6

\* What the clock shows is a character.
LEMMA RecentOfClock ==
  ASSUME TypeOK, NEW t \in Threads, NEW p \in Places, NEW c, Recent(t, p, c)
  PROVE  c \in Nat /\ OfClock(c)
<1>1. PICK n \in since[t]..now : c = Part(n, p)
  BY DEF Recent
<1>2. n \in 0..MaxTime
  BY <1>1, BoundAssumption DEF TypeOK
<1>. QED  BY <1>1, <1>2, PartAssumption DEF OfClock

\* A thread finds in the buffer, and copies, what it has put there, unless the
\* other one has written to it since.
LEMMA NextBufferInv == TypeOK /\ RecentInv /\ BufferInv /\ [Next]_vars => BufferInv'
<1>. SUFFICES ASSUME TypeOK, RecentInv, BufferInv, [Next]_vars, NEW u \in Threads
              PROVE  BufferOf(u)'
  BY DEF BufferInv
<1>0. /\ SecPlaces \subseteq Places /\ MilliPlaces \subseteq Places
      /\ ts \in [Places -> Nat \union {Own, Nothing}]
      /\ stamp \in [Threads -> [Places -> Nat \union {Own, Nothing}]]
  BY DEF TypeOK, Places
<1>1. BufferOf(u)
  BY DEF BufferInv
<1>2. CASE UNCHANGED <<pc, left, kind, ts, stamp, disturbed>>
  BY <1>1, <1>2 DEF BufferOf, Stamped, InTs, InStamp, Written
<1>3. ASSUME NEW t \in Threads, pc[t] \in {"built", "publish"}, Forget(t), UNCHANGED ts
      PROVE  BufferOf(u)'
  <2>1. CASE u = t
    BY <2>1, <1>3, Emptied DEF BufferOf, Stamped
  <2>2. CASE u # t
    BY <2>2, <1>1, <1>3, Emptied DEF BufferOf, Stamped, InTs, InStamp, Written
  <2>. QED  BY <2>1, <2>2
<1>4. ASSUME NEW t \in Threads, Begins(t)
      PROVE  BufferOf(u)'
  <2>1. /\ pc[t] = "idle" /\ pc'[t] = "gmtime"
        /\ \A v \in Threads : v # t => pc'[v] = pc[v] /\ left'[v] = left[v] /\ kind'[v] = kind[v]
        /\ UNCHANGED <<ts, stamp, disturbed>>
    BY <1>4 DEF Begins, Begin, shared, TypeOK
  <2>. QED  BY <2>1, <1>1 DEF BufferOf, Stamped, InTs, InStamp, Written
<1>5. ASSUME NEW t \in Threads, ToHandOver(t)
      PROVE  BufferOf(u)'
  <2>1. /\ pc[t] = "built" /\ pc'[t] = "publish"
        /\ \A v \in Threads : v # t => pc'[v] = pc[v]
        /\ UNCHANGED <<ts, left, kind, stamp, disturbed>>
    BY <1>5 DEF ToHandOver, shared, build, TypeOK
  <2>. QED  BY <2>1, <1>1 DEF BufferOf, Stamped, InTs, InStamp, Written
<1>6. ASSUME NEW t \in Threads, u # t,
             Gmtime(t) \/ Strftime(t) \/ Gettimeofday(t) \/ Sprintf(t) \/ OwnTime(t) \/ AddStamp(t)
      PROVE  BufferOf(u)'
  <2>1. /\ pc'[u] = pc[u] /\ left'[u] = left[u] /\ kind'[u] = kind[u] /\ stamp'[u] = stamp[u]
        /\ disturbed[u] \subseteq disturbed'[u]
        /\ ts' = ts \/ (Exposed(u, "ts") => "ts" \in disturbed'[u])
    BY <1>6, BuildSteps, OtherThread
  <2>2. CASE ts' = ts
    BY <2>1, <2>2, <1>1 DEF BufferOf, Stamped, InTs, InStamp, Written
  <2>3. CASE Exposed(u, "ts") => "ts" \in disturbed'[u]
    BY <2>1, <2>3, <1>1 DEF BufferOf, Stamped, Exposed, InTs, InStamp, Written
  <2>. QED  BY <2>1, <2>2, <2>3
<1>7. ASSUME Gmtime(u) \/ Strftime(u) \/ Gettimeofday(u)
      PROVE  BufferOf(u)'
  <2>1. pc'[u] \in {"gmtime", "strftime", "gettimeofday", "sprintf"}
    <3>1. CASE Gmtime(u)
      BY <3>1, TurnOfLeft, HandledCases DEF Gmtime
    <3>2. CASE Strftime(u)
      BY <3>2, TurnOfLeft, HandledCases DEF Strftime
    <3>3. CASE Gettimeofday(u)
      BY <3>3 DEF Gettimeofday, TypeOK
    <3>. QED  BY <1>7, <3>1, <3>2, <3>3
  <2>2. pc'[u] = "sprintf" => left'[u] = Places
    <3>1. CASE Gmtime(u)
      BY <3>1, TurnOfLeft, HandledCases DEF Gmtime
    <3>2. CASE Strftime(u)
      BY <3>2, TurnOfLeft, HandledCases DEF Strftime
    <3>3. CASE Gettimeofday(u)
      BY <3>3 DEF Gettimeofday, TypeOK
    <3>. QED  BY <1>7, <3>1, <3>2, <3>3
  <2>3. stamp'[u] = NoStamp
    <3>1. pc[u] \notin {"copy", "built", "publish"} /\ stamp' = stamp
      BY <1>7 DEF Gmtime, Strftime, Gettimeofday
    <3>. QED  BY <3>1, <1>1 DEF BufferOf
  <2>. QED  BY <2>1, <2>2, <2>3 DEF BufferOf, Stamped, InTs, Written
<1>8. ASSUME Sprintf(u)
      PROVE  BufferOf(u)'
  <2>. DEFINE next == AfterGetTime(kind[u])
              more == IF next = "built" THEN {} ELSE Places
              c(p) == IF p \in SecPlaces THEN local[u].buffer[p] ELSE Part(local[u].tv, p)
  <2>1. PICK p \in Turn(left[u]) : ts' = [ts EXCEPT ![p] = c(p)] /\ Handled(u, p, next, more)
    BY <1>8 DEF Sprintf
  <2>2. p \in left[u] /\ p \in Places
    BY TurnOfLeft
  <2>3. /\ pc[u] = "sprintf" /\ disturbed'[u] = disturbed[u] /\ UNCHANGED <<kind, stamp>>
        /\ stamp[u] = NoStamp
    BY <1>8, <1>1, DisturbedThread DEF Sprintf, BufferOf
  <2>4. OfClock(c(p))
    <3>1. CASE p \in SecPlaces
      <4>1. Recent(u, p, local[u].buffer[p])
        BY <2>3, <3>1 DEF RecentInv, RecentOf, InBuffer, Written
      <4>. QED  BY <4>1, <3>1, <2>2, RecentOfClock
    <3>2. CASE p \notin SecPlaces
      <4>1. local[u].tv \in 0..MaxTime
        BY DEF TypeOK, Locals
      <4>. QED  BY <4>1, <3>2, <2>2, PartAssumption DEF OfClock
    <3>. QED  BY <3>1, <3>2
  <2>. HIDE DEF c
  <2>5. ts'[p] = c(p) /\ \A q \in Places : q # p => ts'[q] = ts[q]
    BY <2>1, <2>2, <1>0
  <2>6. \/ left[u] = {p} /\ pc'[u] = next /\ left'[u] = more
        \/ left'[u] = left[u] \ {p} /\ pc'[u] = pc[u]
    BY <2>1, <2>2, HandledCases
  <2>7. CASE pc'[u] = pc[u] /\ left'[u] = left[u] \ {p}
    BY <2>3, <2>4, <2>5, <2>7, <1>1 DEF BufferOf, Stamped, InTs, Written
  <2>8. CASE left[u] = {p} /\ pc'[u] = next /\ left'[u] = more
    <3>1. "ts" \notin disturbed'[u] => \A q \in Places : OfClock(ts'[q])
      BY <2>3, <2>4, <2>5, <2>8, <1>1 DEF BufferOf, InTs, Written
    <3>2. CASE kind[u] = "dataOwnTime"
      BY <3>2, <2>3, <2>8 DEF BufferOf, Stamped, AfterGetTime
    <3>3. CASE kind[u] = "dataBadTime"
      <4>1. pc'[u] = "built" /\ \A q \in Places : stamp'[u][q] = Nothing
        BY <3>3, <2>3, <2>8 DEF AfterGetTime, NoStamp
      <4>. QED  BY <4>1, <3>3, <2>3 DEF BufferOf, Stamped, Proper
    <3>4. CASE kind[u] \notin {"dataOwnTime", "dataBadTime"}
      <4>1. pc'[u] = "copy" /\ left'[u] = Places
        BY <3>4, <2>8 DEF AfterGetTime
      <4>. QED  BY <4>1, <3>1, <3>4, <2>3 DEF BufferOf, Stamped, Proper, InStamp, Written
    <3>. QED  BY <3>2, <3>3, <3>4
  <2>. QED  BY <2>6, <2>7, <2>8
<1>9. ASSUME OwnTime(u)
      PROVE  BufferOf(u)'
  <2>1. PICK p \in Turn(left[u]) : ts' = [ts EXCEPT ![p] = Own] /\ Handled(u, p, "copy", Places)
    BY <1>9 DEF OwnTime
  <2>2. p \in left[u] /\ p \in Places
    BY TurnOfLeft
  <2>3. /\ pc[u] = "own" /\ disturbed'[u] = disturbed[u] /\ UNCHANGED <<kind, stamp>>
        /\ stamp[u] = NoStamp /\ kind[u] = "dataOwnTime"
    BY <1>9, <1>1, DisturbedThread DEF OwnTime, BufferOf, TypeOK
  <2>4. ts'[p] = Own /\ \A q \in Places : q # p => ts'[q] = ts[q]
    BY <2>1, <2>2, <1>0
  <2>5. CASE pc'[u] = pc[u] /\ left'[u] = left[u] \ {p}
    BY <2>3, <2>4, <2>5, <1>1 DEF BufferOf, Stamped, InTs, Written
  <2>6. CASE left[u] = {p} /\ pc'[u] = "copy" /\ left'[u] = Places
    <3>1. "ts" \notin disturbed'[u] => \A q \in Places : ts'[q] = Own
      BY <2>3, <2>4, <2>6, <1>1 DEF BufferOf
    <3>. QED  BY <3>1, <2>3, <2>6 DEF BufferOf, Stamped, Proper, InStamp, Written
  <2>. QED  BY <2>1, <2>2, <2>5, <2>6, HandledCases
<1>10. ASSUME AddStamp(u)
       PROVE  BufferOf(u)'
  <2>1. PICK p \in Turn(left[u]) : /\ stamp' = [stamp EXCEPT ![u][p] = ts[p]]
                                   /\ Handled(u, p, "built", {})
    BY <1>10 DEF AddStamp
  <2>2. p \in left[u] /\ p \in Places
    BY TurnOfLeft
  <2>3. pc[u] = "copy" /\ UNCHANGED <<kind, ts, disturbed>>
    BY <1>10 DEF AddStamp, shared
  <2>4. stamp'[u][p] = ts[p] /\ \A q \in Places : q # p => stamp'[u][q] = stamp[u][q]
    BY <2>1, <2>2, <1>0
  <2>5. CASE pc'[u] = pc[u] /\ left'[u] = left[u] \ {p}
    BY <2>3, <2>4, <2>5, <1>1 DEF BufferOf, Stamped, InStamp, Written
  <2>6. CASE left[u] = {p} /\ pc'[u] = "built" /\ left'[u] = {}
    <3>1. "ts" \notin disturbed[u] => \A q \in Places : stamp'[u][q] = ts[q]
      BY <2>3, <2>4, <2>6, <1>1 DEF BufferOf, InStamp, Written
    <3>2. "ts" \notin disturbed[u] => Proper(kind[u], ts)
      BY <2>3, <1>1 DEF BufferOf
    <3>. QED  BY <3>1, <3>2, <2>3, <2>6 DEF BufferOf, Stamped, Proper
  <2>. QED  BY <2>1, <2>2, <2>5, <2>6, HandledCases
<1>. QED
  <2>. DEFINE same == UNCHANGED <<pc, left, kind, ts, stamp, disturbed>>
  <2>1. Tick \/ connect_callback \/ disconnect_callback \/ UNCHANGED vars => same
    BY DEF Tick, connect_callback, disconnect_callback, vars, shared, build
  <2>2. KeepBack => BufferOf(u)'
    BY <1>3 DEF KeepBack, Threads, shared
  <2>3. \A t \in Threads : Publish(t) => BufferOf(u)'
    BY <1>3 DEF Publish, shared
  <2>. HIDE DEF same
  <2>4. same => BufferOf(u)'
    BY <1>2 DEF same
  <2>. QED
    BY <2>1, <2>2, <2>3, <2>4, <1>4, <1>5, <1>6, <1>7, <1>8, <1>9, <1>10, NextSteps

-----------------------------------------------------------------------------
(* What the clock has shown.                                               *)

\* It does not become less recent while a thread goes on with its message.
LEMMA RecentKept ==
  ASSUME TypeOK, TypeOK', NEW t \in Threads, since'[t] = since[t], now <= now',
         NEW p, NEW c, Recent(t, p, c)
  PROVE  Recent(t, p, c)'
<1>1. since[t] \in Nat /\ now \in Int /\ now' \in Int
  BY BoundAssumption DEF TypeOK
<1>2. PICK n \in since[t]..now : c = Part(n, p)
  BY DEF Recent
<1>3. n \in since[t]..now'
  BY <1>1, <1>2
<1>. QED  BY <1>2, <1>3 DEF Recent

\* Two threads inside builders may rely on the same instants.
LEMMA RecentForBoth ==
  ASSUME RecentInv, NEW t \in Threads, NEW u \in Threads,
         pc[t] \in Building, pc[u] \in Building, NEW p, NEW c, Recent(t, p, c)
  PROVE  Recent(u, p, c)
BY DEF RecentInv, Recent, Threads

\* No step leaves a thread a place that is older than the builds it overlaps.
LEMMA NextRecentInv == TypeOK /\ BufferInv /\ RecentInv /\ [Next]_vars => RecentInv'
<1>. SUFFICES ASSUME TypeOK, BufferInv, RecentInv, [Next]_vars
              PROVE  RecentInv'
  OBVIOUS
<1>0. TypeOK' /\ SecPlaces \subseteq Places /\ MilliPlaces \subseteq Places
  BY NextTypeOK DEF Places
<1>1. \A t \in Threads : RecentOf(t)
  BY DEF RecentInv
<1>2. /\ since \in [Threads -> Nat] /\ now \in Nat /\ now' \in Nat /\ MaxTime \in Nat
      /\ \A t \in Threads : since[t] <= now /\ since[t] \in Nat
  <2>1. since \in [Threads -> Nat] /\ now \in Nat /\ now' \in Nat /\ MaxTime \in Nat
    BY <1>0, BoundAssumption DEF TypeOK
  <2>. QED  BY <2>1, <1>1 DEF RecentOf
<1>. DEFINE Agree == (\A t \in Threads : pc[t] \in Building) => since["app"] = since["hbt"]
<1>3. ASSUME NEW u \in Threads, since'[u] = since[u], now <= now', now' \in Nat,
             pc'[u] = pc[u], left'[u] = left[u], local'[u] = local[u], stamp'[u] = stamp[u],
             \A p \in InTm(u) : tm'[p] = tm[p] \/ Recent(u, p, tm'[p]),
             \A p \in InTs(u) : ts'[p] = ts[p] \/ (OfClock(ts'[p]) => Recent(u, p, ts'[p]))
      PROVE  RecentOf(u)'
  <2>1. /\ InTm(u)' = InTm(u) /\ InBuffer(u)' = InBuffer(u) /\ InTs(u)' = InTs(u)
    BY <1>3 DEF InTm, InBuffer, InTs, Written
  <2>2. ASSUME NEW p, NEW c, Recent(u, p, c)
        PROVE  Recent(u, p, c)'
    BY <2>2, <1>0, <1>3, RecentKept
  <2>3. \A p \in InTm(u) : Recent(u, p, tm'[p])
    BY <1>1, <1>3 DEF RecentOf
  <2>4. \A p \in InBuffer(u) : Recent(u, p, local'[u].buffer[p])
    BY <1>1, <1>3 DEF RecentOf
  <2>5. \A p \in InTs(u) : OfClock(ts'[p]) => Recent(u, p, ts'[p])
    <3>1. \A p \in InTs(u) : OfClock(ts[p]) => Recent(u, p, ts[p])
      BY <1>1 DEF RecentOf
    <3>. QED  BY <3>1, <1>3
  <2>6. \A p \in Places : OfClock(stamp'[u][p]) => Recent(u, p, stamp'[u][p])
    BY <1>1, <1>3 DEF RecentOf
  <2>7. /\ since'[u] <= now'
        /\ pc'[u] \in Building \ {"own", "copy"} => local'[u].rawtime \in since'[u]..now'
        /\ pc'[u] = "sprintf" => local'[u].tv \in local'[u].rawtime..now'
    <3>1. /\ since[u] <= now /\ since[u] \in Nat
          /\ pc[u] \in Building \ {"own", "copy"} => local[u].rawtime \in since[u]..now
          /\ pc[u] = "sprintf" => local[u].tv \in local[u].rawtime..now
          /\ local[u].rawtime \in Int
      BY <1>1, <1>2, BoundAssumption DEF RecentOf, TypeOK, Locals
    <3>. QED  BY <3>1, <1>2, <1>3
  <2>. QED  BY <2>1, <2>2, <2>3, <2>4, <2>5, <2>6, <2>7 DEF RecentOf, OfClock
<1>4. ASSUME \A t \in Threads : pc'[t] \in Building => pc[t] \in Building, since' = since
      PROVE  Agree'
  BY <1>4 DEF RecentInv
<1>5. CASE Tick \/ connect_callback \/ disconnect_callback \/ UNCHANGED vars
  <2>1. now <= now' /\ UNCHANGED <<tm, ts, pc, left, local, stamp, since>>
    BY <1>2, <1>5 DEF Tick, connect_callback, disconnect_callback, vars, shared, build
  <2>2. \A u \in Threads : RecentOf(u)'
    BY <2>1, <1>2, <1>3
  <2>. QED  BY <2>1, <2>2, <1>4 DEF RecentInv
<1>6. ASSUME NEW t \in Threads, pc[t] \in {"built", "publish"}, Forget(t),
             UNCHANGED <<now, tm, ts>>
      PROVE  RecentInv'
  <2>1. /\ pc'[t] = "idle" /\ stamp'[t] = NoStamp /\ since'[t] = 0
        /\ \A u \in Threads : u # t =>
             /\ pc'[u] = pc[u] /\ left'[u] = left[u] /\ local'[u] = local[u]
             /\ stamp'[u] = stamp[u] /\ since'[u] = since[u]
    BY <1>6, Emptied
  <2>2. RecentOf(t)'
    BY <2>1, <1>2 DEF RecentOf, InTm, InBuffer, InTs, Written, NoStamp, OfClock, Nothing, Building
  <2>3. ASSUME NEW u \in Threads, u # t
        PROVE  RecentOf(u)'
    BY <2>1, <2>3, <1>2, <1>3, <1>6
  <2>4. Agree'
    BY <2>1 DEF Building
  <2>. QED  BY <2>2, <2>3, <2>4 DEF RecentInv
<1>7. ASSUME NEW t \in Threads, Begins(t)
      PROVE  RecentInv'
  <2>1. /\ pc[t] = "idle" /\ pc'[t] = "gmtime" /\ left'[t] = SecPlaces
        /\ local'[t].rawtime = now
        /\ since'[t] = IF pc[Other(t)] \in Building THEN since[Other(t)] ELSE now
        /\ \A u \in Threads : u # t =>
             /\ pc'[u] = pc[u] /\ left'[u] = left[u] /\ local'[u] = local[u]
             /\ since'[u] = since[u]
        /\ UNCHANGED <<now, tm, ts, stamp>>
    <3>1. PICK k \in Kinds : Begin(t, k)
      BY <1>7 DEF Begins
    <3>2. local' = [local EXCEPT ![t] = [local[t] EXCEPT !.rawtime = now]]
      BY <3>1 DEF Begin
    <3>3. local'[t].rawtime = now /\ \A u \in Threads : u # t => local'[u] = local[u]
      BY <3>2 DEF TypeOK, Locals
    <3>. QED  BY <3>1, <3>3 DEF Begin, shared, TypeOK
  <2>2. Other(t) \in Threads /\ Other(t) # t
    BY DEF Other, Threads
  <2>3. since'[t] \in Nat /\ since'[t] <= now
    BY <2>1, <2>2, <1>2
  <2>4. RecentOf(t)'
    <3>1. stamp'[t] = NoStamp
      BY <2>1 DEF BufferInv, BufferOf
    <3>2. InTm(t)' = {} /\ InBuffer(t)' = {} /\ InTs(t)' = {}
      BY <2>1 DEF InTm, InBuffer, InTs, Written
    <3>3. now \in since'[t]..now'
      BY <2>1, <2>3, <1>2
    <3>. QED  BY <3>1, <3>2, <3>3, <2>1, <2>3 DEF RecentOf, NoStamp, OfClock, Nothing
  <2>5. ASSUME NEW u \in Threads, u # t
        PROVE  RecentOf(u)'
    BY <2>1, <2>5, <1>2, <1>3
  <2>6. Agree'
    BY <2>1 DEF Threads, Other
  <2>. QED  BY <2>4, <2>5, <2>6 DEF RecentInv
<1>8. ASSUME NEW t \in Threads, ToHandOver(t)
      PROVE  RecentInv'
  <2>1. /\ pc[t] = "built" /\ pc'[t] = "publish"
        /\ \A u \in Threads : u # t => pc'[u] = pc[u]
        /\ UNCHANGED <<now, tm, ts, left, local, stamp, since>>
    BY <1>8 DEF ToHandOver, shared, build, TypeOK
  <2>2. RecentOf(t)'
    BY <2>1, <1>1 DEF RecentOf, InTm, InBuffer, InTs, Written, Building, OfClock, Recent
  <2>3. ASSUME NEW u \in Threads, u # t
        PROVE  RecentOf(u)'
    BY <2>1, <2>3, <1>2, <1>3
  <2>4. Agree'
    BY <2>1, <1>4 DEF Building
  <2>. QED  BY <2>2, <2>3, <2>4 DEF RecentInv
<1>9. ASSUME NEW t \in Threads,
             Gmtime(t) \/ Strftime(t) \/ Gettimeofday(t) \/ Sprintf(t) \/ OwnTime(t) \/ AddStamp(t),
             RecentOf(t)',
             \A p \in SecPlaces : tm'[p] = tm[p] \/ Recent(t, p, tm'[p]),
             \A p \in Places : ts'[p] = ts[p] \/ (OfClock(ts'[p]) => Recent(t, p, ts'[p]))
      PROVE  RecentInv'
  <2>1. /\ pc[t] \in Building /\ pc'[t] \notin {"idle", "publish"}
        /\ \A u \in Threads : u # t => pc'[u] = pc[u] /\ left'[u] = left[u]
        /\ UNCHANGED <<now, since>>
    BY <1>9, BuildSteps DEF TypeOK
  <2>2. ASSUME NEW u \in Threads, u # t
        PROVE  RecentOf(u)'
    <3>1. local'[u] = local[u] /\ stamp'[u] = stamp[u]
      BY <2>2, <1>9, OtherThread
    <3>2. \A p \in InTm(u) : tm'[p] = tm[p] \/ Recent(u, p, tm'[p])
      <4>1. ASSUME NEW p \in InTm(u)
            PROVE  p \in SecPlaces /\ pc[u] \in Building
        BY DEF InTm, Written, Building
      <4>. QED  BY <4>1, <2>1, <1>9, RecentForBoth
    <3>3. \A p \in InTs(u) : ts'[p] = ts[p] \/ (OfClock(ts'[p]) => Recent(u, p, ts'[p]))
      <4>1. ASSUME NEW p \in InTs(u)
            PROVE  p \in Places /\ pc[u] \in Building
        BY DEF InTs, Written, Building
      <4>. QED  BY <4>1, <2>1, <1>9, RecentForBoth
    <3>. QED  BY <2>1, <2>2, <3>1, <3>2, <3>3, <1>2, <1>3
  <2>3. Agree'
    BY <2>1, <1>4
  <2>. QED  BY <2>2, <2>3, <1>9 DEF RecentInv
<1>r. ASSUME NEW t \in Threads, UNCHANGED <<now, since>>, NEW p, NEW c, Recent(t, p, c)
      PROVE  Recent(t, p, c)'
  BY <1>r DEF Recent
<1>10. ASSUME NEW t \in Threads, Gmtime(t)
       PROVE  RecentInv'
  <2>1. PICK p \in Turn(left[t]) : /\ tm' = [tm EXCEPT ![p] = Part(local[t].rawtime, p)]
                                   /\ Handled(t, p, "strftime", SecPlaces)
    BY <1>10 DEF Gmtime
  <2>2. p \in left[t] /\ p \in SecPlaces
    BY <1>10, TurnOfLeft DEF Gmtime, TypeOK
  <2>3. pc[t] = "gmtime" /\ UNCHANGED <<now, ts, local, stamp, since>>
    BY <1>10 DEF Gmtime
  <2>4. /\ tm'[p] = Part(local[t].rawtime, p) /\ \A q \in SecPlaces : q # p => tm'[q] = tm[q]
    BY <2>1, <2>2 DEF TypeOK
  <2>5. local[t].rawtime \in since[t]..now
    BY <2>3, <1>1 DEF RecentOf, Building
  <2>6. Recent(t, p, tm'[p])
    BY <2>4, <2>5 DEF Recent
  <2>7. pc'[t] \in {"gmtime", "strftime"}
    BY <2>1, <2>2, <2>3, HandledCases
  <2>8. InTm(t)' \subseteq InTm(t) \union {p}
    BY <2>1, <2>2, <2>3, WrittenGrows DEF InTm
  <2>9. InTm(t)' \subseteq SecPlaces /\ InBuffer(t)' = {} /\ InTs(t)' = {}
    <3>1. pc'[t] = "strftime" => left'[t] = SecPlaces
      BY <2>1, <2>2, <2>3, HandledCases
    <3>. QED  BY <2>7, <3>1 DEF InTm, InBuffer, InTs, Written
  <2>10. RecentOf(t)'
    <3>1. ASSUME NEW q \in InTm(t)'
          PROVE  Recent(t, q, tm'[q])
      <4>1. q # p => q \in InTm(t) /\ tm'[q] = tm[q]
        BY <2>4, <2>8, <2>9
      <4>. QED  BY <4>1, <2>6, <1>1 DEF RecentOf
    <3>2. \A q \in Places : OfClock(stamp'[t][q]) => Recent(t, q, stamp'[t][q])
      BY <2>3, <1>1 DEF RecentOf
    <3>3. /\ since'[t] <= now' /\ local'[t].rawtime \in since'[t]..now'
      BY <2>3, <2>5, <1>2
    <3>. QED  BY <3>1, <3>2, <3>3, <2>3, <2>7, <2>9, <1>r DEF RecentOf, OfClock
  <2>. QED  BY <2>3, <2>4, <2>6, <2>10, <1>9, <1>10
<1>11. ASSUME NEW t \in Threads, Strftime(t)
       PROVE  RecentInv'
  <2>1. PICK p \in Turn(left[t]) : /\ local' = [local EXCEPT ![t].buffer[p] = tm[p]]
                                   /\ Handled(t, p, "gettimeofday", {})
    BY <1>11 DEF Strftime
  <2>2. p \in left[t] /\ p \in SecPlaces
    BY <1>11, TurnOfLeft DEF Strftime, TypeOK
  <2>3. pc[t] = "strftime" /\ UNCHANGED <<now, tm, ts, stamp, since>>
    BY <1>11 DEF Strftime, shared
  <2>4. /\ local'[t].buffer[p] = tm[p] /\ local'[t].rawtime = local[t].rawtime
        /\ \A q \in SecPlaces : q # p => local'[t].buffer[q] = local[t].buffer[q]
    <3>1. local'[t] = [local[t] EXCEPT !.buffer = [local[t].buffer EXCEPT ![p] = tm[p]]]
      BY <2>1 DEF TypeOK
    <3>2. local[t] \in Locals
      BY DEF TypeOK
    <3>. QED  BY <2>2, <3>1, <3>2 DEF Locals
  <2>5. pc'[t] \in {"strftime", "gettimeofday"}
    BY <2>1, <2>2, <2>3, HandledCases
  <2>6. InBuffer(t)' \subseteq InBuffer(t) \union {p}
    BY <2>1, <2>2, <2>3, WrittenGrows DEF InBuffer
  <2>7. /\ InTm(t) = SecPlaces /\ InTm(t)' \subseteq SecPlaces /\ InTs(t)' = {}
        /\ InBuffer(t)' \subseteq SecPlaces
    BY <2>3, <2>5 DEF InTm, InBuffer, InTs, Written
  <2>8. RecentOf(t)'
    <3>1. ASSUME NEW q \in SecPlaces
          PROVE  Recent(t, q, tm[q])
      BY <2>7, <1>1 DEF RecentOf
    <3>2. ASSUME NEW q \in InBuffer(t)'
          PROVE  Recent(t, q, local'[t].buffer[q])
      <4>1. q # p => q \in InBuffer(t) /\ local'[t].buffer[q] = local[t].buffer[q]
        BY <2>4, <2>6, <2>7
      <4>2. q = p => Recent(t, q, local'[t].buffer[q])
        BY <2>2, <2>4, <3>1
      <4>. QED  BY <4>1, <4>2, <1>1 DEF RecentOf
    <3>3. \A q \in Places : OfClock(stamp'[t][q]) => Recent(t, q, stamp'[t][q])
      BY <2>3, <1>1 DEF RecentOf
    <3>4. /\ since'[t] <= now' /\ local'[t].rawtime \in since'[t]..now'
      BY <2>3, <2>4, <1>1, <1>2 DEF RecentOf, Building
    <3>. QED  BY <3>1, <3>2, <3>3, <3>4, <2>3, <2>5, <2>7, <1>r DEF RecentOf, OfClock
  <2>. QED  BY <2>3, <2>8, <1>9, <1>11
<1>12. ASSUME NEW t \in Threads, Gettimeofday(t)
       PROVE  RecentInv'
  <2>1. /\ pc[t] = "gettimeofday" /\ pc'[t] = "sprintf" /\ left'[t] = Places
        /\ local' = [local EXCEPT ![t] = [local[t] EXCEPT !.tv = now]]
        /\ UNCHANGED <<now, tm, ts, stamp, since>>
    BY <1>12 DEF Gettimeofday, Microseconds, shared, TypeOK
  <2>2. /\ local'[t].tv = now /\ local'[t].rawtime = local[t].rawtime
        /\ local'[t].buffer = local[t].buffer
    BY <2>1 DEF TypeOK, Locals
  <2>3. InTm(t)' = {} /\ InTs(t)' = {} /\ InBuffer(t) = SecPlaces /\ InBuffer(t)' = SecPlaces
    BY <2>1 DEF InTm, InBuffer, InTs, Written
  <2>4. RecentOf(t)'
    <3>1. local[t].rawtime \in since[t]..now /\ now \in local[t].rawtime..now
      BY <2>1, <1>1, <1>2 DEF RecentOf, Building
    <3>2. \A q \in SecPlaces : Recent(t, q, local'[t].buffer[q])
      BY <2>2, <2>3, <1>1 DEF RecentOf
    <3>3. \A q \in Places : OfClock(stamp'[t][q]) => Recent(t, q, stamp'[t][q])
      BY <2>1, <1>1 DEF RecentOf
    <3>. QED  BY <3>1, <3>2, <3>3, <2>1, <2>2, <2>3, <1>2, <1>r DEF RecentOf, OfClock
  <2>. QED  BY <2>1, <2>4, <1>9, <1>12
<1>13. ASSUME NEW t \in Threads, Sprintf(t)
       PROVE  RecentInv'
  <2>. DEFINE next == AfterGetTime(kind[t])
              more == IF next = "built" THEN {} ELSE Places
              c(p) == IF p \in SecPlaces THEN local[t].buffer[p] ELSE Part(local[t].tv, p)
  <2>1. PICK p \in Turn(left[t]) :
          /\ ts' = [ts EXCEPT ![p] = c(p)] /\ Handled(t, p, next, more)
          /\ local' = IF left[t] = {p} THEN [local EXCEPT ![t] = NoLocals] ELSE local
    BY <1>13 DEF Sprintf
  <2>2. p \in left[t] /\ p \in Places
    BY TurnOfLeft
  <2>3. pc[t] = "sprintf" /\ UNCHANGED <<now, tm, stamp, since>>
    BY <1>13 DEF Sprintf
  <2>4. Recent(t, p, c(p))
    <3>1. CASE p \in SecPlaces
      BY <2>3, <3>1, <1>1 DEF RecentOf, InBuffer, Written
    <3>2. CASE p \notin SecPlaces
      <4>1. local[t].tv \in since[t]..now
        <5>1. local[t].rawtime \in since[t]..now /\ local[t].tv \in local[t].rawtime..now
          BY <2>3, <1>1 DEF RecentOf, Building
        <5>. QED  BY <5>1, <1>2
      <4>. QED  BY <4>1, <3>2 DEF Recent
    <3>. QED  BY <3>1, <3>2
  <2>. HIDE DEF c
  <2>5. ts'[p] = c(p) /\ \A q \in Places : q # p => ts'[q] = ts[q]
    BY <2>1, <2>2 DEF TypeOK
  <2>6. \/ pc'[t] = next /\ left[t] = {p}
        \/ pc'[t] = "sprintf" /\ left'[t] = left[t] \ {p} /\ left'[t] # {}
    BY <2>1, <2>2, <2>3, HandledCases
  <2>7. next \in {"own", "built", "copy"}
    BY DEF AfterGetTime
  <2>8. InTs(t)' \subseteq InTs(t) \union {p} /\ InTs(t)' \subseteq Places
    BY <2>2, <2>3, <2>6, <2>7 DEF InTs, Written
  <2>9. /\ InTm(t)' = {} /\ InBuffer(t)' \subseteq InBuffer(t)
        /\ pc'[t] = "sprintf" => local'[t] = local[t]
        /\ pc'[t] # "sprintf" => InBuffer(t)' = {}
    <3>1. pc'[t] = "sprintf" => left[t] # {p}
      BY <2>6, <2>7
    <3>2. pc'[t] = "sprintf" => local'[t] = local[t]
      BY <2>1, <3>1
    <3>. QED  BY <3>2, <2>3, <2>6, <2>7 DEF InTm, InBuffer, Written
  <2>10. RecentOf(t)'
    <3>1. ASSUME NEW q \in InTs(t)', OfClock(ts'[q])
          PROVE  Recent(t, q, ts'[q])
      <4>1. q # p => q \in InTs(t) /\ ts'[q] = ts[q]
        BY <2>5, <2>8
      <4>2. q = p => Recent(t, q, ts'[q])
        BY <2>4, <2>5
      <4>. QED  BY <3>1, <4>1, <4>2, <1>1 DEF RecentOf
    <3>2. \A q \in InBuffer(t)' : Recent(t, q, local'[t].buffer[q])
      BY <2>9, <1>1 DEF RecentOf
    <3>3. \A q \in Places : OfClock(stamp'[t][q]) => Recent(t, q, stamp'[t][q])
      BY <2>3, <1>1 DEF RecentOf
    <3>4. /\ since'[t] <= now'
          /\ pc'[t] = "sprintf" => /\ local'[t].rawtime \in since'[t]..now'
                                   /\ local'[t].tv \in local'[t].rawtime..now'
      BY <2>3, <2>9, <1>1, <1>2 DEF RecentOf, Building
    <3>5. pc'[t] \in {"sprintf", "own", "built", "copy"}
      BY <2>6, <2>7
    <3>. QED  BY <3>1, <3>2, <3>3, <3>4, <3>5, <2>3, <2>9, <1>r DEF RecentOf, OfClock, Building
  <2>. QED  BY <2>3, <2>4, <2>5, <2>10, <1>9, <1>13
<1>14. ASSUME NEW t \in Threads, OwnTime(t)
       PROVE  RecentInv'
  <2>1. PICK p \in Turn(left[t]) : ts' = [ts EXCEPT ![p] = Own] /\ Handled(t, p, "copy", Places)
    BY <1>14 DEF OwnTime
  <2>2. p \in left[t] /\ p \in Places
    BY TurnOfLeft
  <2>3. pc[t] = "own" /\ UNCHANGED <<now, tm, local, stamp, since>>
    BY <1>14 DEF OwnTime
  <2>4. ~ OfClock(ts'[p]) /\ \A q \in Places : q # p => ts'[q] = ts[q]
    BY <2>1, <2>2 DEF TypeOK, OfClock, Own
  <2>5. pc'[t] \in {"own", "copy"}
    BY <2>1, <2>2, <2>3, HandledCases
  <2>6. InTs(t) = Places /\ InTs(t)' = Places /\ InTm(t)' = {} /\ InBuffer(t)' = {}
    BY <2>3, <2>5 DEF InTs, InTm, InBuffer, Written
  <2>7. RecentOf(t)'
    <3>1. \A q \in Places : OfClock(ts'[q]) => Recent(t, q, ts'[q])
      BY <2>4, <2>6, <1>1 DEF RecentOf
    <3>2. \A q \in Places : OfClock(stamp'[t][q]) => Recent(t, q, stamp'[t][q])
      BY <2>3, <1>1 DEF RecentOf
    <3>. QED  BY <3>1, <3>2, <2>3, <2>5, <2>6, <1>2, <1>r DEF RecentOf, OfClock, Building
  <2>. QED  BY <2>3, <2>4, <2>7, <1>9, <1>14
<1>15. ASSUME NEW t \in Threads, AddStamp(t)
       PROVE  RecentInv'
  <2>1. PICK p \in Turn(left[t]) : /\ stamp' = [stamp EXCEPT ![t][p] = ts[p]]
                                   /\ Handled(t, p, "built", {})
    BY <1>15 DEF AddStamp
  <2>2. p \in left[t] /\ p \in Places
    BY TurnOfLeft
  <2>3. pc[t] = "copy" /\ UNCHANGED <<now, tm, ts, local, since>>
    BY <1>15 DEF AddStamp, shared
  <2>4. stamp'[t][p] = ts[p] /\ \A q \in Places : q # p => stamp'[t][q] = stamp[t][q]
    BY <2>1, <2>2 DEF TypeOK
  <2>5. pc'[t] \in {"copy", "built"}
    BY <2>1, <2>2, <2>3, HandledCases
  <2>6. InTs(t) = Places /\ InTs(t)' \subseteq Places /\ InTm(t)' = {} /\ InBuffer(t)' = {}
    BY <2>3, <2>5 DEF InTs, InTm, InBuffer, Written
  <2>7. RecentOf(t)'
    <3>1. \A q \in Places : OfClock(ts[q]) => Recent(t, q, ts[q])
      BY <2>6, <1>1 DEF RecentOf
    <3>2. \A q \in Places : OfClock(stamp'[t][q]) => Recent(t, q, stamp'[t][q])
      BY <3>1, <2>4, <1>1 DEF RecentOf
    <3>. QED  BY <3>1, <3>2, <2>3, <2>5, <2>6, <1>2, <1>r DEF RecentOf, OfClock, Building
  <2>. QED  BY <2>3, <2>7, <1>9, <1>15
<1>. QED
  <2>1. KeepBack => RecentInv'
    BY <1>6 DEF KeepBack, Threads, shared
  <2>2. \A t \in Threads : Publish(t) => RecentInv'
    BY <1>6 DEF Publish, shared
  <2>. QED
    BY <1>5, <1>7, <1>8, <1>10, <1>11, <1>12, <1>13, <1>14, <1>15, <2>1, <2>2, NextSteps

-----------------------------------------------------------------------------
(* A time, not a mixture.                                                  *)

\* A text that shows one time goes on showing it.
LEMMA TimeKept ==
  ASSUME TypeOK, TypeOK', NEW t \in Threads, since'[t] = since[t], now <= now',
         NEW s, TimeOf(t, s)
  PROVE  TimeOf(t, s)'
<1>1. since[t] \in Nat /\ now \in Int /\ now' \in Int
  BY BoundAssumption DEF TypeOK
<1>2. PICK m \in since[t]..now : \E n \in m..now :
        /\ \A p \in SecPlaces : s[p] = Part(m, p)
        /\ \A p \in MilliPlaces : s[p] = Part(n, p)
  BY DEF TimeOf
<1>3. PICK n \in m..now : /\ \A p \in SecPlaces : s[p] = Part(m, p)
                          /\ \A p \in MilliPlaces : s[p] = Part(n, p)
  BY <1>2
<1>4. m \in since'[t]..now' /\ n \in m..now'
  BY <1>1, <1>2, <1>3
<1>. QED  BY <1>3, <1>4 DEF TimeOf

\* What a thread finds where nobody has disturbed it is what it has put there.
LEMMA NextWholeInv ==
  TypeOK /\ BufferInv /\ RecentInv /\ WholeInv /\ [Next]_vars => WholeInv'
<1>. SUFFICES ASSUME TypeOK, BufferInv, RecentInv, WholeInv, [Next]_vars, NEW u \in Threads
              PROVE  WholeOf(u)'
  BY DEF WholeInv
<1>0. /\ TypeOK' /\ SecPlaces \subseteq Places /\ MilliPlaces \subseteq Places
      /\ now \in Nat /\ now' \in Nat
  <2>1. TypeOK' /\ SecPlaces \subseteq Places /\ MilliPlaces \subseteq Places
    BY NextTypeOK DEF Places
  <2>. QED  BY <2>1, BoundAssumption DEF TypeOK
<1>1. WholeOf(u)
  BY DEF WholeInv
<1>2. ASSUME since'[u] = since[u], now <= now', NEW s, TimeOf(u, s)
      PROVE  TimeOf(u, s)'
  BY <1>0, <1>2, TimeKept
<1>3. ASSUME since'[u] = since[u], now <= now', pc'[u] = pc[u], left'[u] = left[u],
             kind'[u] = kind[u], local'[u] = local[u], stamp'[u] = stamp[u],
             disturbed[u] \subseteq disturbed'[u],
             tm' = tm \/ (Exposed(u, "tm") => "tm" \in disturbed'[u]),
             ts' = ts \/ (Exposed(u, "ts") => "ts" \in disturbed'[u])
      PROVE  WholeOf(u)'
  <2>1. /\ InTm(u)' = InTm(u) /\ InBuffer(u)' = InBuffer(u) /\ InTs(u)' = InTs(u)
        /\ Stamped(u)' = Stamped(u)
    BY <1>3 DEF InTm, InBuffer, InTs, Written, Stamped
  <2>2. "tm" \notin disturbed'[u] =>
          /\ "tm" \notin disturbed[u]
          /\ \A p \in InTm(u) : tm'[p] = Part(local[u].rawtime, p)
    <3>1. CASE tm' = tm
      BY <3>1, <1>1, <1>3 DEF WholeOf
    <3>2. CASE Exposed(u, "tm") => "tm" \in disturbed'[u]
      BY <3>2, <1>3 DEF Exposed, InTm, Written
    <3>. QED  BY <3>1, <3>2, <1>3
  <2>3. disturbed'[u] = {} =>
          /\ disturbed[u] = {}
          /\ pc[u] = "sprintf" =>
               \A p \in InTs(u) : ts'[p] = Part(IF p \in SecPlaces THEN local[u].rawtime
                                                ELSE local[u].tv, p)
          /\ pc[u] = "copy" /\ kind[u] # "dataOwnTime" => ts' = ts
    <3>1. CASE ts' = ts
      BY <3>1, <1>1, <1>3 DEF WholeOf
    <3>2. CASE Exposed(u, "ts") => "ts" \in disturbed'[u]
      BY <3>2, <1>3 DEF Exposed, InTs, Written
    <3>. QED  BY <3>1, <3>2, <1>3
  <2>4. "tm" \notin disturbed'[u] =>
          \A p \in InBuffer(u) : local[u].buffer[p] = Part(local[u].rawtime, p)
    BY <2>2, <1>1 DEF WholeOf
  <2>5. disturbed'[u] = {} /\ pc[u] = "copy" /\ kind[u] # "dataOwnTime" => TimeOf(u, ts)
    BY <2>3, <1>1 DEF WholeOf
  <2>6. disturbed'[u] = {} /\ Stamped(u) /\ kind[u] \notin {"dataOwnTime", "dataBadTime"} =>
          TimeOf(u, stamp[u])
    BY <2>3, <1>1 DEF WholeOf
  <2>7. disturbed'[u] = {} /\ pc[u] = "copy" /\ kind[u] # "dataOwnTime" => TimeOf(u, ts)'
    BY <2>3, <2>5, <1>2, <1>3 DEF TimeOf
  <2>8. disturbed'[u] = {} /\ Stamped(u) /\ kind[u] \notin {"dataOwnTime", "dataBadTime"} =>
          TimeOf(u, stamp[u])'
    BY <2>6, <1>2, <1>3 DEF TimeOf
  <2>. QED  BY <2>1, <2>2, <2>3, <2>4, <2>7, <2>8, <1>3 DEF WholeOf
<1>4. CASE Tick \/ connect_callback \/ disconnect_callback \/ UNCHANGED vars
  <2>1. now <= now' /\ UNCHANGED <<tm, ts, pc, left, kind, local, stamp, since, disturbed>>
    BY <1>0, <1>4 DEF Tick, connect_callback, disconnect_callback, vars, shared, build
  <2>. QED  BY <2>1, <1>3
<1>5. ASSUME NEW t \in Threads, pc[t] \in {"built", "publish"}, Forget(t),
             UNCHANGED <<now, tm, ts>>
      PROVE  WholeOf(u)'
  <2>1. CASE u = t
    BY <2>1, <1>5, Emptied DEF WholeOf, InTm, InBuffer, InTs, Written, Stamped
  <2>2. CASE u # t
    BY <2>2, <1>0, <1>3, <1>5, Emptied
  <2>. QED  BY <2>1, <2>2
<1>6. ASSUME NEW t \in Threads, Begins(t)
      PROVE  WholeOf(u)'
  <2>1. /\ pc'[t] = "gmtime" /\ left'[t] = SecPlaces
        /\ \A v \in Threads : v # t =>
             /\ pc'[v] = pc[v] /\ left'[v] = left[v] /\ kind'[v] = kind[v]
             /\ local'[v] = local[v] /\ since'[v] = since[v]
        /\ UNCHANGED <<now, tm, ts, stamp, disturbed>>
    BY <1>6 DEF Begins, Begin, shared, TypeOK
  <2>2. CASE u = t
    BY <2>1, <2>2 DEF WholeOf, InTm, InBuffer, InTs, Written, Stamped
  <2>3. CASE u # t
    BY <2>1, <2>3, <1>0, <1>3
  <2>. QED  BY <2>2, <2>3
<1>7. ASSUME NEW t \in Threads, ToHandOver(t)
      PROVE  WholeOf(u)'
  <2>1. /\ pc[t] = "built" /\ pc'[t] = "publish"
        /\ \A v \in Threads : v # t => pc'[v] = pc[v]
        /\ UNCHANGED <<now, tm, ts, left, kind, local, stamp, since, disturbed>>
    BY <1>7 DEF ToHandOver, shared, build, TypeOK
  <2>2. CASE u = t
    BY <2>1, <2>2, <1>1 DEF WholeOf, InTm, InBuffer, InTs, Written, Stamped, TimeOf
  <2>3. CASE u # t
    BY <2>1, <2>3, <1>0, <1>3
  <2>. QED  BY <2>2, <2>3
<1>8. ASSUME NEW t \in Threads, u # t,
             Gmtime(t) \/ Strftime(t) \/ Gettimeofday(t) \/ Sprintf(t) \/ OwnTime(t) \/ AddStamp(t)
      PROVE  WholeOf(u)'
  BY <1>0, <1>3, <1>8, BuildSteps, OtherThread
<1>9. CASE Gmtime(u)
  <2>1. PICK p \in Turn(left[u]) : /\ tm' = [tm EXCEPT ![p] = Part(local[u].rawtime, p)]
                                   /\ Handled(u, p, "strftime", SecPlaces)
    BY <1>9 DEF Gmtime
  <2>2. p \in left[u] /\ p \in SecPlaces
    BY <1>9, TurnOfLeft DEF Gmtime, TypeOK
  <2>3. pc[u] = "gmtime" /\ local' = local /\ disturbed'[u] = disturbed[u]
    BY <1>9, DisturbedThread DEF Gmtime
  <2>4. tm'[p] = Part(local[u].rawtime, p) /\ \A q \in SecPlaces : q # p => tm'[q] = tm[q]
    BY <2>1, <2>2 DEF TypeOK
  <2>5. InTm(u)' \subseteq InTm(u) \union {p}
    BY <2>1, <2>2, <2>3, WrittenGrows DEF InTm
  <2>6. pc'[u] \in {"gmtime", "strftime"} /\ (pc'[u] = "strftime" => left'[u] = SecPlaces)
    BY <2>1, <2>2, <2>3, HandledCases
  <2>7. InTm(u)' \subseteq SecPlaces /\ InBuffer(u)' = {} /\ InTs(u)' = {}
    BY <2>6 DEF InTm, InBuffer, InTs, Written
  <2>8. "tm" \notin disturbed[u] => \A q \in InTm(u)' : tm'[q] = Part(local[u].rawtime, q)
    <3>. SUFFICES ASSUME "tm" \notin disturbed[u], NEW q \in InTm(u)'
                  PROVE  tm'[q] = Part(local[u].rawtime, q)
      OBVIOUS
    <3>1. q # p => q \in InTm(u) /\ tm'[q] = tm[q]
      BY <2>4, <2>5, <2>7
    <3>. QED  BY <3>1, <2>4, <1>1 DEF WholeOf
  <2>. QED  BY <2>3, <2>6, <2>7, <2>8 DEF WholeOf, Stamped
<1>10. CASE Strftime(u)
  <2>1. PICK p \in Turn(left[u]) : /\ local' = [local EXCEPT ![u].buffer[p] = tm[p]]
                                   /\ Handled(u, p, "gettimeofday", {})
    BY <1>10 DEF Strftime
  <2>2. p \in left[u] /\ p \in SecPlaces
    BY <1>10, TurnOfLeft DEF Strftime, TypeOK
  <2>3. pc[u] = "strftime" /\ UNCHANGED <<tm, disturbed>>
    BY <1>10 DEF Strftime, shared
  <2>4. /\ local'[u].buffer[p] = tm[p] /\ local'[u].rawtime = local[u].rawtime
        /\ \A q \in SecPlaces : q # p => local'[u].buffer[q] = local[u].buffer[q]
    <3>1. local'[u] = [local[u] EXCEPT !.buffer = [local[u].buffer EXCEPT ![p] = tm[p]]]
      BY <2>1 DEF TypeOK
    <3>2. local[u] \in Locals
      BY DEF TypeOK
    <3>. QED  BY <2>2, <3>1, <3>2 DEF Locals
  <2>5. InBuffer(u)' \subseteq InBuffer(u) \union {p}
    BY <2>1, <2>2, <2>3, WrittenGrows DEF InBuffer
  <2>6. pc'[u] \in {"strftime", "gettimeofday"}
    BY <2>1, <2>2, <2>3, HandledCases
  <2>7. /\ InTm(u) = SecPlaces /\ InTm(u)' \subseteq SecPlaces
        /\ InBuffer(u)' \subseteq SecPlaces /\ InTs(u)' = {}
    BY <2>3, <2>6 DEF InTm, InBuffer, InTs, Written
  <2>8. "tm" \notin disturbed[u] =>
          \A q \in SecPlaces : tm[q] = Part(local[u].rawtime, q)
    BY <2>7, <1>1 DEF WholeOf
  <2>9. "tm" \notin disturbed[u] =>
          \A q \in InBuffer(u)' : local'[u].buffer[q] = Part(local'[u].rawtime, q)
    <3>. SUFFICES ASSUME "tm" \notin disturbed[u], NEW q \in InBuffer(u)'
                  PROVE  local'[u].buffer[q] = Part(local[u].rawtime, q)
      BY <2>4
    <3>1. q # p => q \in InBuffer(u) /\ local'[u].buffer[q] = local[u].buffer[q]
      BY <2>4, <2>5, <2>7
    <3>. QED  BY <3>1, <2>2, <2>4, <2>8, <1>1 DEF WholeOf
  <2>. QED  BY <2>3, <2>4, <2>6, <2>7, <2>8, <2>9 DEF WholeOf, Stamped
<1>11. CASE Gettimeofday(u)
  <2>1. /\ pc[u] = "gettimeofday" /\ pc'[u] = "sprintf" /\ left'[u] = Places
        /\ local' = [local EXCEPT ![u] = [local[u] EXCEPT !.tv = now]]
        /\ UNCHANGED <<tm, disturbed>>
    BY <1>11 DEF Gettimeofday, Microseconds, shared, TypeOK
  <2>2. local'[u].rawtime = local[u].rawtime /\ local'[u].buffer = local[u].buffer
    BY <2>1 DEF TypeOK, Locals
  <2>3. /\ InTm(u)' = {} /\ InTs(u)' = {} /\ InBuffer(u) = SecPlaces
        /\ InBuffer(u)' = SecPlaces
    BY <2>1 DEF InTm, InBuffer, InTs, Written
  <2>. QED  BY <2>1, <2>2, <2>3, <1>1 DEF WholeOf, Stamped
<1>12. CASE Sprintf(u)
  <2>. DEFINE next == AfterGetTime(kind[u])
              more == IF next = "built" THEN {} ELSE Places
              c(p) == IF p \in SecPlaces THEN local[u].buffer[p] ELSE Part(local[u].tv, p)
              d(p) == Part(IF p \in SecPlaces THEN local[u].rawtime ELSE local[u].tv, p)
  <2>1. PICK p \in Turn(left[u]) :
          /\ ts' = [ts EXCEPT ![p] = c(p)] /\ Handled(u, p, next, more)
          /\ local' = IF left[u] = {p} THEN [local EXCEPT ![u] = NoLocals] ELSE local
    BY <1>12 DEF Sprintf
  <2>2. p \in left[u] /\ p \in Places
    BY TurnOfLeft
  <2>3. /\ pc[u] = "sprintf" /\ disturbed'[u] = disturbed[u]
        /\ UNCHANGED <<now, kind, stamp, since>>
    BY <1>12, DisturbedThread DEF Sprintf
  <2>4. "tm" \notin disturbed[u] => c(p) = d(p)
    BY <2>3, <1>1 DEF WholeOf, InBuffer, Written
  <2>. HIDE DEF c
  <2>5. ts'[p] = c(p) /\ \A q \in Places : q # p => ts'[q] = ts[q]
    BY <2>1, <2>2 DEF TypeOK
  <2>6. disturbed[u] = {} => \A q \in InTs(u) \union {p} : ts'[q] = d(q)
    <3>. SUFFICES ASSUME disturbed[u] = {}, NEW q \in InTs(u) \union {p}
                  PROVE  ts'[q] = d(q)
      OBVIOUS
    <3>1. q # p => q \in InTs(u) /\ ts'[q] = ts[q]
      BY <2>3, <2>5 DEF InTs, Written
    <3>. QED  BY <3>1, <2>3, <2>4, <2>5, <1>1 DEF WholeOf
  <2>7. next \in {"own", "built", "copy"}
    BY DEF AfterGetTime
  <2>8. CASE pc'[u] = "sprintf" /\ left'[u] = left[u] \ {p} /\ left'[u] # {}
    <3>1. local' = local
      BY <2>1, <2>8
    <3>2. /\ InTm(u)' = {} /\ InBuffer(u)' = InBuffer(u) /\ InTs(u)' \subseteq InTs(u) \union {p}
      BY <2>3, <2>8 DEF InTm, InBuffer, InTs, Written
    <3>3. disturbed[u] = {} => \A q \in InTs(u)' :
            ts'[q] = Part(IF q \in SecPlaces THEN local[u].rawtime ELSE local[u].tv, q)
      BY <3>2, <2>6
    <3>. QED  BY <3>1, <3>2, <3>3, <2>3, <2>8, <1>1 DEF WholeOf, Stamped
  <2>9. CASE left[u] = {p} /\ pc'[u] = next
    <3>1. InTm(u)' = {} /\ InBuffer(u)' = {}
      BY <2>7, <2>9 DEF InTm, InBuffer, Written
    <3>2. pc'[u] = "copy" => kind[u] \notin {"dataOwnTime", "dataBadTime"}
      BY <2>9 DEF AfterGetTime
    <3>3. pc'[u] = "built" => kind[u] = "dataBadTime"
      BY <2>9 DEF AfterGetTime
    <3>4. disturbed[u] = {} => TimeOf(u, ts')
      <4>. SUFFICES ASSUME disturbed[u] = {}
                    PROVE  TimeOf(u, ts')
        OBVIOUS
      <4>1. \A q \in Places : ts'[q] = d(q)
        BY <2>3, <2>6, <2>9 DEF InTs, Written
      <4>2. local[u].rawtime \in since[u]..now /\ local[u].tv \in local[u].rawtime..now
        BY <2>3 DEF RecentInv, RecentOf, Building
      <4>3. /\ \A q \in SecPlaces : ts'[q] = Part(local[u].rawtime, q)
            /\ \A q \in MilliPlaces : ts'[q] = Part(local[u].tv, q)
        BY <4>1, <1>0, PlacesAssumption
      <4>. QED  BY <4>2, <4>3 DEF TimeOf
    <3>5. disturbed[u] = {} => TimeOf(u, ts)'
      BY <3>4, <2>3 DEF TimeOf
    <3>. QED  BY <3>1, <3>2, <3>3, <3>5, <2>3, <2>7, <2>9 DEF WholeOf, Stamped
  <2>. QED  BY <2>1, <2>2, <2>3, <2>8, <2>9, HandledCases
<1>13. CASE OwnTime(u)
  <2>1. PICK p \in Turn(left[u]) : Handled(u, p, "copy", Places)
    BY <1>13 DEF OwnTime
  <2>2. pc[u] = "own" /\ kind[u] = "dataOwnTime" /\ UNCHANGED kind
    BY <1>13 DEF OwnTime, TypeOK
  <2>3. pc'[u] \in {"own", "copy"}
    BY <2>1, <2>2, TurnOfLeft, HandledCases
  <2>. QED  BY <2>2, <2>3 DEF WholeOf, InTm, InBuffer, Written, Stamped
<1>14. CASE AddStamp(u)
  <2>1. PICK p \in Turn(left[u]) : /\ stamp' = [stamp EXCEPT ![u][p] = ts[p]]
                                   /\ Handled(u, p, "built", {})
    BY <1>14 DEF AddStamp
  <2>2. p \in left[u] /\ p \in Places
    BY TurnOfLeft
  <2>3. pc[u] = "copy" /\ UNCHANGED <<now, kind, ts, since, disturbed>>
    BY <1>14 DEF AddStamp, shared
  <2>4. disturbed[u] = {} /\ kind[u] # "dataOwnTime" => TimeOf(u, ts)
    BY <2>3, <1>1 DEF WholeOf
  <2>5. CASE pc'[u] = "copy"
    <3>1. disturbed[u] = {} /\ kind[u] # "dataOwnTime" => TimeOf(u, ts)'
      BY <2>3, <2>4 DEF TimeOf
    <3>. QED  BY <3>1, <2>3, <2>5 DEF WholeOf, InTm, InBuffer, Written, Stamped
  <2>6. CASE left[u] = {p} /\ pc'[u] = "built"
    <3>1. disturbed[u] = {} => \A q \in Places : stamp'[u][q] = ts[q]
      <4>1. stamp'[u][p] = ts[p] /\ \A q \in Places : q # p => stamp'[u][q] = stamp[u][q]
        BY <2>1, <2>2 DEF TypeOK
      <4>2. disturbed[u] = {} => \A q \in Places : q # p => stamp[u][q] = ts[q]
        BY <2>3, <2>6 DEF BufferInv, BufferOf, InStamp, Written
      <4>. QED  BY <4>1, <4>2
    <3>2. disturbed[u] = {} /\ kind[u] # "dataOwnTime" => TimeOf(u, stamp'[u])
      BY <3>1, <2>4, <1>0 DEF TimeOf
    <3>3. disturbed[u] = {} /\ kind[u] # "dataOwnTime" => TimeOf(u, stamp[u])'
      BY <3>2, <2>3 DEF TimeOf
    <3>. QED  BY <3>3, <2>3, <2>6 DEF WholeOf, InTm, InBuffer, Written, Stamped
  <2>. QED  BY <2>1, <2>2, <2>3, <2>5, <2>6, HandledCases
<1>. QED
  <2>1. KeepBack => WholeOf(u)'
    BY <1>5 DEF KeepBack, Threads, shared
  <2>2. \A t \in Threads : Publish(t) => WholeOf(u)'
    BY <1>5 DEF Publish, shared
  <2>. QED
    BY <1>4, <1>6, <1>7, <1>8, <1>9, <1>10, <1>11, <1>12, <1>13, <1>14, <2>1, <2>2, NextSteps

-----------------------------------------------------------------------------
(* The theorems.                                                           *)

\* The strengthened invariant holds when the process starts.
LEMMA InitHeartbeatInv == Init => HeartbeatInv
<1>. SUFFICES ASSUME Init
              PROVE  HeartbeatInv
  OBVIOUS
<1>1. TypeOK
  BY InitTypeOK
<1>2. /\ now = 0 /\ IsConnected = FALSE
      /\ \A t \in Threads : /\ pc[t] = "idle" /\ stamp[t] = NoStamp
                            /\ since[t] = 0 /\ late[t] = 0
  BY DEF Init
<1>3. \A t \in Threads : InTm(t) = {} /\ InBuffer(t) = {} /\ InTs(t) = {}
  BY <1>2 DEF InTm, InBuffer, InTs, Written
<1>4. LateInv
  BY <1>2 DEF LateInv
<1>5. BufferInv
  BY <1>2 DEF BufferInv, BufferOf, Stamped
<1>6. RecentInv
  BY <1>2, <1>3 DEF RecentInv, RecentOf, NoStamp, OfClock, Nothing, Building, Threads
<1>7. WholeInv
  BY <1>2, <1>3 DEF WholeInv, WholeOf, Stamped
<1>. QED  BY <1>1, <1>4, <1>5, <1>6, <1>7 DEF HeartbeatInv

\* Every step keeps the strengthened invariant.
LEMMA NextHeartbeatInv == HeartbeatInv /\ [Next]_vars => HeartbeatInv'
BY NextTypeOK, NextLateInv, NextBufferInv, NextRecentInv, NextWholeInv DEF HeartbeatInv

\* The strengthened invariant holds in every reachable state.
THEOREM Invariance == Spec => []HeartbeatInv
<1>. QED  BY InitHeartbeatInv, NextHeartbeatInv, PTL DEF Spec

\* Each thread hands the client at most one message on the strength of a flag that
\* has fallen, for any number of outages.
THEOREM StaleMessagesBounded == Spec => []FewStaleMessages
<1>1. HeartbeatInv => FewStaleMessages
  BY DEF HeartbeatInv, TypeOK, LateInv, FewStaleMessages
<1>. QED  BY <1>1, Invariance, PTL

\* A message of a thread whose buffer nobody has written to has its own stamp.
THEOREM StampsOwned == Spec => []OwnStamp
<1>1. HeartbeatInv => OwnStamp
  BY DEF HeartbeatInv, BufferInv, BufferOf, OwnStamp
<1>. QED  BY <1>1, Invariance, PTL

\* A message of a thread nobody has disturbed carries a time the clock has shown.
THEOREM StampsWhole == Spec => []WholeStamp
<1>1. HeartbeatInv => WholeStamp
  BY DEF HeartbeatInv, WholeInv, WholeOf, WholeStamp
<1>. QED  BY <1>1, Invariance, PTL

\* Each place of a stamp made of the clock, mixed or not, is recent, whatever the
\* order in which the places are written and copied.
THEOREM PartsRecent == Spec => []RecentParts
<1>1. HeartbeatInv => RecentParts
  BY DEF HeartbeatInv, RecentInv, RecentOf, RecentParts
<1>. QED  BY <1>1, Invariance, PTL
=============================================================================
