----------------------------- MODULE Heartbeat ------------------------------
(***************************************************************************)
(* The messages of the agent and their time stamps (src/message.c), built  *)
(* by two threads at once: the application thread inside SendData,         *)
(* SendDeviceStatus, UploadConfig and Disconnect, and heartbeat_proc       *)
(* (src/DatahubEdge.c).  Both write the time into the same static buffer,  *)
(* ts, and copy it from there into their message; gmtime's result, tm, is  *)
(* static as well.  Whether a message is handed to the MQTT client is      *)
(* decided by IsConnected, which the client's callbacks change at any time.*)
(*                                                                         *)
(* A stamp has several places, those of the date and time to the second    *)
(* and those of the milliseconds.  Every place of tm, of ts and of a copy  *)
(* is written and read in a step of its own, so that what a thread finds   *)
(* may be a mixture of stamps, character by character.  What a place shows *)
(* at an instant is left to Part, the order of the steps to Turn.          *)
(***************************************************************************)
EXTENDS Integers

CONSTANTS
  SecPlaces,   \* places of a stamp that show the date and the time to the second
  MilliPlaces, \* places that show the milliseconds
  Part(_, _),  \* what an instant shows in a place
  Turn(_),     \* of some places, those the C library may deal with first
  Heartbeat,   \* option.Heartbeat
  MaxTime      \* bound: the clock

Places == SecPlaces \union MilliPlaces

ASSUME PlacesAssumption == SecPlaces # {} /\ SecPlaces \intersect MilliPlaces = {}
ASSUME BoundAssumption == MaxTime \in Nat
ASSUME PartAssumption == \A n \in 0..MaxTime, p \in Places : Part(n, p) \in Nat
ASSUME TurnAssumption ==
  \A S \in SUBSET Places : Turn(S) \subseteq S /\ (S # {} => Turn(S) # {})
ASSUME OptionAssumption == Heartbeat \in Nat

Threads == {"app", "hbt"}
Other(t) == IF t = "app" THEN "hbt" ELSE "app"

\* Messages that carry the time of their call, and one that carries data.Time;
\* a data.Time that strptime cannot parse leaves the message without a stamp.
DataKinds == {"data", "dataOwnTime", "dataBadTime"}
Kinds == DataKinds \union {"status", "config", "disconnect", "heartbeat"}

Own == -1     \* a place made of data.Time, the end of its text included
Nothing == -2 \* a place that has not been written

VARIABLES
  now,          \* the clock
  IsConnected,
  tm,           \* gmtime's static result
  ts,           \* the static buffer
  pc,           \* where each thread is
  left,         \* places it has still to deal with there
  kind,         \* the message it builds
  local,        \* rawtime, buffer and tv of _getTime
  stamp,        \* what it has copied into its message
  since,        \* history: when the earliest build it overlaps has begun
  disturbed,    \* history: what the other thread wrote under its hands
  late          \* history: messages it handed over since the flag fell

shared == <<tm, ts>>
build  == <<left, kind, local, stamp, since, disturbed>>
vars   == <<now, IsConnected, shared, pc, build, late>>

\* Threads inside a message builder.
Building == {"gmtime", "strftime", "gettimeofday", "sprintf", "own", "copy"}

NoKind(t) == IF t = "hbt" THEN "heartbeat" ELSE "data"
NoText   == [p \in SecPlaces |-> Nothing]
NoStamp  == [p \in Places |-> Nothing]
NoLocals == [rawtime |-> 0, buffer |-> NoText, tv |-> 0]

\* Constructor has built the last will before it creates the threads.
Init ==
  /\ now = 0 /\ IsConnected = FALSE
  /\ tm = [p \in SecPlaces |-> Part(0, p)] /\ ts = [p \in Places |-> Part(0, p)]
  /\ pc = [t \in Threads |-> "idle"]
  /\ left = [t \in Threads |-> {}]
  /\ kind = [t \in Threads |-> NoKind(t)]
  /\ local = [t \in Threads |-> NoLocals]
  /\ stamp = [t \in Threads |-> NoStamp]
  /\ since = [t \in Threads |-> 0]
  /\ disturbed = [t \in Threads |-> {}]
  /\ late = [t \in Threads |-> 0]

-----------------------------------------------------------------------------
(* The clock and the network thread.                                       *)

Tick ==
  /\ now < MaxTime
  /\ now' = now + 1
  /\ UNCHANGED <<IsConnected, shared, pc, build, late>>

connect_callback ==
  /\ \E accepted \in BOOLEAN :
       /\ IsConnected' = accepted
       /\ late' = IF accepted THEN [t \in Threads |-> 0] ELSE late
  /\ UNCHANGED <<now, shared, pc, build>>

disconnect_callback ==
  /\ IsConnected' = FALSE
  /\ UNCHANGED <<now, shared, pc, build, late>>

-----------------------------------------------------------------------------
(* The beginning of a message: _getTime asks for the time.                 *)

\* time(NULL), the first thing every builder does.
Begin(t, k) ==
  /\ pc[t] = "idle"
  /\ pc' = [pc EXCEPT ![t] = "gmtime"]
  /\ left' = [left EXCEPT ![t] = SecPlaces]
  /\ kind' = [kind EXCEPT ![t] = k]
  /\ local' = [local EXCEPT ![t].rawtime = now]
  /\ since' = [since EXCEPT ![t] =
                 IF pc[Other(t)] \in Building THEN since[Other(t)] ELSE now]
  /\ UNCHANGED <<now, IsConnected, shared, stamp, disturbed, late>>

SendData == \E k \in DataKinds : Begin("app", k)
SendDeviceStatus == Begin("app", "status")
UploadConfig == Begin("app", "config")
Disconnect == Begin("app", "disconnect")

\* Mutant of HeartbeatDue: the thread ends when it finds the flag down.
HeartbeatDueOnce ==
  /\ Heartbeat > 0
  /\ \/ IsConnected /\ Begin("hbt", "heartbeat")
     \/ /\ ~ IsConnected /\ pc["hbt"] = "idle"
        /\ pc' = [pc EXCEPT !["hbt"] = "exit"]
        /\ UNCHANGED <<now, IsConnected, shared, build, late>>

\* Mutant of HeartbeatDue: the flag is not tested.
HeartbeatDueAlways == Heartbeat > 0 /\ Begin("hbt", "heartbeat")

\* while(option.Heartbeat > 0) if(IsConnected) HearbeatMessage
HeartbeatDue ==
  /\ Heartbeat > 0 /\ IsConnected
  /\ Begin("hbt", "heartbeat")

-----------------------------------------------------------------------------
(* Building it.                                                            *)

\* Thread t has dealt with place p; after the last one it goes on at next, where
\* there are places to deal with.
Handled(t, p, next, places) ==
  IF left[t] = {p}
  THEN /\ pc' = [pc EXCEPT ![t] = next]
       /\ left' = [left EXCEPT ![t] = places]
  ELSE /\ left' = [left EXCEPT ![t] = @ \ {p}]
       /\ UNCHANGED pc

\* A thread relies on what it has put into tm until strftime has read it, and on
\* ts from its first character until the message has its copy.
Exposed(t, static) ==
  IF static = "tm"
  THEN pc[t] = "strftime" \/ (pc[t] = "gmtime" /\ left[t] # SecPlaces)
  ELSE pc[t] = "copy" \/ (pc[t] \in {"sprintf", "own"} /\ left[t] # Places)

\* Thread t writes to a static object the other one may rely on.
Disturb(t, static) ==
  disturbed' = [disturbed EXCEPT ![Other(t)] =
                  IF Exposed(Other(t), static) THEN @ \union {static} ELSE @]

Gmtime(t) ==
  /\ pc[t] = "gmtime"
  /\ \E p \in Turn(left[t]) :
       /\ tm' = [tm EXCEPT ![p] = Part(local[t].rawtime, p)]
       /\ Handled(t, p, "strftime", SecPlaces)
  /\ Disturb(t, "tm")
  /\ UNCHANGED <<now, IsConnected, ts, kind, local, stamp, since, late>>

Strftime(t) ==
  /\ pc[t] = "strftime"
  /\ \E p \in Turn(left[t]) :
       /\ local' = [local EXCEPT ![t].buffer[p] = tm[p]]
       /\ Handled(t, p, "gettimeofday", {})
  /\ UNCHANGED <<now, IsConnected, shared, kind, stamp, since, disturbed, late>>

\* Mutant of Microseconds: the instant is rounded up.
MicrosecondsUp == now + 1

\* Mutant of Microseconds: gettimeofday has not been called.
MicrosecondsOfStart == 0

\* What gettimeofday returns.
Microseconds == now

Gettimeofday(t) ==
  /\ pc[t] = "gettimeofday"
  /\ pc' = [pc EXCEPT ![t] = "sprintf"]
  /\ left' = [left EXCEPT ![t] = Places]
  /\ local' = [local EXCEPT ![t].tv = Microseconds]
  /\ UNCHANGED <<now, IsConnected, shared, kind, stamp, since, disturbed, late>>

\* Mutant of AfterGetTime: a heartbeat goes on as if the application's time held.
AfterGetTimeOwn(k) == IF k \in {"dataOwnTime", "heartbeat"} THEN "own" ELSE "copy"

\* What becomes of the stamp: data.Time replaces it, or leaves the message
\* without one, or the message gets it.
AfterGetTime(k) ==
  CASE k = "dataOwnTime" -> "own" [] k = "dataBadTime" -> "built" [] OTHER -> "copy"

\* sprintf into ts, and the return of _getTime.
Sprintf(t) ==
  /\ pc[t] = "sprintf"
  /\ \E p \in Turn(left[t]) :
       /\ ts' = [ts EXCEPT ![p] = IF p \in SecPlaces THEN local[t].buffer[p]
                                  ELSE Part(local[t].tv, p)]
       /\ Handled(t, p, AfterGetTime(kind[t]),
                  IF AfterGetTime(kind[t]) = "built" THEN {} ELSE Places)
       /\ local' = IF left[t] = {p} THEN [local EXCEPT ![t] = NoLocals] ELSE local
  /\ Disturb(t, "ts")
  /\ UNCHANGED <<now, IsConnected, tm, kind, stamp, since, late>>

\* SendDataMessage prints data.Time into the same buffer.
OwnTime(t) ==
  /\ pc[t] = "own"
  /\ \E p \in Turn(left[t]) :
       /\ ts' = [ts EXCEPT ![p] = Own]
       /\ Handled(t, p, "copy", Places)
  /\ Disturb(t, "ts")
  /\ UNCHANGED <<now, IsConnected, tm, kind, local, stamp, since, late>>

\* cJSON_AddStringToObject(..., "ts", ts)
AddStamp(t) ==
  /\ pc[t] = "copy"
  /\ \E p \in Turn(left[t]) :
       /\ stamp' = [stamp EXCEPT ![t][p] = ts[p]]
       /\ Handled(t, p, "built", {})
  /\ UNCHANGED <<now, IsConnected, shared, kind, local, since, disturbed, late>>

Build(t) ==
  Gmtime(t) \/ Strftime(t) \/ Gettimeofday(t) \/ Sprintf(t) \/ OwnTime(t) \/ AddStamp(t)

-----------------------------------------------------------------------------
(* Handing it over.                                                        *)

\* The message is gone, and with it what belongs to it.
Forget(t) ==
  /\ pc' = [pc EXCEPT ![t] = "idle"]
  /\ kind' = [kind EXCEPT ![t] = NoKind(t)]
  /\ stamp' = [stamp EXCEPT ![t] = NoStamp]
  /\ since' = [since EXCEPT ![t] = 0]
  /\ disturbed' = [disturbed EXCEPT ![t] = {}]
  /\ UNCHANGED <<left, local>>

\* Messages that are handed over only if the flag is up when it is tested.
Conditional == DataKinds \union {"status", "heartbeat"}

\* SendData and SendDeviceStatus test the flag now, UploadConfig and Disconnect
\* do not; heartbeat_proc has tested it before it built the message, and sleeps.
ToHandOver(t) ==
  /\ pc[t] = "built"
  /\ kind[t] \in DataKinds \union {"status"} => IsConnected
  /\ pc' = [pc EXCEPT ![t] = "publish"]
  /\ UNCHANGED <<now, IsConnected, shared, build, late>>

\* SendData caches its message, SendDeviceStatus drops it; data without a value
\* that passed the deadband is not sent at all.
KeepBack ==
  /\ pc["app"] = "built"
  /\ kind["app"] \in DataKinds \union IF IsConnected THEN {} ELSE {"status"}
  /\ Forget("app")
  /\ UNCHANGED <<now, IsConnected, shared, late>>

\* mosquitto_publish
Publish(t) ==
  /\ pc[t] = "publish"
  /\ late' = IF ~ IsConnected /\ kind[t] \in Conditional
             THEN [late EXCEPT ![t] = @ + 1] ELSE late
  /\ Forget(t)
  /\ UNCHANGED <<now, IsConnected, shared>>

Network == connect_callback \/ disconnect_callback

Application ==
  \/ SendData \/ SendDeviceStatus \/ UploadConfig \/ Disconnect
  \/ Build("app") \/ ToHandOver("app") \/ KeepBack \/ Publish("app")

heartbeat_proc == HeartbeatDue \/ Build("hbt") \/ ToHandOver("hbt") \/ Publish("hbt")

Next == Tick \/ Network \/ Application \/ heartbeat_proc

\* The operating system schedules the heartbeat thread.
Spec == Init /\ [][Next]_vars /\ WF_vars(heartbeat_proc)

-----------------------------------------------------------------------------
(* Properties.                                                             *)

Locals == [rawtime : 0..MaxTime, buffer : [SecPlaces -> Nat \union {Nothing}], tv : 0..MaxTime]

TypeOK ==
  /\ now \in 0..MaxTime /\ IsConnected \in BOOLEAN
  /\ tm \in [SecPlaces -> Nat]
  /\ ts \in [Places -> Nat \union {Own, Nothing}]
  /\ pc \in [Threads -> {"idle", "built", "publish"} \union Building]
  /\ left \in [Threads -> SUBSET Places]
  /\ kind \in [Threads -> Kinds]
  /\ \A t \in Threads :
       /\ kind[t] = "heartbeat" <=> t = "hbt"
       /\ pc[t] = "own" => kind[t] = "dataOwnTime"
       /\ pc[t] \in {"gmtime", "strftime"} => left[t] \subseteq SecPlaces
       /\ left[t] # {} <=> pc[t] \in Building \ {"gettimeofday"}
  /\ local \in [Threads -> Locals]
  /\ stamp \in [Threads -> [Places -> Nat \union {Own, Nothing}]]
  /\ since \in [Threads -> Nat]
  /\ disturbed \in [Threads -> SUBSET {"tm", "ts"}]
  /\ late \in [Threads -> Nat]

Stamped(t) == pc[t] \in {"built", "publish"}
OfClock(c) == c >= 0

\* c is in place p what the clock has shown there during the builds t overlaps.
Recent(t, p, c) == \E n \in since[t]..now : c = Part(n, p)

\* Whatever two threads do to tm and ts at once, each single place of a stamp made
\* of the clock is what the clock has shown there since the earliest of the
\* builds that overlap began, never something older (the stamp as a whole may
\* still be a time that never was).
RecentParts ==
  \A t \in Threads, p \in Places :
    Stamped(t) /\ OfClock(stamp[t][p]) => Recent(t, p, stamp[t][p])

\* s is one reading of the clock for its seconds and one, not earlier, for its
\* milliseconds, both taken while t built its message: a second may end between
\* time and gettimeofday.
TimeOf(t, s) ==
  \E m \in since[t]..now : \E n \in m..now :
    /\ \A p \in SecPlaces : s[p] = Part(m, p)
    /\ \A p \in MilliPlaces : s[p] = Part(n, p)

\* The stamp of a message carries a time, not a mixture, unless the other thread
\* wrote to gmtime's result or to the buffer while this one relied on it.
WholeStamp ==
  \A t \in Threads :
    Stamped(t) /\ disturbed[t] = {} /\ kind[t] \notin {"dataOwnTime", "dataBadTime"} =>
      TimeOf(t, stamp[t])

\* The stamp a message of kind k should have in s, all of it.
Proper(k, s) ==
  \A p \in Places :
    CASE k = "dataOwnTime" -> s[p] = Own
      [] k = "dataBadTime" -> s[p] = Nothing
      [] OTHER             -> OfClock(s[p])

\* A message has the kind of stamp it should have unless the other thread wrote to
\* the buffer after this one had begun to: only then can a heartbeat carry the
\* application's data.Time, or data lose it.
OwnStamp ==
  \A t \in Threads : Stamped(t) /\ "ts" \notin disturbed[t] => Proper(kind[t], stamp[t])

\* Each thread hands the client at most one message on the strength of a flag
\* that has fallen since it was tested, however long a heartbeat sleeps.
FewStaleMessages == \A t \in Threads : late[t] <= 1

\* As long as the agent stays connected, heartbeats go on being published, also
\* after outages.
HeartbeatsGoOn ==
  (Heartbeat > 0 /\ <>[]IsConnected) =>
    []<>(pc["hbt"] = "publish") /\ []<>(pc["hbt"] = "idle")

-----------------------------------------------------------------------------
(* The inductive invariant behind the safety properties.                   *)

\* A message that will be handed over whatever becomes of the flag it depends on.
Pending(t) == IF t = "hbt" THEN pc[t] # "idle" ELSE pc[t] = "publish" /\ kind[t] \in Conditional

LateInv ==
  \A t \in Threads : /\ IsConnected => late[t] = 0
                     /\ late[t] <= IF Pending(t) THEN 0 ELSE 1

\* What thread t has written so far, at "at" and, all of it, at "after".
Written(t, places, at, after) ==
  CASE pc[t] = at -> places \ left[t] [] pc[t] \in after -> places [] OTHER -> {}

InTm(t)     == Written(t, SecPlaces, "gmtime", {"strftime"})
InBuffer(t) == Written(t, SecPlaces, "strftime", {"gettimeofday", "sprintf"})
InTs(t)     == Written(t, Places, "sprintf", {"own", "copy"})
InStamp(t)  == Written(t, Places, "copy", {"built", "publish"})

\* The kind of stamp in the buffer of a thread nobody has disturbed.
BufferOf(t) ==
  /\ pc[t] \notin {"copy", "built", "publish"} => stamp[t] = NoStamp
  /\ "ts" \notin disturbed[t] =>
       /\ pc[t] = "sprintf" => \A p \in InTs(t) : OfClock(ts[p])
       /\ pc[t] = "own" => \A p \in Places \ left[t] : ts[p] = Own
       /\ pc[t] = "copy" => /\ kind[t] # "dataBadTime" /\ Proper(kind[t], ts)
                            /\ \A p \in InStamp(t) : stamp[t][p] = ts[p]
       /\ Stamped(t) => Proper(kind[t], stamp[t])

BufferInv == \A t \in Threads : BufferOf(t)

\* Every place a thread reads has been written during the builds it overlaps.
RecentOf(t) ==
  /\ since[t] <= now
  /\ pc[t] \in Building \ {"own", "copy"} => local[t].rawtime \in since[t]..now
  /\ pc[t] = "sprintf" => local[t].tv \in local[t].rawtime..now
  /\ \A p \in InTm(t) : Recent(t, p, tm[p])
  /\ \A p \in InBuffer(t) : Recent(t, p, local[t].buffer[p])
  /\ \A p \in InTs(t) : OfClock(ts[p]) => Recent(t, p, ts[p])
  /\ \A p \in Places : OfClock(stamp[t][p]) => Recent(t, p, stamp[t][p])

RecentInv ==
  /\ \A t \in Threads : RecentOf(t)
  /\ (\A t \in Threads : pc[t] \in Building) => since["app"] = since["hbt"]

\* The time of a thread nobody has disturbed, from its reading to its message.
WholeOf(t) ==
  /\ "tm" \notin disturbed[t] =>
       /\ \A p \in InTm(t) : tm[p] = Part(local[t].rawtime, p)
       /\ \A p \in InBuffer(t) : local[t].buffer[p] = Part(local[t].rawtime, p)
  /\ disturbed[t] = {} =>
       /\ pc[t] = "sprintf" =>
            \A p \in InTs(t) : ts[p] = Part(IF p \in SecPlaces THEN local[t].rawtime
                                            ELSE local[t].tv, p)
       /\ pc[t] = "copy" /\ kind[t] # "dataOwnTime" => TimeOf(t, ts)
       /\ Stamped(t) /\ kind[t] \notin {"dataOwnTime", "dataBadTime"} => TimeOf(t, stamp[t])

WholeInv == \A t \in Threads : WholeOf(t)

HeartbeatInv == TypeOK /\ LateInv /\ BufferInv /\ RecentInv /\ WholeInv
=============================================================================
