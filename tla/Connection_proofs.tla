-------------------------- MODULE Connection_proofs --------------------------
(***************************************************************************)
(* Proofs about module Connection, for any number of reconnect threads, of *)
(* calls of Connect and Disconnect, of outages and of rotations.           *)
(***************************************************************************)
EXTENDS Connection, TLAPS

-----------------------------------------------------------------------------
(* Steps.                                                                  *)

\* The threads that attempt to connect.
Attempters == {App} \union Reconnectors

\* The labels of the three kinds of threads.
AppLabels == {"idle", "failed", "stop", "start", "auth", "connect", "calling", "restart",
              "abandon", "on_disconnect", "lost", "fetch", "user", "pass"}
NetLabels == {"none", "loop", "event", "subscribe", "backoff", "reconnect", "exited",
              "on_disconnect", "lost", "fetch", "user", "pass"}
ReconnectorLabels == {"none", "check", "start", "auth", "connect", "calling", "restart",
                      "abandon", "fetch", "user", "pass"}

PcOK ==
  /\ DOMAIN pc = Threads
  /\ pc[App] \in AppLabels /\ pc[Net] \in NetLabels
  /\ \A r \in Reconnectors : pc[r] \in ReconnectorLabels

\* What the type invariant says of the labels.
LEMMA Labels ==
  ASSUME TypeOK
  PROVE  /\ App \in Threads /\ Net \in Threads /\ App # Net
         /\ Net \notin Attempters /\ Attempters \subseteq Threads
         /\ Threads = Attempters \union {Net}
         /\ PcOK /\ leaving \subseteq {App, Net}
BY ThreadsAssumption
   DEF TypeOK, PcOK, Threads, Attempters, Attempting, Leaving, Fetching,
       AppLabels, NetLabels, ReconnectorLabels

\* The steps of Next, by the thread that takes them.
LEMMA NextSteps ==
  ASSUME TypeOK, Next
  PROVE  \/ \E t \in Threads : \/ Fetch(t) \/ FetchFails(t) \/ StoreUser(t)
                               \/ StorePassword(t)
         \/ \E t \in {App, Net} : LowerFlag(t) \/ EventDisconnect(t)
         \/ \E t \in Attempters : \/ LoopStart(t) \/ UsernamePwSet(t)
                                  \/ MosquittoConnect(t) \/ CallSucceeds(t)
                                  \/ CallFails(t) \/ ConnectSucceeded(t)
                                  \/ ConnectFailed(t)
         \/ \E r \in Reconnectors : CheckConnected(r)
         \/ Connect \/ CreateReconnectThread \/ Disconnect \/ StopAfterDisconnect
         \/ ConnectAccepted \/ ConnectRefused \/ EventConnect \/ Subscribe
         \/ SessionEnds \/ NoSocket \/ WakeUp \/ ReconnectSucceeds \/ ReconnectFails
         \/ BrokerLost \/ BrokerBack \/ Rotate
<1>1. ASSUME NEW t \in Threads, Common(t)
      PROVE  \/ Fetch(t) \/ FetchFails(t) \/ StoreUser(t) \/ StorePassword(t)
             \/ t \in {App, Net} /\ (LowerFlag(t) \/ EventDisconnect(t))
  <2>1. t \notin {App, Net} => pc[t] \notin {"on_disconnect", "lost"}
    BY Labels DEF Attempters, PcOK, ReconnectorLabels
  <2>. QED  BY <1>1, <2>1 DEF Common, LowerFlag, EventDisconnect
<1>2. Application =>
        \/ Connect \/ Disconnect \/ CreateReconnectThread \/ StopAfterDisconnect
        \/ Attempt(App) \/ Common(App)
  BY DEF Application, InCall
<1>3. /\ Network => NetworkThread \/ Common(Net)
      /\ \A r \in Reconnectors :
           Reconnect(r) => CheckConnected(r) \/ Attempt(r) \/ Common(r)
  BY DEF Network, Reconnect
<1>. QED
  BY <1>1, <1>2, <1>3, Labels, Zenon
     DEF Next, NetworkThread, Environment, Attempt, Attempters

-----------------------------------------------------------------------------
(* Types.                                                                  *)

LEMMA InitCallbackThreads == Init => CallbackThreads
BY ThreadsAssumption DEF Init, CallbackThreads, Threads, Leaving, Fetching

\* Every step keeps leaving and pc in agreement.
LEMMA NextCallbackThreads ==
  TypeOK /\ CallbackThreads /\ [Next]_vars => CallbackThreads'
<1>. SUFFICES ASSUME TypeOK, CallbackThreads, [Next]_vars
              PROVE  CallbackThreads'
  OBVIOUS
<1>0. disconnects \in Nat
  BY DEF TypeOK
<1>. USE <1>0, Labels, ThreadsAssumption
     DEF CallbackThreads, PcOK, AppLabels, NetLabels, ReconnectorLabels, Leaving, Fetching,
         Attempters, threadVars, calls, Goto
<1>1. ASSUME NEW t \in Threads, Fetch(t)
      PROVE  CallbackThreads'
  BY <1>1 DEF Fetch
<1>2. ASSUME NEW t \in Threads, FetchFails(t)
      PROVE  CallbackThreads'
  BY <1>2 DEF FetchFails, AfterFailedFetch
<1>3. ASSUME NEW t \in Threads, StoreUser(t)
      PROVE  CallbackThreads'
  BY <1>3 DEF StoreUser, Overlap, Holding
<1>4. ASSUME NEW t \in Threads, StorePassword(t)
      PROVE  CallbackThreads'
  BY <1>4 DEF StorePassword, AfterFetch, Overlap, Holding
<1>5. ASSUME NEW t \in {App, Net}, LowerFlag(t)
      PROVE  CallbackThreads'
  BY <1>5 DEF LowerFlag
<1>6. ASSUME NEW t \in {App, Net}, EventDisconnect(t)
      PROVE  CallbackThreads'
  BY <1>6 DEF EventDisconnect, AfterCallback
<1>7. ASSUME NEW t \in Attempters, LoopStart(t)
      PROVE  CallbackThreads'
  BY <1>7 DEF LoopStart, StartedThreads
<1>8. ASSUME NEW t \in Attempters, UsernamePwSet(t)
      PROVE  CallbackThreads'
  BY <1>8 DEF UsernamePwSet
<1>9. ASSUME NEW t \in Attempters, MosquittoConnect(t)
      PROVE  CallbackThreads'
  BY <1>9 DEF MosquittoConnect, CloseSocket
<1>10. ASSUME NEW t \in Attempters, CallSucceeds(t)
       PROVE  CallbackThreads'
  BY <1>10 DEF CallSucceeds, OpenSocket
<1>11. ASSUME NEW t \in Attempters, CallFails(t)
       PROVE  CallbackThreads'
  BY <1>11 DEF CallFails
<1>12. ASSUME NEW t \in Attempters, ConnectSucceeded(t)
       PROVE  CallbackThreads'
  BY <1>12 DEF ConnectSucceeded, StartedThreads
<1>13. ASSUME NEW t \in Attempters, ConnectFailed(t)
       PROVE  CallbackThreads'
  BY <1>13 DEF ConnectFailed, LoopStop
<1>14. ASSUME NEW r \in Reconnectors, CheckConnected(r)
       PROVE  CallbackThreads'
  BY <1>14 DEF CheckConnected, FirstStep
<1>15. CASE Connect
  BY <1>15 DEF Connect, FirstStep
<1>16. CASE CreateReconnectThread
  BY <1>16 DEF CreateReconnectThread
<1>17. CASE Disconnect
  BY <1>17 DEF Disconnect
<1>18. CASE StopAfterDisconnect
  BY <1>18 DEF StopAfterDisconnect, LoopStop
<1>19. CASE ConnectAccepted
  BY <1>19 DEF ConnectAccepted
<1>20. CASE ConnectRefused
  BY <1>20 DEF ConnectRefused
<1>21. CASE EventConnect \/ Subscribe
  BY <1>21 DEF EventConnect, Subscribe
<1>22. CASE SessionEnds \/ NoSocket
  BY <1>22 DEF SessionEnds, NoSocket
<1>23. CASE WakeUp
  BY <1>23 DEF WakeUp, CloseSocket
<1>24. CASE ReconnectSucceeds \/ ReconnectFails
  BY <1>24 DEF ReconnectSucceeds, ReconnectFails, OpenSocket
<1>25. CASE BrokerLost \/ BrokerBack \/ Rotate
  BY <1>25 DEF BrokerLost, BrokerBack, Rotate
<1>26. CASE UNCHANGED vars
  BY <1>26 DEF vars
<1>. QED
  BY <1>1, <1>2, <1>3, <1>4, <1>5, <1>6, <1>7, <1>8, <1>9, <1>10, <1>11,
     <1>12, <1>13, <1>14, <1>15, <1>16, <1>17, <1>18, <1>19, <1>20, <1>21,
     <1>22, <1>23, <1>24, <1>25, <1>26, NextSteps, Zenon

\* Every step keeps the labels each kind of thread may have.
LEMMA NextPcOK == TypeOK /\ CallbackThreads /\ [Next]_vars => PcOK'
<1>. SUFFICES ASSUME TypeOK, CallbackThreads, [Next]_vars
              PROVE  PcOK'
  OBVIOUS
<1>0. /\ App \in Threads /\ Net \in Threads /\ App # Net
      /\ Reconnectors \subseteq Threads
      /\ PcOK /\ leaving \subseteq {App, Net}
      /\ Net \in leaving <=> pc[Net] \in {"fetch", "user", "pass", "on_disconnect", "lost"}
  BY Labels DEF CallbackThreads, Leaving, Fetching, Attempters
<1>. USE <1>0, ThreadsAssumption
     DEF PcOK, AppLabels, NetLabels, ReconnectorLabels, Attempters, Goto
<1>1. ASSUME NEW t \in Threads, Fetch(t)
      PROVE  PcOK'
  BY <1>1 DEF Fetch
<1>2. ASSUME NEW t \in Threads, FetchFails(t)
      PROVE  PcOK'
  BY <1>2 DEF FetchFails, AfterFailedFetch
<1>3. ASSUME NEW t \in Threads, StoreUser(t)
      PROVE  PcOK'
  BY <1>3 DEF StoreUser, Overlap, Holding
<1>4. ASSUME NEW t \in Threads, StorePassword(t)
      PROVE  PcOK'
  BY <1>4 DEF StorePassword, AfterFetch, Overlap, Holding
<1>5. ASSUME NEW t \in {App, Net}, LowerFlag(t)
      PROVE  PcOK'
  BY <1>5 DEF LowerFlag
<1>6. ASSUME NEW t \in {App, Net}, EventDisconnect(t)
      PROVE  PcOK'
  BY <1>6 DEF EventDisconnect, AfterCallback
<1>7. ASSUME NEW t \in Attempters, LoopStart(t)
      PROVE  PcOK'
  BY <1>7 DEF LoopStart, StartedThreads
<1>8. ASSUME NEW t \in Attempters, UsernamePwSet(t)
      PROVE  PcOK'
  BY <1>8 DEF UsernamePwSet
<1>9. ASSUME NEW t \in Attempters, MosquittoConnect(t)
      PROVE  PcOK'
  BY <1>9 DEF MosquittoConnect, CloseSocket
<1>10. ASSUME NEW t \in Attempters, CallSucceeds(t)
       PROVE  PcOK'
  BY <1>10 DEF CallSucceeds, OpenSocket
<1>11. ASSUME NEW t \in Attempters, CallFails(t)
       PROVE  PcOK'
  BY <1>11 DEF CallFails
<1>12. ASSUME NEW t \in Attempters, ConnectSucceeded(t)
       PROVE  PcOK'
  BY <1>12 DEF ConnectSucceeded, StartedThreads
<1>13. ASSUME NEW t \in Attempters, ConnectFailed(t)
       PROVE  PcOK'
  BY <1>13 DEF ConnectFailed, LoopStop
<1>14. ASSUME NEW r \in Reconnectors, CheckConnected(r)
       PROVE  PcOK'
  BY <1>14 DEF CheckConnected, FirstStep
<1>15. CASE Connect
  BY <1>15 DEF Connect, FirstStep
<1>16. CASE CreateReconnectThread
  BY <1>16 DEF CreateReconnectThread
<1>17. CASE Disconnect
  BY <1>17 DEF Disconnect
<1>18. CASE StopAfterDisconnect
  BY <1>18 DEF StopAfterDisconnect, LoopStop
<1>19. CASE ConnectAccepted
  BY <1>19 DEF ConnectAccepted
<1>20. CASE ConnectRefused
  BY <1>20 DEF ConnectRefused
<1>21. CASE EventConnect \/ Subscribe
  BY <1>21 DEF EventConnect, Subscribe
<1>22. CASE SessionEnds \/ NoSocket
  BY <1>22 DEF SessionEnds, NoSocket
<1>23. CASE WakeUp
  BY <1>23 DEF WakeUp, CloseSocket
<1>24. CASE ReconnectSucceeds \/ ReconnectFails
  BY <1>24 DEF ReconnectSucceeds, ReconnectFails, OpenSocket
<1>25. CASE BrokerLost \/ BrokerBack \/ Rotate
  BY <1>25 DEF BrokerLost, BrokerBack, Rotate
<1>26. CASE UNCHANGED vars
  BY <1>26 DEF vars
<1>. QED
  BY <1>1, <1>2, <1>3, <1>4, <1>5, <1>6, <1>7, <1>8, <1>9, <1>10, <1>11,
     <1>12, <1>13, <1>14, <1>15, <1>16, <1>17, <1>18, <1>19, <1>20, <1>21,
     <1>22, <1>23, <1>24, <1>25, <1>26, NextSteps, Zenon

\* The type invariant of the rest.
DataOK ==
  /\ got \in [Threads -> 0..issued]
  /\ leaving \subseteq {App, Net} /\ overlapped \subseteq Threads
  /\ {option, client, login} \subseteq [user : 0..issued, pass : 0..issued]
  /\ {IsConnected, informed, hostKnown, disconnecting, closing, subscribed, up,
      DCCS, AutoReconnect} \subseteq BOOLEAN
  /\ ~ DCCS => issued = 0
  /\ session \in {"none", "pending", "open", "broken"}
  /\ issued \in Nat /\ outages \in Nat /\ connects \in Nat /\ disconnects \in Nat

\* Every step keeps the types; a rotation only adds a credential.
LEMMA NextDataOK == TypeOK /\ [Next]_vars => DataOK'
<1>. SUFFICES ASSUME TypeOK, [Next]_vars
              PROVE  DataOK'
  OBVIOUS
<1>0. /\ App \in Threads /\ Net \in Threads /\ Attempters \subseteq Threads
      /\ Reconnectors \subseteq Threads /\ DataOK
  BY Labels DEF DataOK, TypeOK, Attempters
<1>. USE <1>0 DEF DataOK, threadVars, clientVars, sessionVars, brokerVars, calls, settings, Pair
<1>1. ASSUME NEW t \in Threads, Fetch(t)
      PROVE  DataOK'
  BY <1>1 DEF Fetch
<1>2. ASSUME NEW t \in Threads, FetchFails(t)
      PROVE  DataOK'
  BY <1>2 DEF FetchFails, AfterFailedFetch
<1>3. ASSUME NEW t \in Threads, StoreUser(t)
      PROVE  DataOK'
  BY <1>3 DEF StoreUser, Overlap, Holding
<1>4. ASSUME NEW t \in Threads, StorePassword(t)
      PROVE  DataOK'
  BY <1>4 DEF StorePassword, AfterFetch, Overlap, Holding
<1>5. ASSUME NEW t \in {App, Net}, LowerFlag(t)
      PROVE  DataOK'
  BY <1>5 DEF LowerFlag
<1>6. ASSUME NEW t \in {App, Net}, EventDisconnect(t)
      PROVE  DataOK'
  <2>1. /\ got' = [got EXCEPT ![t] = 0] /\ leaving' = leaving \ {t} /\ informed' = FALSE
        /\ UNCHANGED <<overlapped, option, IsConnected, clientVars, sessionVars,
                       brokerVars, calls>>
    BY <1>6 DEF EventDisconnect
  <2>2. 0 \in 0..issued
    OBVIOUS
  <2>. QED  BY <2>1, <2>2
<1>7. ASSUME NEW t \in Attempters, LoopStart(t)
      PROVE  DataOK'
  BY <1>7 DEF LoopStart, StartedThreads
<1>8. ASSUME NEW t \in Attempters, UsernamePwSet(t)
      PROVE  DataOK'
  BY <1>8 DEF UsernamePwSet
<1>9. ASSUME NEW t \in Attempters, MosquittoConnect(t)
      PROVE  DataOK'
  BY <1>9 DEF MosquittoConnect, CloseSocket
<1>10. ASSUME NEW t \in Attempters, CallSucceeds(t)
       PROVE  DataOK'
  BY <1>10 DEF CallSucceeds, OpenSocket
<1>11. ASSUME NEW t \in Attempters, CallFails(t)
       PROVE  DataOK'
  BY <1>11 DEF CallFails
<1>12. ASSUME NEW t \in Attempters, ConnectSucceeded(t)
       PROVE  DataOK'
  BY <1>12 DEF ConnectSucceeded, StartedThreads
<1>13. ASSUME NEW t \in Attempters, ConnectFailed(t)
       PROVE  DataOK'
  BY <1>13 DEF ConnectFailed, LoopStop
<1>14. ASSUME NEW r \in Reconnectors, CheckConnected(r)
       PROVE  DataOK'
  BY <1>14 DEF CheckConnected
<1>15. CASE Connect
  BY <1>15 DEF Connect
<1>16. CASE CreateReconnectThread
  BY <1>16 DEF CreateReconnectThread
<1>17. CASE Disconnect
  <2>1. /\ disconnects' = disconnects + 1 /\ disconnecting' = TRUE
        /\ session' \in {session, "none"} /\ leaving' \in {leaving, leaving \union {App}}
    BY <1>17 DEF Disconnect
  <2>3. closing' \in BOOLEAN
    <3>1. closing' = closing \/ closing' = (session # "none")
      BY <1>17 DEF Disconnect
    <3>. QED  BY <3>1, Zenon
  <2>2. UNCHANGED <<got, overlapped, option, IsConnected, client, hostKnown, login,
                    subscribed, informed, brokerVars, connects, settings>>
    BY <1>17 DEF Disconnect
  <2>. QED  BY <2>1, <2>2, <2>3
<1>18. CASE StopAfterDisconnect
  BY <1>18 DEF StopAfterDisconnect, LoopStop
<1>19. CASE ConnectAccepted
  BY <1>19 DEF ConnectAccepted
<1>20. CASE ConnectRefused
  BY <1>20 DEF ConnectRefused
<1>21. CASE EventConnect \/ Subscribe
  BY <1>21 DEF EventConnect, Subscribe
<1>22. CASE SessionEnds \/ NoSocket
  BY <1>22 DEF SessionEnds, NoSocket
<1>23. CASE WakeUp
  BY <1>23 DEF WakeUp, CloseSocket
<1>24. CASE ReconnectSucceeds \/ ReconnectFails
  BY <1>24 DEF ReconnectSucceeds, ReconnectFails, OpenSocket
<1>25. CASE BrokerLost \/ BrokerBack \/ Rotate
  <2>1. CASE BrokerLost \/ BrokerBack
    <3>1. /\ up' \in BOOLEAN /\ session' \in {session, "none", "broken"}
          /\ outages' \in {outages, outages + 1}
      BY <2>1 DEF BrokerLost, BrokerBack
    <3>2. UNCHANGED <<got, leaving, overlapped, option, IsConnected, client, hostKnown,
                      disconnecting, login, closing, subscribed, informed, issued,
                      connects, disconnects, DCCS, AutoReconnect>>
      BY <2>1 DEF BrokerLost, BrokerBack
    <3>. QED  BY <3>1, <3>2
  <2>2. CASE Rotate
    <3>1. issued' \in Nat /\ 0..issued \subseteq 0..issued' /\ (~ DCCS => issued' = 0)
      BY <2>2 DEF Rotate
    <3>2. UNCHANGED <<got, leaving, overlapped, option, IsConnected, client, hostKnown,
                      disconnecting, session, login, closing, subscribed, informed, up,
                      outages, connects, disconnects, DCCS, AutoReconnect>>
      BY <2>2 DEF Rotate
    <3>3. got' \in [Threads -> 0..issued']
      BY <3>1, <3>2
    <3>4. {option', client', login'} \subseteq [user : 0..issued', pass : 0..issued']
      BY <3>1, <3>2
    <3>. QED  BY <3>1, <3>2, <3>3, <3>4
  <2>. QED  BY <1>25, <2>1, <2>2
<1>26. CASE UNCHANGED vars
  BY <1>26 DEF vars
<1>. QED
  BY <1>1, <1>2, <1>3, <1>4, <1>5, <1>6, <1>7, <1>8, <1>9, <1>10, <1>11,
     <1>12, <1>13, <1>14, <1>15, <1>16, <1>17, <1>18, <1>19, <1>20, <1>21,
     <1>22, <1>23, <1>24, <1>25, <1>26, NextSteps, Zenon

\* The two parts are all of it.
LEMMA PartsOfTypeOK == PcOK /\ DataOK => TypeOK
BY DEF PcOK, DataOK, TypeOK, AppLabels, NetLabels, ReconnectorLabels,
       Attempting, Leaving, Fetching

\* The program starts in a state the type invariant describes.
LEMMA InitTypeOK == Init => TypeOK
<1>. SUFFICES ASSUME Init
              PROVE  TypeOK
  OBVIOUS
<1>1. PcOK
  BY ThreadsAssumption
     DEF Init, PcOK, Threads, AppLabels, NetLabels, ReconnectorLabels
<1>2. DataOK
  <2>1. /\ got = [t \in Threads |-> 0] /\ leaving = {} /\ overlapped = {} /\ issued = 0
        /\ option = Pair(0, 0) /\ client = Pair(0, 0) /\ login = Pair(0, 0)
        /\ outages = 0 /\ connects = 0 /\ disconnects = 0 /\ session = "none"
    BY DEF Init
  <2>2. {IsConnected, informed, hostKnown, disconnecting, closing, subscribed, up,
         DCCS, AutoReconnect} \subseteq BOOLEAN
    BY DEF Init
  <2>3. {option, client, login} \subseteq [user : 0..issued, pass : 0..issued]
    BY <2>1 DEF Pair
  <2>. QED  BY <2>1, <2>2, <2>3 DEF DataOK
<1>. QED  BY <1>1, <1>2, PartsOfTypeOK

LEMMA NextTypeOK == TypeOK /\ CallbackThreads /\ [Next]_vars => TypeOK'
<1>1. PcOK' /\ DataOK' => TypeOK'
  BY PartsOfTypeOK, PTL
<1>. QED  BY <1>1, NextPcOK, NextDataOK

\* Type correctness for any number of threads; it depends on the network thread
\* being inside disconnect_callback exactly when leaving says so.
THEOREM TypeCorrect == Spec => []TypeOK
<1>1. Spec => [](TypeOK /\ CallbackThreads)
  BY InitTypeOK, InitCallbackThreads, NextTypeOK, NextCallbackThreads, PTL DEF Spec
<1>. QED  BY <1>1, PTL

-----------------------------------------------------------------------------
(* The invariant, one part after the other.                                *)

\* Only Connect begins an attempt.
LEMMA NextNothingYet ==
  TypeOK /\ CallbackThreads /\ OneTries /\ NothingYet /\ [Next]_vars => NothingYet'
<1>. SUFFICES ASSUME TypeOK, CallbackThreads, OneTries, NothingYet, [Next]_vars
              PROVE  NothingYet'
  OBVIOUS
<1>0. /\ App \in Threads /\ Net \in Threads /\ App # Net /\ Net \notin Attempters
      /\ Attempters = {App} \union Reconnectors /\ Threads = Attempters \union {Net}
      /\ App \notin Reconnectors /\ Net \notin Reconnectors
      /\ PcOK /\ leaving \subseteq {App, Net} /\ CallbackThreads
      /\ connects \in Nat /\ disconnects \in Nat
  BY Labels, ThreadsAssumption DEF Attempters, TypeOK
<1>. USE <1>0
     DEF CallbackThreads, OneTries, NothingYet, Tries, Job, Preparing,
         Calling, Leaving, Fetching, PcOK, AppLabels, NetLabels,
         ReconnectorLabels, Goto, threadVars, clientVars, sessionVars,
         brokerVars, calls, settings
<1>1. ASSUME NEW t \in Threads, Fetch(t)
      PROVE  NothingYet'
  BY <1>1 DEF Fetch
<1>2. ASSUME NEW t \in Threads, FetchFails(t)
      PROVE  NothingYet'
  BY <1>2 DEF FetchFails, AfterFailedFetch
<1>3. ASSUME NEW t \in Threads, StoreUser(t)
      PROVE  NothingYet'
  BY <1>3 DEF StoreUser, Overlap, Holding
<1>4. ASSUME NEW t \in Threads, StorePassword(t)
      PROVE  NothingYet'
  BY <1>4 DEF StorePassword, AfterFetch, Overlap, Holding
<1>5. ASSUME NEW t \in {App, Net}, LowerFlag(t)
      PROVE  NothingYet'
  BY <1>5 DEF LowerFlag
<1>6. ASSUME NEW t \in {App, Net}, EventDisconnect(t)
      PROVE  NothingYet'
  BY <1>6 DEF EventDisconnect, AfterCallback
<1>7. ASSUME NEW t \in Attempters, LoopStart(t)
      PROVE  NothingYet'
  BY <1>7 DEF LoopStart, StartedThreads
<1>8. ASSUME NEW t \in Attempters, UsernamePwSet(t)
      PROVE  NothingYet'
  BY <1>8 DEF UsernamePwSet
<1>9. ASSUME NEW t \in Attempters, MosquittoConnect(t)
      PROVE  NothingYet'
  BY <1>9 DEF MosquittoConnect, CloseSocket
<1>10. ASSUME NEW t \in Attempters, CallSucceeds(t)
       PROVE  NothingYet'
  BY <1>10 DEF CallSucceeds, OpenSocket
<1>11. ASSUME NEW t \in Attempters, CallFails(t)
       PROVE  NothingYet'
  BY <1>11 DEF CallFails
<1>12. ASSUME NEW t \in Attempters, ConnectSucceeded(t)
       PROVE  NothingYet'
  BY <1>12 DEF ConnectSucceeded, StartedThreads
<1>13. ASSUME NEW t \in Attempters, ConnectFailed(t)
       PROVE  NothingYet'
  BY <1>13 DEF ConnectFailed, LoopStop
<1>14. ASSUME NEW r \in Reconnectors, CheckConnected(r)
       PROVE  NothingYet'
  BY <1>14 DEF CheckConnected, FirstStep
<1>15. CASE Connect
  BY <1>15 DEF Connect, FirstStep
<1>16. CASE CreateReconnectThread
  BY <1>16 DEF CreateReconnectThread
<1>17. CASE Disconnect
  BY <1>17 DEF Disconnect
<1>18. CASE StopAfterDisconnect
  BY <1>18 DEF StopAfterDisconnect, LoopStop
<1>19. CASE ConnectAccepted
  BY <1>19 DEF ConnectAccepted
<1>20. CASE ConnectRefused
  BY <1>20 DEF ConnectRefused
<1>21. CASE EventConnect \/ Subscribe
  BY <1>21 DEF EventConnect, Subscribe
<1>22. CASE SessionEnds \/ NoSocket
  BY <1>22 DEF SessionEnds, NoSocket
<1>23. CASE WakeUp
  BY <1>23 DEF WakeUp, CloseSocket
<1>24. CASE ReconnectSucceeds \/ ReconnectFails
  BY <1>24 DEF ReconnectSucceeds, ReconnectFails, OpenSocket
<1>25. CASE BrokerLost \/ BrokerBack \/ Rotate
  BY <1>25 DEF BrokerLost, BrokerBack, Rotate
<1>26. CASE UNCHANGED vars
  BY <1>26 DEF vars
<1>. QED
  BY <1>1, <1>2, <1>3, <1>4, <1>5, <1>6, <1>7, <1>8, <1>9, <1>10, <1>11,
     <1>12, <1>13, <1>14, <1>15, <1>16, <1>17, <1>18, <1>19, <1>20, <1>21,
     <1>22, <1>23, <1>24, <1>25, <1>26, NextSteps, Zenon

\* Only Disconnect ends the network thread, and only it runs disconnect_callback
\* elsewhere.
LEMMA NextUndisturbed ==
  TypeOK /\ CallbackThreads /\ NothingYet /\ Undisturbed /\ [Next]_vars => Undisturbed'
<1>. SUFFICES ASSUME TypeOK, CallbackThreads, NothingYet, Undisturbed, [Next]_vars
              PROVE  Undisturbed'
  OBVIOUS
<1>0. /\ App \in Threads /\ Net \in Threads /\ App # Net /\ Net \notin Attempters
      /\ Attempters = {App} \union Reconnectors /\ Threads = Attempters \union {Net}
      /\ App \notin Reconnectors /\ Net \notin Reconnectors
      /\ PcOK /\ leaving \subseteq {App, Net} /\ CallbackThreads
      /\ connects \in Nat /\ disconnects \in Nat
  BY Labels, ThreadsAssumption DEF Attempters, TypeOK
<1>. USE <1>0
     DEF CallbackThreads, NothingYet, Undisturbed, Tries, Job, Preparing,
         Calling, Leaving, Fetching, PcOK, AppLabels, NetLabels,
         ReconnectorLabels, Goto, threadVars, clientVars, sessionVars,
         brokerVars, calls, settings
<1>1. ASSUME NEW t \in Threads, Fetch(t)
      PROVE  Undisturbed'
  BY <1>1 DEF Fetch
<1>2. ASSUME NEW t \in Threads, FetchFails(t)
      PROVE  Undisturbed'
  BY <1>2 DEF FetchFails, AfterFailedFetch
<1>3. ASSUME NEW t \in Threads, StoreUser(t)
      PROVE  Undisturbed'
  BY <1>3 DEF StoreUser, Overlap, Holding
<1>4. ASSUME NEW t \in Threads, StorePassword(t)
      PROVE  Undisturbed'
  BY <1>4 DEF StorePassword, AfterFetch, Overlap, Holding
<1>5. ASSUME NEW t \in {App, Net}, LowerFlag(t)
      PROVE  Undisturbed'
  BY <1>5 DEF LowerFlag
<1>6. ASSUME NEW t \in {App, Net}, EventDisconnect(t)
      PROVE  Undisturbed'
  BY <1>6 DEF EventDisconnect, AfterCallback
<1>7. ASSUME NEW t \in Attempters, LoopStart(t)
      PROVE  Undisturbed'
  BY <1>7 DEF LoopStart, StartedThreads
<1>8. ASSUME NEW t \in Attempters, UsernamePwSet(t)
      PROVE  Undisturbed'
  BY <1>8 DEF UsernamePwSet
<1>9. ASSUME NEW t \in Attempters, MosquittoConnect(t)
      PROVE  Undisturbed'
  BY <1>9 DEF MosquittoConnect, CloseSocket
<1>10. ASSUME NEW t \in Attempters, CallSucceeds(t)
       PROVE  Undisturbed'
  BY <1>10 DEF CallSucceeds, OpenSocket
<1>11. ASSUME NEW t \in Attempters, CallFails(t)
       PROVE  Undisturbed'
  BY <1>11 DEF CallFails
<1>12. ASSUME NEW t \in Attempters, ConnectSucceeded(t)
       PROVE  Undisturbed'
  BY <1>12 DEF ConnectSucceeded, StartedThreads
<1>13. ASSUME NEW t \in Attempters, ConnectFailed(t)
       PROVE  Undisturbed'
  BY <1>13 DEF ConnectFailed, LoopStop
<1>14. ASSUME NEW r \in Reconnectors, CheckConnected(r)
       PROVE  Undisturbed'
  BY <1>14 DEF CheckConnected, FirstStep
<1>15. CASE Connect
  BY <1>15 DEF Connect, FirstStep
<1>16. CASE CreateReconnectThread
  BY <1>16 DEF CreateReconnectThread
<1>17. CASE Disconnect
  BY <1>17 DEF Disconnect
<1>18. CASE StopAfterDisconnect
  BY <1>18 DEF StopAfterDisconnect, LoopStop
<1>19. CASE ConnectAccepted
  BY <1>19 DEF ConnectAccepted
<1>20. CASE ConnectRefused
  BY <1>20 DEF ConnectRefused
<1>21. CASE EventConnect \/ Subscribe
  BY <1>21 DEF EventConnect, Subscribe
<1>22. CASE SessionEnds \/ NoSocket
  BY <1>22 DEF SessionEnds, NoSocket
<1>23. CASE WakeUp
  BY <1>23 DEF WakeUp, CloseSocket
<1>24. CASE ReconnectSucceeds \/ ReconnectFails
  BY <1>24 DEF ReconnectSucceeds, ReconnectFails, OpenSocket
<1>25. CASE BrokerLost \/ BrokerBack \/ Rotate
  BY <1>25 DEF BrokerLost, BrokerBack, Rotate
<1>26. CASE UNCHANGED vars
  BY <1>26 DEF vars
<1>. QED
  BY <1>1, <1>2, <1>3, <1>4, <1>5, <1>6, <1>7, <1>8, <1>9, <1>10, <1>11,
     <1>12, <1>13, <1>14, <1>15, <1>16, <1>17, <1>18, <1>19, <1>20, <1>21,
     <1>22, <1>23, <1>24, <1>25, <1>26, NextSteps, Zenon

\* A thread that leaves the connection alone has another one to leave it to.
LEMMA NextSomeoneTries ==
  TypeOK /\ CallbackThreads /\ NothingYet /\ Undisturbed /\ SomeoneTries /\ [Next]_vars => SomeoneTries'
<1>. SUFFICES ASSUME TypeOK, CallbackThreads, NothingYet, Undisturbed, SomeoneTries, [Next]_vars
              PROVE  SomeoneTries'
  OBVIOUS
<1>0. /\ App \in Threads /\ Net \in Threads /\ App # Net /\ Net \notin Attempters
      /\ Attempters = {App} \union Reconnectors /\ Threads = Attempters \union {Net}
      /\ App \notin Reconnectors /\ Net \notin Reconnectors
      /\ PcOK /\ leaving \subseteq {App, Net} /\ CallbackThreads
      /\ connects \in Nat /\ disconnects \in Nat
  BY Labels, ThreadsAssumption DEF Attempters, TypeOK
<1>. USE <1>0
     DEF CallbackThreads, NothingYet, Undisturbed, SomeoneTries, Tries, Job,
         Preparing, Calling, Leaving, Fetching, PcOK, AppLabels, NetLabels,
         ReconnectorLabels, Goto, threadVars, clientVars, sessionVars,
         brokerVars, calls, settings
<1>1. ASSUME NEW t \in Threads, Fetch(t)
      PROVE  SomeoneTries'
  BY <1>1 DEF Fetch
<1>2. ASSUME NEW t \in Threads, FetchFails(t)
      PROVE  SomeoneTries'
  BY <1>2 DEF FetchFails, AfterFailedFetch
<1>3. ASSUME NEW t \in Threads, StoreUser(t)
      PROVE  SomeoneTries'
  BY <1>3 DEF StoreUser, Overlap, Holding
<1>4. ASSUME NEW t \in Threads, StorePassword(t)
      PROVE  SomeoneTries'
  BY <1>4 DEF StorePassword, AfterFetch, Overlap, Holding
<1>5. ASSUME NEW t \in {App, Net}, LowerFlag(t)
      PROVE  SomeoneTries'
  BY <1>5 DEF LowerFlag
<1>6. ASSUME NEW t \in {App, Net}, EventDisconnect(t)
      PROVE  SomeoneTries'
  BY <1>6 DEF EventDisconnect, AfterCallback
<1>7. ASSUME NEW t \in Attempters, LoopStart(t)
      PROVE  SomeoneTries'
  BY <1>7 DEF LoopStart, StartedThreads
<1>8. ASSUME NEW t \in Attempters, UsernamePwSet(t)
      PROVE  SomeoneTries'
  BY <1>8 DEF UsernamePwSet
<1>9. ASSUME NEW t \in Attempters, MosquittoConnect(t)
      PROVE  SomeoneTries'
  BY <1>9 DEF MosquittoConnect, CloseSocket
<1>10. ASSUME NEW t \in Attempters, CallSucceeds(t)
       PROVE  SomeoneTries'
  BY <1>10 DEF CallSucceeds, OpenSocket
<1>11. ASSUME NEW t \in Attempters, CallFails(t)
       PROVE  SomeoneTries'
  BY <1>11 DEF CallFails
<1>12. ASSUME NEW t \in Attempters, ConnectSucceeded(t)
       PROVE  SomeoneTries'
  BY <1>12 DEF ConnectSucceeded, StartedThreads
<1>13. ASSUME NEW t \in Attempters, ConnectFailed(t)
       PROVE  SomeoneTries'
  BY <1>13 DEF ConnectFailed, LoopStop
<1>14. ASSUME NEW r \in Reconnectors, CheckConnected(r)
       PROVE  SomeoneTries'
  BY <1>14 DEF CheckConnected, FirstStep
<1>15. CASE Connect
  BY <1>15 DEF Connect, FirstStep
<1>16. CASE CreateReconnectThread
  BY <1>16 DEF CreateReconnectThread
<1>17. CASE Disconnect
  BY <1>17 DEF Disconnect
<1>18. CASE StopAfterDisconnect
  BY <1>18 DEF StopAfterDisconnect, LoopStop
<1>19. CASE ConnectAccepted
  BY <1>19 DEF ConnectAccepted
<1>20. CASE ConnectRefused
  BY <1>20 DEF ConnectRefused
<1>21. CASE EventConnect \/ Subscribe
  BY <1>21 DEF EventConnect, Subscribe
<1>22. CASE SessionEnds \/ NoSocket
  BY <1>22 DEF SessionEnds, NoSocket
<1>23. CASE WakeUp
  BY <1>23 DEF WakeUp, CloseSocket
<1>24. CASE ReconnectSucceeds \/ ReconnectFails
  BY <1>24 DEF ReconnectSucceeds, ReconnectFails, OpenSocket
<1>25. CASE BrokerLost \/ BrokerBack \/ Rotate
  BY <1>25 DEF BrokerLost, BrokerBack, Rotate
<1>26. CASE UNCHANGED vars
  BY <1>26 DEF vars
<1>. QED
  BY <1>1, <1>2, <1>3, <1>4, <1>5, <1>6, <1>7, <1>8, <1>9, <1>10, <1>11,
     <1>12, <1>13, <1>14, <1>15, <1>16, <1>17, <1>18, <1>19, <1>20, <1>21,
     <1>22, <1>23, <1>24, <1>25, <1>26, NextSteps, Zenon

\* Who stores a credential between the answer to an attempt and its use is counted.
LEMMA NextOwnStored ==
  TypeOK /\ CallbackThreads /\ OwnStored /\ [Next]_vars => OwnStored'
<1>. SUFFICES ASSUME TypeOK, CallbackThreads, OwnStored, [Next]_vars
              PROVE  OwnStored'
  OBVIOUS
<1>0. /\ App \in Threads /\ Net \in Threads /\ App # Net /\ Net \notin Attempters
      /\ Attempters = {App} \union Reconnectors /\ Threads = Attempters \union {Net}
      /\ App \notin Reconnectors /\ Net \notin Reconnectors
      /\ PcOK /\ leaving \subseteq {App, Net} /\ CallbackThreads
      /\ connects \in Nat /\ disconnects \in Nat
      /\ DCCS \in BOOLEAN
      /\ option \in [user : Nat, pass : Nat]
      /\ got \in [Threads -> Nat]
      /\ overlapped \subseteq Threads
  BY Labels, ThreadsAssumption DEF Attempters, TypeOK
<1>. USE <1>0
     DEF CallbackThreads, OwnStored, Tries, Job, Preparing, Calling, Leaving,
         Fetching, PcOK, AppLabels, NetLabels, ReconnectorLabels, Goto,
         threadVars, clientVars, sessionVars, brokerVars, calls, settings
<1>1. ASSUME NEW t \in Threads, Fetch(t)
      PROVE  OwnStored'
  BY <1>1 DEF Fetch
<1>2. ASSUME NEW t \in Threads, FetchFails(t)
      PROVE  OwnStored'
  BY <1>2 DEF FetchFails, AfterFailedFetch
<1>3. ASSUME NEW t \in Threads, StoreUser(t)
      PROVE  OwnStored'
  BY <1>3 DEF StoreUser, Overlap, Holding
<1>4. ASSUME NEW t \in Threads, StorePassword(t)
      PROVE  OwnStored'
  <2>1. /\ pc[t] = "pass" /\ option' = [option EXCEPT !.pass = got[t]]
        /\ overlapped' = overlapped \union (Holding \ {t})
        /\ pc' = [pc EXCEPT ![t] = AfterFetch(t)]
        /\ UNCHANGED <<got, leaving, DCCS>>
    BY <1>4 DEF StorePassword, Overlap
  <2>2. ASSUME NEW s \in Threads, s \notin overlapped', s \notin leaving, s # t,
               pc[s] \in {"pass", "start", "auth"}
        PROVE  FALSE
    BY <2>1, <2>2 DEF Holding
  <2>3. ASSUME DCCS, t \notin overlapped', t \notin leaving
        PROVE  option' = Pair(got[t], got[t])
    BY <2>1, <2>3 DEF Pair
  <2>. QED  BY <2>1, <2>2, <2>3 DEF AfterFetch
<1>5. ASSUME NEW t \in {App, Net}, LowerFlag(t)
      PROVE  OwnStored'
  BY <1>5 DEF LowerFlag
<1>6. ASSUME NEW t \in {App, Net}, EventDisconnect(t)
      PROVE  OwnStored'
  BY <1>6 DEF EventDisconnect, AfterCallback
<1>7. ASSUME NEW t \in Attempters, LoopStart(t)
      PROVE  OwnStored'
  BY <1>7 DEF LoopStart, StartedThreads
<1>8. ASSUME NEW t \in Attempters, UsernamePwSet(t)
      PROVE  OwnStored'
  BY <1>8 DEF UsernamePwSet
<1>9. ASSUME NEW t \in Attempters, MosquittoConnect(t)
      PROVE  OwnStored'
  BY <1>9 DEF MosquittoConnect, CloseSocket
<1>10. ASSUME NEW t \in Attempters, CallSucceeds(t)
       PROVE  OwnStored'
  BY <1>10 DEF CallSucceeds, OpenSocket
<1>11. ASSUME NEW t \in Attempters, CallFails(t)
       PROVE  OwnStored'
  BY <1>11 DEF CallFails
<1>12. ASSUME NEW t \in Attempters, ConnectSucceeded(t)
       PROVE  OwnStored'
  BY <1>12 DEF ConnectSucceeded, StartedThreads
<1>13. ASSUME NEW t \in Attempters, ConnectFailed(t)
       PROVE  OwnStored'
  BY <1>13 DEF ConnectFailed, LoopStop
<1>14. ASSUME NEW r \in Reconnectors, CheckConnected(r)
       PROVE  OwnStored'
  BY <1>14 DEF CheckConnected, FirstStep
<1>15. CASE Connect
  BY <1>15 DEF Connect, FirstStep
<1>16. CASE CreateReconnectThread
  BY <1>16 DEF CreateReconnectThread
<1>17. CASE Disconnect
  BY <1>17 DEF Disconnect
<1>18. CASE StopAfterDisconnect
  BY <1>18 DEF StopAfterDisconnect, LoopStop
<1>19. CASE ConnectAccepted
  BY <1>19 DEF ConnectAccepted
<1>20. CASE ConnectRefused
  BY <1>20 DEF ConnectRefused
<1>21. CASE EventConnect \/ Subscribe
  BY <1>21 DEF EventConnect, Subscribe
<1>22. CASE SessionEnds \/ NoSocket
  BY <1>22 DEF SessionEnds, NoSocket
<1>23. CASE WakeUp
  BY <1>23 DEF WakeUp, CloseSocket
<1>24. CASE ReconnectSucceeds \/ ReconnectFails
  BY <1>24 DEF ReconnectSucceeds, ReconnectFails, OpenSocket
<1>25. CASE BrokerLost \/ BrokerBack \/ Rotate
  BY <1>25 DEF BrokerLost, BrokerBack, Rotate
<1>26. CASE UNCHANGED vars
  BY <1>26 DEF vars
<1>. QED
  BY <1>1, <1>2, <1>3, <1>4, <1>5, <1>6, <1>7, <1>8, <1>9, <1>10, <1>11,
     <1>12, <1>13, <1>14, <1>15, <1>16, <1>17, <1>18, <1>19, <1>20, <1>21,
     <1>22, <1>23, <1>24, <1>25, <1>26, NextSteps, Zenon

\* One call of Connect is one attempt at a time, handed over and never copied.
LEMMA NextOneTries ==
  TypeOK /\ CallbackThreads /\ NothingYet /\ OneTries /\ [Next]_vars => OneTries'
<1>. SUFFICES ASSUME TypeOK, CallbackThreads, NothingYet, OneTries, [Next]_vars
              PROVE  OneTries'
  OBVIOUS
<1>0. /\ App \in Threads /\ Net \in Threads /\ App # Net /\ Net \notin Attempters
      /\ Attempters = {App} \union Reconnectors /\ Threads = Attempters \union {Net}
      /\ App \notin Reconnectors /\ Net \notin Reconnectors
      /\ PcOK /\ leaving \subseteq {App, Net} /\ CallbackThreads
      /\ connects \in Nat /\ disconnects \in Nat
  BY Labels, ThreadsAssumption DEF Attempters, TypeOK
<1>. USE <1>0
     DEF CallbackThreads, NothingYet, OneTries, Tries, Job, Preparing,
         Calling, Leaving, Fetching, PcOK, AppLabels, NetLabels,
         ReconnectorLabels, Goto, threadVars, clientVars, sessionVars,
         brokerVars, calls, settings
<1>1. ASSUME NEW t \in Threads, Fetch(t)
      PROVE  OneTries'
  BY <1>1 DEF Fetch
<1>2. ASSUME NEW t \in Threads, FetchFails(t)
      PROVE  OneTries'
  BY <1>2 DEF FetchFails, AfterFailedFetch
<1>3. ASSUME NEW t \in Threads, StoreUser(t)
      PROVE  OneTries'
  BY <1>3 DEF StoreUser, Overlap, Holding
<1>4. ASSUME NEW t \in Threads, StorePassword(t)
      PROVE  OneTries'
  BY <1>4 DEF StorePassword, AfterFetch, Overlap, Holding
<1>5. ASSUME NEW t \in {App, Net}, LowerFlag(t)
      PROVE  OneTries'
  BY <1>5 DEF LowerFlag
<1>6. ASSUME NEW t \in {App, Net}, EventDisconnect(t)
      PROVE  OneTries'
  BY <1>6 DEF EventDisconnect, AfterCallback
<1>7. ASSUME NEW t \in Attempters, LoopStart(t)
      PROVE  OneTries'
  BY <1>7 DEF LoopStart, StartedThreads
<1>8. ASSUME NEW t \in Attempters, UsernamePwSet(t)
      PROVE  OneTries'
  BY <1>8 DEF UsernamePwSet
<1>9. ASSUME NEW t \in Attempters, MosquittoConnect(t)
      PROVE  OneTries'
  BY <1>9 DEF MosquittoConnect, CloseSocket
<1>10. ASSUME NEW t \in Attempters, CallSucceeds(t)
       PROVE  OneTries'
  BY <1>10 DEF CallSucceeds, OpenSocket
<1>11. ASSUME NEW t \in Attempters, CallFails(t)
       PROVE  OneTries'
  BY <1>11 DEF CallFails
<1>12. ASSUME NEW t \in Attempters, ConnectSucceeded(t)
       PROVE  OneTries'
  BY <1>12 DEF ConnectSucceeded, StartedThreads
<1>13. ASSUME NEW t \in Attempters, ConnectFailed(t)
       PROVE  OneTries'
  BY <1>13 DEF ConnectFailed, LoopStop
<1>14. ASSUME NEW r \in Reconnectors, CheckConnected(r)
       PROVE  OneTries'
  BY <1>14 DEF CheckConnected, FirstStep
<1>15. CASE Connect
  BY <1>15 DEF Connect, FirstStep
<1>16. CASE CreateReconnectThread
  BY <1>16 DEF CreateReconnectThread
<1>17. CASE Disconnect
  BY <1>17 DEF Disconnect
<1>18. CASE StopAfterDisconnect
  BY <1>18 DEF StopAfterDisconnect, LoopStop
<1>19. CASE ConnectAccepted
  BY <1>19 DEF ConnectAccepted
<1>20. CASE ConnectRefused
  BY <1>20 DEF ConnectRefused
<1>21. CASE EventConnect \/ Subscribe
  BY <1>21 DEF EventConnect, Subscribe
<1>22. CASE SessionEnds \/ NoSocket
  BY <1>22 DEF SessionEnds, NoSocket
<1>23. CASE WakeUp
  BY <1>23 DEF WakeUp, CloseSocket
<1>24. CASE ReconnectSucceeds \/ ReconnectFails
  BY <1>24 DEF ReconnectSucceeds, ReconnectFails, OpenSocket
<1>25. CASE BrokerLost \/ BrokerBack \/ Rotate
  BY <1>25 DEF BrokerLost, BrokerBack, Rotate
<1>26. CASE UNCHANGED vars
  BY <1>26 DEF vars
<1>. QED
  BY <1>1, <1>2, <1>3, <1>4, <1>5, <1>6, <1>7, <1>8, <1>9, <1>10, <1>11,
     <1>12, <1>13, <1>14, <1>15, <1>16, <1>17, <1>18, <1>19, <1>20, <1>21,
     <1>22, <1>23, <1>24, <1>25, <1>26, NextSteps, Zenon

\* Attempts that fail take the network thread with them.
LEMMA NextOneNetwork ==
  TypeOK /\ CallbackThreads /\ NothingYet /\ Undisturbed /\ OneTries /\ OneNetwork /\ [Next]_vars => OneNetwork'
<1>. SUFFICES ASSUME TypeOK, CallbackThreads, NothingYet, Undisturbed, OneTries, OneNetwork, [Next]_vars
              PROVE  OneNetwork'
  OBVIOUS
<1>0. /\ App \in Threads /\ Net \in Threads /\ App # Net /\ Net \notin Attempters
      /\ Attempters = {App} \union Reconnectors /\ Threads = Attempters \union {Net}
      /\ App \notin Reconnectors /\ Net \notin Reconnectors
      /\ PcOK /\ leaving \subseteq {App, Net} /\ CallbackThreads
      /\ connects \in Nat /\ disconnects \in Nat
      /\ IsConnected \in BOOLEAN
  BY Labels, ThreadsAssumption DEF Attempters, TypeOK
<1>. USE <1>0
     DEF CallbackThreads, NothingYet, Undisturbed, OneTries, OneNetwork,
         Tries, Job, Preparing, Calling, Leaving, Fetching, PcOK, AppLabels,
         NetLabels, ReconnectorLabels, Goto, threadVars, clientVars,
         sessionVars, brokerVars, calls, settings
<1>1. ASSUME NEW t \in Threads, Fetch(t)
      PROVE  OneNetwork'
  BY <1>1 DEF Fetch
<1>2. ASSUME NEW t \in Threads, FetchFails(t)
      PROVE  OneNetwork'
  BY <1>2 DEF FetchFails, AfterFailedFetch
<1>3. ASSUME NEW t \in Threads, StoreUser(t)
      PROVE  OneNetwork'
  BY <1>3 DEF StoreUser, Overlap, Holding
<1>4. ASSUME NEW t \in Threads, StorePassword(t)
      PROVE  OneNetwork'
  BY <1>4 DEF StorePassword, AfterFetch, Overlap, Holding
<1>5. ASSUME NEW t \in {App, Net}, LowerFlag(t)
      PROVE  OneNetwork'
  BY <1>5 DEF LowerFlag
<1>6. ASSUME NEW t \in {App, Net}, EventDisconnect(t)
      PROVE  OneNetwork'
  BY <1>6 DEF EventDisconnect, AfterCallback
<1>7. ASSUME NEW t \in Attempters, LoopStart(t)
      PROVE  OneNetwork'
  BY <1>7 DEF LoopStart, StartedThreads
<1>8. ASSUME NEW t \in Attempters, UsernamePwSet(t)
      PROVE  OneNetwork'
  BY <1>8 DEF UsernamePwSet
<1>9. ASSUME NEW t \in Attempters, MosquittoConnect(t)
      PROVE  OneNetwork'
  BY <1>9 DEF MosquittoConnect, CloseSocket
<1>10. ASSUME NEW t \in Attempters, CallSucceeds(t)
       PROVE  OneNetwork'
  BY <1>10 DEF CallSucceeds, OpenSocket
<1>11. ASSUME NEW t \in Attempters, CallFails(t)
       PROVE  OneNetwork'
  BY <1>11 DEF CallFails
<1>12. ASSUME NEW t \in Attempters, ConnectSucceeded(t)
       PROVE  OneNetwork'
  BY <1>12 DEF ConnectSucceeded, StartedThreads
<1>13. ASSUME NEW t \in Attempters, ConnectFailed(t)
       PROVE  OneNetwork'
  BY <1>13 DEF ConnectFailed, LoopStop
<1>14. ASSUME NEW r \in Reconnectors, CheckConnected(r)
       PROVE  OneNetwork'
  BY <1>14 DEF CheckConnected, FirstStep
<1>15. CASE Connect
  BY <1>15 DEF Connect, FirstStep
<1>16. CASE CreateReconnectThread
  BY <1>16 DEF CreateReconnectThread
<1>17. CASE Disconnect
  BY <1>17 DEF Disconnect
<1>18. CASE StopAfterDisconnect
  BY <1>18 DEF StopAfterDisconnect, LoopStop
<1>19. CASE ConnectAccepted
  BY <1>19 DEF ConnectAccepted
<1>20. CASE ConnectRefused
  BY <1>20 DEF ConnectRefused
<1>21. CASE EventConnect \/ Subscribe
  BY <1>21 DEF EventConnect, Subscribe
<1>22. CASE SessionEnds \/ NoSocket
  BY <1>22 DEF SessionEnds, NoSocket
<1>23. CASE WakeUp
  BY <1>23 DEF WakeUp, CloseSocket
<1>24. CASE ReconnectSucceeds \/ ReconnectFails
  BY <1>24 DEF ReconnectSucceeds, ReconnectFails, OpenSocket
<1>25. CASE BrokerLost \/ BrokerBack \/ Rotate
  BY <1>25 DEF BrokerLost, BrokerBack, Rotate
<1>26. CASE UNCHANGED vars
  BY <1>26 DEF vars
<1>. QED
  BY <1>1, <1>2, <1>3, <1>4, <1>5, <1>6, <1>7, <1>8, <1>9, <1>10, <1>11,
     <1>12, <1>13, <1>14, <1>15, <1>16, <1>17, <1>18, <1>19, <1>20, <1>21,
     <1>22, <1>23, <1>24, <1>25, <1>26, NextSteps, Zenon

\* The callbacks run in the order flag, event, subscriptions; nobody else serves
\* the session they are about.
LEMMA NextSessionServed ==
  TypeOK /\ CallbackThreads /\ NothingYet /\ Undisturbed /\ OneTries /\ OneNetwork /\ SessionServed /\ [Next]_vars => SessionServed'
<1>. SUFFICES ASSUME TypeOK, CallbackThreads, NothingYet, Undisturbed, OneTries, OneNetwork, SessionServed, [Next]_vars
              PROVE  SessionServed'
  OBVIOUS
<1>0. /\ App \in Threads /\ Net \in Threads /\ App # Net /\ Net \notin Attempters
      /\ Attempters = {App} \union Reconnectors /\ Threads = Attempters \union {Net}
      /\ App \notin Reconnectors /\ Net \notin Reconnectors
      /\ PcOK /\ leaving \subseteq {App, Net} /\ CallbackThreads
      /\ connects \in Nat /\ disconnects \in Nat
      /\ IsConnected \in BOOLEAN /\ informed \in BOOLEAN /\ subscribed \in BOOLEAN
  BY Labels, ThreadsAssumption DEF Attempters, TypeOK
<1>. USE <1>0
     DEF CallbackThreads, NothingYet, Undisturbed, OneTries, OneNetwork,
         SessionServed, Tries, Job, Preparing, Calling, Leaving, Fetching,
         PcOK, AppLabels, NetLabels, ReconnectorLabels, Goto, threadVars,
         clientVars, sessionVars, brokerVars, calls, settings
<1>1. ASSUME NEW t \in Threads, Fetch(t)
      PROVE  SessionServed'
  BY <1>1 DEF Fetch
<1>2. ASSUME NEW t \in Threads, FetchFails(t)
      PROVE  SessionServed'
  BY <1>2 DEF FetchFails, AfterFailedFetch
<1>3. ASSUME NEW t \in Threads, StoreUser(t)
      PROVE  SessionServed'
  BY <1>3 DEF StoreUser, Overlap, Holding
<1>4. ASSUME NEW t \in Threads, StorePassword(t)
      PROVE  SessionServed'
  BY <1>4 DEF StorePassword, AfterFetch, Overlap, Holding
<1>5. ASSUME NEW t \in {App, Net}, LowerFlag(t)
      PROVE  SessionServed'
  BY <1>5 DEF LowerFlag
<1>6. ASSUME NEW t \in {App, Net}, EventDisconnect(t)
      PROVE  SessionServed'
  BY <1>6 DEF EventDisconnect, AfterCallback
<1>7. ASSUME NEW t \in Attempters, LoopStart(t)
      PROVE  SessionServed'
  BY <1>7 DEF LoopStart, StartedThreads
<1>8. ASSUME NEW t \in Attempters, UsernamePwSet(t)
      PROVE  SessionServed'
  BY <1>8 DEF UsernamePwSet
<1>9. ASSUME NEW t \in Attempters, MosquittoConnect(t)
      PROVE  SessionServed'
  BY <1>9 DEF MosquittoConnect, CloseSocket
<1>10. ASSUME NEW t \in Attempters, CallSucceeds(t)
       PROVE  SessionServed'
  BY <1>10 DEF CallSucceeds, OpenSocket
<1>11. ASSUME NEW t \in Attempters, CallFails(t)
       PROVE  SessionServed'
  BY <1>11 DEF CallFails
<1>12. ASSUME NEW t \in Attempters, ConnectSucceeded(t)
       PROVE  SessionServed'
  BY <1>12 DEF ConnectSucceeded, StartedThreads
<1>13. ASSUME NEW t \in Attempters, ConnectFailed(t)
       PROVE  SessionServed'
  BY <1>13 DEF ConnectFailed, LoopStop
<1>14. ASSUME NEW r \in Reconnectors, CheckConnected(r)
       PROVE  SessionServed'
  BY <1>14 DEF CheckConnected, FirstStep
<1>15. CASE Connect
  BY <1>15 DEF Connect, FirstStep
<1>16. CASE CreateReconnectThread
  BY <1>16 DEF CreateReconnectThread
<1>17. CASE Disconnect
  BY <1>17 DEF Disconnect
<1>18. CASE StopAfterDisconnect
  BY <1>18 DEF StopAfterDisconnect, LoopStop
<1>19. CASE ConnectAccepted
  BY <1>19 DEF ConnectAccepted
<1>20. CASE ConnectRefused
  BY <1>20 DEF ConnectRefused
<1>21. CASE EventConnect \/ Subscribe
  BY <1>21 DEF EventConnect, Subscribe
<1>22. CASE SessionEnds \/ NoSocket
  BY <1>22 DEF SessionEnds, NoSocket
<1>23. CASE WakeUp
  BY <1>23 DEF WakeUp, CloseSocket
<1>24. CASE ReconnectSucceeds \/ ReconnectFails
  BY <1>24 DEF ReconnectSucceeds, ReconnectFails, OpenSocket
<1>25. CASE BrokerLost \/ BrokerBack \/ Rotate
  BY <1>25 DEF BrokerLost, BrokerBack, Rotate
<1>26. CASE UNCHANGED vars
  BY <1>26 DEF vars
<1>. QED
  BY <1>1, <1>2, <1>3, <1>4, <1>5, <1>6, <1>7, <1>8, <1>9, <1>10, <1>11,
     <1>12, <1>13, <1>14, <1>15, <1>16, <1>17, <1>18, <1>19, <1>20, <1>21,
     <1>22, <1>23, <1>24, <1>25, <1>26, NextSteps, Zenon

\* Before the first call there is nothing to hand over, to store or to tell.
LEMMA InitConnectionInv == Init => ConnectionInv
<1>. SUFFICES ASSUME Init
              PROVE  ConnectionInv
  OBVIOUS
<1>1. /\ pc[App] = "idle" /\ pc[Net] = "none"
      /\ \A t \in Threads : pc[t] \in {"idle", "none"}
  BY ThreadsAssumption DEF Init, Threads
<1>2. NothingYet /\ Undisturbed /\ SomeoneTries /\ SessionServed
  BY <1>1 DEF Init, NothingYet, Undisturbed, SomeoneTries, SessionServed, Fetching
<1>3. OwnStored /\ OneTries /\ OneNetwork
  BY <1>1 DEF OwnStored, OneTries, OneNetwork, Tries, Job, Preparing, Calling, Fetching
<1>. QED  BY <1>2, <1>3, InitCallbackThreads DEF ConnectionInv

LEMMA NextConnectionInv == TypeOK /\ ConnectionInv /\ [Next]_vars => ConnectionInv'
BY NextCallbackThreads, NextNothingYet, NextUndisturbed, NextSomeoneTries, NextOwnStored,
   NextOneTries, NextOneNetwork, NextSessionServed DEF ConnectionInv

\* The inductive invariant, whatever attempts overlap and however long they take.
THEOREM Invariance == Spec => []ConnectionInv
BY NextConnectionInv, TypeCorrect, InitConnectionInv, PTL DEF Spec

\* An attempt is given the credentials it fetched itself, unless another thread
\* stored some between their receipt and their use.
THEOREM CredentialsOwned == Spec => []OwnCredentials
<1>1. TypeOK /\ ConnectionInv => OwnCredentials
  <2>. SUFFICES ASSUME TypeOK, CallbackThreads, OwnStored
                PROVE  OwnCredentials
    BY DEF ConnectionInv
  <2>1. ASSUME NEW t \in Threads, pc[t] = "auth"
        PROVE  t \notin leaving
    BY <2>1, Labels DEF CallbackThreads, Leaving, Fetching
  <2>. QED  BY <2>1 DEF OwnStored, OwnCredentials, Tries
<1>. QED  BY <1>1, Invariance, TypeCorrect, PTL

\* Before Disconnect is called nobody gives the connection up but for the flag,
\* however many attempts overlap and however late they fail.
THEOREM OnlyFlagGivesUp == Spec => []GivesUpOnFlag
<1>1. TypeOK /\ ConnectionInv => GivesUpOnFlag
  <2>. SUFFICES ASSUME TypeOK, SomeoneTries, AutoReconnect, connects > 0, disconnects = 0,
                       pc[App] = "idle", pc[Net] \in {"none", "exited"},
                       \A r \in Reconnectors : pc[r] = "none", ~ IsConnected
                PROVE  FALSE
    BY DEF ConnectionInv, GivesUpOnFlag
  <2>1. PICK t \in Threads : Tries(t, Job)
    BY DEF SomeoneTries
  <2>2. pc[t] \in {"idle", "none", "exited"}
    BY Labels DEF Attempters
  <2>. QED  BY <2>1, <2>2 DEF Tries, Job, Preparing, Calling, Fetching
<1>. QED  BY <1>1, Invariance, TypeCorrect, PTL

\* No network thread serves a flag the application has not been told of, with one
\* call of Connect, however long its attempts take.
THEOREM SessionTold == Spec => []ToldOfSession
<1>1. TypeOK /\ ConnectionInv => ToldOfSession
  BY DEF ConnectionInv, SessionServed, ToldOfSession
<1>. QED  BY <1>1, Invariance, TypeCorrect, PTL

\* No network thread serves an open session without the command topics, with one
\* call of Connect, however long its attempts take.
THEOREM TopicsSubscribed == Spec => []CommandsSubscribed
<1>1. ConnectionInv => CommandsSubscribed
  BY DEF ConnectionInv, SessionServed, CommandsSubscribed
<1>. QED  BY <1>1, Invariance, PTL
=============================================================================
