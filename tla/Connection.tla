----------------------------- MODULE Connection -----------------------------
(***************************************************************************)
(* Who connects the agent (src/DatahubEdge.c): the application thread in   *)
(* Connect and Disconnect, the threads reconnect_proc that a failed        *)
(* Connect leaves behind, and libmosquitto's network thread, which calls   *)
(* connect_callback and disconnect_callback and reconnects on its own.     *)
(* They share the client object, the credentials in option.MQTT and the    *)
(* flag IsConnected, none of them protected by a lock of this code.  An    *)
(* attempt to connect blocks its thread for as long as it likes, longer    *)
(* than the network thread's reconnect delay of three seconds too.         *)
(*                                                                         *)
(* A credential is the number of the rotation that issued it; the broker   *)
(* accepts a user name and a password that are both the current one.       *)
(* libmosquitto is external: its state is what its header and the calls of *)
(* this code depend on.                                                    *)
(***************************************************************************)
EXTENDS Integers, FiniteSets

CONSTANTS
  App, Net,       \* the application thread and the network thread
  Reconnectors,   \* bound: the threads that can run reconnect_proc at a time
  MaxCalls,       \* bound: calls of Connect and Disconnect
  MaxOutages,     \* bound: losses of the broker
  MaxRotations    \* bound: rotations of the credentials

Threads == {App, Net} \union Reconnectors

ASSUME ThreadsAssumption == App # Net /\ App \notin Reconnectors /\ Net \notin Reconnectors
ASSUME BoundsAssumption == {MaxCalls, MaxOutages, MaxRotations} \subseteq Nat

VARIABLES
  pc,             \* where each thread is; "none": it does not exist
  got,            \* the credential a thread has received from DCCS
  leaving,        \* the threads inside disconnect_callback
  overlapped,     \* history: threads that have received credentials, to connect
                  \* with them, and not used them before another one stored some
  option,         \* option.MQTT: Username and Password
  IsConnected,
  client,         \* the credentials the client object holds
  hostKnown,      \* mosquitto_connect has told the client the host
  disconnecting,  \* the client's state is "disconnecting"
  session,        \* "none", "pending" (CONNECT sent), "open" or "broken"
  login,          \* the credentials sent with CONNECT
  closing,        \* a DISCONNECT packet is queued
  subscribed,     \* the session has been asked for the command topics
  informed,       \* what the application's event callbacks were last told
  up,             \* the broker can be reached
  issued,         \* the credential the broker accepts
  DCCS,           \* option.ConnectType is DCCS: credentials are fetched
  AutoReconnect,  \* option.AutoReconnect
  connects, disconnects, outages  \* history, for the bounds

threadVars == <<got, leaving, overlapped>>
clientVars == <<client, hostKnown, disconnecting>>
sessionVars == <<session, login, closing, subscribed>>
brokerVars == <<up, issued, outages>>
settings == <<DCCS, AutoReconnect>>
calls == <<connects, disconnects, settings>>
vars == <<pc, threadVars, option, IsConnected, clientVars, sessionVars, informed,
          brokerVars, calls>>

Pair(u, p) == [user |-> u, pass |-> p]

Init ==
  /\ pc = [t \in Threads |-> IF t = App THEN "idle" ELSE "none"]
  /\ got = [t \in Threads |-> 0] /\ leaving = {} /\ overlapped = {}
  /\ option = Pair(0, 0) /\ client = Pair(0, 0) /\ login = Pair(0, 0)
  /\ IsConnected = FALSE /\ informed = FALSE
  /\ hostKnown = FALSE /\ disconnecting = FALSE
  /\ session = "none" /\ closing = FALSE /\ subscribed = FALSE
  /\ up \in BOOLEAN /\ issued = 0 /\ outages = 0
  /\ DCCS \in BOOLEAN /\ AutoReconnect \in BOOLEAN
  /\ connects = 0 /\ disconnects = 0

Goto(t, label) == pc' = [pc EXCEPT ![t] = label]

-----------------------------------------------------------------------------
(* libmosquitto, as this code uses it.                                     *)

\* mosquitto_reconnect, also at the end of mosquitto_connect, first closes an old
\* socket, without a callback, and drops the packets that wait for it.
CloseSocket == session' = "none" /\ closing' = FALSE /\ subscribed' = FALSE

\* Later, if the broker answers, it has a new socket and sends CONNECT.
OpenSocket ==
  /\ up
  /\ session' = "pending" /\ login' = client /\ subscribed' = FALSE

\* mosquitto_loop_start: nothing happens if the thread was started before and
\* has not been stopped, even if it has ended.
StartedThreads(t, label) ==
  [pc EXCEPT ![t] = label, ![Net] = IF pc[Net] = "none" THEN "loop" ELSE pc[Net]]

\* mosquitto_loop_stop(mosq, true) cancels the thread where it is and joins it;
\* between the answer of DCCS and the last assignment it cannot be cancelled.
LoopStop(t, label) ==
  /\ pc[Net] \notin {"user", "pass"}
  /\ pc' = [pc EXCEPT ![t] = label, ![Net] = "none"]
  /\ leaving' = leaving \ {Net}

-----------------------------------------------------------------------------
(* getCredentialFromDCCS, in an attempt to connect or in                   *)
(* disconnect_callback, in any thread.                                     *)

\* Where a thread goes when it has, and when it has not, got its credentials.
AfterFetch(t) == IF t \in leaving THEN "lost" ELSE "start"

\* Mutants of AfterFailedFetch: reconnect_proc creates a thread as Connect
\* does; it gives up.
AfterFailedFetchSpawn(t) == IF t \in leaving THEN "lost" ELSE "failed"
AfterFailedFetchGiveUp(t) ==
  IF t \in leaving THEN "lost" ELSE IF t = App THEN "failed" ELSE "none"

AfterFailedFetch(t) ==
  IF t \in leaving THEN "lost" ELSE IF t = App THEN "failed" ELSE "check"

Fetch(t) ==
  /\ pc[t] = "fetch"
  /\ got' = [got EXCEPT ![t] = issued]
  /\ Goto(t, "user")
  /\ UNCHANGED <<leaving, overlapped, option, IsConnected, clientVars, sessionVars, informed,
                 brokerVars, calls>>

\* curl fails, or DCCS answers with a message.
FetchFails(t) ==
  /\ pc[t] = "fetch"
  /\ Goto(t, AfterFailedFetch(t))
  /\ UNCHANGED <<threadVars, option, IsConnected, clientVars, sessionVars,
                 informed, brokerVars, calls>>

\* Attempts between the receipt of their credentials and their use.
Holding == {t \in Threads \ leaving : pc[t] \in {"user", "pass", "start", "auth"}}

\* Thread t stores a credential where others may hold theirs.
Overlap(t) == overlapped' = overlapped \union (Holding \ {t})

\* Mutant of StoreUser: the password is forgotten.
StoreUserOnly(t) ==
  /\ pc[t] = "user"
  /\ option' = [option EXCEPT !.user = got[t]]
  /\ Overlap(t)
  /\ Goto(t, AfterFetch(t))
  /\ UNCHANGED <<got, leaving, IsConnected, clientVars, sessionVars, informed,
                 brokerVars, calls>>

\* ParseConnectJson assigns one field after the other.
StoreUser(t) ==
  /\ pc[t] = "user"
  /\ option' = [option EXCEPT !.user = got[t]]
  /\ Overlap(t)
  /\ Goto(t, "pass")
  /\ UNCHANGED <<got, leaving, IsConnected, clientVars, sessionVars, informed,
                 brokerVars, calls>>

StorePassword(t) ==
  /\ pc[t] = "pass"
  /\ option' = [option EXCEPT !.pass = got[t]]
  /\ Overlap(t)
  /\ Goto(t, AfterFetch(t))
  /\ UNCHANGED <<got, leaving, IsConnected, clientVars, sessionVars, informed,
                 brokerVars, calls>>

\* disconnect_callback: the flag, the credentials, the application's callback.
LowerFlag(t) ==
  /\ pc[t] = "on_disconnect"
  /\ IsConnected' = FALSE
  /\ Goto(t, IF DCCS THEN "fetch" ELSE "lost")
  /\ UNCHANGED <<threadVars, option, clientVars, sessionVars, informed,
                 brokerVars, calls>>

\* Back in libmosquitto: its thread ends after mosquitto_disconnect and
\* otherwise waits to reconnect.  The application's thread is in Disconnect.
AfterCallback(t) ==
  IF t = App THEN "stop" ELSE IF disconnecting THEN "exited" ELSE "backoff"

EventDisconnect(t) ==
  /\ pc[t] = "lost"
  /\ informed' = FALSE
  /\ got' = [got EXCEPT ![t] = 0] /\ leaving' = leaving \ {t}
  /\ Goto(t, AfterCallback(t))
  /\ UNCHANGED <<overlapped, option, IsConnected, clientVars, sessionVars, brokerVars,
                 calls>>

Common(t) ==
  \/ Fetch(t) \/ FetchFails(t) \/ StoreUser(t) \/ StorePassword(t)
  \/ LowerFlag(t) \/ EventDisconnect(t)

-----------------------------------------------------------------------------
(* One attempt to connect, in Connect and in reconnect_proc.               *)

FirstStep == IF DCCS THEN "fetch" ELSE "start"

LoopStart(t) ==
  /\ pc[t] = "start"
  /\ pc' = StartedThreads(t, "auth")
  /\ UNCHANGED <<threadVars, option, IsConnected, clientVars, sessionVars,
                 informed, brokerVars, calls>>

UsernamePwSet(t) ==
  /\ pc[t] = "auth"
  /\ client' = option
  /\ got' = [got EXCEPT ![t] = 0] /\ overlapped' = overlapped \ {t}
  /\ Goto(t, "connect")
  /\ UNCHANGED <<leaving, option, IsConnected, hostKnown, disconnecting,
                 sessionVars, informed, brokerVars, calls>>

\* The blocking call, and its return.
MosquittoConnect(t) ==
  /\ pc[t] = "connect"
  /\ hostKnown' = TRUE /\ disconnecting' = FALSE
  /\ CloseSocket
  /\ Goto(t, "calling")
  /\ UNCHANGED <<threadVars, option, IsConnected, client, login, informed,
                 brokerVars, calls>>

CallSucceeds(t) ==
  /\ pc[t] = "calling"
  /\ OpenSocket
  /\ Goto(t, "restart")
  /\ UNCHANGED <<threadVars, option, IsConnected, clientVars, closing, informed,
                 brokerVars, calls>>

\* No answer, or none in time; a socket that another thread has opened meanwhile
\* stays.
CallFails(t) ==
  /\ pc[t] = "calling"
  /\ Goto(t, "abandon")
  /\ UNCHANGED <<threadVars, option, IsConnected, clientVars, sessionVars,
                 informed, brokerVars, calls>>

\* The attempt succeeded: mosquitto_loop_start again; reconnect_proc breaks.
ConnectSucceeded(t) ==
  /\ pc[t] = "restart"
  /\ pc' = StartedThreads(t, IF t = App THEN "idle" ELSE "none")
  /\ UNCHANGED <<threadVars, option, IsConnected, clientVars, sessionVars,
                 informed, brokerVars, calls>>

\* Mutant of ConnectFailed: the network thread is left running.
ConnectFailedOnly(t) ==
  /\ pc[t] = "abandon"
  /\ Goto(t, IF t = App THEN "failed" ELSE "check")
  /\ UNCHANGED <<threadVars, option, IsConnected, clientVars, sessionVars,
                 informed, brokerVars, calls>>

\* The attempt failed.
ConnectFailed(t) ==
  /\ pc[t] = "abandon"
  /\ LoopStop(t, IF t = App THEN "failed" ELSE "check")
  /\ UNCHANGED <<got, overlapped, option, IsConnected, clientVars, sessionVars, informed,
                 brokerVars, calls>>

Attempt(t) ==
  \/ LoopStart(t) \/ UsernamePwSet(t) \/ MosquittoConnect(t)
  \/ CallSucceeds(t) \/ CallFails(t) \/ ConnectSucceeded(t) \/ ConnectFailed(t)

-----------------------------------------------------------------------------
(* The application thread and reconnect_proc.                              *)

Connect ==
  /\ pc[App] = "idle" /\ connects + disconnects < MaxCalls
  /\ connects' = connects + 1
  /\ Goto(App, FirstStep)
  /\ UNCHANGED <<threadVars, option, IsConnected, clientVars, sessionVars,
                 informed, brokerVars, disconnects, settings>>

\* The end of a Connect that failed: another thread goes on trying.
CreateReconnectThread ==
  /\ pc[App] = "failed"
  /\ IF AutoReconnect
     THEN \E r \in Reconnectors :
            /\ pc[r] = "none"
            /\ pc' = [pc EXCEPT ![App] = "idle", ![r] = "check"]
     ELSE Goto(App, "idle")
  /\ UNCHANGED <<threadVars, option, IsConnected, clientVars, sessionVars,
                 informed, brokerVars, calls>>

\* while(!IsConnected) nsleep(...)
CheckConnected(r) ==
  /\ pc[r] = "check"
  /\ Goto(r, IF IsConnected THEN "none" ELSE FirstStep)
  /\ UNCHANGED <<threadVars, option, IsConnected, clientVars, sessionVars,
                 informed, brokerVars, calls>>

\* mosquitto_disconnect: the network thread is left to send the packet; where
\* there is none, this thread sends it and runs the callback itself.
Disconnect ==
  /\ pc[App] = "idle" /\ connects + disconnects < MaxCalls
  /\ disconnects' = disconnects + 1
  /\ disconnecting' = TRUE
  /\ IF session # "none" /\ pc[Net] = "none"
     THEN /\ session' = "none"
          /\ leaving' = leaving \union {App}
          /\ Goto(App, "on_disconnect")
          /\ UNCHANGED closing
     ELSE /\ closing' = (session # "none")
          /\ Goto(App, "stop")
          /\ UNCHANGED <<session, leaving>>
  /\ UNCHANGED <<got, overlapped, option, IsConnected, client, hostKnown, login, subscribed,
                 informed, brokerVars, connects, settings>>

StopAfterDisconnect ==
  /\ pc[App] = "stop"
  /\ LoopStop(App, "idle")
  /\ UNCHANGED <<got, overlapped, option, IsConnected, clientVars, sessionVars, informed,
                 brokerVars, calls>>

-----------------------------------------------------------------------------
(* libmosquitto's network thread.                                          *)

\* CONNACK of an accepted CONNECT, and the first statement of connect_callback.
ConnectAccepted ==
  /\ pc[Net] = "loop" /\ session = "pending" /\ up
  /\ login = Pair(issued, issued)
  /\ session' = "open"
  /\ IsConnected' = TRUE
  /\ Goto(Net, "event")
  /\ UNCHANGED <<threadVars, option, clientVars, login, closing, subscribed,
                 informed, brokerVars, calls>>

\* CONNACK of a refused one: libmosquitto then closes the socket.
ConnectRefused ==
  /\ pc[Net] = "loop" /\ session = "pending" /\ up
  /\ login # Pair(issued, issued)
  /\ session' = "none"
  /\ IsConnected' = FALSE
  /\ leaving' = leaving \union {Net}
  /\ Goto(Net, "on_disconnect")
  /\ UNCHANGED <<got, overlapped, option, clientVars, login, closing, subscribed, informed,
                 brokerVars, calls>>

\* Mutant of EventConnect: the application is told of the first session only.
EventConnectQuiet ==
  /\ pc[Net] = "event"
  /\ informed' = (informed \/ outages = 0)
  /\ Goto(Net, "subscribe")
  /\ UNCHANGED <<threadVars, option, IsConnected, clientVars, sessionVars,
                 brokerVars, calls>>

\* Mutant of EventConnect: the topics are subscribed for the first session only.
EventConnectOnce ==
  /\ pc[Net] = "event"
  /\ informed' = TRUE
  /\ Goto(Net, IF outages = 0 THEN "subscribe" ELSE "loop")
  /\ UNCHANGED <<threadVars, option, IsConnected, clientVars, sessionVars,
                 brokerVars, calls>>

EventConnect ==
  /\ pc[Net] = "event"
  /\ informed' = TRUE
  /\ Goto(Net, "subscribe")
  /\ UNCHANGED <<threadVars, option, IsConnected, clientVars, sessionVars,
                 brokerVars, calls>>

\* mosquitto_subscribe of the command and the acknowledgement topic.
Subscribe ==
  /\ pc[Net] = "subscribe"
  /\ subscribed' = (session # "none")
  /\ Goto(Net, "loop")
  /\ UNCHANGED <<threadVars, option, IsConnected, clientVars, session, login,
                 closing, informed, brokerVars, calls>>

\* The connection is found broken, or DISCONNECT has been sent.
SessionEnds ==
  /\ pc[Net] = "loop"
  /\ session = "broken" \/ (closing /\ session # "none")
  /\ session' = "none"
  /\ leaving' = leaving \union {Net}
  /\ Goto(Net, "on_disconnect")
  /\ UNCHANGED <<got, overlapped, option, IsConnected, clientVars, login, closing,
                 subscribed, informed, brokerVars, calls>>

\* Without a socket mosquitto_loop returns at once, and no callback is called.
NoSocket ==
  /\ pc[Net] = "loop" /\ session = "none"
  /\ Goto(Net, IF disconnecting THEN "exited" ELSE "backoff")
  /\ UNCHANGED <<threadVars, option, IsConnected, clientVars, sessionVars,
                 informed, brokerVars, calls>>

\* The reconnect delay is over.
WakeUp ==
  /\ pc[Net] = "backoff"
  /\ IF disconnecting
     THEN Goto(Net, "exited") /\ UNCHANGED <<session, closing, subscribed>>
     ELSE IF hostKnown
     THEN Goto(Net, "reconnect") /\ CloseSocket
     ELSE UNCHANGED <<pc, session, closing, subscribed>>
  /\ UNCHANGED <<threadVars, option, IsConnected, clientVars, login, informed,
                 brokerVars, calls>>

ReconnectSucceeds ==
  /\ pc[Net] = "reconnect"
  /\ OpenSocket
  /\ Goto(Net, "loop")
  /\ UNCHANGED <<threadVars, option, IsConnected, clientVars, closing, informed,
                 brokerVars, calls>>

ReconnectFails ==
  /\ pc[Net] = "reconnect"
  /\ Goto(Net, "backoff")
  /\ UNCHANGED <<threadVars, option, IsConnected, clientVars, sessionVars,
                 informed, brokerVars, calls>>

NetworkThread ==
  \/ ConnectAccepted \/ ConnectRefused \/ EventConnect \/ Subscribe
  \/ SessionEnds \/ NoSocket \/ WakeUp \/ ReconnectSucceeds \/ ReconnectFails

-----------------------------------------------------------------------------
(* The broker and DCCS.                                                    *)

BrokerLost ==
  /\ up /\ outages < MaxOutages
  /\ up' = FALSE
  /\ outages' = outages + 1
  /\ session' = IF session = "none" THEN "none" ELSE "broken"
  /\ UNCHANGED <<pc, threadVars, option, IsConnected, clientVars, login, closing,
                 subscribed, informed, issued, calls>>

BrokerBack ==
  /\ ~ up
  /\ up' = TRUE
  /\ UNCHANGED <<pc, threadVars, option, IsConnected, clientVars, sessionVars,
                 informed, issued, outages, calls>>

Rotate ==
  /\ DCCS /\ issued < MaxRotations
  /\ issued' = issued + 1
  /\ UNCHANGED <<pc, threadVars, option, IsConnected, clientVars, sessionVars,
                 informed, up, outages, calls>>

Environment == BrokerLost \/ BrokerBack \/ Rotate

InCall == CreateReconnectThread \/ StopAfterDisconnect \/ Attempt(App) \/ Common(App)

Application == Connect \/ Disconnect \/ InCall

Reconnect(r) == CheckConnected(r) \/ Attempt(r) \/ Common(r)

Network == NetworkThread \/ Common(Net)

Next ==
  \/ Application
  \/ \E r \in Reconnectors : Reconnect(r)
  \/ Network
  \/ Environment

Spec == Init /\ [][Next]_vars

SomeFetch == \E r \in Reconnectors : Fetch(r)
SomeReconnection == ReconnectSucceeds \/ \E r \in Reconnectors : CallSucceeds(r)

\* Every thread is scheduled, but nobody has to call Connect or Disconnect.  DCCS
\* does not fail the reconnecting threads for ever, nor do all attempts to reconnect
\* fail for ever while the broker can be reached; Connect need not succeed at all.
Fairness ==
  /\ WF_vars(InCall) /\ WF_vars(Network)
  /\ \A r \in Reconnectors : WF_vars(Reconnect(r))
  /\ SF_vars(SomeFetch) /\ SF_vars(SomeReconnection)

FairSpec == Spec /\ Fairness

-----------------------------------------------------------------------------
(* Properties.                                                             *)

Fetching == {"fetch", "user", "pass"}
Attempting == Fetching \union {"start", "auth", "connect", "calling", "restart", "abandon"}
Leaving == Fetching \union {"on_disconnect", "lost"}

TypeOK ==
  /\ DOMAIN pc = Threads
  /\ pc[App] \in Attempting \union Leaving \union {"idle", "failed", "stop"}
  /\ pc[Net] \in Leaving \union {"none", "loop", "event", "subscribe", "backoff",
                               "reconnect", "exited"}
  /\ \A r \in Reconnectors : pc[r] \in Attempting \union {"none", "check"}
  /\ got \in [Threads -> 0..issued]
  /\ leaving \subseteq {App, Net} /\ overlapped \subseteq Threads
  /\ {option, client, login} \subseteq [user : 0..issued, pass : 0..issued]
  /\ {IsConnected, informed, hostKnown, disconnecting, closing, subscribed, up,
      DCCS, AutoReconnect} \subseteq BOOLEAN
  /\ ~ DCCS => issued = 0
  /\ session \in {"none", "pending", "open", "broken"}
  /\ issued \in Nat /\ outages \in Nat /\ connects \in Nat /\ disconnects \in Nat

\* Connect, reconnect_proc and disconnect_callback all write option.MQTT, field by
\* field.  An attempt is given the credentials it has fetched itself, user name
\* and password; where it is not, another thread has stored some between its own
\* answer from DCCS and their use.
OwnCredentials ==
  \A t \in Threads :
    (DCCS /\ pc[t] = "auth" /\ t \notin overlapped) => option = Pair(got[t], got[t])

\* However many attempts overlap, one of them late, and cancel each other's
\* network thread: until Disconnect is called, an agent that is to reconnect is
\* left without any thread that would only if the flag is up.
GivesUpOnFlag ==
  (/\ AutoReconnect /\ connects > 0 /\ disconnects = 0
   /\ pc[App] = "idle" /\ pc[Net] \in {"none", "exited"}
   /\ \A r \in Reconnectors : pc[r] = "none")
  => IsConnected

\* Until Disconnect is called, the network thread does not serve a flag the
\* application has not been told of; if it is cancelled before it could tell,
\* nobody takes its place.
ToldOfSession ==
  (/\ connects <= 1 /\ disconnects = 0 /\ IsConnected
   /\ pc[Net] \in {"loop", "backoff", "reconnect"})
  => informed

\* Until Disconnect is called, the network thread does not serve an open session
\* without the command topics subscribed (the broker forgets them with every
\* session, clean_session being set).
CommandsSubscribed ==
  (connects <= 1 /\ disconnects = 0 /\ pc[Net] = "loop" /\ session = "open") => subscribed

\* With AutoReconnect, an agent whose broker stays reachable goes on sending
\* CONNECT until the flag is up, whatever its credentials, however long its
\* attempts take and whichever of them fail.
KeepsTrying ==
  (AutoReconnect /\ <>[]up) =>
    ((connects > 0) ~> []<>(session = "pending" \/ IsConnected \/ disconnects > 0))

\* After Disconnect the application's disconnect event has come, or the flag is
\* at least down (mosquitto.h: the callback is called when the broker has
\* received the DISCONNECT command and has disconnected the client).
DisconnectNotified == (disconnecting /\ pc[App] = "idle") => ~ IsConnected

-----------------------------------------------------------------------------
(* The inductive invariant behind them.                                    *)

\* t is on its way to a connection, at one of the labels.
Tries(t, labels) == t \notin leaving /\ pc[t] \in labels

Preparing == Fetching \union {"start"}
Calling == {"auth", "connect", "calling", "abandon", "restart"}
Job == Preparing \union Calling \union {"check", "failed"}

\* disconnect_callback runs where pc says so: in the application's thread only
\* after a call of Disconnect.
CallbackThreads ==
  /\ Net \in leaving <=> pc[Net] \in Leaving
  /\ App \in leaving => pc[App] \in Leaving /\ disconnects > 0
  /\ pc[App] \in {"on_disconnect", "lost"} => App \in leaving

\* Nothing is prepared before Connect is called.
NothingYet ==
  connects = 0 => /\ pc[App] \in {"idle", "stop"} /\ pc[Net] = "none"
                  /\ session = "none" /\ ~ IsConnected /\ ~ informed

\* Only Disconnect ends the network thread; only the network thread, in
\* connect_callback, raises the flag.
Undisturbed ==
  disconnects = 0 =>
    /\ ~ disconnecting /\ ~ closing /\ pc[App] # "stop" /\ pc[Net] # "exited"
    /\ pc[Net] \in {"event", "subscribe"} => IsConnected
    /\ pc[Net] \in Fetching \union {"lost"} => ~ IsConnected

\* Who leaves the connection alone leaves it to another thread, or to the flag.
SomeoneTries ==
  (AutoReconnect /\ connects > 0 /\ disconnects = 0) =>
    \/ IsConnected
    \/ pc[Net] \notin {"none", "exited"}
    \/ \E t \in Threads : Tries(t, Job)

\* What an attempt holds is its own, as far as it has stored it.
OwnStored ==
  \A t \in Threads :
    DCCS /\ t \notin overlapped =>
      /\ Tries(t, {"pass"}) => option.user = got[t]
      /\ Tries(t, {"start", "auth"}) => option = Pair(got[t], got[t])

\* Connect hands its job over to one reconnect_proc, or to none.
OneTries ==
  \A s, t \in Threads :
    Tries(s, Job) => connects > 0 /\ (connects <= 1 /\ Tries(t, Job) => s = t)

\* While it is prepared there is no network thread, and there is one while it
\* takes place; nobody begins one while the flag is up.
OneNetwork ==
  connects <= 1 =>
    \A t \in Threads :
      /\ Tries(t, Preparing \union {"check", "failed"}) => pc[Net] = "none"
      /\ Tries(t, Preparing) => ~ IsConnected
      /\ disconnects = 0 /\ Tries(t, Calling) => pc[Net] # "none"

\* An open session has raised the flag, and its network thread has told and
\* subscribed, or is about to.
SessionServed ==
  (connects <= 1 /\ disconnects = 0) =>
    /\ session = "open" => /\ IsConnected
                           /\ pc[Net] \in {"none", "loop", "event", "subscribe"}
                           /\ pc[Net] = "loop" => subscribed
    /\ pc[Net] = "subscribe" => informed
    /\ pc[Net] \notin {"none", "event"} /\ IsConnected => informed

ConnectionInv ==
  /\ CallbackThreads /\ NothingYet /\ Undisturbed /\ SomeoneTries /\ OwnStored
  /\ OneTries /\ OneNetwork /\ SessionServed
=============================================================================
