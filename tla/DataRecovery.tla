---------------------------- MODULE DataRecovery ----------------------------
(***************************************************************************)
(* The store-and-forward path of the agent (src/DatahubEdge.c): an         *)
(* application thread calls SendData, which publishes while the agent      *)
(* believes it is connected and inserts into the SQLite table Data         *)
(* otherwise; the recovery thread (recover_proc) reads a batch of rows,    *)
(* publishes them one by one and, after each one, runs the query again     *)
(* with data_callback, which deletes every row it visits.  The table       *)
(* survives a crash of the process, nothing else does.                     *)
(*                                                                         *)
(* A message is the number of the SendData call that produced it.  The     *)
(* connection is reduced to its effect on IsConnected: the two libmosquitto*)
(* callbacks may run at any time (module Connection models the threads     *)
(* that cause them).                                                       *)
(***************************************************************************)
EXTENDS Integers, FiniteSets, SequencesExt

CONSTANTS
  RecoverLimit,  \* rcov_limit: rows a query of the recovery thread returns
  DataRecover,   \* option.DataRecover
  MaxSends,      \* bound: valid SendData calls of the application
  MaxCrashes,    \* bound: crashes of the process
  MaxFailures,   \* bound: deletions that SQLite refuses
  MaxRefusals    \* bound: messages that the MQTT client refuses

ASSUME RecoverLimitAssumption == RecoverLimit \in Nat \ {0}
ASSUME DataRecoverAssumption == DataRecover \in BOOLEAN
ASSUME BoundsAssumption == /\ MaxSends \in Nat
                           /\ MaxCrashes \in Nat
                           /\ MaxFailures \in Nat
                           /\ MaxRefusals \in Nat

VARIABLES
  IsConnected,    \* the flag every thread reads without a lock
  app,            \* where the application thread is inside SendData
  sent,           \* number of SendData calls: the newest message
  Data,           \* the rows of the table, in the order of their id
  rcov,           \* where the recovery thread is inside recover_proc
  result,         \* the data rows of the result table (its header left out)
  i,              \* index in result of the row being handled
  kept,           \* rows the running delete query has visited and not deleted
  visited,        \* rows the running delete query has visited
  published,      \* history: messages the MQTT client has ever taken
  forwarded,      \* history: rows recover_proc handed over since the start
  duplicates,     \* history: publications of an already published message
  stale,          \* history: messages handed over since the flag fell
  refusals,       \* history: messages the MQTT client refused
  deleteFailures, \* history: row deletions SQLite refused
  crashes         \* history: crashes

appVars  == <<app, sent>>
rcovVars == <<rcov, result, i, kept, visited>>
history  == <<published, forwarded, duplicates, stale, refusals,
              deleteFailures, crashes>>
vars     == <<IsConnected, appVars, Data, rcovVars, history>>

\* Mutant of rows: the header is counted twice.
rowsShort == Max({0, Len(result) - 1})

rows == Len(result)

Init ==
  /\ IsConnected = FALSE
  /\ app = "idle" /\ sent = 0
  /\ Data = << >>
  /\ rcov = "poll" /\ result = << >> /\ i = 1 /\ kept = 0 /\ visited = 0
  /\ published = {} /\ forwarded = << >>
  /\ duplicates = 0 /\ stale = 0 /\ refusals = 0
  /\ deleteFailures = 0 /\ crashes = 0

-----------------------------------------------------------------------------
(* libmosquitto's network thread.                                          *)

\* result is the CONNACK code: zero is success
connect_callback ==
  /\ \E accepted \in BOOLEAN :
       /\ IsConnected' = accepted
       /\ stale' = IF accepted THEN 0 ELSE stale
  /\ UNCHANGED <<appVars, Data, rcovVars,
                 published, forwarded, duplicates, refusals,
                 deleteFailures, crashes>>

disconnect_callback ==
  /\ IsConnected' = FALSE
  /\ UNCHANGED <<appVars, Data, rcovVars, history>>

-----------------------------------------------------------------------------
(* The application thread inside SendData.                                 *)

\* mosquitto_publish takes a message or returns an error, which changes no state
\* here: SendData returns it and recover_proc logs it.
Publish(m) ==
  /\ \/ /\ published' = published \union {m}
        /\ duplicates' = IF m \in published THEN duplicates + 1 ELSE duplicates
        /\ UNCHANGED refusals
     \/ /\ refusals < MaxRefusals
        /\ refusals' = refusals + 1
        /\ UNCHANGED <<published, duplicates>>
  /\ stale' = IF IsConnected THEN 0 ELSE stale + 1

\* SendDataMessage built a payload; the flag is read once and acted on later.
SendData ==
  /\ app = "idle" /\ sent < MaxSends
  /\ sent' = sent + 1
  /\ app' = IF IsConnected THEN "publish" ELSE "insert"
  /\ UNCHANGED <<IsConnected, Data, rcovVars, history>>

PublishData ==
  /\ app = "publish"
  /\ app' = "idle"
  /\ Publish(sent)
  /\ UNCHANGED <<IsConnected, sent, Data, rcovVars,
                 forwarded, deleteFailures, crashes>>

\* sqlite3_exec holds the connection's mutex from the first to the last row of
\* a query, callbacks included: no other thread gets in between.
MutexFree == ~ (rcov = "delete" /\ visited > 0)

\* Mutant of InsertData: recover_proc holds a lock of its own for a whole batch.
InsertDataBetweenBatches ==
  /\ app = "insert" /\ rcov = "poll"
  /\ app' = "idle"
  /\ Data' \in {Data, Append(Data, sent)}
  /\ UNCHANGED <<IsConnected, sent, rcovVars, history>>

\* The INSERT takes effect or fails; its return code is never looked at.
InsertData ==
  /\ app = "insert" /\ MutexFree
  /\ app' = "idle"
  /\ Data' \in {Data, Append(Data, sent)}
  /\ UNCHANGED <<IsConnected, sent, rcovVars, history>>

-----------------------------------------------------------------------------
(* The recovery thread.                                                    *)

\* Mutant of PollConnected: the flag is not tested.
PollAlways ==
  /\ DataRecover /\ rcov = "poll"
  /\ rcov' = "select"
  /\ UNCHANGED <<IsConnected, appVars, Data, result, i, kept, visited, history>>

\* while(option.DataRecover) if(IsConnected) nsleep(...)
PollConnected ==
  /\ DataRecover /\ rcov = "poll" /\ IsConnected
  /\ rcov' = "select"
  /\ UNCHANGED <<IsConnected, appVars, Data, result, i, kept, visited, history>>

\* Mutant of Batch: ORDER BY id DESC.
BatchNewest == Reverse(SubSeq(Data, Max({1, Len(Data) - RecoverLimit + 1}), Len(Data)))

\* SELECT * FROM Data LIMIT RecoverLimit, in the order of the primary key.
Batch == SubSeq(Data, 1, Min({RecoverLimit, Len(Data)}))

\* sqlite3_get_table: a failed query leaves no rows.  Row 0 of the result
\* table is the header, which the loop skips by comparing with "message".
SelectRows ==
  /\ rcov = "select"
  /\ result' \in {<< >>, Batch}
  /\ i' = 1
  /\ rcov' = "row"
  /\ UNCHANGED <<IsConnected, appVars, Data, kept, visited, history>>

\* The loop runs i from 0 (the header) to rows - 1.
PublishRow ==
  /\ rcov = "row" /\ i < rows
  /\ Publish(result[i])
  /\ forwarded' = Append(forwarded, result[i])
  /\ rcov' = "delete" /\ kept' = 0 /\ visited' = 0
  /\ UNCHANGED <<IsConnected, appVars, Data, result, i, deleteFailures, crashes>>

EndBatch ==
  /\ rcov = "row" /\ i >= rows
  /\ rcov' = "poll"
  /\ UNCHANGED <<IsConnected, appVars, Data, result, i, kept, visited, history>>

\* Mutants of RowToVisit: the delete query has no LIMIT; it visits nothing.
RowToVisitUnlimited == kept < Len(Data)
RowToVisitNone == FALSE

\* The delete query still has a row to visit.
RowToVisit == visited < RecoverLimit /\ kept < Len(Data)

\* data_callback on the next row; every DELETE commits on its own.
DeleteRow ==
  /\ rcov = "delete" /\ RowToVisit
  /\ Data' = RemoveAt(Data, kept + 1)
  /\ visited' = visited + 1
  /\ UNCHANGED <<IsConnected, appVars, rcov, result, i, kept, history>>

\* The DELETE fails: data_callback ignores it and goes on with the next row.
DeleteRowFails ==
  /\ rcov = "delete" /\ RowToVisit /\ deleteFailures < MaxFailures
  /\ kept' = kept + 1
  /\ visited' = visited + 1
  /\ deleteFailures' = deleteFailures + 1
  /\ UNCHANGED <<IsConnected, appVars, Data, rcov, result, i,
                 published, forwarded, duplicates, stale, refusals, crashes>>

EndDelete ==
  /\ rcov = "delete" /\ ~ RowToVisit
  /\ i' = i + 1
  /\ rcov' = "row"
  /\ UNCHANGED <<IsConnected, appVars, Data, result, kept, visited, history>>

\* The whole query fails: no row is visited.
DeleteQueryFails ==
  /\ rcov = "delete" /\ visited = 0 /\ deleteFailures < MaxFailures
  /\ i' = i + 1
  /\ rcov' = "row"
  /\ deleteFailures' = deleteFailures + 1
  /\ UNCHANGED <<IsConnected, appVars, Data, result, kept, visited,
                 published, forwarded, duplicates, stale, refusals, crashes>>

-----------------------------------------------------------------------------
\* The process dies and the application starts it again: Constructor finds
\* the table as it was (CREATE TABLE fails on it) and everything else is new.
Crash ==
  /\ crashes < MaxCrashes
  /\ crashes' = crashes + 1
  /\ IsConnected' = FALSE
  /\ app' = "idle"
  /\ rcov' = "poll" /\ result' = << >> /\ i' = 1 /\ kept' = 0 /\ visited' = 0
  /\ forwarded' = << >> /\ stale' = 0
  /\ UNCHANGED <<sent, Data, published, duplicates, refusals, deleteFailures>>

Application == SendData \/ PublishData \/ InsertData

Recovery ==
  \/ PollConnected \/ SelectRows \/ PublishRow \/ EndBatch
  \/ DeleteRow \/ DeleteRowFails \/ EndDelete \/ DeleteQueryFails

Network == connect_callback \/ disconnect_callback

Next == Network \/ Application \/ Recovery \/ Crash

Spec == Init /\ [][Next]_vars

\* Both threads are scheduled by the operating system, and SQLite does not
\* fail for ever: a query that can return rows eventually does.
Fairness ==
  /\ WF_vars(PublishData) /\ WF_vars(InsertData)
  /\ WF_vars(Recovery)
  /\ SF_vars(SelectRows /\ result' = Batch)

FairSpec == Spec /\ Fairness

-----------------------------------------------------------------------------
(* Properties.                                                             *)

TypeOK ==
  /\ IsConnected \in BOOLEAN
  /\ app \in {"idle", "publish", "insert"}
  /\ sent \in Nat
  /\ (app # "idle") => sent >= 1
  /\ Data \in Seq(1..sent)
  /\ rcov \in {"poll", "select", "row", "delete"}
  /\ result \in Seq(1..sent)
  /\ Len(result) <= RecoverLimit
  /\ i \in Nat \ {0}
  /\ (rcov = "delete") => i < rows
  /\ visited \in 0..RecoverLimit
  /\ kept \in 0..visited
  /\ published \subseteq 1..sent
  /\ forwarded \in Seq(1..sent)
  /\ duplicates \in Nat
  /\ stale \in Nat /\ refusals \in Nat
  /\ deleteFailures \in Nat
  /\ crashes \in Nat

Increasing(s) == \A j, k \in DOMAIN s : j < k => s[j] < s[k]

\* As long as SQLite deletes what it is asked to delete, one run of the process
\* forwards cached messages in the order in which SendData cached them, and
\* none of them twice, whatever SendData inserts between two steps of the
\* recovery thread (recover_proc queries the table again after every row).
ForwardedInOrder == (deleteFailures = 0) => Increasing(forwarded)

\* A message reaches the broker a second time only because the process died, or
\* because SQLite refused to delete a row, between the publication of the row
\* and its deletion: at most once for each such event.
DuplicatesBounded == duplicates <= crashes + deleteFailures

\* The flag is tested once for a call of SendData and once for a batch, and what
\* follows the test may come after the flag has fallen: until the flag is up
\* again at most RecoverLimit messages are handed to a client that is not
\* connected (the batch but for its last row, and one of SendData).
StaleHandovers == stale <= RecoverLimit

\* The messages of the batch that are still to be handed over.
InHand ==
  CASE rcov = "row"    -> SubSeq(result, i, rows)
    [] rcov = "delete" -> SubSeq(result, i + 1, rows)
    [] OTHER           -> << >>

O == INSTANCE Outbox WITH
  Limit    <- RecoverLimit,
  accepted <- sent,
  sending  <- IF app = "idle" THEN {} ELSE {sent},
  stored   <- Data,
  hand     <- InHand,
  budget   <- IF rcov = "delete" THEN RecoverLimit - visited ELSE 0,
  handed   <- published

\* The threads, the repeated queries, SQLite's failures and the crashes promise
\* what module Outbox says: every message handed over is new or the oldest one
\* in hand, the table loses at most RecoverLimit rows for each row handed over,
\* and the batch is used up but for one row.
Implements == O!Spec

\* If the agent is connected for good, the recovery thread drains the table
\* down to the row its loop cannot reach.
Drains == (DataRecover /\ <>[]IsConnected) => <>[](Len(Data) <= 1)

\* An application thread that has to cache a message is not blocked for ever by
\* the delete query of the recovery thread, which holds SQLite's mutex.
InsertCompletes == (app = "insert") ~> (app = "idle")

\* The comment of line 677, "delete id": the query after a publication deletes
\* the row that has just been published, so rows leave the table published.
OnlyPublishedDeleted ==
  [][\A m \in ToSet(Data) \ ToSet(Data') : m \in published]_vars

\* sqlite3.h describes a result table of rows + 1 rows whose row 0 holds the
\* column names: when the loop over it ends, every data row has been handled.
BatchHandled ==
  (rcov = "poll") => ToSet(result) \subseteq ToSet(forwarded)

-----------------------------------------------------------------------------
(* The inductive invariant behind the three safety properties.             *)

\* A message enters the table once, behind all the older ones.
InOrder ==
  /\ Increasing(Data)
  /\ Increasing(result)
  /\ (app # "idle") => /\ sent \notin published
                       /\ \A k \in DOMAIN forwarded : forwarded[k] < sent
                       /\ \A k \in DOMAIN Data : Data[k] < sent
                       /\ \A j \in DOMAIN result : result[j] < sent

\* m is newer than everything forwarded by this run of the process.
NotPassed(m) == \A k \in DOMAIN forwarded : forwarded[k] < m

\* The rows of the batch that are still to be published.
Upcoming == {j \in DOMAIN result : IF rcov = "row" THEN j >= i ELSE j > i}

\* How the table stands to the batch: the batch is the head of the table until
\* its first row is published; the delete query that follows removes that
\* head, and afterwards only newer rows are left.
TableAndBatch ==
  /\ rcov \in {"poll", "select"} => \A k \in DOMAIN Data : NotPassed(Data[k])
  /\ rcov = "row" =>
       /\ \A j \in Upcoming : NotPassed(result[j])
       /\ \A k \in DOMAIN Data : NotPassed(Data[k])
  /\ rcov = "delete" =>
       /\ forwarded # << >>
       /\ \A k \in DOMAIN forwarded : forwarded[k] <= result[i]
       /\ kept = 0
  /\ rcov = "row" /\ i = 1 =>
       /\ rows <= Len(Data)
       /\ \A j \in DOMAIN result : Data[j] = result[j]
  /\ rcov = "delete" /\ i = 1 =>
       /\ rows <= Len(Data) + visited
       /\ \A k \in DOMAIN Data : k + visited \in DOMAIN result => Data[k] = result[k + visited]
       /\ \A k \in DOMAIN Data : k + visited > rows => Data[k] > result[rows]
  /\ rcov \in {"row", "delete"} /\ i > 1 =>
       \A k \in DOMAIN Data, j \in DOMAIN result : Data[k] > result[j]

\* A row of the batch that is still in the table has not moved up, and the delete
\* query that follows its publication is going to visit it.
RowWithinReach ==
  /\ \A k \in DOMAIN Data, j \in DOMAIN result : Data[k] = result[j] => k <= j
  /\ rcov = "delete" =>
       \A k \in DOMAIN Data :
         k > kept /\ Data[k] = result[i] => k - kept <= RecoverLimit - visited

\* The row whose publication the running delete query follows, until it has
\* visited it.
BeingDeleted ==
  IF rcov = "delete" /\ \A k \in DOMAIN Data : k <= kept => Data[k] # result[i]
  THEN {result[i]} ELSE {}

\* What has been published already and may be published again.
MayRepeat ==
  (published \intersect ({Data[k] : k \in DOMAIN Data} \union {result[j] : j \in Upcoming}))
    \ BeingDeleted

\* A repetition, past or possible, is charged to a crash or a refused deletion.
RepetitionsCharged ==
  duplicates + Cardinality(MayRepeat) <= crashes + deleteFailures

\* How many messages can still be handed over on the strength of a flag that was
\* up when it was tested.
AppPending == IF app = "publish" THEN 1 ELSE 0

RcovPending ==
  CASE rcov = "poll"   -> 0
    [] rcov = "select" -> RecoverLimit - 1
    [] rcov = "row"    -> IF i < rows THEN rows - i ELSE 0
    [] rcov = "delete" -> rows - i - 1

StaleInv ==
  /\ IsConnected => stale = 0
  /\ stale + AppPending + RcovPending <= RecoverLimit

IInv ==
  /\ TypeOK
  /\ StaleInv
  /\ InOrder
  /\ RowWithinReach
  /\ RepetitionsCharged
  /\ (deleteFailures = 0) => TableAndBatch /\ Increasing(forwarded)
=============================================================================
