# Verification of the WISE-PaaS SCADA edge SDK (C)

TLA+ modules, TLC runs and TLAPS proofs for the agent library in `src/DatahubEdge.c`, `src/message.c`
and the JSON trees of `src/cJSON.c`. The application calls the library (Constructor, Connect,
SendData, UploadConfig, Disconnect, ...); the library talks MQTT through libmosquitto, keeps unsent
data in SQLite and a copy of the configuration in a file. libmosquitto, SQLite, libcurl and the
DCCS service (which issues MQTT credentials) are external: only binaries or headers are in the
repository, and they are modelled from their headers and from how this code calls them.

Contents: [the system](#1-the-system), [the modules](#2-the-modules), [the runs](#3-the-runs),
[what the code does against what is said of it](#4-disagreements-the-runs-exhibit),
[the proofs](#5-the-proofs), [what is only model-checked, and what is left out](#6-limits),
[the plan](#7-plan).

## 1. The system

### Threads and shared state

| thread | created by | runs |
|---|---|---|
| application | – | every API function |
| network | `mosquitto_loop_start` | libmosquitto's loop, which calls `connect_callback`, `disconnect_callback`, `message_callback` and reconnects by itself after 3 s |
| recovery | `Constructor` | `recover_proc` |
| heartbeat | `Constructor` | `heartbeat_proc` |
| reconnect | a failed `Connect` | `reconnect_proc`; one for each failed `Connect` |
| OpenVPN | `Constructor` | `ovpn_proc`, one call of `system` |

They share `IsConnected`, `option` (with the credentials in `option.MQTT`), the client object
`mosq`, the database handle `db` and several global pointers (`result`, `_insertSql`, ...). The code
has no lock: SQLite's connection mutex and libmosquitto's own ones are all there is.

### Components

| component | state | operations | interacts with |
|---|---|---|---|
| store and forward | table `Data` (persistent), `result`, `rows`, the position in `recover_proc` | `SendData`, `recover_proc`, `data_callback`, `initdb` | reads `IsConnected`; publishes |
| deadband filter | `pPrevious`, `json_ref`, the flags of the loops of `SendDataMessage` | `SendDataMessage`, `InitPrevious` | called by `SendData`; reads the cached configuration |
| connection | `IsConnected`, `option.MQTT`, `mosq`, the network and reconnect threads | `Connect`, `Disconnect`, `reconnect_proc`, `getCredentialFromDCCS`, `ParseConnectJson`, the callbacks | tells the application by event callbacks; its flag steers every other component |
| configuration cache | `config.json` (persistent), `json_ref` | `UploadConfig`, `SaveConfig`, `read_last_config`, `Convert...Config` | feeds the filter; publishes |
| JSON trees | items linked by `next`, `prev`, `child` | the list operations of cJSON | holds every payload and `pPrevious` |
| heartbeat | the static buffer `ts` and gmtime's static result | `heartbeat_proc`, `_getTime` | reads `IsConnected`; shares the buffers with every function that builds a message; publishes on the connection topic |
| status, commands, connection topic | – | `SendDeviceStatus`, `message_callback`, last will, `DisconnectMessage` | as heartbeat; broker, application |
| start-up | topics, callbacks | `Constructor`, event setters | creates the threads |
| OpenVPN, base64, sample | – | – | nothing (base64 is dead code) |

### What makes it correct, and what is hard

* **Store and forward.** A message that cannot be sent is sent later: in order, once unless the
  process dies at a bad moment, and eventually. Hard: the table is queried again after every
  published row while the application inserts; deletions are refused and the refusal ignored; the
  process dies between publication and deletion; SQLite's mutex is held across callbacks.
* **Deadband filter.** A value is left out only if it is close to what the broker was last told.
  Hard: flags and pointers survive from tag to tag and from device to device; arrays arrive in
  parts; `pPrevious` is rewritten while it is compared with; spans may be zero or negative.
* **Connection.** An agent goes on trying until its flag is up, uses the credentials it has fetched,
  and serves no session the application has not been told of. Hard: three kinds of threads write the
  same fields step by step, an attempt to connect takes as long as it likes and fails late, and two
  functions cancel the network thread wherever it is (`mosquitto_loop_stop(mosq, true)`).
* **Configuration cache.** The filter uses the published configuration, and the spans it was given.
  Hard: saving, publishing and loading fail or are cut short independently, and the file outlives the
  process; a span is a double in the API and an int in the filter.
* **JSON trees.** Links agree in both directions; nothing points to freed memory. Hard: an
  operation trusts links that others left long before.
* **Heartbeat and time stamps.** A message carries the time it was built, or the application's, and is
  handed over while the agent is connected. Hard: two threads print into one static buffer and copy
  from it; seconds and milliseconds are read from the clock one after the other; the flag is tested
  a whole heartbeat interval before the message it admits is published.

`PROJECT.json` lists under `hazards` every such place at its line, with the properties that cover it.

## 2. The modules

### DataRecovery — `SendData`, `recover_proc`, `data_callback`, `initdb`

A message is the number of the `SendData` call that produced it; the table `Data` is the sequence of
its rows. Each thread has a location (`app`, `rcov`) and one action per step that another thread can
interleave with:

| action | code |
|---|---|
| `SendData`, `PublishData`, `InsertData` | the test of the flag, the publication (whose error is only returned), the INSERT (whose failure the code ignores) |
| `PollConnected`, `SelectRows` | the loop of `recover_proc` to `sqlite3_get_table` (whose failure the code ignores) |
| `PublishRow`, `EndBatch` | the loop over the result, which goes on after a publication that returned an error; it ends at `rows - 1`, the header being row 0 of the result |
| `DeleteRow`, `DeleteRowFails`, `EndDelete`, `DeleteQueryFails` | the delete query, one row per step, each DELETE committing on its own |
| `connect_callback`, `disconnect_callback` | the only effect the connection has here, at any time |
| `Crash` | the process dies anywhere and starts again: only the table is left |

`MutexFree` is SQLite's connection mutex: `sqlite3_exec` holds it from the first to the last row of a
query, callbacks included. `published`, `forwarded`, `duplicates`, `stale`, `refusals`,
`deleteFailures` and `crashes` are history. A message is *published* when `mosquitto_publish` has
taken it: from there on it is in libmosquitto's queue. It is *forwarded* when `recover_proc` has
handed it over, taken or refused: the code treats both alike. `stale` counts what has been handed
over since the flag fell.

### Outbox — the abstract specification of store and forward

No threads, no queries, no flag: messages are accepted one at a time, handed over or stored or lost;
the oldest of the stored ones, at most `Limit`, are taken in hand and handed over in order; after each
of them up to `Limit` messages may leave the store, and none leaves it at any other time; of a batch
only the last message may be given up; a crash leaves the store alone. `DataRecovery!Implements` is
`Outbox!Spec` under the mapping `stored <- Data`, `hand <- InHand` (the rows of the result that are
still to come), `budget <-` the rows the running delete query may still visit. The two bounds, removals
for each message handed over and one message given up in a batch, are what remains of the intention to
delete what was published (section 4).

### Deadband — `SendDataMessage`

`pPrevious` is a function of devices of tags of indices; the payload and what was `reported` to the
call likewise. One action is one iteration of the loop over analog tags (`Tag`), so everything the
loops carry along is a variable: `match_config`, `match_previous_dev`, `match_previous_tag`, `valid`,
the pointers `subJsonPre_dev` and `subJsonPre_tag`, and whether the latter is dangling (`freed`). A
plain tag is an array whose only index is 0, as in the code. Comparing with a missing entry
dereferences a null pointer: `NullDereference` ends the process, and the next one starts with an
empty `pPrevious`. Reading a deleted item yields any outcome that does not stop the process. `wire` is
history: what the process last sent of each index. `EndCall` ends with what `SendData` does with the
payload: it is `Taken` (published or cached), or `Lost` when the client refuses it or the INSERT
fails, of which the filter learns nothing; `lost` are the indices whose last value was in a lost
payload. Discrete and text tags are only "data that is always sent" (`OtherTags`): they have no
deadband and no previous data.

The properties do not ask the code's comparison (`Exceeds`) what a deadband is: `Close` says that a value
is the same or has moved by less than a percentage of the span, and `OmittedIsClose` asks it of the value
the broker was told (`wire`) and not of the one the filter compared with. Where the span is zero, only the
same value is close. Of a negative span, limits in the wrong order, they say nothing: in the code no range
then reaches the threshold, and a value that has been sent once is never sent again. `SentForAReason`
names the two ways in which a tag is sent because of another one (`CarriedAlong`): the other one was sent and
has no deadband, so that `match_config` was down for this one, or it was sent and this one is a
plain tag, so that `valid` was up for it.

### Connection — `Connect`, `Disconnect`, `reconnect_proc`, the callbacks, DCCS

`pc` gives the location of the application thread, of the network thread and of each reconnect
thread. `Fetch`, `StoreUser` and `StorePassword` are the steps of `getCredentialFromDCCS` in whatever
thread runs it; `LoopStart`, `UsernamePwSet`, `MosquittoConnect`, `CallSucceeds` and `CallFails`,
`ConnectSucceeded` and `ConnectFailed` those of an attempt to connect, in `Connect` or `reconnect_proc`.
The thread is at `calling` while `mosquitto_connect` blocks, and nothing bounds that time: meanwhile the
network thread may wake up, connect by itself (`WakeUp`, `ReconnectSucceeds`, `ReconnectFails`) and serve a
session, which a failure of the attempt then leaves behind with its thread cancelled.

`leaving` are the threads inside `disconnect_callback`: the network thread as a rule, the application
thread if `mosquitto_disconnect` finds no network thread. `DCCS` and `AutoReconnect` are the options the
application has chosen. A credential is the number of the rotation that issued
it; `overlapped` is history, the attempts under whose hands another thread has stored one in `option`
since they had their answer from DCCS. libmosquitto is `client`, `hostKnown`, `disconnecting`, `session`, `login`, `closing`; of its
behaviour the module keeps what the calls depend on: `mosquitto_loop_start` does nothing for a thread
that has been started and not stopped, `mosquitto_loop_stop` with force cancels and joins,
`mosquitto_connect` closes an old socket without a callback, a lost or refused connection runs
`disconnect_callback`, and the loop reconnects by itself unless `mosquitto_disconnect` was called.

### ConfigCache — `UploadConfig`, `SaveConfig`, `read_last_config`

A configuration maps some tags to spans and a deadband. `OpenFile` truncates `config.json`
(`fopen(..., "w")`) or fails; `WriteFile` writes all of the text or part of it (`Torn`); `PublishConfig` and
`read_last_config` follow, which fail as well; a `Crash` may come between any two. The code handles the failed
publication only. `Loaded` is what memory may hold after `read_last_config`: what it held before, if the file
cannot be opened, the file, or part of it. `unbroken` is history: no step of the last Create or Update has
failed, nor of what came after it; `since` are the configurations that were to be uploaded from the last one
that went through unbroken on, and `damaged` says that the file was not written, or not read, to its end since
then.

`Saved` is what `SaveConfig` writes (zero becomes a default), `Message` what `ConvertCreateOrUpdateConfig`
publishes (zero is left out), `FilterSpan` what the filter makes of the file: `valueint` truncates, and
saturates at the ends of an int as `parse_number` does; the difference of the two ints wraps
(`WrapAround`), as the build has it, which is not optimised. Spans are doubles in the API and are counted in halves.

### CJSON and OrderedObjects — the lists of `cJSON.c`

`CJSON` has the fields `child`, `next`, `prev`, `string` of every item and performs each operation
assignment by assignment. `OrderedObjects` says what they are for: an object is a sequence of named
items, an item is in one object at most, deleting takes along what is inside (`Inside`, the least set with the item
that contains the members of its own items). Looking up by name finds the first item with it (`First`). `CJSON` refines it
(`ImplementsObjects`), with the walk along `next` (`Walk`, `List`) as the refinement mapping; the walk is bounded by the
number of items, so that it is a function of that number and would end even if the links went round. What a loop or a recursion
of the code visits is, in the operations themselves, the least set that contains its first item and is closed
under the pointers it follows (`From`, `Deleted`); the loops change nothing on their way, so the order of the
visits does not matter, only what is found: the first item with a name (`get_object_item`), the item with so many
before it (`get_array_item`), the one that ends the list (`LastItem`). Callers respect two
preconditions, `Loose` and `MayAdd`: an item is put into one list only, and never into itself. Names
are compared without regard to case, so a name of the model stands for a class of names. `cJSON_Parse`
and `cJSON_Duplicate` build several items in one action: nobody else has them before the call
returns. A parsed object has scalar members (`MaxMembers` of them at most), since deeper ones are built by
the same code; new items come cleared, freed memory is NULL, and `TypeOK` says that nothing points to it.

### Heartbeat — `heartbeat_proc`, `_getTime`, and the builders of messages

Two threads build messages, the application's (`SendData`, `SendDeviceStatus`, `UploadConfig`,
`Disconnect`) and `heartbeat_proc`. A build is a sequence of the steps that touch what they share:

| action | code |
|---|---|
| `Begin` | `time(NULL)` |
| `Gmtime`, `Strftime` | the static result of `gmtime`, `tm`, is written, and read into a local buffer |
| `Gettimeofday`, `Sprintf` | the milliseconds; all of the stamp goes into `ts` |
| `OwnTime` | `SendDataMessage` prints `data.Time`, whatever follows its last dot included, into `ts` instead (or finds that it cannot parse it) |
| `AddStamp` | `cJSON_AddStringToObject` copies `ts` |
| `ToHandOver`, `KeepBack`, `Publish` | the test of the flag, where it comes after the build, and the publication |

A stamp has places: those of the date and the time to the second (`SecPlaces`), and those of the
milliseconds (`MilliPlaces`). Each of `Gmtime`, `Strftime`, `Sprintf`, `OwnTime` and `AddStamp` deals with one
place of `tm` or of `ts` in a step of its own (`left` are those still to come), so what one thread reads while
the other writes is a mixture, field by field and character by character: of 09:59:59 and 10:00:00 it may make
10:59:59, and the model has it so. What the clock shows in a place is the constant `Part`, the order of the
places is `Turn`: from left to right for TLC, any order in the proofs. `Tick` moves the clock at any
point. `since`, `disturbed` and `late` are history: the clock at the beginning of the earliest build this one
overlaps, whether the other thread wrote to `tm` or to `ts` while this one relied on it, and the messages
handed over since the flag fell. The sleep of `heartbeat_proc` is the time between `built` and `publish`: it
may be as long as it likes.

### MC modules

`MCDeadband`, `MCConfigCache`, `MCCJSON` and `MCHeartbeat` give TLC its sets of values, its clock and its symmetry; the other
modules are instantiated by their `.cfg` alone. The modules `..._proofs` and `..._refinement`
hold the theorems (section 5).

## 3. The runs

| run | bounds | shows |
|---|---|---|
| `recovery_faults` | batches of 3, 4 messages, 2 crashes, 2 refused deletions, 1 refused message | `ForwardedInOrder`, `DuplicatesBounded`, `StaleHandovers`, the inductive invariant `IInv`, the refinement `Implements`, and the liveness properties `Drains`, `InsertCompletes` |
| `recovery_deleteid`, `recovery_lastrow` | batches of 3, 4 messages, no fault | two disagreements (section 4) |
| `deadband_tags` | 1 device of 2 tags of 2 indices, 2 values, span 2, deadband 100 % or none, 1 lost payload | `CacheMatchesWire`, `OmittedIsClose`, `SentForAReason`, the inductive invariant `OneDeviceInv` |
| `deadband_devices` | 2 devices of 2 plain tags, 2 values, span 0, deadband 100 % or none | `CacheMatchesWire` and `KnownIsClose` with the flags crossing from tag to tag and device to device, the inductive invariant `DeadbandInv` |
| `deadband_firstdata` | 2 devices of 1 tag | disagreement |
| `deadband_previous` | 1 device of 2 tags | disagreement |
| `connection_agent` | 2 calls of `Connect` and `Disconnect`, 1 reconnect thread, 1 outage, 1 rotation, every choice of DCCS and AutoReconnect | `OwnCredentials`, `GivesUpOnFlag`, `ToldOfSession`, `CommandsSubscribed`, the inductive invariant `ConnectionInv`, and the liveness property `KeepsTrying` |
| `connection_notified` | 2 calls of `Connect` and `Disconnect`, 3 outages, 2 rotations | disagreement |
| `config_cache` | 1 tag with 5 settings or none, ints up to 1010, caching on, any number of uploads, failures and crashes | `FilterInUse`, `FilterNeverOlder`, `SpanSurvives`, the inductive invariant `ConfigInv` |
| `cjson_objects` | 5 items, 2 names, parsed objects of 3 members | `Linked`, the inductive invariant `TreeInv`, the refinement `ImplementsObjects` |
| `heartbeat` | 3 characters, 2 instants | `RecentParts`, `WholeStamp`, `OwnStamp`, `FewStaleMessages`, the inductive invariant `HeartbeatInv`, and the liveness property `HeartbeatsGoOn` |

Each module's `TypeOK` is checked by a run; every property of a passing run has a mutant of the code
that violates it (`mutants` in `PROJECT.json`).

Why the bounds are enough:

* `recovery_*`: four messages and batches of three give a full batch, a shorter one after it, rows
  inserted between the queries, and a table that is longer than a batch. Two crashes allow one
  in the recovery from another; a refused message can be the first, a middle or the last one of a
  batch. The theorems of section 5 lift every bound for the safety properties.
* `deadband_*`: the filter compares one index with its predecessor. In `deadband_tags` a value moves by
  nothing or by exactly the deadband, the two sides of the comparison; a tag is an array, whole or in parts, or
  plain, and the other tag of the device passes, does not, or has no configuration, so that each flag is up and
  down for the tag that follows. A lost payload changes nothing but the history; with one, a value is lost,
  and sent again. `deadband_devices` has the least devices and tags with a flag that is stale in the tag and in
  the device at once, and spans of zero, which divide by zero. `OmittedIsClose` fails with two
  devices (section 4); what holds for a device that has sent before is `KnownIsClose`. Tags and devices are
  interchangeable and the properties are safety properties, so symmetry is sound. The theorems lift every
  bound; those about `OmittedIsClose` and `SentForAReason` keep the one device.
* `connection_agent`: two calls are a Connect and a Disconnect, or two Connects, the second at any time while the
  first one's `reconnect_proc` is at work; with one reconnect thread, a second Connect that fails waits for it to end.
  (With two, the safety properties have been checked as well, over 1.5 million states.) With an outage a connection
  is lost and comes back, with a rotation the halves of two credentials can meet. Deadlock is not checked: the
  agent may be disconnected for good. The theorems lift every bound.
* `config_cache`: tags do not influence one another in the code, so one is enough. Uploads and crashes need no
  bound: what the history remembers is finite. The spans contain every case of the conversions: zero limits,
  negative limits, halves that truncation moves, limits that saturate at 1010, a difference that wraps. The theorems
  lift the bounds, and hold with caching off as well.
* `cjson_objects`: an object with three items (head, middle, last) inside another one, and a
  replacement. Items and names are interchangeable, and all four properties are safety properties,
  so symmetry is sound. The theorems lift every bound.
* `heartbeat`: the two instants are the last one before all three characters change, as at 09:59:59.999, and the one
  after, so that every mixture of old and new characters is a wrong time and the two threads can meet at
  every character of every step. The theorems lift the bounds: any number of places and instants, in any order.

### Fairness

* `DataRecovery`: the operating system schedules both threads (`WF` on the rest of a `SendData` that
  has begun, and on `recover_proc`; nobody has to call `SendData`). A query that can succeed
  eventually does (`SF` on `SelectRows` returning the batch), for SQLite's errors are not permanent.
  The connection is not fair at all: `Drains` assumes `<>[]IsConnected`.
* `Connection`: every thread is scheduled (`WF`), and a call of the API, once begun, goes on; nobody has to call
  `Connect` or `Disconnect`. DCCS does not refuse the reconnecting threads for ever (`SF` on `SomeFetch`), and not every
  attempt to reconnect fails while the broker can be reached (`SF` on `SomeReconnection`); an attempt ends at some
  time, no matter when, and `Connect` itself need not succeed at all. The broker need not come back:
  `KeepsTrying` assumes `<>[]up`. It does not promise that the broker accepts the agent: after a rotation
  the new credentials that `disconnect_callback` fetches reach `option.MQTT` but not the client object, and
  libmosquitto goes on with the old ones. Nor does it promise that somebody serves a flag that is up (below).
* `Heartbeat`: the heartbeat thread is scheduled (`WF` on all its steps); `HeartbeatsGoOn` assumes
  `<>[]IsConnected`. The other thread, the clock and the connection are not fair.

What slow attempts and repeated calls do to the connection is in the model, and the properties say how far it goes:

* the network thread started just before `mosquitto_connect` may connect by itself, and an attempt that then fails
  cancels it. The flag stays up, nobody serves the session, and `reconnect_proc` finds the flag up and ends.
  `GivesUpOnFlag` says that this is the only way in which all threads give up: as long as the flag is down, somebody
  is at work;
* two attempts at once, or an attempt and `disconnect_callback`, tear each other's credentials. `OwnCredentials` says that
  it takes another thread that stores some between the answer of DCCS and their use;
* after a `Disconnect` that has left the flag up (section 4), the `reconnect_proc` of a `Connect` that fails ends at
  once, and nobody reconnects. The properties are about the time before `Disconnect`, except `OwnCredentials`.

## 4. Disagreements the runs exhibit

| run | what is said | what the code does |
|---|---|---|
| `recovery_deleteid` | `DatahubEdge.c:677`: "delete id" | deletes up to `rcov_limit` rows from the head of the table after one publication: rows 1–3 are read, 1 is published, 1–3 are deleted, 2 is published from memory, the next three rows are deleted, 3 is never published |
| `recovery_lastrow` | `sqlite3.h:2229`: N rows make N+1 rows of strings, the first is the header | the loop ends one row early |
| `deadband_firstdata` | `message.c:389`: "send 1st data or no deadband case" | the first value of a new device is compared with the last device's previous data |
| `deadband_previous` | `message.c:270`: "previous data" | a tag that did not pass loses its previous data if an earlier one passed |
| `connection_notified` | `mosquitto.h:1116`: the callback runs when DISCONNECT has been received | `Disconnect` cancels the thread before it has sent it; `IsConnected` stays up |

Because of the first two, the properties of the passing runs do not say that every cached message is
forwarded. They say what the code does keep: order, at most one duplicate per fault, a bounded loss for
each message forwarded, progress down to one row.

## 5. The proofs

### DataRecovery_proofs

For every `RecoverLimit` (`RecoverLimitAssumption`: a positive number) and every value of the bounds
(`DataRecoverAssumption`, `BoundsAssumption`: a Boolean and naturals):

* `TypeCorrect`: `Spec => []TypeOK`;
* `Invariance`: `Spec => []IInv`;
* `InOrderForwarding`: `Spec => []ForwardedInOrder`;
* `RepetitionsBounded`: `Spec => []DuplicatesBounded`;
* `FewStaleHandovers`: `Spec => []StaleHandovers`.

None of the three is inductive. To know that the row published next is newer than all the others one
has to know how the table, which is queried anew, stands to the batch in memory; to charge a
duplicate to a fault one has to know of the fault before the duplicate happens. `IInv` adds:

* `InOrder`: the table and the batch are increasing, and a message still inside `SendData` is newer
  than everything in either;
* `TableAndBatch`, as long as no deletion has been refused: the batch is the head of the table until its
  first row is published; the delete query removes as many rows as a batch can have, so what is left
  afterwards is newer than the whole batch, and the later delete queries of the same batch can
  only delete what is newer still;
* `RowWithinReach`: a row of the batch that is still in the table has not moved up, so the delete query that
  follows its publication visits it: a row stays behind only if its deletion is refused;
* `RepetitionsCharged`: what has been published and may be published again (`MayRepeat`), together with the
  duplicates there have been, is at most the number of crashes and refused deletions. A step that
  repeats a message uses up one that could be repeated, and a crash or a refusal adds at most one;
* `StaleInv`: what has been handed over since the flag fell, and what a thread is still going to hand over
  without testing the flag again, is at most `RecoverLimit`: the batch but for its last row, and one
  message of `SendData`.

For each part there is a lemma with one step per action (`NextInOrder`, `NextTableAndBatch`,
`NextRowWithinReach`, `NextRepetitionsCharged`, `NextStaleInv`); `FailuresCounted` says that a run without
refusals has had none before; the effect of the four actions that change a sequence is stated once
(`DeleteRowEffect`, `InsertDataEffect`, `SelectRowsEffect`, `PublishRowEffect`), on top of lemmas about
`RemoveAt`, `SubSeq` and `Min`; `Counting` is the arithmetic of sets that `RepetitionsCharged` needs. It is
the delete query's excess, the subject of `recovery_deleteid`, that makes the order provable: rows of
the batch in hand never stay behind in the table.

### DataRecovery_refinement

`Refinement`: `Spec => Implements`, from the same assumptions. `InitOutbox` maps the initial states and
`NextOutbox` each action to a step of the outbox or a stutter, with `TypeOK` as the only invariant. The
one lemma about data, `RestOfBatch`, says how the messages in hand change when the index moves on.

### Heartbeat_proofs

For any places of a stamp, whatever the clock shows in them, in whatever order they are written and read, for every
heartbeat interval and every bound of the clock (`PlacesAssumption`, `PartAssumption`, `TurnAssumption`,
`OptionAssumption`, `BoundAssumption`):

* `TypeCorrect`: `Spec => []TypeOK`;
* `Invariance`: `Spec => []HeartbeatInv`;
* `StaleMessagesBounded`: `Spec => []FewStaleMessages`;
* `StampsOwned`: `Spec => []OwnStamp`;
* `StampsWhole`: `Spec => []WholeStamp`;
* `PartsRecent`: `Spec => []RecentParts`.

`HeartbeatInv` says of every point of a build what the thread may find in the places it is going to read:

* `LateInv`: a thread that still has a message to hand over untested has handed over none since the flag
  fell;
* `BufferInv`: as long as nobody has written to `ts` under the thread's hands, the places of the buffer it has
  written, and of the stamp it has copied, are of the kind its message needs;
* `RecentInv`: what a thread has written into `tm`, its local buffer, `ts` and its stamp so far may have been
  overwritten since, but only with what the clock has shown in that place during the builds it overlaps; two
  threads that are both building overlap the same builds;
* `WholeInv`: as long as nobody has disturbed the thread, what it has written is still there, the seconds of one
  reading and the milliseconds of a later one.

None of them says anything of a disturbed stamp as a whole: it may be any mixture of recent characters.

### Deadband_proofs

For any sets of devices, tags, indices, values and configurations (the assumptions of `Deadband` only
say that values are integers, that index 0 exists, and what a configuration is made of):

* `TypeCorrect`: `Spec => []TypeOK`;
* `Invariance`: `Spec => []DeadbandInv`;
* `CacheIsWire`: `Spec => []CacheMatchesWire`;
* `OmittedWithinDeadband`: `Spec => []KnownIsClose`.

`CacheMatchesWire` speaks of the moments between two calls. Inside the loops `pPrevious` runs behind: what has
passed is in the payload and in `subJsonPre_dev`, and reaches `pPrevious` at the end of the device. `CacheInv`
says of every entry, wherever it is kept, that it *agrees* with what the broker will have been told if the
payload gets there (`Agrees`); the entry of the device in the loop's hands is exempt in `pPrevious` once
something of it has passed, for `subJsonPre_dev` is going to replace it. `PayloadInv` says that a call without data
leaves nothing behind that would be taken for sent, `PendingInv` that nothing is known of a tag that is still to be
handled. None of these mentions the flags that are stale: a wrong decision to send or to leave out is still
recorded consistently, and this is why `CacheIsWire` needs no restriction.

The decision itself does depend on the flags. `FlagsInv` says what those of a device can mean: `match_previous_dev` is
right, `valid` is up only if something of the device is in the payload, and `match_config` is down only if a tag without
deadband has been sent. `DeviceEntryInv` says that a device that has sent has an entry. From then on the pointer that is
left from another device is not used, and `KnownIsClose` follows with no restriction on devices and tags.

The first value of a device is another matter: with a second device it is compared with the other one's entry
(`deadband_firstdata`). With one device (hypothesis `OneDevice`), any number of tags and indices:

* `OneDeviceInvariance`: `Spec => []OneDeviceInv`;
* `NothingHeldBack`: `Spec => []OmittedIsClose`;
* `NothingSentInVain`: `Spec => []SentForAReason`.

`OneDeviceInv` adds `NotStale` (when a tag is handled, no flag is left from another device) and `EntryInv` (a tag that
was sent has an entry, so one without an entry has nothing on the wire).

### Connection_proofs

For any number of reconnect threads, calls of `Connect` and `Disconnect`, outages and rotations, and any options
(`ThreadsAssumption` and `BoundsAssumption` say that the threads are distinct and the bounds are numbers):

* `TypeCorrect`: `Spec => []TypeOK`;
* `Invariance`: `Spec => []ConnectionInv`;
* `CredentialsOwned`: `Spec => []OwnCredentials`;
* `OnlyFlagGivesUp`: `Spec => []GivesUpOnFlag`;
* `SessionTold`: `Spec => []ToldOfSession`;
* `TopicsSubscribed`: `Spec => []CommandsSubscribed`.

No theorem has a hypothesis, and attempts take as long as they like. The parts of `ConnectionInv`:

* `CallbackThreads`, `NothingYet` and `Undisturbed` say where the threads can be: in the application's thread
  `disconnect_callback` runs only inside `Disconnect`, there is nothing before the first `Connect`, and only
  `Disconnect` ends the network thread for good;
* `SomeoneTries`: who leaves the connection alone leaves it to the network thread, to another thread on its way, or to
  a flag that is up. The flag is what a late failure leaves behind, and what ends `reconnect_proc`;
* `OwnStored`: what an attempt has stored so far is its own, as long as nobody else has stored anything;
* `OneTries`, `OneNetwork` and `SessionServed`, as long as `Connect` has been called once: one thread tries at a time,
  there is no network thread while an attempt is prepared, and an open session has raised the flag and is told of and
  subscribed before it is served. If a failed attempt cancels its network thread in between, the thread that
  attempted is the one that finds the flag up and gives up, so nobody serves the session.

### ConfigCache_proofs

For any tags and settings, any number of crashes, with and without caching:

* `TypeCorrect`: `Spec => []TypeOK`;
* `Invariance`: `Spec => []ConfigInv`;
* `SavedConfigUsed`: `Spec => []FilterInUse`;
* `NeverBehind`: `Spec => []FilterNeverOlder`;
* `SpansSurvive`: `Spec => []SpanSurvives`.

`ConfigInv` adds to the two properties where a call can be (`Calls`), that the file holds what has gone through, and what
is about to (`FileKept`), and that the file, too, is never behind the last unbroken upload, since it is what the filter
reads next (`FileNeverOlder`). `AbsentAssumption` says that a missing and a torn file are told apart from each other and
from every content. `SpansSurvive` is an invariant about data: its proof is a case distinction on the two limits of a
tag, about what the defaults of `SaveConfig`, the truncation, the saturation and the difference of ints leave of their
difference, for every width of an int. It asks that the limits, and the span, fit into one; without
that the statement is false (limits of 5e9 and 4e9 make a span of zero).

### CJSON_proofs

For any finite set of items, any names and any length of a parsed object (`NullAssumption`, `ItemsAssumption`):

* `Invariance`: `Spec => []TreeInv`;
* `TypeCorrect`: `Spec => []TypeOK`, the safety of the memory: no item that exists leads to one that has been freed;
* `ListsLinked`: `Spec => []Linked`.

Neither of the two is inductive. A deletion frees a whole tree, so one has to know that nothing outside leads
into a tree but to its root: two objects with the same head (excluded by `Owned`), or an item that is the head of one
list and inside another (excluded by `Linked`, for the head of a list has nothing before it), would be left with
a pointer to freed memory. And an item that could be reached from itself would be freed by its own deletion, or
inserted behind itself; `Grounded` excludes it in the form that every set of items has one that leads to none of the
set. In this form it is kept by every surgery with one choice of a set, and does the work of an induction along a
list: the last items with some property are those of the set of all with that property that lead to no other.

`Heap` states the invariant of any set of items and any three fields, so that an operation is proved in pieces:

* a detachment without the freeing (`DetachedHeap`);
* an item that nothing leads to is put between two neighbours (`HeapPut`): adding, inserting, and the second half of a
  replacement;
* some items are freed that the others do not lead to (`HeapFreed`), with `TreeFacts` about what leads into a tree;
* two sets of items that do not lead to each other are put together (`HeapUnion`): new items, the list a parser
  builds (`ChainHeap`), and the copies of a tree (`CopyHeap`).

The preconditions of the callers are used where the code relies on them: `LooseFacts` (an item that is in no list is
led to by nothing) and `ListOutside` (the list of an object is not inside an item that may be put into it).

### CJSON_refinement

`Refinement`: `Spec => ImplementsObjects`, from the same assumptions, with `TreeInv` before and after each step and one invariant
more, `Blank`: what does not exist has neither a list nor a name, as the sequences have it.

The mapping is a recursive definition, and what it computes is established once, without recursion. `Chain(s, p, next)`
says that the links make the sequence `s` of the pointer `p`. There is one such sequence at most (`ChainUnique`); there
is one, because `Grounded` gives, of the items without one, an item that leads to none of them (`ChainExists`); no item
is in it twice (`ChainInjective`); and a walk that is long enough is that sequence (`WalkChain`, by the least number of
steps for which it were not). From there on a list is known by its chain: to know `List(o)` after a step it is enough to
give a sequence and to show that the new links make it (`ListIsNext`), and a list whose head and links are not touched
stays (`ListKept`).

* `ListItems`, `PlaceFacts`: the items of the sequence are those the operations find by their closures (`Members`,
  `From`), each at one place, with `next` and `prev` as its neighbours; `ListsApart`: no item is in two lists;
* `InsideTree`: what is inside an item in the sense of the sequences is what `cJSON_Delete` frees;
* the surgeries: `PutList` (adding and inserting are `InsertAt`), `DetachList` (`RemoveAt`), `ReplaceList`, each with the
  other lists as they were; `CopyList` (the list of a copy is the copies of the list);
* `FoundFirst`: `get_object_item` finds the first item with the name;
* one lemma for each operation (`CreateStep`, `AddStep`, `AddToArrayStep`, `InsertStep`, `DetachStep`,
  `ReplaceInObjectStep`, `ReplaceInArrayStep`, `DeleteStep`, `ParseStep`, `DuplicateStep`) and `NextObjects`, which puts
  them together. The one call that changes nothing replaces an item by itself.

## 6. Limits

Only model-checked: liveness (`Drains`, `InsertCompletes`, `KeepsTrying`, `HeartbeatsGoOn`), which
needs fairness and is out of the prover's reach.

What no property covers, because nothing in the repository says what is meant: the filter's belief in a payload that
`SendData` lost (`Deadband` has the loss, and excepts its indices); limits in the wrong order or beyond an int; a stamp as a
whole that two threads have mixed; a session whose network thread a late failure has cancelled; a rotated credential
that the client never gets.

The library's own code is `DatahubEdge.c` and `message.c`, some 1700 lines of the 20600 under `src/`;
most of the rest are the headers of SQLite, libcurl and libmosquitto, which declare functions and hold
no code to model.

Not modelled:

* text: building and parsing JSON, time stamps, topics, SQL and base64 (dead code). The SQL text
  matters in one place, an INSERT that a quote in the payload breaks, and there it is an outcome of
  `InsertData`;
* what libmosquitto does with a message it has taken, its queue and its QoS;
* two application threads in the API at once: the API does not promise it, and `sample.c` has one;
* `json_ref` being freed by `read_last_config` while another thread parses it (same reason);
* memory leaks and exhaustion;
* references, constant names, printing and minifying in `cJSON.c`, and the text a parser reads;
* `message_callback` and `ParseEventJson`: a command goes from the payload to the application's callback,
  and the library keeps nothing of it;
* what the broker keeps of the connection topic: the last will is retained, `DisconnectMessage` and the
  heartbeats are not;
* the start of the threads before `initdb` has opened the database: `recover_proc` needs the flag, which
  only a later `Connect` can raise;
* `ovpn_proc`, `sample.c`.

Simplifications to know of: `IsConnected` is a plain `bool` that the loops of `recover_proc` and
`heartbeat_proc` poll; the makefile compiles without optimisation, so each test reads memory, as in
the models. `Deadband` lets a payload be taken or lost without the threads of `DataRecovery` behind it;
`Connection` has `mosquitto_loop_stop` wait, and not cancel, between DCCS's answer and the last assignment of the
credentials, where the code reaches no cancellation point; `ConfigCache` knows the filter's part of a
configuration only; in `Heartbeat` the application's thread has one message at a time, and the local
zone is left out of `data.Time`.

## 7. Plan

Done: `DataRecovery` with its proofs, as an implementation of `Outbox` with the proof of the refinement;
`Deadband` with lost payloads, `Connection`, `ConfigCache`, `Heartbeat` and `CJSON`, each with the proofs of its
invariants; `CJSON` as an implementation of `OrderedObjects`, with the proof of the refinement. Every invariant and both
refinements that the runs check are theorems.

What could follow:

1. `Agent`: `SendDataMessage`, `SendData` and `recover_proc` together, with the filter's belief against the
   outbox instead of the history `wire`.
2. `ConfigCache` with the fields the filter does not read, and with what Update and Delete mean for the tags they do
   not name.
