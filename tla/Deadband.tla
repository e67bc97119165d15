------------------------------ MODULE Deadband ------------------------------
(***************************************************************************)
(* The deadband filter of SendDataMessage (src/message.c): a value of an   *)
(* analog tag goes into the payload only if it differs from the value sent *)
(* before by at least the deadband of its tag, in percent of its span, as  *)
(* found in the cached configuration.  The values sent before are kept in  *)
(* pPrevious, an object of devices of tags of array indices.               *)
(*                                                                         *)
(* One action handles one analog tag, so that the flags the loops carry    *)
(* from tag to tag, and from device to device, are state.  A plain tag is  *)
(* an array whose only index is 0, as the code treats it.                  *)
(***************************************************************************)
EXTENDS Integers, FiniteSets, SequencesExt

CONSTANTS
  Devices,    \* device ids
  Tags,       \* names of analog tags
  Indices,    \* indices of array tags; 0 is the index of a plain tag
  Values,     \* the values the application reports
  TagConfigs, \* what config.json says of a tag: [span, deadband]
  MaxLosses   \* bound: payloads that SendData neither publishes nor caches

ASSUME IndicesAssumption == Indices \subseteq Nat /\ 0 \in Indices
ASSUME ValuesAssumption == Values \subseteq Int
ASSUME TagConfigsAssumption == TagConfigs \subseteq [span : Int, deadband : Int]
ASSUME BoundAssumption == MaxLosses \in Nat

Unconfigured == [span |-> 0, deadband |-> 0]  \* the tag is not in config.json

VARIABLES
  pc,                  \* "idle", in the loop over "devices" or over "tags"
  json_ref,            \* the configuration of every tag of every device
  pPrevious,           \* what was sent before, by device, tag and index
  dev,                 \* the device being handled
  devicesLeft,         \* devices of this call still to be handled
  tagsLeft,            \* analog tags of dev still to be handled
  match_config,
  match_previous_dev,
  match_previous_tag,
  subJsonPre_dev,      \* the entry of dev, in pPrevious or about to be added
  subJsonPre_tag,      \* the entry of a tag the pointer points to
  freed,               \* ... which has been deleted since
  valid,
  data_exist,
  payload,             \* what this call sends of each analog tag
  reported,            \* history: what this call was given of each analog tag
  wire,                \* history: what this process last sent of each index
  lost,                \* history: indices whose last value was in a lost payload
  losses               \* history: lost payloads

loop  == <<dev, devicesLeft, tagsLeft>>
flags == <<match_config, match_previous_dev, match_previous_tag, valid>>
pre   == <<subJsonPre_dev, subJsonPre_tag, freed>>
broker == <<wire, lost, losses>>
vars  == <<pc, json_ref, pPrevious, loop, flags, pre, data_exist, payload,
           reported, broker>>

\* Readings: values of some of the indices of a tag.
Readings == UNION {[I -> Values] : I \in SUBSET Indices}
Empty == << >>

\* Mutant of Put: adding an item never replaces the one that is there.
PutFirst(object, key, item) ==
  IF key \in DOMAIN object THEN object ELSE object @@ (key :> item)

\* Objects of cJSON as functions: an item is added or replaced.
Put(object, key, item) ==
  [k \in DOMAIN object \union {key} |-> IF k = key THEN item ELSE object[k]]

Overlay(new, old) ==
  [k \in DOMAIN new \union DOMAIN old |-> IF k \in DOMAIN new THEN new[k] ELSE old[k]]

NoReadings == [d \in Devices |-> [t \in Tags |-> Empty]]
NoIndices == [d \in Devices |-> [t \in Tags |-> {}]]

Abs(n) == IF n < 0 THEN -n ELSE n

\* Mutant of Exceeds: a change of exactly the deadband is not enough.
ExceedsByMore(value, last, cfg) ==
  \/ cfg.span > 0 /\ Abs(value - last) * 100 > cfg.deadband * cfg.span
  \/ cfg.span < 0 /\ Abs(value - last) * 100 < cfg.deadband * cfg.span
  \/ cfg.span = 0 /\ value # last

\* Mutant of Exceeds: the division is guarded, and nothing is sent without a span.
ExceedsGuarded(value, last, cfg) ==
  \/ cfg.span > 0 /\ Abs(value - last) * 100 >= cfg.deadband * cfg.span
  \/ cfg.span < 0 /\ Abs(value - last) * 100 <= cfg.deadband * cfg.span

\* fabs(value - last) / (span_high - span_low) >= deadband / 100, in doubles: a
\* span of zero gives infinity or NaN, and NaN compares false.
Exceeds(value, last, cfg) ==
  \/ cfg.span > 0 /\ Abs(value - last) * 100 >= cfg.deadband * cfg.span
  \/ cfg.span < 0 /\ Abs(value - last) * 100 <= cfg.deadband * cfg.span
  \/ cfg.span = 0 /\ value # last

Init ==
  /\ pc = "idle"
  /\ json_ref = [d \in Devices |-> [t \in Tags |-> Unconfigured]]
  /\ pPrevious = Empty
  /\ dev \in Devices /\ devicesLeft = {} /\ tagsLeft = {}
  /\ match_config = FALSE /\ match_previous_dev = FALSE
  /\ match_previous_tag = FALSE /\ valid = FALSE
  /\ subJsonPre_dev = Empty /\ subJsonPre_tag = Empty /\ freed = FALSE
  /\ data_exist = FALSE
  /\ payload = NoReadings /\ reported = NoReadings /\ wire = NoReadings
  /\ lost = NoIndices /\ losses = 0

-----------------------------------------------------------------------------
\* UploadConfig of another configuration, cached in config.json and read back.
UploadConfig ==
  /\ pc = "idle"
  /\ json_ref' \in [Devices -> [Tags -> TagConfigs \union {Unconfigured}]]
  /\ UNCHANGED <<pc, pPrevious, loop, flags, pre, data_exist, payload,
                 reported, broker>>

\* The local variables of SendDataMessage as it initialises them.
FreshLocals ==
  /\ match_config' = FALSE /\ match_previous_dev' = FALSE
  /\ match_previous_tag' = FALSE /\ valid' = FALSE
  /\ subJsonPre_dev' = Empty /\ subJsonPre_tag' = Empty /\ freed' = FALSE
  /\ data_exist' = FALSE
  /\ payload' = NoReadings /\ reported' = NoReadings

\* SendDataMessage is called with data of some devices.
BeginCall ==
  /\ pc = "idle"
  /\ pc' = "devices"
  /\ devicesLeft' \in SUBSET Devices
  /\ FreshLocals
  /\ UNCHANGED <<json_ref, pPrevious, dev, tagsLeft, broker>>

\* The head of the loop over the devices.  match_previous_tag and
\* subJsonPre_tag keep what the last tag of the last device left in them.
BeginDevice ==
  /\ pc = "devices"
  /\ \E d \in devicesLeft :
       /\ dev' = d
       /\ devicesLeft' = devicesLeft \ {d}
       /\ match_config' = \E t \in Tags : json_ref[d][t] # Unconfigured
       /\ match_previous_dev' = (d \in DOMAIN pPrevious)
       /\ subJsonPre_dev' = IF d \in DOMAIN pPrevious THEN pPrevious[d] ELSE Empty
  /\ pc' = "tags"
  /\ tagsLeft' \in SUBSET Tags
  /\ valid' = FALSE
  /\ UNCHANGED <<json_ref, pPrevious, match_previous_tag, subJsonPre_tag, freed,
                 data_exist, payload, reported, broker>>

-----------------------------------------------------------------------------
(* One analog tag.                                                         *)

\* The configuration of the tag matches: once it does not, no later tag of the
\* device does.
ConfigMatches(t) ==
  match_config /\ json_ref[dev][t] # Unconfigured /\ json_ref[dev][t].deadband # 0

\* The entry of the tag is only looked up if its device was found.
PreviousMatches(t) ==
  IF match_previous_dev THEN t \in DOMAIN subJsonPre_dev ELSE match_previous_tag

\* Mutant of PreviousEntry: the entry of the device for that of the tag.
PreviousEntryOfDevice(t) == IF match_previous_dev THEN subJsonPre_dev ELSE subJsonPre_tag

PreviousEntry(t) ==
  IF ~ match_previous_dev THEN subJsonPre_tag
  ELSE IF t \in DOMAIN subJsonPre_dev THEN subJsonPre_dev[t] ELSE Empty

\* The entry was deleted when the last device replaced it.
Dangling == ~ match_previous_dev /\ freed

\* Mutant of Changed: one change lets the whole array through.
ChangedAsAWhole(t, r, last) ==
  IF \E x \in DOMAIN r : Exceeds(r[x], last[x], json_ref[dev][t]) THEN DOMAIN r ELSE {}

\* The indices of the readings r that are far enough from the entry last.
Changed(t, r, last) ==
  {x \in DOMAIN r : Exceeds(r[x], last[x], json_ref[dev][t])}

\* The value is compared with the one sent before.
Compared(t) == PreviousMatches(t) /\ ConfigMatches(t)

\* The indices the comparison lets through.  Reading a deleted item may yield
\* anything that does not stop the process.
Passed(t, r) ==
  IF ~ Compared(t) THEN {DOMAIN r}
  ELSE IF Dangling THEN SUBSET DOMAIN r
  ELSE {Changed(t, r, PreviousEntry(t))}

\* The comparison dereferences the entry of each index, which may be missing.
Dereferences(t, r) == Dangling \/ ~ (DOMAIN r \subseteq DOMAIN PreviousEntry(t))

\* A plain tag is sent whole once valid is set; an array only as far as it passed.
AnalogTag(t, isArray, r) ==
  \E passed \in Passed(t, r) :
    LET recorded == [x \in passed |-> r[x]]
    IN  /\ valid' = (valid \/ passed # {})
        /\ data_exist' = (data_exist \/ valid')
        /\ payload' =
             IF valid' THEN [payload EXCEPT ![dev][t] = IF isArray THEN recorded ELSE r]
                       ELSE payload
        /\ subJsonPre_dev' =
             IF valid' /\ (PreviousMatches(t) => t \in DOMAIN subJsonPre_dev)
             THEN Put(subJsonPre_dev, t, recorded)
             ELSE subJsonPre_dev
        /\ subJsonPre_tag' = PreviousEntry(t)
        /\ freed' = IF match_previous_dev
                    THEN valid' /\ t \in DOMAIN subJsonPre_dev
                    ELSE freed

Tag ==
  /\ pc = "tags"
  /\ \E t \in tagsLeft, isArray \in BOOLEAN, r \in Readings :
       /\ DOMAIN r # {} /\ (isArray \/ DOMAIN r = {0})
       /\ Compared(t) => Dangling \/ DOMAIN r \subseteq DOMAIN PreviousEntry(t)
       /\ AnalogTag(t, isArray, r)
       /\ match_config' = ConfigMatches(t)
       /\ match_previous_tag' = PreviousMatches(t)
       /\ tagsLeft' = tagsLeft \ {t}
       /\ reported' = [reported EXCEPT ![dev][t] = r]
  /\ UNCHANGED <<pc, json_ref, pPrevious, dev, devicesLeft, match_previous_dev, broker>>

\* subJsonPre_info->valuedouble on NULL or on a deleted item kills the process;
\* the application starts it again, and InitPrevious forgets what was sent.
NullDereference ==
  /\ pc = "tags"
  /\ \E t \in tagsLeft, r \in Readings : r # Empty /\ Compared(t) /\ Dereferences(t, r)
  /\ pc' = "idle"
  /\ devicesLeft' = {} /\ tagsLeft' = {}
  /\ pPrevious' = Empty /\ wire' = NoReadings /\ lost' = NoIndices
  /\ FreshLocals
  /\ UNCHANGED <<json_ref, dev, losses>>

-----------------------------------------------------------------------------
\* The discrete and text tags of the device follow; they are always sent.
OtherTags ==
  /\ pc = "tags" /\ tagsLeft = {}
  /\ data_exist' = TRUE
  /\ UNCHANGED <<pc, json_ref, pPrevious, loop, flags, pre, payload, reported, broker>>

\* The end of a device: its entry is added, or replaced by itself, if anything
\* of it passed.
EndDevice ==
  /\ pc = "tags" /\ tagsLeft = {}
  /\ pc' = "devices"
  /\ pPrevious' = IF valid THEN Put(pPrevious, dev, subJsonPre_dev) ELSE pPrevious
  /\ UNCHANGED <<json_ref, loop, flags, pre, data_exist, payload, reported, broker>>

\* SendData hands the payload to the MQTT client or caches it.
Taken ==
  /\ wire' = [d \in Devices |-> [t \in Tags |-> Overlay(payload[d][t], wire[d][t])]]
  /\ lost' = [d \in Devices |-> [t \in Tags |-> lost[d][t] \ DOMAIN payload[d][t]]]
  /\ UNCHANGED losses

\* The client refuses the payload, or SQLite the INSERT, and it is dropped.
Lost ==
  /\ losses < MaxLosses
  /\ losses' = losses + 1
  /\ lost' = [d \in Devices |-> [t \in Tags |-> lost[d][t] \union DOMAIN payload[d][t]]]
  /\ UNCHANGED wire

\* The payload is returned, and SendData sends it if there is data in it; the
\* local variables go out of scope.
EndCall ==
  /\ pc = "devices" /\ devicesLeft = {}
  /\ pc' = "idle"
  /\ IF data_exist THEN Taken \/ Lost ELSE UNCHANGED broker
  /\ FreshLocals
  /\ UNCHANGED <<json_ref, pPrevious, loop>>

Next ==
  \/ UploadConfig
  \/ BeginCall \/ BeginDevice \/ Tag \/ NullDereference \/ OtherTags
  \/ EndDevice \/ EndCall

Spec == Init /\ [][Next]_vars

-----------------------------------------------------------------------------
(* Properties.                                                             *)

DeviceEntries == UNION {[T -> Readings] : T \in SUBSET Tags}

TypeOK ==
  /\ pc \in {"idle", "devices", "tags"}
  /\ json_ref \in [Devices -> [Tags -> TagConfigs \union {Unconfigured}]]
  /\ DOMAIN pPrevious \subseteq Devices
  /\ \A d \in DOMAIN pPrevious : pPrevious[d] \in DeviceEntries
  /\ dev \in Devices /\ devicesLeft \subseteq Devices /\ tagsLeft \subseteq Tags
  /\ {match_config, match_previous_dev, match_previous_tag, valid, data_exist}
       \subseteq BOOLEAN
  /\ subJsonPre_dev \in DeviceEntries
  /\ subJsonPre_tag \in Readings /\ freed \in BOOLEAN
  /\ {payload, reported, wire} \subseteq [Devices -> [Tags -> Readings]]
  /\ lost \in [Devices -> [Tags -> SUBSET Indices]] /\ losses \in 0..MaxLosses

\* pPrevious is what the broker was last told: between two calls, a value it
\* holds is the last value this process sent of that index of that tag, unless
\* the payload with the last one was lost.  The comparisons of later calls are
\* therefore with what the broker knows, but for the indices of lost payloads.
CacheMatchesWire ==
  pc = "idle" =>
    \A d \in DOMAIN pPrevious : \A t \in DOMAIN pPrevious[d] :
      \A x \in DOMAIN pPrevious[d][t] \ lost[d][t] :
        x \in DOMAIN wire[d][t] /\ pPrevious[d][t][x] = wire[d][t][x]

\* What a deadband is for: the value is the same, or has moved by less than the
\* deadband, a percentage of the span.
Close(value, last, cfg) ==
  value = last \/ Abs(value - last) * 100 < cfg.deadband * cfg.span

\* The broker has been told the value of the index, and the one reported now is
\* close to it.
KnownToBroker(d, t, x) ==
  /\ x \in DOMAIN wire[d][t]
  /\ json_ref[d][t].span >= 0 => Close(reported[d][t][x], wire[d][t][x], json_ref[d][t])

\* The values left out of the payload, but for those whose last value was lost.
Omitted(d, t) == DOMAIN reported[d][t] \ (DOMAIN payload[d][t] \union lost[d][t])

\* A value is left out of the payload only if its index has been sent before (the
\* first value always is) and it is close to the value last sent: whatever the
\* filter compares, and with what, the broker's value is never off by a deadband.
\* Limits in the wrong order, a negative span, are beyond this.
OmittedIsClose ==
  \A d \in Devices, t \in Tags : \A x \in Omitted(d, t) : KnownToBroker(d, t, x)

\* Some value of the device has been sent, or lost, since the process started.
SentBefore(d) == \E t \in Tags : DOMAIN wire[d][t] \union lost[d][t] # {}

\* The same of a device that has sent before: from its second payload on, the
\* flags and pointers that other tags and other devices leave behind do no harm.
KnownIsClose ==
  \A d \in Devices : SentBefore(d) =>
    \A t \in Tags : \A x \in Omitted(d, t) : KnownToBroker(d, t, x)

\* Another tag of the device was sent, and it has no deadband, or this one is a
\* plain tag: match_config, or valid, was still what that tag had made it.
CarriedAlong(d, t) ==
  \E u \in Tags \ {t} :
    /\ DOMAIN payload[d][u] # {}
    /\ json_ref[d][u].deadband = 0 \/ DOMAIN payload[d][t] = {0}

\* A value is sent only for a reason: it is the first one, the last one was lost,
\* its tag has no deadband, it is not close to the last one, or another tag of its
\* device carries it along.
SentForAReason ==
  \A d \in Devices, t \in Tags : \A x \in DOMAIN payload[d][t] :
    \/ x \notin DOMAIN wire[d][t]
    \/ x \in lost[d][t]
    \/ json_ref[d][t].deadband <= 0
    \/ ~ Close(payload[d][t][x], wire[d][t][x], json_ref[d][t])
    \/ CarriedAlong(d, t)

\* The previous data of a tag covers the indices that were sent of it.
PreviousIsComplete ==
  pc = "idle" =>
    \A d \in DOMAIN pPrevious : \A t \in DOMAIN pPrevious[d] :
      DOMAIN wire[d][t] \subseteq DOMAIN pPrevious[d][t]

(***************************************************************************)
(* The inductive invariant behind CacheMatchesWire and KnownIsClose.       *)
(***************************************************************************)

\* The entry of a tag is what the broker will have been told if this payload gets
\* there: the value in the payload, or else the one on the wire, if it got there.
Agrees(d, t, entry) ==
  \A x \in DOMAIN entry :
    IF x \in DOMAIN payload[d][t] THEN entry[x] = payload[d][t][x]
    ELSE x \in lost[d][t] \/ (x \in DOMAIN wire[d][t] /\ entry[x] = wire[d][t][x])

\* In the loop over the tags of dev, what is kept of dev is in subJsonPre_dev; the
\* entry in pPrevious is out of date once anything of dev has passed.
CacheInv ==
  /\ \A d \in DOMAIN pPrevious : \A t \in DOMAIN pPrevious[d] :
       (pc = "tags" /\ d = dev /\ valid) \/ Agrees(d, t, pPrevious[d][t])
  /\ pc = "tags" => \A t \in DOMAIN subJsonPre_dev : Agrees(dev, t, subJsonPre_dev[t])

\* A payload that is not sent is empty.
PayloadInv ==
  pc = "idle" \/ ~ data_exist =>
    \A d \in Devices, t \in Tags : DOMAIN payload[d][t] = {}

\* Tags this call has still to handle.
Pending(d, t) ==
  pc = "idle" \/ d \in devicesLeft \/ (pc = "tags" /\ d = dev /\ t \in tagsLeft)

\* Nothing is known yet of a tag that is still to be handled.
PendingInv ==
  /\ \A d \in Devices, t \in Tags :
       Pending(d, t) => DOMAIN payload[d][t] = {} /\ DOMAIN reported[d][t] = {}
  /\ pc = "tags" => dev \notin devicesLeft

\* What the flags of the device being handled say of its tags handled so far.
FlagsInv ==
  pc = "tags" =>
    /\ match_previous_dev <=> dev \in DOMAIN pPrevious
    /\ valid => \E u \in Tags \ tagsLeft : DOMAIN payload[dev][u] # {}
    /\ match_config \/ (\A u \in Tags : json_ref[dev][u].deadband = 0)
         \/ (\E u \in Tags \ tagsLeft :
               DOMAIN payload[dev][u] # {} /\ json_ref[dev][u].deadband = 0)

\* A device has an entry once something of it has passed, at its end at the latest.
DeviceEntryInv ==
  \A d \in Devices :
    /\ SentBefore(d) => d \in DOMAIN pPrevious
    /\ \A t \in Tags : DOMAIN payload[d][t] # {} =>
         d \in DOMAIN pPrevious \/ (pc = "tags" /\ d = dev /\ valid)

DeadbandInv ==
  CacheInv /\ PayloadInv /\ PendingInv /\ FlagsInv /\ DeviceEntryInv /\ KnownIsClose

(***************************************************************************)
(* What OmittedIsClose and SentForAReason rest on besides, with one        *)
(* device: no flag is left from another one.                               *)
(***************************************************************************)

NotStale ==
  /\ (pc = "idle" \/ (pc = "devices" /\ devicesLeft # {})) => ~ match_previous_tag
  /\ pc = "tags" =>
       devicesLeft = {} /\ (match_previous_tag => match_previous_dev)

\* A tag that was sent has an entry, at the end of its device at the latest.
EntryInv ==
  \A d \in Devices, t \in Tags :
    /\ DOMAIN wire[d][t] # {} => d \in DOMAIN pPrevious /\ t \in DOMAIN pPrevious[d]
    /\ DOMAIN payload[d][t] # {} =>
         IF pc = "tags" THEN valid /\ t \in DOMAIN subJsonPre_dev
                        ELSE d \in DOMAIN pPrevious /\ t \in DOMAIN pPrevious[d]
    /\ pc = "tags" /\ d \in DOMAIN pPrevious =>
         DOMAIN pPrevious[d] \subseteq DOMAIN subJsonPre_dev

OneDeviceInv == DeadbandInv /\ NotStale /\ EntryInv /\ OmittedIsClose /\ SentForAReason
=============================================================================
