--------------------------- MODULE Deadband_proofs ---------------------------
(***************************************************************************)
(* Proofs about module Deadband: for any devices, tags, indices, values    *)
(* and configurations, and any number of lost payloads.                    *)
(***************************************************************************)
EXTENDS Deadband, TLAPS

-----------------------------------------------------------------------------
(* Objects.                                                                *)

\* A reading is a value for each index it has; any such function is one.
LEMMA ReadingType ==
  /\ Empty \in Readings /\ DOMAIN Empty = {}
  /\ \A r \in Readings : /\ DOMAIN r \subseteq Indices
                         /\ \A x \in DOMAIN r : r[x] \in Values
  /\ \A I \in SUBSET Indices : \A r \in [I -> Values] : r \in Readings
<1>1. DOMAIN Empty = {}
  BY DEF Empty
<1>2. Empty \in [{} -> Values]
  BY <1>1 DEF Empty
<1>. QED  BY <1>1, <1>2 DEF Readings

\* The same of the entry of a device.
LEMMA DeviceEntryType ==
  /\ Empty \in DeviceEntries
  /\ \A e \in DeviceEntries : /\ DOMAIN e \subseteq Tags
                              /\ \A t \in DOMAIN e : e[t] \in Readings
  /\ \A T \in SUBSET Tags : \A e \in [T -> Readings] : e \in DeviceEntries
<1>1. DOMAIN Empty = {}
  BY DEF Empty
<1>2. Empty \in [{} -> Readings]
  BY <1>1 DEF Empty
<1>. QED  BY <1>2 DEF DeviceEntries

\* An item of an object is the one that was put there last.
LEMMA PutItem ==
  ASSUME NEW object, NEW key, NEW item
  PROVE  /\ DOMAIN Put(object, key, item) = DOMAIN object \union {key}
         /\ Put(object, key, item)[key] = item
         /\ \A k \in DOMAIN object \ {key} : Put(object, key, item)[k] = object[k]
BY DEF Put

\* The readings of both, the new ones where there are any.
LEMMA OverlayReadings ==
  ASSUME NEW new \in Readings, NEW old \in Readings
  PROVE  /\ Overlay(new, old) \in Readings
         /\ DOMAIN Overlay(new, old) = DOMAIN new \union DOMAIN old
         /\ \A x \in DOMAIN new : Overlay(new, old)[x] = new[x]
         /\ \A x \in DOMAIN old \ DOMAIN new : Overlay(new, old)[x] = old[x]
<1>1. Overlay(new, old) \in [DOMAIN new \union DOMAIN old -> Values]
  BY ReadingType DEF Overlay
<1>2. Overlay(new, old) \in Readings
  BY <1>1, ReadingType
<1>. QED  BY <1>2 DEF Overlay

-----------------------------------------------------------------------------
(* Types.                                                                  *)

\* Without data there is no reading and no index.
LEMMA NothingSent ==
  /\ NoReadings \in [Devices -> [Tags -> Readings]]
  /\ NoIndices \in [Devices -> [Tags -> SUBSET Indices]]
  /\ \A d \in Devices, t \in Tags : NoReadings[d][t] = Empty /\ DOMAIN NoReadings[d][t] = {}
BY ReadingType DEF NoReadings, NoIndices

\* The local variables have their types after they are initialised.
LEMMA FreshTypes ==
  ASSUME FreshLocals
  PROVE  /\ {match_config', match_previous_dev', match_previous_tag', valid', data_exist'}
              \subseteq BOOLEAN
         /\ subJsonPre_dev' \in DeviceEntries /\ subJsonPre_tag' \in Readings
         /\ freed' \in BOOLEAN
         /\ {payload', reported'} \subseteq [Devices -> [Tags -> Readings]]
<1>1. /\ match_config' = FALSE /\ match_previous_dev' = FALSE
      /\ match_previous_tag' = FALSE /\ valid' = FALSE /\ data_exist' = FALSE
  BY DEF FreshLocals
<1>2. /\ subJsonPre_dev' = Empty /\ subJsonPre_tag' = Empty /\ freed' = FALSE
      /\ payload' = NoReadings /\ reported' = NoReadings
  BY DEF FreshLocals
<1>3. /\ subJsonPre_dev' \in DeviceEntries /\ subJsonPre_tag' \in Readings
      /\ {payload', reported'} \subseteq [Devices -> [Tags -> Readings]]
  BY <1>2, ReadingType, DeviceEntryType, NothingSent
<1>. QED  BY <1>1, <1>2, <1>3

\* Replacing the reading of one tag gives a reading of every tag.
LEMMA ReplacedType ==
  ASSUME NEW f \in [Devices -> [Tags -> Readings]], NEW d \in Devices, NEW t \in Tags,
         NEW r \in Readings
  PROVE  [f EXCEPT ![d][t] = r] \in [Devices -> [Tags -> Readings]]
OBVIOUS

\* What is sent, was given and is on the wire of a tag are readings.
LEMMA TagReadings ==
  ASSUME TypeOK, NEW d \in Devices, NEW t \in Tags
  PROVE  /\ payload[d][t] \in Readings /\ reported[d][t] \in Readings
         /\ wire[d][t] \in Readings /\ lost[d][t] \subseteq Indices
         /\ Overlay(payload[d][t], wire[d][t]) \in Readings
<1>1. /\ payload[d][t] \in Readings /\ reported[d][t] \in Readings
      /\ wire[d][t] \in Readings /\ lost[d][t] \subseteq Indices
  BY DEF TypeOK
<1>. QED  BY <1>1, OverlayReadings

\* The two tests of a tag are Boolean.
LEMMA MatchesBoolean ==
  ASSUME TypeOK, NEW t \in Tags
  PROVE  ConfigMatches(t) \in BOOLEAN /\ PreviousMatches(t) \in BOOLEAN
<1>1. match_config \in BOOLEAN /\ match_previous_tag \in BOOLEAN
  BY DEF TypeOK
<1>2. ConfigMatches(t) \in BOOLEAN
  BY <1>1 DEF ConfigMatches
<1>3. CASE match_previous_dev
  BY <1>2, <1>3 DEF PreviousMatches
<1>4. CASE ~ match_previous_dev
  BY <1>1, <1>2, <1>4 DEF PreviousMatches
<1>. QED  BY <1>3, <1>4

\* The entry a comparison uses is a reading.
LEMMA PreviousEntryType ==
  ASSUME TypeOK, NEW t \in Tags
  PROVE  PreviousEntry(t) \in Readings
BY ReadingType, DeviceEntryType DEF PreviousEntry, TypeOK

\* The indices that pass are indices of the reading.
LEMMA PassedIndices ==
  ASSUME NEW t, NEW r, NEW passed \in Passed(t, r)
  PROVE  passed \subseteq DOMAIN r
BY DEF Passed, Changed

\* What is recorded of a reading is a reading.
LEMMA RecordedType ==
  ASSUME NEW r \in Readings, NEW passed \in SUBSET DOMAIN r
  PROVE  [x \in passed |-> r[x]] \in Readings
BY ReadingType

\* What one tag does, if it has the reading r of which the indices passed are
\* recorded, but for what becomes of subJsonPre_tag.
TagDoes(t, r, passed) ==
  LET recorded == [x \in passed |-> r[x]]
  IN  /\ passed \in Passed(t, r)
      /\ Compared(t) => Dangling \/ DOMAIN r \subseteq DOMAIN PreviousEntry(t)
      /\ DOMAIN r # {}
      /\ reported' = [reported EXCEPT ![dev][t] = r]
      /\ match_config' = ConfigMatches(t) /\ match_previous_tag' = PreviousMatches(t)
      /\ tagsLeft' = tagsLeft \ {t}
      /\ UNCHANGED <<pc, json_ref, pPrevious, dev, devicesLeft, match_previous_dev, wire, lost>>
      /\ valid' = (valid \/ passed # {})
      /\ data_exist' = (data_exist \/ valid')
      /\ \/ ~ valid' /\ UNCHANGED <<payload, subJsonPre_dev>>
         \/ /\ valid'
            /\ \/ payload' = [payload EXCEPT ![dev][t] = r] /\ DOMAIN r = {0}
               \/ payload' = [payload EXCEPT ![dev][t] = recorded]
            /\ \/ subJsonPre_dev' = Put(subJsonPre_dev, t, recorded)
               \/ /\ UNCHANGED subJsonPre_dev
                  /\ PreviousMatches(t) /\ t \notin DOMAIN subJsonPre_dev

LEMMA TagEffect ==
  ASSUME Tag
  PROVE  \E t \in tagsLeft, r \in Readings : \E passed \in SUBSET DOMAIN r :
           TagDoes(t, r, passed)
<1>1. PICK t \in tagsLeft, isArray \in BOOLEAN, r \in Readings :
        /\ DOMAIN r # {} /\ (isArray \/ DOMAIN r = {0})
        /\ Compared(t) => Dangling \/ DOMAIN r \subseteq DOMAIN PreviousEntry(t)
        /\ AnalogTag(t, isArray, r)
        /\ match_config' = ConfigMatches(t) /\ match_previous_tag' = PreviousMatches(t)
        /\ tagsLeft' = tagsLeft \ {t}
        /\ reported' = [reported EXCEPT ![dev][t] = r]
  BY DEF Tag
<1>2. PICK passed \in Passed(t, r) :
        LET recorded == [x \in passed |-> r[x]]
        IN  /\ valid' = (valid \/ passed # {})
            /\ data_exist' = (data_exist \/ valid')
            /\ payload' =
                 IF valid' THEN [payload EXCEPT ![dev][t] = IF isArray THEN recorded ELSE r]
                           ELSE payload
            /\ subJsonPre_dev' =
                 IF valid' /\ (PreviousMatches(t) => t \in DOMAIN subJsonPre_dev)
                 THEN Put(subJsonPre_dev, t, recorded)
                 ELSE subJsonPre_dev
  BY <1>1 DEF AnalogTag
<1>3. passed \in SUBSET DOMAIN r
  BY PassedIndices
<1>4. UNCHANGED <<pc, json_ref, pPrevious, dev, devicesLeft, match_previous_dev, wire, lost>>
  BY DEF Tag, broker
<1>5. TagDoes(t, r, passed)
  BY <1>1, <1>2, <1>4 DEF TagDoes
<1>. QED  BY <1>3, <1>5

LEMMA InitTypeOK == Init => TypeOK
<1>. SUFFICES ASSUME Init
              PROVE  TypeOK
  OBVIOUS
<1>1. /\ {payload, reported, wire} \subseteq [Devices -> [Tags -> Readings]]
      /\ lost \in [Devices -> [Tags -> SUBSET Indices]]
  BY NothingSent DEF Init
<1>2. json_ref \in [Devices -> [Tags -> TagConfigs \union {Unconfigured}]]
  BY DEF Init
<1>3. /\ DOMAIN pPrevious = {} /\ subJsonPre_dev \in DeviceEntries
      /\ subJsonPre_tag \in Readings
  BY ReadingType, DeviceEntryType DEF Init
<1>4. /\ {match_config, match_previous_dev, match_previous_tag, valid, data_exist}
           \subseteq BOOLEAN
      /\ freed \in BOOLEAN
  BY DEF Init
<1>5. /\ pc = "idle" /\ dev \in Devices /\ devicesLeft = {} /\ tagsLeft = {}
      /\ losses \in 0..MaxLosses
  BY BoundAssumption DEF Init
<1>. QED  BY <1>1, <1>2, <1>3, <1>4, <1>5 DEF TypeOK

\* Every step keeps the types.
LEMMA NextTypeOK == TypeOK /\ [Next]_vars => TypeOK'
<1>. SUFFICES ASSUME TypeOK, [Next]_vars
              PROVE  TypeOK'
  OBVIOUS
<1>. USE DEF TypeOK, loop, flags, pre, broker
<1>1. CASE UploadConfig
  BY <1>1 DEF UploadConfig
<1>2. CASE BeginCall
  BY <1>2, FreshTypes DEF BeginCall
<1>3. CASE BeginDevice
  <2>1. PICK d \in devicesLeft :
          /\ dev' = d
          /\ devicesLeft' = devicesLeft \ {d}
          /\ match_config' = \E t \in Tags : json_ref[d][t] # Unconfigured
          /\ match_previous_dev' = (d \in DOMAIN pPrevious)
          /\ subJsonPre_dev' = IF d \in DOMAIN pPrevious THEN pPrevious[d] ELSE Empty
    BY <1>3 DEF BeginDevice
  <2>2. match_config' \in BOOLEAN /\ match_previous_dev' \in BOOLEAN
    <3>1. /\ match_config' = TRUE \/ match_config' = FALSE
          /\ match_previous_dev' = TRUE \/ match_previous_dev' = FALSE
      BY <2>1
    <3>. QED  BY <3>1
  <2>3. subJsonPre_dev' \in DeviceEntries
    BY <2>1, DeviceEntryType
  <2>4. dev' \in Devices /\ devicesLeft' \subseteq Devices
    BY <2>1
  <2>. QED  BY <1>3, <2>2, <2>3, <2>4 DEF BeginDevice
<1>4. CASE Tag
  <2>1. PICK t \in tagsLeft, r \in Readings : \E passed \in SUBSET DOMAIN r :
                TagDoes(t, r, passed)
    BY <1>4, TagEffect
  <2>2. PICK passed \in SUBSET DOMAIN r : TagDoes(t, r, passed)
    BY <2>1
  <2>. DEFINE recorded == [x \in passed |-> r[x]]
  <2>3. recorded \in Readings
    BY RecordedType
  <2>4. {payload', reported'} \subseteq [Devices -> [Tags -> Readings]]
    <3>1. /\ payload' \in {payload, [payload EXCEPT ![dev][t] = r],
                            [payload EXCEPT ![dev][t] = recorded]}
          /\ reported' = [reported EXCEPT ![dev][t] = r]
      BY <2>2 DEF TagDoes
    <3>2. /\ payload \in [Devices -> [Tags -> Readings]] /\ dev \in Devices /\ t \in Tags
          /\ reported \in [Devices -> [Tags -> Readings]]
      OBVIOUS
    <3>3. /\ [payload EXCEPT ![dev][t] = r] \in [Devices -> [Tags -> Readings]]
          /\ [payload EXCEPT ![dev][t] = recorded] \in [Devices -> [Tags -> Readings]]
          /\ [reported EXCEPT ![dev][t] = r] \in [Devices -> [Tags -> Readings]]
      BY <2>3, <3>2, ReplacedType
    <3>. HIDE DEF recorded
    <3>. QED  BY <3>1, <3>2, <3>3
  <2>5. subJsonPre_dev' \in DeviceEntries
    <3>1. ASSUME NEW item \in Readings
          PROVE  Put(subJsonPre_dev, t, item) \in DeviceEntries
      <4>1. Put(subJsonPre_dev, t, item) \in [DOMAIN subJsonPre_dev \union {t} -> Readings]
        BY DeviceEntryType DEF Put
      <4>. QED  BY <4>1, DeviceEntryType
    <3>. QED  BY <2>2, <2>3, <3>1 DEF TagDoes
  <2>6. valid' \in BOOLEAN /\ data_exist' \in BOOLEAN
    BY <2>2, Zenon DEF TagDoes
  <2>7. /\ UNCHANGED <<pc, json_ref, pPrevious, dev, devicesLeft, match_previous_dev, broker>>
        /\ tagsLeft' \subseteq Tags
        /\ \E u \in Tags : /\ match_config' = ConfigMatches(u)
                           /\ match_previous_tag' = PreviousMatches(u)
                           /\ subJsonPre_tag' = PreviousEntry(u)
                           /\ freed' = IF match_previous_dev
                                       THEN valid' /\ u \in DOMAIN subJsonPre_dev
                                       ELSE freed
    BY <1>4 DEF Tag, AnalogTag
  <2>8. match_config' \in BOOLEAN /\ match_previous_tag' \in BOOLEAN /\ freed' \in BOOLEAN
    <3>1. match_config' \in BOOLEAN /\ match_previous_tag' \in BOOLEAN
      BY <2>7, MatchesBoolean, Zenon
    <3>2. freed' \in BOOLEAN
      BY <2>6, <2>7, Zenon
    <3>. QED  BY <3>1, <3>2
  <2>9. subJsonPre_tag' \in Readings
    BY <2>7, PreviousEntryType
  <2>. QED  BY <2>4, <2>5, <2>6, <2>7, <2>8, <2>9
<1>5. CASE NullDereference
  <2>1. /\ DOMAIN pPrevious' = {} /\ wire' \in [Devices -> [Tags -> Readings]]
        /\ lost' \in [Devices -> [Tags -> SUBSET Indices]]
    BY <1>5, NothingSent, ReadingType DEF NullDereference
  <2>. QED  BY <1>5, <2>1, FreshTypes DEF NullDereference
<1>6. CASE OtherTags
  BY <1>6 DEF OtherTags
<1>7. CASE EndDevice
  <2>1. CASE valid
    <3>1. pPrevious' = Put(pPrevious, dev, subJsonPre_dev)
      BY <1>7, <2>1 DEF EndDevice
    <3>2. /\ DOMAIN pPrevious' \subseteq Devices
          /\ \A d \in DOMAIN pPrevious' : pPrevious'[d] \in DeviceEntries
      <4>1. /\ DOMAIN pPrevious' = DOMAIN pPrevious \union {dev}
            /\ pPrevious'[dev] = subJsonPre_dev
            /\ \A d \in DOMAIN pPrevious \ {dev} : pPrevious'[d] = pPrevious[d]
        BY <3>1 DEF Put
      <4>. QED  BY <4>1
    <3>. QED  BY <1>7, <3>2 DEF EndDevice
  <2>2. CASE ~ valid
    BY <1>7, <2>2 DEF EndDevice
  <2>. QED  BY <2>1, <2>2
<1>8. CASE EndCall
  <2>1. /\ wire' \in [Devices -> [Tags -> Readings]]
        /\ lost' \in [Devices -> [Tags -> SUBSET Indices]] /\ losses' \in 0..MaxLosses
    <3>1. CASE Taken
      <4>1. wire' \in [Devices -> [Tags -> Readings]]
        <5>1. \A d \in Devices, t \in Tags : Overlay(payload[d][t], wire[d][t]) \in Readings
          BY TagReadings
        <5>. QED  BY <3>1, <5>1 DEF Taken
      <4>. QED  BY <3>1, <4>1 DEF Taken
    <3>2. CASE Lost
      <4>1. \A d \in Devices, t \in Tags : DOMAIN payload[d][t] \subseteq Indices
        BY ReadingType
      <4>. QED  BY <3>2, <4>1, BoundAssumption DEF Lost
    <3>. QED  BY <1>8, <3>1, <3>2 DEF EndCall
  <2>. QED  BY <1>8, <2>1, FreshTypes DEF EndCall
<1>9. CASE UNCHANGED vars
  BY <1>9 DEF vars
<1>. QED  BY <1>1, <1>2, <1>3, <1>4, <1>5, <1>6, <1>7, <1>8, <1>9 DEF Next

\* Type correctness, for any devices, tags and indices.
THEOREM TypeCorrect == Spec => []TypeOK
<1>. QED  BY InitTypeOK, NextTypeOK, PTL DEF Spec

-----------------------------------------------------------------------------
(* The cache and the wire.                                                 *)

\* The entries kept of a device are about its tags.
LEMMA EntryTypes ==
  ASSUME TypeOK
  PROVE  /\ dev \in Devices
         /\ \A d \in DOMAIN pPrevious : d \in Devices /\ DOMAIN pPrevious[d] \subseteq Tags
         /\ DOMAIN subJsonPre_dev \subseteq Tags
BY DeviceEntryType DEF TypeOK

LEMMA InitDeadbandInv == Init => DeadbandInv
<1>. SUFFICES ASSUME Init
              PROVE  DeadbandInv
  OBVIOUS
<1>1. DOMAIN pPrevious = {} /\ pc = "idle"
  BY ReadingType DEF Init
<1>2. \A d \in Devices, t \in Tags : /\ DOMAIN payload[d][t] = {}
                                     /\ DOMAIN reported[d][t] = {}
                                     /\ DOMAIN wire[d][t] = {} /\ lost[d][t] = {}
  BY NothingSent DEF Init, NoIndices
<1>3. CacheInv /\ PayloadInv /\ PendingInv /\ FlagsInv
  BY <1>1, <1>2 DEF CacheInv, PayloadInv, PendingInv, FlagsInv
<1>4. DeviceEntryInv /\ KnownIsClose
  BY <1>1, <1>2 DEF DeviceEntryInv, KnownIsClose, SentBefore
<1>. QED  BY <1>3, <1>4 DEF DeadbandInv

\* Every step that puts something into the payload makes it one that is sent.
LEMMA NextPayloadInv == TypeOK /\ PayloadInv /\ [Next]_vars => PayloadInv'
<1>. SUFFICES ASSUME TypeOK, PayloadInv, [Next]_vars
              PROVE  PayloadInv'
  OBVIOUS
<1>. USE DEF PayloadInv, loop, flags, pre, broker
<1>1. ASSUME FreshLocals
      PROVE  PayloadInv'
  BY <1>1, NothingSent DEF FreshLocals
<1>2. CASE UploadConfig \/ BeginDevice
  BY <1>2 DEF UploadConfig, BeginDevice
<1>3. CASE BeginCall \/ NullDereference \/ EndCall
  BY <1>1, <1>3 DEF BeginCall, NullDereference, EndCall
<1>4. CASE Tag
  <2>1. PICK t, r, passed : TagDoes(t, r, passed)
    BY <1>4, TagEffect
  <2>2. pc = "tags" /\ pc' = "tags"
    BY <1>4 DEF Tag
  <2>. QED  BY <2>1, <2>2 DEF TagDoes
<1>5. CASE OtherTags \/ EndDevice
  BY <1>5 DEF OtherTags, EndDevice
<1>6. CASE UNCHANGED vars
  BY <1>6 DEF vars
<1>. QED  BY <1>2, <1>3, <1>4, <1>5, <1>6 DEF Next

\* A tag leaves its own entry, and those of the other tags and devices, in
\* agreement with the payload.
LEMMA TagAgrees ==
  ASSUME TypeOK, CacheInv, NEW t \in Tags, NEW r \in Readings,
         NEW passed \in SUBSET DOMAIN r, TagDoes(t, r, passed),
         pc = "tags", pc' = "tags", UNCHANGED <<pPrevious, dev, wire, lost>>
  PROVE  CacheInv'
<1>. DEFINE recorded == [x \in passed |-> r[x]]
<1>0. /\ payload \in [Devices -> [Tags -> Readings]] /\ valid \in BOOLEAN
      /\ dev \in Devices
  BY DEF TypeOK
<1>1. CASE ~ valid'
  <2>1. ~ valid /\ UNCHANGED <<payload, subJsonPre_dev>>
    BY <1>1 DEF TagDoes
  <2>. QED  BY <1>1, <2>1 DEF CacheInv, Agrees
<1>2. CASE valid'
  <2>1. /\ \A d \in Devices, u \in Tags :
             d # dev \/ u # t => payload'[d][u] = payload[d][u]
        /\ payload'[dev][t] \in {r, recorded}
    BY <1>0, <1>2 DEF TagDoes
  <2>2. ASSUME NEW d \in DOMAIN pPrevious, NEW u \in DOMAIN pPrevious[d], d # dev
        PROVE  Agrees(d, u, pPrevious[d][u])'
    <3>1. Agrees(d, u, pPrevious[d][u])
      BY <2>2 DEF CacheInv
    <3>2. payload'[d][u] = payload[d][u]
      BY <2>1, <2>2, EntryTypes
    <3>. QED  BY <3>1, <3>2 DEF Agrees
  <2>3. ASSUME NEW u \in DOMAIN subJsonPre_dev'
        PROVE  Agrees(dev, u, subJsonPre_dev[u])'
    <3>1. CASE u = t
      <4>1. subJsonPre_dev'[t] = recorded
        BY <1>2, <2>3, <3>1 DEF TagDoes, Put
      <4>2. \A x \in passed : x \in DOMAIN payload'[dev][t] /\ payload'[dev][t][x] = r[x]
        BY <2>1
      <4>. QED  BY <3>1, <4>1, <4>2 DEF Agrees
    <3>2. CASE u # t
      <4>1. u \in DOMAIN subJsonPre_dev /\ subJsonPre_dev'[u] = subJsonPre_dev[u]
        BY <1>2, <2>3, <3>2 DEF TagDoes, Put
      <4>2. Agrees(dev, u, subJsonPre_dev[u])
        BY <4>1 DEF CacheInv
      <4>3. payload'[dev][u] = payload[dev][u]
        BY <1>0, <2>1, <3>2, <4>1, EntryTypes
      <4>. QED  BY <4>1, <4>2, <4>3 DEF Agrees
    <3>. QED  BY <3>1, <3>2
  <2>. QED  BY <1>2, <2>2, <2>3 DEF CacheInv
<1>. QED  BY <1>1, <1>2

\* The end of a call makes true what the entries say of the wire, or forgets it.
LEMMA EndCallAgrees ==
  ASSUME TypeOK, PayloadInv, EndCall,
         NEW d \in Devices, NEW t \in Tags, NEW entry, Agrees(d, t, entry),
         NEW x \in DOMAIN entry
  PROVE  x \in lost'[d][t] \/ (x \in DOMAIN wire'[d][t] /\ entry[x] = wire'[d][t][x])
<1>0. /\ payload[d][t] \in Readings /\ wire[d][t] \in Readings
      /\ lost \in [Devices -> [Tags -> SUBSET Indices]]
  BY TagReadings DEF TypeOK
<1>1. CASE Taken
  <2>1. /\ wire'[d][t] = Overlay(payload[d][t], wire[d][t])
        /\ lost'[d][t] = lost[d][t] \ DOMAIN payload[d][t]
    BY <1>1 DEF Taken
  <2>2. /\ DOMAIN wire'[d][t] = DOMAIN payload[d][t] \union DOMAIN wire[d][t]
        /\ \A y \in DOMAIN payload[d][t] : wire'[d][t][y] = payload[d][t][y]
        /\ \A y \in DOMAIN wire[d][t] \ DOMAIN payload[d][t] : wire'[d][t][y] = wire[d][t][y]
    <3>. DEFINE new == payload[d][t]
                old == wire[d][t]
    <3>1. new \in Readings /\ old \in Readings /\ wire'[d][t] = Overlay(new, old)
      BY <1>0, <2>1
    <3>. HIDE DEF new, old
    <3>2. /\ DOMAIN Overlay(new, old) = DOMAIN new \union DOMAIN old
          /\ \A y \in DOMAIN new : Overlay(new, old)[y] = new[y]
          /\ \A y \in DOMAIN old \ DOMAIN new : Overlay(new, old)[y] = old[y]
      BY <3>1, OverlayReadings
    <3>3. /\ DOMAIN wire'[d][t] = DOMAIN new \union DOMAIN old
          /\ \A y \in DOMAIN new : wire'[d][t][y] = new[y]
          /\ \A y \in DOMAIN old \ DOMAIN new : wire'[d][t][y] = old[y]
      BY <3>1, <3>2
    <3>. QED  BY <3>3 DEF new, old
  <2>. QED  BY <2>1, <2>2 DEF Agrees
<1>2. CASE Lost
  <2>1. /\ wire'[d][t] = wire[d][t]
        /\ lost'[d][t] = lost[d][t] \union DOMAIN payload[d][t]
    BY <1>2 DEF Lost
  <2>. QED  BY <2>1 DEF Agrees
<1>3. CASE ~ data_exist /\ UNCHANGED <<wire, lost>>
  <2>1. DOMAIN payload[d][t] = {}
    BY <1>3 DEF PayloadInv
  <2>. QED  BY <1>3, <2>1 DEF Agrees
<1>. QED  BY <1>1, <1>2, <1>3 DEF EndCall, broker

\* Every step keeps the entries in agreement with what the broker will be told.
LEMMA NextCacheInv == TypeOK /\ CacheInv /\ PayloadInv /\ [Next]_vars => CacheInv'
<1>. SUFFICES ASSUME TypeOK, CacheInv, PayloadInv, [Next]_vars
              PROVE  CacheInv'
  OBVIOUS
<1>. USE DEF loop, flags, pre, broker
<1>1. CASE UploadConfig
  BY <1>1 DEF UploadConfig, CacheInv, Agrees
<1>2. CASE BeginCall
  <2>1. \A d \in Devices, t \in Tags : payload'[d][t] = Empty /\ DOMAIN payload[d][t] = {}
    BY <1>2, NothingSent DEF BeginCall, FreshLocals, PayloadInv
  <2>2. /\ pc = "idle" /\ pc' = "devices" /\ UNCHANGED <<pPrevious, wire, lost>>
    BY <1>2 DEF BeginCall
  <2>3. ASSUME NEW d \in DOMAIN pPrevious, NEW t \in DOMAIN pPrevious[d]
        PROVE  Agrees(d, t, pPrevious[d][t])'
    <3>1. Agrees(d, t, pPrevious[d][t])
      BY <2>2 DEF CacheInv
    <3>2. DOMAIN payload'[d][t] = {} /\ DOMAIN payload[d][t] = {}
      BY <2>1, EntryTypes, ReadingType
    <3>. QED  BY <2>2, <3>1, <3>2 DEF Agrees
  <2>. QED  BY <2>2, <2>3 DEF CacheInv
<1>3. CASE BeginDevice
  <2>1. /\ pc = "devices" /\ pc' = "tags" /\ valid' = FALSE
        /\ UNCHANGED <<pPrevious, payload, wire, lost>>
        /\ subJsonPre_dev' = IF dev' \in DOMAIN pPrevious THEN pPrevious[dev'] ELSE Empty
    BY <1>3 DEF BeginDevice
  <2>2. \A d \in DOMAIN pPrevious : \A t \in DOMAIN pPrevious[d] :
          Agrees(d, t, pPrevious[d][t])
    BY <2>1 DEF CacheInv
  <2>3. ASSUME NEW t \in DOMAIN subJsonPre_dev'
        PROVE  dev' \in DOMAIN pPrevious /\ subJsonPre_dev' = pPrevious[dev']
    BY <2>1, <2>3, ReadingType
  <2>. QED  BY <2>1, <2>2, <2>3 DEF CacheInv, Agrees
<1>4. CASE Tag
  <2>1. PICK t \in tagsLeft, r \in Readings : \E passed \in SUBSET DOMAIN r :
                TagDoes(t, r, passed)
    BY <1>4, TagEffect
  <2>2. PICK passed \in SUBSET DOMAIN r : TagDoes(t, r, passed)
    BY <2>1
  <2>3. t \in Tags /\ pc = "tags" /\ pc' = "tags" /\ UNCHANGED <<pPrevious, dev, wire, lost>>
    BY <1>4 DEF Tag, TypeOK
  <2>. QED  BY <2>2, <2>3, TagAgrees
<1>5. CASE NullDereference
  <2>1. DOMAIN pPrevious' = {} /\ pc' = "idle"
    BY <1>5, ReadingType DEF NullDereference
  <2>. QED  BY <2>1 DEF CacheInv
<1>6. CASE OtherTags
  BY <1>6 DEF OtherTags, CacheInv, Agrees
<1>7. CASE EndDevice
  <2>1. /\ pc = "tags" /\ pc' = "devices" /\ UNCHANGED <<payload, wire, lost>>
    BY <1>7 DEF EndDevice
  <2>2. ASSUME NEW d \in DOMAIN pPrevious', NEW t \in DOMAIN pPrevious'[d]
        PROVE  Agrees(d, t, pPrevious'[d][t])
    <3>1. CASE valid /\ d = dev
      <4>1. pPrevious'[d] = subJsonPre_dev
        BY <1>7, <3>1 DEF EndDevice, Put
      <4>. QED  BY <2>1, <2>2, <3>1, <4>1 DEF CacheInv
    <3>2. CASE ~ (valid /\ d = dev)
      <4>1. d \in DOMAIN pPrevious /\ pPrevious'[d] = pPrevious[d]
        BY <1>7, <2>2, <3>2 DEF EndDevice, Put
      <4>. QED  BY <2>1, <2>2, <3>2, <4>1 DEF CacheInv
    <3>. QED  BY <3>1, <3>2
  <2>. QED  BY <2>1, <2>2 DEF CacheInv, Agrees
<1>8. CASE EndCall
  <2>1. /\ pc = "devices" /\ pc' = "idle" /\ UNCHANGED pPrevious
        /\ \A d \in Devices, t \in Tags : payload'[d][t] = Empty
    BY <1>8, NothingSent DEF EndCall, FreshLocals
  <2>2. ASSUME NEW d \in DOMAIN pPrevious, NEW t \in DOMAIN pPrevious[d]
        PROVE  Agrees(d, t, pPrevious[d][t])'
    <3>1. Agrees(d, t, pPrevious[d][t]) /\ d \in Devices /\ t \in Tags
      BY <2>1, EntryTypes DEF CacheInv
    <3>2. \A x \in DOMAIN pPrevious[d][t] :
            x \in lost'[d][t] \/ (x \in DOMAIN wire'[d][t]
                                    /\ pPrevious[d][t][x] = wire'[d][t][x])
      BY <1>8, <3>1, EndCallAgrees
    <3>3. DOMAIN payload'[d][t] = {}
      BY <2>1, <3>1, ReadingType
    <3>. QED  BY <2>1, <3>2, <3>3 DEF Agrees
  <2>. QED  BY <2>1, <2>2 DEF CacheInv
<1>9. CASE UNCHANGED vars
  BY <1>9 DEF vars, CacheInv, Agrees
<1>. QED  BY <1>1, <1>2, <1>3, <1>4, <1>5, <1>6, <1>7, <1>8, <1>9 DEF Next

-----------------------------------------------------------------------------
(* The flags and the decisions.                                            *)

\* What one tag does to the payload and to the readings, tag by tag.
LEMMA TagPayload ==
  ASSUME TypeOK, PendingInv, pc = "tags", NEW t \in tagsLeft, NEW r \in Readings,
         NEW passed \in SUBSET DOMAIN r, TagDoes(t, r, passed)
  PROVE  /\ dev \in Devices /\ t \in Tags /\ dev \notin devicesLeft
         /\ DOMAIN payload[dev][t] = {} /\ DOMAIN reported[dev][t] = {}
         /\ reported'[dev][t] = r
         /\ \A d \in Devices, u \in Tags : d # dev \/ u # t =>
              payload'[d][u] = payload[d][u] /\ reported'[d][u] = reported[d][u]
         /\ \/ ~ valid' /\ passed = {} /\ payload' = payload
            \/ /\ valid' /\ payload'[dev][t] \in Readings
               /\ \A x \in DOMAIN payload'[dev][t] : payload'[dev][t][x] = r[x]
               /\ \/ DOMAIN payload'[dev][t] = passed
                  \/ DOMAIN payload'[dev][t] = DOMAIN r /\ DOMAIN r = {0}
<1>1. /\ payload \in [Devices -> [Tags -> Readings]]
      /\ reported \in [Devices -> [Tags -> Readings]]
      /\ dev \in Devices /\ t \in Tags
  BY DEF TypeOK
<1>2. /\ DOMAIN payload[dev][t] = {} /\ DOMAIN reported[dev][t] = {}
      /\ dev \notin devicesLeft
  BY <1>1 DEF PendingInv, Pending
<1>3. ASSUME NEW f \in [Devices -> [Tags -> Readings]], NEW v
      PROVE  /\ [f EXCEPT ![dev][t] = v][dev][t] = v
             /\ \A d \in Devices, u \in Tags : d # dev \/ u # t =>
                  [f EXCEPT ![dev][t] = v][d][u] = f[d][u]
  BY <1>1
<1>4. /\ reported'[dev][t] = r
      /\ \A d \in Devices, u \in Tags : d # dev \/ u # t => reported'[d][u] = reported[d][u]
  <2>1. reported' = [reported EXCEPT ![dev][t] = r]
    BY DEF TagDoes
  <2>. QED  BY <1>1, <1>3, <2>1
<1>. DEFINE recorded == [x \in passed |-> r[x]]
<1>5. recorded \in Readings
  BY RecordedType
<1>6. /\ valid' = (valid \/ passed # {})
      /\ \/ ~ valid' /\ payload' = payload
         \/ valid' /\ DOMAIN r = {0} /\ payload' = [payload EXCEPT ![dev][t] = r]
         \/ valid' /\ payload' = [payload EXCEPT ![dev][t] = recorded]
  BY DEF TagDoes
<1>7. DOMAIN recorded = passed /\ \A x \in passed : recorded[x] = r[x]
  OBVIOUS
<1>. HIDE DEF recorded
<1>8. CASE ~ valid' /\ payload' = payload
  BY <1>1, <1>2, <1>4, <1>6, <1>8
<1>9. CASE valid' /\ DOMAIN r = {0} /\ payload' = [payload EXCEPT ![dev][t] = r]
  BY <1>1, <1>2, <1>3, <1>4, <1>9
<1>10. CASE valid' /\ payload' = [payload EXCEPT ![dev][t] = recorded]
  BY <1>1, <1>2, <1>3, <1>4, <1>5, <1>7, <1>10
<1>. QED  BY <1>6, <1>8, <1>9, <1>10

\* Every step keeps what is known of the tags that are still to be handled.
LEMMA NextPendingInv == TypeOK /\ PendingInv /\ [Next]_vars => PendingInv'
<1>. SUFFICES ASSUME TypeOK, PendingInv, [Next]_vars
              PROVE  PendingInv'
  OBVIOUS
<1>. USE DEF loop, flags, pre, broker
<1>1. CASE FreshLocals /\ pc' # "tags"
  BY <1>1, NothingSent DEF FreshLocals, PendingInv
<1>2. CASE UploadConfig
  BY <1>2 DEF UploadConfig, PendingInv, Pending
<1>3. CASE BeginDevice
  <2>1. /\ pc = "devices" /\ pc' = "tags"
        /\ dev' \in devicesLeft /\ devicesLeft' = devicesLeft \ {dev'}
        /\ UNCHANGED <<payload, reported>>
    BY <1>3 DEF BeginDevice
  <2>. QED  BY <2>1 DEF PendingInv, Pending
<1>4. CASE Tag
  <2>0. pc = "tags"
    BY <1>4 DEF Tag
  <2>1. PICK t \in tagsLeft, r \in Readings : \E passed \in SUBSET DOMAIN r :
                TagDoes(t, r, passed)
    BY <1>4, TagEffect
  <2>2. PICK passed \in SUBSET DOMAIN r : TagDoes(t, r, passed)
    BY <2>1
  <2>3. /\ \A d \in Devices, u \in Tags : d # dev \/ u # t =>
             payload'[d][u] = payload[d][u] /\ reported'[d][u] = reported[d][u]
        /\ dev \notin devicesLeft
    BY <2>0, <2>2, TagPayload
  <2>4. tagsLeft' = tagsLeft \ {t} /\ UNCHANGED <<pc, dev, devicesLeft>>
    BY <2>2 DEF TagDoes
  <2>. QED  BY <2>0, <2>3, <2>4 DEF PendingInv, Pending
<1>5. CASE OtherTags
  BY <1>5 DEF OtherTags, PendingInv, Pending
<1>6. CASE EndDevice
  <2>1. /\ pc = "tags" /\ pc' = "devices" /\ UNCHANGED <<dev, devicesLeft, payload, reported>>
    BY <1>6 DEF EndDevice
  <2>. QED  BY <2>1 DEF PendingInv, Pending
<1>7. CASE UNCHANGED vars
  BY <1>7 DEF vars, PendingInv, Pending
<1>8. BeginCall \/ NullDereference \/ EndCall => FreshLocals /\ pc' # "tags"
  BY DEF BeginCall, NullDereference, EndCall
<1>. QED  BY <1>1, <1>2, <1>3, <1>4, <1>5, <1>6, <1>7, <1>8 DEF Next

\* A tag that no configuration matches is sent as a whole.
LEMMA UnfilteredPasses ==
  ASSUME TypeOK, NEW t, NEW r, NEW passed, TagDoes(t, r, passed), ~ Compared(t)
  PROVE  passed = DOMAIN r /\ passed # {} /\ valid'
<1>1. passed = DOMAIN r /\ passed # {}
  BY DEF TagDoes, Passed
<1>2. valid' = (valid \/ passed # {})
  BY DEF TagDoes
<1>. QED  BY <1>1, <1>2

\* ... in which the flags keep what they say of the tags handled so far.
LEMMA NextFlagsInv == TypeOK /\ PendingInv /\ FlagsInv /\ [Next]_vars => FlagsInv'
<1>. SUFFICES ASSUME TypeOK, PendingInv, FlagsInv, [Next]_vars
              PROVE  FlagsInv'
  OBVIOUS
<1>. USE DEF loop, flags, pre, broker
<1>1. CASE pc' # "tags"
  BY <1>1 DEF FlagsInv
<1>2. CASE BeginDevice
  <2>1. /\ match_config' = (\E t \in Tags : json_ref[dev'][t] # Unconfigured)
        /\ match_previous_dev' = (dev' \in DOMAIN pPrevious)
        /\ valid' = FALSE /\ UNCHANGED <<json_ref, pPrevious>>
    BY <1>2 DEF BeginDevice
  <2>2. match_previous_dev' <=> dev' \in DOMAIN pPrevious'
    BY <2>1
  <2>3. match_config' \/ \A t \in Tags : json_ref'[dev'][t].deadband = 0
    BY <2>1 DEF Unconfigured
  <2>. QED  BY <2>1, <2>2, <2>3 DEF FlagsInv
<1>3. CASE Tag
  <2>0. pc = "tags"
    BY <1>3 DEF Tag
  <2>1. PICK t \in tagsLeft, r \in Readings : \E passed \in SUBSET DOMAIN r :
                TagDoes(t, r, passed)
    BY <1>3, TagEffect
  <2>2. PICK passed \in SUBSET DOMAIN r : TagDoes(t, r, passed)
    BY <2>1
  <2>3. /\ tagsLeft' = tagsLeft \ {t} /\ match_config' = ConfigMatches(t)
        /\ valid' = (valid \/ passed # {})
        /\ UNCHANGED <<json_ref, pPrevious, dev, match_previous_dev>>
    BY <2>2 DEF TagDoes
  <2>4. /\ dev \in Devices /\ t \in Tags
        /\ \A u \in Tags \ {t} : payload'[dev][u] = payload[dev][u]
        /\ passed # {} => DOMAIN payload'[dev][t] # {}
    BY <2>0, <2>2, TagPayload
  <2>5. /\ valid => \E u \in Tags \ tagsLeft : DOMAIN payload[dev][u] # {}
        /\ \/ match_config
           \/ \A u \in Tags : json_ref[dev][u].deadband = 0
           \/ \E u \in Tags \ tagsLeft :
                DOMAIN payload[dev][u] # {} /\ json_ref[dev][u].deadband = 0
        /\ match_previous_dev <=> dev \in DOMAIN pPrevious
    BY <2>0 DEF FlagsInv
  <2>6. ASSUME NEW u \in Tags \ tagsLeft, DOMAIN payload[dev][u] # {}
        PROVE  u \in Tags \ tagsLeft' /\ DOMAIN payload'[dev][u] # {}
    BY <2>1, <2>3, <2>4, <2>6
  <2>7. valid' => \E u \in Tags \ tagsLeft' : DOMAIN payload'[dev][u] # {}
    BY <2>3, <2>4, <2>5, <2>6
  <2>8. \/ match_config'
        \/ \A u \in Tags : json_ref[dev][u].deadband = 0
        \/ \E u \in Tags \ tagsLeft' :
             DOMAIN payload'[dev][u] # {} /\ json_ref[dev][u].deadband = 0
    <3>1. CASE ~ match_config
      BY <2>5, <2>6, <3>1
    <3>2. CASE match_config /\ ~ ConfigMatches(t)
      <4>1. json_ref[dev][t].deadband = 0
        BY <3>2 DEF ConfigMatches, Unconfigured
      <4>2. passed # {}
        BY <2>2, <3>2, UnfilteredPasses DEF Compared
      <4>. QED  BY <2>3, <2>4, <4>1, <4>2
    <3>3. CASE ConfigMatches(t)
      BY <2>3, <3>3
    <3>. QED  BY <3>1, <3>2, <3>3
  <2>. QED  BY <2>3, <2>5, <2>7, <2>8 DEF FlagsInv
<1>4. CASE OtherTags
  BY <1>4 DEF OtherTags, FlagsInv
<1>5. CASE UNCHANGED vars
  BY <1>5 DEF vars, FlagsInv
<1>6. UploadConfig \/ BeginCall \/ NullDereference \/ EndDevice \/ EndCall => pc' # "tags"
  BY DEF UploadConfig, BeginCall, NullDereference, EndDevice, EndCall
<1>. QED  BY <1>1, <1>2, <1>3, <1>4, <1>5, <1>6 DEF Next

\* What is on the wire or lost after a call was before, or was in its payload.
LEMMA EndCallWire ==
  ASSUME TypeOK, EndCall, NEW d \in Devices, NEW t \in Tags
  PROVE  /\ DOMAIN wire'[d][t] \subseteq DOMAIN wire[d][t] \union DOMAIN payload[d][t]
         /\ lost'[d][t] \subseteq lost[d][t] \union DOMAIN payload[d][t]
<1>1. CASE Taken
  <2>1. /\ wire'[d][t] = Overlay(payload[d][t], wire[d][t])
        /\ lost'[d][t] = lost[d][t] \ DOMAIN payload[d][t]
    BY <1>1 DEF Taken
  <2>. QED  BY <2>1 DEF Overlay
<1>2. CASE Lost
  BY <1>2 DEF Lost
<1>3. CASE UNCHANGED broker
  BY <1>3 DEF broker
<1>. QED  BY <1>1, <1>2, <1>3 DEF EndCall

\* Every step keeps an entry for each device that has sent.
LEMMA NextDeviceEntryInv ==
  TypeOK /\ PendingInv /\ DeviceEntryInv /\ [Next]_vars => DeviceEntryInv'
<1>. SUFFICES ASSUME TypeOK, PendingInv, DeviceEntryInv, [Next]_vars
              PROVE  DeviceEntryInv'
  OBVIOUS
<1>. USE DEF loop, flags, pre, broker
<1>1. CASE UploadConfig
  BY <1>1 DEF UploadConfig, DeviceEntryInv, SentBefore
<1>2. CASE BeginCall
  <2>1. /\ UNCHANGED <<pPrevious, wire, lost>>
        /\ \A d \in Devices, t \in Tags : DOMAIN payload'[d][t] = {}
    BY <1>2, NothingSent DEF BeginCall, FreshLocals
  <2>. QED  BY <2>1 DEF DeviceEntryInv, SentBefore
<1>3. CASE BeginDevice
  <2>1. /\ pc = "devices" /\ UNCHANGED <<pPrevious, payload, wire, lost>>
    BY <1>3 DEF BeginDevice
  <2>. QED  BY <2>1 DEF DeviceEntryInv, SentBefore
<1>4. CASE Tag
  <2>0. pc = "tags"
    BY <1>4 DEF Tag
  <2>1. PICK t \in tagsLeft, r \in Readings : \E passed \in SUBSET DOMAIN r :
                TagDoes(t, r, passed)
    BY <1>4, TagEffect
  <2>2. PICK passed \in SUBSET DOMAIN r : TagDoes(t, r, passed)
    BY <2>1
  <2>3. /\ valid' = (valid \/ passed # {})
        /\ UNCHANGED <<pc, pPrevious, dev, wire, lost>>
    BY <2>2 DEF TagDoes
  <2>4. /\ \A d \in Devices, u \in Tags : d # dev \/ u # t => payload'[d][u] = payload[d][u]
        /\ valid' \/ payload' = payload
    BY <2>0, <2>2, TagPayload
  <2>5. \A d \in Devices : SentBefore(d)' => d \in DOMAIN pPrevious'
    BY <2>3 DEF DeviceEntryInv, SentBefore
  <2>6. ASSUME NEW d \in Devices, NEW u \in Tags, DOMAIN payload'[d][u] # {}
        PROVE  d \in DOMAIN pPrevious' \/ (pc' = "tags" /\ d = dev' /\ valid')
    BY <2>0, <2>3, <2>4, <2>6 DEF DeviceEntryInv
  <2>. QED  BY <2>5, <2>6 DEF DeviceEntryInv
<1>5. CASE NullDereference
  <2>1. \A d \in Devices, t \in Tags : /\ DOMAIN payload'[d][t] = {}
                                       /\ DOMAIN wire'[d][t] = {} /\ lost'[d][t] = {}
    BY <1>5, NothingSent DEF NullDereference, FreshLocals, NoIndices
  <2>. QED  BY <2>1 DEF DeviceEntryInv, SentBefore
<1>6. CASE OtherTags
  BY <1>6 DEF OtherTags, DeviceEntryInv, SentBefore
<1>7. CASE EndDevice
  <2>1. /\ pc = "tags" /\ UNCHANGED <<payload, wire, lost>>
        /\ pPrevious' = IF valid THEN Put(pPrevious, dev, subJsonPre_dev) ELSE pPrevious
    BY <1>7 DEF EndDevice
  <2>2. DOMAIN pPrevious \subseteq DOMAIN pPrevious' /\ (valid => dev \in DOMAIN pPrevious')
    BY <2>1 DEF Put
  <2>. QED  BY <2>1, <2>2 DEF DeviceEntryInv, SentBefore
<1>8. CASE EndCall
  <2>1. /\ pc = "devices" /\ UNCHANGED pPrevious
        /\ \A d \in Devices, t \in Tags : DOMAIN payload'[d][t] = {}
    BY <1>8, NothingSent DEF EndCall, FreshLocals
  <2>2. ASSUME NEW d \in Devices, SentBefore(d)'
        PROVE  d \in DOMAIN pPrevious
    <3>1. PICK t \in Tags : DOMAIN wire'[d][t] \union lost'[d][t] # {}
      BY <2>2 DEF SentBefore
    <3>2. DOMAIN wire[d][t] \union lost[d][t] \union DOMAIN payload[d][t] # {}
      BY <1>8, <3>1, EndCallWire
    <3>. QED  BY <2>1, <3>2 DEF DeviceEntryInv, SentBefore
  <2>. QED  BY <2>1, <2>2 DEF DeviceEntryInv
<1>9. CASE UNCHANGED vars
  BY <1>9 DEF vars, DeviceEntryInv, SentBefore
<1>. QED  BY <1>1, <1>2, <1>3, <1>4, <1>5, <1>6, <1>7, <1>8, <1>9 DEF Next

\* The configuration of a tag has integers, and so have its readings.
LEMMA ConfigType ==
  ASSUME TypeOK, NEW d \in Devices, NEW t \in Tags
  PROVE  json_ref[d][t] \in [span : Int, deadband : Int] /\ Values \subseteq Int
<1>1. json_ref[d][t] \in TagConfigs \/ json_ref[d][t] = Unconfigured
  BY DEF TypeOK
<1>2. Unconfigured \in [span : Int, deadband : Int]
  BY DEF Unconfigured
<1>. QED  BY <1>1, <1>2, TagConfigsAssumption, ValuesAssumption

\* The comparison of the code against what a deadband is for: what it lets by is
\* close, unless the span is negative, and what it stops is not, unless there is no
\* deadband to speak of.
LEMMA ExceedsAndClose ==
  ASSUME NEW cfg \in [span : Int, deadband : Int], NEW v \in Int, NEW w \in Int
  PROVE  /\ cfg.span >= 0 /\ ~ Exceeds(v, w, cfg) => Close(v, w, cfg)
         /\ Exceeds(v, w, cfg) /\ Close(v, w, cfg) => cfg.deadband <= 0
<1>. DEFINE span == cfg.span
            deadband == cfg.deadband
            moved == Abs(v - w) * 100
<1>1. span \in Int /\ deadband \in Int
  OBVIOUS
<1>2. moved \in Nat /\ (v = w => moved = 0)
  BY DEF Abs
<1>3. /\ Exceeds(v, w, cfg) <=> \/ span > 0 /\ moved >= deadband * span
                                \/ span < 0 /\ moved <= deadband * span
                                \/ span = 0 /\ v # w
      /\ Close(v, w, cfg) <=> v = w \/ moved < deadband * span
  BY DEF Exceeds, Close
<1>. HIDE DEF moved
<1>4. span >= 0 /\ ~ Exceeds(v, w, cfg) => Close(v, w, cfg)
  <2>. DEFINE limit == deadband * span
  <2>1. limit \in Int
    BY <1>1
  <2>. HIDE DEF limit
  <2>2. /\ Exceeds(v, w, cfg) <=> \/ span > 0 /\ moved >= limit
                                  \/ span < 0 /\ moved <= limit
                                  \/ span = 0 /\ v # w
        /\ Close(v, w, cfg) <=> v = w \/ moved < limit
    BY <1>3 DEF limit
  <2>. QED  BY <1>1, <1>2, <2>1, <2>2
<1>5. ASSUME Exceeds(v, w, cfg), Close(v, w, cfg), deadband > 0
      PROVE  FALSE
  <2>. DEFINE limit == deadband * span
  <2>1. /\ limit \in Int
        /\ span > 0 => limit > 0
        /\ span < 0 => limit < 0
        /\ span = 0 => limit = 0
    BY <1>1, <1>5
  <2>. HIDE DEF limit
  <2>2. /\ \/ span > 0 /\ moved >= limit
           \/ span < 0 /\ moved <= limit
           \/ span = 0 /\ v # w
        /\ v = w \/ moved < limit
    BY <1>3, <1>5 DEF limit
  <2>. QED  BY <1>1, <1>2, <2>1, <2>2
<1>. QED  BY <1>1, <1>4, <1>5

\* A tag of a device that was found in pPrevious, or that follows no stale flag, is
\* compared, if it is, with what the broker was told last, unless that is lost.
LEMMA ComparedWithWire ==
  ASSUME TypeOK, CacheInv, PendingInv, pc = "tags", NEW t \in tagsLeft, NEW r \in Readings,
         NEW passed \in SUBSET DOMAIN r, TagDoes(t, r, passed), Compared(t),
         match_previous_dev \/ ~ match_previous_tag
  PROVE  /\ t \in DOMAIN subJsonPre_dev
         /\ \A x \in DOMAIN r \ lost[dev][t] :
              /\ x \in DOMAIN wire[dev][t]
              /\ x \in passed <=> Exceeds(r[x], wire[dev][t][x], json_ref[dev][t])
<1>. DEFINE entry == PreviousEntry(t)
<1>1. match_previous_dev /\ t \in DOMAIN subJsonPre_dev /\ entry = subJsonPre_dev[t]
  BY DEF Compared, PreviousMatches, PreviousEntry
<1>2. Agrees(dev, t, entry) /\ DOMAIN payload[dev][t] = {}
  BY <1>1, TagPayload DEF CacheInv
<1>3. /\ DOMAIN r \subseteq DOMAIN entry
      /\ passed = {x \in DOMAIN r : Exceeds(r[x], entry[x], json_ref[dev][t])}
  BY <1>1 DEF TagDoes, Dangling, Passed, Changed
<1>4. \A x \in DOMAIN r : x \in lost[dev][t] \/ (x \in DOMAIN wire[dev][t]
                                                   /\ entry[x] = wire[dev][t][x])
  BY <1>2, <1>3 DEF Agrees
<1>. QED  BY <1>1, <1>3, <1>4

\* Such a tag omits only what the broker knows and what is close to that.
LEMMA TagOmits ==
  ASSUME TypeOK, CacheInv, PendingInv, pc = "tags", NEW t \in tagsLeft, NEW r \in Readings,
         NEW passed \in SUBSET DOMAIN r, TagDoes(t, r, passed),
         match_previous_dev \/ ~ match_previous_tag,
         NEW x \in Omitted(dev, t)'
  PROVE  KnownToBroker(dev, t, x)'
<1>1. /\ dev \in Devices /\ t \in Tags /\ reported'[dev][t] = r
      /\ UNCHANGED <<json_ref, dev, wire, lost>>
  BY TagPayload DEF TagDoes
<1>2. x \in DOMAIN r \ (passed \union lost[dev][t])
  <2>1. x \in DOMAIN r /\ x \notin DOMAIN payload'[dev][t] /\ x \notin lost[dev][t]
    BY <1>1 DEF Omitted
  <2>2. passed = {} \/ passed \subseteq DOMAIN payload'[dev][t]
    BY TagPayload
  <2>. QED  BY <2>1, <2>2
<1>3. Compared(t)
  BY <1>2, UnfilteredPasses
<1>4. x \in DOMAIN wire[dev][t] /\ ~ Exceeds(r[x], wire[dev][t][x], json_ref[dev][t])
  BY <1>2, <1>3, ComparedWithWire
<1>5. /\ r[x] \in Int /\ wire[dev][t][x] \in Int
      /\ json_ref[dev][t] \in [span : Int, deadband : Int]
  BY <1>1, <1>2, <1>4, ReadingType, TagReadings, ConfigType
<1>6. json_ref[dev][t].span >= 0 => Close(r[x], wire[dev][t][x], json_ref[dev][t])
  BY <1>4, <1>5, ExceedsAndClose
<1>. QED  BY <1>1, <1>4, <1>6 DEF KnownToBroker

\* What is omitted of the other tags, and known of them, stays.
LEMMA OmittedSame ==
  ASSUME TypeOK, NEW d \in Devices, NEW u \in Tags, UNCHANGED <<json_ref, wire, lost>>,
         payload'[d][u] = payload[d][u], reported'[d][u] = reported[d][u]
  PROVE  /\ Omitted(d, u)' = Omitted(d, u)
         /\ \A x : KnownToBroker(d, u, x)' = KnownToBroker(d, u, x)
BY DEF Omitted, KnownToBroker

\* Nothing is omitted, and nothing sent, before anything is reported.
LEMMA NothingOmitted ==
  ASSUME \A d \in Devices, t \in Tags : DOMAIN payload'[d][t] = {} /\ DOMAIN reported'[d][t] = {}
  PROVE  OmittedIsClose' /\ KnownIsClose' /\ SentForAReason'
BY DEF OmittedIsClose, KnownIsClose, SentForAReason, Omitted

\* The steps at the end of which nothing has been reported.
LEMMA NothingReported ==
  ASSUME TypeOK, PendingInv, [Next]_vars,
         UploadConfig \/ BeginCall \/ NullDereference \/ EndCall
  PROVE  \A d \in Devices, t \in Tags : DOMAIN payload'[d][t] = {} /\ DOMAIN reported'[d][t] = {}
<1>1. CASE UploadConfig
  BY <1>1 DEF UploadConfig, PendingInv, Pending
<1>2. CASE FreshLocals
  BY <1>2, NothingSent DEF FreshLocals
<1>. QED  BY <1>1, <1>2 DEF BeginCall, NullDereference, EndCall

\* Every step leaves out, of the devices that have sent before, what is close only.
LEMMA NextKnownIsClose ==
  TypeOK /\ DeadbandInv /\ [Next]_vars => KnownIsClose'
<1>. SUFFICES ASSUME TypeOK, DeadbandInv, [Next]_vars
              PROVE  KnownIsClose'
  OBVIOUS
<1>0. CacheInv /\ PendingInv /\ FlagsInv /\ DeviceEntryInv /\ KnownIsClose
  BY DEF DeadbandInv
<1>. USE DEF loop, flags, pre, broker
<1>1. CASE UploadConfig \/ BeginCall \/ NullDereference \/ EndCall
  BY <1>0, <1>1, NothingReported, NothingOmitted
<1>2. CASE UNCHANGED <<json_ref, payload, reported, wire, lost>>
  BY <1>0, <1>2 DEF KnownIsClose, SentBefore, Omitted, KnownToBroker
<1>3. CASE Tag
  <2>0. pc = "tags"
    BY <1>3 DEF Tag
  <2>1. PICK t \in tagsLeft, r \in Readings : \E passed \in SUBSET DOMAIN r :
                TagDoes(t, r, passed)
    BY <1>3, TagEffect
  <2>2. PICK passed \in SUBSET DOMAIN r : TagDoes(t, r, passed)
    BY <2>1
  <2>3. /\ dev \in Devices /\ t \in Tags
        /\ \A d \in Devices, u \in Tags : d # dev \/ u # t =>
             payload'[d][u] = payload[d][u] /\ reported'[d][u] = reported[d][u]
    BY <1>0, <2>0, <2>2, TagPayload
  <2>4. UNCHANGED <<json_ref, dev, wire, lost>>
    BY <2>2 DEF TagDoes
  <2>5. SUFFICES ASSUME NEW d \in Devices, SentBefore(d), NEW u \in Tags,
                        NEW x \in Omitted(d, u)'
                 PROVE  KnownToBroker(d, u, x)'
    BY <2>4 DEF KnownIsClose, SentBefore
  <2>6. CASE d = dev /\ u = t
    <3>1. match_previous_dev
      BY <1>0, <2>0, <2>5, <2>6 DEF DeviceEntryInv, FlagsInv
    <3>2. x \in Omitted(dev, t)'
      BY <2>4, <2>5, <2>6 DEF Omitted
    <3>3. KnownToBroker(dev, t, x)'
      BY <1>0, <2>0, <2>2, <3>1, <3>2, TagOmits
    <3>. QED  BY <2>4, <2>6, <3>3 DEF KnownToBroker
  <2>7. CASE d # dev \/ u # t
    <3>1. /\ Omitted(d, u)' = Omitted(d, u)
          /\ KnownToBroker(d, u, x)' = KnownToBroker(d, u, x)
      BY <2>3, <2>4, <2>7, OmittedSame
    <3>2. KnownToBroker(d, u, x)
      BY <1>0, <2>5, <3>1 DEF KnownIsClose
    <3>. QED  BY <3>1, <3>2
  <2>. QED  BY <2>6, <2>7
<1>4. BeginDevice \/ OtherTags \/ EndDevice \/ UNCHANGED vars =>
        UNCHANGED <<json_ref, payload, reported, wire, lost>>
  BY DEF BeginDevice, OtherTags, EndDevice, vars
<1>. QED  BY <1>1, <1>2, <1>3, <1>4 DEF Next

LEMMA NextDeadbandInv == TypeOK /\ DeadbandInv /\ [Next]_vars => DeadbandInv'
<1>. SUFFICES ASSUME TypeOK, DeadbandInv, [Next]_vars
              PROVE  DeadbandInv'
  OBVIOUS
<1>1. /\ CacheInv /\ PayloadInv /\ PendingInv /\ FlagsInv /\ DeviceEntryInv
  BY DEF DeadbandInv
<1>2. CacheInv' /\ PayloadInv' /\ PendingInv' /\ FlagsInv' /\ DeviceEntryInv'
  BY <1>1, NextCacheInv, NextPayloadInv, NextPendingInv, NextFlagsInv, NextDeviceEntryInv
<1>3. KnownIsClose'
  BY NextKnownIsClose
<1>. QED  BY <1>2, <1>3 DEF DeadbandInv

\* The inductive invariant: in every state of the loops, for every device and tag.
THEOREM Invariance == Spec => []DeadbandInv
<1>. QED  BY NextDeadbandInv, TypeCorrect, InitDeadbandInv, PTL DEF Spec

\* pPrevious is what the broker was last told, whatever the stale flags of the loops
\* do and whatever is lost, but for the indices that were in a lost payload.
THEOREM CacheIsWire == Spec => []CacheMatchesWire
<1>1. TypeOK /\ DeadbandInv => CacheMatchesWire
  <2>. SUFFICES ASSUME TypeOK, DeadbandInv, pc = "idle",
                       NEW d \in DOMAIN pPrevious, NEW t \in DOMAIN pPrevious[d],
                       NEW x \in DOMAIN pPrevious[d][t] \ lost[d][t]
                PROVE  x \in DOMAIN wire[d][t] /\ pPrevious[d][t][x] = wire[d][t][x]
    BY DEF CacheMatchesWire
  <2>1. Agrees(d, t, pPrevious[d][t]) /\ DOMAIN payload[d][t] = {}
    BY EntryTypes DEF DeadbandInv, CacheInv, PayloadInv
  <2>. QED  BY <2>1 DEF Agrees
<1>. QED  BY <1>1, TypeCorrect, Invariance, PTL

\* Of a device that has sent before, whatever its other tags and the other devices
\* leave behind in the flags and pointers, a value is left out only if the broker has
\* one that is close to it, unless the last payload with its index was lost.
THEOREM OmittedWithinDeadband == Spec => []KnownIsClose
<1>1. DeadbandInv => KnownIsClose
  BY DEF DeadbandInv
<1>. QED  BY <1>1, Invariance, PTL

-----------------------------------------------------------------------------
(* One device, with any number of tags.                                    *)

OneDevice == \A d, e \in Devices : d = e

LEMMA InitOneDeviceInv == Init => OneDeviceInv
<1>. SUFFICES ASSUME Init
              PROVE  OneDeviceInv
  OBVIOUS
<1>1. /\ \A d \in Devices, t \in Tags : /\ DOMAIN payload[d][t] = {}
                                        /\ DOMAIN reported[d][t] = {}
                                        /\ DOMAIN wire[d][t] = {}
      /\ pc = "idle" /\ DOMAIN pPrevious = {} /\ ~ match_previous_tag
  BY NothingSent, ReadingType DEF Init
<1>2. NotStale /\ EntryInv
  BY <1>1 DEF NotStale, EntryInv
<1>3. OmittedIsClose /\ SentForAReason
  BY <1>1 DEF OmittedIsClose, SentForAReason, Omitted
<1>. QED  BY <1>2, <1>3, InitDeadbandInv DEF OneDeviceInv

\* Every step of one device leaves no flag behind that another would take for its own.
LEMMA NextNotStale ==
  ASSUME OneDevice
  PROVE  TypeOK /\ NotStale /\ [Next]_vars => NotStale'
<1>. SUFFICES ASSUME TypeOK, NotStale, [Next]_vars
              PROVE  NotStale'
  OBVIOUS
<1>. USE DEF loop, flags, pre, broker
<1>1. CASE FreshLocals /\ pc' # "tags"
  BY <1>1 DEF FreshLocals, NotStale
<1>2. CASE UploadConfig
  BY <1>2 DEF UploadConfig, NotStale
<1>3. CASE BeginDevice
  <2>1. /\ pc = "devices" /\ devicesLeft # {} /\ pc' = "tags" /\ UNCHANGED match_previous_tag
        /\ dev' \in devicesLeft /\ devicesLeft' = devicesLeft \ {dev'}
    BY <1>3 DEF BeginDevice
  <2>2. devicesLeft' = {}
    BY <2>1 DEF OneDevice, TypeOK
  <2>. QED  BY <2>1, <2>2 DEF NotStale
<1>4. CASE Tag
  <2>1. PICK t, r, passed : TagDoes(t, r, passed)
    BY <1>4, TagEffect
  <2>2. pc = "tags"
    BY <1>4 DEF Tag
  <2>3. /\ match_previous_tag' = PreviousMatches(t)
        /\ UNCHANGED <<pc, devicesLeft, match_previous_dev>>
    BY <2>1 DEF TagDoes
  <2>4. ~ match_previous_dev => match_previous_tag' = match_previous_tag
    BY <2>3 DEF PreviousMatches
  <2>. QED  BY <2>2, <2>3, <2>4 DEF NotStale
<1>5. CASE OtherTags
  BY <1>5 DEF OtherTags, NotStale
<1>6. CASE EndDevice
  BY <1>6 DEF EndDevice, NotStale
<1>7. CASE UNCHANGED vars
  BY <1>7 DEF vars, NotStale
<1>8. BeginCall \/ NullDereference \/ EndCall => FreshLocals /\ pc' # "tags"
  BY DEF BeginCall, NullDereference, EndCall
<1>. QED  BY <1>1, <1>2, <1>3, <1>4, <1>5, <1>6, <1>7, <1>8 DEF Next

\* ... and an entry for every tag that was sent.
LEMMA NextEntryInv ==
  ASSUME OneDevice
  PROVE  TypeOK /\ PendingInv /\ FlagsInv /\ NotStale /\ EntryInv /\ [Next]_vars => EntryInv'
<1>. SUFFICES ASSUME TypeOK, PendingInv, FlagsInv, NotStale, EntryInv, [Next]_vars
              PROVE  EntryInv'
  OBVIOUS
<1>0. dev \in Devices /\ \A d \in Devices : d = dev
  BY DEF TypeOK, OneDevice
<1>. USE DEF loop, flags, pre, broker
<1>1. CASE UploadConfig
  BY <1>1 DEF UploadConfig, EntryInv
<1>2. CASE BeginCall
  <2>1. pc' = "devices" /\ UNCHANGED <<pPrevious, wire>> /\ FreshLocals
    BY <1>2 DEF BeginCall
  <2>2. \A d \in Devices, t \in Tags : DOMAIN payload'[d][t] = {}
    BY <2>1, NothingSent DEF FreshLocals
  <2>. QED  BY <2>1, <2>2 DEF EntryInv
<1>3. CASE BeginDevice
  <2>1. /\ pc = "devices" /\ pc' = "tags" /\ dev' \in devicesLeft
        /\ subJsonPre_dev' = IF dev' \in DOMAIN pPrevious THEN pPrevious[dev'] ELSE Empty
        /\ UNCHANGED <<pPrevious, payload, wire>>
    BY <1>3 DEF BeginDevice
  <2>2. dev' \in Devices /\ \A d \in Devices : d = dev'
    BY <2>1 DEF TypeOK, OneDevice
  <2>3. \A d \in Devices, t \in Tags : DOMAIN payload[d][t] = {}
    BY <2>1, <2>2 DEF PendingInv, Pending
  <2>. QED  BY <2>1, <2>2, <2>3 DEF EntryInv
<1>4. CASE Tag
  <2>0. pc = "tags"
    BY <1>4 DEF Tag
  <2>1. PICK t \in tagsLeft, r \in Readings : \E passed \in SUBSET DOMAIN r :
                TagDoes(t, r, passed)
    BY <1>4, TagEffect
  <2>2. PICK passed \in SUBSET DOMAIN r : TagDoes(t, r, passed)
    BY <2>1
  <2>3. /\ valid' = (valid \/ passed # {}) /\ UNCHANGED <<pc, pPrevious, dev, wire>>
    BY <2>2 DEF TagDoes
  <2>4. /\ \A u \in Tags \ {t} : payload'[dev][u] = payload[dev][u]
        /\ valid' \/ payload' = payload
    BY <2>0, <2>2, TagPayload
  <2>5. PreviousMatches(t) => t \in DOMAIN subJsonPre_dev
    BY <2>0 DEF PreviousMatches, NotStale
  <2>6. /\ DOMAIN subJsonPre_dev \subseteq DOMAIN subJsonPre_dev'
        /\ valid' => t \in DOMAIN subJsonPre_dev'
    BY <2>2, <2>5 DEF TagDoes, Put
  <2>7. ASSUME NEW u \in Tags, DOMAIN payload'[dev][u] # {}
        PROVE  valid' /\ u \in DOMAIN subJsonPre_dev'
    BY <1>0, <2>0, <2>3, <2>4, <2>6, <2>7 DEF EntryInv
  <2>. QED  BY <1>0, <2>0, <2>3, <2>6, <2>7 DEF EntryInv
<1>5. CASE NullDereference
  <2>1. /\ pc' = "idle"
        /\ \A d \in Devices, t \in Tags : DOMAIN payload'[d][t] = {} /\ DOMAIN wire'[d][t] = {}
    BY <1>5, NothingSent DEF NullDereference, FreshLocals
  <2>. QED  BY <2>1 DEF EntryInv
<1>6. CASE OtherTags
  BY <1>6 DEF OtherTags, EntryInv
<1>7. CASE EndDevice
  <2>1. /\ pc = "tags" /\ pc' = "devices" /\ UNCHANGED <<payload, wire>>
        /\ pPrevious' = IF valid THEN Put(pPrevious, dev, subJsonPre_dev) ELSE pPrevious
    BY <1>7 DEF EndDevice
  <2>2. CASE valid
    <3>1. dev \in DOMAIN pPrevious' /\ pPrevious'[dev] = subJsonPre_dev
      BY <2>1, <2>2 DEF Put
    <3>. QED  BY <1>0, <2>1, <2>2, <3>1 DEF EntryInv
  <2>3. CASE ~ valid
    BY <2>1, <2>3 DEF EntryInv
  <2>. QED  BY <2>2, <2>3
<1>8. CASE EndCall
  <2>1. /\ pc = "devices" /\ pc' = "idle" /\ UNCHANGED pPrevious
        /\ \A d \in Devices, t \in Tags : DOMAIN payload'[d][t] = {}
    BY <1>8, NothingSent DEF EndCall, FreshLocals
  <2>2. \A d \in Devices, t \in Tags :
          DOMAIN wire'[d][t] \subseteq DOMAIN wire[d][t] \union DOMAIN payload[d][t]
    BY <1>8, EndCallWire
  <2>. QED  BY <2>1, <2>2 DEF EntryInv
<1>9. CASE UNCHANGED vars
  BY <1>9 DEF vars, EntryInv
<1>. QED  BY <1>1, <1>2, <1>3, <1>4, <1>5, <1>6, <1>7, <1>8, <1>9 DEF Next

\* What a tag puts into the payload, it puts there for a reason.
LEMMA TagReason ==
  ASSUME TypeOK, DeadbandInv, NotStale, EntryInv, pc = "tags",
         NEW t \in tagsLeft, NEW r \in Readings, NEW passed \in SUBSET DOMAIN r,
         TagDoes(t, r, passed), NEW x \in DOMAIN payload'[dev][t]
  PROVE  \/ x \notin DOMAIN wire[dev][t]
         \/ x \in lost[dev][t]
         \/ json_ref[dev][t].deadband <= 0
         \/ ~ Close(payload'[dev][t][x], wire[dev][t][x], json_ref[dev][t])
         \/ CarriedAlong(dev, t)'
<1>0. CacheInv /\ PendingInv /\ FlagsInv
  BY DEF DeadbandInv
<1>1. /\ dev \in Devices /\ t \in Tags /\ DOMAIN payload[dev][t] = {}
      /\ \A u \in Tags \ {t} : payload'[dev][u] = payload[dev][u]
      /\ payload'[dev][t][x] = r[x] /\ x \in DOMAIN r
      /\ x \in passed \/ (DOMAIN payload'[dev][t] = {0} /\ passed = {})
      /\ valid'
  BY <1>0, TagPayload
<1>2. UNCHANGED <<json_ref, dev>> /\ valid' = (valid \/ passed # {})
  BY DEF TagDoes
<1>3. ASSUME NEW u \in Tags \ tagsLeft, DOMAIN payload[dev][u] # {},
             json_ref[dev][u].deadband = 0 \/ DOMAIN payload'[dev][t] = {0}
      PROVE  CarriedAlong(dev, t)'
  <2>1. u \in Tags \ {t} /\ payload'[dev][u] = payload[dev][u]
    BY <1>1
  <2>. QED  BY <1>2, <1>3, <2>1 DEF CarriedAlong
<1>4. CASE x \notin passed
  <2>1. DOMAIN payload'[dev][t] = {0} /\ valid
    BY <1>1, <1>2, <1>4
  <2>2. PICK u \in Tags \ tagsLeft : DOMAIN payload[dev][u] # {}
    BY <1>0, <2>1 DEF FlagsInv
  <2>. QED  BY <1>3, <2>1, <2>2
<1>5. CASE x \in passed /\ Compared(t)
  <2>1. \/ x \in lost[dev][t]
        \/ /\ x \in DOMAIN wire[dev][t]
           /\ Exceeds(r[x], wire[dev][t][x], json_ref[dev][t])
    BY <1>0, <1>1, <1>5, ComparedWithWire DEF NotStale
  <2>2. CASE x \in DOMAIN wire[dev][t] /\ Exceeds(r[x], wire[dev][t][x], json_ref[dev][t])
    <3>1. /\ r[x] \in Int /\ wire[dev][t][x] \in Int
          /\ json_ref[dev][t] \in [span : Int, deadband : Int]
      BY <1>1, <2>2, ReadingType, TagReadings, ConfigType
    <3>. QED  BY <1>1, <2>2, <3>1, ExceedsAndClose
  <2>. QED  BY <2>1, <2>2
<1>6. CASE ~ PreviousMatches(t)
  <2>1. ~ match_previous_dev => dev \notin DOMAIN pPrevious
    BY <1>0 DEF FlagsInv
  <2>2. match_previous_dev => t \notin DOMAIN subJsonPre_dev
    BY <1>6 DEF PreviousMatches
  <2>3. DOMAIN wire[dev][t] = {}
    BY <1>0, <1>1, <2>1, <2>2 DEF EntryInv
  <2>. QED  BY <2>3
<1>7. CASE ~ ConfigMatches(t)
  <2>1. CASE match_config
    <3>1. json_ref[dev][t].deadband = 0
      BY <1>7, <2>1 DEF ConfigMatches, Unconfigured
    <3>. QED  BY <3>1
  <2>2. CASE \A u \in Tags : json_ref[dev][u].deadband = 0
    BY <1>1, <2>2
  <2>3. CASE \E u \in Tags \ tagsLeft :
               DOMAIN payload[dev][u] # {} /\ json_ref[dev][u].deadband = 0
    BY <1>3, <2>3
  <2>. QED  BY <1>0, <2>1, <2>2, <2>3 DEF FlagsInv
<1>. QED  BY <1>4, <1>5, <1>6, <1>7 DEF Compared

\* Every step leaves out what is close, and sends for a reason.
LEMMA NextDecisions ==
  ASSUME OneDevice
  PROVE  TypeOK /\ OneDeviceInv /\ [Next]_vars => OmittedIsClose' /\ SentForAReason'
<1>. SUFFICES ASSUME TypeOK, OneDeviceInv, [Next]_vars
              PROVE  OmittedIsClose' /\ SentForAReason'
  OBVIOUS
<1>0. /\ DeadbandInv /\ NotStale /\ EntryInv /\ OmittedIsClose /\ SentForAReason
      /\ CacheInv /\ PendingInv /\ FlagsInv
  BY DEF OneDeviceInv, DeadbandInv
<1>. USE DEF loop, flags, pre, broker
<1>1. CASE UploadConfig \/ BeginCall \/ NullDereference \/ EndCall
  BY <1>0, <1>1, NothingReported, NothingOmitted
<1>2. CASE UNCHANGED <<json_ref, payload, reported, wire, lost>>
  BY <1>0, <1>2 DEF OmittedIsClose, SentForAReason, Omitted, KnownToBroker, CarriedAlong
<1>3. CASE Tag
  <2>0. pc = "tags"
    BY <1>3 DEF Tag
  <2>1. PICK t \in tagsLeft, r \in Readings : \E passed \in SUBSET DOMAIN r :
                TagDoes(t, r, passed)
    BY <1>3, TagEffect
  <2>2. PICK passed \in SUBSET DOMAIN r : TagDoes(t, r, passed)
    BY <2>1
  <2>3. /\ dev \in Devices /\ t \in Tags /\ \A d \in Devices : d = dev
        /\ DOMAIN payload[dev][t] = {}
        /\ \A u \in Tags \ {t} : payload'[dev][u] = payload[dev][u]
                                   /\ reported'[dev][u] = reported[dev][u]
    BY <1>0, <2>0, <2>2, TagPayload DEF OneDevice
  <2>4. UNCHANGED <<json_ref, dev, wire, lost>>
    BY <2>2 DEF TagDoes
  <2>5. OmittedIsClose'
    <3>1. SUFFICES ASSUME NEW u \in Tags, NEW x \in Omitted(dev, u)'
                   PROVE  KnownToBroker(dev, u, x)'
      <4>1. ASSUME NEW d \in Devices, NEW u \in Tags, NEW x \in Omitted(d, u)'
            PROVE  KnownToBroker(d, u, x)'
        <5>1. d = dev /\ dev' = dev
          BY <2>3, <2>4
        <5>2. x \in Omitted(dev, u)'
          BY <4>1, <5>1 DEF Omitted
        <5>3. KnownToBroker(dev, u, x)'
          BY <3>1, <5>2
        <5>. QED  BY <5>1, <5>3 DEF KnownToBroker
      <4>. QED  BY <4>1 DEF OmittedIsClose
    <3>2. CASE u = t
      <4>1. x \in Omitted(dev, t)'
        BY <3>1, <3>2
      <4>2. match_previous_dev \/ ~ match_previous_tag
        BY <1>0, <2>0 DEF NotStale
      <4>3. KnownToBroker(dev, t, x)'
        BY <1>0, <2>0, <2>2, <4>1, <4>2, TagOmits
      <4>. QED  BY <3>2, <4>3
    <3>3. CASE u # t
      <4>1. /\ x \in Omitted(dev, u)
            /\ KnownToBroker(dev, u, x)' = KnownToBroker(dev, u, x)
        BY <2>3, <2>4, <3>1, <3>3 DEF Omitted, KnownToBroker
      <4>2. KnownToBroker(dev, u, x)
        BY <1>0, <2>3, <4>1 DEF OmittedIsClose
      <4>. QED  BY <4>1, <4>2
    <3>. QED  BY <3>2, <3>3
  <2>6. SentForAReason'
    <3>1. ASSUME NEW u \in Tags, NEW x \in DOMAIN payload'[dev][u]
          PROVE  \/ x \notin DOMAIN wire[dev][u]
                 \/ x \in lost[dev][u]
                 \/ json_ref[dev][u].deadband <= 0
                 \/ ~ Close(payload'[dev][u][x], wire[dev][u][x], json_ref[dev][u])
                 \/ CarriedAlong(dev, u)'
      <4>1. CASE u = t
        BY <1>0, <2>0, <2>2, <3>1, <4>1, TagReason
      <4>2. CASE u # t
        <5>1. payload'[dev][u] = payload[dev][u]
          BY <2>3, <4>2
        <5>2. CarriedAlong(dev, u) => CarriedAlong(dev, u)'
          BY <2>3, <2>4, <5>1 DEF CarriedAlong
        <5>. QED  BY <1>0, <2>3, <3>1, <5>1, <5>2 DEF SentForAReason
      <4>. QED  BY <4>1, <4>2
    <3>. QED  BY <2>3, <2>4, <3>1 DEF SentForAReason, CarriedAlong
  <2>. QED  BY <2>5, <2>6
<1>4. BeginDevice \/ OtherTags \/ EndDevice \/ UNCHANGED vars =>
        UNCHANGED <<json_ref, payload, reported, wire, lost>>
  BY DEF BeginDevice, OtherTags, EndDevice, vars
<1>. QED  BY <1>1, <1>2, <1>3, <1>4 DEF Next

LEMMA NextOneDeviceInv ==
  ASSUME OneDevice
  PROVE  TypeOK /\ OneDeviceInv /\ [Next]_vars => OneDeviceInv'
<1>. SUFFICES ASSUME TypeOK, OneDeviceInv, [Next]_vars
              PROVE  OneDeviceInv'
  OBVIOUS
<1>1. DeadbandInv /\ PendingInv /\ FlagsInv /\ NotStale /\ EntryInv
  BY DEF OneDeviceInv, DeadbandInv
<1>2. DeadbandInv' /\ NotStale' /\ EntryInv'
  BY <1>1, NextDeadbandInv, NextNotStale, NextEntryInv
<1>3. OmittedIsClose' /\ SentForAReason'
  BY NextDecisions
<1>. QED  BY <1>2, <1>3 DEF OneDeviceInv

\* The inductive invariant of one device, with any tags and indices.
THEOREM OneDeviceInvariance ==
  ASSUME OneDevice
  PROVE  Spec => []OneDeviceInv
<1>. QED  BY NextOneDeviceInv, TypeCorrect, InitOneDeviceInv, PTL DEF Spec

\* With one device, of any number of tags, no value is left out but one that is close
\* to what the broker has, the first payload included, unless what the broker should
\* have of its index was lost.
THEOREM NothingHeldBack ==
  ASSUME OneDevice
  PROVE  Spec => []OmittedIsClose
<1>1. OneDeviceInv => OmittedIsClose
  BY DEF OneDeviceInv
<1>. QED  BY <1>1, OneDeviceInvariance, PTL

\* With one device, of any number of tags, a value is sent for a reason; another tag is
\* one only if it has no deadband, or if the value is of a plain tag.
THEOREM NothingSentInVain ==
  ASSUME OneDevice
  PROVE  Spec => []SentForAReason
<1>1. OneDeviceInv => SentForAReason
  BY DEF OneDeviceInv
<1>. QED  BY <1>1, OneDeviceInvariance, PTL
=============================================================================
