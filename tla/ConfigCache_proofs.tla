------------------------- MODULE ConfigCache_proofs -------------------------
(***************************************************************************)
(* Proofs about module ConfigCache, for every set of tags and of settings, *)
(* every size of an int, with and without CacheConfig, and any number of   *)
(* uploads, failures and crashes.                                          *)
(***************************************************************************)
EXTENDS ConfigCache, TLAPS

-----------------------------------------------------------------------------
(* Types.                                                                  *)

\* What a configuration says of a tag is a number for each field.
LEMMA ConfigEntries ==
  ASSUME NEW cfg \in Configs
  PROVE  /\ DOMAIN cfg \subseteq Tags
         /\ \A t \in DOMAIN cfg : /\ cfg[t].SpanHigh \in Int
                                  /\ cfg[t].SpanLow \in Int
                                  /\ cfg[t].Deadband \in Nat
<1>1. PICK T \in SUBSET Tags : cfg \in [T -> Settings]
  BY DEF Configs
<1>. QED  BY <1>1, SettingsAssumption

\* What read_last_config finds is a configuration, nothing or a torn file.
LEMMA LoadedType ==
  ASSUME file \in {Absent, Torn} \union Contents,
         NEW before \in {Absent, Torn} \union Contents
  PROVE  Loaded(before) \subseteq {Absent, Torn} \union Contents
BY DEF Loaded

LEMMA InitTypeOK == Init => TypeOK
<1>. SUFFICES ASSUME Init
              PROVE  TypeOK
  OBVIOUS
<1>1. /\ pc = "idle" /\ action = "Create" /\ config \in Configs
      /\ file \in {Absent, Torn} \union Contents /\ json_ref \in Loaded(Absent)
      /\ accepted = Absent /\ unbroken = FALSE /\ since = Configs /\ damaged = TRUE
  BY DEF Init
<1>2. json_ref \in {Absent, Torn} \union Contents
  BY <1>1, LoadedType
<1>. QED  BY <1>1, <1>2 DEF TypeOK

\* Every step keeps the types.
LEMMA NextTypeOK == TypeOK /\ [Next]_vars => TypeOK'
<1>. SUFFICES ASSUME TypeOK, [Next]_vars
              PROVE  TypeOK'
  OBVIOUS
<1>. USE OptionAssumption DEF TypeOK, call, history
<1>1. CASE UploadConfig
  BY <1>1 DEF UploadConfig
<1>2. CASE OpenFile
  BY <1>2 DEF OpenFile
<1>3. CASE WriteFile
  BY <1>3 DEF WriteFile, Contents
<1>4. CASE PublishConfig
  <2>1. AfterPublish \in {"idle", "read"}
    BY DEF AfterPublish
  <2>2. unbroken' \in BOOLEAN
    BY <1>4, Zenon DEF PublishConfig
  <2>. QED  BY <1>4, <2>1, <2>2 DEF PublishConfig
<1>5. CASE read_last_config
  <2>1. json_ref' \in {Absent, Torn} \union Contents
    BY <1>5, LoadedType DEF read_last_config
  <2>2. unbroken' \in BOOLEAN /\ damaged' \in BOOLEAN
    BY <1>5, Zenon DEF read_last_config
  <2>3. since' \in {since, {config}}
    BY <1>5 DEF read_last_config
  <2>. QED  BY <1>5, <2>1, <2>2, <2>3 DEF read_last_config
<1>6. CASE Crash
  <2>1. json_ref' \in {Absent, Torn} \union Contents
    BY <1>6, LoadedType DEF Crash
  <2>2. unbroken' \in BOOLEAN /\ damaged' \in BOOLEAN
    BY <1>6, Zenon DEF Crash
  <2>. QED  BY <1>6, <2>1, <2>2 DEF Crash
<1>7. CASE UNCHANGED vars
  BY <1>7 DEF vars
<1>. QED  BY <1>1, <1>2, <1>3, <1>4, <1>5, <1>6, <1>7 DEF Next

\* Type correctness of the upload and of the file, whatever fails.
THEOREM TypeCorrect == Spec => []TypeOK
<1>. QED  BY InitTypeOK, NextTypeOK, PTL DEF Spec

-----------------------------------------------------------------------------
(* The filter and what went through.                                       *)

\* A configuration is neither a missing nor a torn file.
LEMMA SavedIsUsable ==
  ASSUME NEW cfg \in Configs
  PROVE  Saved(cfg) \notin {Absent, Torn}
BY AbsentAssumption DEF Contents

\* What a former process left is a configuration it uploaded, or damaged.
LEMMA InitConfigInv == Init => ConfigInv
<1>. SUFFICES ASSUME Init
              PROVE  ConfigInv
  OBVIOUS
<1>1. /\ pc = "idle" /\ file \in {Absent, Torn} \union Contents
      /\ json_ref \in Loaded(Absent)
      /\ unbroken = FALSE /\ since = Configs /\ damaged = TRUE
  BY DEF Init
<1>2. json_ref \in {Absent, Torn} \union Contents
  BY <1>1, LoadedType
<1>3. FilterNeverOlder /\ FileNeverOlder
  BY <1>1, <1>2 DEF FilterNeverOlder, FileNeverOlder, Contents
<1>4. FilterInUse /\ Calls /\ FileKept
  BY <1>1 DEF FilterInUse, Calls, FileKept
<1>. QED  BY <1>3, <1>4 DEF ConfigInv

\* Every step keeps the order in which the calls go about the file.
LEMMA NextCalls == TypeOK /\ Calls /\ [Next]_vars => Calls'
<1>. SUFFICES ASSUME TypeOK, Calls, [Next]_vars
              PROVE  Calls'
  OBVIOUS
<1>. USE DEF TypeOK, Calls, Deleting, call, history
<1>1. CASE UploadConfig
  BY <1>1 DEF UploadConfig
<1>2. CASE OpenFile
  BY <1>2 DEF OpenFile
<1>3. CASE WriteFile
  BY <1>3 DEF WriteFile
<1>4. CASE PublishConfig
  BY <1>4 DEF PublishConfig, AfterPublish
<1>5. CASE read_last_config
  BY <1>5 DEF read_last_config
<1>6. CASE Crash
  BY <1>6 DEF Crash
<1>7. CASE UNCHANGED vars
  BY <1>7 DEF vars
<1>. QED  BY <1>1, <1>2, <1>3, <1>4, <1>5, <1>6, <1>7 DEF Next

\* What an unbroken call wrote stays in the file until the next one opens it.
LEMMA NextFileKept == TypeOK /\ Calls /\ FileKept /\ [Next]_vars => FileKept'
<1>. SUFFICES ASSUME TypeOK, Calls, FileKept, [Next]_vars
              PROVE  FileKept'
  OBVIOUS
<1>. USE DEF TypeOK, Calls, FileKept, Deleting, call, history
<1>1. CASE UploadConfig
  BY <1>1 DEF UploadConfig
<1>2. CASE OpenFile
  BY <1>2 DEF OpenFile
<1>3. CASE WriteFile
  BY <1>3 DEF WriteFile
<1>4. CASE PublishConfig
  BY <1>4 DEF PublishConfig, AfterPublish
<1>5. CASE read_last_config
  BY <1>5 DEF read_last_config
<1>6. CASE Crash
  BY <1>6 DEF Crash
<1>7. CASE UNCHANGED vars
  BY <1>7 DEF vars
<1>. QED  BY <1>1, <1>2, <1>3, <1>4, <1>5, <1>6, <1>7 DEF Next

\* Nothing but the end of an unbroken call, or a read of what it wrote, changes the
\* filter while it is to be in use.
LEMMA NextFilterInUse ==
  TypeOK /\ Calls /\ FileKept /\ FilterInUse /\ [Next]_vars => FilterInUse'
<1>. SUFFICES ASSUME TypeOK, Calls, FileKept, FilterInUse, [Next]_vars
              PROVE  FilterInUse'
  OBVIOUS
<1>. USE DEF TypeOK, Calls, FileKept, FilterInUse, Deleting, call, history
<1>1. CASE UploadConfig
  BY <1>1, OptionAssumption DEF UploadConfig
<1>2. CASE OpenFile
  BY <1>2 DEF OpenFile
<1>3. CASE WriteFile
  BY <1>3 DEF WriteFile
<1>4. CASE PublishConfig
  <2>1. pc = "publish" /\ json_ref' = json_ref /\ UNCHANGED call
    BY <1>4 DEF PublishConfig
  <2>2. CASE Deleting
    BY <1>4, <2>1, <2>2 DEF PublishConfig
  <2>3. CASE ~ Deleting /\ pc' = AfterPublish
    <3>1. CASE IsCacheConfig
      BY <2>1, <2>3, <3>1 DEF AfterPublish
    <3>2. CASE ~ IsCacheConfig
      <4>1. ~ unbroken'
        BY <1>4, <3>2, Zenon DEF PublishConfig
      <4>. QED  BY <4>1
    <3>. QED  BY <3>1, <3>2
  <2>4. CASE ~ Deleting /\ ~ unbroken'
    BY <2>4
  <2>. QED  BY <1>4, <2>2, <2>3, <2>4 DEF PublishConfig
<1>5. CASE read_last_config
  BY <1>5 DEF read_last_config
<1>6. CASE Crash
  BY <1>6 DEF Crash
<1>7. CASE UNCHANGED vars
  BY <1>7 DEF vars
<1>. QED  BY <1>1, <1>2, <1>3, <1>4, <1>5, <1>6, <1>7 DEF Next

\* The file only changes to the configuration at hand, or is damaged.
LEMMA NextFileNeverOlder ==
  TypeOK /\ Calls /\ FileKept /\ FileNeverOlder /\ [Next]_vars => FileNeverOlder'
<1>. SUFFICES ASSUME TypeOK, Calls, FileKept, FileNeverOlder, [Next]_vars
              PROVE  FileNeverOlder'
  OBVIOUS
<1>. USE DEF TypeOK, Calls, FileKept, FileNeverOlder, Deleting, call, history
<1>1. CASE UploadConfig
  BY <1>1 DEF UploadConfig
<1>2. CASE OpenFile
  BY <1>2 DEF OpenFile
<1>3. CASE WriteFile
  BY <1>3 DEF WriteFile
<1>4. CASE PublishConfig
  BY <1>4 DEF PublishConfig
<1>5. CASE read_last_config
  <2>1. CASE unbroken /\ json_ref' = file /\ ~ Deleting
    <3>1. since' = {config} /\ file' = Saved(config)
      BY <1>5, <2>1 DEF read_last_config
    <3>. QED  BY <3>1
  <2>2. CASE ~ (unbroken /\ json_ref' = file /\ ~ Deleting)
    BY <1>5, <2>2 DEF read_last_config
  <2>. QED  BY <2>1, <2>2
<1>6. CASE Crash
  BY <1>6 DEF Crash
<1>7. CASE UNCHANGED vars
  BY <1>7 DEF vars
<1>. QED  BY <1>1, <1>2, <1>3, <1>4, <1>5, <1>6, <1>7 DEF Next

\* The filter only changes to what is in the file, or is damaged.
LEMMA NextFilterNeverOlder ==
  TypeOK /\ Calls /\ FileKept /\ FileNeverOlder /\ FilterNeverOlder /\ [Next]_vars
    => FilterNeverOlder'
<1>. SUFFICES ASSUME TypeOK, Calls, FileKept, FileNeverOlder, FilterNeverOlder, [Next]_vars
              PROVE  FilterNeverOlder'
  OBVIOUS
<1>. USE DEF TypeOK, Calls, FileKept, FileNeverOlder, FilterNeverOlder, Deleting, call,
             history
<1>1. CASE UploadConfig
  BY <1>1 DEF UploadConfig
<1>2. CASE OpenFile
  BY <1>2 DEF OpenFile
<1>3. CASE WriteFile
  BY <1>3 DEF WriteFile
<1>4. CASE PublishConfig
  BY <1>4 DEF PublishConfig
<1>5. CASE read_last_config
  <2>1. CASE unbroken /\ json_ref' = file /\ ~ Deleting
    <3>1. since' = {config} /\ json_ref' = Saved(config)
      BY <1>5, <2>1 DEF read_last_config
    <3>. QED  BY <3>1
  <2>2. CASE ~ (unbroken /\ json_ref' = file /\ ~ Deleting)
    BY <1>5, <2>2 DEF read_last_config, Loaded
  <2>. QED  BY <2>1, <2>2
<1>6. CASE Crash
  BY <1>6 DEF Crash, Loaded
<1>7. CASE UNCHANGED vars
  BY <1>7 DEF vars
<1>. QED  BY <1>1, <1>2, <1>3, <1>4, <1>5, <1>6, <1>7 DEF Next

\* The inductive invariant holds through any number of uploads, failures of any of
\* their steps, and crashes.
THEOREM Invariance == Spec => []ConfigInv
<1>1. TypeOK /\ ConfigInv /\ [Next]_vars => ConfigInv'
  BY NextCalls, NextFileKept, NextFilterInUse, NextFileNeverOlder, NextFilterNeverOlder
     DEF ConfigInv
<1>. QED  BY <1>1, TypeCorrect, InitConfigInv, PTL DEF Spec

\* A configuration that goes through unbroken is what SendDataMessage filters by,
\* whatever was damaged before it.
THEOREM SavedConfigUsed == Spec => []FilterInUse
<1>1. ConfigInv => FilterInUse
  BY DEF ConfigInv
<1>. QED  BY <1>1, Invariance, PTL

\* No failure of a later call takes the filter back behind it.
THEOREM NeverBehind == Spec => []FilterNeverOlder
<1>1. ConfigInv => FilterNeverOlder
  BY DEF ConfigInv
<1>. QED  BY <1>1, Invariance, PTL

-----------------------------------------------------------------------------
(* Spans.                                                                  *)

\* As far as an int reaches, truncation moves a number by less than one, that is by
\* at most one half.
LEMMA Truncation ==
  ASSUME NEW n \in Whole(IntMin)..Whole(IntMax)
  PROVE  /\ valueint(n) \in IntMin..IntMax
         /\ n - 1 <= 2 * valueint(n) /\ 2 * valueint(n) <= n + 1
         /\ n >= 0 => 2 * valueint(n) <= n
         /\ n <= 0 => n <= 2 * valueint(n)
<1>1. IntMax \in Nat
  BY OptionAssumption
<1>. QED  BY <1>1 DEF valueint, IntMin, Whole

\* A span between two whole numbers and an int is still positive once both limits
\* are truncated, and does not wrap.
LEMMA SpanTruncated ==
  ASSUME NEW entry, Representable(entry), entry.SH \in Int, entry.SL \in Int,
         entry.SH - entry.SL >= 4
  PROVE  /\ FilterSpan(entry) \in Int /\ FilterSpan(entry) > 0
         /\ 2 * FilterSpan(entry) - (entry.SH - entry.SL) \in -2..1
<1>. DEFINE high == valueint(entry.SH)
            low == valueint(entry.SL)
<1>1. IntMax \in Nat /\ IntMin = - IntMax - 1
  BY OptionAssumption DEF IntMin
<1>2. /\ high \in IntMin..IntMax /\ low \in IntMin..IntMax
      /\ entry.SH - 1 <= 2 * high /\ 2 * high <= entry.SH + 1
      /\ entry.SL - 1 <= 2 * low /\ 2 * low <= entry.SL + 1
      /\ entry.SH >= 0 => 2 * high <= entry.SH
      /\ entry.SL <= 0 => entry.SL <= 2 * low
  BY Truncation DEF Representable
<1>3. entry.SH - entry.SL <= 2 * IntMax
  BY DEF Representable, Whole
<1>4. FilterSpan(entry) = WrapAround(high - low)
  BY DEF FilterSpan
<1>. HIDE DEF high, low
<1>5. 2 * (high - low) - (entry.SH - entry.SL) \in -2..1
  BY <1>1, <1>2
<1>6. high - low <= IntMax /\ high - low > 0
  BY <1>1, <1>2, <1>3, <1>5
<1>. QED  BY <1>1, <1>2, <1>4, <1>5, <1>6 DEF WrapAround

\* ... also where SaveConfig has put the defaults for limits that are zero.
LEMMA TypeOKSpans == TypeOK => SpanSurvives
<1>. SUFFICES ASSUME TypeOK, accepted # Absent,
                     NEW t \in DOMAIN accepted,
                     accepted[t].SpanHigh - accepted[t].SpanLow >= Whole(2),
                     Representable(Saved(accepted)[t])
              PROVE  LET entry == Saved(accepted)[t]
                         span == FilterSpan(entry)
                     IN /\ span > 0 /\ Whole(span) - (entry.SH - entry.SL) \in -2..1
                        /\ \A n \in Message(accepted)[t].SH : entry.SH = n
                        /\ \A n \in Message(accepted)[t].SL : entry.SL = n
  BY DEF SpanSurvives
<1>. DEFINE entry == Saved(accepted)[t]
            high == accepted[t].SpanHigh
            low == accepted[t].SpanLow
<1>1. high \in Int /\ low \in Int /\ high - low >= 4
  BY ConfigEntries DEF TypeOK, Whole
<1>2. entry.SH = Default(high, Whole(1000)) /\ entry.SL = Default(low, 0)
  BY DEF Saved
<1>3. Message(accepted)[t].SH = Field(high) /\ Message(accepted)[t].SL = Field(low)
  BY DEF Message
<1>4. Representable(entry)
  OBVIOUS
<1>. HIDE DEF high, low, entry
<1>5. entry.SH \in Int /\ entry.SL \in Int /\ entry.SH - entry.SL >= 4
  BY <1>1, <1>2 DEF Default, Whole
<1>6. /\ FilterSpan(entry) > 0
      /\ Whole(FilterSpan(entry)) - (entry.SH - entry.SL) \in -2..1
  BY <1>4, <1>5, SpanTruncated DEF Whole
<1>7. /\ \A n \in Field(high) : entry.SH = n
      /\ \A n \in Field(low) : entry.SL = n
  BY <1>1, <1>2 DEF Field, Default
<1>. QED  BY <1>3, <1>6, <1>7 DEF entry

\* No tag of a configuration that was taken loses its deadband to the defaults, to
\* the truncation of its span or to the width of an int, if it is a span of at least
\* two that ints can represent.
THEOREM SpansSurvive == Spec => []SpanSurvives
<1>. QED  BY TypeCorrect, TypeOKSpans, PTL
=============================================================================
