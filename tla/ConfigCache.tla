---------------------------- MODULE ConfigCache -----------------------------
(***************************************************************************)
(* The cached configuration: UploadConfig (src/DatahubEdge.c) publishes a  *)
(* configuration, SaveConfig (src/message.c) writes the part of it that    *)
(* the deadband filter needs to config.json, and read_last_config loads    *)
(* the file into json_ref, after a successful upload and when the process  *)
(* starts.  The file survives a crash of the process.  Opening, writing,   *)
(* publishing and reading may each fail; no error of the file is handled,  *)
(* and an upload goes on after all but a failed publication.               *)
(*                                                                         *)
(* Of a configuration only the analog tags with their spans and deadbands  *)
(* are kept; spans are doubles in the API and are counted in halves here.  *)
(***************************************************************************)
EXTENDS Integers, FiniteSets

CONSTANTS
  Tags,           \* analog tags, each of some device
  Settings,       \* what a configuration says of a tag
  Absent,         \* no file, or no configuration in memory
  Torn,           \* part of a configuration, in the file or in memory
  IsCacheConfig,  \* option.CacheConfig
  IntMax          \* INT_MAX of the build

ASSUME SettingsAssumption ==
  Settings \subseteq [SpanHigh : Int, SpanLow : Int, Deadband : Nat]
ASSUME OptionAssumption == IsCacheConfig \in BOOLEAN /\ IntMax \in Nat

\* Configurations of some of the tags.
Configs == UNION {[T -> Settings] : T \in SUBSET Tags}

VARIABLES
  pc,        \* where the application thread is inside UploadConfig
  action,    \* the arguments of UploadConfig
  config,
  file,      \* config.json
  json_ref,  \* the copy of it that SendDataMessage parses
  accepted,  \* history: the last configuration the MQTT client took
  unbroken,  \* history: no step of the last Create or Update has failed
  since,     \* history: the configurations that were to be created or updated
             \* since one went through unbroken, and that one
  damaged    \* history: since then config.json was not written to its end, or
             \* not read to its end

call == <<action, config>>
history == <<unbroken, since, damaged>>
vars == <<pc, call, file, json_ref, accepted, history>>

-----------------------------------------------------------------------------
(* The conversions of a configuration.                                     *)

Whole(n) == 2 * n  \* the whole number n in halves

\* ConvertCreateOrUpdateConfig: a field that is zero is left out.
Field(n) == IF n = 0 THEN {} ELSE {n}
Message(cfg) ==
  [t \in DOMAIN cfg |-> [SH |-> Field(cfg[t].SpanHigh), SL |-> Field(cfg[t].SpanLow)]]

\* Mutant of Default: SpanLow gets the default of SpanHigh.
DefaultOfHigh(n, default) == IF n = 0 THEN Whole(1000) ELSE n

\* SaveConfig: a field that is zero gets a default.
Default(n, default) == IF n = 0 THEN default ELSE n

Saved(cfg) ==
  [t \in DOMAIN cfg |-> [SH |-> Default(cfg[t].SpanHigh, Whole(1000)),
                         SL |-> Default(cfg[t].SpanLow, 0),
                         Deadband |-> cfg[t].Deadband]]

\* valueint of the number n, as cJSON's parse_number computes it: truncated to
\* zero, but no further from it than an int can be.
IntMin == - IntMax - 1
valueint(n) ==
  IF n >= Whole(IntMax) THEN IntMax
  ELSE IF n <= Whole(IntMin) THEN IntMin
  ELSE IF n >= 0 THEN n \div 2 ELSE - ((- n) \div 2)

\* The difference d of two ints in an int: compiled without optimisation it wraps.
WrapAround(d) ==
  IF d > IntMax THEN d - 2 * (IntMax + 1)
  ELSE IF d < IntMin THEN d + 2 * (IntMax + 1)
  ELSE d

\* span_high - span_low in SendDataMessage.
FilterSpan(entry) == WrapAround(valueint(entry.SH) - valueint(entry.SL))

-----------------------------------------------------------------------------
Contents == {Saved(cfg) : cfg \in Configs}

ASSUME AbsentAssumption == Absent # Torn /\ {Absent, Torn} \cap (Configs \union Contents) = {}

\* Mutant of Loaded: the text that was published is kept instead.
LoadedMessage(before) == {Message(config)}

\* What read_last_config may find in memory afterwards, with `before' there before:
\* fopen fails, always if there is no file; or fread reads all; or it stops early.
Loaded(before) == IF file = Absent THEN {before} ELSE {before, file, Torn}

\* A former process left the file, and what it holds.
Init ==
  /\ pc = "idle" /\ action = "Create" /\ config \in Configs
  /\ file \in {Absent, Torn} \union Contents
  /\ json_ref \in Loaded(Absent)
  /\ accepted = Absent
  /\ unbroken = FALSE /\ since = Configs /\ damaged = TRUE

Deleting == action = "Delete"

\* The switch of UploadConfig: a deletion is not saved.
UploadConfig ==
  /\ pc = "idle"
  /\ config' \in Configs
  /\ \/ /\ action' \in {"Create", "Update"}
        /\ pc' = IF IsCacheConfig THEN "open" ELSE "publish"
        /\ unbroken' = IsCacheConfig
        /\ since' = since \union {config'}
     \/ /\ action' = "Delete"
        /\ pc' = "publish"
        /\ UNCHANGED <<unbroken, since>>
  /\ UNCHANGED <<file, json_ref, accepted, damaged>>

\* Mutant of OpenFile: opened with "a", and what follows a configuration in the
\* file is never parsed.
OpenFileAppend ==
  /\ pc = "open"
  /\ IF file = Absent THEN file' = Torn /\ pc' = "write" ELSE UNCHANGED file /\ pc' = "publish"
  /\ UNCHANGED <<call, json_ref, accepted, history>>

\* fopen(ConfigSaveFile, "w") truncates the file, or fails.
OpenFile ==
  /\ pc = "open"
  /\ \/ file' = Torn /\ pc' = "write" /\ UNCHANGED unbroken
     \/ UNCHANGED file /\ pc' = "publish" /\ unbroken' = FALSE
  /\ UNCHANGED <<call, json_ref, accepted, since, damaged>>

\* fprintf and fclose write all of the text, or only part of it.
WriteFile ==
  /\ pc = "write"
  /\ \/ file' = Saved(config) /\ UNCHANGED <<unbroken, damaged>>
     \/ file' = Torn /\ unbroken' = FALSE /\ damaged' = TRUE
  /\ pc' = "publish"
  /\ UNCHANGED <<call, json_ref, accepted, since>>

\* Mutant of AfterPublish: nothing is read back.
AfterPublishNothing == "idle"

\* Where UploadConfig goes on if the configuration was published.
AfterPublish == IF IsCacheConfig THEN "read" ELSE "idle"

\* mosquitto_publish of the configuration succeeds or returns an error.
PublishConfig ==
  /\ pc = "publish"
  /\ \/ /\ accepted' = IF Deleting THEN accepted ELSE config
        /\ pc' = AfterPublish
        /\ UNCHANGED unbroken
     \/ /\ pc' = "idle"
        /\ unbroken' = (unbroken /\ Deleting)
        /\ UNCHANGED accepted
  /\ UNCHANGED <<call, file, json_ref, since, damaged>>

read_last_config ==
  /\ pc = "read"
  /\ json_ref' \in Loaded(json_ref)
  /\ pc' = "idle"
  /\ unbroken' = (unbroken /\ (json_ref' = file \/ (Deleting /\ UNCHANGED json_ref)))
  /\ IF unbroken /\ json_ref' = file /\ ~ Deleting
     THEN since' = {config} /\ damaged' = FALSE
     ELSE UNCHANGED since /\ damaged' = (damaged \/ json_ref' = Torn)
  /\ UNCHANGED <<call, file, accepted>>

\* The process dies and Constructor reads the file.
Crash ==
  /\ pc' = "idle"
  /\ json_ref' \in Loaded(Absent)
  /\ unbroken' = (unbroken /\ (pc = "idle" \/ Deleting) /\ json_ref' = file)
  /\ damaged' = (damaged \/ pc = "write" \/ json_ref' # file)
  /\ UNCHANGED <<call, file, accepted, since>>

Next ==
  UploadConfig \/ OpenFile \/ WriteFile \/ PublishConfig \/ read_last_config \/ Crash

Spec == Init /\ [][Next]_vars

-----------------------------------------------------------------------------
(* Properties.                                                             *)

TypeOK ==
  /\ pc \in {"idle", "open", "write", "publish", "read"}
  /\ action \in {"Create", "Update", "Delete"} /\ config \in Configs
  /\ file \in {Absent, Torn} \union Contents
  /\ json_ref \in {Absent, Torn} \union Contents
  /\ accepted \in {Absent} \union Configs
  /\ unbroken \in BOOLEAN /\ damaged \in BOOLEAN /\ since \subseteq Configs

\* Whatever failures and crashes came before, a Create or Update that goes through
\* unbroken is what the deadband filter uses, until the next one is begun or the
\* filter's copy is read again and not to its end; neither deletions nor crashes
\* between calls bring anything else back.
FilterInUse == (unbroken /\ (pc = "idle" \/ Deleting)) => json_ref = Saved(accepted)

\* Whatever fails afterwards, in whichever call, the filter never goes back behind
\* that configuration: it uses that one or one that was to follow it, and loses it
\* only if the file was not written, or not read, to its end.
FilterNeverOlder ==
  \/ \E cfg \in since : json_ref = Saved(cfg)
  \/ damaged /\ json_ref \in {Absent, Torn}

\* A setting whose limits, as saved, an int can hold and whose saved span, too, is
\* no larger than an int.
Representable(entry) ==
  /\ {entry.SH, entry.SL} \subseteq Whole(IntMin)..Whole(IntMax)
  /\ entry.SH - entry.SL <= Whole(IntMax)

\* A span of at least two, the least that truncation cannot hide, stays positive in
\* the filter and loses at most one, wherever ints can represent it, and a message
\* that leaves a limit out leaves it to the default the filter uses: no tag with
\* such a span loses its deadband.
SpanSurvives ==
  accepted # Absent =>
    \A t \in DOMAIN accepted :
      LET entry == Saved(accepted)[t]
          span == FilterSpan(entry)
      IN (/\ accepted[t].SpanHigh - accepted[t].SpanLow >= Whole(2)
          /\ Representable(entry)) =>
           /\ span > 0 /\ Whole(span) - (entry.SH - entry.SL) \in -2..1
           /\ \A n \in Message(accepted)[t].SH : entry.SH = n
           /\ \A n \in Message(accepted)[t].SL : entry.SL = n

(* The inductive invariant behind the first two: *)

\* Only a Create or Update writes the file, and only with CacheConfig.
Calls ==
  /\ pc \in {"open", "write"} => ~ Deleting
  /\ pc # "idle" /\ ~ Deleting => config \in since
  /\ pc = "write" => file = Torn
  /\ unbroken => IsCacheConfig

\* What has gone through is in the file; what goes through is, once written.
FileKept ==
  unbroken =>
    /\ pc = "idle" \/ Deleting => file = Saved(accepted)
    /\ pc \in {"publish", "read"} /\ ~ Deleting => file = Saved(config)
    /\ pc = "read" /\ ~ Deleting => accepted = config

\* What is in the file is no older than what the filter may use.
FileNeverOlder ==
  \/ \E cfg \in since : file = Saved(cfg)
  \/ (damaged \/ pc = "write") /\ file \in {Absent, Torn}

ConfigInv == FilterInUse /\ FilterNeverOlder /\ Calls /\ FileKept /\ FileNeverOlder
=============================================================================
