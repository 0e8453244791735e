----------------------------- MODULE DeviceInfo -----------------------------
(***************************************************************************)
(* The client of the DeviceInfo plugin: what the device says of itself is  *)
(* asked once and kept.  Each attribute, each list of a port and each flag *)
(* has its own cache; strings and lists are copied to arrays whose length  *)
(* the caller passes and gets back in eight bits.                          *)
(*                                                                         *)
(* Every call holds _lock from its first look at a cache to its last write *)
(* of one, so a call is one step.  What a device says does not change, but *)
(* it may refuse to say it.  Most calls have no member in common, so that  *)
(* a behaviour makes those of one topic.                                   *)
(* Assumed of the caller: no array is empty.                               *)
(***************************************************************************)
EXTENDS Integers, Sequences, FiniteSets, SequencesExt, FiniteSetsExt

CONSTANTS
  Topics,     \* sets of calls a behaviour makes
  Sizes,      \* sizes of the device's strings
  Lengths,    \* lengths of the caller's arrays
  Outputs,    \* sets of ports a device has
  Queried     \* the ports that are asked about

\* What is assumed of the constants.
DeviceAssumption ==
  /\ Sizes \subseteq Nat
  /\ \A length \in Lengths : length \in Nat /\ 0 < length /\ length <= 255
  /\ \A ports \in Outputs : ports \subseteq Nat /\ IsFiniteSet(ports)
  /\ Queried \subseteq 0..8

VARIABLES
  device,     \* what the device says
  topic,      \* the calls the application makes
  up,         \* the plugin is operational
  held,       \* which of its interfaces are held
  references, \* references to the plugin's objects, of each interface
  strings,    \* the cached strings, and the cached identifier as "id"
  outputs,    \* _audioOutputMap and _videoOutputMap
  lists,      \* the lists cached for the ports in them, of each kind
  singles,    \* defaultResolution and hdcp of each video port
  best,       \* maxScreenResolution of each video port, 0: not set
  flags,      \* _hdr_atmos_cec, the set of its bits that are 1
  answer      \* what the last call wrote

vars == <<device, topic, up, held, references, strings, outputs, lists, singles, best, flags,
          answer>>

caches == <<strings, outputs, lists, singles, best, flags>>
plugin == <<device, topic, up, held, references>>

Media == {"audio", "video"}
Interfaces == {"info"} \cup Media
Flags == {"hdr", "atmos", "cec"}
Singles == {"default", "hdcp"}
Unset == "unset"
Undefined == "undefined" \* what a local variable holds that was never written
Nothing == [call |-> "none"]
OK == "DEVICEINFO_OK"
INVALID_INPUT_LENGTH == "DEVICEINFO_ERROR_INVALID_INPUT_LENGTH"
UNAVAILABLE == "DEVICEINFO_ERROR_UNAVAILABLE"

\* The strings, by the interface that knows them.
OfInfo == {"serial_number", "sku", "make", "device_type", "model_name", "model_year",
           "system_integrator_name", "friendly_name", "platform_name"}
OfIdentifier == {"architecture", "chipset", "firmware_version", "id", "id_str"}
Attributes == OfInfo \cup OfIdentifier \cup {"host_edid"}

\* The ports the library has names for; 0 is OTHER.
Ports == 0..8
Convert(field) == IF field \in Ports THEN field ELSE 0

\* The lists of a port, by the interface that knows them, and what a port supports,
\* in the order the device tells it.
OfAudio == {"capabilities", "ms12_capabilities", "ms12_audio_profiles"}
Kinds == OfAudio \cup {"resolutions"}
Medium(kind) == IF kind \in OfAudio THEN "audio" ELSE "video"
Lists == {<<>>, <<2, 5, 2>>}

\* Every variable keeps its type.
TypeOK ==
  /\ up \in BOOLEAN
  /\ held \subseteq Interfaces
  /\ references \in [Interfaces -> Nat]
  /\ strings \in [Attributes -> Attributes \cup {Unset}]
  /\ outputs \in [Media -> SUBSET Nat]
  /\ lists \in [Kinds -> [Queried -> Seq(Nat)]]
  /\ singles \in [Singles -> [Queried -> Singles \cup {Unset, Undefined}]]
  /\ best \in [Queried -> Nat]
  /\ flags \subseteq 0..6
  /\ answer.call \in {"none", "string", "id", "outputs", "list", "single", "maximum", "flag"}

Init ==
  /\ device \in [size : Sizes, ports : Outputs, list : Lists, flags : SUBSET Flags,
                 identifier : BOOLEAN]
  /\ topic \in Topics
  /\ topic \cap Flags = {} => device.flags = {}
  /\ topic \cap Media = {} => device.list = <<>>
  /\ topic \cap OfIdentifier = {} => device.identifier
  /\ up = FALSE
  /\ held = {}
  /\ references = [i \in Interfaces |-> 0]
  /\ strings = [a \in Attributes |-> Unset]
  /\ outputs = [m \in Media |-> {}]
  /\ lists = [k \in Kinds |-> [p \in Queried |-> <<>>]]
  /\ singles = [k \in Singles |-> [p \in Queried |-> Unset]]
  /\ best = [p \in Queried |-> 0]
  /\ flags = {}
  /\ answer = Nothing

-----------------------------------------------------------------------------
\* Operational(true): the audio interface, and only if there is one the video
\* interface.
OperationalUp ==
  /\ ~up
  /\ up' = TRUE
  /\ held' \in {{}, {"info"}, {"info", "audio"}, Interfaces}
  /\ references' = [i \in Interfaces |-> references[i] + (IF i \in held' THEN 1 ELSE 0)]
  /\ answer' = Nothing
  /\ UNCHANGED <<device, topic, caches>>

\* Operational(false)
OperationalDown ==
  /\ up
  /\ up' = FALSE
  /\ held' = {}
  /\ references' = [i \in Interfaces |-> references[i] - (IF i \in held THEN 1 ELSE 0)]
  /\ answer' = Nothing
  /\ UNCHANGED <<device, topic, caches>>

-----------------------------------------------------------------------------
\* Strings.

\* The terminating zero needs room too.
Refused(length, size) == length <= size

\* The size of what a cache holds; a value that was never set is empty.
Size(value) == IF value = Unset THEN 0 ELSE device.size

\* The caller is told the size it needs, in eight bits.
Reply(a, value, length) ==
  [call |-> "string", of |-> a, value |-> value, asked |-> length,
   status |-> IF Refused(length, Size(value)) THEN INVALID_INPUT_LENGTH ELSE OK,
   length |-> (Size(value) + 1) % 256]

\* The cache whose state decides whether one is asked: the serial number looks at
\* that of the model name.
Tested(a) == IF a = "serial_number" THEN "model_name" ELSE a

\* A string, from the cache, else from an interface: which may be missing (there),
\* or refuse.
String(a, length, there, refuses) ==
  /\ a \in topic
  /\ IF strings[Tested(a)] # Unset
     THEN /\ answer' = Reply(a, strings[a], length)
          /\ UNCHANGED strings
     ELSE \/ /\ there
             /\ strings' = [strings EXCEPT ![a] = a]
             /\ answer' = Reply(a, a, length)
          \/ /\ ~there \/ refuses
             /\ answer' = [call |-> "string", of |-> a, value |-> Unset, asked |-> length,
                           status |-> UNAVAILABLE, length |-> 0]
             /\ UNCHANGED strings
  /\ UNCHANGED <<plugin, outputs, lists, singles, best, flags>>

\* _deviceInfoInterface knows these ...
InfoString(a, length) == String(a, length, "info" \in held, TRUE)

SerialNumber(length) == InfoString("serial_number", length)
Sku(length) == InfoString("sku", length)
Make(length) == InfoString("make", length)
DeviceType(length) == InfoString("device_type", length)
ModelName(length) == InfoString("model_name", length)
ModelYear(length) == InfoString("model_year", length)
SystemIntegratorName(length) == InfoString("system_integrator_name", length)
FriendlyName(length) == InfoString("friendly_name", length)
PlatformName(length) == InfoString("platform_name", length)

\* ... _identifierInterface, which is taken at the start or never and does not
\* refuse, these ...
IdentifierString(a, length) == String(a, length, device.identifier, FALSE)

Architecture(length) == IdentifierString("architecture", length)
Chipset(length) == IdentifierString("chipset", length)
FirmwareVersion(length) == IdentifierString("firmware_version", length)
IdStr(length) == IdentifierString("id_str", length)

\* ... and _deviceVideoCapabilitiesInterface this one.
HostEdid(length) == String("host_edid", length, "video" \in held, TRUE)

\* Deviceinfo_id(): at most 254 bytes are asked for, and an identifier that does not
\* fit is cut one short of the array.
Id(length) ==
  /\ "id" \in topic
  /\ IF device.identifier
     THEN LET size == IF device.size > 254 THEN 254 ELSE device.size IN
          /\ strings' = [strings EXCEPT !["id"] = IF size = 0 THEN Unset ELSE "id"]
          /\ answer' = [call |-> "id", asked |-> length, status |-> OK,
                        length |-> IF size > length - 1 THEN length - 1 ELSE size]
     ELSE /\ answer' = [call |-> "id", asked |-> length, status |-> UNAVAILABLE, length |-> 0]
          /\ UNCHANGED strings
  /\ UNCHANGED <<plugin, outputs, lists, singles, best, flags>>

-----------------------------------------------------------------------------
\* Lists.

\* The first values, without repetitions, that fit.
Distinct(list, length) ==
  LET written[n \in 0..Len(list)] ==
        IF n = 0 THEN <<>>
        ELSE IF Len(written[n - 1]) < length /\ list[n] \notin Range(written[n - 1])
             THEN Append(written[n - 1], list[n]) ELSE written[n - 1]
  IN written[Len(list)]

\* The names of the ports of a map, in its order: that of the keys.
Nth(ports, i) == CHOOSE p \in ports : Cardinality({q \in ports : q < p}) = i - 1
Names(ports) == [i \in 1..Cardinality(ports) |-> Convert(Nth(ports, i))]

\* The ports of a medium become known.
AskOutputs(medium, length) ==
  /\ medium \in topic
  /\ \/ /\ outputs[medium] # {} \/ medium \in held
        /\ outputs' = IF outputs[medium] # {} THEN outputs
                      ELSE [outputs EXCEPT ![medium] = device.ports]
        /\ answer' = [call |-> "outputs", status |-> OK, asked |-> length,
                      value |-> Distinct(Names(outputs'[medium]), length)]
     \/ /\ outputs[medium] = {}
        /\ answer' = [call |-> "outputs", status |-> UNAVAILABLE, asked |-> length,
                      value |-> <<>>]
        /\ UNCHANGED outputs
  /\ UNCHANGED <<plugin, strings, lists, singles, best, flags>>

AudioOutputs(length) == AskOutputs("audio", length)
VideoOutputs(length) == AskOutputs("video", length)

\* The list of a port after the call, and whether it succeeds: the port must be
\* known, and the list cached or the interface held.
Fetched(kind, port) == IF lists[kind][port] # <<>> THEN lists[kind][port] ELSE device.list

Fetchable(kind, port) ==
  port \in outputs[Medium(kind)] /\ (lists[kind][port] # <<>> \/ Medium(kind) \in held)

\* A list of a port.
AskList(kind, port, length) ==
  /\ Medium(kind) \in topic
  /\ \/ /\ Fetchable(kind, port)
        /\ lists' = [lists EXCEPT ![kind][port] = Fetched(kind, port)]
        /\ answer' = [call |-> "list", status |-> OK, asked |-> length,
                      value |-> Distinct(Fetched(kind, port), length)]
     \/ /\ lists[kind][port] = <<>>
        /\ answer' = [call |-> "list", status |-> UNAVAILABLE, asked |-> length, value |-> <<>>]
        /\ UNCHANGED lists
  /\ UNCHANGED <<plugin, strings, outputs, singles, best, flags>>

AudioCapabilities(port, length) == AskList("capabilities", port, length)
AudioMS12Capabilities(port, length) == AskList("ms12_capabilities", port, length)
AudioMS12Profiles(port, length) == AskList("ms12_audio_profiles", port, length)
OutputResolutions(port, length) == AskList("resolutions", port, length)

\* The best resolution, at least 480i (1).
Best(list) == Max({1} \cup Range(list))

\* Deviceinfo_maximum_output_resolution(): asks for the resolutions, at most 32.
MaximumOutputResolution(port) ==
  /\ "video" \in topic
  /\ IF port \in outputs["video"] /\ best[port] # 0
     THEN /\ answer' = [call |-> "maximum", status |-> OK, value |-> best[port]]
          /\ UNCHANGED <<lists, best>>
     ELSE \/ /\ \/ "video" \notin held \/ port \notin outputs["video"]
                \/ lists["resolutions"][port] = <<>>
             /\ answer' = [call |-> "maximum", status |-> UNAVAILABLE, value |-> 0]
             /\ UNCHANGED <<lists, best>>
          \/ /\ "video" \in held /\ Fetchable("resolutions", port)
             /\ lists' = [lists EXCEPT !["resolutions"][port] = Fetched("resolutions", port)]
             /\ LET list == Distinct(Fetched("resolutions", port), 32) IN
                  IF list = <<>>
                  THEN /\ answer' = [call |-> "maximum", status |-> INVALID_INPUT_LENGTH, value |-> 0]
                       /\ UNCHANGED best
                  ELSE /\ best' = [best EXCEPT ![port] = Best(list)]
                       /\ answer' = [call |-> "maximum", status |-> OK, value |-> Best(list)]
  /\ UNCHANGED <<plugin, strings, outputs, singles, flags>>

\* What a call about a video port keeps and answers.
Single(kind, port, value, status) ==
  /\ "video" \in topic
  /\ singles' = [singles EXCEPT ![kind][port] = value]
  /\ answer' = [call |-> "single", of |-> kind, status |-> status, value |-> value]
  /\ UNCHANGED <<plugin, strings, outputs, lists, best, flags>>

\* Deviceinfo_default_output_resolution(): when the device refuses, the local
\* variable it did not write is converted, kept and returned.
DefaultOutputResolution(port) ==
  LET kept == singles["default"][port] IN
  IF kept # Unset THEN Single("default", port, kept, OK)
  ELSE IF "video" \in held /\ port \in outputs["video"]
  THEN \E value \in {"default", Undefined} : Single("default", port, value, OK)
  ELSE Single("default", port, Unset, UNAVAILABLE)

\* Deviceinfo_hdcp(): succeeds in every case and may have written nothing.
Hdcp(port) ==
  LET kept == singles["hdcp"][port] IN
  IF kept # Unset THEN Single("hdcp", port, kept, OK)
  ELSE \/ /\ "video" \in held /\ port \in outputs["video"]
          /\ Single("hdcp", port, "hdcp", OK)
       \/ Single("hdcp", port, Unset, OK)

-----------------------------------------------------------------------------
\* Flags: one bit of the byte for the value, and one that it is cached.

Value(f) == CASE f = "hdr" -> 6 [] f = "atmos" -> 5 [] f = "cec" -> 4
Cached(f) == CASE f = "hdr" -> 2 [] f = "atmos" -> 1 [] f = "cec" -> 0

Set(f, on) == flags \cup (IF on THEN {Value(f)} ELSE {}) \cup {Cached(f)}

\* Deviceinfo_hdr(), _atmos(), _cec(): without the interface the last two succeed
\* and write nothing.
AskFlag(f) ==
  /\ f \in topic
  /\ IF Cached(f) \in flags
     THEN /\ answer' = [call |-> "flag", of |-> f, status |-> OK, written |-> TRUE,
                        value |-> Value(f) \in flags]
          /\ UNCHANGED flags
     ELSE \/ /\ "video" \in held
             /\ flags' = Set(f, f \in device.flags)
             /\ answer' = [call |-> "flag", of |-> f, status |-> OK, written |-> TRUE,
                           value |-> f \in device.flags]
          \/ /\ answer' = [call |-> "flag", of |-> f, written |-> FALSE, value |-> FALSE,
                           status |-> IF f = "hdr" \/ "video" \in held THEN UNAVAILABLE ELSE OK]
             /\ UNCHANGED flags
  /\ UNCHANGED <<plugin, strings, outputs, lists, singles, best>>

AskStrings ==
  \E l \in Lengths :
    \/ SerialNumber(l) \/ Sku(l) \/ Make(l) \/ DeviceType(l) \/ ModelName(l) \/ ModelYear(l)
    \/ SystemIntegratorName(l) \/ FriendlyName(l) \/ PlatformName(l)
    \/ Architecture(l) \/ Chipset(l) \/ FirmwareVersion(l) \/ IdStr(l)
    \/ HostEdid(l) \/ Id(l)
AskLists ==
  \/ \E l \in Lengths :
       \/ AudioOutputs(l) \/ VideoOutputs(l)
       \/ \E p \in Queried : \/ AudioCapabilities(p, l) \/ AudioMS12Capabilities(p, l)
                             \/ AudioMS12Profiles(p, l) \/ OutputResolutions(p, l)
  \/ \E p \in Queried : MaximumOutputResolution(p) \/ DefaultOutputResolution(p) \/ Hdcp(p)
AskFlags == \E f \in Flags : AskFlag(f)

Next == OperationalUp \/ OperationalDown \/ AskStrings \/ AskLists \/ AskFlags

Spec == Init /\ [][Next]_vars

-----------------------------------------------------------------------------
\* One reference for each interface that is held, none without the plugin.
ReferencesBalance ==
  /\ \A i \in Interfaces : references[i] = IF i \in held THEN 1 ELSE 0
  /\ held # {} => up

\* An answer, from whichever cache and in whatever order the calls were made, is
\* what the device says, but for two: an empty serial number once the model name is
\* known, and a default resolution that the device refused to tell.
AnswersMatch ==
  answer # Nothing /\ answer.status = OK =>
    CASE answer.call = "string" ->
           \/ answer.value = answer.of
           \/ answer.of = "serial_number" /\ answer.value = Unset
              /\ strings["model_name"] # Unset
      [] answer.call = "flag" -> answer.written => (answer.value <=> answer.of \in device.flags)
      [] answer.call = "outputs" -> Range(answer.value) \subseteq {Convert(p) : p \in device.ports}
      [] answer.call = "list" -> Range(answer.value) \subseteq Range(device.list)
      [] answer.call = "single" ->
           answer.value \in {answer.of, IF answer.of = "hdcp" THEN Unset ELSE Undefined}
      [] answer.call = "maximum" -> \A v \in Range(device.list) : v <= answer.value
      [] OTHER -> TRUE

\* No more is written than the array holds and nothing twice; a list that fits is
\* complete; and a string of up to 254 bytes that was refused for its length fits
\* the length it was refused with (that of a longer one has no room in eight bits).
AnswersFit ==
  answer # Nothing =>
    CASE answer.call = "string" ->
           /\ answer.status = OK => Size(answer.value) < answer.asked
           /\ answer.status = INVALID_INPUT_LENGTH /\ device.size <= 254 =>
                Reply(answer.of, answer.value, answer.length).status = OK
      [] answer.call = "id" -> answer.length < answer.asked
      [] answer.call \in {"outputs", "list"} ->
           /\ Len(answer.value) <= answer.asked
           /\ IsInjective(answer.value)
           /\ answer.status = OK /\ answer.call = "list" /\ Len(device.list) <= answer.asked
                => Range(answer.value) = Range(device.list)
      [] OTHER -> TRUE
=============================================================================
