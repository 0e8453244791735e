----------------------------- MODULE PlayerInfo -----------------------------
(***************************************************************************)
(* The client of the PlayerInfo plugin: it keeps the plugin's interfaces   *)
(* while the plugin is there, passes its notifications on to callbacks and *)
(* its calls on to the interfaces, all under _lock.  The lock is held      *)
(* across every remote call and callback, so each of them is two steps.    *)
(***************************************************************************)
EXTENDS Integers, FiniteSets

CONSTANTS
  Clients, \* threads of the application
  Codecs,  \* numbers of codecs the player may have
  Lengths  \* sizes of the arrays the application passes

\* What is assumed of the constants.
ArraysAssumption ==
  /\ Codecs \subseteq Nat /\ Lengths \subseteq 0..255
  /\ {"monitor", "rpc", "nobody"} \cap Clients = {}

VARIABLES
  up,        \* the plugin is operational
  player,    \* _playerInterface is set
  dolby,     \* _dolbyInterface is set
  sinks,     \* how often _dolbyNotification is registered with the plugin
  callbacks, \* registered callbacks
  lock,      \* who holds _lock
  pc,        \* what each thread does
  answer     \* the last answer about codecs

vars == <<up, player, dolby, sinks, callbacks, lock, pc, answer>>

Threads == Clients \cup {"monitor", "rpc"}
Nobody == "nobody"
Kinds == {"operational", "dolby"}
NewArraySize == 50

\* Every variable keeps its type.
TypeOK ==
  /\ up \in BOOLEAN
  /\ player \in BOOLEAN
  /\ dolby \in BOOLEAN
  /\ sinks \in Nat
  /\ callbacks \subseteq Kinds
  /\ lock \in Threads \cup {Nobody}
  /\ pc \in [Threads -> {"idle", "player", "dolby", "codecs", "tell"}]
  /\ answer \in [codecs : Nat, length : 0..255, value : -128..127]

Init ==
  /\ up = FALSE
  /\ player = FALSE
  /\ dolby = FALSE
  /\ sinks = 0
  /\ callbacks = {}
  /\ lock = Nobody
  /\ pc = [t \in Threads |-> "idle"]
  /\ answer = [codecs |-> 0, length |-> 0, value |-> 0]

Begin(t, step) ==
  /\ pc[t] = "idle" /\ lock = Nobody
  /\ lock' = t
  /\ pc' = [pc EXCEPT ![t] = step]

End(t) ==
  /\ lock' = Nobody
  /\ pc' = [pc EXCEPT ![t] = "idle"]

interfaces == <<up, player, dolby, sinks>>

-----------------------------------------------------------------------------
\* Operational(true): what can be had of the interfaces; the notification is
\* registered with the second.
OperationalUp ==
  /\ ~up
  /\ Begin("monitor", "tell")
  /\ up' = TRUE
  /\ IF player THEN UNCHANGED <<player, dolby, sinks>>
     ELSE \/ player' = FALSE /\ UNCHANGED <<dolby, sinks>>
          \/ /\ player' = TRUE
             /\ IF dolby THEN UNCHANGED <<dolby, sinks>>
                ELSE \/ dolby' = FALSE /\ UNCHANGED sinks
                     \/ dolby' = TRUE /\ sinks' = sinks + 1
  /\ UNCHANGED <<callbacks, answer>>

\* Operational(false): unregistered and released in the opposite order.
OperationalDown ==
  /\ up
  /\ Begin("monitor", "tell")
  /\ up' = FALSE
  /\ sinks' = IF dolby THEN sinks - 1 ELSE sinks
  /\ dolby' = FALSE
  /\ player' = FALSE
  /\ UNCHANGED <<callbacks, answer>>

\* AudioModeChanged() and DolbySoundModeUpdated(): the dolby callbacks, also for
\* a notification that was under way when the sink was unregistered.
DolbySoundModeUpdated ==
  /\ "dolby" \in callbacks
  /\ Begin("rpc", "tell")
  /\ UNCHANGED <<interfaces, callbacks, answer>>

\* The callbacks returned.
Told(t) ==
  /\ pc[t] = "tell"
  /\ End(t)
  /\ UNCHANGED <<interfaces, callbacks, answer>>

\* The two Register functions.
Register(c) ==
  /\ pc[c] = "idle" /\ lock = Nobody
  /\ \E k \in Kinds \ callbacks : callbacks' = callbacks \cup {k}
  /\ UNCHANGED <<interfaces, lock, pc, answer>>

\* The two Unregister functions.
Unregister(c) ==
  /\ pc[c] = "idle" /\ lock = Nobody
  /\ \E k \in callbacks : callbacks' = callbacks \ {k}
  /\ UNCHANGED <<interfaces, lock, pc, answer>>

\* IsAudioEquivalenceEnabled(), PlaybackResolution(): one call of the player.
CallPlayer(c) ==
  /\ player
  /\ Begin(c, "player")
  /\ UNCHANGED <<interfaces, callbacks, answer>>

\* IsAtmosMetadataSupported(), DolbySoundMode(), EnableAtmosOutput(),
\* SetDolbyMode(), GetDolbyMode().
CallDolby(c) ==
  /\ dolby
  /\ Begin(c, "dolby")
  /\ UNCHANGED <<interfaces, callbacks, answer>>

Return(c) ==
  /\ pc[c] \in {"player", "dolby"}
  /\ lock' = IF lock = c THEN Nobody ELSE lock
  /\ pc' = [pc EXCEPT ![c] = "idle"]
  /\ UNCHANGED <<interfaces, callbacks, answer>>

\* AudioCodecs() and VideoCodecs(): the iterator is walked call by call.
AskCodecs(c) ==
  /\ player
  /\ Begin(c, "codecs")
  /\ UNCHANGED <<interfaces, callbacks, answer>>

\* At most 50 are collected, and copied only if the array is larger than that.
Count(codecs, length) ==
  LET n == IF codecs < NewArraySize THEN codecs ELSE NewArraySize
  IN IF n < length THEN n ELSE -n

CodecsDone(c) ==
  /\ pc[c] = "codecs"
  /\ \E n \in Codecs, l \in Lengths :
       answer' = [codecs |-> n, length |-> l, value |-> Count(n, l)]
  /\ End(c)
  /\ UNCHANGED <<interfaces, callbacks>>

Next ==
  \/ OperationalUp \/ OperationalDown \/ DolbySoundModeUpdated
  \/ Told("monitor") \/ Told("rpc")
  \/ \E c \in Clients : \/ Register(c) \/ Unregister(c)
                        \/ CallPlayer(c) \/ CallDolby(c) \/ Return(c)
                        \/ AskCodecs(c) \/ CodecsDone(c)

Spec == Init /\ [][Next]_vars

-----------------------------------------------------------------------------
\* The plugin knows the notification exactly while the interface it was
\* registered with is held; and nothing is held of a plugin that is gone.
ReferencesBalance ==
  /\ sinks = IF dolby THEN 1 ELSE 0
  /\ dolby => player
  /\ ~up => ~player

\* An interface that a call in progress uses is not released meanwhile.
InterfacesAreAlive ==
  \A c \in Clients : /\ pc[c] \in {"player", "codecs"} => player
                     /\ pc[c] = "dolby" => dolby

\* A callback in progress is registered.
CallbacksAreRegistered == pc["rpc"] = "tell" => "dolby" \in callbacks

\* No more codecs are written than the array holds, the count fits its eight
\* bits, and a negative one is the number an array was too small for.
CodecsFit ==
  LET n == answer.value IN
  /\ n > 0 => n <= answer.length /\ n <= answer.codecs
  /\ n < 0 => answer.length <= -n
=============================================================================
