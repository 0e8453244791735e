---------------------------- MODULE DisplayInfo ----------------------------
(***************************************************************************)
(* The client of the DisplayInfo plugin: one connection interface, which   *)
(* the plugin's notifications are registered with, and the HDR and the     *)
(* graphics interface queried from it.  _lock is held across every remote  *)
(* call and every callback, so each of them is two steps.                  *)
(*                                                                         *)
(* Assumed: the application disposes of the singleton last, and no         *)
(* callback makes a call of this library.                                  *)
(***************************************************************************)
EXTENDS Integers

CONSTANT Clients \* threads of the application

VARIABLES
  up,        \* the plugin is operational
  held,      \* which of its interfaces are held
  sinks,     \* how often _displayUpdatedNotification is registered with it
  references, \* references to the plugin's objects, of each interface
  callbacks, \* registered callbacks
  lock,      \* who holds _lock
  pc         \* what each thread does

vars == <<up, held, sinks, references, callbacks, lock, pc>>

Threads == Clients \cup {"monitor", "rpc"}
Nobody == "nobody"
Interfaces == {"connection", "hdr", "graphics"}
Kinds == {"operational", "output"}

\* Every variable keeps its type.
TypeOK ==
  /\ up \in BOOLEAN
  /\ held \subseteq Interfaces
  /\ sinks \in Nat
  /\ references \in [Interfaces -> Nat]
  /\ callbacks \subseteq Kinds
  /\ lock \in Threads \cup {Nobody}
  /\ pc \in [Threads -> Interfaces \cup {"idle", "tell"}]

Init ==
  /\ up = FALSE
  /\ held = {}
  /\ sinks = 0
  /\ references = [i \in Interfaces |-> 0]
  /\ callbacks = {}
  /\ lock = Nobody
  /\ pc = [t \in Threads |-> "idle"]

plugin == <<up, held, sinks, references>>

Begin(t, step) ==
  /\ pc[t] = "idle" /\ lock = Nobody
  /\ lock' = t
  /\ pc' = [pc EXCEPT ![t] = step]

End(t) ==
  /\ lock' = IF lock = t THEN Nobody ELSE lock
  /\ pc' = [pc EXCEPT ![t] = "idle"]

-----------------------------------------------------------------------------
\* Operational(true): nothing if the connection is held; else the connection,
\* and of the other two what it offers and is not held.
OperationalUp ==
  /\ ~up
  /\ up' = TRUE
  /\ IF "connection" \in held THEN UNCHANGED <<held, sinks, references>>
     ELSE \/ UNCHANGED <<held, sinks, references>>
          \/ \E offered \in SUBSET {"hdr", "graphics"} :
               LET new == {"connection"} \cup (offered \ held) IN
               /\ sinks' = sinks + 1
               /\ references' = [i \in Interfaces |->
                                   references[i] + (IF i \in new THEN 1 ELSE 0)]
               /\ held' = held \cup new
  /\ Begin("monitor", "tell")
  /\ UNCHANGED callbacks

\* Operational(false): what is held is released, the connection last and after
\* the notification was unregistered from it.
OperationalDown ==
  /\ up
  /\ up' = FALSE
  /\ sinks' = IF "connection" \in held THEN sinks - 1 ELSE sinks
  /\ references' = [i \in Interfaces |->
                      references[i] - (IF i \in held THEN 1 ELSE 0)]
  /\ held' = {}
  /\ Begin("monitor", "tell")
  /\ UNCHANGED callbacks

\* DisplayOutputUpdated(): also for an update that was under way when the
\* notification was unregistered.
DisplayOutputUpdated ==
  /\ "output" \in callbacks
  /\ Begin("rpc", "tell")
  /\ UNCHANGED <<plugin, callbacks>>

Told(t) == pc[t] = "tell" /\ End(t) /\ UNCHANGED <<plugin, callbacks>>

-----------------------------------------------------------------------------
\* The two Register functions: a callback that is there is refused.
Register(c) ==
  /\ pc[c] = "idle" /\ lock = Nobody
  /\ \E k \in Kinds \ callbacks : callbacks' = callbacks \cup {k}
  /\ UNCHANGED <<plugin, lock, pc>>

\* The two Unregister functions.
Unregister(c) ==
  /\ pc[c] = "idle" /\ lock = Nobody
  /\ \E k \in callbacks : callbacks' = callbacks \ {k}
  /\ UNCHANGED <<plugin, lock, pc>>

\* Connected(), Width(), EDID() and the like: one call of the connection; HDR():
\* of the HDR interface; TotalGpuRam(), FreeGpuRam(): of the graphics interface.
Call(c, i) ==
  /\ i \in held
  /\ Begin(c, i)
  /\ UNCHANGED <<plugin, callbacks>>

Return(c) == pc[c] \in Interfaces /\ End(c) /\ UNCHANGED <<plugin, callbacks>>

Next ==
  \/ OperationalUp \/ OperationalDown \/ DisplayOutputUpdated
  \/ Told("monitor") \/ Told("rpc")
  \/ \E c \in Clients : \/ Register(c) \/ Unregister(c) \/ Return(c)
                        \/ \E i \in Interfaces : Call(c, i)

Spec == Init /\ [][Next]_vars

-----------------------------------------------------------------------------
\* One reference for each interface that is held and none for the others, one
\* registration while the connection is held; and with the plugin gone, nothing.
ReferencesBalance ==
  /\ \A i \in Interfaces : references[i] = IF i \in held THEN 1 ELSE 0
  /\ sinks = references["connection"]
  /\ held # {} => "connection" \in held /\ up

\* An interface that a call in progress uses is not released meanwhile.
InterfacesAreAlive == \A c \in Clients : pc[c] \in Interfaces => pc[c] \in held

\* A callback in progress is registered.
CallbacksAreRegistered == pc["rpc"] = "tell" => "output" \in callbacks
=============================================================================
