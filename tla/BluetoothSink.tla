--------------------------- MODULE BluetoothSink ---------------------------
(***************************************************************************)
(* The client of a Bluetooth audio sink: applications configure it,        *)
(* acquire it and write frames into a buffer it shares with the plugin.    *)
(* _instanceLock guards the one AudioSink all clients share, _lock its     *)
(* callbacks and, in Operational(), its interfaces; the clients' calls use *)
(* the interfaces and the buffer under _sinkLock.                          *)
(*                                                                         *)
(* Assumed of the clients: they call between their own init() and deinit(),*)
(* no callback makes a call of this library, and they register a callback  *)
(* for the state only while the plugin's interface is there, which the     *)
(* library uses untested then.                                             *)
(***************************************************************************)
EXTENDS Integers, FiniteSets

CONSTANT Clients \* threads of the application

VARIABLES
  up,         \* the plugin is operational
  refCount,   \* of the AudioSink; 0: there is none
  user,       \* the clients between init() and deinit()
  sink,       \* _sink is set
  control,    \* _sinkControl is set
  frameSize,  \* _frameSize is not zero
  buffer,     \* _buffer: none, open, or one that could not be opened
  callbacks,  \* registered callbacks
  lock,       \* who holds _lock
  sinkLock,   \* who holds _sinkLock
  pc          \* what each client, and the monitor, does

vars == <<up, refCount, user, sink, control, frameSize, buffer, callbacks,
          lock, sinkLock, pc>>

Monitor == "monitor"
Nobody == "nobody"
Threads == Clients \cup {Monitor}
Kinds == {"operational", "state"}
Steps == {"idle", "state", "configure", "acquire", "relinquish", "control", "frame",
          "register", "announce", "calling", "destroy", "teardown", "close", "reset", "release", "notify", "tell"}

\* Every variable keeps its type.
TypeOK ==
  /\ up \in BOOLEAN
  /\ refCount \in Nat
  /\ user \subseteq Clients
  /\ sink \in BOOLEAN
  /\ control \in BOOLEAN
  /\ frameSize \in BOOLEAN
  /\ buffer \in {"none", "open", "invalid"}
  /\ callbacks \subseteq Kinds
  /\ lock \in Threads \cup {Nobody}
  /\ sinkLock \in Threads \cup {Nobody}
  /\ pc \in [Threads -> Steps]

Init ==
  /\ up = FALSE
  /\ refCount = 0
  /\ user = {}
  /\ sink = FALSE
  /\ control = FALSE
  /\ frameSize = FALSE
  /\ buffer = "none"
  /\ callbacks = {}
  /\ lock = Nobody
  /\ sinkLock = Nobody
  /\ pc = [t \in Threads |-> "idle"]

At(t, step) == pc[t] = step
Goto(t, step) == pc' = [pc EXCEPT ![t] = step]
Ready(c) == c \in user /\ At(c, "idle")

\* The destructor runs, with _instanceLock held.
Destroying == \E c \in Clients : pc[c] \in {"destroy", "teardown", "close"}
There == refCount > 0 \/ Destroying

locks == <<lock, sinkLock>>
stream == <<frameSize, buffer>>

-----------------------------------------------------------------------------
\* bluetoothaudiosink_init() and _deinit(), under _instanceLock.

\* Create(): the first makes the AudioSink, the others share it.
Create(c) ==
  /\ c \notin user /\ At(c, "idle")
  /\ ~Destroying
  /\ user' = user \cup {c}
  /\ refCount' = refCount + 1
  /\ UNCHANGED <<up, sink, control, stream, callbacks, locks, pc>>

\* Destroy(): the last Release() runs the destructor, still under _instanceLock.
Destroy(c) ==
  /\ Ready(c)
  /\ ~Destroying
  /\ user' = user \ {c}
  /\ refCount' = refCount - 1
  /\ IF refCount = 1 THEN Goto(c, "destroy") ELSE UNCHANGED pc
  /\ UNCHANGED <<up, sink, control, stream, callbacks, locks>>

\* ~AudioSink(): relinquishes and drops the buffer under _sinkLock ...
Destruct(c) ==
  /\ At(c, "destroy") /\ sinkLock = Nobody
  /\ buffer' = "none"
  /\ frameSize' = FALSE
  /\ Goto(c, "teardown")
  /\ UNCHANGED <<up, refCount, user, sink, control, callbacks, locks>>

\* ... and the interfaces under _lock ...
Teardown(c) ==
  /\ At(c, "teardown") /\ lock = Nobody
  /\ sink' = FALSE
  /\ control' = FALSE
  /\ Goto(c, "close")
  /\ UNCHANGED <<up, refCount, user, stream, callbacks, locks>>

\* ... and then closes the connection, which waits for the monitor; the members
\* are gone.
Close(c) ==
  /\ At(c, "close") /\ At(Monitor, "idle")
  /\ sink' = FALSE
  /\ control' = FALSE
  /\ up' = FALSE
  /\ callbacks' = {}
  /\ Goto(c, "idle")
  /\ UNCHANGED <<refCount, user, stream, locks>>

-----------------------------------------------------------------------------
\* Calls under _sinkLock.  Each begins with what its conditions read and ends
\* when the plugin answered.

Begin(c, step) ==
  /\ Ready(c) /\ sinkLock = Nobody
  /\ sinkLock' = c
  /\ Goto(c, step)
  /\ UNCHANGED <<up, refCount, user, sink, control, callbacks, lock>>

End(c) ==
  /\ sinkLock' = Nobody
  /\ Goto(c, "idle")
  /\ UNCHANGED <<up, refCount, user, sink, control, callbacks, lock>>

State(c) == sink /\ Begin(c, "state") /\ UNCHANGED stream

\* Configure(): the frame size is kept whatever the plugin answers.
Configure(c) ==
  /\ control
  /\ Begin(c, "configure")
  /\ frameSize' = TRUE
  /\ UNCHANGED buffer

\* Acquire(): a buffer, if it can be opened; one that cannot stays.
Acquire(c) ==
  /\ control /\ frameSize
  /\ \/ buffer' = "open" /\ Begin(c, "acquire")
     \/ /\ Ready(c) /\ sinkLock = Nobody
        /\ buffer' = "invalid"
        /\ UNCHANGED <<up, refCount, user, sink, control, callbacks, locks, pc>>
  /\ UNCHANGED frameSize

\* The plugin accepts it, or the buffer goes.
Acquired(c) ==
  /\ At(c, "acquire")
  /\ buffer' \in {buffer, "none"}
  /\ UNCHANGED frameSize
  /\ End(c)

Relinquish(c) == control /\ Begin(c, "relinquish") /\ UNCHANGED stream

Relinquished(c) ==
  /\ At(c, "relinquish")
  /\ buffer' = "none"
  /\ frameSize' = FALSE
  /\ End(c)

\* Speed() and Delay(); Time() needs a buffer too.
Control(c) == control /\ Begin(c, "control") /\ UNCHANGED stream

\* Frame(): Write() waits up to 50 ms for the plugin to have read the last one.
Frame(c) == buffer # "none" /\ Begin(c, "frame") /\ UNCHANGED stream

Return(c) ==
  /\ pc[c] \in {"state", "configure", "control", "frame"}
  /\ UNCHANGED stream
  /\ End(c)

-----------------------------------------------------------------------------
\* Callbacks, under _lock.

\* RegisterOperationalStateUpdateCallback(), RegisterSinkStateChangedCallback():
\* the second asks for the state and tells it, with _lock held (it needs _sink).
Register(c) ==
  /\ Ready(c) /\ lock = Nobody
  /\ \E k \in Kinds \ callbacks :
       /\ callbacks' = callbacks \cup {k}
       /\ IF k = "state" THEN sink /\ lock' = c /\ Goto(c, "register")
          ELSE Goto(c, "announce") /\ UNCHANGED lock
  /\ UNCHANGED <<up, refCount, user, sink, control, stream, sinkLock>>

Registered(c) ==
  /\ At(c, "register")
  /\ lock' = Nobody
  /\ Goto(c, "idle")
  /\ UNCHANGED <<up, refCount, user, sink, control, stream, callbacks, sinkLock>>

\* The new operational callback is called, without a lock, if the plugin is up.
Announce(c) ==
  /\ At(c, "announce")
  /\ Goto(c, IF up THEN "calling" ELSE "idle")
  /\ UNCHANGED <<up, refCount, user, sink, control, stream, callbacks, locks>>

Called(c) ==
  /\ At(c, "calling")
  /\ Goto(c, "idle")
  /\ UNCHANGED <<up, refCount, user, sink, control, stream, callbacks, locks>>

Unregister(c) ==
  /\ Ready(c) /\ lock = Nobody
  /\ \E k \in callbacks : callbacks' = callbacks \ {k}
  /\ UNCHANGED <<up, refCount, user, sink, control, stream, locks, pc>>

-----------------------------------------------------------------------------
\* The monitor, while there is an AudioSink.

\* StateChanged(): the callbacks are called under _lock.
StateChanged ==
  /\ At(Monitor, "idle") /\ lock = Nobody
  /\ There /\ sink
  /\ "state" \in callbacks
  /\ lock' = Monitor
  /\ Goto(Monitor, "tell")
  /\ UNCHANGED <<up, refCount, user, sink, control, stream, callbacks, sinkLock>>

\* Operational(true): the interfaces, as far as they can be had.
OperationalUp ==
  /\ At(Monitor, "idle") /\ lock = Nobody
  /\ There /\ ~up
  /\ up' = TRUE
  /\ sink' \in BOOLEAN
  /\ control' \in (IF sink' THEN BOOLEAN ELSE {FALSE})
  /\ lock' = Monitor
  /\ Goto(Monitor, "notify")
  /\ UNCHANGED <<refCount, user, stream, callbacks, sinkLock>>

\* Operational(false): the buffer goes under _sinkLock ...
OperationalDown ==
  /\ At(Monitor, "idle") /\ lock = Nobody
  /\ There /\ up
  /\ up' = FALSE
  /\ lock' = Monitor
  /\ Goto(Monitor, "reset")
  /\ UNCHANGED <<refCount, user, sink, control, stream, callbacks, sinkLock>>

ResetBuffer ==
  /\ At(Monitor, "reset") /\ sinkLock = Nobody
  /\ buffer' = "none"
  /\ Goto(Monitor, "release")
  /\ UNCHANGED <<up, refCount, user, sink, control, frameSize, callbacks, locks>>

\* ... the interfaces under _lock alone ...
Release ==
  /\ At(Monitor, "release")
  /\ sink' = FALSE
  /\ control' = FALSE
  /\ Goto(Monitor, "notify")
  /\ UNCHANGED <<up, refCount, user, stream, callbacks, locks>>

\* ... and the callbacks are called.
Notify ==
  /\ At(Monitor, "notify") \/ At(Monitor, "tell")
  /\ lock' = Nobody
  /\ Goto(Monitor, "idle")
  /\ UNCHANGED <<up, refCount, user, sink, control, stream, callbacks, sinkLock>>

-----------------------------------------------------------------------------
Next ==
  \/ \E c \in Clients :
       \/ Create(c) \/ Destroy(c) \/ Destruct(c) \/ Teardown(c) \/ Close(c)
       \/ State(c) \/ Configure(c) \/ Acquire(c) \/ Acquired(c)
       \/ Relinquish(c) \/ Relinquished(c) \/ Control(c) \/ Frame(c) \/ Return(c)
       \/ Register(c) \/ Registered(c) \/ Announce(c) \/ Called(c) \/ Unregister(c)
  \/ StateChanged \/ OperationalUp \/ OperationalDown
  \/ ResetBuffer \/ Release \/ Notify

Spec == Init /\ [][Next]_vars

-----------------------------------------------------------------------------
\* The AudioSink is there as long as a client uses it: one reference each, and
\* a call in progress, which takes none, never sees it destroyed.
InstanceIsShared ==
  /\ refCount = Cardinality(user)
  /\ \A c \in Clients :
       pc[c] \notin {"idle", "destroy", "teardown", "close"} => c \in user /\ refCount > 0
  /\ Destroying => refCount = 0

\* A state callback in progress is registered: that of the monitor, and the first
\* one, which the registering client calls with _lock held.  (The first call of an
\* operational callback is made without a lock, and may come after another client
\* has unregistered it.)
CallbacksAreRegistered ==
  \A t \in Threads : At(t, "tell") \/ At(t, "register") => "state" \in callbacks
=============================================================================
