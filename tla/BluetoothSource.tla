-------------------------- MODULE BluetoothSource --------------------------
(***************************************************************************)
(* The client of a Bluetooth audio source: it hands the audio of a remote  *)
(* device to the sink an application set.  Its threads: those of the       *)
(* application, the one that serves the calls of the source plugin         *)
(* ("rpc"), the monitor that tells whether the plugin is there             *)
(* ("monitor") and the receiver's own, which calls the sink's frame_cb()   *)
(* without any lock.                                                       *)
(*                                                                         *)
(* Assumed of the application: it clears its sink only when no receiver is *)
(* acquired (the code warns of anything else), its callbacks return and    *)
(* make no call of this library, and it does not dispose of the library.   *)
(***************************************************************************)
EXTENDS Integers

CONSTANT Clients \* threads of the application

VARIABLES
  up,         \* the plugin is operational
  held,       \* which of _source, _sourceControl and _sourceStream are set
  lock,       \* who holds _lock
  sinkLock,   \* who holds _sinkLock
  sink,       \* _sinkCallbacks is set
  receiver,   \* there is a _receiver
  running,    \* ... and its _running
  worker,     \* what the receiver's thread does
  told,       \* what the sink was told last
  registered, \* which of the two callbacks the application registered
  pc          \* what each other thread does

vars == <<up, held, lock, sinkLock, sink, receiver, running, worker, told,
          registered, pc>>

\* The library's own threads are none of the application's.
ThreadsAssumption == Clients \cap {"rpc", "monitor", "none"} = {}

Threads == Clients \cup {"rpc", "monitor"}
Owners == Threads \cup {"none"}
Interfaces == {"source", "control", "stream"}
Steps == {"idle", "callSource", "callStream", "tell", "stopping", "resetting",
          "pause", "relinquish", "cleanup", "notify",
          "announce", "ask", "askSource", "calling"}

\* Every variable keeps its type.
TypeOK ==
  /\ up \in BOOLEAN
  /\ held \subseteq Interfaces
  /\ lock \in Owners
  /\ sinkLock \in Owners
  /\ sink \in BOOLEAN
  /\ receiver \in BOOLEAN
  /\ running \in BOOLEAN
  /\ worker \in {"blocked", "get", "frame", "check", "block"}
  /\ told \in {"free", "acquired", "playing", "pausing"}
  /\ registered \subseteq {"operational", "state"}
  /\ pc \in [Threads -> Steps]

Init ==
  /\ up = FALSE
  /\ held = {}
  /\ lock = "none"
  /\ sinkLock = "none"
  /\ sink = FALSE
  /\ receiver = FALSE
  /\ running = FALSE
  /\ worker = "blocked"
  /\ told = "free"
  /\ registered = {}
  /\ pc = [t \in Threads |-> "idle"]

At(t, step) == pc[t] = step
Goto(t, step) == pc' = [pc EXCEPT ![t] = step]

receiverVars == <<receiver, running, worker, told>>

-----------------------------------------------------------------------------
\* The receiver's thread: Worker() and OnFrameReceived().

ReceiverRest == <<up, held, lock, sinkLock, sink, receiver, told, registered, pc>>

\* Get(): a frame, or none within 100 ms.
WorkerGet ==
  /\ worker = "get"
  /\ worker' \in {"frame", "check"}
  /\ UNCHANGED <<running, ReceiverRest>>

\* frame_cb() returned.
WorkerDelivered ==
  /\ worker = "frame"
  /\ worker' = "check"
  /\ UNCHANGED <<running, ReceiverRest>>

\* _running is read, and the thread blocks itself after that.
WorkerCheck ==
  /\ worker = "check"
  /\ worker' = IF running THEN "get" ELSE "block"
  /\ UNCHANGED <<running, ReceiverRest>>

WorkerBlock ==
  /\ worker = "block"
  /\ worker' = "blocked"
  /\ UNCHANGED <<running, ReceiverRest>>

\* Receiver::Start(): Run() wakes the thread only if it is blocked.
Start ==
  /\ running' = TRUE
  /\ worker' = IF worker = "blocked" THEN "get" ELSE worker

\* Mutant: Stop() does not wait.
Stopped_AtOnce == TRUE

\* Receiver::Stop() after _running is false: it waits for BLOCKED.
Stopped == worker = "blocked"

-----------------------------------------------------------------------------
\* Calls of the plugin to the sink, all under _sinkLock.

Rest == <<up, held, lock, sink, registered>>

\* OnAcquire(): the sink accepts and the buffer opens; else nothing changes but
\* a relinquish_cb() that undoes acquire_cb().
OnAcquire ==
  /\ At("rpc", "idle") /\ sinkLock = "none"
  /\ ~receiver /\ sink
  /\ receiver' = TRUE
  /\ running' = FALSE
  /\ told' = "acquired"
  /\ UNCHANGED <<worker, sinkLock, pc, Rest>>

\* OnSetSpeed(100), if set_speed_cb() agrees.
OnPlay ==
  /\ At("rpc", "idle") /\ sinkLock = "none"
  /\ receiver /\ sink
  /\ told' = "playing"
  /\ Start
  /\ UNCHANGED <<receiver, sinkLock, pc, Rest>>

\* OnSetSpeed(0) of the plugin, or of the monitor on the way down.
OnPause(t) ==
  /\ \/ t = "rpc" /\ At(t, "idle")
     \/ t = "monitor" /\ At(t, "pause")
  /\ sinkLock = "none"
  /\ receiver /\ sink
  /\ told' = "pausing"
  /\ running' = FALSE
  /\ sinkLock' = t
  /\ Goto(t, "stopping")
  /\ UNCHANGED <<receiver, worker, Rest>>

OnPauseDone(t) ==
  /\ At(t, "stopping")
  /\ Stopped
  /\ told' = "acquired"
  /\ sinkLock' = "none"
  /\ Goto(t, IF t = "monitor" THEN "relinquish" ELSE "idle")
  /\ UNCHANGED <<receiver, running, worker, Rest>>

\* No receiver, or set_speed_cb() refuses: the monitor goes on.
OnPauseFails ==
  /\ At("monitor", "pause") /\ sinkLock = "none"
  /\ Goto("monitor", "relinquish")
  /\ UNCHANGED <<receiverVars, sinkLock, Rest>>

\* OnRelinquish(): ~Receiver() stops the thread, then relinquish_cb().
OnRelinquish(t) ==
  /\ \/ t = "rpc" /\ At(t, "idle")
     \/ t = "monitor" /\ At(t, "relinquish")
  /\ sinkLock = "none"
  /\ receiver
  /\ running' = FALSE
  /\ sinkLock' = t
  /\ Goto(t, "resetting")
  /\ UNCHANGED <<receiver, worker, told, Rest>>

OnRelinquishDone(t) ==
  /\ At(t, "resetting")
  /\ Stopped
  /\ receiver' = FALSE
  /\ told' = "free"
  /\ sinkLock' = "none"
  /\ Goto(t, IF t = "monitor" THEN "cleanup" ELSE "idle")
  /\ UNCHANGED <<running, worker, Rest>>

NothingToRelinquish ==
  /\ At("monitor", "relinquish") /\ sinkLock = "none" /\ ~receiver
  /\ Goto("monitor", "cleanup")
  /\ UNCHANGED <<receiverVars, sinkLock, Rest>>

\* StateChanged(): the registered callback is called under _sinkLock.
StateChanged ==
  /\ At("rpc", "idle") /\ sinkLock = "none"
  /\ "state" \in registered
  /\ sinkLock' = "rpc"
  /\ Goto("rpc", "tell")
  /\ UNCHANGED <<receiverVars, Rest>>

StateChangedDone ==
  /\ At("rpc", "tell")
  /\ sinkLock' = "none"
  /\ Goto("rpc", "idle")
  /\ UNCHANGED <<receiverVars, Rest>>

-----------------------------------------------------------------------------
\* The monitor.

\* Operational(true): as many of the three interfaces as can be had, in this
\* order; the application is told only if it got them all.
OperationalUp ==
  /\ At("monitor", "idle") /\ lock = "none"
  /\ ~up
  /\ up' = TRUE
  /\ \E got \in {{}, {"source"}, {"source", "control"}, Interfaces} :
       /\ held' = got
       /\ IF got = Interfaces THEN Goto("monitor", "notify") ELSE UNCHANGED pc
  /\ UNCHANGED <<receiverVars, lock, sinkLock, sink, registered>>

\* Operational(false): under _lock, pause, relinquish, let go ...
OperationalDown ==
  /\ At("monitor", "idle") /\ lock = "none"
  /\ up
  /\ up' = FALSE
  /\ lock' = "monitor"
  /\ Goto("monitor", "pause")
  /\ UNCHANGED <<receiverVars, held, sinkLock, sink, registered>>

\* Cleanup(true), and _lock is free.
Cleanup ==
  /\ At("monitor", "cleanup")
  /\ held' = {}
  /\ lock' = "none"
  /\ Goto("monitor", "notify")
  /\ UNCHANGED <<receiverVars, up, sinkLock, sink, registered>>

\* The operational callback, under _sinkLock.
Notify ==
  /\ At("monitor", "notify") /\ sinkLock \in {"none", "monitor"}
  /\ IF sinkLock = "none" /\ "operational" \in registered
     THEN sinkLock' = "monitor" /\ UNCHANGED pc
     ELSE sinkLock' = "none" /\ Goto("monitor", "idle")
  /\ UNCHANGED <<receiverVars, Rest>>

-----------------------------------------------------------------------------
\* The application's threads.

\* SetSink(): six callbacks, if there is no sink yet.
SetSink(c) ==
  /\ At(c, "idle") /\ sinkLock = "none"
  /\ ~sink
  /\ sink' = TRUE
  /\ UNCHANGED <<receiverVars, up, held, lock, sinkLock, registered, pc>>

\* SetSink(nullptr) without a receiver.
ClearSink(c) ==
  /\ At(c, "idle") /\ sinkLock = "none"
  /\ sink /\ ~receiver
  /\ sink' = FALSE
  /\ UNCHANGED <<receiverVars, up, held, lock, sinkLock, registered, pc>>

\* Mutant: the interface is used without the lock.
Call_Unlocked(c) ==
  /\ At(c, "idle")
  /\ \/ "source" \in held /\ Goto(c, "callSource")
     \/ "stream" \in held /\ Goto(c, "callStream")
  /\ UNCHANGED <<receiverVars, up, held, lock, sinkLock, sink, registered>>

\* State() and Device() use _source; Relinquish(), Speed() and Time() use
\* _sourceStream; _lock is held meanwhile.
Call(c) ==
  /\ At(c, "idle") /\ lock = "none"
  /\ lock' = c
  /\ \/ "source" \in held /\ Goto(c, "callSource")
     \/ "stream" \in held /\ Goto(c, "callStream")
  /\ UNCHANGED <<receiverVars, up, held, sinkLock, sink, registered>>

Return(c) ==
  /\ pc[c] \in {"callSource", "callStream"}
  /\ lock' = IF lock = c THEN "none" ELSE lock
  /\ Goto(c, "idle")
  /\ UNCHANGED <<receiverVars, up, held, sinkLock, sink, registered>>

\* RegisterOperationalStateUpdateCallback(), RegisterSourceStateChangedCallback():
\* _sinkLock is held only to add the callback.
Register(c) ==
  /\ At(c, "idle") /\ sinkLock = "none"
  /\ \E cb \in {"operational", "state"} \ registered :
       /\ registered' = registered \cup {cb}
       /\ Goto(c, IF cb = "operational" THEN "announce" ELSE "ask")
  /\ UNCHANGED <<receiverVars, up, held, lock, sinkLock, sink>>

\* The new operational callback is called, without a lock, if the plugin is up.
Announce(c) ==
  /\ At(c, "announce")
  /\ Goto(c, IF up THEN "calling" ELSE "idle")
  /\ UNCHANGED <<receiverVars, up, held, lock, sinkLock, sink, registered>>

\* The new state callback: _source is asked for the state under _lock ...
AskState(c) ==
  /\ At(c, "ask") /\ lock = "none"
  /\ IF "source" \in held THEN lock' = c /\ Goto(c, "askSource")
     ELSE Goto(c, "calling") /\ UNCHANGED lock
  /\ UNCHANGED <<receiverVars, up, held, sinkLock, sink, registered>>

\* ... and the callback is called, without a lock.
StateAsked(c) ==
  /\ At(c, "askSource")
  /\ lock' = "none"
  /\ Goto(c, "calling")
  /\ UNCHANGED <<receiverVars, up, held, sinkLock, sink, registered>>

Called(c) ==
  /\ At(c, "calling")
  /\ Goto(c, "idle")
  /\ UNCHANGED <<receiverVars, up, held, lock, sinkLock, sink, registered>>

\* UnregisterOperationalStateUpdateCallback(), UnregisterSourceStateChangedCallback().
Unregister(c) ==
  /\ At(c, "idle") /\ sinkLock = "none"
  /\ \E cb \in registered : registered' = registered \ {cb}
  /\ UNCHANGED <<receiverVars, up, held, lock, sinkLock, sink, pc>>

-----------------------------------------------------------------------------
Worker == WorkerGet \/ WorkerDelivered \/ WorkerCheck \/ WorkerBlock
Plugin == \/ OnAcquire \/ OnPlay \/ StateChanged \/ StateChangedDone
          \/ \E t \in {"rpc", "monitor"} : \/ OnPause(t) \/ OnPauseDone(t)
                                           \/ OnRelinquish(t) \/ OnRelinquishDone(t)
Monitor == \/ OperationalUp \/ OperationalDown \/ OnPauseFails
           \/ NothingToRelinquish \/ Cleanup \/ Notify
App == \E c \in Clients :
  \/ SetSink(c) \/ ClearSink(c) \/ Call(c) \/ Return(c)
  \/ Register(c) \/ Announce(c) \/ AskState(c) \/ StateAsked(c) \/ Called(c)
  \/ Unregister(c)

Next == Worker \/ Plugin \/ Monitor \/ App

Spec == Init /\ [][Next]_vars

-----------------------------------------------------------------------------
\* A frame is delivered, without a lock, only to a sink that was told to play
\* and not yet told that playing ended: neither set_speed_cb(0) followed by the
\* end of its call nor relinquish_cb() is followed by a frame.  And a sink that
\* plays is read for: no Stop() just before leaves its thread blocked.
FramesOnlyWhilePlaying ==
  /\ worker = "frame" => sink /\ receiver /\ told \in {"playing", "pausing"}
  /\ told = "playing" /\ (\A t \in Threads : ~At(t, "resetting"))
       => running /\ worker # "blocked"

\* A callback the plugin's thread or the monitor is in is registered: once
\* Unregister...() has returned, neither calls it.  (The thread that registered it
\* calls it once itself, after it gave up _sinkLock: that call alone may come
\* after another thread has unregistered it.)
CallbacksAreRegistered ==
  /\ At("rpc", "tell") => "state" \in registered
  /\ At("monitor", "notify") /\ sinkLock = "monitor" => "operational" \in registered

\* An interface a call of the application uses is not released meanwhile.
InterfacesAreAlive ==
  \A c \in Clients :
    /\ pc[c] \in {"callSource", "askSource"} => "source" \in held
    /\ At(c, "callStream") => "stream" \in held

\* Nothing of a plugin that went down is kept.
NothingIsKept == ~up /\ At("monitor", "idle") => held = {}
=============================================================================
