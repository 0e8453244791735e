---------------------------- MODULE ClientProofs ----------------------------
(*****************************************************************************)
(* The clients of the plugins and the proxies of Cryptography, as parts of   *)
(* Libraries: what they take of a plugin they give back, what they use of it *)
(* is alive, and a callback runs only while it is registered.                *)
(*****************************************************************************)
EXTENDS Libraries, TLAPS, Sequences, FiniteSetTheorems, WellFoundedInduction

-----------------------------------------------------------------------------
\* Every set of numbers that is not empty has a least member.
LEMMA Least ==
  ASSUME NEW S \in SUBSET Nat, S # {}
  PROVE  \E n \in S : \A m \in S : ~(m < n)
<1>. DEFINE R == OpToRel(<, Nat)
<1>1. IsWellFoundedOn(R, Nat)
  BY NatLessThanWellFounded
<1>2. PICK n \in S : \A m \in S : ~(<<m, n>> \in R)
  <2>. HIDE DEF R
  <2>. QED
    BY <1>1, WFMin
<1>3. \A m, k \in Nat : m < k => <<m, k>> \in R
  BY DEF OpToRel
<1>. QED
  BY <1>2, <1>3

-----------------------------------------------------------------------------
(* The Bluetooth audio source *)

\* The threads are told apart.
LEMMA SourceThreads ==
  ASSUME Source!ThreadsAssumption
  PROVE  /\ \A c \in Clients : /\ c \in Source!Threads
                              /\ c # "rpc" /\ c # "monitor" /\ c # "none"
         /\ "rpc" \in Source!Threads /\ "monitor" \in Source!Threads
         /\ Source!Threads = Clients \cup {"rpc", "monitor"}
         /\ Source!Owners = Clients \cup {"rpc", "monitor", "none"}
BY DEF Source!ThreadsAssumption, Source!Threads, Source!Owners

\* What a client does with an interface of the plugin.
SourceUsing == {"callSource", "callStream", "askSource"}

\* What each thread is doing when it holds which lock.
SourceLocks ==
  /\ \A c \in Clients :
       /\ s_pc[c] \in {"idle", "announce", "ask", "calling"} \cup SourceUsing
       /\ s_lock = c <=> s_pc[c] \in SourceUsing
       /\ s_sinkLock # c
  /\ s_pc["rpc"] \in {"idle", "stopping", "resetting", "tell"}
  /\ s_pc["monitor"] \in {"idle", "pause", "stopping", "relinquish",
                          "resetting", "cleanup", "notify"}
  /\ s_lock = "monitor" <=> s_pc["monitor"] \notin {"idle", "notify"}
  /\ s_lock # "rpc"
  /\ s_sinkLock = "rpc" <=> s_pc["rpc"] # "idle"
  /\ s_sinkLock = "monitor"
       => s_pc["monitor"] \in {"stopping", "resetting", "notify"}
  /\ s_pc["monitor"] \in {"stopping", "resetting"} => s_sinkLock = "monitor"

\* A thread that reads the transport does so for a receiver whose sink was told,
\* and it stops only for a thread that waits for it under _sinkLock.
SourceReceiver ==
  /\ s_receiver => s_sink
  /\ s_worker # "blocked" => s_receiver /\ s_told \in {"playing", "pausing"}
  /\ s_worker = "block" => ~s_running
  /\ s_told = "pausing" => "stopping" \in {s_pc["rpc"], s_pc["monitor"]}
  /\ "stopping" \in {s_pc["rpc"], s_pc["monitor"]}
       => s_told = "pausing" /\ s_receiver /\ ~s_running
  /\ "resetting" \in {s_pc["rpc"], s_pc["monitor"]} => s_receiver /\ ~s_running
  /\ s_told = "playing" /\ "resetting" \notin {s_pc["rpc"], s_pc["monitor"]}
       => s_running /\ s_worker # "blocked"

\* Of a plugin that is gone only what the monitor is about to release is held.
SourceHeld ==
  /\ Source!InterfacesAreAlive
  /\ Source!CallbacksAreRegistered
  /\ ~s_up /\ s_pc["monitor"] \in {"idle", "notify"} => s_held = {}

SourceInv == Source!TypeOK /\ SourceLocks /\ SourceReceiver /\ SourceHeld

\* What a step of one of the three threads leaves of the others.
LEMMA SourceGoto ==
  ASSUME Source!TypeOK, NEW t \in Source!Threads, NEW step \in Source!Steps,
         Source!Goto(t, step)
  PROVE  /\ s_pc' \in [Source!Threads -> Source!Steps]
         /\ \A u \in Source!Threads : s_pc'[u] = IF u = t THEN step ELSE s_pc[u]
BY DEF Source!TypeOK, Source!Goto

LEMMA SourceInit ==
  ASSUME Source!ThreadsAssumption, Source!Init PROVE SourceInv
<1>1. /\ s_pc \in [Source!Threads -> Source!Steps]
      /\ \A t \in Source!Threads : s_pc[t] = "idle"
  BY DEF Source!Init, Source!Steps
<1>2. /\ s_up \in BOOLEAN /\ s_sink \in BOOLEAN /\ s_receiver \in BOOLEAN
      /\ s_running \in BOOLEAN
  BY Zenon DEF Source!Init
<1>3. Source!TypeOK
  BY <1>1, <1>2, SourceThreads DEF Source!Init, Source!TypeOK, Source!Owners
<1>. QED
  BY <1>1, <1>3, SourceThreads
     DEF Source!Init, SourceUsing, SourceInv, SourceLocks, SourceReceiver, SourceHeld,
         Source!InterfacesAreAlive, Source!CallbacksAreRegistered, Source!At

\* The receiver's thread.
LEMMA SourceWorkerStep ==
  ASSUME Source!ThreadsAssumption, SourceInv, Source!Worker PROVE SourceInv'
<1>1. UNCHANGED <<s_up, s_held, s_lock, s_sinkLock, s_sink, s_receiver, s_told,
        s_registered,
                  s_pc, s_running>>
  BY DEF Source!Worker, Source!WorkerGet, Source!WorkerDelivered,
         Source!WorkerCheck, Source!WorkerBlock, Source!ReceiverRest
<1>2. SourceLocks' /\ SourceHeld'
  BY <1>1, SourceThreads
     DEF SourceInv, SourceLocks, SourceHeld, Source!InterfacesAreAlive,
         Source!CallbacksAreRegistered, Source!At
<1>3. /\ s_worker' \in {"blocked", "get", "frame", "check", "block"}
      /\ s_worker # "blocked"
      /\ s_worker' = "blocked" => s_worker = "block"
      /\ s_worker' = "block" => ~s_running
  BY DEF Source!Worker, Source!WorkerGet, Source!WorkerDelivered,
         Source!WorkerCheck, Source!WorkerBlock
<1>4. SourceReceiver'
  BY <1>1, <1>3 DEF SourceInv, SourceReceiver
<1>5. Source!TypeOK'
  BY <1>1, <1>3 DEF SourceInv, Source!TypeOK
<1>. QED
  BY <1>2, <1>4, <1>5 DEF SourceInv

\* The calls of the plugin, which the monitor makes too on the way down.
LEMMA SourcePluginStep ==
  ASSUME Source!ThreadsAssumption, SourceInv, Source!Plugin PROVE SourceInv'
<1>. USE DEF SourceInv
<1>1. UNCHANGED <<s_up, s_held, s_lock, s_sink, s_registered>>
  BY DEF Source!Plugin, Source!OnAcquire, Source!OnPlay, Source!StateChanged,
         Source!StateChangedDone, Source!OnPause, Source!OnPauseDone,
         Source!OnRelinquish, Source!OnRelinquishDone, Source!Rest
<1>2. CASE Source!OnAcquire
  <2>1. /\ UNCHANGED <<s_worker, s_sinkLock, s_pc>> /\ ~s_receiver /\ s_sink
        /\ s_receiver' = TRUE /\ s_running' = FALSE /\ s_told' = "acquired"
        /\ s_sinkLock = "none"
    BY <1>2 DEF Source!OnAcquire
  <2>2. Source!TypeOK'
    <3>1. s_receiver' \in BOOLEAN /\ s_running' \in BOOLEAN
      BY <2>1, Zenon
    <3>. QED
      BY <1>1, <2>1, <3>1 DEF Source!TypeOK
  <2>3. SourceLocks' /\ SourceHeld'
    BY <1>1, <2>1, SourceThreads
       DEF SourceLocks, SourceHeld, Source!InterfacesAreAlive,
           Source!CallbacksAreRegistered, Source!At
  <2>4. SourceReceiver'
    BY <1>1, <2>1, SourceThreads DEF SourceReceiver, SourceLocks
  <2>. QED
    BY <2>2, <2>3, <2>4
<1>3. CASE Source!OnPlay
  <2>1. /\ UNCHANGED <<s_receiver, s_sinkLock, s_pc>> /\ s_receiver /\ s_sink
        /\ s_running' = TRUE /\ s_told' = "playing" /\ s_sinkLock = "none"
        /\ s_worker' = IF s_worker = "blocked" THEN "get" ELSE s_worker
    BY <1>3 DEF Source!OnPlay, Source!Start
  <2>2. Source!TypeOK'
    <3>1. s_running' \in BOOLEAN
      BY <2>1, Zenon
    <3>. QED
      BY <1>1, <2>1, <3>1 DEF Source!TypeOK
  <2>3. SourceLocks' /\ SourceHeld'
    BY <1>1, <2>1, SourceThreads
       DEF SourceLocks, SourceHeld, Source!InterfacesAreAlive,
           Source!CallbacksAreRegistered, Source!At
  <2>4. SourceReceiver'
    BY <1>1, <2>1, SourceThreads DEF SourceReceiver, SourceLocks
  <2>. QED
    BY <2>2, <2>3, <2>4
<1>4. ASSUME NEW t \in {"rpc", "monitor"},
               Source!OnPause(t) \/ Source!OnRelinquish(t)
      PROVE  SourceInv'
  <2>1. /\ UNCHANGED <<s_receiver, s_worker>> /\ s_sinkLock = "none"
        /\ s_sinkLock' = t
        /\ s_receiver /\ s_running' = FALSE
        /\ s_pc[t] \in (IF t = "rpc" THEN {"idle"} ELSE {"pause", "relinquish"})
        /\ \/ s_told' = "pausing" /\ Source!Goto(t, "stopping")
           \/ s_told' = s_told /\ Source!Goto(t, "resetting")
    BY <1>4 DEF Source!OnPause, Source!OnRelinquish, Source!At
  <2>2. /\ s_pc' \in [Source!Threads -> Source!Steps]
        /\ \/ s_told' = "pausing" /\ s_pc'[t] = "stopping"
           \/ s_told' = s_told /\ s_pc'[t] = "resetting"
        /\ \A u \in Source!Threads \ {t} : s_pc'[u] = s_pc[u]
    BY <2>1, SourceGoto, SourceThreads DEF Source!Steps
  <2>3. Source!TypeOK'
    <3>1. s_running' \in BOOLEAN
      BY <2>1, Zenon
    <3>. QED
      BY <1>1, <2>1, <2>2, <3>1, SourceThreads DEF Source!TypeOK
  <2>4. SourceLocks' /\ SourceHeld'
    BY <1>1, <2>1, <2>2, SourceThreads
       DEF SourceLocks, SourceHeld, Source!InterfacesAreAlive,
           Source!CallbacksAreRegistered, Source!At
  <2>5. SourceReceiver'
    BY <1>1, <2>1, <2>2, SourceThreads DEF SourceReceiver, SourceLocks
  <2>. QED
    BY <2>3, <2>4, <2>5
<1>5. ASSUME NEW t \in {"rpc", "monitor"},
               Source!OnPauseDone(t) \/ Source!OnRelinquishDone(t)
      PROVE  SourceInv'
  <2>1. /\ UNCHANGED <<s_running, s_worker>> /\ s_sinkLock' = "none"
        /\ s_worker = "blocked"
        /\ \/ /\ s_pc[t] = "stopping"
              /\ s_told' = "acquired" /\ s_receiver' = s_receiver
              /\ Source!Goto(t, IF t = "monitor" THEN "relinquish" ELSE "idle")
           \/ /\ s_pc[t] = "resetting"
              /\ s_told' = "free" /\ s_receiver' = FALSE
              /\ Source!Goto(t, IF t = "monitor" THEN "cleanup" ELSE "idle")
    BY <1>5
       DEF Source!OnPauseDone, Source!OnRelinquishDone, Source!At,
           Source!Stopped
  <2>2. /\ s_pc' \in [Source!Threads -> Source!Steps]
        /\ s_pc'[t] \in
               (IF t = "rpc" THEN {"idle"} ELSE {"relinquish", "cleanup"})
        /\ \A u \in Source!Threads \ {t} : s_pc'[u] = s_pc[u]
    BY <2>1, SourceGoto, SourceThreads DEF Source!Steps
  <2>3. Source!TypeOK'
    <3>1. s_receiver' \in BOOLEAN
      BY <2>1, Zenon DEF Source!TypeOK
    <3>. QED
      BY <1>1, <2>1, <2>2, <3>1, SourceThreads DEF Source!TypeOK
  <2>4. SourceLocks' /\ SourceHeld'
    BY <1>1, <2>1, <2>2, SourceThreads
       DEF SourceLocks, SourceHeld, Source!InterfacesAreAlive,
           Source!CallbacksAreRegistered, Source!At
  <2>5. SourceReceiver'
    BY <1>1, <2>1, <2>2, SourceThreads DEF SourceReceiver, SourceLocks
  <2>. QED
    BY <2>3, <2>4, <2>5
<1>6. CASE Source!StateChanged \/ Source!StateChangedDone
  <2>1. /\ UNCHANGED <<s_receiver, s_running, s_worker, s_told>>
        /\ \/ /\ s_pc["rpc"] = "idle" /\ s_sinkLock = "none"
              /\ s_sinkLock' = "rpc"
              /\ "state" \in s_registered /\ Source!Goto("rpc", "tell")
           \/ /\ s_pc["rpc"] = "tell" /\ s_sinkLock' = "none"
              /\ Source!Goto("rpc", "idle")
    BY <1>6
       DEF Source!StateChanged, Source!StateChangedDone, Source!At,
           Source!receiverVars
  <2>2. /\ s_pc' \in [Source!Threads -> Source!Steps]
        /\ s_pc'["rpc"] = IF s_pc["rpc"] = "idle" THEN "tell" ELSE "idle"
        /\ \A u \in Clients \cup {"monitor"} : s_pc'[u] = s_pc[u]
    BY <2>1, SourceGoto, SourceThreads DEF Source!Steps
  <2>3. Source!TypeOK'
    BY <1>1, <2>1, <2>2, SourceThreads DEF Source!TypeOK
  <2>4. SourceLocks' /\ SourceHeld'
    BY <1>1, <2>1, <2>2, SourceThreads
       DEF SourceLocks, SourceHeld, Source!InterfacesAreAlive,
           Source!CallbacksAreRegistered, Source!At
  <2>5. SourceReceiver'
    BY <1>1, <2>1, <2>2, SourceThreads DEF SourceReceiver, SourceLocks
  <2>. QED
    BY <2>3, <2>4, <2>5
<1>. QED
  BY <1>2, <1>3, <1>4, <1>5, <1>6 DEF Source!Plugin

\* The monitor.
LEMMA SourceMonitorStep ==
  ASSUME Source!ThreadsAssumption, SourceInv, Source!Monitor PROVE SourceInv'
<1>. USE DEF SourceInv
<1>1. UNCHANGED <<s_sink, s_receiver, s_running, s_worker, s_told,
        s_registered>>
  BY DEF Source!Monitor, Source!OperationalUp, Source!OperationalDown,
         Source!OnPauseFails, Source!NothingToRelinquish, Source!Cleanup,
         Source!Notify, Source!Rest, Source!receiverVars
<1>2. PICK step \in {"idle", "pause", "relinquish", "cleanup", "notify"} :
        /\ \/ Source!Goto("monitor", step)
           \/ step = s_pc["monitor"] /\ UNCHANGED s_pc
        /\ \/ /\ s_pc["monitor"] = "idle" /\ s_lock = "none"
              /\ step \in {"idle", "notify"}
              /\ s_up' = TRUE /\ s_held' \subseteq Source!Interfaces
              /\ UNCHANGED <<s_lock, s_sinkLock>>
           \/ /\ s_pc["monitor"] = "idle" /\ s_lock = "none" /\ step = "pause"
              /\ s_up' = FALSE /\ s_lock' = "monitor"
              /\ UNCHANGED <<s_held, s_sinkLock>>
           \/ /\ s_pc["monitor"] = "pause" /\ step = "relinquish"
              /\ UNCHANGED <<s_up, s_held, s_lock, s_sinkLock>>
           \/ /\ s_pc["monitor"] = "relinquish" /\ step = "cleanup"
              /\ UNCHANGED <<s_up, s_held, s_lock, s_sinkLock>>
           \/ /\ s_pc["monitor"] = "cleanup" /\ step = "notify"
              /\ s_held' = {} /\ s_lock' = "none"
              /\ UNCHANGED <<s_up, s_sinkLock>>
           \/ /\ s_pc["monitor"] = "notify"
              /\ UNCHANGED <<s_up, s_held, s_lock>>
              /\ s_sinkLock \in {"none", "monitor"}
              /\ \/ /\ s_sinkLock' = "monitor" /\ "operational" \in s_registered
                    /\ step = "notify"
                 \/ s_sinkLock' = "none" /\ step = "idle"
  <2>1. CASE Source!OperationalUp
    BY <2>1 DEF Source!OperationalUp, Source!At, Source!Interfaces
  <2>2. CASE Source!OperationalDown
    BY <2>2 DEF Source!OperationalDown, Source!At
  <2>3. CASE Source!OnPauseFails \/ Source!NothingToRelinquish
    BY <2>3
       DEF Source!OnPauseFails, Source!NothingToRelinquish, Source!At,
           Source!Rest
  <2>4. CASE Source!Cleanup
    BY <2>4 DEF Source!Cleanup, Source!At
  <2>5. CASE Source!Notify
    BY <2>5 DEF Source!Notify, Source!At, Source!Rest
  <2>. QED
    BY <2>1, <2>2, <2>3, <2>4, <2>5 DEF Source!Monitor
<1>3. /\ s_pc' \in [Source!Threads -> Source!Steps]
      /\ s_pc'["monitor"] = step
      /\ \A u \in Clients \cup {"rpc"} : s_pc'[u] = s_pc[u]
  <2>1. CASE Source!Goto("monitor", step)
    BY <2>1, SourceGoto, SourceThreads DEF Source!Steps
  <2>2. CASE UNCHANGED s_pc /\ step = s_pc["monitor"]
    BY <2>2 DEF Source!TypeOK
  <2>. QED
    BY <1>2, <2>1, <2>2
<1>4. s_up' \in BOOLEAN
  BY <1>2, Zenon DEF Source!TypeOK
<1>5. Source!TypeOK'
  BY <1>1, <1>2, <1>3, <1>4, SourceThreads DEF Source!TypeOK
<1>6. SourceLocks'
  BY <1>2, <1>3, SourceThreads DEF SourceLocks
<1>7. SourceHeld'
  BY <1>1, <1>2, <1>3, SourceThreads
     DEF SourceLocks, SourceHeld, Source!InterfacesAreAlive,
         Source!CallbacksAreRegistered, Source!At
<1>8. SourceReceiver'
  BY <1>1, <1>2, <1>3, SourceThreads DEF SourceReceiver, SourceLocks
<1>. QED
  BY <1>5, <1>6, <1>7, <1>8

\* A client that goes on to another step, with or without _lock.
LEMMA SourceClientStep ==
  ASSUME Source!ThreadsAssumption, SourceInv, NEW c \in Clients,
         NEW step \in {"idle", "announce", "ask", "calling"} \cup SourceUsing,
         UNCHANGED <<s_up, s_held, s_sinkLock, s_sink, s_receiver, s_running,
                     s_worker, s_told>>,
         Source!Goto(c, step),
         \/ s_pc[c] \notin SourceUsing /\ step \notin SourceUsing /\ s_lock' = s_lock
         \/ s_pc[c] \in SourceUsing /\ step \notin SourceUsing /\ s_lock' = "none"
         \/ s_lock = "none" /\ step \in SourceUsing /\ s_lock' = c,
         step \in {"callSource", "askSource"} => "source" \in s_held,
         step = "callStream" => "stream" \in s_held,
         s_registered \subseteq s_registered',
         s_registered' \subseteq {"operational", "state"}
  PROVE  SourceInv'
<1>. USE DEF SourceInv
<1>1. /\ s_pc' \in [Source!Threads -> Source!Steps]
      /\ s_pc'[c] = step
      /\ \A u \in Source!Threads \ {c} : s_pc'[u] = s_pc[u]
  BY SourceGoto, SourceThreads DEF Source!Steps, SourceUsing
<1>2. Source!TypeOK'
  BY <1>1, SourceThreads DEF Source!TypeOK
<1>3. s_pc'["rpc"] = s_pc["rpc"] /\ s_pc'["monitor"] = s_pc["monitor"]
  BY <1>1, SourceThreads
<1>4. /\ s_lock' = "monitor" <=> s_lock = "monitor"
      /\ s_lock' # "rpc"
      /\ \A d \in Clients : s_lock' = d <=> s_pc'[d] \in SourceUsing
  BY <1>1, SourceThreads DEF SourceLocks
<1>5. SourceLocks'
  BY <1>1, <1>3, <1>4, SourceThreads DEF SourceLocks
<1>6. SourceReceiver'
  BY <1>3 DEF SourceReceiver
<1>7. SourceHeld'
  BY <1>1, <1>3, SourceThreads
     DEF SourceHeld, Source!InterfacesAreAlive, Source!CallbacksAreRegistered,
         Source!At
<1>. QED
  BY <1>2, <1>5, <1>6, <1>7

\* The application.
LEMMA SourceAppStep ==
  ASSUME Source!ThreadsAssumption, SourceInv, Source!App PROVE SourceInv'
<1>. USE DEF SourceInv
<1>. PICK c \in Clients :
       \/ Source!SetSink(c) \/ Source!ClearSink(c) \/ Source!Call(c)
       \/ Source!Return(c) \/ Source!Register(c) \/ Source!Announce(c)
       \/ Source!AskState(c) \/ Source!StateAsked(c) \/ Source!Called(c)
       \/ Source!Unregister(c)
  BY DEF Source!App
<1>1. UNCHANGED <<s_up, s_held, s_sinkLock, s_receiver, s_running, s_worker,
        s_told>>
  BY DEF Source!SetSink, Source!ClearSink, Source!Call, Source!Return,
         Source!Register, Source!Announce, Source!AskState, Source!StateAsked,
         Source!Called, Source!Unregister, Source!receiverVars
<1>2. CASE Source!SetSink(c) \/ Source!ClearSink(c)
  <2>1. /\ UNCHANGED <<s_lock, s_registered, s_pc>> /\ s_sink' \in BOOLEAN
        /\ s_receiver => s_sink'
    BY <1>2 DEF Source!SetSink, Source!ClearSink
  <2>. QED
    BY <1>1, <2>1
       DEF Source!TypeOK, SourceLocks, SourceReceiver, SourceHeld,
           Source!InterfacesAreAlive, Source!CallbacksAreRegistered, Source!At
<1>3. CASE Source!Unregister(c)
  <2>1. /\ UNCHANGED <<s_lock, s_sink, s_pc>> /\ s_sinkLock = "none"
        /\ s_registered' \subseteq {"operational", "state"}
    BY <1>3 DEF Source!Unregister, Source!TypeOK
  <2>. QED
    BY <1>1, <2>1
       DEF Source!TypeOK, SourceLocks, SourceReceiver, SourceHeld,
           Source!InterfacesAreAlive, Source!CallbacksAreRegistered, Source!At
<1>4. CASE Source!Call(c)
  <2>1. /\ UNCHANGED <<s_sink, s_registered>>
        /\ s_lock = "none" /\ s_lock' = c
        /\ \/ "source" \in s_held /\ Source!Goto(c, "callSource")
           \/ "stream" \in s_held /\ Source!Goto(c, "callStream")
    BY <1>4 DEF Source!Call
  <2>. QED
    BY <1>1, <2>1, SourceClientStep DEF Source!TypeOK, SourceUsing
<1>5. CASE Source!Return(c)
  <2>1. /\ UNCHANGED <<s_sink, s_registered>>
        /\ s_pc[c] \in SourceUsing
        /\ s_lock' = IF s_lock = c THEN "none" ELSE s_lock
        /\ Source!Goto(c, "idle")
    BY <1>5 DEF Source!Return, SourceUsing
  <2>2. s_lock' = "none"
    BY <2>1 DEF SourceLocks
  <2>. QED
    BY <1>1, <2>1, <2>2, SourceClientStep DEF Source!TypeOK, SourceUsing
<1>6. CASE Source!Register(c)
  <2>1. PICK cb \in {"operational", "state"} :
          /\ s_registered' = s_registered \cup {cb}
          /\ Source!Goto(c, IF cb = "operational" THEN "announce" ELSE "ask")
    BY <1>6 DEF Source!Register
  <2>2. UNCHANGED <<s_sink, s_lock>> /\ s_pc[c] \notin SourceUsing
    BY <1>6 DEF Source!Register, Source!At, SourceUsing
  <2>. QED
    BY <1>1, <2>1, <2>2, SourceClientStep DEF Source!TypeOK, SourceUsing
<1>7. CASE Source!Announce(c) \/ Source!Called(c)
  <2>1. /\ UNCHANGED <<s_sink, s_lock, s_registered>>
        /\ s_pc[c] \notin SourceUsing
        /\ Source!Goto(c, "idle") \/ Source!Goto(c, "calling")
    BY <1>7 DEF Source!Announce, Source!Called, Source!At, SourceUsing
  <2>. QED
    BY <1>1, <2>1, SourceClientStep DEF Source!TypeOK, SourceUsing
<1>8. CASE Source!AskState(c)
  <2>1. /\ UNCHANGED <<s_sink, s_registered>>
        /\ s_pc[c] \notin SourceUsing
        /\ s_lock = "none"
        /\ \/ /\ "source" \in s_held /\ s_lock' = c
              /\ Source!Goto(c, "askSource")
           \/ s_lock' = s_lock /\ Source!Goto(c, "calling")
    BY <1>8 DEF Source!AskState, Source!At, SourceUsing
  <2>. QED
    BY <1>1, <2>1, SourceClientStep DEF Source!TypeOK, SourceUsing
<1>9. CASE Source!StateAsked(c)
  <2>1. /\ UNCHANGED <<s_sink, s_registered>>
        /\ s_pc[c] \in SourceUsing
        /\ s_lock' = "none" /\ Source!Goto(c, "calling")
    BY <1>9 DEF Source!StateAsked, Source!At, SourceUsing
  <2>. QED
    BY <1>1, <2>1, SourceClientStep DEF Source!TypeOK, SourceUsing
<1>. QED
  BY <1>2, <1>3, <1>4, <1>5, <1>6, <1>7, <1>8, <1>9

LEMMA SourceAlways ==
  ASSUME Source!ThreadsAssumption PROVE Source!Spec => []SourceInv
<1>1. SourceInv /\ UNCHANGED Source!vars => SourceInv'
  BY DEF Source!vars, SourceInv, Source!TypeOK, SourceLocks, SourceReceiver,
         SourceHeld, Source!InterfacesAreAlive, Source!CallbacksAreRegistered,
         Source!At
<1>2. SourceInv /\ [Source!Next]_(Source!vars) => SourceInv'
  BY <1>1, SourceWorkerStep, SourcePluginStep, SourceMonitorStep, SourceAppStep
     DEF Source!Next
<1>. QED
  BY <1>2, SourceInit, PTL DEF Source!Spec

\* What follows of it.
LEMMA SourceProperties ==
  SourceInv => /\ Source!TypeOK
               /\ Source!FramesOnlyWhilePlaying
               /\ Source!CallbacksAreRegistered
               /\ Source!InterfacesAreAlive
               /\ Source!NothingIsKept
BY DEF SourceInv, SourceHeld, SourceReceiver, Source!FramesOnlyWhilePlaying,
       Source!NothingIsKept, Source!At, Source!Threads

-----------------------------------------------------------------------------
(* The Bluetooth audio sink *)

SinkDeparting == {"destroy", "teardown", "close"}
SinkCalling == {"state", "configure", "acquire", "relinquish", "control",
  "frame", "announce", "calling"}

\* What a thread does while it holds _lock.
SinkLock ==
  /\ b_pc[Sink!Monitor] \in {"idle", "reset", "release", "notify", "tell"}
  /\ b_lock = Sink!Monitor <=> b_pc[Sink!Monitor] # "idle"
  /\ \A c \in Clients :
       /\ b_pc[c] \in {"idle", "register"} \cup SinkDeparting \cup SinkCalling
       /\ b_pc[c] = "register" <=> b_lock = c
  /\ Sink!CallbacksAreRegistered

\* Who has a reference to the AudioSink.
SinkShared ==
  /\ IsFiniteSet(b_user) /\ b_user \subseteq Clients
  /\ b_refCount = Cardinality(b_user)
  /\ \A c \in Clients : b_pc[c] \notin {"idle"} \cup SinkDeparting
       => c \in b_user
  /\ (\E c \in Clients : b_pc[c] \in SinkDeparting) => b_user = {}

SinkInv == Sink!TypeOK /\ SinkLock /\ SinkShared

LEMMA SinkThreads ==
  ASSUME Player!ArraysAssumption
  PROVE  /\ Sink!Monitor \notin Clients /\ Sink!Nobody \notin Clients
         /\ Sink!Monitor # Sink!Nobody /\ Sink!Nobody \notin Sink!Threads
         /\ Sink!Threads = Clients \cup {Sink!Monitor}
BY DEF Player!ArraysAssumption, Sink!Monitor, Sink!Nobody, Sink!Threads

LEMMA SinkCardinality == ASSUME NEW S PROVE Sink!Cardinality(S) = Cardinality(S)
BY DEF Sink!Cardinality, Cardinality

LEMMA SinkInit == ASSUME Player!ArraysAssumption, Sink!Init PROVE SinkInv
<1>1. /\ b_pc \in [Sink!Threads -> Sink!Steps]
      /\ \A t \in Sink!Threads : b_pc[t] = "idle"
  BY DEF Sink!Init, Sink!Steps
<1>2. /\ b_up \in BOOLEAN /\ b_sink \in BOOLEAN /\ b_control \in BOOLEAN
      /\ b_frameSize \in BOOLEAN
  BY Zenon DEF Sink!Init
<1>3. Sink!TypeOK
  BY <1>1, <1>2 DEF Sink!Init, Sink!TypeOK
<1>4. SinkLock
  BY <1>1, SinkThreads
     DEF Sink!Init, SinkLock, SinkDeparting, SinkCalling,
         Sink!CallbacksAreRegistered, Sink!At
<1>5. SinkShared
  BY <1>1, SinkThreads, FS_EmptySet
     DEF Sink!Init, SinkShared, SinkDeparting, SinkCalling
<1>. QED
  BY <1>3, <1>4, <1>5 DEF SinkInv

\* What a step of a thread leaves of the others.
LEMMA SinkGoto ==
  ASSUME Sink!TypeOK, NEW t \in Sink!Threads, NEW step \in Sink!Steps,
         Sink!Goto(t, step)
  PROVE  /\ b_pc' \in [Sink!Threads -> Sink!Steps]
         /\ \A u \in Sink!Threads : b_pc'[u] = IF u = t THEN step ELSE b_pc[u]
BY DEF Sink!TypeOK, Sink!Goto

\* init() and deinit(): the count follows the users.
LEMMA SinkUsersStep ==
  ASSUME Player!ArraysAssumption, SinkInv, NEW c \in Clients,
         Sink!Create(c) \/ Sink!Destroy(c)
  PROVE  SinkInv'
<1>. USE DEF SinkInv
<1>1. UNCHANGED <<b_up, b_sink, b_control, b_frameSize, b_buffer, b_callbacks,
        b_lock, b_sinkLock>>
  BY DEF Sink!Create, Sink!Destroy, Sink!stream, Sink!locks
<1>2. b_refCount \in Nat /\ b_refCount = Cardinality(b_user)
  BY DEF Sink!TypeOK, SinkShared
<1>3. \A d \in Clients : b_pc[d] \notin SinkDeparting
  BY DEF Sink!Create, Sink!Destroy, Sink!Destroying, SinkDeparting
<1>4. CASE Sink!Create(c)
  <2>1. /\ c \notin b_user /\ b_user' = b_user \cup {c}
        /\ b_refCount' = b_refCount + 1
        /\ b_pc' = b_pc
    BY <1>4 DEF Sink!Create
  <2>2. IsFiniteSet(b_user') /\ Cardinality(b_user') = b_refCount + 1
    BY <1>2, <2>1, FS_AddElement DEF SinkShared
  <2>3. SinkShared'
    BY <1>3, <2>1, <2>2 DEF SinkShared
  <2>4. SinkLock'
    BY <1>1, <2>1 DEF SinkLock, Sink!CallbacksAreRegistered, Sink!At
  <2>5. Sink!TypeOK'
    BY <1>1, <1>2, <2>1 DEF Sink!TypeOK
  <2>. QED
    BY <2>3, <2>4, <2>5
<1>5. CASE Sink!Destroy(c)
  <2>1. /\ c \in b_user /\ b_user' = b_user \ {c}
        /\ b_refCount' = b_refCount - 1
        /\ b_pc[c] = "idle"
        /\ IF b_refCount = 1 THEN Sink!Goto(c, "destroy") ELSE b_pc' = b_pc
    BY <1>5 DEF Sink!Destroy, Sink!Ready, Sink!At
  <2>2. /\ IsFiniteSet(b_user') /\ Cardinality(b_user') = b_refCount - 1
        /\ b_refCount - 1 \in Nat
    <3>1. IsFiniteSet(b_user') /\ Cardinality(b_user') = Cardinality(b_user) - 1
      BY <2>1, FS_RemoveElement DEF SinkShared
    <3>2. Cardinality(b_user') \in Nat
      BY <3>1, FS_CardinalityType
    <3>. QED
      BY <1>2, <3>1, <3>2
  <2>3. b_refCount = 1 => b_user' = {}
    BY <2>2, FS_EmptySet
  <2>4. /\ b_pc' \in [Sink!Threads -> Sink!Steps]
        /\ \A u \in Sink!Threads :
             b_pc'[u] = IF u = c /\ b_refCount = 1 THEN "destroy" ELSE b_pc[u]
    <3>1. CASE b_refCount = 1
      BY <2>1, <3>1, SinkGoto, SinkThreads DEF Sink!Steps
    <3>2. CASE b_refCount # 1
      BY <2>1, <3>2 DEF Sink!TypeOK
    <3>. QED
      BY <3>1, <3>2
  <2>5. SinkShared'
    BY <1>3, <2>1, <2>2, <2>3, <2>4, SinkThreads DEF SinkShared, SinkDeparting
  <2>6. SinkLock'
    BY <1>1, <2>1, <2>4, SinkThreads
       DEF SinkLock, SinkDeparting, Sink!CallbacksAreRegistered, Sink!At
  <2>7. Sink!TypeOK'
    BY <1>1, <2>1, <2>2, <2>4 DEF Sink!TypeOK
  <2>. QED
    BY <2>5, <2>6, <2>7
<1>. QED
  BY <1>4, <1>5

\* The other steps of a client c.
SinkClientStep(c) ==
  \/ Sink!Destruct(c) \/ Sink!Teardown(c) \/ Sink!Close(c)
  \/ Sink!State(c) \/ Sink!Configure(c) \/ Sink!Acquire(c) \/ Sink!Acquired(c)
  \/ Sink!Relinquish(c) \/ Sink!Relinquished(c) \/ Sink!Control(c)
  \/ Sink!Frame(c)
  \/ Sink!Return(c) \/ Sink!Register(c) \/ Sink!Registered(c)
  \/ Sink!Announce(c) \/ Sink!Called(c) \/ Sink!Unregister(c)

\* What they do to the interfaces and the buffer keeps its type.
LEMMA SinkClientTypes ==
  ASSUME Sink!TypeOK, NEW c \in Clients, SinkClientStep(c)
  PROVE  /\ b_up' \in BOOLEAN /\ b_sink' \in BOOLEAN /\ b_control' \in BOOLEAN
         /\ b_frameSize' \in BOOLEAN
         /\ b_buffer' \in {"none", "open", "invalid"}
         /\ b_sinkLock' \in Sink!Threads \cup {Sink!Nobody}
<1>. USE DEF Sink!TypeOK
<1>1. CASE Sink!Destruct(c) \/ Sink!Teardown(c) \/ Sink!Close(c)
  <2>1. /\ b_up' \in BOOLEAN /\ b_sink' \in BOOLEAN /\ b_control' \in BOOLEAN
        /\ b_frameSize' \in BOOLEAN
    BY <1>1, Zenon DEF Sink!Destruct, Sink!Teardown, Sink!Close, Sink!stream
  <2>. QED
    BY <1>1, <2>1
       DEF Sink!Destruct, Sink!Teardown, Sink!Close, Sink!stream, Sink!locks
<1>2. CASE \/ Sink!State(c) \/ Sink!Configure(c) \/ Sink!Acquire(c)
           \/ Sink!Relinquish(c)
           \/ Sink!Control(c) \/ Sink!Frame(c)
  <2>1. UNCHANGED <<b_up, b_sink, b_control>>
    BY <1>2
       DEF Sink!State, Sink!Configure, Sink!Acquire, Sink!Relinquish,
           Sink!Control, Sink!Frame, Sink!Begin
  <2>2. b_frameSize' \in BOOLEAN
    BY <1>2, Zenon
       DEF Sink!State, Sink!Configure, Sink!Acquire, Sink!Relinquish,
           Sink!Control, Sink!Frame, Sink!stream
  <2>3. /\ b_buffer' \in {"none", "open", "invalid"}
        /\ b_sinkLock' \in {b_sinkLock, c}
    BY <1>2
       DEF Sink!State, Sink!Configure, Sink!Acquire, Sink!Relinquish,
           Sink!Control, Sink!Frame, Sink!Begin, Sink!stream, Sink!locks
  <2>. QED
    BY <2>1, <2>2, <2>3 DEF Sink!Threads
<1>3. CASE Sink!Acquired(c) \/ Sink!Relinquished(c) \/ Sink!Return(c)
  <2>1. UNCHANGED <<b_up, b_sink, b_control>> /\ b_sinkLock' = Sink!Nobody
    BY <1>3 DEF Sink!Acquired, Sink!Relinquished, Sink!Return, Sink!End
  <2>2. b_frameSize' \in BOOLEAN
    BY <1>3, Zenon
       DEF Sink!Acquired, Sink!Relinquished, Sink!Return, Sink!stream
  <2>3. b_buffer' \in {"none", "open", "invalid"}
    BY <1>3 DEF Sink!Acquired, Sink!Relinquished, Sink!Return, Sink!stream
  <2>. QED
    BY <2>1, <2>2, <2>3
<1>4. CASE Sink!Register(c) \/ Sink!Registered(c) \/ Sink!Unregister(c)
  BY <1>4
     DEF Sink!Register, Sink!Registered, Sink!Unregister, Sink!stream,
         Sink!locks
<1>5. CASE Sink!Announce(c) \/ Sink!Called(c)
  BY <1>5 DEF Sink!Announce, Sink!Called, Sink!stream, Sink!locks
<1>. QED
  BY <1>1, <1>2, <1>3, <1>4, <1>5 DEF SinkClientStep

\* What they do under the two locks.
LEMMA SinkClientEffect ==
  ASSUME Sink!TypeOK, NEW c \in Clients, SinkClientStep(c)
  PROVE  /\ UNCHANGED <<b_refCount, b_user>>
         /\ b_callbacks' \subseteq Sink!Kinds
         /\ \E step \in Sink!Steps :
              /\ Sink!Goto(c, step) \/ (b_pc' = b_pc /\ step = b_pc[c])
              /\ \/ /\ c \in b_user /\ b_pc[c] = "idle"
                    /\ step \in {"idle"} \cup SinkCalling
                    /\ UNCHANGED <<b_lock, b_callbacks>>
                 \/ /\ b_pc[c] \in SinkCalling /\ step \in {"idle", "calling"}
                    /\ UNCHANGED <<b_lock, b_callbacks>>
                 \/ /\ c \in b_user /\ b_pc[c] = "idle" /\ step = "register"
                    /\ b_lock = Sink!Nobody /\ b_lock' = c
                    /\ "state" \in b_callbacks'
                 \/ /\ c \in b_user /\ b_pc[c] = "idle" /\ step = "announce"
                    /\ b_lock = Sink!Nobody /\ UNCHANGED b_lock
                 \/ /\ b_pc[c] = "register" /\ step = "idle"
                    /\ b_lock' = Sink!Nobody
                    /\ UNCHANGED b_callbacks
                 \/ /\ b_pc[c] = "idle" /\ step = "idle" /\ b_lock = Sink!Nobody
                    /\ UNCHANGED b_lock
                 \/ /\ b_pc[c] \in SinkDeparting /\ step \in SinkDeparting
                    /\ UNCHANGED <<b_lock, b_callbacks>>
                 \/ /\ b_pc[c] \in SinkDeparting /\ step = "idle"
                    /\ b_pc[Sink!Monitor] = "idle" /\ UNCHANGED b_lock
<1>. USE DEF Sink!TypeOK, Sink!Steps, Sink!At, SinkCalling, SinkDeparting,
       Sink!locks
<1>1. CASE Sink!Destruct(c) \/ Sink!Teardown(c) \/ Sink!Close(c)
  BY <1>1 DEF Sink!Destruct, Sink!Teardown, Sink!Close
<1>2. CASE \/ Sink!State(c) \/ Sink!Configure(c) \/ Sink!Acquire(c)
           \/ Sink!Relinquish(c)
           \/ Sink!Control(c) \/ Sink!Frame(c)
  BY <1>2
     DEF Sink!State, Sink!Configure, Sink!Acquire, Sink!Relinquish,
         Sink!Control, Sink!Frame, Sink!Begin, Sink!Ready
<1>3. CASE Sink!Acquired(c) \/ Sink!Relinquished(c) \/ Sink!Return(c)
  BY <1>3 DEF Sink!Acquired, Sink!Relinquished, Sink!Return, Sink!End
<1>4. CASE Sink!Register(c)
  BY <1>4 DEF Sink!Register, Sink!Ready, Sink!Kinds
<1>5. CASE Sink!Registered(c) \/ Sink!Unregister(c)
  BY <1>5 DEF Sink!Registered, Sink!Unregister, Sink!Ready
<1>6. CASE Sink!Announce(c) \/ Sink!Called(c)
  BY <1>6 DEF Sink!Announce, Sink!Called
<1>. QED
  BY <1>1, <1>2, <1>3, <1>4, <1>5, <1>6 DEF SinkClientStep

LEMMA SinkClientKeeps ==
  ASSUME Player!ArraysAssumption, SinkInv, NEW c \in Clients, SinkClientStep(c)
  PROVE  SinkInv'
<1>. USE DEF SinkInv
<1>1. UNCHANGED <<b_refCount, b_user>> /\ b_callbacks' \subseteq Sink!Kinds
  BY SinkClientEffect
<1>2. PICK step \in Sink!Steps :
              /\ Sink!Goto(c, step) \/ (b_pc' = b_pc /\ step = b_pc[c])
              /\ \/ /\ c \in b_user /\ b_pc[c] = "idle"
                    /\ step \in {"idle"} \cup SinkCalling
                    /\ UNCHANGED <<b_lock, b_callbacks>>
                 \/ /\ b_pc[c] \in SinkCalling /\ step \in {"idle", "calling"}
                    /\ UNCHANGED <<b_lock, b_callbacks>>
                 \/ /\ c \in b_user /\ b_pc[c] = "idle" /\ step = "register"
                    /\ b_lock = Sink!Nobody /\ b_lock' = c
                    /\ "state" \in b_callbacks'
                 \/ /\ c \in b_user /\ b_pc[c] = "idle" /\ step = "announce"
                    /\ b_lock = Sink!Nobody /\ UNCHANGED b_lock
                 \/ /\ b_pc[c] = "register" /\ step = "idle"
                    /\ b_lock' = Sink!Nobody
                    /\ UNCHANGED b_callbacks
                 \/ /\ b_pc[c] = "idle" /\ step = "idle" /\ b_lock = Sink!Nobody
                    /\ UNCHANGED b_lock
                 \/ /\ b_pc[c] \in SinkDeparting /\ step \in SinkDeparting
                    /\ UNCHANGED <<b_lock, b_callbacks>>
                 \/ /\ b_pc[c] \in SinkDeparting /\ step = "idle"
                    /\ b_pc[Sink!Monitor] = "idle" /\ UNCHANGED b_lock
  BY SinkClientEffect
<1>3. /\ b_pc' \in [Sink!Threads -> Sink!Steps]
      /\ \A u \in Sink!Threads : b_pc'[u] = IF u = c THEN step ELSE b_pc[u]
  <2>1. CASE Sink!Goto(c, step)
    BY <2>1, SinkGoto, SinkThreads
  <2>2. CASE b_pc' = b_pc /\ step = b_pc[c]
    BY <2>2 DEF Sink!TypeOK
  <2>. QED
    BY <1>2, <2>1, <2>2
<1>4. Sink!TypeOK'
  BY <1>1, <1>2, <1>3, SinkClientTypes DEF Sink!TypeOK, Sink!Threads
<1>5. SinkLock'
  BY <1>2, <1>3, SinkThreads
     DEF SinkLock, SinkShared, SinkCalling, SinkDeparting,
         Sink!CallbacksAreRegistered, Sink!At
<1>6. SinkShared'
  BY <1>1, <1>2, <1>3, SinkThreads DEF SinkShared, SinkCalling, SinkDeparting
<1>. QED
  BY <1>4, <1>5, <1>6

\* The monitor's steps.
LEMMA SinkMonitorStep ==
  ASSUME Player!ArraysAssumption, SinkInv,
         \/ Sink!StateChanged \/ Sink!OperationalUp \/ Sink!OperationalDown
         \/ Sink!ResetBuffer \/ Sink!Release \/ Sink!Notify
  PROVE  SinkInv'
<1>. USE DEF SinkInv
<1>1. UNCHANGED <<b_refCount, b_user, b_callbacks, b_sinkLock, b_frameSize>>
  BY DEF Sink!StateChanged, Sink!OperationalUp, Sink!OperationalDown,
         Sink!ResetBuffer, Sink!Release, Sink!Notify, Sink!stream, Sink!locks
<1>2. /\ b_up' \in BOOLEAN /\ b_sink' \in BOOLEAN /\ b_control' \in BOOLEAN
      /\ b_buffer' \in {"none", "open", "invalid"}
  <2>1. b_up' \in BOOLEAN /\ b_sink' \in BOOLEAN
    BY Zenon
       DEF Sink!TypeOK, Sink!StateChanged, Sink!OperationalUp,
           Sink!OperationalDown, Sink!ResetBuffer, Sink!Release, Sink!Notify
  <2>2. b_control' \in BOOLEAN
    BY Zenon
       DEF Sink!TypeOK, Sink!StateChanged, Sink!OperationalUp,
           Sink!OperationalDown, Sink!ResetBuffer, Sink!Release, Sink!Notify
  <2>3. b_buffer' \in {"none", "open", "invalid"}
    BY DEF Sink!TypeOK, Sink!StateChanged, Sink!OperationalUp,
           Sink!OperationalDown, Sink!ResetBuffer, Sink!Release, Sink!Notify,
           Sink!stream
  <2>. QED
    BY <2>1, <2>2, <2>3
<1>3. PICK step \in {"idle", "reset", "release", "notify", "tell"} :
        /\ Sink!Goto(Sink!Monitor, step)
        /\ \/ /\ b_lock = Sink!Nobody /\ b_lock' = Sink!Monitor /\ step # "idle"
              /\ step = "tell" => "state" \in b_callbacks
           \/ /\ b_pc[Sink!Monitor] # "idle" /\ b_lock' = b_lock
              /\ step \in {"release", "notify"}
           \/ /\ b_pc[Sink!Monitor] # "idle" /\ b_lock' = Sink!Nobody
              /\ step = "idle"
  BY DEF Sink!StateChanged, Sink!OperationalUp, Sink!OperationalDown,
         Sink!ResetBuffer, Sink!Release, Sink!Notify, Sink!locks, Sink!At
<1>4. /\ b_pc' \in [Sink!Threads -> Sink!Steps]
      /\ \A u \in Sink!Threads : b_pc'[u]
             = IF u = Sink!Monitor THEN step ELSE b_pc[u]
  BY <1>3, SinkGoto, SinkThreads DEF Sink!Steps
<1>5. Sink!TypeOK'
  BY <1>1, <1>2, <1>3, <1>4, SinkThreads DEF Sink!TypeOK
<1>6. SinkLock'
  BY <1>1, <1>3, <1>4, SinkThreads
     DEF SinkLock, SinkCalling, SinkDeparting, Sink!CallbacksAreRegistered,
         Sink!At
<1>7. SinkShared'
  BY <1>1, <1>3, <1>4, SinkThreads DEF SinkShared, SinkDeparting
<1>. QED
  BY <1>5, <1>6, <1>7

LEMMA SinkAlways == ASSUME Player!ArraysAssumption PROVE Sink!Spec => []SinkInv
<1>1. SinkInv /\ UNCHANGED Sink!vars => SinkInv'
  BY DEF Sink!vars, SinkInv, Sink!TypeOK, SinkLock, SinkShared,
         Sink!CallbacksAreRegistered, Sink!At
<1>2. SinkInv /\ [Sink!Next]_(Sink!vars) => SinkInv'
  BY <1>1, SinkUsersStep, SinkClientKeeps, SinkMonitorStep
     DEF Sink!Next, SinkClientStep
<1>. QED
  BY <1>2, SinkInit, PTL DEF Sink!Spec

\* What follows of it.
LEMMA SinkProperties ==
  ASSUME SinkInv
  PROVE  Sink!TypeOK /\ Sink!InstanceIsShared /\ Sink!CallbacksAreRegistered
<1>1. b_refCount = Cardinality(b_user) /\ IsFiniteSet(b_user)
  BY DEF SinkInv, SinkShared
<1>2. \A c \in Clients : c \in b_user => b_refCount > 0
  BY <1>1, FS_EmptySet, FS_CardinalityType
<1>3. Sink!Destroying => b_refCount = 0
  BY <1>1, FS_EmptySet DEF SinkInv, SinkShared, Sink!Destroying, SinkDeparting
<1>. QED
  BY <1>1, <1>2, <1>3, SinkCardinality
     DEF SinkInv, SinkLock, SinkShared, Sink!InstanceIsShared, SinkDeparting

-----------------------------------------------------------------------------
(* The client of PlayerInfo *)

\* A thread holds _lock exactly while it is in the middle of a call.
PlayerLockInv == \A t \in Player!Threads : p_pc[t] # "idle" <=> p_lock = t

\* The references the client holds, and what is in use of them.
PlayerHeldInv ==
  /\ Player!ReferencesBalance
  /\ Player!InterfacesAreAlive
  /\ Player!CallbacksAreRegistered

PlayerInv == Player!TypeOK /\ PlayerLockInv /\ PlayerHeldInv

\* A client is no thread of the plugin, and nobody is no thread.
LEMMA PlayerDistinct ==
  ASSUME Player!ArraysAssumption
  PROVE  /\ Player!Nobody \notin Player!Threads
         /\ "monitor" \notin Clients /\ "rpc" \notin Clients
         /\ {"monitor", "rpc"} \subseteq Player!Threads
         /\ Clients \subseteq Player!Threads
BY DEF Player!ArraysAssumption, Player!Threads, Player!Nobody

\* While _lock is free, every thread is idle.
LEMMA PlayerFreeMeansIdle ==
  ASSUME Player!ArraysAssumption, PlayerInv, p_lock = Player!Nobody
  PROVE  \A t \in Player!Threads : p_pc[t] = "idle"
BY PlayerDistinct DEF PlayerInv, PlayerLockInv

\* Taking the lock for a call and giving it back keep LockInv.
LEMMA PlayerBeginEffect ==
  ASSUME Player!ArraysAssumption, PlayerInv, NEW t \in Player!Threads,
         NEW step \in {"player", "dolby", "codecs", "tell"},
         Player!Begin(t, step)
  PROVE  /\ p_lock' \in Player!Threads \cup {Player!Nobody}
         /\ p_pc'
              \in [Player!Threads -> {"idle", "player", "dolby", "codecs",
                "tell"}]
         /\ PlayerLockInv'
         /\ p_pc'[t] = step
         /\ \A u \in Player!Threads \ {t} : p_pc'[u] = "idle"
<1>1. \A u \in Player!Threads : p_pc[u] = "idle"
  BY PlayerFreeMeansIdle DEF Player!Begin
<1>2. p_pc' = [p_pc EXCEPT ![t] = step] /\ p_lock' = t
  BY DEF Player!Begin
<1>3. p_pc \in [Player!Threads -> {"idle", "player", "dolby", "codecs", "tell"}]
  BY DEF PlayerInv, Player!TypeOK
<1>4. p_pc'
        \in [Player!Threads -> {"idle", "player", "dolby", "codecs", "tell"}]
  BY <1>2, <1>3
<1>5. p_pc'[t] = step /\ \A u \in Player!Threads \ {t} : p_pc'[u] = "idle"
  BY <1>1, <1>2, <1>3
<1>6. PlayerLockInv'
  BY <1>2, <1>5 DEF PlayerLockInv
<1>. QED
  BY <1>2, <1>4, <1>5, <1>6

LEMMA PlayerEndEffect ==
  ASSUME Player!ArraysAssumption, PlayerInv, NEW t \in Player!Threads,
         p_pc[t] # "idle",
         p_lock' = Player!Nobody, p_pc' = [p_pc EXCEPT ![t] = "idle"]
  PROVE  /\ p_lock' \in Player!Threads \cup {Player!Nobody}
         /\ p_pc'
              \in [Player!Threads -> {"idle", "player", "dolby", "codecs",
                "tell"}]
         /\ PlayerLockInv'
         /\ \A u \in Player!Threads : p_pc'[u] = "idle"
<1>1. p_pc \in [Player!Threads -> {"idle", "player", "dolby", "codecs", "tell"}]
  BY DEF PlayerInv, Player!TypeOK
<1>2. p_lock = t
  BY DEF PlayerInv, PlayerLockInv
<1>3. \A u \in Player!Threads : p_pc'[u] = "idle"
  BY <1>1, <1>2 DEF PlayerInv, PlayerLockInv
<1>. QED
  BY <1>1, <1>3, PlayerDistinct DEF PlayerLockInv

\* What the client answers about codecs has its type and fits the array.
LEMMA PlayerCountFits ==
  ASSUME NEW n \in Nat, NEW l \in 0..255
  PROVE  /\ Player!Count(n, l) \in -128..127
         /\ Player!Count(n, l) > 0
              => Player!Count(n, l) <= l /\ Player!Count(n, l) <= n
         /\ Player!Count(n, l) < 0 => l <= -Player!Count(n, l)
BY DEF Player!Count, Player!NewArraySize

LEMMA PlayerInit ==
  ASSUME Player!ArraysAssumption, Player!Init
  PROVE  PlayerInv /\ Player!CodecsFit
<1>1. \A t \in Player!Threads : p_lock # t
  BY PlayerDistinct DEF Player!Init
<1>2. p_answer \in [codecs : Nat, length : 0..255, value : -128..127]
  <2>1. 0 \in Nat /\ 0 \in 0..255 /\ 0 \in -128..127
    OBVIOUS
  <2>. QED
    BY <2>1 DEF Player!Init
<1>5. p_sinks \in Nat
  BY DEF Player!Init
<1>6. Player!TypeOK
  BY <1>2, <1>5 DEF Player!Init, Player!TypeOK
<1>7. PlayerLockInv
  BY <1>1 DEF Player!Init, PlayerLockInv
<1>3. PlayerHeldInv
  BY PlayerDistinct
     DEF Player!Init, PlayerHeldInv, Player!ReferencesBalance,
         Player!InterfacesAreAlive, Player!CallbacksAreRegistered
<1>4. Player!CodecsFit
  BY DEF Player!Init, Player!CodecsFit
<1>. QED
  BY <1>3, <1>4, <1>6, <1>7 DEF PlayerInv

\* The plugin's coming and going.
LEMMA PlayerOperationalStep ==
  ASSUME Player!ArraysAssumption, PlayerInv,
         Player!OperationalUp \/ Player!OperationalDown
  PROVE  PlayerInv'
<1>1. Player!Begin("monitor", "tell")
  BY DEF Player!OperationalUp, Player!OperationalDown
<1>2. /\ "monitor" \in Player!Threads /\ "rpc" \in Player!Threads
      /\ Clients \subseteq Player!Threads \ {"monitor"}
  BY PlayerDistinct
<1>3. /\ p_lock' \in Player!Threads \cup {Player!Nobody}
      /\ p_pc'
           \in [Player!Threads -> {"idle", "player", "dolby", "codecs", "tell"}]
      /\ PlayerLockInv'
      /\ \A u \in Player!Threads \ {"monitor"} : p_pc'[u] = "idle"
  BY <1>1, <1>2, PlayerBeginEffect
<1>4. Player!InterfacesAreAlive' /\ Player!CallbacksAreRegistered'
  BY <1>2, <1>3 DEF Player!InterfacesAreAlive, Player!CallbacksAreRegistered
<1>5. UNCHANGED <<p_callbacks, p_answer>> /\ p_up' \in BOOLEAN
  BY DEF Player!OperationalUp, Player!OperationalDown
<1>6. Player!ReferencesBalance' /\ p_player' \in BOOLEAN /\ p_dolby' \in BOOLEAN
        /\ p_sinks' \in Nat
  <2>1. /\ p_sinks = IF p_dolby THEN 1 ELSE 0
        /\ p_dolby => p_player
        /\ ~p_up => ~p_player
        /\ p_player \in BOOLEAN /\ p_dolby \in BOOLEAN
    BY DEF PlayerInv, PlayerHeldInv, Player!ReferencesBalance, Player!TypeOK
  <2>a. p_sinks + 1 = IF p_dolby THEN 2 ELSE 1
    BY <2>1
  <2>b. p_dolby => p_sinks - 1 = 0
    BY <2>1
  <2>2. CASE Player!OperationalUp
    <3>1. \/ /\ p_player' = p_player /\ p_dolby' = p_dolby /\ p_sinks' = p_sinks
             /\ p_player
          \/ /\ ~p_player /\ p_player' = FALSE /\ p_dolby' = p_dolby
             /\ p_sinks' = p_sinks
          \/ /\ ~p_player /\ p_player' = TRUE /\ p_dolby' = p_dolby
             /\ p_sinks' = p_sinks
          \/ p_player' = TRUE /\ p_dolby' = TRUE /\ p_sinks' = 1
      BY <2>1, <2>2, <2>a DEF Player!OperationalUp
    <3>2. p_up' = TRUE
      BY <2>2 DEF Player!OperationalUp
    <3>3. p_sinks' \in Nat
      BY <2>1, <3>1
    <3>4. p_player' \in BOOLEAN /\ p_dolby' \in BOOLEAN
      BY <2>1, <3>1, Zenon
    <3>. QED
      BY <2>1, <3>1, <3>2, <3>3, <3>4 DEF Player!ReferencesBalance
  <2>3. CASE Player!OperationalDown
    <3>1. /\ p_sinks' = 0 /\ p_dolby' = FALSE /\ p_player' = FALSE
      BY <2>1, <2>3, <2>b DEF Player!OperationalDown
    <3>. QED
      BY <3>1 DEF Player!ReferencesBalance
  <2>. QED
    BY <2>2, <2>3
<1>7. Player!TypeOK'
  BY <1>3, <1>5, <1>6 DEF PlayerInv, Player!TypeOK
<1>. QED
  BY <1>3, <1>4, <1>6, <1>7 DEF PlayerInv, PlayerHeldInv

\* Calls that begin under the lock and change nothing yet.
LEMMA PlayerCallStep ==
  ASSUME Player!ArraysAssumption, PlayerInv,
         \/ Player!DolbySoundModeUpdated
         \/ \E c \in Clients :
              Player!CallPlayer(c) \/ Player!CallDolby(c) \/ Player!AskCodecs(c)
  PROVE  PlayerInv'
<1>1. UNCHANGED <<p_up, p_player, p_dolby, p_sinks, p_callbacks, p_answer>>
  BY DEF Player!DolbySoundModeUpdated, Player!CallPlayer, Player!CallDolby,
         Player!AskCodecs, Player!interfaces
<1>2. PICK t \in Player!Threads,
        step \in {"player", "dolby", "codecs", "tell"} :
        /\ Player!Begin(t, step)
        /\ step = "tell" => t = "rpc" /\ "dolby" \in p_callbacks
        /\ step \in {"player", "codecs"} => p_player
        /\ step = "dolby" => p_dolby
        /\ t = "rpc" => step = "tell"
        /\ t \in Clients => step # "tell"
  BY PlayerDistinct
     DEF Player!DolbySoundModeUpdated, Player!CallPlayer, Player!CallDolby,
         Player!AskCodecs
<1>3. /\ p_lock' \in Player!Threads \cup {Player!Nobody}
      /\ p_pc'
           \in [Player!Threads -> {"idle", "player", "dolby", "codecs", "tell"}]
      /\ PlayerLockInv'
      /\ p_pc'[t] = step
      /\ \A u \in Player!Threads \ {t} : p_pc'[u] = "idle"
  BY <1>2, PlayerBeginEffect
<1>4. Player!TypeOK'
  BY <1>1, <1>3 DEF PlayerInv, Player!TypeOK
<1>5. Player!ReferencesBalance'
  BY <1>1 DEF PlayerInv, PlayerHeldInv, Player!ReferencesBalance
<1>6. Player!InterfacesAreAlive'
  BY <1>1, <1>2, <1>3, PlayerDistinct DEF Player!InterfacesAreAlive
<1>7. Player!CallbacksAreRegistered'
  BY <1>1, <1>2, <1>3, PlayerDistinct DEF Player!CallbacksAreRegistered
<1>. QED
  BY <1>3, <1>4, <1>5, <1>6, <1>7 DEF PlayerInv, PlayerHeldInv

\* Calls and callbacks that end.
LEMMA PlayerReturnStep ==
  ASSUME Player!ArraysAssumption, PlayerInv,
         \/ Player!Told("monitor") \/ Player!Told("rpc")
         \/ \E c \in Clients : Player!Return(c) \/ Player!CodecsDone(c)
  PROVE  PlayerInv'
<1>1. UNCHANGED <<p_up, p_player, p_dolby, p_sinks, p_callbacks>>
  BY DEF Player!Told, Player!Return, Player!CodecsDone, Player!interfaces
<1>2. PICK t \in Player!Threads :
        p_pc[t] # "idle"
          /\ (Player!Told(t) \/ Player!Return(t) \/ Player!CodecsDone(t))
  BY PlayerDistinct DEF Player!Told, Player!Return, Player!CodecsDone
<1>3. p_lock' = Player!Nobody /\ p_pc' = [p_pc EXCEPT ![t] = "idle"]
  BY <1>2
     DEF Player!Told, Player!Return, Player!CodecsDone, Player!End, PlayerInv,
         PlayerLockInv
<1>4. /\ p_lock' \in Player!Threads \cup {Player!Nobody}
      /\ p_pc'
           \in [Player!Threads -> {"idle", "player", "dolby", "codecs", "tell"}]
      /\ PlayerLockInv'
      /\ \A u \in Player!Threads : p_pc'[u] = "idle"
  BY <1>2, <1>3, PlayerEndEffect
<1>5. p_answer' \in [codecs : Nat, length : 0..255, value : -128..127]
  <2>1. CASE p_answer' = p_answer
    BY <2>1 DEF PlayerInv, Player!TypeOK
  <2>2. CASE p_answer' # p_answer
    <3>1. PICK n \in Codecs, l \in Lengths :
            p_answer'
              = [codecs |-> n, length |-> l, value |-> Player!Count(n, l)]
      BY <1>2, <2>2, SMTT(30) DEF Player!Told, Player!Return, Player!CodecsDone
    <3>2. n \in Nat /\ l \in 0..255
      BY ZenonT(60) DEF Player!ArraysAssumption
    <3>3. Player!Count(n, l) \in -128..127
      BY <3>2, PlayerCountFits, ZenonT(60)
    <3>. QED
      BY <3>1, <3>2, <3>3
  <2>. QED
    BY <2>1, <2>2
<1>6. Player!TypeOK'
  BY <1>1, <1>4, <1>5 DEF PlayerInv, Player!TypeOK
<1>7. Player!ReferencesBalance'
  BY <1>1 DEF PlayerInv, PlayerHeldInv, Player!ReferencesBalance
<1>8. Player!InterfacesAreAlive' /\ Player!CallbacksAreRegistered'
  BY <1>4, PlayerDistinct
     DEF Player!InterfacesAreAlive, Player!CallbacksAreRegistered
<1>. QED
  BY <1>4, <1>6, <1>7, <1>8 DEF PlayerInv, PlayerHeldInv

\* Registering and unregistering a callback.
LEMMA PlayerRegisterStep ==
  ASSUME Player!ArraysAssumption, PlayerInv,
         \E c \in Clients : Player!Register(c) \/ Player!Unregister(c)
  PROVE  PlayerInv'
<1>1. /\ UNCHANGED <<p_up, p_player, p_dolby, p_sinks, p_lock, p_pc, p_answer>>
      /\ p_lock = Player!Nobody
      /\ p_callbacks' \subseteq Player!Kinds
  BY DEF Player!Register, Player!Unregister, Player!interfaces, PlayerInv,
         Player!TypeOK
<1>2. \A t \in Player!Threads : p_pc'[t] = "idle"
  BY <1>1, PlayerFreeMeansIdle
<1>3. Player!TypeOK' /\ PlayerLockInv' /\ Player!ReferencesBalance'
  BY <1>1
     DEF PlayerInv, PlayerHeldInv, Player!TypeOK, PlayerLockInv,
         Player!ReferencesBalance
<1>4. Player!InterfacesAreAlive' /\ Player!CallbacksAreRegistered'
  BY <1>2, PlayerDistinct
     DEF Player!InterfacesAreAlive, Player!CallbacksAreRegistered
<1>. QED
  BY <1>3, <1>4 DEF PlayerInv, PlayerHeldInv

LEMMA PlayerStep ==
  ASSUME Player!ArraysAssumption, PlayerInv, [Player!Next]_(Player!vars)
  PROVE  PlayerInv'
<1>1. CASE UNCHANGED Player!vars
  BY <1>1
     DEF Player!vars, PlayerInv, Player!TypeOK, PlayerLockInv, PlayerHeldInv,
         Player!ReferencesBalance, Player!InterfacesAreAlive,
         Player!CallbacksAreRegistered
<1>. QED
  BY <1>1, PlayerOperationalStep, PlayerCallStep, PlayerReturnStep,
     PlayerRegisterStep
     DEF Player!Next

LEMMA PlayerAlways ==
  ASSUME Player!ArraysAssumption
  PROVE  Player!Spec => []PlayerInv
<1>1. Player!Init => PlayerInv
  BY PlayerInit
<1>2. PlayerInv /\ [Player!Next]_(Player!vars) => PlayerInv'
  BY PlayerStep
<1>. QED
  BY <1>1, <1>2, PTL DEF Player!Spec

\* Type correctness, for any number of threads.
THEOREM PlayerTypes ==
  ASSUME Player!ArraysAssumption
  PROVE  Player!Spec => []Player!TypeOK
<1>1. PlayerInv => Player!TypeOK
  BY DEF PlayerInv
<1>. QED
  BY <1>1, PlayerAlways, PTL

\* The notification is registered exactly while _dolbyInterface is held, and
\* nothing is held of a plugin that went away.
THEOREM PlayerReferences ==
  ASSUME Player!ArraysAssumption
  PROVE  Player!Spec => []Player!ReferencesBalance
<1>1. PlayerInv => Player!ReferencesBalance
  BY DEF PlayerInv, PlayerHeldInv
<1>. QED
  BY <1>1, PlayerAlways, PTL

\* No interface is released while any thread is in a call of it.
THEOREM PlayerInterfaces ==
  ASSUME Player!ArraysAssumption
  PROVE  Player!Spec => []Player!InterfacesAreAlive
<1>1. PlayerInv => Player!InterfacesAreAlive
  BY DEF PlayerInv, PlayerHeldInv
<1>. QED
  BY <1>1, PlayerAlways, PTL

\* No callback runs after the call that unregistered it returned.
THEOREM PlayerCallbacks ==
  ASSUME Player!ArraysAssumption
  PROVE  Player!Spec => []Player!CallbacksAreRegistered
<1>1. PlayerInv => Player!CallbacksAreRegistered
  BY DEF PlayerInv, PlayerHeldInv
<1>. QED
  BY <1>1, PlayerAlways, PTL

\* Whatever number of codecs and length of array, the answer fits.
THEOREM PlayerCodecs ==
  ASSUME Player!ArraysAssumption
  PROVE  Player!Spec => []Player!CodecsFit
<1>1. Player!Init => Player!CodecsFit
  BY PlayerInit
<1>2. Player!CodecsFit /\ [Player!Next]_(Player!vars) => Player!CodecsFit'
  <2>. SUFFICES ASSUME Player!CodecsFit, [Player!Next]_(Player!vars)
                PROVE  Player!CodecsFit'
    OBVIOUS
  <2>1. CASE p_answer' = p_answer
    BY <2>1 DEF Player!CodecsFit
  <2>2. CASE p_answer' # p_answer
    <3>1. PICK c \in Clients : Player!CodecsDone(c)
      BY <2>2, SMTT(30)
         DEF Player!Next, Player!OperationalUp, Player!OperationalDown,
             Player!DolbySoundModeUpdated, Player!Told, Player!Register,
             Player!Unregister, Player!CallPlayer, Player!CallDolby,
             Player!Return, Player!AskCodecs, Player!vars
    <3>2. PICK n \in Codecs, l \in Lengths :
            p_answer'
              = [codecs |-> n, length |-> l, value |-> Player!Count(n, l)]
      BY <3>1, ZenonT(60) DEF Player!CodecsDone
    <3>3. n \in Nat /\ l \in 0..255
      BY ZenonT(60) DEF Player!ArraysAssumption
    <3>4. PICK v \in -128..127 :
            /\ v = Player!Count(n, l)
            /\ v > 0 => v <= l /\ v <= n
            /\ v < 0 => l <= -v
      BY <3>3, PlayerCountFits, ZenonT(60)
    <3>5. p_answer'.codecs = n /\ p_answer'.length = l /\ p_answer'.value = v
      BY <3>2, <3>4
    <3>. QED
      BY <3>4, <3>5 DEF Player!CodecsFit
  <2>. QED
    BY <2>1, <2>2
<1>. QED
  BY <1>1, <1>2, PTL DEF Player!Spec

-----------------------------------------------------------------------------
(* The client of DisplayInfo *)

\* A thread holds _lock exactly while it is in the middle of a call.
DisplayLock == \A t \in Display!Threads : i_pc[t] # "idle" <=> i_lock = t

\* The references the client holds, and what is in use of them.
DisplayHeld ==
  /\ Display!ReferencesBalance
  /\ Display!InterfacesAreAlive
  /\ Display!CallbacksAreRegistered

DisplayInv == Display!TypeOK /\ DisplayLock /\ DisplayHeld

\* A client is no thread of the plugin, and nobody is no thread.
LEMMA DisplayThreads ==
  ASSUME Player!ArraysAssumption
  PROVE  /\ Display!Nobody \notin Display!Threads
         /\ "monitor" \notin Clients /\ "rpc" \notin Clients
         /\ {"monitor", "rpc"} \subseteq Display!Threads
         /\ Clients \subseteq Display!Threads
BY DEF Player!ArraysAssumption, Display!Threads, Display!Nobody

LEMMA DisplayInit ==
  ASSUME Player!ArraysAssumption, Display!Init
  PROVE  DisplayInv
<1>1. /\ i_pc \in [Display!Threads -> Display!Interfaces \cup {"idle", "tell"}]
      /\ \A t \in Display!Threads : i_pc[t] = "idle"
  BY DEF Display!Init
<1>2. i_up \in BOOLEAN
  BY Zenon DEF Display!Init
<1>3. Display!TypeOK
  BY <1>1, <1>2 DEF Display!Init, Display!TypeOK
<1>4. DisplayLock
  BY <1>1, DisplayThreads DEF Display!Init, DisplayLock
<1>5. DisplayHeld
  BY <1>1, DisplayThreads
     DEF Display!Init, DisplayHeld, Display!ReferencesBalance,
         Display!InterfacesAreAlive, Display!CallbacksAreRegistered,
         Display!Interfaces
<1>. QED
  BY <1>3, <1>4, <1>5 DEF DisplayInv

\* Taking the lock for a call: everybody else is idle.
LEMMA DisplayBegin ==
  ASSUME Player!ArraysAssumption, DisplayInv, NEW t \in Display!Threads,
         NEW step \in Display!Interfaces \cup {"tell"}, Display!Begin(t, step)
  PROVE  /\ i_lock' = t
         /\ i_pc' \in [Display!Threads -> Display!Interfaces
              \cup {"idle", "tell"}]
         /\ i_pc'[t] = step
         /\ \A u \in Display!Threads \ {t} : i_pc'[u] = "idle"
         /\ DisplayLock'
<1>1. \A u \in Display!Threads : i_pc[u] = "idle"
  BY DisplayThreads DEF DisplayInv, DisplayLock, Display!Begin
<1>2. i_pc' = [i_pc EXCEPT ![t] = step] /\ i_lock' = t
  BY DEF Display!Begin
<1>3. i_pc \in [Display!Threads -> Display!Interfaces \cup {"idle", "tell"}]
  BY DEF DisplayInv, Display!TypeOK
<1>4. /\ i_pc' \in [Display!Threads -> Display!Interfaces \cup {"idle", "tell"}]
      /\ i_pc'[t] = step
      /\ \A u \in Display!Threads \ {t} : i_pc'[u] = "idle"
  BY <1>1, <1>2, <1>3
<1>5. step # "idle"
  BY DEF Display!Interfaces
<1>. QED
  BY <1>2, <1>4, <1>5 DEF DisplayLock

\* The plugin's coming and going.
LEMMA DisplayOperationalStep ==
  ASSUME Player!ArraysAssumption, DisplayInv,
         Display!OperationalUp \/ Display!OperationalDown
  PROVE  DisplayInv'
<1>. USE DEF DisplayInv
<1>1. Display!Begin("monitor", "tell") /\ UNCHANGED i_callbacks
  BY DEF Display!OperationalUp, Display!OperationalDown
<1>2. /\ i_lock' = "monitor"
      /\ i_pc' \in [Display!Threads -> Display!Interfaces \cup {"idle", "tell"}]
      /\ \A u \in Display!Threads \ {"monitor"} : i_pc'[u] = "idle"
      /\ DisplayLock'
  BY <1>1, DisplayThreads, DisplayBegin
<1>3. Display!InterfacesAreAlive' /\ Display!CallbacksAreRegistered'
  BY <1>2, DisplayThreads
     DEF Display!InterfacesAreAlive, Display!CallbacksAreRegistered,
         Display!Interfaces
<1>4. /\ \A i \in Display!Interfaces : i_references[i]
             = IF i \in i_held THEN 1 ELSE 0
      /\ i_sinks = i_references["connection"]
      /\ i_held # {} => "connection" \in i_held /\ i_up
      /\ i_held \subseteq Display!Interfaces
      /\ i_references \in [Display!Interfaces -> Nat]
  BY DEF DisplayHeld, Display!ReferencesBalance, Display!TypeOK
<1>5. CASE Display!OperationalUp
  <2>1. i_up' = TRUE /\ i_held = {}
    BY <1>4, <1>5 DEF Display!OperationalUp
  <2>2. \/ UNCHANGED <<i_held, i_sinks, i_references>>
        \/ \E new \in SUBSET Display!Interfaces :
             /\ "connection" \in new
             /\ i_held' = new /\ i_sinks' = 1
             /\ i_references' = [i \in Display!Interfaces |->
                    IF i \in new THEN 1 ELSE 0]
    <3>1. ASSUME NEW offered \in SUBSET {"hdr", "graphics"},
                 i_sinks' = i_sinks + 1,
                 i_references' = [i \in Display!Interfaces |->
                   i_references[i] + (IF i \in {"connection"}
                     \cup (offered \ i_held) THEN 1 ELSE 0)],
                 i_held' = i_held \cup {"connection"} \cup (offered \ i_held)
          PROVE  \E new \in SUBSET Display!Interfaces :
                   /\ "connection" \in new
                   /\ i_held' = new /\ i_sinks' = 1
                   /\ i_references' = [i \in Display!Interfaces |->
                          IF i \in new THEN 1 ELSE 0]
      <4>1. i_sinks' = 1
        BY <1>4, <2>1, <3>1 DEF Display!Interfaces
      <4>2. i_references' = [i \in Display!Interfaces |->
                IF i \in i_held' THEN 1 ELSE 0]
        BY <1>4, <2>1, <3>1
      <4>. QED
        BY <2>1, <3>1, <4>1, <4>2 DEF Display!Interfaces
    <3>. QED
      BY <1>5, <2>1, <3>1 DEF Display!OperationalUp
  <2>3. /\ Display!ReferencesBalance'
        /\ i_held' \subseteq Display!Interfaces /\ i_sinks' \in Nat
        /\ i_references' \in [Display!Interfaces -> Nat]
    <3>1. CASE UNCHANGED <<i_held, i_sinks, i_references>>
      BY <1>4, <2>1, <3>1 DEF Display!ReferencesBalance, Display!TypeOK
    <3>2. CASE ~UNCHANGED <<i_held, i_sinks, i_references>>
      <4>1. PICK new \in SUBSET Display!Interfaces :
             /\ "connection" \in new
             /\ i_held' = new /\ i_sinks' = 1
             /\ i_references' = [i \in Display!Interfaces |->
                    IF i \in new THEN 1 ELSE 0]
        BY <2>2, <3>2
      <4>. QED
        BY <2>1, <4>1 DEF Display!ReferencesBalance, Display!Interfaces
    <3>. QED
      BY <3>1, <3>2
  <2>4. i_up' \in BOOLEAN
    BY <2>1, Zenon
  <2>. QED
    BY <1>1, <1>2, <1>3, <2>3, <2>4, DisplayThreads
       DEF Display!TypeOK, DisplayHeld
<1>6. CASE Display!OperationalDown
  <2>1. i_held' = {} /\ i_up' = FALSE
    BY <1>6 DEF Display!OperationalDown
  <2>2. \A i \in Display!Interfaces : i_references[i] -
            (IF i \in i_held THEN 1 ELSE 0) = 0
    BY <1>4
  <2>3. i_references' = [i \in Display!Interfaces |-> 0]
    BY <1>6, <2>2 DEF Display!OperationalDown
  <2>4. i_sinks' = 0
    BY <1>4, <1>6 DEF Display!OperationalDown, Display!Interfaces
  <2>5. Display!ReferencesBalance'
    BY <2>1, <2>3, <2>4 DEF Display!ReferencesBalance, Display!Interfaces
  <2>6. i_up' \in BOOLEAN
    BY <2>1, Zenon
  <2>. QED
    BY <1>1, <1>2, <1>3, <2>1, <2>3, <2>4, <2>5, <2>6, DisplayThreads
       DEF Display!TypeOK, DisplayHeld
<1>. QED
  BY <1>5, <1>6

\* Calls, and the callback of an update, that begin under the lock.
LEMMA DisplayCallStep ==
  ASSUME Player!ArraysAssumption, DisplayInv,
         \/ Display!DisplayOutputUpdated
         \/ \E c \in Clients, i \in Display!Interfaces : Display!Call(c, i)
  PROVE  DisplayInv'
<1>. USE DEF DisplayInv
<1>1. UNCHANGED <<i_up, i_held, i_sinks, i_references, i_callbacks>>
  BY DEF Display!DisplayOutputUpdated, Display!Call, Display!plugin
<1>2. PICK t \in Display!Threads, step \in Display!Interfaces \cup {"tell"} :
        /\ Display!Begin(t, step)
        /\ t = "rpc" /\ step = "tell" => "output" \in i_callbacks
        /\ t \in Clients => step \in i_held
        /\ t = "rpc" \/ t \in Clients
  BY DisplayThreads DEF Display!DisplayOutputUpdated, Display!Call
<1>3. /\ i_lock' = t
      /\ i_pc' \in [Display!Threads -> Display!Interfaces \cup {"idle", "tell"}]
      /\ i_pc'[t] = step
      /\ \A u \in Display!Threads \ {t} : i_pc'[u] = "idle"
      /\ DisplayLock'
  BY <1>2, DisplayBegin
<1>4. Display!TypeOK'
  BY <1>1, <1>3 DEF Display!TypeOK
<1>5. Display!ReferencesBalance'
  BY <1>1 DEF DisplayHeld, Display!ReferencesBalance
<1>6. Display!InterfacesAreAlive' /\ Display!CallbacksAreRegistered'
  BY <1>1, <1>2, <1>3, DisplayThreads
     DEF Display!InterfacesAreAlive, Display!CallbacksAreRegistered,
         Display!Interfaces
<1>. QED
  BY <1>3, <1>4, <1>5, <1>6 DEF DisplayHeld

\* Calls and callbacks that end.
LEMMA DisplayReturnStep ==
  ASSUME Player!ArraysAssumption, DisplayInv,
         \/ Display!Told("monitor") \/ Display!Told("rpc")
         \/ \E c \in Clients : Display!Return(c)
  PROVE  DisplayInv'
<1>. USE DEF DisplayInv
<1>1. UNCHANGED <<i_up, i_held, i_sinks, i_references, i_callbacks>>
  BY DEF Display!Told, Display!Return, Display!plugin
<1>2. PICK t \in Display!Threads : i_pc[t] # "idle" /\ Display!End(t)
  BY DisplayThreads DEF Display!Told, Display!Return, Display!Interfaces
<1>3. i_pc \in [Display!Threads -> Display!Interfaces \cup {"idle", "tell"}]
  BY DEF Display!TypeOK
<1>4. /\ i_lock = t /\ i_lock' = Display!Nobody
      /\ i_pc' = [i_pc EXCEPT ![t] = "idle"]
  BY <1>2 DEF Display!End, DisplayLock
<1>5. i_pc' \in [Display!Threads -> Display!Interfaces \cup {"idle", "tell"}]
  BY <1>3, <1>4
<1>6. \A u \in Display!Threads : i_pc'[u] = "idle"
  BY <1>3, <1>4 DEF DisplayLock
<1>7. Display!TypeOK'
  BY <1>1, <1>4, <1>5 DEF Display!TypeOK
<1>8. DisplayLock'
  BY <1>4, <1>6, DisplayThreads DEF DisplayLock
<1>9. Display!ReferencesBalance'
  BY <1>1 DEF DisplayHeld, Display!ReferencesBalance
<1>10. Display!InterfacesAreAlive' /\ Display!CallbacksAreRegistered'
  BY <1>6, DisplayThreads
     DEF Display!InterfacesAreAlive, Display!CallbacksAreRegistered,
         Display!Interfaces
<1>. QED
  BY <1>7, <1>8, <1>9, <1>10 DEF DisplayHeld

\* Registering and unregistering a callback.
LEMMA DisplayRegisterStep ==
  ASSUME Player!ArraysAssumption, DisplayInv,
         \E c \in Clients : Display!Register(c) \/ Display!Unregister(c)
  PROVE  DisplayInv'
<1>. USE DEF DisplayInv
<1>1. /\ UNCHANGED <<i_up, i_held, i_sinks, i_references, i_lock, i_pc>>
      /\ i_lock = Display!Nobody
      /\ i_callbacks' \subseteq Display!Kinds
  BY DEF Display!Register, Display!Unregister, Display!plugin, Display!TypeOK
<1>2. \A t \in Display!Threads : i_pc[t] = "idle"
  BY <1>1, DisplayThreads DEF DisplayLock
<1>3. Display!TypeOK' /\ DisplayLock' /\ Display!ReferencesBalance'
  BY <1>1
     DEF DisplayHeld, Display!TypeOK, DisplayLock, Display!ReferencesBalance
<1>4. Display!InterfacesAreAlive' /\ Display!CallbacksAreRegistered'
  BY <1>1, <1>2, DisplayThreads
     DEF Display!InterfacesAreAlive, Display!CallbacksAreRegistered,
         Display!Interfaces
<1>. QED
  BY <1>3, <1>4 DEF DisplayHeld

LEMMA DisplayAlways ==
  ASSUME Player!ArraysAssumption
  PROVE  Display!Spec => []DisplayInv
<1>1. DisplayInv /\ UNCHANGED Display!vars => DisplayInv'
  BY DEF Display!vars, DisplayInv, Display!TypeOK, DisplayLock, DisplayHeld,
         Display!ReferencesBalance, Display!InterfacesAreAlive,
         Display!CallbacksAreRegistered
<1>2. DisplayInv /\ [Display!Next]_(Display!vars) => DisplayInv'
  BY <1>1, DisplayOperationalStep, DisplayCallStep, DisplayReturnStep,
     DisplayRegisterStep
     DEF Display!Next
<1>. QED
  BY <1>2, DisplayInit, PTL DEF Display!Spec

-----------------------------------------------------------------------------
(* The client of DeviceInfo *)

\* What it holds of the plugin.
DeviceHeld ==
  /\ v_held \subseteq Device!Interfaces
  /\ v_references \in [Device!Interfaces -> Nat]
  /\ Device!ReferencesBalance

\* What asking for a string does, whichever interface knows it.
DeviceString(a, length) ==
  /\ a \in Device!Attributes
  /\ UNCHANGED <<Device!plugin, v_outputs, v_lists, v_singles, v_best, v_flags>>
  /\ \/ /\ v_strings[Device!Tested(a)] # Device!Unset
        /\ v_answer' = Device!Reply(a, v_strings[a], length)
        /\ UNCHANGED v_strings
     \/ /\ v_strings' = [v_strings EXCEPT ![a] = a]
        /\ v_answer' = Device!Reply(a, a, length)
     \/ /\ v_answer' = [call |-> "string", of |-> a, value |-> Device!Unset,
                       asked |-> length, status |-> Device!UNAVAILABLE,
                       length |-> 0]
        /\ UNCHANGED v_strings

LEMMA DeviceStrings ==
  ASSUME Device!AskStrings
  PROVE  \E length \in Arrays :
           \/ Device!Id(length)
           \/ \E a \in Device!Attributes : DeviceString(a, length)
<1>1. ASSUME NEW a \in Device!OfInfo, NEW length, Device!InfoString(a, length)
      PROVE  DeviceString(a, length)
  BY <1>1 DEF Device!InfoString, Device!String, DeviceString, Device!Attributes
<1>2. ASSUME NEW a \in Device!OfIdentifier, NEW length,
             Device!IdentifierString(a, length)
      PROVE  DeviceString(a, length)
  BY <1>2
     DEF Device!IdentifierString, Device!String, DeviceString,
         Device!Attributes
<1>3. ASSUME NEW length, Device!HostEdid(length)
      PROVE  DeviceString("host_edid", length)
  BY <1>3 DEF Device!HostEdid, Device!String, DeviceString, Device!Attributes
<1>4. PICK length \in Arrays :
        \/ Device!Id(length) \/ Device!HostEdid(length)
        \/ \E a \in Device!OfInfo : Device!InfoString(a, length)
        \/ \E a \in Device!OfIdentifier : Device!IdentifierString(a, length)
  BY DEF Device!AskStrings, Device!SerialNumber, Device!Sku, Device!Make,
         Device!DeviceType, Device!ModelName, Device!ModelYear,
         Device!SystemIntegratorName, Device!FriendlyName,
         Device!PlatformName, Device!Architecture, Device!Chipset,
         Device!FirmwareVersion, Device!IdStr, Device!OfInfo,
         Device!OfIdentifier
<1>. QED
  BY <1>1, <1>2, <1>3, <1>4 DEF DeviceString

\* The calls for the ports and their lists.
LEMMA DeviceListCalls ==
  ASSUME Device!AskLists
  PROVE  \/ \E length \in Arrays :
              \/ \E m \in Device!Media : Device!AskOutputs(m, length)
              \/ \E k \in Device!Kinds, port \in Queried :
                   Device!AskList(k, port, length)
         \/ \E port \in Queried :
              \/ Device!MaximumOutputResolution(port)
              \/ Device!DefaultOutputResolution(port) \/ Device!Hdcp(port)
BY DEF Device!AskLists, Device!AudioOutputs, Device!VideoOutputs,
       Device!AudioCapabilities, Device!AudioMS12Capabilities,
       Device!AudioMS12Profiles, Device!OutputResolutions, Device!Media,
       Device!Kinds, Device!OfAudio

\* None of them changes what is held of the plugin.
LEMMA DeviceStringKeeps ==
  ASSUME Device!AskStrings PROVE UNCHANGED Device!plugin
BY DeviceStrings DEF DeviceString, Device!Id

LEMMA DeviceListKeeps ==
  ASSUME Device!AskLists PROVE UNCHANGED Device!plugin
BY DeviceListCalls
   DEF Device!AskOutputs, Device!AskList, Device!MaximumOutputResolution,
       Device!DefaultOutputResolution, Device!Hdcp, Device!Single

LEMMA DeviceHeldStep ==
  ASSUME DeviceHeld, [Device!Next]_(Device!vars)
  PROVE  DeviceHeld'
<1>1. CASE UNCHANGED <<v_up, v_held, v_references>>
  BY <1>1 DEF DeviceHeld, Device!ReferencesBalance
<1>2. CASE Device!OperationalUp
  <2>1. /\ v_held = {} /\ v_up' = TRUE
        /\ v_held' \in {{}, {"info"}, {"info", "audio"}, Device!Interfaces}
        /\ v_references'
             = [i \in Device!Interfaces |->
                  v_references[i] + (IF i \in v_held' THEN 1 ELSE 0)]
    BY <1>2 DEF Device!OperationalUp, DeviceHeld, Device!ReferencesBalance
  <2>2. v_held' \subseteq Device!Interfaces
    BY <2>1 DEF Device!Interfaces, Device!Media
  <2>3. v_references'
          = [i \in Device!Interfaces |-> IF i \in v_held' THEN 1 ELSE 0]
    BY <2>1 DEF DeviceHeld, Device!ReferencesBalance
  <2>. QED
    BY <2>1, <2>2, <2>3 DEF DeviceHeld, Device!ReferencesBalance
<1>3. CASE Device!OperationalDown
  <2>1. v_held' = {} /\ v_references' = [i \in Device!Interfaces |-> 0]
    BY <1>3 DEF Device!OperationalDown, DeviceHeld, Device!ReferencesBalance
  <2>. QED
    BY <2>1 DEF DeviceHeld, Device!ReferencesBalance
<1>4. CASE Device!AskStrings
  <2>1. UNCHANGED Device!plugin
    BY <1>4, DeviceStringKeeps
  <2>. QED
    BY <1>1, <2>1 DEF Device!plugin
<1>5. CASE Device!AskLists
  <2>1. UNCHANGED Device!plugin
    BY <1>5, DeviceListKeeps
  <2>. QED
    BY <1>1, <2>1 DEF Device!plugin
<1>6. CASE Device!AskFlags
  BY <1>1, <1>6 DEF Device!AskFlags, Device!AskFlag, Device!plugin
<1>7. CASE UNCHANGED Device!vars
  BY <1>1, <1>7 DEF Device!vars
<1>. QED
  BY <1>2, <1>3, <1>4, <1>5, <1>6, <1>7 DEF Device!Next

LEMMA DeviceHeldAlways == Device!Spec => []DeviceHeld
<1>1. Device!Init => DeviceHeld
  BY DEF Device!Init, DeviceHeld, Device!ReferencesBalance
<1>2. DeviceHeld /\ [Device!Next]_(Device!vars) => DeviceHeld'
  BY DeviceHeldStep
<1>. QED
  BY <1>1, <1>2, PTL DEF Device!Spec

(* Its lists, as they are copied to the caller's array *)

\* The list after the loop's round n.
DeviceRound(list, length, written, n) ==
  IF Len(written) < length /\ list[n] \notin Device!Range(written)
  THEN Append(written, list[n]) ELSE written
DeviceWritten(f, list, length, m) ==
  f = [n \in 0..m |->
      IF n = 0 THEN <<>> ELSE DeviceRound(list, length, f[n - 1], n)]

LEMMA DeviceLoops ==
  ASSUME NEW list, NEW length, NEW l \in Nat
  PROVE  \E f : DeviceWritten(f, list, length, l)
<1>. DEFINE Bad == {m \in Nat : ~\E f : DeviceWritten(f, list, length, m)}
<1>1. SUFFICES Bad = {}
  OBVIOUS
<1>2. SUFFICES ASSUME Bad # {} PROVE FALSE
  OBVIOUS
<1>3. PICK m \in Bad : \A k \in Bad : ~(k < m)
  BY <1>2, Least
<1>4. m # 0
  <2>. DEFINE g == [n \in 0..0 |-> <<>>]
  <2>1. DeviceWritten(g, list, length, 0)
    BY DEF DeviceWritten
  <2>. QED
    BY <2>1
<1>5. PICK g : DeviceWritten(g, list, length, m - 1)
  BY <1>3, <1>4
<1>. DEFINE f == [n \in 0..m |->
         IF n = m THEN DeviceRound(list, length, g[m - 1], m) ELSE g[n]]
<1>6. \A n \in 0..m : f[n]
          = IF n = 0 THEN <<>> ELSE DeviceRound(list, length, f[n - 1], n)
  BY <1>4, <1>5 DEF DeviceWritten
<1>7. DeviceWritten(f, list, length, m)
  BY <1>6 DEF DeviceWritten
<1>. QED
  BY <1>7

LEMMA DeviceDistinctIs ==
  ASSUME NEW list, NEW length, Len(list) \in Nat
  PROVE  \E f : DeviceWritten(f, list, length, Len(list))
           /\ Device!Distinct(list, length) = f[Len(list)]
<1>. DEFINE Loop(f) ==
       f = [n \in 0..Len(list) |->
              IF n = 0 THEN <<>>
              ELSE IF /\ Len(f[n - 1]) < length
                      /\ list[n] \notin Device!Range(f[n - 1])
                   THEN Append(f[n - 1], list[n]) ELSE f[n - 1]]
<1>1. \A f : DeviceWritten(f, list, length, Len(list)) <=> Loop(f)
  BY DEF DeviceWritten, DeviceRound
<1>2. \E f : Loop(f)
  BY <1>1, DeviceLoops
<1>3. Loop(CHOOSE f : Loop(f))
  <2>. HIDE DEF Loop
  <2>. QED
    BY <1>2, Zenon
<1>4. Device!Distinct(list, length) = (CHOOSE f : Loop(f))[Len(list)]
  BY Zenon DEF Device!Distinct
<1>. HIDE DEF Loop
<1>. QED
  BY <1>1, <1>3, <1>4, Zenon

\* What the array holds after the round: a beginning of the list without
\* repetitions, all of it while there is room.
DeviceGood(w, list, length, n) ==
  /\ Len(w) <= length /\ Len(w) <= n
  /\ \A i, j \in 1..Len(w) : w[i] = w[j] => i = j
  /\ \A i \in 1..Len(w) : \E j \in 1..n : w[i] = list[j]
  /\ n <= length => \A j \in 1..n : \E i \in 1..Len(w) : w[i] = list[j]

LEMMA DeviceRoundGood ==
  ASSUME NEW S, NEW list \in Seq(S), NEW length \in Nat, NEW n \in 1..Len(list),
         NEW w \in Seq(S), DeviceGood(w, list, length, n - 1)
  PROVE  /\ DeviceRound(list, length, w, n) \in Seq(S)
         /\ DeviceGood(DeviceRound(list, length, w, n), list, length, n)
<1>1. list[n] \in S /\ n \in Nat /\ DOMAIN w = 1..Len(w)
  OBVIOUS
<1>2. Device!Range(w) = {w[i] : i \in 1..Len(w)}
  BY <1>1 DEF Device!Range
<1>3. CASE Len(w) < length /\ list[n] \notin Device!Range(w)
  <2>. DEFINE v == Append(w, list[n])
  <2>1. /\ v \in Seq(S) /\ Len(v) = Len(w) + 1 /\ v[Len(w) + 1] = list[n]
        /\ \A i \in 1..Len(w) : v[i] = w[i]
    BY <1>1
  <2>2. DeviceRound(list, length, w, n) = v
    BY <1>3 DEF DeviceRound
  <2>. HIDE DEF v
  <2>3. Len(v) <= length /\ Len(v) <= n
    BY <1>3, <2>1 DEF DeviceGood
  <2>4. \A i, j \in 1..Len(v) : v[i] = v[j] => i = j
    <3>1. \A i \in 1..Len(w) : v[i] # list[n]
      BY <1>2, <1>3, <2>1
    <3>2. \A i, j \in 1..Len(w) : v[i] = v[j] => i = j
      BY <2>1 DEF DeviceGood
    <3>3. \A i \in 1..Len(v) : i \in 1..Len(w) \/ i = Len(w) + 1
      BY <2>1
    <3>. QED
      BY <2>1, <3>1, <3>2, <3>3
  <2>5. \A i \in 1..Len(v) : \E j \in 1..n : v[i] = list[j]
    <3>1. \A i \in 1..Len(w) : \E j \in 1..(n - 1) : w[i] = list[j]
      BY DEF DeviceGood
    <3>2. n \in 1..n /\ \A j \in 1..(n - 1) : j \in 1..n
      BY <1>1
    <3>3. SUFFICES ASSUME NEW i \in 1..Len(v)
                   PROVE  \E j \in 1..n : v[i] = list[j]
      OBVIOUS
    <3>4. CASE i \in 1..Len(w)
      <4>1. PICK j \in 1..(n - 1) : w[i] = list[j]
        BY <3>1, <3>4
      <4>. QED
        BY <2>1, <3>2, <3>4, <4>1
    <3>5. CASE i = Len(w) + 1
      BY <2>1, <3>2, <3>5
    <3>. QED
      BY <2>1, <3>4, <3>5
  <2>6. n <= length => \A j \in 1..n : \E i \in 1..Len(v) : v[i] = list[j]
    <3>1. n <= length
            => \A j \in 1..(n - 1) : \E i \in 1..Len(v) : v[i] = list[j]
      BY <2>1 DEF DeviceGood
    <3>2. \A j \in 1..n : j \in 1..(n - 1) \/ j = n
      BY <1>1
    <3>3. Len(v) \in 1..Len(v) /\ v[Len(v)] = list[n]
      BY <2>1
    <3>. QED
      BY <3>1, <3>2, <3>3
  <2>. QED
    BY <2>1, <2>2, <2>3, <2>4, <2>5, <2>6 DEF DeviceGood
<1>4. CASE ~(Len(w) < length /\ list[n] \notin Device!Range(w))
  <2>1. DeviceRound(list, length, w, n) = w
    BY <1>4 DEF DeviceRound
  <2>2. n <= length => \E i \in 1..Len(w) : w[i] = list[n]
    BY <1>2, <1>4 DEF DeviceGood
  <2>3. n <= length => \A j \in 1..(n - 1) : \E i \in 1..Len(w) : w[i] = list[j]
    BY DEF DeviceGood
  <2>4. \A j \in 1..n : j \in 1..(n - 1) \/ j = n
    BY <1>1
  <2>5. n <= length => \A j \in 1..n : \E i \in 1..Len(w) : w[i] = list[j]
    BY <2>2, <2>3, <2>4
  <2>. QED
    BY <2>1, <2>5 DEF DeviceGood
<1>. QED
  BY <1>3, <1>4

LEMMA DeviceDistinctGood ==
  ASSUME NEW S, NEW list \in Seq(S), NEW length \in Nat
  PROVE  /\ Device!Distinct(list, length) \in Seq(S)
         /\ DeviceGood(Device!Distinct(list, length), list, length, Len(list))
<1>1. Len(list) \in Nat
  OBVIOUS
<1>2. PICK f : /\ DeviceWritten(f, list, length, Len(list))
               /\ Device!Distinct(list, length) = f[Len(list)]
  BY <1>1, DeviceDistinctIs
<1>3. /\ f[0] = <<>>
      /\ \A n \in 1..Len(list) : f[n] = DeviceRound(list, length, f[n - 1], n)
  BY <1>1, <1>2 DEF DeviceWritten
<1>. DEFINE Bad == {n \in 0..Len(list) :
                      ~(f[n] \in Seq(S) /\ DeviceGood(f[n], list, length, n))}
<1>4. SUFFICES ASSUME Bad # {} PROVE FALSE
  BY <1>1, <1>2
<1>5. PICK n \in Bad : \A k \in Bad : ~(k < n)
  <2>1. Bad \in SUBSET Nat
    BY <1>1
  <2>. HIDE DEF Bad
  <2>. QED
    BY <1>4, <2>1, Least
<1>6. f[0] \in Seq(S) /\ DeviceGood(f[0], list, length, 0)
  BY <1>3 DEF DeviceGood
<1>7. n \in 1..Len(list) /\ n - 1 \in 0..Len(list) /\ n - 1 < n
  BY <1>1, <1>5, <1>6
<1>8. f[n - 1] \in Seq(S) /\ DeviceGood(f[n - 1], list, length, n - 1)
  BY <1>5, <1>7
<1>9. f[n] \in Seq(S) /\ DeviceGood(f[n], list, length, n)
  BY <1>3, <1>7, <1>8, DeviceRoundGood
<1>. QED
  BY <1>5, <1>9

\* What a call writes to the caller's array.
LEMMA DeviceDistinct ==
  ASSUME NEW S, NEW list \in Seq(S), NEW length \in Nat
  PROVE  /\ Device!Distinct(list, length) \in Seq(S)
         /\ Len(Device!Distinct(list, length)) <= length
         /\ Device!IsInjective(Device!Distinct(list, length))
         /\ Device!Range(Device!Distinct(list,
              length)) \subseteq Device!Range(list)
         /\ Len(list) <= length =>
              Device!Range(Device!Distinct(list, length)) = Device!Range(list)
<1>. DEFINE d == Device!Distinct(list, length)
<1>1. d \in Seq(S) /\ DeviceGood(d, list, length, Len(list))
  BY DeviceDistinctGood
<1>. HIDE DEF d
<1>2. Device!Range(d) = {d[i] : i \in 1..Len(d)}
        /\ Device!Range(list) = {list[i] : i \in 1..Len(list)}
  <2>1. DOMAIN d = 1..Len(d) /\ DOMAIN list = 1..Len(list)
    BY <1>1, SMTT(30)
  <2>. QED
    BY <2>1, Zenon DEF Device!Range
<1>3. Device!IsInjective(d)
  <2>1. DOMAIN d = 1..Len(d)
    BY <1>1, SMTT(30)
  <2>2. \A i, j \in 1..Len(d) : d[i] = d[j] => i = j
    BY <1>1, Zenon DEF DeviceGood
  <2>. QED
    BY <2>1, <2>2, Zenon DEF Device!IsInjective
<1>4. Len(d) <= length /\ Device!Range(d) \subseteq Device!Range(list)
  BY <1>1, <1>2 DEF DeviceGood
<1>5. Len(list) <= length => Device!Range(list) \subseteq Device!Range(d)
  <2>1. SUFFICES ASSUME Len(list) <= length, NEW j \in 1..Len(list)
                 PROVE  list[j] \in Device!Range(d)
    BY <1>2
  <2>2. PICK i \in 1..Len(d) : d[i] = list[j]
    BY <1>1, <2>1 DEF DeviceGood
  <2>. QED
    BY <1>2, <2>2
<1>. QED
  BY <1>1, <1>3, <1>4, <1>5 DEF d

-----------------------------------------------------------------------------
\* What a device says, and what is kept of its ports and their lists.
DeviceKnown ==
  /\ v_device \in [size : StringSizes, ports : Outputs, list : Device!Lists,
                   flags : SUBSET Device!Flags, identifier : BOOLEAN]
  /\ v_outputs \in [Device!Media -> Outputs \cup {{}}]
  /\ v_lists \in [Device!Kinds -> [Queried -> {<<>>, v_device.list}]]

\* What a port's single values may be, and what the one of a kind is.
DeviceSingles == Device!Singles \cup {Device!Unset, Device!Undefined}

DeviceSingleOf(kind) ==
  {kind, Device!Unset}
    \cup (IF kind = "hdcp" THEN {} ELSE {Device!Undefined})

\* The other caches.
DeviceCaches ==
  /\ v_strings
       \in [Device!Attributes -> Device!Attributes \cup {Device!Unset}]
  /\ v_singles \in [Device!Singles -> [Queried -> DeviceSingles]]
  /\ v_best \in [Queried -> Nat]
  /\ v_flags \subseteq 0..6

DeviceAnswers ==
  /\ v_answer.call \in {"none", "string", "id", "outputs", "list", "single",
                        "maximum", "flag"}
  /\ Device!AnswersFit

\* The sizes and lists of a device.
LEMMA DeviceSays ==
  ASSUME Device!DeviceAssumption, DeviceKnown
  PROVE  /\ v_device.size \in Nat
         /\ v_device.list \in {<<>>, <<2, 5, 2>>}
         /\ \A value : /\ Device!Size(value) \in Nat
                       /\ Device!Size(value) <= v_device.size
<1>1. v_device.size \in StringSizes /\ v_device.list \in Device!Lists
  BY DEF DeviceKnown
<1>2. v_device.size \in Nat
  BY <1>1 DEF Device!DeviceAssumption
<1>3. \A value : Device!Size(value) \in {0, v_device.size}
  BY DEF Device!Size
<1>. QED
  BY <1>1, <1>2, <1>3 DEF Device!Lists

\* A string of up to 254 bytes refused for its length fits the length it was
\* refused with.
LEMMA DeviceReplyFits ==
  ASSUME Device!DeviceAssumption, DeviceKnown, NEW a, NEW value,
         NEW length \in Nat,
         v_answer' = Device!Reply(a, value, length), v_device' = v_device
  PROVE  DeviceAnswers'
<1>. DEFINE size == Device!Size(value)
<1>1. size \in Nat /\ size <= v_device.size /\ v_device.size \in Nat
  BY DeviceSays
<1>2. v_device.size <= 254 => (size + 1) % 256 = size + 1
  BY <1>1
<1>3. /\ v_answer'.call = "string" /\ v_answer'.value = value
      /\ v_answer'.asked = length /\ v_answer'.length = (size + 1) % 256
      /\ v_answer'.status
             = IF length <= size THEN Device!INVALID_INPUT_LENGTH ELSE Device!OK
  BY DEF Device!Reply, Device!Refused
<1>4. Device!Size(v_answer.value)' = size
  BY <1>3 DEF Device!Size
<1>. HIDE DEF size
<1>5. (v_device.size <= 254 =>
         Device!Reply(v_answer.of, v_answer.value, v_answer.length).status
           = Device!OK)'
  <2>1. ~(size + 1 <= size)
    BY <1>1
  <2>. QED
    BY <1>2, <1>3, <1>4, <2>1 DEF Device!Reply, Device!Refused
<1>6. v_answer'.status = Device!OK => size < v_answer'.asked
  BY <1>1, <1>3 DEF Device!OK, Device!INVALID_INPUT_LENGTH
<1>7. (v_answer.status = Device!OK
        => Device!Size(v_answer.value) < v_answer.asked)'
  BY <1>4, <1>6
<1>. HIDE DEF DeviceKnown, Device!DeviceAssumption
<1>8. Device!AnswersFit'
  BY <1>3, <1>5, <1>7 DEF Device!AnswersFit
<1>. QED
  BY <1>3, <1>8 DEF DeviceAnswers

\* An answer that is no string, identifier or list fits always.
LEMMA DeviceOtherFits ==
  ASSUME v_answer'.call \in {"none", "single", "maximum", "flag"}
  PROVE  DeviceAnswers'
<1>1. v_answer'.call \notin {"string", "id", "outputs", "list"}
  OBVIOUS
<1>2. Device!AnswersFit'
  BY <1>1 DEF Device!AnswersFit
<1>. QED
  BY <1>2 DEF DeviceAnswers

LEMMA DeviceStringStep ==
  ASSUME Device!DeviceAssumption, DeviceKnown, DeviceCaches,
         NEW a \in Device!Attributes, NEW length \in Arrays,
         DeviceString(a, length)
  PROVE  DeviceKnown' /\ DeviceCaches' /\ DeviceAnswers'
<1>1. /\ UNCHANGED <<v_device, v_outputs, v_lists, v_singles, v_best, v_flags>>
      /\ v_strings' = v_strings \/ v_strings' = [v_strings EXCEPT ![a] = a]
  BY DEF DeviceString, Device!plugin
<1>2. DeviceKnown' /\ DeviceCaches'
  BY <1>1 DEF DeviceKnown, DeviceCaches
<1>3. length \in Nat
  BY DEF Device!DeviceAssumption
<1>4. \/ \E value : v_answer' = Device!Reply(a, value, length)
      \/ v_answer'
           = [call |-> "string", of |-> a, value |-> Device!Unset,
             asked |-> length,
                      status |-> Device!UNAVAILABLE, length |-> 0]
  BY DEF DeviceString
<1>5. CASE v_answer'
             = [call |-> "string", of |-> a, value |-> Device!Unset,
               asked |-> length,
                        status |-> Device!UNAVAILABLE, length |-> 0]
  <2>1. v_answer'.call = "string" /\ v_answer'.status = Device!UNAVAILABLE
    BY <1>5
  <2>2. /\ v_answer'.status # Device!OK
        /\ v_answer'.status # Device!INVALID_INPUT_LENGTH
    BY <2>1 DEF Device!OK, Device!INVALID_INPUT_LENGTH, Device!UNAVAILABLE
  <2>3. Device!AnswersFit'
    BY <2>1, <2>2 DEF Device!AnswersFit
  <2>. QED
    BY <1>2, <2>1, <2>3 DEF DeviceAnswers
<1>. QED
  BY <1>1, <1>2, <1>3, <1>4, <1>5, DeviceReplyFits

LEMMA DeviceIdStep ==
  ASSUME Device!DeviceAssumption, DeviceKnown, DeviceCaches,
         NEW length \in Arrays, Device!Id(length)
  PROVE  DeviceKnown' /\ DeviceCaches' /\ DeviceAnswers'
<1>1. /\ UNCHANGED <<v_device, v_outputs, v_lists, v_singles, v_best, v_flags>>
      /\ v_strings' = v_strings
         \/ \E value \in {"id", Device!Unset} :
              v_strings' = [v_strings EXCEPT !["id"] = value]
  BY DEF Device!Id, Device!plugin
<1>2. DeviceKnown' /\ DeviceCaches'
  BY <1>1
     DEF DeviceKnown, DeviceCaches, Device!Attributes, Device!OfIdentifier
<1>3. length \in Nat /\ 0 < length /\ v_device.size \in Nat
  BY DeviceSays DEF Device!DeviceAssumption
<1>4. v_answer'.call = "id" /\ v_answer'.length < v_answer'.asked
  <2>1. PICK size \in Nat :
          size = IF v_device.size > 254 THEN 254 ELSE v_device.size
    BY <1>3
  <2>. QED
    BY <1>3, <2>1 DEF Device!Id
<1>5. Device!AnswersFit'
  BY <1>4 DEF Device!AnswersFit
<1>. QED
  BY <1>2, <1>4, <1>5 DEF DeviceAnswers

\* A list that is written to an array of some length fits into it.
LEMMA DeviceListFits ==
  ASSUME NEW S, NEW list \in Seq(S), NEW length \in Nat,
         v_answer'.call \in {"outputs", "list"}, v_answer'.asked = length,
         v_answer'.value = Device!Distinct(list, length),
         v_answer'.call = "list" => list = v_device.list,
         v_device' = v_device
  PROVE  DeviceAnswers'
<1>1. /\ Len(v_answer'.value) <= length
      /\ Device!IsInjective(v_answer'.value)
      /\ Len(list) <= length
           => Device!Range(v_answer'.value) = Device!Range(list)
  BY DeviceDistinct
<1>2. Device!AnswersFit'
  BY <1>1 DEF Device!AnswersFit
<1>. QED
  BY <1>2 DEF DeviceAnswers

\* The names of a device's ports.
LEMMA DeviceNames ==
  ASSUME Device!DeviceAssumption, NEW ports \in Outputs \cup {{}}
  PROVE  Device!Names(ports) \in Seq(Device!Ports)
<1>1. IsFiniteSet(ports)
  BY FS_EmptySet DEF Device!DeviceAssumption, Device!IsFiniteSet, IsFiniteSet
<1>2. Device!Cardinality(ports) \in Nat
  BY <1>1, FS_CardinalityType DEF Device!Cardinality, Cardinality
<1>3. \A p : Device!Convert(p) \in Device!Ports
  BY DEF Device!Convert, Device!Ports
<1>. QED
  BY <1>2, <1>3 DEF Device!Names

LEMMA DeviceOutputsStep ==
  ASSUME Device!DeviceAssumption, DeviceKnown, DeviceCaches,
         NEW medium \in Device!Media, NEW length \in Arrays,
         Device!AskOutputs(medium, length)
  PROVE  DeviceKnown' /\ DeviceCaches' /\ DeviceAnswers'
<1>1. /\ UNCHANGED <<v_device, v_strings, v_lists, v_singles, v_best, v_flags>>
      /\ \/ v_outputs' = v_outputs
         \/ v_outputs' = [v_outputs EXCEPT ![medium] = v_device.ports]
  BY DEF Device!AskOutputs, Device!plugin
<1>2. DeviceKnown' /\ DeviceCaches'
  BY <1>1 DEF DeviceKnown, DeviceCaches
<1>3. length \in Nat
  BY DEF Device!DeviceAssumption
<1>4. PICK list : /\ v_answer'.call = "outputs" /\ v_answer'.asked = length
                  /\ \/ /\ v_answer'.value = Device!Distinct(list, length)
                        /\ list \in Seq(Device!Ports)
                     \/ /\ v_answer'.value = <<>>
                        /\ v_answer'.status = Device!UNAVAILABLE
  <2>1. PICK ports : ports = v_outputs'[medium]
    OBVIOUS
  <2>2. /\ v_answer'.call = "outputs" /\ v_answer'.asked = length
        /\ \/ v_answer'.value = Device!Distinct(Device!Names(ports), length)
           \/ v_answer'.value = <<>> /\ v_answer'.status = Device!UNAVAILABLE
    BY <2>1 DEF Device!AskOutputs
  <2>3. ports \in Outputs \cup {{}}
    BY <1>2, <2>1 DEF DeviceKnown
  <2>4. Device!Names(ports) \in Seq(Device!Ports)
    BY <2>3, DeviceNames
  <2>. QED
    BY <2>2, <2>4
<1>5. CASE /\ v_answer'.value = Device!Distinct(list, length)
           /\ list \in Seq(Device!Ports)
  BY <1>1, <1>2, <1>3, <1>4, <1>5, DeviceListFits
<1>6. CASE v_answer'.value = <<>> /\ v_answer'.status = Device!UNAVAILABLE
  <2>1. Len(v_answer'.value) = 0 /\ Device!IsInjective(v_answer'.value)
    BY <1>6 DEF Device!IsInjective
  <2>2. Device!AnswersFit'
    BY <1>3, <1>4, <1>6, <2>1
       DEF Device!AnswersFit, Device!OK, Device!UNAVAILABLE
  <2>. QED
    BY <1>2, <1>4, <2>2 DEF DeviceAnswers
<1>. QED
  BY <1>4, <1>5, <1>6

LEMMA DeviceFetched ==
  ASSUME DeviceKnown, NEW kind \in Device!Kinds, NEW port \in Queried
  PROVE  Device!Fetched(kind, port) = v_device.list
BY DEF DeviceKnown, Device!Fetched

\* A list that is fetched is kept.
LEMMA DeviceKeepsList ==
  ASSUME DeviceKnown, NEW kind \in Device!Kinds, NEW port \in Queried,
         UNCHANGED <<v_device, v_outputs>>,
         \/ v_lists'
              = [v_lists EXCEPT ![kind][port] = Device!Fetched(kind, port)]
         \/ v_lists' = v_lists
  PROVE  DeviceKnown'
<1>1. CASE v_lists' = v_lists
  BY <1>1 DEF DeviceKnown
<1>2. CASE v_lists'
             = [v_lists EXCEPT ![kind][port] = Device!Fetched(kind, port)]
  <2>1. v_lists'
          = [v_lists EXCEPT ![kind]
            = [v_lists[kind] EXCEPT ![port] = v_device.list]]
    BY <1>2, DeviceFetched
  <2>2. v_lists[kind] \in [Queried -> {<<>>, v_device.list}]
    BY DEF DeviceKnown
  <2>3. [v_lists[kind] EXCEPT ![port] = v_device.list]
          \in [Queried -> {<<>>, v_device.list}]
    BY <2>2
  <2>. QED
    BY <2>1, <2>3 DEF DeviceKnown
<1>. QED
  BY <1>1, <1>2

LEMMA DeviceListStep ==
  ASSUME Device!DeviceAssumption, DeviceKnown, DeviceCaches,
         NEW kind \in Device!Kinds, NEW port \in Queried,
         NEW length \in Arrays,
         Device!AskList(kind, port, length)
  PROVE  DeviceKnown' /\ DeviceCaches' /\ DeviceAnswers'
<1>1. /\ UNCHANGED <<v_device, v_outputs, v_strings, v_singles, v_best,
           v_flags>>
      /\ \/ v_lists'
              = [v_lists EXCEPT ![kind][port] = Device!Fetched(kind, port)]
         \/ v_lists' = v_lists
  BY DEF Device!AskList, Device!plugin
<1>2. DeviceKnown' /\ DeviceCaches'
  BY <1>1, DeviceKeepsList DEF DeviceCaches
<1>3. length \in Nat
  BY DEF Device!DeviceAssumption
<1>4. v_device.list \in Seq(Nat)
  <2>1. <<>> \in Seq(Nat) /\ <<2, 5, 2>> \in Seq(Nat)
    OBVIOUS
  <2>. QED
    BY <2>1, DeviceSays
<1>5. /\ v_answer'.call = "list" /\ v_answer'.asked = length
      /\ \/ v_answer'.value = Device!Distinct(v_device.list, length)
         \/ v_answer'.value = <<>> /\ v_answer'.status = Device!UNAVAILABLE
  BY DeviceFetched DEF Device!AskList
<1>6. CASE v_answer'.value = Device!Distinct(v_device.list, length)
  BY <1>1, <1>2, <1>3, <1>4, <1>5, <1>6, DeviceListFits
<1>7. CASE v_answer'.value = <<>> /\ v_answer'.status = Device!UNAVAILABLE
  <2>1. Len(v_answer'.value) = 0 /\ Device!IsInjective(v_answer'.value)
    BY <1>7 DEF Device!IsInjective
  <2>2. Device!AnswersFit'
    BY <1>3, <1>5, <1>7, <2>1
       DEF Device!AnswersFit, Device!OK, Device!UNAVAILABLE
  <2>. QED
    BY <1>2, <1>5, <2>2 DEF DeviceAnswers
<1>. QED
  BY <1>5, <1>6, <1>7

\* The best of the resolutions is one of them, or 480i.
LEMMA DeviceBest ==
  ASSUME Device!DeviceAssumption, DeviceKnown
  PROVE  Device!Best(Device!Distinct(v_device.list, 32)) \in Nat
<1>. DEFINE all == {1} \cup Device!Range(Device!Distinct(v_device.list, 32))
<1>1. v_device.list \in Seq({2, 5})
  <2>1. <<>> \in Seq({2, 5}) /\ <<2, 5, 2>> \in Seq({2, 5})
    OBVIOUS
  <2>. QED
    BY <2>1, DeviceSays
<1>2. Device!Range(v_device.list) \subseteq {2, 5}
  BY <1>1 DEF Device!Range
<1>3. all \subseteq {1, 2, 5} /\ 1 \in all
  BY <1>1, <1>2, DeviceDistinct
<1>. HIDE DEF all
<1>4. \E x \in all : \A y \in all : x >= y
  BY <1>3
<1>5. Device!Max(all) \in all
  BY <1>4 DEF Device!Max
<1>. QED
  BY <1>3, <1>5 DEF Device!Best, all

LEMMA DeviceMaximumStep ==
  ASSUME Device!DeviceAssumption, DeviceKnown, DeviceCaches,
         NEW port \in Queried,
         Device!MaximumOutputResolution(port)
  PROVE  DeviceKnown' /\ DeviceCaches' /\ DeviceAnswers'
<1>. DEFINE best == Device!Best(Device!Distinct(v_device.list, 32))
<1>1. "resolutions" \in Device!Kinds
  BY DEF Device!Kinds
<1>2. Device!Fetched("resolutions", port) = v_device.list
  BY <1>1, DeviceFetched
<1>3. /\ UNCHANGED <<v_device, v_outputs, v_strings, v_singles, v_flags>>
      /\ \/ v_lists'
              = [v_lists EXCEPT !["resolutions"][port]
                = Device!Fetched("resolutions", port)]
         \/ v_lists' = v_lists
      /\ v_best' = v_best \/ v_best' = [v_best EXCEPT ![port] = best]
      /\ v_answer'.call = "maximum"
  BY <1>2 DEF Device!MaximumOutputResolution, Device!plugin
<1>4. best \in Nat
  BY DeviceBest
<1>. HIDE DEF best
<1>5. DeviceKnown'
  BY <1>1, <1>3, DeviceKeepsList
<1>6. DeviceCaches'
  BY <1>3, <1>4 DEF DeviceCaches
<1>. QED
  BY <1>3, <1>5, <1>6, DeviceOtherFits

\* What the calls for the single values of a port do.
LEMMA DeviceSingleCalls ==
  ASSUME DeviceCaches, NEW port \in Queried,
         Device!DefaultOutputResolution(port) \/ Device!Hdcp(port)
  PROVE  \E kind \in Device!Singles, value \in DeviceSingles : \E status :
           /\ Device!Single(kind, port, value, status)
           /\ \/ value = v_singles[kind][port]
              \/ value \in DeviceSingleOf(kind)
           /\ kind = "default" /\ status = Device!OK => value # Device!Unset
<1>1. \A kind \in Device!Singles : v_singles[kind][port] \in DeviceSingles
  BY DEF DeviceCaches
<1>2. /\ {"default", "hdcp"} \subseteq Device!Singles
      /\ {"default", "hdcp", Device!Unset, Device!Undefined}
           \subseteq DeviceSingles
  BY DEF Device!Singles, DeviceSingles
<1>3. CASE Device!DefaultOutputResolution(port)
  <2>1. /\ DeviceSingleOf("default")
             = {"default", Device!Unset, Device!Undefined}
        /\ "default" # Device!Unset /\ Device!Undefined # Device!Unset
        /\ Device!UNAVAILABLE # Device!OK
    BY DEF DeviceSingleOf, Device!Unset, Device!Undefined, Device!UNAVAILABLE,
           Device!OK
  <2>2. \E value \in {v_singles["default"][port], "default", Device!Unset,
                      Device!Undefined} : \E status :
           /\ Device!Single("default", port, value, status)
           /\ status = Device!OK => value # Device!Unset
    BY <1>3, <2>1, Zenon DEF Device!DefaultOutputResolution
  <2>. QED
    BY <1>1, <1>2, <2>1, <2>2
<1>4. CASE Device!Hdcp(port)
  <2>1. DeviceSingleOf("hdcp") = {"hdcp", Device!Unset}
    BY DEF DeviceSingleOf
  <2>2. \E value \in {v_singles["hdcp"][port], "hdcp", Device!Unset} : \E status :
           Device!Single("hdcp", port, value, status)
    BY <1>4, Zenon DEF Device!Hdcp
  <2>. QED
    BY <1>1, <1>2, <2>1, <2>2
<1>. QED
  BY <1>3, <1>4

LEMMA DeviceSingleStep ==
  ASSUME DeviceKnown, DeviceCaches, NEW kind \in Device!Singles,
         NEW port \in Queried, NEW value \in DeviceSingles, NEW status,
         Device!Single(kind, port, value, status)
  PROVE  DeviceKnown' /\ DeviceCaches' /\ DeviceAnswers'
<1>1. /\ UNCHANGED <<v_device, v_outputs, v_lists, v_strings, v_best, v_flags>>
      /\ v_singles' = [v_singles EXCEPT ![kind][port] = value]
      /\ v_answer'.call = "single"
  BY DEF Device!Single, Device!plugin
<1>2. DeviceKnown'
  BY <1>1 DEF DeviceKnown
<1>3. v_singles'
        = [v_singles EXCEPT ![kind] = [v_singles[kind] EXCEPT ![port] = value]]
  BY <1>1
<1>4. v_singles[kind] \in [Queried -> DeviceSingles]
  BY DEF DeviceCaches
<1>5. [v_singles[kind] EXCEPT ![port] = value] \in [Queried -> DeviceSingles]
  BY <1>4
<1>. QED
  BY <1>1, <1>2, <1>3, <1>5, DeviceOtherFits DEF DeviceCaches

LEMMA DeviceFlagStep ==
  ASSUME DeviceKnown, DeviceCaches, NEW f \in Device!Flags, Device!AskFlag(f)
  PROVE  DeviceKnown' /\ DeviceCaches' /\ DeviceAnswers'
<1>1. /\ UNCHANGED <<v_device, v_outputs, v_lists, v_strings, v_best,
           v_singles>>
      /\ v_flags' = v_flags \/ v_flags' = Device!Set(f, f \in v_device.flags)
      /\ v_answer'.call = "flag"
  BY DEF Device!AskFlag, Device!plugin
<1>2. Device!Set(f, f \in v_device.flags) \subseteq 0..6
  BY DEF DeviceCaches, Device!Set, Device!Flags, Device!Value, Device!Cached
<1>3. DeviceKnown' /\ DeviceCaches'
  BY <1>1, <1>2 DEF DeviceKnown, DeviceCaches
<1>. QED
  BY <1>1, <1>3, DeviceOtherFits

LEMMA DeviceKnowsStep ==
  ASSUME Device!DeviceAssumption, DeviceKnown, DeviceCaches, DeviceAnswers,
         [Device!Next]_(Device!vars)
  PROVE  DeviceKnown' /\ DeviceCaches' /\ DeviceAnswers'
<1>1. CASE UNCHANGED Device!vars
  <2>1. UNCHANGED <<v_device, v_outputs, v_lists, v_strings, v_singles, v_best,
          v_flags, v_answer>>
    BY <1>1 DEF Device!vars
  <2>2. Device!AnswersFit'
    BY <2>1 DEF DeviceAnswers, Device!AnswersFit, Device!Size, Device!Reply
  <2>. QED
    BY <2>1, <2>2 DEF DeviceKnown, DeviceCaches, DeviceAnswers
<1>2. CASE Device!OperationalUp \/ Device!OperationalDown
  <2>1. /\ UNCHANGED <<v_device, v_outputs, v_lists, v_strings, v_singles,
             v_best, v_flags>>
        /\ v_answer'.call = "none"
    BY <1>2
       DEF Device!OperationalUp, Device!OperationalDown, Device!caches,
           Device!Nothing
  <2>. QED
    BY <2>1, DeviceOtherFits DEF DeviceKnown, DeviceCaches
<1>3. CASE Device!AskStrings
  BY <1>3, DeviceStrings, DeviceStringStep, DeviceIdStep
<1>4. CASE Device!AskLists
  <2>1. \A port \in Queried :
          Device!DefaultOutputResolution(port) \/ Device!Hdcp(port)
            => DeviceKnown' /\ DeviceCaches' /\ DeviceAnswers'
    BY DeviceSingleCalls, DeviceSingleStep
  <2>. QED
    BY <1>4, <2>1, DeviceListCalls, DeviceOutputsStep, DeviceListStep,
       DeviceMaximumStep
<1>5. CASE Device!AskFlags
  BY <1>5, DeviceFlagStep DEF Device!AskFlags
<1>. QED
  BY <1>1, <1>2, <1>3, <1>4, <1>5 DEF Device!Next

DeviceInv == DeviceKnown /\ DeviceCaches /\ DeviceAnswers

LEMMA DeviceAlways ==
  ASSUME Device!DeviceAssumption
  PROVE  Device!Spec => []DeviceInv
<1>1. Device!Init => DeviceInv
  <2>1. SUFFICES ASSUME Device!Init PROVE DeviceInv
    OBVIOUS
  <2>2. DeviceKnown /\ DeviceCaches
    BY <2>1 DEF Device!Init, DeviceKnown, DeviceCaches, DeviceSingles
  <2>3. v_answer.call = "none"
    BY <2>1 DEF Device!Init, Device!Nothing
  <2>4. DeviceAnswers
    BY <2>3 DEF DeviceAnswers, Device!AnswersFit
  <2>. QED
    BY <2>2, <2>4 DEF DeviceInv
<1>2. DeviceInv /\ [Device!Next]_(Device!vars) => DeviceInv'
  BY DeviceKnowsStep DEF DeviceInv
<1>. QED
  BY <1>1, <1>2, PTL DEF Device!Spec

DeviceUp == v_up \in BOOLEAN

LEMMA DeviceUpAlways == Device!Spec => []DeviceUp
<1>1. Device!Init => DeviceUp
  BY DEF Device!Init, DeviceUp
<1>2. DeviceUp /\ [Device!Next]_(Device!vars) => DeviceUp'
  <2>1. [Device!Next]_(Device!vars) => v_up' \in BOOLEAN \/ v_up' = v_up
    <3>1. Device!AskStrings \/ Device!AskLists \/ Device!AskFlags
            => UNCHANGED Device!plugin
      BY DeviceStringKeeps, DeviceListKeeps, Zenon
         DEF Device!AskFlags, Device!AskFlag
    <3>. QED
      BY <3>1
         DEF Device!Next, Device!OperationalUp, Device!OperationalDown,
             Device!vars, Device!plugin
  <2>. QED
    BY <2>1, Zenon DEF DeviceUp
<1>. QED
  BY <1>1, <1>2, PTL DEF Device!Spec

\* Every variable of the client of DeviceInfo keeps its type.
LEMMA DeviceTypes ==
  ASSUME Device!DeviceAssumption, DeviceHeld, DeviceInv, DeviceUp
  PROVE  Device!TypeOK
<1>1. v_lists \in [Device!Kinds -> [Queried -> Seq(Nat)]]
  <2>1. <<>> \in Seq(Nat) /\ <<2, 5, 2>> \in Seq(Nat)
    OBVIOUS
  <2>2. {<<>>, v_device.list} \subseteq Seq(Nat)
    BY <2>1, DeviceSays DEF DeviceInv
  <2>3. [Queried -> {<<>>, v_device.list}] \subseteq [Queried -> Seq(Nat)]
    BY <2>2
  <2>4. v_lists \in [Device!Kinds -> [Queried -> {<<>>, v_device.list}]]
    BY DEF DeviceInv, DeviceKnown
  <2>. QED
    BY <2>3, <2>4
<1>2. v_outputs \in [Device!Media -> SUBSET Nat]
  <2>1. Outputs \cup {{}} \subseteq SUBSET Nat
    BY DEF Device!DeviceAssumption
  <2>. QED
    BY <2>1 DEF DeviceInv, DeviceKnown
<1>. QED
  BY <1>1, <1>2
     DEF Device!TypeOK, DeviceInv, DeviceCaches, DeviceSingles,
         DeviceAnswers, DeviceHeld, DeviceUp

\* A port of each rank: the next one after a port is the least above it.
LEMMA DeviceRanks ==
  ASSUME NEW S \in SUBSET Nat, IsFiniteSet(S), NEW i \in 1..Cardinality(S)
  PROVE  \E p \in S : Cardinality({q \in S : q < p}) = i - 1
<1>. DEFINE Below(p) == {q \in S : q < p}
            Ranked(n) == \E p \in S : Cardinality(Below(p)) = n
            Bad == {n \in Nat : n < Cardinality(S) /\ ~Ranked(n)}
<1>1. Cardinality(S) \in Nat
  BY FS_CardinalityType
<1>2. Bad = {}
  <2>1. SUFFICES ASSUME Bad # {} PROVE FALSE
    OBVIOUS
  <2>2. PICK n \in Bad : \A m \in Bad : ~(m < n)
    <3>. HIDE DEF Ranked
    <3>. QED
      BY <2>1, Least
  <2>3. CASE n = 0
    <3>1. S # {}
      BY <1>1, <2>2, <2>3, FS_EmptySet
    <3>2. PICK p \in S : \A q \in S : ~(q < p)
      BY <3>1, Least
    <3>3. Below(p) = {}
      BY <3>2
    <3>. QED
      BY <2>2, <2>3, <3>3, FS_EmptySet
  <2>4. CASE n # 0
    <3>1. n - 1 \in Nat /\ n - 1 < n /\ n < Cardinality(S)
      BY <1>1, <2>2, <2>4
    <3>2. Ranked(n - 1)
      <4>. HIDE DEF Ranked
      <4>. QED
        BY <1>1, <2>2, <3>1
    <3>3. PICK p \in S : Cardinality(Below(p)) = n - 1
      BY <3>2
    <3>4. PICK below : below = Below(p)
      OBVIOUS
    <3>5. \A q : q \in below <=> q \in S /\ q < p
      BY <3>4
    <3>6. IsFiniteSet(below) /\ p \notin below /\ Cardinality(below) = n - 1
      <4>1. below \subseteq S /\ p \notin below
        BY <3>5
      <4>. QED
        BY <3>3, <3>4, <4>1, FS_Subset
    <3>7. PICK upto : upto = below \cup {p}
      OBVIOUS
    <3>8. Cardinality(upto) = n
      <4>1. n \in Nat
        BY <2>2
      <4>2. Cardinality(upto) = Cardinality(below) + 1
        BY <3>6, <3>7, FS_AddElement
      <4>. QED
        BY <3>6, <4>1, <4>2
    <3>9. S # upto
      BY <3>1, <3>8
    <3>10. \A q : q \in upto <=> q \in S /\ ~(p < q)
      <4>1. \A q \in S : q < p \/ q = p <=> ~(p < q)
        OBVIOUS
      <4>. QED
        BY <3>5, <3>7, <4>1
    <3>11. PICK above \in SUBSET Nat : above = {q \in S : p < q}
      OBVIOUS
    <3>12. above # {}
      BY <3>9, <3>10, <3>11
    <3>13. PICK r \in above : \A q \in above : ~(q < r)
      BY <3>12, Least
    <3>14. r \in S /\ p < r /\ \A q \in S : q < r <=> ~(p < q)
      BY <3>11, <3>13
    <3>15. Below(r) = upto
      BY <3>10, <3>14
    <3>. QED
      BY <2>2, <3>8, <3>14, <3>15
  <2>. QED
    BY <2>3, <2>4
<1>3. i - 1 \in Nat /\ i - 1 < Cardinality(S)
  BY <1>1
<1>4. Ranked(i - 1)
  <2>. HIDE DEF Ranked
  <2>. QED
    BY <1>2, <1>3
<1>. QED
  BY <1>4

\* The names of a set of ports are those of its members.
LEMMA DeviceNamed ==
  ASSUME Device!DeviceAssumption, NEW ports \in Outputs \cup {{}}
  PROVE  Device!Range(Device!Names(ports))
           \subseteq {Device!Convert(p) : p \in ports}
<1>1. IsFiniteSet(ports) /\ ports \in SUBSET Nat
  BY FS_EmptySet DEF Device!DeviceAssumption, Device!IsFiniteSet, IsFiniteSet
<1>2. ASSUME NEW i \in 1..Cardinality(ports)
      PROVE  Device!Nth(ports, i) \in ports
  <2>1. \E p \in ports : Cardinality({q \in ports : q < p}) = i - 1
    BY <1>1, DeviceRanks
  <2>2. \E p \in ports : Device!Cardinality({q \in ports : q < p}) = i - 1
    BY <2>1 DEF Device!Cardinality, Cardinality
  <2>. QED
    BY <2>2, Zenon DEF Device!Nth
<1>3. Device!Cardinality(ports) = Cardinality(ports)
  BY DEF Device!Cardinality, Cardinality
<1>4. Device!Names(ports)
        = [i \in 1..Cardinality(ports) |->
             Device!Convert(Device!Nth(ports, i))]
  BY <1>3, Zenon DEF Device!Names
<1>. DEFINE N == 1..Cardinality(ports)
            nth == [i \in N |-> Device!Nth(ports, i)]
            convert == [p \in ports |-> Device!Convert(p)]
<1>5. \A i \in N : nth[i] \in ports
  BY <1>2
<1>6. Device!Range(Device!Names(ports)) = {convert[nth[i]] : i \in N}
  BY <1>4, <1>5 DEF Device!Range
<1>. HIDE DEF N, nth
<1>. QED
  BY <1>5, <1>6

-----------------------------------------------------------------------------
\* Each cache holds what the device says of it, or nothing yet; a bit for the
\* value of a flag is set only together with the bit that it is cached.
DeviceTruth ==
  /\ \A a \in Device!Attributes : v_strings[a] \in {Device!Unset, a}
  /\ \A m \in Device!Media : v_outputs[m] \in {{}, v_device.ports}
  /\ \A k \in Device!Singles, p \in Queried :
       v_singles[k][p] \in DeviceSingleOf(k)
  /\ \A p \in Queried : v_best[p] # 0
       => \A v \in Device!Range(v_device.list) : v <= v_best[p]
  /\ \A f \in Device!Flags :
       /\ Device!Cached(f) \in v_flags
            => (Device!Value(f) \in v_flags <=> f \in v_device.flags)
       /\ Device!Value(f) \in v_flags => Device!Cached(f) \in v_flags

\* A call that changes no cache.
LEMMA DeviceSameTruth ==
  ASSUME DeviceTruth,
         UNCHANGED <<v_device, v_strings, v_outputs, v_singles, v_best,
           v_flags>>
  PROVE  DeviceTruth'
BY DEF DeviceTruth

LEMMA DeviceStringMatch ==
  ASSUME DeviceInv, DeviceTruth, NEW a \in Device!Attributes, NEW length,
         DeviceString(a, length)
  PROVE  DeviceTruth' /\ Device!AnswersMatch'
<1>1. UNCHANGED <<v_device, v_outputs, v_singles, v_best, v_flags>>
  BY DEF DeviceString, Device!plugin
<1>2. \A b \in Device!Attributes : v_strings'[b] \in {Device!Unset, b}
  BY DEF DeviceString, DeviceTruth, DeviceInv, DeviceCaches
<1>3. DeviceTruth'
  BY <1>1, <1>2 DEF DeviceTruth
<1>4. /\ v_answer'.call = "string" /\ v_answer'.of = a
      /\ v_answer'.status = Device!OK
           => \/ v_answer'.value = a
              \/ /\ a = "serial_number" /\ v_answer'.value = Device!Unset
                 /\ v_strings'["model_name"] # Device!Unset
  <2>1. CASE /\ v_strings[Device!Tested(a)] # Device!Unset
             /\ v_answer' = Device!Reply(a, v_strings[a], length)
             /\ UNCHANGED v_strings
    <3>1. /\ v_answer'.call = "string" /\ v_answer'.of = a
          /\ v_answer'.value = v_strings[a]
      BY <2>1 DEF Device!Reply
    <3>2. v_strings[a] \in {Device!Unset, a}
      BY DEF DeviceTruth
    <3>. QED
      BY <2>1, <3>1, <3>2 DEF Device!Tested
  <2>2. CASE v_answer' = Device!Reply(a, a, length)
    BY <2>2 DEF Device!Reply
  <2>3. CASE v_answer' = [call |-> "string", of |-> a, value |-> Device!Unset,
                          asked |-> length, status |-> Device!UNAVAILABLE,
                          length |-> 0]
    BY <2>3 DEF Device!OK, Device!UNAVAILABLE
  <2>. QED
    BY <2>1, <2>2, <2>3 DEF DeviceString
<1>5. Device!AnswersMatch'
  BY <1>4 DEF Device!AnswersMatch
<1>. QED
  BY <1>3, <1>5

LEMMA DeviceIdMatch ==
  ASSUME DeviceInv, DeviceTruth, NEW length, Device!Id(length)
  PROVE  DeviceTruth' /\ Device!AnswersMatch'
<1>1. /\ UNCHANGED <<v_device, v_outputs, v_singles, v_best, v_flags>>
      /\ v_answer'.call = "id"
      /\ v_strings' = v_strings
         \/ \E value \in {Device!Unset, "id"} :
              v_strings' = [v_strings EXCEPT !["id"] = value]
  BY DEF Device!Id, Device!plugin
<1>2. \A b \in Device!Attributes : v_strings'[b] \in {Device!Unset, b}
  BY <1>1 DEF DeviceTruth, DeviceInv, DeviceCaches
<1>3. DeviceTruth'
  BY <1>1, <1>2 DEF DeviceTruth
<1>4. Device!AnswersMatch'
  BY <1>1 DEF Device!AnswersMatch
<1>. QED
  BY <1>3, <1>4

LEMMA DeviceOutputsMatch ==
  ASSUME Device!DeviceAssumption, DeviceInv, DeviceTruth,
         NEW medium \in Device!Media, NEW length \in Arrays,
         Device!AskOutputs(medium, length)
  PROVE  DeviceTruth' /\ Device!AnswersMatch'
<1>1. /\ UNCHANGED <<v_device, v_strings, v_singles, v_best, v_flags>>
      /\ \/ v_outputs' = v_outputs
         \/ v_outputs' = [v_outputs EXCEPT ![medium] = v_device.ports]
  BY DEF Device!AskOutputs, Device!plugin
<1>2. \A m \in Device!Media : v_outputs'[m] \in {{}, v_device.ports}
  BY <1>1 DEF DeviceTruth, DeviceInv, DeviceKnown
<1>3. DeviceTruth'
  BY <1>1, <1>2 DEF DeviceTruth
<1>4. PICK ports \in {{}, v_device.ports} : ports = v_outputs'[medium]
  BY <1>2
<1>5. ports \in Outputs \cup {{}}
  BY <1>4 DEF DeviceInv, DeviceKnown
<1>6. /\ v_answer'.call = "outputs"
      /\ \/ v_answer'.value = Device!Distinct(Device!Names(ports), length)
         \/ v_answer'.value = <<>>
  BY <1>4 DEF Device!AskOutputs
<1>7. Device!Range(v_answer'.value) \subseteq Device!Range(Device!Names(ports))
  <2>1. Device!Names(ports) \in Seq(Device!Ports) /\ length \in Nat
    BY <1>5, DeviceNames DEF Device!DeviceAssumption
  <2>2. Device!Range(Device!Distinct(Device!Names(ports), length))
          \subseteq Device!Range(Device!Names(ports))
    BY <2>1, DeviceDistinct
  <2>3. Device!Range(<<>>) = {}
    BY DEF Device!Range
  <2>. QED
    BY <1>6, <2>2, <2>3
<1>8. Device!Range(v_answer'.value)
        \subseteq {Device!Convert(p) : p \in v_device.ports}
  BY <1>4, <1>5, <1>7, DeviceNamed
<1>9. Device!AnswersMatch'
  <2>1. {Device!Convert(p) : p \in v_device.ports}
          = {Device!Convert(p) : p \in v_device'.ports}
    BY <1>1
  <2>. QED
    BY <1>6, <1>8, <2>1 DEF Device!AnswersMatch, Device!Convert
<1>. QED
  BY <1>3, <1>9

\* The list of a device, and what is written of it.
LEMMA DeviceListIs ==
  ASSUME Device!DeviceAssumption, DeviceInv, NEW length \in Nat
  PROVE  /\ Device!Range(Device!Distinct(v_device.list, length))
              \subseteq Device!Range(v_device.list)
         /\ length >= 3 => Device!Range(Device!Distinct(v_device.list, length))
                             = Device!Range(v_device.list)
         /\ Device!Range(v_device.list) \subseteq {2, 5}
<1>1. v_device.list \in Seq({2, 5}) /\ Len(v_device.list) <= 3
  <2>1. <<>> \in Seq({2, 5}) /\ <<2, 5, 2>> \in Seq({2, 5})
        /\ Len(<<>>) = 0 /\ Len(<<2, 5, 2>>) = 3
    OBVIOUS
  <2>2. v_device.list = <<>> \/ v_device.list = <<2, 5, 2>>
    BY DeviceSays DEF DeviceInv
  <2>3. CASE v_device.list = <<>>
    BY <2>1, <2>3
  <2>4. CASE v_device.list = <<2, 5, 2>>
    BY <2>1, <2>4
  <2>. QED
    BY <2>2, <2>3, <2>4
<1>2. Device!Range(v_device.list) \subseteq {2, 5}
  BY <1>1 DEF Device!Range
<1>. QED
  BY <1>1, <1>2, DeviceDistinct

LEMMA DeviceListMatch ==
  ASSUME Device!DeviceAssumption, DeviceInv, DeviceTruth,
         NEW kind \in Device!Kinds, NEW port \in Queried,
         NEW length \in Arrays, Device!AskList(kind, port, length)
  PROVE  DeviceTruth' /\ Device!AnswersMatch'
<1>1. UNCHANGED <<v_device, v_outputs, v_strings, v_singles, v_best, v_flags>>
  BY DEF Device!AskList, Device!plugin
<1>2. /\ v_answer'.call = "list"
      /\ \/ v_answer'.value = Device!Distinct(v_device.list, length)
         \/ v_answer'.value = <<>>
  BY DeviceFetched DEF Device!AskList, DeviceInv
<1>3. length \in Nat
  BY DEF Device!DeviceAssumption
<1>4. Device!Range(<<>>) = {}
  BY DEF Device!Range
<1>5. Device!Range(v_answer'.value) \subseteq Device!Range(v_device'.list)
  BY <1>1, <1>2, <1>3, <1>4, DeviceListIs
<1>6. Device!AnswersMatch'
  BY <1>2, <1>5 DEF Device!AnswersMatch
<1>. QED
  BY <1>1, <1>6, DeviceSameTruth

\* The best resolution of a list is no worse than any in it.
LEMMA DeviceBestIs ==
  ASSUME Device!DeviceAssumption, DeviceInv
  PROVE  \A v \in Device!Range(v_device.list) :
           v <= Device!Best(Device!Distinct(v_device.list, 32))
<1>. DEFINE all == {1} \cup Device!Range(Device!Distinct(v_device.list, 32))
<1>1. /\ all \subseteq {1, 2, 5} /\ 1 \in all
      /\ Device!Range(v_device.list) \subseteq all
  BY DeviceListIs
<1>2. Device!Best(Device!Distinct(v_device.list, 32)) = Device!Max(all)
  BY DEF Device!Best
<1>. HIDE DEF all
<1>3. \E x \in all : \A y \in all : x >= y
  BY <1>1
<1>4. Device!Max(all) \in all /\ \A y \in all : Device!Max(all) >= y
  BY <1>3 DEF Device!Max
<1>. QED
  BY <1>1, <1>2, <1>4

LEMMA DeviceMaximumMatch ==
  ASSUME Device!DeviceAssumption, DeviceInv, DeviceTruth,
         NEW port \in Queried, Device!MaximumOutputResolution(port)
  PROVE  DeviceTruth' /\ Device!AnswersMatch'
<1>. DEFINE best == Device!Best(Device!Distinct(v_device.list, 32))
<1>1. Device!Fetched("resolutions", port) = v_device.list
  BY DeviceFetched DEF DeviceInv, Device!Kinds
<1>2. /\ UNCHANGED <<v_device, v_outputs, v_strings, v_singles, v_flags>>
      /\ v_best' = v_best \/ v_best' = [v_best EXCEPT ![port] = best]
      /\ v_answer'.call = "maximum"
      /\ \/ v_best[port] # 0 /\ v_answer'.value = v_best[port]
         \/ v_answer'.value = best
         \/ v_answer'.status # Device!OK
  BY <1>1
     DEF Device!MaximumOutputResolution, Device!plugin, Device!OK,
         Device!UNAVAILABLE, Device!INVALID_INPUT_LENGTH
<1>3. \A v \in Device!Range(v_device.list) : v <= best
  BY DeviceBestIs
<1>. HIDE DEF best
<1>4. \A p \in Queried : v_best'[p] # 0
        => \A v \in Device!Range(v_device.list) : v <= v_best'[p]
  BY <1>2, <1>3 DEF DeviceTruth, DeviceInv, DeviceCaches
<1>5. DeviceTruth'
  BY <1>2, <1>4 DEF DeviceTruth
<1>6. v_answer'.status = Device!OK
        => \A v \in Device!Range(v_device'.list) : v <= v_answer'.value
  BY <1>2, <1>3 DEF DeviceTruth
<1>7. Device!AnswersMatch'
  BY <1>2, <1>6 DEF Device!AnswersMatch
<1>. QED
  BY <1>5, <1>7

LEMMA DeviceSingleMatch ==
  ASSUME DeviceInv, DeviceTruth, NEW kind \in Device!Singles,
         NEW port \in Queried, NEW value, NEW status,
         Device!Single(kind, port, value, status),
         \/ value = v_singles[kind][port]
         \/ value \in DeviceSingleOf(kind),
         kind = "default" /\ status = Device!OK => value # Device!Unset
  PROVE  DeviceTruth' /\ Device!AnswersMatch'
<1>1. /\ UNCHANGED <<v_device, v_outputs, v_strings, v_best, v_flags>>
      /\ v_singles' = [v_singles EXCEPT ![kind][port] = value]
      /\ v_answer'.call = "single" /\ v_answer'.of = kind
      /\ v_answer'.value = value /\ v_answer'.status = status
  BY DEF Device!Single, Device!plugin
<1>2. value \in DeviceSingleOf(kind)
  BY DEF DeviceTruth
<1>3. \A k \in Device!Singles, p \in Queried :
        v_singles'[k][p] \in DeviceSingleOf(k)
  <2>1. v_singles \in [Device!Singles -> [Queried -> DeviceSingles]]
    BY DEF DeviceInv, DeviceCaches
  <2>2. \A k \in Device!Singles, p \in Queried : v_singles'[k][p]
          = IF k = kind /\ p = port THEN value ELSE v_singles[k][p]
    BY <1>1, <2>1
  <2>. QED
    BY <1>2, <2>2 DEF DeviceTruth
<1>4. DeviceTruth'
  BY <1>1, <1>3 DEF DeviceTruth
<1>5. status = Device!OK
        => value \in {kind, IF kind = "hdcp" THEN Device!Unset
                                             ELSE Device!Undefined}
  BY <1>2 DEF DeviceSingleOf, Device!Singles
<1>6. Device!AnswersMatch'
  BY <1>1, <1>5 DEF Device!AnswersMatch
<1>. QED
  BY <1>4, <1>6

LEMMA DeviceFlagMatch ==
  ASSUME DeviceInv, DeviceTruth, NEW f \in Device!Flags, Device!AskFlag(f)
  PROVE  DeviceTruth' /\ Device!AnswersMatch'
<1>1. /\ UNCHANGED <<v_device, v_outputs, v_strings, v_singles, v_best>>
      /\ \/ v_flags' = v_flags
         \/ /\ Device!Cached(f) \notin v_flags
            /\ v_flags' = Device!Set(f, f \in v_device.flags)
      /\ v_answer'.call = "flag" /\ v_answer'.of = f
  BY DEF Device!AskFlag, Device!plugin
<1>2. \A g \in Device!Flags : g = f \/
        /\ Device!Value(g) # Device!Value(f)
        /\ Device!Value(g) # Device!Cached(f)
        /\ Device!Cached(g) # Device!Cached(f)
        /\ Device!Cached(g) # Device!Value(f)
  BY DEF Device!Flags, Device!Value, Device!Cached
<1>3. Device!Value(f) # Device!Cached(f)
  BY DEF Device!Flags, Device!Value, Device!Cached
<1>4. \A g \in Device!Flags :
        /\ Device!Cached(g) \in v_flags'
             => (Device!Value(g) \in v_flags' <=> g \in v_device.flags)
        /\ Device!Value(g) \in v_flags' => Device!Cached(g) \in v_flags'
  <2>1. CASE v_flags' = v_flags
    BY <2>1 DEF DeviceTruth
  <2>2. CASE /\ Device!Cached(f) \notin v_flags
             /\ v_flags' = Device!Set(f, f \in v_device.flags)
    <3>1. v_flags' = v_flags \cup (IF f \in v_device.flags
                                   THEN {Device!Value(f)} ELSE {})
                     \cup {Device!Cached(f)}
      BY <2>2 DEF Device!Set
    <3>2. Device!Value(f) \notin v_flags
      BY <2>2 DEF DeviceTruth
    <3>. QED
      BY <1>2, <1>3, <3>1, <3>2 DEF DeviceTruth
  <2>. QED
    BY <1>1, <2>1, <2>2
<1>5. DeviceTruth'
  BY <1>1, <1>4 DEF DeviceTruth
<1>6. v_answer'.written => (v_answer'.value <=> f \in v_device.flags)
  <2>1. CASE Device!Cached(f) \in v_flags
    <3>1. PICK on \in BOOLEAN : on = (Device!Value(f) \in v_flags)
      <4>1. (Device!Value(f) \in v_flags) \in BOOLEAN
        OBVIOUS
      <4>. QED
        BY <4>1, Zenon
    <3>2. v_answer' = [call |-> "flag", of |-> f, status |-> Device!OK,
                       written |-> TRUE, value |-> on]
      BY <2>1, <3>1, Zenon DEF Device!AskFlag
    <3>3. v_answer'.value = on
      BY <3>2
    <3>. QED
      BY <2>1, <3>1, <3>3 DEF DeviceTruth
  <2>2. CASE Device!Cached(f) \notin v_flags
    <3>1. PICK on \in BOOLEAN : on = (f \in v_device.flags)
      <4>1. (f \in v_device.flags) \in BOOLEAN
        OBVIOUS
      <4>. QED
        BY <4>1, Zenon
    <3>2. PICK status :
            \/ v_answer' = [call |-> "flag", of |-> f, status |-> Device!OK,
                            written |-> TRUE, value |-> on]
            \/ v_answer' = [call |-> "flag", of |-> f, written |-> FALSE,
                            value |-> FALSE, status |-> status]
      BY <2>2, <3>1, Zenon DEF Device!AskFlag
    <3>3. v_answer'.value = on \/ v_answer'.written = FALSE
      BY <3>2
    <3>. QED
      BY <3>1, <3>3
  <2>. QED
    BY <2>1, <2>2
<1>7. Device!AnswersMatch'
  BY <1>1, <1>6 DEF Device!AnswersMatch
<1>. QED
  BY <1>5, <1>7

LEMMA DeviceMatchStep ==
  ASSUME Device!DeviceAssumption, DeviceInv, DeviceTruth,
         Device!AnswersMatch, [Device!Next]_(Device!vars)
  PROVE  DeviceTruth' /\ Device!AnswersMatch'
<1>1. CASE UNCHANGED Device!vars
  <2>1. UNCHANGED <<v_device, v_strings, v_outputs, v_singles, v_best, v_flags,
          v_answer>>
    BY <1>1 DEF Device!vars
  <2>2. Device!AnswersMatch'
    BY <2>1 DEF Device!AnswersMatch, Device!Convert
  <2>. QED
    BY <2>1, <2>2, DeviceSameTruth
<1>2. CASE Device!OperationalUp \/ Device!OperationalDown
  <2>1. /\ UNCHANGED <<v_device, v_strings, v_outputs, v_singles, v_best,
             v_flags>>
        /\ v_answer' = Device!Nothing
    BY <1>2 DEF Device!OperationalUp, Device!OperationalDown, Device!caches
  <2>. QED
    BY <2>1, DeviceSameTruth DEF Device!AnswersMatch
<1>3. CASE Device!AskStrings
  BY <1>3, DeviceStrings, DeviceStringMatch, DeviceIdMatch
<1>4. CASE Device!AskLists
  <2>1. \A port \in Queried :
          Device!DefaultOutputResolution(port) \/ Device!Hdcp(port)
            => DeviceTruth' /\ Device!AnswersMatch'
    BY DeviceSingleCalls, DeviceSingleMatch DEF DeviceInv
  <2>. QED
    BY <1>4, <2>1, DeviceListCalls, DeviceOutputsMatch, DeviceListMatch,
       DeviceMaximumMatch
<1>5. CASE Device!AskFlags
  BY <1>5, DeviceFlagMatch DEF Device!AskFlags
<1>. QED
  BY <1>1, <1>2, <1>3, <1>4, <1>5 DEF Device!Next

\* What the client of DeviceInfo answers is what the device says.
LEMMA DeviceMatchAlways ==
  ASSUME Device!DeviceAssumption
  PROVE  Device!Spec => []Device!AnswersMatch
<1>1. Device!Init => DeviceTruth /\ Device!AnswersMatch
  BY DEF Device!Init, DeviceTruth, DeviceSingleOf, Device!AnswersMatch,
         Device!Singles
<1>2. DeviceInv /\ DeviceTruth /\ Device!AnswersMatch
        /\ [Device!Next]_(Device!vars)
          => DeviceTruth' /\ Device!AnswersMatch'
  BY DeviceMatchStep
<1>. QED
  BY <1>1, <1>2, DeviceAlways, PTL DEF Device!Spec

-----------------------------------------------------------------------------
(* The proxies and the local objects of Cryptography *)

\* Client c has the reference a remote call gave it for proxy p.
CryptoWaits(c, p) == c_pc[c].step \in {"register", "release"} /\ c_pc[c].new = p

\* One client at most has such a reference, which is of a proxy that was made
\* and, before it is registered, has no _accessor.
CryptoPending ==
  /\ \A c \in Clients : c_pc[c].step \in {"register", "release"}
       => c_pc[c].new \in 1..c_made
  /\ \A c, d \in Clients, p \in Crypto!Proxy :
       CryptoWaits(c, p) /\ CryptoWaits(d, p) => c = d
  /\ \A c \in Clients : c_pc[c].step = "register" => ~c_accessor[c_pc[c].new]
  /\ \A p \in Crypto!Proxy : p > c_made => ~c_accessor[p]

\* The references, counted without a cardinality.
CryptoCounted ==
  \A p \in Crypto!Proxy :
    c_refs[p] = (IF c_accessor[p] THEN 1 ELSE 0)
                + (IF \E c \in Clients : CryptoWaits(c, p) THEN 1 ELSE 0)

CryptoInv ==
  /\ Crypto!TypeOK
  /\ CryptoPending
  /\ CryptoCounted
  /\ Crypto!LocalVaultOutlives

CryptoCalls == [step : {"idle", "register", "release", "query"},
                parent : 0..MaxProxies, new : 0..MaxProxies,
                kind : Crypto!Kinds \cup {"none"}]

LEMMA CryptoInit ==
  ASSUME Crypto!CryptographyBounds, Crypto!Init
  PROVE  CryptoInv
<1>1. Crypto!Idle \in CryptoCalls /\ Crypto!Idle.step = "idle"
  BY DEF Crypto!Idle, CryptoCalls, Crypto!CryptographyBounds
<1>2. /\ c_pc \in [Clients -> CryptoCalls]
      /\ \A c \in Clients : c_pc[c].step = "idle"
  BY <1>1 DEF Crypto!Init
<1>3. c_up \in BOOLEAN
  BY Zenon DEF Crypto!Init
<1>4. /\ c_accessor \in [Crypto!Proxy -> BOOLEAN]
      /\ \A p \in Crypto!Proxy : ~c_accessor[p]
  BY DEF Crypto!Init
<1>5. /\ c_kind \in [Crypto!Proxy -> Crypto!Kinds \cup {"none"}]
      /\ c_held \in [Crypto!Proxy -> Nat] /\ c_refs \in [Crypto!Proxy -> Nat]
      /\ c_made \in 0..MaxProxies
      /\ c_locals \in [alive : Nat, made : Nat]
      /\ c_vaultRefs \in Nat /\ c_vaultHeld \in Nat
  BY DEF Crypto!Init, Crypto!CryptographyBounds
<1>6. Crypto!TypeOK
  BY <1>2, <1>3, <1>4, <1>5 DEF Crypto!Init, Crypto!TypeOK, CryptoCalls
<1>7. CryptoPending /\ CryptoCounted
  BY <1>2, <1>4 DEF Crypto!Init, CryptoPending, CryptoCounted, CryptoWaits
<1>8. Crypto!LocalVaultOutlives
  BY DEF Crypto!Init, Crypto!LocalVaultOutlives
<1>. QED
  BY <1>6, <1>7, <1>8 DEF CryptoInv

\* A remote call returned an object: a proxy number that was not used.
LEMMA CryptoObtainStep ==
  ASSUME Crypto!CryptographyBounds, CryptoInv, UNCHANGED Crypto!localVars,
         NEW c \in Clients, NEW parent \in 0..MaxProxies,
         NEW what \in Crypto!Kinds, c_pc[c].step = "idle",
         Crypto!Obtain(c, parent, what)
  PROVE  CryptoInv'
<1>. USE DEF CryptoInv
<1>. DEFINE n == c_made + 1
            call == [step |-> "register", parent |-> parent, new |-> n,
              kind |-> what]
<1>1. /\ n \in Crypto!Proxy /\ n \in 0..MaxProxies /\ c_made' = n
      /\ c_refs' = [c_refs EXCEPT ![n] = 1]
      /\ c_pc' = [c_pc EXCEPT ![c] = call]
      /\ UNCHANGED <<c_kind, c_accessor, c_listed, c_clearing, c_held, c_up,
                     c_vaultRefs, c_vaultHeld, c_locals>>
  BY DEF Crypto!Obtain, Crypto!TypeOK, Crypto!Proxy, Crypto!CryptographyBounds,
         Crypto!localVars
<1>2. call \in CryptoCalls /\ call.step = "register" /\ call.new = n
  BY <1>1 DEF CryptoCalls
<1>3. c_pc \in [Clients -> CryptoCalls]
  BY DEF Crypto!TypeOK, CryptoCalls
<1>4. /\ c_pc' \in [Clients -> CryptoCalls]
      /\ c_pc'[c] = call /\ \A d \in Clients \ {c} : c_pc'[d] = c_pc[d]
  BY <1>1, <1>2, <1>3
<1>5. Crypto!TypeOK'
  BY <1>1, <1>4 DEF Crypto!TypeOK, CryptoCalls
<1>6. c_made \in Nat
  BY DEF Crypto!TypeOK
<1>7. \A d \in Clients : ~CryptoWaits(d, n)
  BY <1>6 DEF CryptoPending, CryptoWaits
<1>8. \A d \in Clients, p \in Crypto!Proxy :
        CryptoWaits(d, p)' <=> IF d = c THEN p = n ELSE CryptoWaits(d, p)
  BY <1>2, <1>4 DEF CryptoWaits
<1>9. ~c_accessor[n]
  BY <1>1, <1>6 DEF CryptoPending
<1>10. CryptoPending'
  <2>1. \A d \in Clients : c_pc'[d].step \in {"register", "release"}
          => c_pc'[d].new \in 1..c_made'
    BY <1>1, <1>2, <1>4, <1>6 DEF CryptoPending, CryptoWaits
  <2>2. \A d, e \in Clients, p \in Crypto!Proxy :
          (CryptoWaits(d, p) /\ CryptoWaits(e, p))' => d = e
    BY <1>7, <1>8 DEF CryptoPending
  <2>3. \A d \in Clients : c_pc'[d].step = "register"
          => ~c_accessor'[c_pc'[d].new]
    BY <1>1, <1>2, <1>4, <1>9 DEF CryptoPending
  <2>4. \A p \in Crypto!Proxy : p > c_made' => ~c_accessor'[p]
    BY <1>1, <1>6 DEF CryptoPending, Crypto!Proxy, Crypto!CryptographyBounds
  <2>. QED
    BY <2>1, <2>2, <2>3, <2>4 DEF CryptoPending
<1>11. CryptoCounted'
  <2>. SUFFICES ASSUME NEW p \in Crypto!Proxy
                PROVE  c_refs'[p] = (IF c_accessor'[p] THEN 1 ELSE 0)
                         + (IF \E d \in Clients : CryptoWaits(d, p)' THEN 1
                           ELSE 0)
    BY DEF CryptoCounted
  <2>1. c_refs \in [Crypto!Proxy -> Nat]
    BY DEF Crypto!TypeOK
  <2>2. CASE p = n
    BY <1>1, <1>8, <1>9, <2>1, <2>2
  <2>3. CASE p # n
    <3>1. (\E d \in Clients : CryptoWaits(d, p)')
            <=> \E d \in Clients : CryptoWaits(d, p)
      BY <1>8, <2>3 DEF CryptoWaits
    <3>. QED
      BY <1>1, <2>1, <2>3, <3>1 DEF CryptoCounted
  <2>. QED
    BY <2>2, <2>3
<1>12. Crypto!LocalVaultOutlives'
  BY <1>1 DEF Crypto!LocalVaultOutlives
<1>. QED
  BY <1>5, <1>10, <1>11, <1>12

\* The proxy takes a reference of its own, the caller gives its one back, and
\* the application gets the proxy.
LEMMA CryptoClientStep ==
  ASSUME Crypto!CryptographyBounds, CryptoInv, UNCHANGED Crypto!localVars,
         NEW c \in Clients,
         Crypto!Register(c) \/ Crypto!ReleaseRemote(c) \/ Crypto!Query(c)
  PROVE  CryptoInv'
<1>. USE DEF CryptoInv
<1>. DEFINE n == c_pc[c].new
<1>1. /\ c_pc \in [Clients -> CryptoCalls]
      /\ c_refs \in [Crypto!Proxy -> Nat] /\ c_held \in [Crypto!Proxy -> Nat]
      /\ c_accessor \in [Crypto!Proxy -> BOOLEAN]
      /\ c_made \in Nat /\ c_made <= MaxProxies
  BY DEF Crypto!TypeOK, CryptoCalls, Crypto!CryptographyBounds
<1>2. /\ UNCHANGED <<c_clearing, c_made, c_up, c_vaultRefs, c_vaultHeld,
           c_locals>>
      /\ c_listed' \subseteq c_listed \cup {n}
  BY DEF Crypto!Register, Crypto!ReleaseRemote, Crypto!Query, Crypto!localVars
<1>3. Crypto!LocalVaultOutlives'
  BY <1>2 DEF Crypto!LocalVaultOutlives
<1>4. CASE Crypto!Register(c)
  <2>1. /\ n \in Crypto!Proxy /\ n <= c_made /\ ~c_accessor[n]
        /\ CryptoWaits(c, n)
    BY <1>1, <1>4
       DEF Crypto!Register, CryptoPending, CryptoWaits, Crypto!Proxy,
           Crypto!CryptographyBounds
  <2>2. /\ c_kind' = [c_kind EXCEPT ![n] = c_pc[c].kind]
        /\ c_accessor' = [c_accessor EXCEPT ![n] = TRUE]
        /\ c_refs' = [c_refs EXCEPT ![n] = @ + 1]
        /\ c_pc' = [c_pc EXCEPT ![c].step = "release"]
        /\ c_held' = c_held
    BY <1>4 DEF Crypto!Register
  <2>3. /\ c_pc' \in [Clients -> CryptoCalls]
        /\ c_pc'[c].step = "release" /\ c_pc'[c].new = n
        /\ \A d \in Clients \ {c} : c_pc'[d] = c_pc[d]
    BY <1>1, <2>2 DEF CryptoCalls
  <2>4. \A d \in Clients, p \in Crypto!Proxy : CryptoWaits(d, p)'
          <=> CryptoWaits(d, p)
    BY <1>4, <2>3 DEF CryptoWaits, Crypto!Register
  <2>5. /\ c_accessor' \in [Crypto!Proxy -> BOOLEAN]
        /\ c_accessor'[n]
        /\ \A p \in Crypto!Proxy \ {n} : c_accessor'[p] = c_accessor[p]
    BY <1>1, <2>1, <2>2
  <2>6. Crypto!TypeOK'
    <3>1. c_pc[c].kind \in Crypto!Kinds \cup {"none"}
      BY <1>1 DEF CryptoCalls
    <3>2. c_kind' \in [Crypto!Proxy -> Crypto!Kinds \cup {"none"}]
      BY <2>2, <3>1 DEF Crypto!TypeOK
    <3>3. c_refs' \in [Crypto!Proxy -> Nat]
      <4>1. c_refs[n] + 1 \in Nat
        BY <1>1, <2>1
      <4>. QED
        BY <1>1, <2>2, <4>1
    <3>. QED
      BY <1>2, <2>1, <2>2, <2>3, <2>5, <3>2, <3>3 DEF Crypto!TypeOK, CryptoCalls
  <2>7. CryptoPending'
    <3>1. \A d \in Clients : c_pc'[d].step = "register"
            => ~c_accessor'[c_pc'[d].new]
      <4>. SUFFICES ASSUME NEW d \in Clients, c_pc'[d].step = "register"
                    PROVE  ~c_accessor'[c_pc'[d].new]
        OBVIOUS
      <4>1. d # c /\ c_pc'[d] = c_pc[d]
        BY <2>3
      <4>2. c_pc[d].new \in Crypto!Proxy /\ ~c_accessor[c_pc[d].new]
        BY <1>1, <4>1 DEF CryptoPending, Crypto!Proxy, Crypto!CryptographyBounds
      <4>3. c_pc[d].new # n
        BY <2>1, <4>1, <4>2 DEF CryptoPending, CryptoWaits
      <4>. QED
        BY <2>5, <4>1, <4>2, <4>3
    <3>2. \A d \in Clients : c_pc'[d].step \in {"register", "release"}
            => c_pc'[d].new \in 1..c_made'
      BY <1>2, <1>4, <2>3 DEF CryptoPending, Crypto!Register
    <3>3. \A p \in Crypto!Proxy : p > c_made' => ~c_accessor'[p]
      BY <1>1, <1>2, <2>1, <2>5
         DEF CryptoPending, Crypto!Proxy, Crypto!CryptographyBounds
    <3>. QED
      BY <2>4, <3>1, <3>2, <3>3 DEF CryptoPending
  <2>8. CryptoCounted'
    BY <1>1, <2>1, <2>2, <2>4, <2>5 DEF CryptoCounted
  <2>. QED
    BY <1>3, <2>6, <2>7, <2>8
<1>5. CASE Crypto!ReleaseRemote(c)
  <2>1. /\ n \in Crypto!Proxy /\ CryptoWaits(c, n)
    BY <1>1, <1>5
       DEF Crypto!ReleaseRemote, CryptoPending, CryptoWaits, Crypto!Proxy,
           Crypto!CryptographyBounds
  <2>2. /\ c_refs' = [c_refs EXCEPT ![n] = @ - 1]
        /\ c_pc' = [c_pc EXCEPT ![c].step = "query"]
        /\ UNCHANGED <<c_kind, c_accessor, c_listed, c_held>>
    BY <1>5 DEF Crypto!ReleaseRemote
  <2>3. /\ c_pc' \in [Clients -> CryptoCalls]
        /\ c_pc'[c].step = "query"
        /\ \A d \in Clients \ {c} : c_pc'[d] = c_pc[d]
    BY <1>1, <2>2 DEF CryptoCalls
  <2>4. \A d \in Clients, p \in Crypto!Proxy : CryptoWaits(d, p)'
          <=> d # c /\ CryptoWaits(d, p)
    BY <2>3 DEF CryptoWaits
  <2>5. CryptoCounted'
    <3>. SUFFICES ASSUME NEW p \in Crypto!Proxy
                  PROVE  c_refs'[p] = (IF c_accessor'[p] THEN 1 ELSE 0)
                           + (IF \E d \in Clients : CryptoWaits(d, p)' THEN 1
                             ELSE 0)
      BY DEF CryptoCounted
    <3>1. c_refs[p] = (IF c_accessor[p] THEN 1 ELSE 0)
                        + (IF \E d \in Clients : CryptoWaits(d, p) THEN 1
                          ELSE 0)
      BY DEF CryptoCounted
    <3>2. CASE p = n
      <4>1. ~\E d \in Clients : CryptoWaits(d, p)'
        BY <2>1, <2>4, <3>2 DEF CryptoPending
      <4>2. c_refs'[p] = c_refs[p] - 1
        BY <1>1, <2>2, <3>2
      <4>3. c_refs[p] = (IF c_accessor[p] THEN 1 ELSE 0) + 1
        BY <2>1, <3>1, <3>2
      <4>. QED
        BY <2>2, <4>1, <4>2, <4>3
    <3>3. CASE p # n
      <4>1. (\E d \in Clients : CryptoWaits(d, p)')
              <=> \E d \in Clients : CryptoWaits(d, p)
        BY <2>1, <2>4, <3>3 DEF CryptoWaits
      <4>. QED
        BY <1>1, <2>2, <3>1, <3>3, <4>1
    <3>. QED
      BY <3>2, <3>3
  <2>6. CryptoPending'
    <3>1. \A d \in Clients : c_pc'[d].step \in {"register", "release"}
            => d # c /\ c_pc'[d] = c_pc[d]
      BY <2>3
    <3>. QED
      BY <1>2, <2>2, <2>4, <3>1 DEF CryptoPending
  <2>7. Crypto!TypeOK'
    <3>1. c_refs' \in [Crypto!Proxy -> Nat]
      <4>1. /\ DOMAIN c_refs' = Crypto!Proxy
            /\ c_refs' = [p \in Crypto!Proxy |-> c_refs'[p]]
        BY <1>1, <2>2
      <4>2. \A p \in Crypto!Proxy : c_refs'[p] \in Nat
        BY <2>5 DEF CryptoCounted
      <4>. QED
        BY <4>1, <4>2
    <3>. QED
      BY <1>2, <2>2, <2>3, <3>1 DEF Crypto!TypeOK, CryptoCalls
  <2>. QED
    BY <1>3, <2>5, <2>6, <2>7
<1>6. CASE Crypto!Query(c)
  <2>1. /\ c_held' = [c_held EXCEPT ![n] = @ + 1]
        /\ c_pc' = [c_pc EXCEPT ![c] = Crypto!Idle]
        /\ c_pc[c].step = "query"
        /\ UNCHANGED <<c_kind, c_accessor, c_listed, c_refs>>
    BY <1>6 DEF Crypto!Query
  <2>2. Crypto!Idle \in CryptoCalls /\ Crypto!Idle.step = "idle"
    BY DEF Crypto!Idle, CryptoCalls, Crypto!CryptographyBounds
  <2>3. /\ c_pc' \in [Clients -> CryptoCalls]
        /\ c_pc'[c].step = "idle" /\ \A d \in Clients \ {c} : c_pc'[d] = c_pc[d]
    BY <1>1, <2>1, <2>2
  <2>4. \A d \in Clients, p \in Crypto!Proxy : CryptoWaits(d, p)'
          <=> CryptoWaits(d, p)
    BY <2>1, <2>3 DEF CryptoWaits
  <2>5. CryptoCounted'
    BY <2>1, <2>4 DEF CryptoCounted
  <2>6. CryptoPending'
    <3>1. \A d \in Clients : c_pc'[d].step \in {"register", "release"}
            => c_pc'[d] = c_pc[d]
      BY <2>3
    <3>. QED
      BY <1>2, <2>1, <2>4, <3>1 DEF CryptoPending
  <2>7. Crypto!TypeOK'
    <3>1. c_held' \in [Crypto!Proxy -> Nat]
      <4>1. n \in Crypto!Proxy => c_held[n] + 1 \in Nat
        BY <1>1
      <4>. QED
        BY <1>1, <2>1, <4>1
    <3>. QED
      BY <1>2, <2>1, <2>3, <3>1 DEF Crypto!TypeOK, CryptoCalls
  <2>. QED
    BY <1>3, <2>5, <2>6, <2>7
<1>. QED
  BY <1>4, <1>5, <1>6

\* Unlink(), by the application's last Release() or by Clear(), gives back the
\* proxy's reference once.
LEMMA CryptoUnlinkStep ==
  ASSUME Crypto!CryptographyBounds, CryptoInv, UNCHANGED Crypto!localVars,
         \/ Crypto!ReleaseProxy \/ Crypto!ClearOne
         \/ Crypto!OperationalDown \/ Crypto!OperationalUp
  PROVE  CryptoInv'
<1>. USE DEF CryptoInv
<1>1. /\ c_refs \in [Crypto!Proxy -> Nat] /\ c_held \in [Crypto!Proxy -> Nat]
      /\ c_accessor \in [Crypto!Proxy -> BOOLEAN]
      /\ c_listed \subseteq Crypto!Proxy /\ c_clearing \subseteq Crypto!Proxy
  BY DEF Crypto!TypeOK
<1>2. UNCHANGED <<c_kind, c_made, c_pc, c_vaultRefs, c_vaultHeld, c_locals>>
  BY DEF Crypto!ReleaseProxy, Crypto!ClearOne, Crypto!OperationalDown,
         Crypto!OperationalUp, Crypto!localVars
<1>3. c_up' \in BOOLEAN
  BY Zenon
     DEF Crypto!ReleaseProxy, Crypto!ClearOne, Crypto!OperationalDown,
         Crypto!OperationalUp, Crypto!TypeOK
<1>4. c_listed' \subseteq Crypto!Proxy /\ c_clearing' \subseteq Crypto!Proxy
  BY <1>1
     DEF Crypto!ReleaseProxy, Crypto!ClearOne, Crypto!OperationalDown,
         Crypto!OperationalUp
<1>5. c_held' \in [Crypto!Proxy -> Nat]
  <2>1. c_held' = c_held \/ \E p \in Crypto!Proxy : c_held[p] > 0
          /\ c_held' = [c_held EXCEPT ![p] = @ - 1]
    BY DEF Crypto!ReleaseProxy, Crypto!ClearOne, Crypto!OperationalDown,
           Crypto!OperationalUp
  <2>. QED
    BY <1>1, <2>1
<1>6. \/ UNCHANGED <<c_refs, c_accessor>>
      \/ \E p \in Crypto!Proxy : Crypto!Unlink(p)
  BY <1>1
     DEF Crypto!ReleaseProxy, Crypto!ClearOne, Crypto!OperationalDown,
         Crypto!OperationalUp
<1>7. /\ CryptoCounted'
      /\ c_refs' \in [Crypto!Proxy -> Nat]
      /\ c_accessor' \in [Crypto!Proxy -> BOOLEAN]
      /\ \A p \in Crypto!Proxy : c_accessor'[p] => c_accessor[p]
  <2>1. CASE UNCHANGED <<c_refs, c_accessor>>
    BY <1>1, <1>2, <2>1 DEF CryptoCounted, CryptoWaits
  <2>2. CASE \E p \in Crypto!Proxy : Crypto!Unlink(p)
    <3>1. PICK p \in Crypto!Proxy : Crypto!Unlink(p)
      BY <2>2
    <3>2. /\ c_refs' = [c_refs EXCEPT ![p]
                 = IF c_accessor[p] THEN c_refs[p] - 1 ELSE c_refs[p]]
          /\ c_accessor' = [c_accessor EXCEPT ![p] = FALSE]
      BY <3>1 DEF Crypto!Unlink
    <3>3. /\ c_accessor' \in [Crypto!Proxy -> BOOLEAN] /\ ~c_accessor'[p]
          /\ \A q \in Crypto!Proxy \ {p} : c_accessor'[q] = c_accessor[q]
      BY <1>1, <3>2
    <3>4. CryptoCounted'
      <4>. SUFFICES ASSUME NEW q \in Crypto!Proxy
                    PROVE  c_refs'[q] = (IF c_accessor'[q] THEN 1 ELSE 0)
                             + (IF \E d \in Clients : CryptoWaits(d, q)' THEN 1
                               ELSE 0)
        BY DEF CryptoCounted
      <4>1. (\E d \in Clients : CryptoWaits(d, q)')
              <=> \E d \in Clients : CryptoWaits(d, q)
        BY <1>2 DEF CryptoWaits
      <4>2. CASE q = p
        BY <1>1, <3>2, <3>3, <4>1, <4>2 DEF CryptoCounted
      <4>3. CASE q # p
        BY <1>1, <3>2, <3>3, <4>1, <4>3 DEF CryptoCounted
      <4>. QED
        BY <4>2, <4>3
    <3>5. c_refs' \in [Crypto!Proxy -> Nat]
      <4>1. c_refs' = [q \in Crypto!Proxy |-> c_refs'[q]]
        BY <1>1, <3>2
      <4>2. \A q \in Crypto!Proxy : c_refs'[q] \in Nat
        BY <3>4 DEF CryptoCounted
      <4>. QED
        BY <4>1, <4>2
    <3>. QED
      BY <3>3, <3>4, <3>5
  <2>. QED
    BY <1>6, <2>1, <2>2
<1>8. Crypto!TypeOK'
  BY <1>2, <1>3, <1>4, <1>5, <1>7 DEF Crypto!TypeOK
<1>9. CryptoPending'
  <2>1. \A d \in Clients : c_pc[d].step = "register"
          => ~c_accessor'[c_pc[d].new]
    <3>1. \A d \in Clients : c_pc[d].step = "register" =>
            c_pc[d].new \in Crypto!Proxy /\ ~c_accessor[c_pc[d].new]
      BY DEF CryptoPending, Crypto!TypeOK, Crypto!Proxy,
             Crypto!CryptographyBounds
    <3>. QED
      BY <1>7, <3>1
  <2>2. \A p \in Crypto!Proxy : p > c_made => ~c_accessor'[p]
    BY <1>7 DEF CryptoPending
  <2>. QED
    BY <1>2, <2>1, <2>2 DEF CryptoPending, CryptoWaits
<1>10. Crypto!LocalVaultOutlives'
  BY <1>2 DEF Crypto!LocalVaultOutlives
<1>. QED
  BY <1>7, <1>8, <1>9, <1>10

\* Local objects and the references to their vault.
LEMMA CryptoLocalStep ==
  ASSUME CryptoInv, Crypto!LocalNext
  PROVE  CryptoInv'
<1>. USE DEF CryptoInv
<1>1. UNCHANGED <<c_kind, c_accessor, c_listed, c_clearing, c_held, c_refs,
        c_made, c_pc, c_up>>
  BY DEF Crypto!LocalNext, Crypto!proxyVars
<1>2. CryptoPending' /\ CryptoCounted'
  BY <1>1 DEF CryptoPending, CryptoCounted, CryptoWaits
<1>3. /\ c_vaultRefs \in Nat /\ c_vaultHeld \in Nat
      /\ c_locals \in [alive : Nat, made : Nat]
      /\ c_vaultRefs = c_vaultHeld + c_locals.alive
  BY DEF Crypto!TypeOK, Crypto!LocalVaultOutlives
<1>4. /\ c_vaultRefs' \in Nat /\ c_vaultHeld' \in Nat
      /\ c_locals' \in [alive : Nat, made : Nat]
      /\ c_vaultRefs' = c_vaultHeld' + c_locals'.alive
  <2>1. CASE Crypto!LocalVault
    BY <1>3, <2>1 DEF Crypto!LocalVault
  <2>2. CASE Crypto!LocalObject
    BY <1>3, <2>2 DEF Crypto!LocalObject
  <2>3. CASE Crypto!LocalObjectRelease
    BY <1>3, <2>3 DEF Crypto!LocalObjectRelease
  <2>4. CASE Crypto!LocalVaultRelease
    BY <1>3, <2>4 DEF Crypto!LocalVaultRelease
  <2>. QED
    BY <2>1, <2>2, <2>3, <2>4 DEF Crypto!LocalNext
<1>5. Crypto!TypeOK'
  BY <1>1, <1>4 DEF Crypto!TypeOK
<1>. QED
  BY <1>2, <1>4, <1>5 DEF Crypto!LocalVaultOutlives

LEMMA CryptoStep ==
  ASSUME Crypto!CryptographyBounds, CryptoInv, [Crypto!Next]_(Crypto!vars)
  PROVE  CryptoInv'
<1>1. CASE UNCHANGED Crypto!vars
  BY <1>1
     DEF Crypto!vars, Crypto!proxyVars, Crypto!localVars, CryptoInv,
         Crypto!TypeOK, CryptoPending, CryptoCounted, CryptoWaits,
         Crypto!LocalVaultOutlives
<1>2. CASE Crypto!LocalNext
  BY <1>2, CryptoLocalStep
<1>3. CASE Crypto!ProxyNext
  <2>1. UNCHANGED Crypto!localVars
    BY <1>3 DEF Crypto!ProxyNext
  <2>2. ASSUME NEW c \in Clients,
               \/ Crypto!Acquire(c) \/ Crypto!AskCryptography(c)
               \/ Crypto!AskVault(c)
        PROVE  CryptoInv'
    <3>1. /\ c_pc[c].step = "idle"
          /\ \E parent \in 0..MaxProxies, what \in Crypto!Kinds :
            Crypto!Obtain(c, parent, what)
      <4>1. CASE Crypto!Acquire(c)
        BY <4>1 DEF Crypto!Acquire, Crypto!Kinds, Crypto!CryptographyBounds
      <4>2. CASE Crypto!AskCryptography(c)
        BY <4>2
           DEF Crypto!AskCryptography, Crypto!Kinds, Crypto!Proxy,
               Crypto!CryptographyBounds
      <4>3. CASE Crypto!AskVault(c)
        BY <4>3
           DEF Crypto!AskVault, Crypto!Kinds, Crypto!Proxy,
               Crypto!CryptographyBounds
      <4>. QED
        BY <2>2, <4>1, <4>2, <4>3
    <3>. QED
      BY <2>1, <3>1, CryptoObtainStep
  <2>. QED
    BY <1>3, <2>1, <2>2, CryptoClientStep, CryptoUnlinkStep DEF Crypto!ProxyNext
<1>. QED
  BY <1>1, <1>2, <1>3 DEF Crypto!Next

LEMMA CryptoAlways ==
  ASSUME Crypto!CryptographyBounds
  PROVE  Crypto!Spec => []CryptoInv
<1>1. CryptoInv /\ [Crypto!Next]_(Crypto!vars) => CryptoInv'
  BY CryptoStep
<1>. QED
  BY <1>1, CryptoInit, PTL DEF Crypto!Spec

LEMMA CryptoCardinality ==
  ASSUME NEW S
  PROVE  Crypto!Cardinality(S) = Cardinality(S)
BY DEF Crypto!Cardinality, Cardinality

\* What follows of it: the clients that wait for a proxy are none or one.
LEMMA CryptoBalances == ASSUME CryptoInv PROVE Crypto!RemoteReferencesBalance
<1>. SUFFICES ASSUME NEW p \in Crypto!Proxy
              PROVE  c_refs[p] = (IF c_accessor[p] THEN 1 ELSE 0)
                       + Crypto!Cardinality({c \in Clients :
                           /\ c_pc[c].step \in {"register", "release"}
                           /\ c_pc[c].new = p})
  BY DEF Crypto!RemoteReferencesBalance
<1>. DEFINE W == {c \in Clients : /\ c_pc[c].step \in {"register", "release"}
                                  /\ c_pc[c].new = p}
<1>1. Cardinality(W) = IF \E c \in Clients : CryptoWaits(c, p) THEN 1 ELSE 0
  <2>1. CASE \E c \in Clients : CryptoWaits(c, p)
    <3>1. PICK c \in Clients : CryptoWaits(c, p)
      BY <2>1
    <3>2. W = {c}
      BY <3>1 DEF CryptoInv, CryptoPending, CryptoWaits
    <3>. QED
      BY <2>1, <3>2, FS_Singleton
  <2>2. CASE ~\E c \in Clients : CryptoWaits(c, p)
    <3>1. W = {}
      BY <2>2 DEF CryptoWaits
    <3>. QED
      BY <2>2, <3>1, FS_EmptySet
  <2>. QED
    BY <2>1, <2>2
<1>2. Crypto!Cardinality(W) = Cardinality(W)
  BY CryptoCardinality
<1>. QED
  BY <1>1, <1>2 DEF CryptoInv, CryptoCounted
=============================================================================
