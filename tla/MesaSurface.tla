---------------------------- MODULE MesaSurface ----------------------------
(***************************************************************************)
(* The buffers of one surface of the Mesa compositor client.  GBM lends    *)
(* buffer objects to Display::SurfaceImplementation, which wraps each in a *)
(* ContentBuffer (a ClientBufferType, see GraphicsBuffer) and moves it     *)
(* through FREE, STAGED, PENDING, ACTIVE and RETIRED with one atomic step  *)
(* at a time.  Two threads do so without a common lock: the render thread  *)
(* in RequestRender() and the ResourceMonitor thread in the callbacks      *)
(* OnBufferRendered() and OnBufferPublished().                             *)
(*                                                                         *)
(* The channel of each buffer is that of GraphicsBuffer with the eventfds  *)
(* left out: by its theorem NoLostWakeup a standing RENDERED or PUBLISHED  *)
(* always has an event, so the monitor may look at it at any time.  The    *)
(* server is the one of the repository's example: one thread that renders  *)
(* and then publishes a buffer before it takes the next.                   *)
(***************************************************************************)
EXTENDS Integers, FiniteSets

CONSTANTS
  Buffers,            \* the buffer objects of the GBM surface
  MaxContentBuffers,  \* slots in _contentBuffers
  None                \* nullptr

ASSUME NoneAssumption == None \notin Buffers
ASSUME MaxAssumption == MaxContentBuffers \in Nat

VARIABLES
  locked,   \* buffer objects out of GBM's hands
  known,    \* buffer objects with a ContentBuffer (in a slot of _contentBuffers)
  state,    \* ContentBuffer::_state
  command,  \* SharedStorageType::_command of each buffer
  active,   \* _activeBuffer
  retired,  \* _retiredBuffer
  pc,       \* the next atomic step of each client thread
  buf,      \* the buffer whose request or event the thread handles
  other,    \* the buffer it retires or releases (oldActive, oldRetired, retired)
  tries,    \* Request() attempts of the RequestRender() under way
  server,   \* what the server does, with which buffer
  screen    \* the buffer the server published last

threads == <<pc, buf, other, tries>>
vars == <<locked, known, state, command, active, retired, threads, server, screen>>

Threads == {"render", "monitor"}
BufferState == {"FREE", "STAGED", "PENDING", "ACTIVE", "RETIRED"}
Steps == {"idle", "stage", "submit", "request", "activate", "exchange active",
          "retire", "exchange retired", "take retired", "release", "give back"}

\* Every variable keeps its type; a buffer object out of GBM's hands has its
\* ContentBuffer, and RequestRender() never makes a fourth attempt.
TypeOK ==
  /\ locked \subseteq known
  /\ known \subseteq Buffers
  /\ state \in [Buffers -> BufferState]
  /\ command \in [Buffers -> {"IDLE", "REQUEST", "RENDERED", "PUBLISHED"}]
  /\ active \in Buffers \cup {None}
  /\ retired \in Buffers \cup {None}
  /\ pc \in [Threads -> Steps]
  /\ buf \in [Threads -> Buffers \cup {None}]
  /\ other \in [Threads -> Buffers \cup {None}]
  /\ tries \in 1..3
  /\ server \in {<<"idle", None>>} \cup ({"drawing", "rendered"} \X Buffers)
  /\ screen \in Buffers \cup {None}

Init ==
  /\ locked = {}
  /\ known = {}
  /\ state = [b \in Buffers |-> "FREE"]
  /\ command = [b \in Buffers |-> "IDLE"]
  /\ active = None
  /\ retired = None
  /\ pc = [t \in Threads |-> "idle"]
  /\ buf = [t \in Threads |-> None]
  /\ other = [t \in Threads |-> None]
  /\ tries = 1
  /\ server = <<"idle", None>>
  /\ screen = None

Goto(t, step) == pc' = [pc EXCEPT ![t] = step]

\* A callback returns: the monitor goes back to polling, the render thread to
\* the Request() it was trying in ClientBufferType::RequestRender().
Return(t) == IF t = "monitor" THEN "idle" ELSE "request"

\* compare_exchange_strong on the state of buffer b.
Move(t, b, from, to, success, failure) ==
  IF state[b] = from
  THEN state' = [state EXCEPT ![b] = to] /\ Goto(t, success)
  ELSE state' = state /\ Goto(t, failure)

-----------------------------------------------------------------------------
(***************************************************************************)
(* RequestRender(), called after eglSwapBuffers.  The application calls it *)
(* in a loop and waits for Rendered() in between, but gives up waiting     *)
(* after 80 ms, so any number of frames may be under way.                  *)
(***************************************************************************)

\* Mutant: a new ContentBuffer is not stored in its slot.
LockFront_NotStored(b) ==
  /\ pc["render"] = "idle"
  /\ b \notin locked
  /\ locked' = locked \cup {b}
  /\ buf' = [buf EXCEPT !["render"] = b]
  /\ tries' = 1
  /\ Goto("render", "stage")
  /\ UNCHANGED <<known, state, command, active, retired, other, server, screen>>

\* A new ContentBuffer is offered to the compositor and polled by the monitor.
ContentBuffer(b) == known' = known \cup {b}

\* The one the buffer object has, or a new one if a slot is free.
GetOrCreateContentBuffer(b) ==
  IF b \in known THEN known' = known
  ELSE Cardinality(known) < MaxContentBuffers /\ ContentBuffer(b)

\* gbm_surface_lock_front_buffer and GetOrCreateContentBuffer.  When GBM has no
\* buffer left, or no slot is free for a new one (it is handed back at once),
\* RequestRender() only notifies the application and nothing changes here.
LockFront(b) ==
  /\ pc["render"] = "idle"
  /\ b \notin locked
  /\ GetOrCreateContentBuffer(b)
  /\ locked' = locked \cup {b}
  /\ buf' = [buf EXCEPT !["render"] = b]
  /\ tries' = 1
  /\ Goto("render", "stage")
  /\ UNCHANGED <<state, command, active, retired, other, server, screen>>

\* Stage() and Submit(): if one fails, the buffer object goes back to GBM.
Advance(from, to, step) ==
  LET b == buf["render"] IN
  /\ IF state[b] = from
     THEN /\ state' = [state EXCEPT ![b] = to]
          /\ Goto("render", step)
          /\ locked' = locked
     ELSE /\ state' = state
          /\ Goto("render", "idle")
          /\ locked' = locked \ {b}
  /\ UNCHANGED <<known, command, active, retired, buf, other, tries, server, screen>>

Stage  == pc["render"] = "stage"  /\ Advance("FREE", "STAGED", "submit")
Submit == pc["render"] = "submit" /\ Advance("STAGED", "PENDING", "request")

\* Request() inside ClientBufferType::RequestRender() finds the buffer idle or
\* already requested, and signals the server.
Request ==
  LET b == buf["render"] IN
  /\ pc["render"] = "request"
  /\ command[b] \in {"IDLE", "REQUEST"}
  /\ command' = [command EXCEPT ![b] = "REQUEST"]
  /\ Goto("render", "idle")
  /\ UNCHANGED <<locked, known, state, active, retired, buf, other, tries, server, screen>>

\* Mutant: the second attempt, too, takes Rendered() only.
RequestFindsEvent_RenderedOnly ==
  LET b == buf["render"] IN
  /\ pc["render"] = "request"
  /\ command[b] \in {"RENDERED", "PUBLISHED"}
  /\ IF tries = 3
     THEN Goto("render", "idle") /\ UNCHANGED <<command, tries>>
     ELSE /\ tries' = tries + 1
          /\ IF command[b] = "PUBLISHED"
             THEN UNCHANGED <<command, pc>>
             ELSE /\ command' = [command EXCEPT ![b] = "IDLE"]
                  /\ Goto("render", "activate")
  /\ UNCHANGED <<locked, known, state, active, retired, buf, other, server, screen>>

\* Request() finds an event the monitor has not handled yet.  After the first
\* attempt RequestRender() handles either event itself, after the second only
\* PUBLISHED; a third failure is final, and Submit() ignores it.
RequestFindsEvent ==
  LET b == buf["render"] IN
  /\ pc["render"] = "request"
  /\ command[b] \in {"RENDERED", "PUBLISHED"}
  /\ IF tries = 3
     THEN /\ Goto("render", "idle")
          /\ UNCHANGED <<command, tries>>
     ELSE /\ tries' = tries + 1
          /\ IF tries = 2 /\ command[b] = "RENDERED"
             THEN UNCHANGED <<command, pc>>
             ELSE /\ command' = [command EXCEPT ![b] = "IDLE"]
                  /\ Goto("render", IF command[b] = "RENDERED" THEN "activate"
                                                               ELSE "take retired")
  /\ UNCHANGED <<locked, known, state, active, retired, buf, other, server, screen>>

-----------------------------------------------------------------------------
(***************************************************************************)
(* The callbacks.                                                          *)
(***************************************************************************)

\* ClientBufferType::Handle() on the monitor.
Handle(b) ==
  /\ pc["monitor"] = "idle"
  /\ b \in known
  /\ command[b] \in {"RENDERED", "PUBLISHED"}
  /\ command' = [command EXCEPT ![b] = "IDLE"]
  /\ buf' = [buf EXCEPT !["monitor"] = b]
  /\ Goto("monitor", IF command[b] = "RENDERED" THEN "activate" ELSE "take retired")
  /\ UNCHANGED <<locked, known, state, active, retired, other, tries, server, screen>>

\* OnBufferRendered(): PENDING to ACTIVE, or return.
Activate(t) ==
  /\ pc[t] = "activate"
  /\ Move(t, buf[t], "PENDING", "ACTIVE", "exchange active", Return(t))
  /\ UNCHANGED <<locked, known, command, active, retired, buf, other, tries, server, screen>>

\* Mutant: the frame that was active is forgotten.
ExchangeActive_Forgets(t) ==
  /\ pc[t] = "exchange active"
  /\ active' = buf[t]
  /\ Goto(t, Return(t))
  /\ UNCHANGED <<locked, known, state, command, retired, buf, other, tries, server, screen>>

ExchangeActive(t) ==
  /\ pc[t] = "exchange active"
  /\ active' = buf[t]
  /\ other' = [other EXCEPT ![t] = active]
  /\ Goto(t, IF active \notin {None, buf[t]} THEN "retire" ELSE Return(t))
  /\ UNCHANGED <<locked, known, state, command, retired, buf, tries, server, screen>>

Retire(t) ==
  /\ pc[t] = "retire"
  /\ Move(t, other[t], "ACTIVE", "RETIRED", "exchange retired", Return(t))
  /\ UNCHANGED <<locked, known, command, active, retired, buf, other, tries, server, screen>>

ExchangeRetired(t) ==
  /\ pc[t] = "exchange retired"
  /\ retired' = other[t]
  /\ other' = [other EXCEPT ![t] = retired]
  /\ Goto(t, IF retired # None THEN "release" ELSE Return(t))
  /\ UNCHANGED <<locked, known, state, command, active, buf, tries, server, screen>>

\* Mutant: _retiredBuffer is cleared and its frame not released.
TakeRetired_Drops(t) ==
  /\ pc[t] = "take retired"
  /\ retired' = None
  /\ Goto(t, Return(t))
  /\ UNCHANGED <<locked, known, state, command, active, buf, other, tries, server, screen>>

\* OnBufferPublished(): whichever buffer is retired is released.
TakeRetired(t) ==
  /\ pc[t] = "take retired"
  /\ retired' = None
  /\ other' = [other EXCEPT ![t] = retired]
  /\ Goto(t, IF retired # None THEN "release" ELSE Return(t))
  /\ UNCHANGED <<locked, known, state, command, active, buf, tries, server, screen>>

\* Mutant: the ContentBuffer is FREE again and its buffer object stays locked.
Release_KeepsBo(t) ==
  /\ pc[t] = "release"
  /\ Move(t, other[t], "RETIRED", "FREE", Return(t), Return(t))
  /\ UNCHANGED <<locked, known, command, active, retired, buf, other, tries, server, screen>>

\* Mutant: GBM gets the buffer object before the ContentBuffer is FREE again.
Release_GbmFirst(t) ==
  /\ pc[t] = "release"
  /\ locked' = locked \ {other[t]}
  /\ Goto(t, "give back")
  /\ UNCHANGED <<known, state, command, active, retired, buf, other, tries, server, screen>>

\* ReleaseToGbm(): Release(), and only then gbm_surface_release_buffer.
Release(t) ==
  /\ pc[t] = "release"
  /\ Move(t, other[t], "RETIRED", "FREE", "give back", Return(t))
  /\ UNCHANGED <<locked, known, command, active, retired, buf, other, tries, server, screen>>

GiveBack(t) ==
  /\ pc[t] = "give back"
  /\ locked' = locked \ {other[t]}
  /\ Goto(t, Return(t))
  /\ UNCHANGED <<known, state, command, active, retired, buf, other, tries, server, screen>>

\* GBM destroys a buffer object it holds: ContentBuffer::Destroyed() clears its
\* slot and the pointers to it, and deletes it, off the monitor.  GBM does this
\* on the thread that draws.
BoDestroyed(b) ==
  /\ pc["render"] = "idle"
  /\ b \in known \ locked
  /\ pc["monitor"] # "idle" => buf["monitor"] # b
  /\ known' = known \ {b}
  /\ active' = IF active = b THEN None ELSE active
  /\ retired' = IF retired = b THEN None ELSE retired
  /\ command' = [command EXCEPT ![b] = "IDLE"]
  /\ UNCHANGED <<locked, state, threads, server, screen>>

-----------------------------------------------------------------------------
(***************************************************************************)
(* The server.                                                             *)
(***************************************************************************)

ServerTake(b) ==
  /\ server[1] = "idle"
  /\ command[b] = "REQUEST"
  /\ command' = [command EXCEPT ![b] = "IDLE"]
  /\ server' = <<"drawing", b>>
  /\ UNCHANGED <<locked, known, state, active, retired, threads, screen>>

\* Rendered() and Published() overwrite an event the client has not taken, but
\* not a request.
ServerRendered ==
  /\ server[1] = "drawing"
  /\ command[server[2]] # "REQUEST"
  /\ command' = [command EXCEPT ![server[2]] = "RENDERED"]
  /\ server' = <<"rendered", server[2]>>
  /\ UNCHANGED <<locked, known, state, active, retired, threads, screen>>

ServerPublished ==
  /\ server[1] = "rendered"
  /\ command[server[2]] # "REQUEST"
  /\ command' = [command EXCEPT ![server[2]] = "PUBLISHED"]
  /\ screen' = server[2]
  /\ server' = <<"idle", None>>
  /\ UNCHANGED <<locked, known, state, active, retired, threads>>

-----------------------------------------------------------------------------

\* The steps a thread takes to finish what it began.
ThreadStep(t) ==
  \/ t = "render" /\ (Stage \/ Submit \/ Request \/ RequestFindsEvent)
  \/ t = "monitor" /\ \E b \in Buffers : Handle(b)
  \/ Activate(t) \/ ExchangeActive(t) \/ Retire(t) \/ ExchangeRetired(t)
  \/ TakeRetired(t) \/ Release(t) \/ GiveBack(t)

ServerStep ==
  \/ \E b \in Buffers : ServerTake(b)
  \/ ServerRendered
  \/ ServerPublished

Next ==
  \/ \E b \in Buffers : LockFront(b) \/ BoDestroyed(b)
  \/ \E t \in Threads : ThreadStep(t)
  \/ ServerStep

Spec == Init /\ [][Next]_vars

\* Threads that can run do.  The monitor handles every descriptor that poll()
\* reports before it polls again, so no buffer is passed over for ever.
Fairness ==
  /\ \A t \in Threads : WF_vars(ThreadStep(t))
  /\ \A b \in Buffers : SF_vars(Handle(b))
  /\ WF_vars(ServerStep)

FairSpec == Spec /\ Fairness

-----------------------------------------------------------------------------
(***************************************************************************)
(* Properties.                                                             *)
(***************************************************************************)

\* Who owns a buffer object is what its state says: GBM has exactly the FREE
\* ones, except for the moment between the state change and the GBM call.  So
\* no buffer object is released twice or drawn into while it is in use, though
\* state and GBM are updated one after the other by two threads.
Ownership ==
  \A b \in Buffers :
    /\ b \notin locked => state[b] = "FREE"
    /\ b \in locked /\ state[b] = "FREE" =>
         \/ pc["render"] = "stage" /\ buf["render"] = b
         \/ \E t \in Threads : pc[t] = "give back" /\ other[t] = b

\* Stage() and Submit() never fail: a buffer GBM hands out is FREE.
StageNeverFails ==
  /\ pc["render"] = "stage" => state[buf["render"]] = "FREE"
  /\ pc["render"] = "submit" => state[buf["render"]] = "STAGED"

\* The atomic pointers agree with the states: the active buffer is ACTIVE, the
\* retired one RETIRED, and a buffer in one of these states that no pointer
\* names is in the hands of a thread that is about to move it on.  None is
\* forgotten between the exchanges of the two callbacks.
PointersSound ==
  /\ active # None => state[active] = "ACTIVE"
  /\ retired # None => state[retired] = "RETIRED"
  /\ \A b \in Buffers :
       /\ state[b] = "ACTIVE" =>
            \/ b = active
            \/ \E t \in Threads : \/ pc[t] = "exchange active" /\ buf[t] = b
                                  \/ pc[t] = "retire" /\ other[t] = b
       /\ state[b] = "RETIRED" =>
            \/ b = retired
            \/ \E t \in Threads : /\ pc[t] \in {"exchange retired", "release"}
                                  /\ other[t] = b

\* A buffer is requested again only after the server finished with it: its posts
\* never meet a REQUEST, and the third Request() of RequestRender() never fails
\* (Submit() ignores the result; the buffer would stay PENDING).
ChannelsDisciplined ==
  /\ server[1] # "idle" => command[server[2]] # "REQUEST"
  /\ pc["render"] = "request" /\ tries = 3 =>
       command[buf["render"]] \in {"IDLE", "REQUEST"}

\* "RETIRED, // Previous frame, waiting for Published": it does come, and the
\* buffer goes back to GBM.
RetiredIsReleased ==
  \A b \in Buffers : state[b] = "RETIRED" ~> state[b] = "FREE"

\* "PENDING, // Submitted, waiting for Rendered": a PENDING buffer still has its
\* Rendered() to come.
PendingIsAwaited ==
  \A b \in Buffers : state[b] = "PENDING" =>
    \/ pc["render"] = "request" /\ buf["render"] = b
    \/ command[b] \in {"REQUEST", "RENDERED"}
    \/ server = <<"drawing", b>>
    \/ \E t \in Threads : pc[t] = "activate" /\ buf[t] = b

\* "Release retired buffer", on Published: by then another frame is on screen,
\* so what goes back to GBM to be drawn into is not being displayed.
ReleasedIsOffScreen ==
  \A t \in Threads : pc[t] = "give back" => other[t] # screen

=============================================================================
