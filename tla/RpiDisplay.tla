----------------------------- MODULE RpiDisplay -----------------------------
(***************************************************************************)
(* The displays of the Raspberry Pi backend (Broadcom build): the map of   *)
(* displays, their references, the surfaces with the clients offered to    *)
(* the compositor, and the pipe of input events that the virtual input's   *)
(* thread writes and Process() reads.  _adminLock is held within one step  *)
(* only, and is left out.                                                  *)
(*                                                                         *)
(* Assumed, and listed as hazards: no Instance() while the last reference  *)
(* goes, one display at a time (the pipe is global), no cursor, no call of *)
(* the compositor on a client whose surface is being destroyed.            *)
(***************************************************************************)
EXTENDS Integers, Sequences, FiniteSets

CONSTANTS
  Clients,            \* threads of the application
  Displays, Surfaces, \* objects that can be constructed in a behaviour
  Width,              \* of the display
  MaxQueued           \* bound: events in the pipe

VARIABLES
  named,    \* _displays: the display of the name, or none
  used,     \* the displays constructed so far: none is ever deleted
  running,  \* the displays with _isRunning
  refs,     \* _refCount of each display
  users,    \* the clients with a reference to it
  owner,    \* the display of each surface
  holders,  \* the clients with a reference to each surface
  listed,   \* the surfaces in the _surfaces of their display
  native,   \* the surfaces whose dispmanx element exists
  offered,  \* the surfaces whose client the compositor was offered
  remote,   \* opacity and layer of each surface
  queue,    \* the pipe g_pipefd
  pointer,  \* _pointer_x of each display
  touch,    \* _touch_x of each display
  pc        \* what each client does, and on what

vars == <<named, used, running, refs, users, owner, holders, listed, native, offered,
          remote, queue, pointer, touch, pc>>

None == "none"
Idle == [at |-> "idle", on |-> None]
MaxOpacity == 255
VideoLayer == 10000
Layers == {0, VideoLayer}
Opacities == {MaxOpacity, MaxOpacity + 1}
MaxTouch == 65535
Touches == {0, MaxTouch}
\* What is assumed of the constants: the sixteen bits of a touch address a pixel.
RpiAssumption == /\ None \notin Displays
                 /\ Width \in Nat \ {0} /\ Width <= MaxTouch
                 /\ MaxQueued \in Nat

Moves == {-1, Width} \* how far the mouse moves in an event
Events == [type : {"key"}] \cup [type : {"mouse"}, move : Moves]
            \cup [type : {"touch"}, at : Touches]
Going(s) == \E c \in Clients : pc[c].on = s /\ pc[c].at \in {"destroy", "revoke"}
Built(s) == owner[s] # None /\ (holders[s] # {} \/ Going(s))
Dying(d) == \E c \in Clients : pc[c].on = d /\ pc[c].at \in {"erase", "close"}

\* Every variable keeps its type.
TypeOK ==
  /\ named \in Displays \cup {None}
  /\ used \subseteq Displays /\ running \subseteq used
  /\ refs \in [Displays -> Nat]
  /\ users \in [Displays -> SUBSET Clients]
  /\ owner \in [Surfaces -> Displays \cup {None}]
  /\ holders \in [Surfaces -> SUBSET Clients]
  /\ listed \cup native \cup offered \subseteq Surfaces
  /\ remote \in [Surfaces -> [opacity : Nat, layer : Nat]]
  /\ queue \in Seq(Events) /\ Len(queue) <= MaxQueued
  /\ pointer \in [Displays -> Int]
  /\ touch \in [Displays -> 0..MaxTouch]
  /\ \A c \in Clients : pc[c].at \in {"idle", "erase", "close", "destroy", "revoke"}

Init ==
  /\ named = None /\ used = {} /\ running = {}
  /\ refs = [d \in Displays |-> 0]
  /\ users = [d \in Displays |-> {}]
  /\ owner = [s \in Surfaces |-> None]
  /\ holders = [s \in Surfaces |-> {}]
  /\ listed = {} /\ native = {} /\ offered = {}
  /\ remote = [s \in Surfaces |-> [opacity |-> MaxOpacity, layer |-> 0]]
  /\ queue = <<>>
  /\ pointer = [d \in Displays |-> 0]
  /\ touch = [d \in Displays |-> MaxTouch]
  /\ pc = [c \in Clients |-> Idle]

inputVars == <<queue, pointer, touch>>
surfaceVars == <<owner, holders, listed, native, offered, remote>>

-----------------------------------------------------------------------------
(* Displays *)

\* Initialize() opens the virtual input and a new pipe.
Initialize(d) == running' = running \cup {d} /\ queue' = <<>>

\* Instance(): the display of the name, or a new one.
Instance(c) ==
  /\ pc[c] = Idle
  /\ \E d \in Displays :
       /\ \/ /\ named = d /\ ~Dying(d) /\ c \notin users[d]
             /\ UNCHANGED <<named, used, running, queue>>
          \/ /\ named = None /\ d \notin used
             /\ \A e \in used : refs[e] = 0 /\ ~Dying(e)
             /\ named' = d
             /\ used' = used \cup {d}
             /\ Initialize(d)
       /\ refs' = [refs EXCEPT ![d] = @ + 1]
       /\ users' = [users EXCEPT ![d] = @ \cup {c}]
  /\ UNCHANGED <<surfaceVars, pointer, touch, pc>>

\* Release(): the last one goes on to take the display out of the map.
Drop(c, d) ==
  /\ refs' = [refs EXCEPT ![d] = @ - 1]
  /\ pc' = [pc EXCEPT ![c] = IF refs[d] = 1 THEN [at |-> "erase", on |-> d] ELSE Idle]

Release(c, d) ==
  /\ pc[c] = Idle /\ c \in users[d]
  /\ users' = [users EXCEPT ![d] = @ \ {c}]
  /\ Drop(c, d)
  /\ UNCHANGED <<named, used, running, surfaceVars, inputVars>>

Erase(c, d) ==
  /\ pc[c] = [at |-> "erase", on |-> d]
  /\ named' = None
  /\ pc' = [pc EXCEPT ![c].at = "close"]
  /\ UNCHANGED <<used, running, refs, users, surfaceVars, inputVars>>

\* Deinitialize(): a last message wakes the reader, then the pipe is closed, and
\* the surfaces that are left are released.
Deinitialize(c, d) ==
  /\ pc[c] = [at |-> "close", on |-> d]
  /\ running' = running \ {d}
  /\ queue' = <<>>
  /\ listed' = {s \in listed : owner[s] # d}
  /\ pc' = [pc EXCEPT ![c] = Idle]
  /\ UNCHANGED <<named, used, refs, users, owner, holders, native, offered, remote,
                 pointer, touch>>

-----------------------------------------------------------------------------
(* Surfaces *)

\* The element of a surface, the list of its display, and its client at the compositor.
CreateSurface(s) == native' = native \cup {s}
DestroySurface(s) == native' = native \ {s}
Register(s) == listed' = listed \cup {s}
OfferClientInterface(s) == offered' = offered \cup {s}

\* Create(): the constructor references the display, makes the element, registers
\* the surface, and offers its client to the compositor.
Create(c, d) ==
  /\ pc[c] = Idle /\ c \in users[d]
  /\ \E s \in Surfaces :
       /\ owner[s] = None
       /\ owner' = [owner EXCEPT ![s] = d]
       /\ holders' = [holders EXCEPT ![s] = {c}]
       /\ CreateSurface(s) /\ Register(s) /\ OfferClientInterface(s)
  /\ refs' = [refs EXCEPT ![d] = @ + 1]
  /\ UNCHANGED <<named, used, running, users, remote, inputVars, pc>>

\* The destructor, first Unregister() ...
ReleaseSurface(c, s) ==
  /\ pc[c] = Idle /\ holders[s] = {c}
  /\ holders' = [holders EXCEPT ![s] = {}]
  /\ pc' = [pc EXCEPT ![c] = [at |-> "destroy", on |-> s]]
  /\ UNCHANGED <<named, used, running, refs, users, owner, listed, native, offered,
                 remote, inputVars>>

Unregister(c, s) ==
  /\ pc[c] = [at |-> "destroy", on |-> s]
  /\ listed' = listed \ {s}
  /\ DestroySurface(s)
  /\ pc' = [pc EXCEPT ![c].at = "revoke"]
  /\ UNCHANGED <<named, used, running, refs, users, owner, holders, offered, remote,
                 inputVars>>

\* ... and the element, then RevokeClientInterface(), then the display.
Revoke(c, s) ==
  /\ pc[c] = [at |-> "revoke", on |-> s]
  /\ offered' = offered \ {s}
  /\ Drop(c, owner[s])
  /\ UNCHANGED <<named, used, running, users, owner, holders, listed, native, remote,
                 inputVars>>

\* The layer the compositor counts from the top, as that of the element, which
\* counts from the bottom.
Turned(layer) == (VideoLayer - layer) % 65536

\* RemoteAccess: the compositor sets the opacity, clamped, and the layer.
Opacity(s) ==
  /\ s \in offered /\ s \in native
  /\ \E value \in Opacities :
       remote' = [remote EXCEPT ![s].opacity =
                    IF value > MaxOpacity THEN MaxOpacity ELSE value]
  /\ UNCHANGED <<named, used, running, refs, users, owner, holders, listed, native,
                 offered, inputVars, pc>>

ZOrder(s) ==
  /\ s \in offered /\ s \in native
  /\ \E layer \in Layers :
       remote' = [remote EXCEPT ![s].layer = Turned(layer)]
  /\ UNCHANGED <<named, used, running, refs, users, owner, holders, listed, native,
                 offered, inputVars, pc>>

-----------------------------------------------------------------------------
(* Input *)

\* The three callbacks of the virtual input write one message each.
Write(event) ==
  /\ running # {} /\ Len(queue) < MaxQueued
  /\ queue' = Append(queue, event)
  /\ UNCHANGED <<named, used, running, refs, users, surfaceVars, pointer, touch, pc>>

Clamped(x) == IF x < 0 THEN 0 ELSE IF x > Width - 1 THEN Width - 1 ELSE x

\* A touch in pixels; one that is the last one again is not passed on.
Scaled(x) == (Width * x) \div 65536

\* Process(): reads one message.
Process(c, d) ==
  /\ pc[c] = Idle /\ c \in users[d] /\ queue # <<>>
  /\ LET event == Head(queue) IN
     /\ pointer' = IF event.type = "mouse"
                   THEN [pointer EXCEPT ![d] = Clamped(@ + event.move)] ELSE pointer
     /\ touch' = IF event.type = "touch"
                 THEN [touch EXCEPT ![d] = Scaled(event.at)] ELSE touch
  /\ queue' = Tail(queue)
  /\ UNCHANGED <<named, used, running, refs, users, surfaceVars, pc>>

Next ==
  \/ \E c \in Clients : Instance(c)
  \/ \E c \in Clients, d \in Displays :
       Release(c, d) \/ Erase(c, d) \/ Deinitialize(c, d) \/ Create(c, d) \/ Process(c, d)
  \/ \E c \in Clients, s \in Surfaces :
       ReleaseSurface(c, s) \/ Unregister(c, s) \/ Revoke(c, s)
  \/ \E s \in Surfaces : Opacity(s) \/ ZOrder(s)
  \/ \E event \in Events : Write(event)

Spec == Init /\ [][Next]_vars

-----------------------------------------------------------------------------
\* The references of a display are its users' and one of every surface of it that
\* is not destroyed.
ReferencesBalance ==
  \A d \in Displays :
    refs[d] = Cardinality(users[d]) + Cardinality({s \in Surfaces : owner[s] = d /\ Built(s)})

\* What the map, the list and the compositor know is alive: a display that runs and
\* is referenced, and surfaces of such a display.
RegistriesAreSound ==
  /\ named # None => named \in running /\ (refs[named] > 0 \/ Dying(named))
  /\ \A s \in listed \cup offered :
       Built(s) /\ owner[s] \in running /\ refs[owner[s]] > 0 /\ named = owner[s]

\* The pointer and a touch are on the display, an opacity and a layer in the range
\* of the element, below that of the cursor.
ValuesFit ==
  /\ \A d \in Displays : /\ pointer[d] \in 0..(Width - 1)
                         /\ touch[d] \in 0..(Width - 1) \cup {MaxTouch}
  /\ \A s \in Surfaces : remote[s].opacity <= MaxOpacity /\ remote[s].layer <= VideoLayer
=============================================================================
