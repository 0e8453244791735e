---------------------------- MODULE MesaDisplay ----------------------------
(***************************************************************************)
(* The displays of the Mesa backend: the process-wide map of displays, the *)
(* references on a display (its users' and its surfaces'), the list of     *)
(* surfaces of each, and the thread of the virtual input, which walks all  *)
(* of them under both locks.  The frames of a surface are MesaSurface.     *)
(*                                                                         *)
(* Assumed of the application, and listed as hazards: no Instance() while  *)
(* the last reference of that display goes, no SurfaceByName() while that  *)
(* of the surface goes, no input device changed while it gets an event.    *)
(***************************************************************************)
EXTENDS Integers, FiniteSets

CONSTANTS
  Clients,    \* threads of the application
  Names,      \* names of displays
  Devices,    \* kinds of input devices, of four: keyboard, pointer, wheel, touch panel
  MaxDisplays, MaxSurfaces \* bounds: objects constructed in a behaviour

VARIABLES
  named,     \* _displays: the display of each name
  stage,     \* of each display: none, refused, open, half, closing, gone
  nameOf,    \* its _displayName
  refs,      \* its _refCount
  users,     \* the clients with a reference to it
  owner,     \* the display of each surface
  listed,    \* the surfaces in the _surfaces of their display
  holders,   \* the clients with a reference to each surface
  devices,   \* the input devices each surface has a reference of
  taken,     \* references the surfaces took of each device
  mapLock, adminLock, \* _displaysMapLock; the _adminLock of each display
  pc,        \* what each client does, and on what
  input      \* the walk of the input thread: displays to visit, surfaces to call

vars == <<named, stage, nameOf, refs, users, owner, listed, holders, devices, taken,
          mapLock, adminLock, pc, input>>

None == 0
Nobody == "nobody"
\* What is assumed of the constants.
MesaAssumption == /\ Clients \cap {"input", Nobody} = {} /\ Nobody \notin Names
                  /\ MaxDisplays \in Nat /\ MaxSurfaces \in Nat
Displays == 1..MaxDisplays
Surfaces == 1..MaxSurfaces
Idle == [at |-> "idle", on |-> None]
Alive(d) == stage[d] \in {"refused", "open", "half"}
Built(s) == owner[s] # None /\ (holders[s] # {} \/ \E c \in Clients :
              pc[c].at \in {"unregister", "dispose"} /\ pc[c].on = s)
Dying(d) == \E c \in Clients : pc[c].at \in {"erase", "close", "closing"} /\ pc[c].on = d

\* Every variable keeps its type.
TypeOK ==
  /\ named \in [Names -> Displays \cup {None}]
  /\ stage \in [Displays -> {"none", "refused", "open", "half", "closing", "gone"}]
  /\ nameOf \in [Displays -> Names \cup {Nobody}]
  /\ refs \in [Displays -> Nat]
  /\ users \in [Displays -> SUBSET Clients]
  /\ owner \in [Surfaces -> Displays \cup {None}]
  /\ listed \subseteq Surfaces
  /\ holders \in [Surfaces -> SUBSET Clients]
  /\ devices \in [Surfaces -> SUBSET Devices]
  /\ taken \in [Devices -> Nat]
  /\ mapLock \in Clients \cup {"input", Nobody}
  /\ adminLock \in [Displays -> Clients \cup {"input", Nobody}]
  /\ \A c \in Clients : pc[c].at \in {"idle", "erase", "close", "closing", "unregister", "dispose"}
  /\ input \in [visit : SUBSET Displays, call : SUBSET Surfaces]

Init ==
  /\ named = [n \in Names |-> None]
  /\ stage = [d \in Displays |-> "none"]
  /\ nameOf = [d \in Displays |-> Nobody]
  /\ refs = [d \in Displays |-> 0]
  /\ users = [d \in Displays |-> {}]
  /\ owner = [s \in Surfaces |-> None]
  /\ listed = {}
  /\ holders = [s \in Surfaces |-> {}]
  /\ devices = [s \in Surfaces |-> {}]
  /\ taken = [k \in Devices |-> 0]
  /\ mapLock = Nobody
  /\ adminLock = [d \in Displays |-> Nobody]
  /\ pc = [c \in Clients |-> Idle]
  /\ input = [visit |-> {}, call |-> {}]

surfaceVars == <<owner, listed, holders, devices, taken>>
displayVars == <<named, stage, nameOf>>

-----------------------------------------------------------------------------
(* Displays *)

\* Initialize(): the connection and the remote display may fail, and the input is
\* opened all the same; on a render node that cannot be opened it returns with
\* _adminLock locked.
Initialize(c, d) ==
  \/ /\ stage' = [stage EXCEPT ![d] = "refused"] /\ UNCHANGED adminLock
  \/ /\ stage' = [stage EXCEPT ![d] = "open"] /\ UNCHANGED adminLock
  \/ /\ stage' = [stage EXCEPT ![d] = "half"]
     /\ adminLock' = [adminLock EXCEPT ![d] = c]

AddRef(c, d) ==
  /\ refs' = [refs EXCEPT ![d] = @ + 1]
  /\ users' = [users EXCEPT ![d] = @ \cup {c}]

\* Instance(): under _displaysMapLock, the display of the name or a new one.
Instance(c, n) ==
  /\ pc[c] = Idle /\ mapLock = Nobody
  /\ \/ \E d \in Displays :
          /\ named[n] = d /\ ~Dying(d) /\ c \notin users[d]
          /\ AddRef(c, d)
          /\ UNCHANGED <<displayVars, adminLock>>
     \/ \E d \in Displays :
          /\ named[n] = None
          /\ stage[d] = "none" /\ \A e \in 1..(d - 1) : stage[e] # "none"
          /\ named' = [named EXCEPT ![n] = d]
          /\ nameOf' = [nameOf EXCEPT ![d] = n]
          /\ Initialize(c, d)
          /\ AddRef(c, d)
  /\ UNCHANGED <<surfaceVars, mapLock, pc, input>>

\* Release(): the last one goes on to take the display out of the map.
Drop(c, d) ==
  /\ refs' = [refs EXCEPT ![d] = @ - 1]
  /\ pc' = [pc EXCEPT ![c] = IF refs[d] = 1 THEN [at |-> "erase", on |-> d] ELSE Idle]

Release(c, d) ==
  /\ pc[c] = Idle /\ c \in users[d]
  /\ users' = [users EXCEPT ![d] = @ \ {c}]
  /\ Drop(c, d)
  /\ UNCHANGED <<displayVars, surfaceVars, mapLock, adminLock, input>>

\* Mutant: the display stays in the map.
Erase_Kept(c, d) ==
  /\ pc[c] = [at |-> "erase", on |-> d] /\ mapLock = Nobody
  /\ stage' = [stage EXCEPT ![d] = "closing"]
  /\ pc' = [pc EXCEPT ![c].at = "close"]
  /\ UNCHANGED <<named, nameOf, refs, users, surfaceVars, mapLock, adminLock, input>>

\* ... which is one step under _displaysMapLock, ...
Erase(c, d) ==
  /\ pc[c] = [at |-> "erase", on |-> d] /\ mapLock = Nobody
  /\ named' = [named EXCEPT ![nameOf[d]] = None]
  /\ stage' = [stage EXCEPT ![d] = "closing"]
  /\ pc' = [pc EXCEPT ![c].at = "close"]
  /\ UNCHANGED <<nameOf, refs, users, surfaceVars, mapLock, adminLock, input>>

\* ... before Deinitialize() takes _adminLock ...
Close(c, d) ==
  /\ pc[c] = [at |-> "close", on |-> d]
  /\ adminLock[d] \in {Nobody, c}
  /\ adminLock' = [adminLock EXCEPT ![d] = c]
  /\ pc' = [pc EXCEPT ![c].at = "closing"]
  /\ UNCHANGED <<displayVars, refs, users, surfaceVars, mapLock, input>>

\* ... and, once virtualinput_close() has seen the input thread out of its callback,
\* releases what surfaces are left, and the display is deleted.
Deinitialize(c, d) ==
  /\ pc[c] = [at |-> "closing", on |-> d]
  /\ mapLock # "input"
  /\ listed' = {s \in listed : owner[s] # d}
  /\ stage' = [stage EXCEPT ![d] = "gone"]
  /\ adminLock' = [adminLock EXCEPT ![d] = Nobody]
  /\ pc' = [pc EXCEPT ![c] = Idle]
  /\ UNCHANGED <<named, nameOf, refs, users, owner, holders, devices, taken, mapLock, input>>

-----------------------------------------------------------------------------
(* Surfaces *)

\* Create(): the constructor references the display and registers the surface.
Create(c, d) ==
  /\ pc[c] = Idle /\ c \in users[d] /\ stage[d] = "open"
  /\ adminLock[d] = Nobody
  /\ \E s \in Surfaces :
       /\ owner[s] = None /\ \A t \in 1..(s - 1) : owner[t] # None
       /\ owner' = [owner EXCEPT ![s] = d]
       /\ holders' = [holders EXCEPT ![s] = {c}]
       /\ listed' = listed \cup {s}
  /\ refs' = [refs EXCEPT ![d] = @ + 1]
  /\ UNCHANGED <<displayVars, users, devices, taken, mapLock, adminLock, pc, input>>

\* SurfaceByName(): under _adminLock, another reference.
SurfaceByName(c, d, s) ==
  /\ pc[c] = Idle /\ c \in users[d]
  /\ adminLock[d] \in {Nobody, c}
  /\ s \in listed /\ owner[s] = d
  /\ holders[s] # {} /\ c \notin holders[s]
  /\ holders' = [holders EXCEPT ![s] = @ \cup {c}]
  /\ UNCHANGED <<displayVars, refs, users, owner, listed, devices, taken, mapLock,
                 adminLock, pc, input>>

ReleaseSurface(c, s) ==
  /\ pc[c] = Idle /\ c \in holders[s]
  /\ holders' = [holders EXCEPT ![s] = @ \ {c}]
  /\ pc' = [pc EXCEPT ![c] = IF holders[s] = {c} THEN [at |-> "unregister", on |-> s]
                             ELSE Idle]
  /\ UNCHANGED <<displayVars, refs, users, owner, listed, devices, taken, mapLock,
                 adminLock, input>>

\* Mutant: the list is changed without _adminLock.
Unregister_Unlocked(c, s) ==
  /\ pc[c] = [at |-> "unregister", on |-> s]
  /\ listed' = listed \ {s}
  /\ pc' = [pc EXCEPT ![c].at = "dispose"]
  /\ UNCHANGED <<displayVars, refs, users, owner, holders, devices, taken, mapLock,
                 adminLock, input>>

Unregister(c, s) ==
  /\ pc[c] = [at |-> "unregister", on |-> s]
  /\ adminLock[owner[s]] \in {Nobody, c}
  /\ listed' = listed \ {s}
  /\ pc' = [pc EXCEPT ![c].at = "dispose"]
  /\ UNCHANGED <<displayVars, refs, users, owner, holders, devices, taken, mapLock,
                 adminLock, input>>

Less(s) == [k \in Devices |-> taken[k] - (IF k \in devices[s] THEN 1 ELSE 0)]

\* The rest of the destructor: the devices, the buffers, the display.
Dispose(c, s) ==
  /\ pc[c] = [at |-> "dispose", on |-> s]
  /\ taken' = Less(s)
  /\ devices' = [devices EXCEPT ![s] = {}]
  /\ Drop(c, owner[s])
  /\ UNCHANGED <<displayVars, users, owner, listed, holders, mapLock, adminLock, input>>

\* Keyboard(), Pointer(), Wheel(), TouchPanel(): set, or taken back, no lock.
Attach(c, s, k) ==
  /\ pc[c] = Idle /\ c \in holders[s] /\ s \notin input.call
  /\ IF k \in devices[s]
     THEN /\ devices' = [devices EXCEPT ![s] = @ \ {k}]
          /\ taken' = [taken EXCEPT ![k] = @ - 1]
     ELSE /\ devices' = [devices EXCEPT ![s] = @ \cup {k}]
          /\ taken' = [taken EXCEPT ![k] = @ + 1]
  /\ UNCHANGED <<displayVars, refs, users, owner, listed, holders, mapLock, adminLock,
                 pc, input>>

-----------------------------------------------------------------------------
(* The input thread *)

Registered == {named[n] : n \in Names} \ {None}

\* The callbacks of the virtual input: Publish() takes _displaysMapLock ...
Publish ==
  /\ mapLock = Nobody
  /\ mapLock' = "input"
  /\ input' = [visit |-> Registered, call |-> {}]
  /\ UNCHANGED <<displayVars, refs, users, surfaceVars, adminLock, pc>>

\* ... and of one display after the other _adminLock, ...
Visit(d) ==
  /\ mapLock = "input" /\ input.call = {} /\ "input" \notin {adminLock[e] : e \in Displays}
  /\ d \in input.visit /\ adminLock[d] = Nobody
  /\ adminLock' = [adminLock EXCEPT ![d] = "input"]
  /\ input' = [input EXCEPT !.call = {s \in listed : owner[s] = d}]
  /\ UNCHANGED <<displayVars, refs, users, surfaceVars, mapLock, pc>>

\* ... calls every surface of it, ...
Send(s) ==
  /\ s \in input.call
  /\ input' = [input EXCEPT !.call = @ \ {s}]
  /\ UNCHANGED <<displayVars, refs, users, surfaceVars, mapLock, adminLock, pc>>

Leave(d) ==
  /\ adminLock[d] = "input" /\ input.call = {}
  /\ adminLock' = [adminLock EXCEPT ![d] = Nobody]
  /\ input' = [input EXCEPT !.visit = @ \ {d}]
  /\ UNCHANGED <<displayVars, refs, users, surfaceVars, mapLock, pc>>

\* ... and unlocks.
Published ==
  /\ mapLock = "input" /\ input.visit = {}
  /\ mapLock' = Nobody
  /\ UNCHANGED <<displayVars, refs, users, surfaceVars, adminLock, pc, input>>

Next ==
  \/ \E c \in Clients, n \in Names : Instance(c, n)
  \/ \E c \in Clients, d \in Displays :
       Release(c, d) \/ Erase(c, d) \/ Close(c, d) \/ Deinitialize(c, d) \/ Create(c, d)
  \/ \E c \in Clients, d \in Displays, s \in Surfaces : SurfaceByName(c, d, s)
  \/ \E c \in Clients, s \in Surfaces :
       ReleaseSurface(c, s) \/ Unregister(c, s) \/ Dispose(c, s)
  \/ \E c \in Clients, s \in Surfaces, k \in Devices : Attach(c, s, k)
  \/ \E d \in Displays : Visit(d) \/ Leave(d)
  \/ \E s \in Surfaces : Send(s)
  \/ Publish \/ Published

Spec == Init /\ [][Next]_vars

-----------------------------------------------------------------------------
\* The references of a display are its users' and one of every surface of it that
\* has not been disposed of, and those of a device are the surfaces' that have it.
ReferencesBalance ==
  /\ \A d \in Displays :
       refs[d] = Cardinality(users[d])
                   + Cardinality({s \in Surfaces : owner[s] = d /\ Built(s)})
  /\ \A k \in Devices : taken[k] = Cardinality({s \in Surfaces : k \in devices[s]})

\* The map holds living displays, the list living surfaces of living displays; a
\* display that is closed has no surface left, and is none the input thread, which
\* holds the map, has still to visit: one of them would wait for the other forever.
RegistriesAreSound ==
  /\ \A n \in Names : named[n] # None => Alive(named[n]) /\ nameOf[named[n]] = n
  /\ \A s \in listed : Built(s) /\ Alive(owner[s]) /\ named[nameOf[owner[s]]] = owner[s]
  /\ \A d \in input.visit : mapLock = "input" => Alive(d)

\* What the input thread calls is a living surface of its list.
CallbacksAreRegistered == input.call \subseteq listed
=============================================================================
