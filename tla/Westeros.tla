------------------------------ MODULE Westeros ------------------------------
(***************************************************************************)
(* The Westeros backend: one display, the surfaces it knows by their       *)
(* wl_surface and by the id the server gave them, the references on each,  *)
(* the keyboard focus and key map, and the thread that flushes what        *)
(* Redraw() asks for.  Every operation holds the process-wide recursive    *)
(* _adminLock and is one step; Redraw() waits without it.                  *)
(*                                                                         *)
(* Assumed, and listed as hazards: one display, no Instance() while its    *)
(* last reference goes, no release of what SurfaceByName() returns, no     *)
(* call on a surface that is gone at the server or whose last change has   *)
(* not been rendered, nor on any while the last reference goes.            *)
(***************************************************************************)
EXTENDS Integers, FiniteSets

CONSTANTS
  Clients, \* threads of the application
  Objects, \* SurfaceImplementation objects that can be constructed in a behaviour
  Ids,     \* surface ids of the server
  KeyMaps  \* key maps the server sends

VARIABLES
  users,     \* clients with a reference to the display
  up,        \* connected: _display is set
  bound,     \* the globals and devices that are bound
  collect,   \* _collect: surfaces of others are kept too
  made,      \* the objects constructed so far
  count,     \* _refcount of each
  held,      \* the objects the application has a reference to
  linked,    \* the objects with _display and a wl_surface
  byWayland, \* _waylandSurfaces
  byId,      \* _surfaces: the object of an id, or none
  focus,     \* _keyboardReceiver, or none
  keyMap,    \* _keyMapConfiguration
  keyboards, \* the key map the keyboard of a surface was given, or none
  frames,    \* the surfaces that wait for Rendered()
  trigger, redraw, \* the two semaphores
  flusher,   \* the thread Processor: none, wait, flush
  waiting    \* the clients in WaitForRedraw()

vars == <<users, up, bound, collect, made, count, held, linked, byWayland, byId, focus,
          keyMap, keyboards, frames, trigger, redraw, flusher, waiting>>

None == "none"
\* What is assumed of the constants.
WesterosAssumption == None \notin Objects \cup KeyMaps
Globals == {"compositor", "simple_shell", "seat", "output", "shell"}
OfSeat == {"keyboard", "pointer", "touch"}
Known == {byId[i] : i \in Ids} \ {None}

\* Every variable keeps its type.
TypeOK ==
  /\ users \subseteq Clients /\ up \in BOOLEAN /\ collect \in BOOLEAN
  /\ bound \subseteq Globals \cup OfSeat
  /\ made \subseteq Objects
  /\ count \in [Objects -> Nat]
  /\ held \cup linked \cup byWayland \cup frames \subseteq made
  /\ byId \in [Ids -> Objects \cup {None}]
  /\ focus \in Objects \cup {None}
  /\ keyMap \in KeyMaps \cup {None}
  /\ keyboards \in [Objects -> KeyMaps \cup {"", None}]
  /\ trigger \in Nat /\ redraw \in Nat
  /\ flusher \in {"none", "wait", "flush"}
  /\ waiting \subseteq Clients

Init ==
  /\ users = {} /\ up = FALSE /\ bound = {} /\ collect = FALSE /\ made = {}
  /\ count = [o \in Objects |-> 0]
  /\ held = {} /\ linked = {} /\ byWayland = {}
  /\ byId = [i \in Ids |-> None]
  /\ focus = None /\ keyMap = None
  /\ keyboards = [o \in Objects |-> None]
  /\ frames = {} /\ trigger = 0 /\ redraw = 0 /\ flusher = "none" /\ waiting = {}

surfaceVars == <<made, count, held, linked, byWayland, byId>>
inputVars == <<focus, keyMap, keyboards>>
drawVars == <<frames, trigger, redraw, flusher, waiting>>

-----------------------------------------------------------------------------
(* The display *)

\* Initialize() connects and starts the thread; the server announces its globals, of
\* which the seat its devices.
Initialize ==
  /\ up' = TRUE
  /\ \E devices \in SUBSET {"keyboard"} : bound' = bound \cup Globals \cup devices
  /\ trigger' = 0 /\ redraw' = 0 /\ flusher' = "wait"

\* Instance(), AddRef(): the first reference initializes the display.
Instance(c) ==
  /\ c \notin users
  /\ users' = users \cup {c}
  /\ IF up THEN UNCHANGED <<up, bound, trigger, redraw, flusher>> ELSE Initialize
  /\ UNCHANGED <<collect, surfaceVars, inputVars, frames, waiting>>

\* The references Deinitialize() gives up: one for each map an object is in.
InMaps(o) == (IF o \in byWayland THEN 1 ELSE 0) + Cardinality({i \in Ids : byId[i] = o})

\* Release(): the last one is Deinitialize(), which forgets the focus, takes every
\* surface out of the maps, and joins the thread.  What was never given an id is not
\* unlinked.
Release(c) ==
  /\ c \in users /\ waiting = {}
  /\ users' = users \ {c}
  /\ IF users # {c} THEN UNCHANGED <<up, bound, surfaceVars, inputVars, drawVars>>
     ELSE /\ up' = FALSE /\ bound' = bound \cap {"pointer", "touch"}
          /\ focus' = None
          /\ count' = [o \in Objects |-> count[o] - InMaps(o)]
          /\ linked' = linked \ Known
          /\ byWayland' = {} /\ byId' = [i \in Ids |-> None]
          /\ frames' = {o \in frames : count[o] > InMaps(o)}
          /\ trigger' = 0 /\ flusher' = "none"
          /\ UNCHANGED <<made, held, keyMap, keyboards, redraw, waiting>>
  /\ UNCHANGED collect

\* LoadSurfaces(): from now on surfaces of others are kept as well.
LoadSurfaces ==
  /\ users # {} /\ collect' = TRUE
  /\ UNCHANGED <<users, up, bound, surfaceVars, inputVars, drawVars>>

-----------------------------------------------------------------------------
(* Surfaces *)

\* The constructor, with a reference of the caller's.
Construct(o) == made' = made \cup {o} /\ linked' = linked \cup {o}

\* Create(): one reference for the map, one for the caller.
Create ==
  /\ users # {}
  /\ \E o \in Objects \ made :
       /\ Construct(o)
       /\ count' = [count EXCEPT ![o] = 2]
       /\ held' = held \cup {o} /\ byWayland' = byWayland \cup {o}
  /\ UNCHANGED <<users, up, bound, collect, byId, inputVars, drawVars>>

\* ISurface::Release(); the destructor drops the frame callback.
ReleaseSurface(o) ==
  /\ o \in held
  /\ held' = held \ {o}
  /\ count' = [count EXCEPT ![o] = @ - 1]
  /\ frames' = IF count[o] = 1 THEN frames \ {o} ELSE frames
  /\ UNCHANGED <<users, up, bound, collect, made, linked, byWayland, byId, inputVars,
                 trigger, redraw, flusher, waiting>>

\* surfaceId: the server has given a surface an id, Constructed(id, surface); a
\* surface that is not known by its wl_surface is one of another client.
SurfaceId(o, i) ==
  /\ up /\ byId[i] = None
  /\ \/ /\ o \in byWayland \ Known
        /\ count' = [count EXCEPT ![o] = @ + 1]
        /\ UNCHANGED <<made, linked, byWayland>>
     \/ /\ collect /\ o \notin made
        /\ made' = made \cup {o}
        /\ count' = [count EXCEPT ![o] = 2]
        /\ linked' = linked \cup {o} /\ byWayland' = byWayland \cup {o}
  /\ byId' = [byId EXCEPT ![i] = o]
  /\ UNCHANGED <<users, up, bound, collect, held, inputVars, drawVars>>

\* surfaceCreated, and surfaceStatus after the dimensions: Constructed(id, name)
\* names the surface of the id and, when it collects, constructs one more, with two
\* references, which the map takes only if the id is new to it.
SurfaceCreated(o, i) ==
  /\ up /\ collect /\ o \notin made
  /\ made' = made \cup {o}
  /\ count' = [count EXCEPT ![o] = 2]
  /\ byId' = [byId EXCEPT ![i] = IF @ = None THEN o ELSE @]
  /\ UNCHANGED <<users, up, bound, collect, held, linked, byWayland, inputVars, drawVars>>

\* surfaceDestroyed: Destructed() takes the surface out of both maps, unless
\* surfaces are collected.
SurfaceDestroyed(i) ==
  /\ up /\ byId[i] # None /\ ~collect
  /\ LET o == byId[i] IN
     /\ focus' = IF focus = o THEN None ELSE focus
     /\ count' = [count EXCEPT ![o] = @ - InMaps(o)]
     /\ frames' = IF count[o] = InMaps(o) THEN frames \ {o} ELSE frames
     /\ linked' = linked \ {o} /\ byWayland' = byWayland \ {o}
     /\ byId' = [byId EXCEPT ![i] = None]
  /\ UNCHANGED <<users, up, bound, collect, made, held, keyMap, keyboards, trigger,
                 redraw, flusher, waiting>>

-----------------------------------------------------------------------------
(* The keyboard *)

\* keyboardEnter and keyboardLeave: FocusKeyboard().
KeyboardEnter(o) ==
  /\ up /\ "keyboard" \in bound /\ o \in byWayland
  /\ focus' = o
  /\ UNCHANGED <<users, up, bound, collect, surfaceVars, keyMap, keyboards, drawVars>>

KeyboardLeave(o) ==
  /\ up /\ "keyboard" \in bound /\ o \in byWayland
  /\ focus' = IF focus = o THEN None ELSE focus
  /\ UNCHANGED <<users, up, bound, collect, surfaceVars, keyMap, keyboards, drawVars>>

\* The key map a keyboard is given when it is set: the last one, or an empty one.
Mapping == IF keyMap = None THEN "" ELSE keyMap

\* Keyboard(): set, and given the map, or taken back.
Keyboard(o) ==
  /\ o \in held /\ o \in linked
  /\ keyboards' = [keyboards EXCEPT ![o] = IF @ = None THEN Mapping ELSE None]
  /\ UNCHANGED <<users, up, bound, collect, surfaceVars, focus, keyMap, drawVars>>

\* keyboardKeymap: KeyMapConfiguration() tells every surface, and keeps it.
KeyMapConfiguration(m) ==
  /\ up /\ "keyboard" \in bound
  /\ keyMap' = m
  /\ keyboards' = [o \in Objects |->
                     IF o \in byWayland /\ keyboards[o] # None THEN m ELSE keyboards[o]]
  /\ UNCHANGED <<users, up, bound, collect, surfaceVars, focus, drawVars>>

-----------------------------------------------------------------------------
(* Redraw *)

\* Resize(), Visibility(), Opacity() and ZOrder() end in Redraw(): a frame callback
\* is asked for, the thread triggered, and waited for.
Redraw(c, o) ==
  /\ c \in users /\ c \notin waiting /\ o \in held \cap linked /\ o \in byWayland
  /\ o \notin frames
  /\ frames' = frames \cup {o}
  /\ trigger' = trigger + 1
  /\ waiting' = waiting \cup {c}
  /\ UNCHANGED <<users, up, bound, collect, surfaceVars, inputVars, redraw, flusher>>

\* Processor: waits for the trigger, flushes, and lets one caller go.
Flush ==
  /\ flusher = "wait" /\ trigger > 0 /\ up
  /\ trigger' = trigger - 1 /\ flusher' = "flush"
  /\ UNCHANGED <<users, up, bound, collect, surfaceVars, inputVars, frames, redraw, waiting>>

Flushed ==
  /\ flusher = "flush"
  /\ redraw' = redraw + 1 /\ flusher' = "wait"
  /\ UNCHANGED <<users, up, bound, collect, surfaceVars, inputVars, frames, trigger, waiting>>

Redrawn(c) ==
  /\ c \in waiting /\ redraw > 0
  /\ redraw' = redraw - 1 /\ waiting' = waiting \ {c}
  /\ UNCHANGED <<users, up, bound, collect, surfaceVars, inputVars, frames, trigger, flusher>>

\* The frame is done: the callback is destroyed, the application told.
Rendered(o) ==
  /\ up /\ o \in frames /\ o \in linked
  /\ frames' = frames \ {o}
  /\ UNCHANGED <<users, up, bound, collect, surfaceVars, inputVars, trigger, redraw,
                 flusher, waiting>>

Next ==
  \/ \E c \in Clients : Instance(c) \/ Release(c) \/ Redrawn(c)
  \/ \E o \in Objects : ReleaseSurface(o) \/ KeyboardEnter(o) \/ KeyboardLeave(o)
                          \/ Keyboard(o) \/ Rendered(o)
  \/ \E o \in Objects, i \in Ids : SurfaceId(o, i) \/ SurfaceCreated(o, i)
  \/ \E i \in Ids : SurfaceDestroyed(i)
  \/ \E m \in KeyMaps : KeyMapConfiguration(m)
  \/ \E c \in Clients, o \in Objects : Redraw(c, o)
  \/ LoadSurfaces \/ Create \/ Flush \/ Flushed

Spec == Init /\ [][Next]_vars

-----------------------------------------------------------------------------
\* No object has fewer references than the application and the maps hold together,
\* and one this application created has exactly those.
ReferencesBalance ==
  \A o \in made : LET known == InMaps(o) + (IF o \in held THEN 1 ELSE 0) IN
    /\ count[o] >= known
    /\ o \in linked /\ o \in byWayland => count[o] = known

\* What the maps and the focus point at is alive; without a display the maps are
\* empty, so that nothing of an earlier connection is found in the next one.
RegistriesAreSound ==
  /\ \A o \in byWayland \cup Known \cup held \cup ({focus} \ {None}) : count[o] > 0
  /\ users = {} => byWayland = {} /\ Known = {} /\ focus = None

\* Every keyboard of a surface in the map has the key map that is in force, and there
\* is a signal, given or under way, for each caller that waits for a redraw.
AnswersMatch ==
  /\ \A o \in byWayland : keyboards[o] \in {None, Mapping}
  /\ Cardinality(waiting) = trigger + redraw + (IF flusher = "flush" THEN 1 ELSE 0)
=============================================================================
