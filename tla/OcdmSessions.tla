---------------------------- MODULE OcdmSessions ----------------------------
(***************************************************************************)
(* The sessions of libocdm: the map _sessionKeys of OpenCDMAccessor, the   *)
(* reference count and the destructor of OpenCDMSession, and the look-up   *)
(* of a session by key, opencdm_get_system_session().  Any thread of the   *)
(* application constructs, looks up and destructs sessions; the RPC thread *)
(* reports key statuses meanwhile.                                         *)
(*                                                                         *)
(* Whatever the code does between Lock() and Unlock() of _adminLock is one *)
(* step.  Reference counts change without that lock, and the map does not  *)
(* hold a reference.  A session is a member of Sessions from its           *)
(* construction to the end; its session id is its name, unique at the      *)
(* server.  Statuses are those of the one key that is looked up.           *)
(***************************************************************************)
EXTENDS Integers

CONSTANTS
  Threads,     \* threads of the application
  Sessions,    \* OpenCDMSession objects
  Systems,     \* OpenCDMSystem objects
  None,        \* nullptr
  MaxReferences,  \* bound: references the application holds to a session
                  \* when it looks up another
  Disciplined     \* TRUE: the last reference to a session is given up only
                  \* while no look-up is under way

ASSUME NoneAssumption == None \notin Sessions /\ None \notin Systems
ASSUME MaxAssumption == MaxReferences \in Nat
ASSUME DisciplinedAssumption == Disciplined \in BOOLEAN

VARIABLES
  sessionKeys,  \* the sessions in the map _sessionKeys
  life,         \* how far each session is from construction to destruction
  system,       \* OpenCDMSession::_system
  refCount,     \* OpenCDMSession::_refCount
  owned,        \* references to it the application holds
  status,       \* the status of the key in OpenCDMSession::_keyStatuses
  pc,           \* the next step of each thread
  session,      \* the session the thread constructs, found or destructs
  wanted,       \* the system of the look-up under way, or nullptr for any
  clock,        \* how long the look-up may still wait
  sure          \* (history) sessions it could have found since it began

objects == <<sessionKeys, life, system, refCount, owned, status>>
call == <<session, wanted, clock, sure>>
vars == <<objects, pc, call>>

Steps == {"idle", "add", "private", "search", "wait", "find", "addref",
          "remove", "revoke"}
LookUp == {"search", "wait", "find", "addref"}
Destructor == {"remove", "revoke"}

\* "new" is under construction, "hollow" has no session at the server.
Lives == {"unborn", "new", "hollow", "alive", "dying", "removed", "freed"}
Clocks == {"early", "last", "over"}

\* Every variable keeps its type, and no reference count is negative.
TypeOK ==
  /\ sessionKeys \subseteq Sessions
  /\ life \in [Sessions -> Lives]
  /\ system \in [Sessions -> Systems]
  /\ refCount \in [Sessions -> Nat]
  /\ owned \in [Sessions -> Nat]
  /\ status \in [Sessions -> {"pending", "usable", "expired"}]
  /\ pc \in [Threads -> Steps]
  /\ session \in [Threads -> Sessions \cup {None}]
  /\ wanted \in [Threads -> Systems \cup {None}]
  /\ clock \in [Threads -> Clocks]
  /\ sure \in [Threads -> SUBSET Sessions]

Init ==
  /\ sessionKeys = {}
  /\ life = [s \in Sessions |-> "unborn"]
  /\ system \in [Sessions -> Systems]
  /\ refCount = [s \in Sessions |-> 0]
  /\ owned = [s \in Sessions |-> 0]
  /\ status = [s \in Sessions |-> "pending"]
  /\ pc = [t \in Threads |-> "idle"]
  /\ session = [t \in Threads |-> None]
  /\ wanted = [t \in Threads |-> None]
  /\ clock = [t \in Threads |-> "over"]
  /\ sure = [t \in Threads |-> {}]

Goto(t, step) == pc' = [pc EXCEPT ![t] = step]

\* The sessions a look-up of thread t accepts.
Matches(t) ==
  {s \in sessionKeys : status[s] = "usable" /\ wanted[t] \in {None, system[s]}}

\* The call of thread t returns, and its local variables are gone.
Return(t) ==
  /\ Goto(t, "idle")
  /\ session' = [session EXCEPT ![t] = None]
  /\ wanted' = [wanted EXCEPT ![t] = None]
  /\ clock' = [clock EXCEPT ![t] = "over"]
  /\ sure' = [sure EXCEPT ![t] = {}]

UnderConstruction(s) ==
  \E t \in Threads : pc[t] \in {"add", "private"} /\ session[t] = s

NobodyIn(steps) == \A t \in Threads : pc[t] \notin steps

-----------------------------------------------------------------------------
(***************************************************************************)
(* opencdm_construct_session()                                             *)
(***************************************************************************)

\* The constructor up to the answer of the server.  When that fails, the caller
\* gets the session all the same.
Construct(t, s) ==
  /\ pc[t] = "idle"
  /\ life[s] = "unborn"
  /\ refCount' = [refCount EXCEPT ![s] = 1]
  /\ session' = [session EXCEPT ![t] = s]
  /\ \/ life' = [life EXCEPT ![s] = "new"] /\ Goto(t, "add")
     \/ life' = [life EXCEPT ![s] = "hollow"] /\ Goto(t, "private")
  /\ UNCHANGED <<sessionKeys, system, owned, status, wanted, clock, sure>>

\* The end of the constructor.
AddSession(t) ==
  LET s == session[t] IN
  /\ pc[t] = "add"
  /\ sessionKeys' = sessionKeys \cup {s}
  /\ life' = [life EXCEPT ![s] = "alive"]
  /\ Goto(t, "private")
  /\ UNCHANGED <<system, refCount, owned, status, session, wanted, clock, sure>>

\* SessionPvt.Construct() works or is not there, and the caller gets its reference.
Constructed(t) ==
  /\ pc[t] = "private"
  /\ owned' = [owned EXCEPT ![session[t]] = @ + 1]
  /\ Return(t)
  /\ UNCHANGED <<sessionKeys, life, system, refCount, status>>

-----------------------------------------------------------------------------
(***************************************************************************)
(* opencdm_destruct_session(), also for a session whose private data could *)
(* not be constructed.                                                     *)
(***************************************************************************)

\* Mutant: the destructor runs when one reference is left.
Release_OneLeft(t, s) ==
  /\ Disciplined /\ refCount[s] \in 1..2 => NobodyIn(LookUp)
  /\ refCount' = [refCount EXCEPT ![s] = @ - 1]
  /\ IF refCount[s] \in 1..2
     THEN /\ life' = [life EXCEPT ![s] = "dying"]
          /\ session' = [session EXCEPT ![t] = s]
          /\ Goto(t, "remove")
          /\ UNCHANGED <<wanted, clock, sure>>
     ELSE Return(t) /\ life' = life

\* OpenCDMSession::Release(): who takes the count to zero runs the destructor.
Release(t, s) ==
  /\ Disciplined /\ refCount[s] = 1 => NobodyIn(LookUp)
  /\ refCount' = [refCount EXCEPT ![s] = @ - 1]
  /\ IF refCount[s] = 1
     THEN /\ life' = [life EXCEPT ![s] = "dying"]
          /\ session' = [session EXCEPT ![t] = s]
          /\ Goto(t, "remove")
          /\ UNCHANGED <<wanted, clock, sure>>
     ELSE Return(t) /\ life' = life

ConstructFails(t) ==
  /\ pc[t] = "private"
  /\ Release(t, session[t])
  /\ UNCHANGED <<sessionKeys, system, owned, status>>

Destruct(t, s) ==
  /\ pc[t] = "idle"
  /\ owned[s] > 0
  /\ owned' = [owned EXCEPT ![s] = @ - 1]
  /\ Release(t, s)
  /\ UNCHANGED <<sessionKeys, system, status>>

\* Mutant: a session leaves the map only if it is usable.
RemoveSession_Usable(t) ==
  LET s == session[t] IN
  /\ pc[t] = "remove"
  /\ sessionKeys' = IF status[s] = "usable" THEN sessionKeys \ {s} ELSE sessionKeys
  /\ life' = [life EXCEPT ![s] = "removed"]
  /\ sure' = [u \in Threads |-> sure[u] \ {s}]
  /\ Goto(t, "revoke")
  /\ UNCHANGED <<system, refCount, owned, status, session, wanted, clock>>

RemoveSession(t) ==
  LET s == session[t] IN
  /\ pc[t] = "remove"
  /\ sessionKeys' = sessionKeys \ {s}
  /\ life' = [life EXCEPT ![s] = "removed"]
  /\ sure' = [u \in Threads |-> sure[u] \ {s}]
  /\ Goto(t, "revoke")
  /\ UNCHANGED <<system, refCount, owned, status, session, wanted, clock>>

\* Revoke() of the sink, the decrypt session and the memory.
Revoke(t) ==
  /\ pc[t] = "revoke"
  /\ life' = [life EXCEPT ![session[t]] = "freed"]
  /\ Return(t)
  /\ UNCHANGED <<sessionKeys, system, refCount, owned, status>>

-----------------------------------------------------------------------------
(***************************************************************************)
(* opencdm_get_system_session()                                            *)
(***************************************************************************)

GetSession(t, sys) ==
  /\ pc[t] = "idle"
  /\ \A s \in Sessions : owned[s] < MaxReferences
  /\ Disciplined => NobodyIn(Destructor)
  /\ wanted' = [wanted EXCEPT ![t] = sys]
  /\ \E c \in Clocks : clock' = [clock EXCEPT ![t] = c]
  /\ sure' = [sure EXCEPT ![t] =
                {s \in sessionKeys : status[s] = "usable" /\ sys \in {None, system[s]}}]
  /\ Goto(t, "search")
  /\ UNCHANGED <<objects, session>>

\* Mutant: the time is looked at first, then the map.
Search_TimeFirst(t) ==
  /\ pc[t] = "search"
  /\ IF clock[t] # "over" /\ Matches(t) # {}
     THEN /\ \E s \in Matches(t) : session' = [session EXCEPT ![t] = s]
          /\ Goto(t, "find")
     ELSE session' = session /\ Goto(t, "wait")
  /\ UNCHANGED <<objects, wanted, clock, sure>>

\* WaitForKey() looks at every session in the map, under the lock.
Search(t) ==
  /\ pc[t] = "search"
  /\ IF Matches(t) # {}
     THEN /\ \E s \in Matches(t) : session' = [session EXCEPT ![t] = s]
          /\ Goto(t, "find")
     ELSE session' = session /\ Goto(t, "wait")
  /\ UNCHANGED <<objects, wanted, clock, sure>>

\* The time the look-up may take passes: its last millisecond begins or ends.
Tick(t) ==
  /\ pc[t] \in LookUp
  /\ clock[t] # "over"
  /\ clock' = [clock EXCEPT ![t] = IF @ = "early" THEN "last" ELSE "over"]
  /\ UNCHANGED <<objects, pc, session, wanted, sure>>

\* Mutant: the look-up waits until it has found something.
Wait_Forever(t) ==
  /\ pc[t] = "wait"
  /\ clock[t] # "early"
  /\ Goto(t, "search")
  /\ UNCHANGED <<objects, call>>

\* Nothing sets _signal (KeyUpdate() has no caller), so Lock() takes all the
\* whole milliseconds there are, and no time in the last one.  Then the loop
\* goes round again or the caller gets nullptr.
Wait(t) ==
  /\ pc[t] = "wait"
  /\ clock[t] # "early"
  /\ IF clock[t] = "last" THEN Goto(t, "search") /\ UNCHANGED call ELSE Return(t)
  /\ UNCHANGED objects

\* OpenCDMAccessor::Session() looks its session id up before it takes the lock: a
\* thread that inserts or erases meanwhile may hide a session that is there.
Find(t) ==
  /\ pc[t] = "find"
  /\ \/ session[t] \in sessionKeys /\ Goto(t, "addref") /\ UNCHANGED call
     \/ session[t] \notin sessionKeys /\ Return(t)
     \/ ~NobodyIn({"add", "remove"}) /\ Return(t)
  /\ UNCHANGED objects

\* Mutant: the reference is not counted.
AddRef_NotCounted(t) ==
  LET s == session[t] IN
  /\ pc[t] = "addref"
  /\ owned' = [owned EXCEPT ![s] = @ + 1]
  /\ Return(t)
  /\ UNCHANGED <<sessionKeys, life, system, refCount, status>>

AddRef(t) ==
  LET s == session[t] IN
  /\ pc[t] = "addref"
  /\ refCount' = [refCount EXCEPT ![s] = @ + 1]
  /\ owned' = [owned EXCEPT ![s] = @ + 1]
  /\ Return(t)
  /\ UNCHANGED <<sessionKeys, life, system, status>>

-----------------------------------------------------------------------------

\* OnKeyStatusUpdate() on the RPC thread, until the sink is revoked.
OnKeyStatusUpdate(s, st) ==
  /\ life[s] \in {"new", "alive", "dying", "removed"}
  /\ status[s] # st
  /\ status' = [status EXCEPT ![s] = st]
  /\ sure' = [t \in Threads |-> sure[t] \ {s}]
  /\ UNCHANGED <<sessionKeys, life, system, refCount, owned, pc, session, wanted, clock>>

\* The steps a thread takes to finish what it began.
ThreadStep(t) ==
  \/ AddSession(t) \/ Constructed(t) \/ ConstructFails(t)
  \/ RemoveSession(t) \/ Revoke(t)
  \/ Search(t) \/ Wait(t) \/ Find(t) \/ AddRef(t)

Next ==
  \/ \E t \in Threads, s \in Sessions : Construct(t, s) \/ Destruct(t, s)
  \/ \E t \in Threads : \E sys \in Systems \cup {None} : GetSession(t, sys)
  \/ \E t \in Threads : ThreadStep(t) \/ Tick(t)
  \/ \E s \in Sessions : \E st \in {"usable", "expired"} : OnKeyStatusUpdate(s, st)

Spec == Init /\ [][Next]_vars

\* Threads run and time passes; what the application calls is up to it, and so
\* are the key statuses to the server.
Fairness == \A t \in Threads : WF_vars(ThreadStep(t)) /\ WF_vars(Tick(t))

FairSpec == Spec /\ Fairness

-----------------------------------------------------------------------------
(***************************************************************************)
(* Properties.                                                             *)
(***************************************************************************)

\* The map names constructed sessions whose members still exist: WaitForKey()
\* reads their status and their system under a lock that neither the counts nor
\* the destructor's other steps take.
MapIsSafe ==
  \A s \in sessionKeys : life[s] \in {"alive", "dying"}

\* "OpenCDMSession belonging to key ID [...]  This instance also needs to be
\* destructed": what the look-up returns is alive when the caller gets it.
FoundIsAlive ==
  \A t \in Threads : pc[t] = "addref" => life[session[t]] = "alive"

\* A session the application holds a reference to is not destroyed, and one it
\* holds none to is, unless a thread is still busy constructing it.
HeldMeansAlive ==
  \A s \in Sessions :
    /\ refCount[s] = owned[s] + IF UnderConstruction(s) THEN 1 ELSE 0
    /\ refCount[s] > 0 <=> life[s] \in {"new", "hollow", "alive"}

\* The destructor of a session runs once, on one thread.
DestroyedOnce ==
  \A t, u \in Threads :
    pc[t] \in Destructor /\ pc[u] \in Destructor /\ session[t] = session[u] => t = u

\* A look-up returns nullptr only if no session had the key usable all the while,
\* or the map changed under its hands, although it goes to the map twice.
StandingKeyIsFound ==
  [][\A t \in Threads :
       /\ pc[t] \in {"wait", "find"} /\ pc'[t] = "idle"
       /\ NobodyIn({"add", "remove"})
       => sure[t] = {}]_vars

\* "Maximum allowed time to block": a look-up ends, though nobody wakes it.
GetReturns ==
  \A t \in Threads : pc[t] \in LookUp ~> pc[t] \notin LookUp

=============================================================================
