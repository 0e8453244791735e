------------------------ MODULE OcdmSessionsProofs ------------------------
(***************************************************************************)
(* Theorems about OcdmSessions, for any threads, sessions and systems.     *)
(* The first invariant, CoreInv, holds for every application; the second,  *)
(* OrderInv, for one that gives up last references only while no look-up   *)
(* is under way.                                                           *)
(***************************************************************************)
EXTENDS OcdmSessions, TLAPS

\* The step a thread is at says which session it has in its hands and how far
\* that session is.
ThreadInv(t) ==
  /\ pc[t] \in {"add", "private", "find", "addref", "remove", "revoke"} =>
       session[t] \in Sessions
  /\ pc[t] = "add" => life[session[t]] = "new"
  /\ pc[t] = "private" => life[session[t]] \in {"hollow", "alive"}
  /\ pc[t] \in {"find", "addref"} =>
       life[session[t]] \in {"alive", "dying", "removed", "freed"}
  /\ pc[t] \in Destructor => life[session[t]] \in {"dying", "removed", "freed"}
  /\ pc[t] = "revoke" => session[t] \notin sessionKeys

\* A session has one constructor.
Constructors ==
  \A t, u \in Threads :
    /\ pc[t] \in {"add", "private"} /\ pc[u] \in {"add", "private"}
    /\ session[t] = session[u]
    => t = u

SessionInv(s) ==
  /\ refCount[s] = owned[s] + IF UnderConstruction(s) THEN 1 ELSE 0
  /\ life[s] = "unborn" => refCount[s] = 0
  /\ life[s] = "new" => UnderConstruction(s)
  /\ s \in sessionKeys => life[s] \in {"alive", "dying"}

CoreInv ==
  /\ TypeOK
  /\ \A t \in Threads : ThreadInv(t)
  /\ Constructors
  /\ \A s \in Sessions : SessionInv(s)

LEMMA CoreInit == Init => CoreInv
  BY DEF Init, CoreInv, TypeOK, Steps, Lives, Clocks, ThreadInv, Constructors,
     SessionInv, UnderConstruction, Destructor

LEMMA CoreStep == CoreInv /\ [Next]_vars => CoreInv'
<1> SUFFICES ASSUME CoreInv, [Next]_vars PROVE CoreInv'
  OBVIOUS
<1> USE DEF CoreInv, TypeOK, Steps, Lives, Clocks, ThreadInv, Constructors,
            SessionInv, UnderConstruction, Destructor, Goto, Return, objects, call
<1>1. ASSUME NEW t \in Threads, NEW s \in Sessions, Construct(t, s) PROVE CoreInv'
  BY <1>1, SMTT(30) DEF Construct
<1>2. ASSUME NEW t \in Threads, NEW s \in Sessions, Destruct(t, s) PROVE CoreInv'
  <2>0. /\ refCount[s] >= 1
        /\ owned' = [owned EXCEPT ![s] = owned[s] - 1]
        /\ refCount' = [refCount EXCEPT ![s] = refCount[s] - 1]
        /\ owned[s] > 0 /\ pc[t] = "idle"
        /\ UNCHANGED <<sessionKeys, system, status>>
    BY <1>2 DEF Destruct, Release
  <2>1. CASE refCount[s] = 1
    <3>0. /\ life' = [life EXCEPT ![s] = "dying"]
          /\ session' = [session EXCEPT ![t] = s]
          /\ pc' = [pc EXCEPT ![t] = "remove"]
          /\ UNCHANGED <<wanted, clock, sure>>
      BY <1>2, <2>1 DEF Destruct, Release
    <3>1. owned[s] = 1 /\ ~UnderConstruction(s)
      BY <2>0, <2>1
    <3>2. TypeOK'
      BY <2>0, <2>1, <3>0
    <3>3. (\A u \in Threads : ThreadInv(u))' /\ Constructors'
      BY <2>0, <2>1, <3>0, <3>1
    <3>4. (\A r \in Sessions : SessionInv(r))'
      BY <2>0, <2>1, <3>0, <3>1
    <3>. QED
      BY <3>2, <3>3, <3>4
  <2>2. CASE refCount[s] # 1
    <3>0. life' = life /\ Return(t)
      BY <1>2, <2>2 DEF Destruct, Release
    <3>1. refCount[s] > 1
      BY <2>0, <2>2
    <3>2. TypeOK'
      BY <2>0, <3>0, <3>1
    <3>3. (\A u \in Threads : ThreadInv(u))' /\ Constructors'
      BY <2>0, <3>0
    <3>4. (\A r \in Sessions : SessionInv(r))'
      BY <2>0, <3>0, <3>1
    <3>. QED
      BY <3>2, <3>3, <3>4
  <2>. QED
    BY <2>1, <2>2
<1>3. ASSUME NEW t \in Threads, NEW sys \in Systems \cup {None}, GetSession(t, sys) PROVE CoreInv'
  BY <1>3 DEF GetSession
<1>4. ASSUME NEW t \in Threads, AddSession(t) PROVE CoreInv'
  BY <1>4 DEF AddSession
<1>5. ASSUME NEW t \in Threads, Constructed(t) PROVE CoreInv'
  BY <1>5 DEF Constructed
<1>6. ASSUME NEW t \in Threads, ConstructFails(t) PROVE CoreInv'
  <2>. PICK s \in Sessions : s = session[t]
    BY <1>6 DEF ConstructFails
  <2>0. /\ pc[t] = "private"
        /\ refCount[s] = owned[s] + 1
        /\ refCount' = [refCount EXCEPT ![s] = refCount[s] - 1]
        /\ UNCHANGED <<sessionKeys, system, owned, status>>
    BY <1>6 DEF ConstructFails, Release
  <2>1. CASE refCount[s] = 1
    <3>0. /\ life' = [life EXCEPT ![s] = "dying"]
          /\ session' = [session EXCEPT ![t] = s]
          /\ pc' = [pc EXCEPT ![t] = "remove"]
          /\ UNCHANGED <<wanted, clock, sure>>
      BY <1>6, <2>1 DEF ConstructFails, Release
    <3>1. session' = session /\ ~UnderConstruction(s)'
      BY <2>0, <3>0
    <3>2. TypeOK'
      <4>1. life' \in [Sessions -> Lives] /\ pc' \in [Threads -> Steps]
        BY <3>0
      <4>2. refCount' \in [Sessions -> Nat]
        BY <2>0, <2>1
      <4>. QED
        BY <2>0, <3>0, <3>1, <4>1, <4>2
    <3>3. (\A u \in Threads : ThreadInv(u))' /\ Constructors'
      BY <2>0, <3>0
    <3>4. ASSUME NEW r \in Sessions PROVE SessionInv(r)'
      <4>1. CASE r = s
        BY <2>0, <2>1, <3>0, <3>1, <4>1
      <4>2. CASE r # s
        <5>1. UnderConstruction(r)' <=> UnderConstruction(r)
          BY <2>0, <3>0, <3>1, <4>2
        <5>2. refCount'[r] = refCount[r] /\ life'[r] = life[r]
          BY <2>0, <3>0, <4>2
        <5>3. SessionInv(r) /\ owned' = owned /\ sessionKeys' = sessionKeys
          BY <2>0
        <5>. HIDE DEF CoreInv, TypeOK, UnderConstruction
        <5>. QED
          BY <5>1, <5>2, <5>3
      <4>. QED
        BY <4>1, <4>2
    <3>. QED
      BY <3>2, <3>3, <3>4
  <2>2. CASE refCount[s] # 1
    <3>0. life' = life /\ Return(t)
      BY <1>6, <2>2 DEF ConstructFails, Release
    <3>1. ~UnderConstruction(s)'
      BY <2>0, <3>0
    <3>2. TypeOK'
      BY <2>0, <3>0
    <3>3. (\A u \in Threads : ThreadInv(u))' /\ Constructors'
      BY <2>0, <3>0
    <3>4. (\A r \in Sessions : SessionInv(r))'
      BY <2>0, <3>0, <3>1
    <3>. QED
      BY <3>2, <3>3, <3>4
  <2>. QED
    BY <2>1, <2>2
<1>7. ASSUME NEW t \in Threads, RemoveSession(t) PROVE CoreInv'
  BY <1>7 DEF RemoveSession
<1>8. ASSUME NEW t \in Threads, Revoke(t) PROVE CoreInv'
  BY <1>8 DEF Revoke
<1>9. ASSUME NEW t \in Threads, Search(t) PROVE CoreInv'
  BY <1>9, SMTT(30) DEF Search, Matches
<1>10. ASSUME NEW t \in Threads, Wait(t) PROVE CoreInv'
  BY <1>10 DEF Wait
<1>11. ASSUME NEW t \in Threads, Find(t) PROVE CoreInv'
  <2>1. CASE session[t] \in sessionKeys /\ Goto(t, "addref") /\ UNCHANGED call
    BY <1>11, <2>1 DEF Find
  <2>2. CASE Return(t)
    BY <1>11, <2>2 DEF Find
  <2>. QED
    BY <1>11, <2>1, <2>2 DEF Find
<1>12. ASSUME NEW t \in Threads, AddRef(t) PROVE CoreInv'
  BY <1>12 DEF AddRef
<1>13. ASSUME NEW t \in Threads, Tick(t) PROVE CoreInv'
  BY <1>13 DEF Tick
<1>14. ASSUME NEW s \in Sessions, NEW st \in {"usable", "expired"}, OnKeyStatusUpdate(s, st)
       PROVE CoreInv'
  BY <1>14 DEF OnKeyStatusUpdate
<1>15. CASE UNCHANGED vars
  BY <1>15 DEF vars
<1> HIDE DEF CoreInv, TypeOK, Steps, Lives, Clocks, ThreadInv, Constructors, SessionInv,
            UnderConstruction, Destructor, Goto, Return, objects, call
<1>16. ASSUME NEW t \in Threads, ThreadStep(t) PROVE CoreInv'
  BY <1>4, <1>5, <1>6, <1>7, <1>8, <1>9, <1>10, <1>11, <1>12, <1>16 DEF ThreadStep
<1>. QED
  BY <1>1, <1>2, <1>3, <1>13, <1>14, <1>15, <1>16 DEF Next


LEMMA CoreInvariance == Spec => []CoreInv
  BY CoreInit, CoreStep, PTL DEF Spec

\* For every application, whatever the counts do: the types are kept.
THEOREM TypeCorrect == Spec => []TypeOK
<1>1. CoreInv => TypeOK
  BY DEF CoreInv
<1>. QED
  BY <1>1, CoreInvariance, PTL

\* For every application: RemoveSession() comes before the members of a session
\* go, so WaitForKey() never looks at a freed one, not even when a session that
\* is being destroyed is found, given a new reference and destroyed again.
THEOREM MapHolds == Spec => []MapIsSafe
<1>1. CoreInv => MapIsSafe
  BY DEF CoreInv, TypeOK, SessionInv, MapIsSafe
<1>. QED
  BY <1>1, CoreInvariance, PTL

-----------------------------------------------------------------------------
(***************************************************************************)
(* With an application that gives up last references only while no look-up *)
(* is under way.                                                           *)
(***************************************************************************)

\* Look-ups and destructors exclude each other.
Exclusion ==
  \A t, u \in Threads : ~(pc[t] \in LookUp /\ pc[u] \in Destructor)

\* Destructors have a session each, and a session that is dying has one.
Destructors ==
  /\ \A t \in Threads :
       /\ pc[t] = "remove" => life[session[t]] = "dying"
       /\ pc[t] = "revoke" => life[session[t]] = "removed"
       /\ pc[t] \in {"find", "addref"} => session[t] \in sessionKeys
  /\ \A s \in Sessions :
       life[s] = "dying" => \E t \in Threads : pc[t] = "remove" /\ session[t] = s

Counts ==
  \A s \in Sessions : refCount[s] > 0 <=> life[s] \in {"new", "hollow", "alive"}

OrderInv == Exclusion /\ Destructors /\ Counts /\ DestroyedOnce

LEMMA OrderInit == Init => OrderInv
  BY DEF Init, OrderInv, Exclusion, Destructors, Counts, DestroyedOnce, Destructor,
     LookUp

LEMMA OrderStep == Disciplined /\ CoreInv /\ OrderInv /\ [Next]_vars => OrderInv'
<1> SUFFICES ASSUME Disciplined, CoreInv, OrderInv, [Next]_vars PROVE OrderInv'
  OBVIOUS
<1> USE DEF OrderInv, Exclusion, Destructors, Counts, DestroyedOnce, Destructor,
            LookUp, CoreInv, TypeOK, Steps, Lives, ThreadInv, SessionInv, Goto, Return, objects, call
<1>1. ASSUME NEW t \in Threads, NEW s \in Sessions, Construct(t, s) PROVE OrderInv'
  BY <1>1 DEF Construct
<1>2. ASSUME NEW t \in Threads, NEW s \in Sessions, Destruct(t, s) PROVE OrderInv'
  <2>0. /\ refCount[s] >= 1 /\ owned[s] > 0 /\ pc[t] = "idle"
        /\ refCount' = [refCount EXCEPT ![s] = refCount[s] - 1]
        /\ UNCHANGED <<sessionKeys, system, status>>
    BY <1>2 DEF Destruct, Release
  <2>1. CASE refCount[s] = 1
    <3>0. /\ life' = [life EXCEPT ![s] = "dying"]
          /\ session' = [session EXCEPT ![t] = s]
          /\ pc' = [pc EXCEPT ![t] = "remove"]
          /\ \A u \in Threads : pc[u] \notin LookUp
      BY <1>2, <2>1 DEF Destruct, Release, NobodyIn
    <3>1. life[s] \in {"new", "hollow", "alive"} /\ refCount'[s] = 0
      BY <2>0, <2>1
    <3>2. \A u \in Threads : pc[u] \in Destructor => session[u] # s
      BY <3>1
    <3>. QED
      BY <2>0, <3>0, <3>1, <3>2
  <2>2. CASE refCount[s] # 1
    <3>0. life' = life /\ Return(t)
      BY <1>2, <2>2 DEF Destruct, Release
    <3>1. Counts'
      BY <2>0, <2>2, <3>0
    <3>2. Exclusion' /\ Destructors' /\ DestroyedOnce'
      BY <2>0, <3>0
    <3>. QED
      BY <3>1, <3>2
  <2>. QED
    BY <2>1, <2>2
<1>3. ASSUME NEW t \in Threads, NEW sys \in Systems \cup {None}, GetSession(t, sys) PROVE OrderInv'
  BY <1>3 DEF GetSession, NobodyIn
<1>4. ASSUME NEW t \in Threads, AddSession(t) PROVE OrderInv'
  BY <1>4 DEF AddSession
<1>5. ASSUME NEW t \in Threads, Constructed(t) PROVE OrderInv'
  BY <1>5 DEF Constructed
<1>6. ASSUME NEW t \in Threads, ConstructFails(t) PROVE OrderInv'
  BY <1>6, SMTT(30) DEF ConstructFails, Release, NobodyIn
<1>7. ASSUME NEW t \in Threads, RemoveSession(t) PROVE OrderInv'
  BY <1>7 DEF RemoveSession
<1>8. ASSUME NEW t \in Threads, Revoke(t) PROVE OrderInv'
  BY <1>8 DEF Revoke
<1>9. ASSUME NEW t \in Threads, Search(t) PROVE OrderInv'
  BY <1>9 DEF Search, Matches
<1>10. ASSUME NEW t \in Threads, Wait(t) PROVE OrderInv'
  BY <1>10 DEF Wait
<1>11. ASSUME NEW t \in Threads, Find(t) PROVE OrderInv'
  BY <1>11 DEF Find
<1>12. ASSUME NEW t \in Threads, AddRef(t) PROVE OrderInv'
  BY <1>12 DEF AddRef
<1>13. ASSUME NEW t \in Threads, Tick(t) PROVE OrderInv'
  BY <1>13 DEF Tick
<1>14. ASSUME NEW s \in Sessions, NEW st \in {"usable", "expired"}, OnKeyStatusUpdate(s, st)
       PROVE OrderInv'
  BY <1>14 DEF OnKeyStatusUpdate
<1>15. CASE UNCHANGED vars
  BY <1>15 DEF vars
<1>. QED
  BY <1>1, <1>2, <1>3, <1>4, <1>5, <1>6, <1>7, <1>8, <1>9, <1>10, <1>11, <1>12,
     <1>13, <1>14, <1>15 DEF Next, ThreadStep

LEMMA OrderInvariance == ASSUME Disciplined PROVE Spec => []OrderInv
<1>1. CoreInv /\ OrderInv /\ [Next]_vars => OrderInv'
  BY OrderStep
<1>. QED
  BY <1>1, OrderInit, CoreInvariance, PTL DEF Spec

\* As long as the application gives up the last reference to a session only while
\* no look-up is under way, the look-up returns a session that is alive, although
\* it lets go of the lock and looks the session up again before it counts.
THEOREM FoundAlive == ASSUME Disciplined PROVE Spec => []FoundIsAlive
<1>1. CoreInv /\ OrderInv => FoundIsAlive
  BY DEF CoreInv, TypeOK, SessionInv, ThreadInv, OrderInv, Exclusion, Destructors,
     LookUp, Destructor, FoundIsAlive
<1>. QED
  BY <1>1, CoreInvariance, OrderInvariance, PTL

\* As long as the application gives up the last reference to a session only while
\* no look-up is under way, a session is alive exactly as long as somebody holds a
\* reference to it: threads that construct, look up and release it at once do not
\* lose count.  Without that the run ocdm_found shows the revival that breaks it.
THEOREM HeldAlive == ASSUME Disciplined PROVE Spec => []HeldMeansAlive
<1>1. CoreInv /\ OrderInv => HeldMeansAlive
  BY DEF CoreInv, SessionInv, OrderInv, Counts, HeldMeansAlive
<1>. QED
  BY <1>1, CoreInvariance, OrderInvariance, PTL

\* As long as the application gives up the last reference to a session only while
\* no look-up is under way, no session is destroyed by two threads: a look-up then
\* never brings a count back from zero, which is how it would happen.
THEOREM OneDestructor == ASSUME Disciplined PROVE Spec => []DestroyedOnce
<1>1. OrderInv => DestroyedOnce
  BY DEF OrderInv
<1>. QED
  BY <1>1, OrderInvariance, PTL

-----------------------------------------------------------------------------
(***************************************************************************)
(* What a look-up misses.                                                  *)
(***************************************************************************)

\* A look-up accepts every session that could have been found all the while; it
\* waits only when there is none.
SureInv ==
  \A t \in Threads :
    /\ sure[t] \subseteq Matches(t)
    /\ pc[t] = "wait" => sure[t] = {}

LEMMA SureInit == Init => SureInv
  BY DEF Init, SureInv

LEMMA SureStep == CoreInv /\ SureInv /\ [Next]_vars => SureInv'
<1> SUFFICES ASSUME CoreInv, SureInv, [Next]_vars PROVE SureInv'
  OBVIOUS
<1> USE DEF SureInv, Matches, Goto, Return, objects, call
<1>. /\ pc \in [Threads -> Steps]
     /\ session \in [Threads -> Sessions \cup {None}]
     /\ wanted \in [Threads -> Systems \cup {None}]
     /\ sure \in [Threads -> SUBSET Sessions]
     /\ status \in [Sessions -> {"pending", "usable", "expired"}]
     /\ sessionKeys \subseteq Sessions
  BY DEF CoreInv, TypeOK
<1>1. ASSUME NEW t \in Threads, NEW s \in Sessions, Construct(t, s) PROVE SureInv'
  BY <1>1 DEF Construct
<1>2. ASSUME NEW t \in Threads, NEW s \in Sessions, Destruct(t, s) PROVE SureInv'
  BY <1>2 DEF Destruct, Release
<1>3. ASSUME NEW t \in Threads, NEW sys \in Systems \cup {None}, GetSession(t, sys)
      PROVE  SureInv'
  BY <1>3 DEF GetSession
<1>4. ASSUME NEW t \in Threads, AddSession(t) PROVE SureInv'
  BY <1>4 DEF AddSession
<1>5. ASSUME NEW t \in Threads, Constructed(t) PROVE SureInv'
  BY <1>5 DEF Constructed
<1>6. ASSUME NEW t \in Threads, ConstructFails(t) PROVE SureInv'
  BY <1>6 DEF ConstructFails, Release
<1>7. ASSUME NEW t \in Threads, RemoveSession(t) PROVE SureInv'
  BY <1>7 DEF RemoveSession
<1>8. ASSUME NEW t \in Threads, Revoke(t) PROVE SureInv'
  BY <1>8 DEF Revoke
<1>9. ASSUME NEW t \in Threads, Search(t) PROVE SureInv'
  BY <1>9 DEF Search
<1>10. ASSUME NEW t \in Threads, Wait(t) PROVE SureInv'
  BY <1>10 DEF Wait
<1>11. ASSUME NEW t \in Threads, Find(t) PROVE SureInv'
  BY <1>11 DEF Find
<1>12. ASSUME NEW t \in Threads, AddRef(t) PROVE SureInv'
  BY <1>12 DEF AddRef
<1>13. ASSUME NEW t \in Threads, Tick(t) PROVE SureInv'
  BY <1>13 DEF Tick
<1>14. ASSUME NEW s \in Sessions, NEW st \in {"usable", "expired"}, OnKeyStatusUpdate(s, st)
       PROVE  SureInv'
  BY <1>14 DEF OnKeyStatusUpdate
<1>15. CASE UNCHANGED vars
  BY <1>15 DEF vars
<1>. QED
  BY <1>1, <1>2, <1>3, <1>4, <1>5, <1>6, <1>7, <1>8, <1>9, <1>10, <1>11, <1>12,
     <1>13, <1>14, <1>15 DEF Next, ThreadStep

\* Who looks up is the only one to end its look-up.
LEMMA OwnStep ==
  ASSUME CoreInv, [Next]_vars, NEW t \in Threads, pc[t] \in {"wait", "find"}, pc'[t] = "idle"
  PROVE  Wait(t) \/ Find(t)
<1> USE DEF Goto, Return, objects, call
<1>. pc \in [Threads -> Steps]
  BY DEF CoreInv, TypeOK
<1>1. ASSUME NEW u \in Threads, NEW s \in Sessions, Construct(u, s) \/ Destruct(u, s)
      PROVE  pc'[t] = pc[t]
  BY <1>1 DEF Construct, Destruct, Release
<1>2. ASSUME NEW u \in Threads, NEW sys \in Systems \cup {None}, GetSession(u, sys)
      PROVE  pc'[t] = pc[t]
  BY <1>2 DEF GetSession
<1>3. ASSUME NEW u \in Threads,
             \/ AddSession(u) \/ Constructed(u) \/ ConstructFails(u) \/ RemoveSession(u)
             \/ Revoke(u) \/ AddRef(u) \/ Tick(u)
      PROVE  pc'[t] = pc[t]
  BY <1>3 DEF AddSession, Constructed, ConstructFails, Release, RemoveSession, Revoke,
     AddRef, Tick
<1>4. ASSUME NEW u \in Threads, Search(u) PROVE pc'[t] = pc[t]
  BY <1>4 DEF Search
<1>5. ASSUME NEW u \in Threads, u # t, Wait(u) \/ Find(u) PROVE pc'[t] = pc[t]
  BY <1>5 DEF Wait, Find
<1>6. ASSUME NEW s \in Sessions, NEW st \in {"usable", "expired"}, OnKeyStatusUpdate(s, st)
      PROVE  pc'[t] = pc[t]
  BY <1>6 DEF OnKeyStatusUpdate
<1>7. CASE UNCHANGED vars
  BY <1>7 DEF vars
<1>. QED
  BY <1>1, <1>2, <1>3, <1>4, <1>5, <1>6, <1>7 DEF Next, ThreadStep

\* A look-up that returns nullptr missed no session that had the key usable all
\* the while: it goes to the map again when its time is up, and what it found
\* is still there when it looks up the session's id.
THEOREM StandingFound == ASSUME Disciplined PROVE Spec => StandingKeyIsFound
<1>1. ASSUME CoreInv, OrderInv, SureInv, [Next]_vars, NEW t \in Threads,
             pc[t] \in {"wait", "find"}, pc'[t] = "idle", NobodyIn({"add", "remove"})
      PROVE  sure[t] = {}
  <2>1. CASE Wait(t)
    BY <1>1, <2>1 DEF Wait, SureInv
  <2>2. CASE Find(t)
    <3>1. pc[t] = "find" /\ pc'[t] = "idle"
      BY <1>1, <2>2 DEF Find
    <3>2. session[t] \in sessionKeys
      BY <1>1, <3>1 DEF OrderInv, Destructors
    <3>3. Goto(t, "addref")
      BY <1>1, <2>2, <3>2 DEF Find
    <3>. QED
      BY <1>1, <3>1, <3>3 DEF Goto, CoreInv, TypeOK
  <2>. QED
    BY <1>1, <2>1, <2>2, OwnStep
<1>2. CoreInv /\ OrderInv /\ SureInv /\ [Next]_vars
        => [\A t \in Threads :
              /\ pc[t] \in {"wait", "find"} /\ pc'[t] = "idle"
              /\ NobodyIn({"add", "remove"})
              => sure[t] = {}]_vars
  BY <1>1
<1>3. CoreInv /\ SureInv /\ [Next]_vars => SureInv'
  BY SureStep
<1>4. Spec => []SureInv
  BY <1>3, SureInit, CoreInvariance, PTL DEF Spec
<1>. QED
  BY <1>2, <1>4, CoreInvariance, OrderInvariance, PTL DEF Spec, StandingKeyIsFound

=============================================================================
