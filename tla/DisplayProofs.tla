--------------------------- MODULE DisplayProofs ----------------------------
(*****************************************************************************)
(* The three backends of the compositor client, as parts of Libraries: the   *)
(* references their users hold balance, their registries hold what is alive, *)
(* and what they send and answer is right.                                   *)
(*****************************************************************************)
EXTENDS Libraries, TLAPS, Sequences, FiniteSetTheorems

-----------------------------------------------------------------------------
\* A finite set that gains or loses an element.
LEMMA OneMore ==
  ASSUME NEW S, IsFiniteSet(S), NEW x, x \notin S
  PROVE  IsFiniteSet(S \cup {x}) /\ Cardinality(S \cup {x}) = Cardinality(S) + 1
BY FS_AddElement

LEMMA OneLess ==
  ASSUME NEW S, IsFiniteSet(S), NEW x, x \in S
  PROVE  IsFiniteSet(S \ {x}) /\ Cardinality(S \ {x}) = Cardinality(S) - 1
BY FS_RemoveElement

-----------------------------------------------------------------------------
(* The displays of the Mesa backend *)
MesaCalls == [at : {"idle"}, on : {Mesa!None}]
               \cup [at : {"erase", "close", "closing"}, on : Mesa!Displays]
               \cup [at : {"unregister", "dispose"}, on : Mesa!Surfaces]

MesaTypes ==
  /\ m_named \in [DisplayNames -> Mesa!Displays \cup {Mesa!None}]
  /\ m_stage
       \in [Mesa!Displays
              -> {"none", "refused", "open", "half", "closing", "gone"}]
  /\ m_nameOf \in [Mesa!Displays -> DisplayNames \cup {Mesa!Nobody}]
  /\ m_refs \in [Mesa!Displays -> Nat]
  /\ m_users \in [Mesa!Displays -> SUBSET Clients]
  /\ m_owner \in [Mesa!Surfaces -> Mesa!Displays \cup {Mesa!None}]
  /\ m_holders \in [Mesa!Surfaces -> SUBSET Clients]
  /\ m_listed \subseteq Mesa!Surfaces
  /\ m_pc \in [Clients -> MesaCalls]

\* Client c is destroying surface s, or about to delete display d; the map finds
\* d.
MesaGoing(c, s) == m_pc[c].at \in {"unregister", "dispose"} /\ m_pc[c].on = s
MesaDying(c, d) == m_pc[c].at \in {"erase", "close", "closing"}
  /\ m_pc[c].on = d
MesaFound(d) == m_nameOf[d] \in DisplayNames /\ m_named[m_nameOf[d]] = d

\* The surfaces of a display that are built, and those that have a device.
MesaOf(d) == {s \in Mesa!Surfaces : m_owner[s] = d /\ Mesa!Built(s)}
MesaWith(k) == {s \in Mesa!Surfaces : k \in m_devices[s]}

MesaCounted ==
  \A d \in Mesa!Displays :
    /\ IsFiniteSet(m_users[d]) /\ IsFiniteSet(MesaOf(d))
    /\ m_refs[d] = Cardinality(m_users[d]) + Cardinality(MesaOf(d))

\* A display that is referenced is alive and found by its name; one client at
\* most deletes a display that no one references any more, which stays in the
\* map until it takes it out.
MesaMapped ==
  /\ \A d \in Mesa!Displays : m_refs[d] > 0 => Mesa!Alive(d) /\ MesaFound(d)
  /\ \A n \in DisplayNames :
       m_named[n] # Mesa!None
         => Mesa!Alive(m_named[n]) /\ m_nameOf[m_named[n]] = n
  /\ \A c \in Clients, d \in Mesa!Displays :
       MesaDying(c, d) => /\ m_refs[d] = 0
                          /\ IF m_pc[c].at = "erase"
                               THEN Mesa!Alive(d) /\ MesaFound(d)
                               ELSE m_stage[d] = "closing"
  /\ \A c, e \in Clients, d \in Mesa!Displays :
       MesaDying(c, d) /\ MesaDying(e, d) => c = e

\* One client at most destroys a surface, which no one holds any more; what is
\* listed is built.
MesaLiving ==
  /\ \A s \in Mesa!Surfaces : m_owner[s] = Mesa!None => m_holders[s] = {}
  /\ \A c \in Clients, s \in Mesa!Surfaces :
       MesaGoing(c, s) => /\ m_owner[s] # Mesa!None /\ m_holders[s] = {}
                          /\ m_pc[c].at = "dispose" => s \notin m_listed
  /\ \A c, e \in Clients, s \in Mesa!Surfaces :
       MesaGoing(c, s) /\ MesaGoing(e, s) => c = e
  /\ \A s \in m_listed : Mesa!Built(s)

MesaSound == MesaTypes /\ MesaCounted /\ MesaMapped /\ MesaLiving

\* A device has a reference of each surface it was given to.
MesaGiven ==
  /\ m_devices \in [Mesa!Surfaces -> SUBSET Devices]
  /\ m_taken \in [Devices -> Nat]
  /\ \A k \in Devices : /\ IsFiniteSet(MesaWith(k))
                        /\ m_taken[k] = Cardinality(MesaWith(k))

\* The input thread has the lock of one display only of those it has yet to
\* visit, which live as long as it has the map's, and calls the surfaces of
\* that one only.
MesaWalks ==
  /\ m_mapLock \in Clients \cup {"input", Mesa!Nobody}
  /\ m_adminLock \in [Mesa!Displays -> Clients \cup {"input", Mesa!Nobody}]
  /\ m_input \in [visit : SUBSET Mesa!Displays, call : SUBSET Mesa!Surfaces]
  /\ \A d \in Mesa!Displays :
       m_adminLock[d] = "input" => m_mapLock = "input" /\ d \in m_input.visit
  /\ \A d \in m_input.visit : m_mapLock = "input" => Mesa!Alive(d)
  /\ \A s \in m_input.call :
       s \in m_listed /\ m_owner[s] \in Mesa!Displays
         /\ m_adminLock[m_owner[s]] = "input"

MesaInv == MesaSound /\ MesaGiven /\ MesaWalks

LEMMA MesaNone ==
  ASSUME Mesa!MesaAssumption
  PROVE  Mesa!None \notin Mesa!Displays /\ Mesa!None \notin Mesa!Surfaces
BY DEF Mesa!MesaAssumption, Mesa!None, Mesa!Displays, Mesa!Surfaces

LEMMA MesaBuilt ==
  ASSUME NEW s
  PROVE  Mesa!Built(s) <=> /\ m_owner[s] # Mesa!None
                           /\ \/ m_holders[s] # {}
                              \/ \E c \in Clients : MesaGoing(c, s)
BY DEF Mesa!Built, MesaGoing

\* What a client uses, or a surface, is referenced.
LEMMA MesaReferenced ==
  ASSUME Mesa!MesaAssumption, MesaSound
  PROVE  /\ \A d \in Mesa!Displays : m_users[d] # {} => m_refs[d] > 0
         /\ \A s \in Mesa!Surfaces :
              Mesa!Built(s)
                => m_owner[s] \in Mesa!Displays /\ m_refs[m_owner[s]] > 0
<1>1. \A d \in Mesa!Displays : /\ Cardinality(m_users[d]) \in Nat
                               /\ Cardinality(MesaOf(d)) \in Nat
  BY FS_CardinalityType DEF MesaSound, MesaCounted
<1>2. \A d \in Mesa!Displays : /\ m_users[d] # {} => Cardinality(m_users[d]) # 0
                               /\ MesaOf(d) # {} => Cardinality(MesaOf(d)) # 0
  BY FS_EmptySet DEF MesaSound, MesaCounted
<1>3. \A s \in Mesa!Surfaces : Mesa!Built(s) => m_owner[s] \in Mesa!Displays
  BY DEF MesaSound, MesaTypes, Mesa!Built
<1>4. \A s \in Mesa!Surfaces : Mesa!Built(s) => s \in MesaOf(m_owner[s])
  BY DEF MesaOf
<1>5. \A s \in Mesa!Surfaces : Mesa!Built(s) => m_refs[m_owner[s]] > 0
  BY <1>1, <1>2, <1>3, <1>4 DEF MesaSound, MesaCounted
<1>. QED
  BY <1>1, <1>2, <1>3, <1>5 DEF MesaSound, MesaCounted

LEMMA MesaInit == ASSUME Mesa!MesaAssumption, Mesa!Init PROVE MesaInv
<1>1. Mesa!Idle = [at |-> "idle", on |-> Mesa!None] /\ Mesa!Idle \in MesaCalls
  BY DEF Mesa!Idle, MesaCalls
<1>2. m_pc \in [Clients -> MesaCalls] /\ \A c \in Clients : m_pc[c].at = "idle"
  BY <1>1 DEF Mesa!Init
<1>3. MesaTypes
  BY <1>2 DEF Mesa!Init, MesaTypes
<1>4. /\ \A c \in Clients : (\A d : ~MesaDying(c, d))
           /\ (\A s : ~MesaGoing(c, s))
      /\ \A s \in Mesa!Surfaces : ~Mesa!Built(s)
      /\ \A d \in Mesa!Displays : ~(m_refs[d] > 0)
  BY <1>2 DEF MesaDying, MesaGoing, Mesa!Init, Mesa!Built
<1>5. MesaCounted
  <2>1. \A d \in Mesa!Displays : /\ MesaOf(d) = {} /\ m_users[d] = {}
                                 /\ m_refs[d] = 0
    BY <1>4 DEF MesaOf, Mesa!Init
  <2>. QED
    BY <2>1, FS_EmptySet DEF MesaCounted
<1>6. MesaMapped /\ MesaLiving
  BY <1>4 DEF Mesa!Init, MesaMapped, MesaLiving
<1>7. MesaGiven
  <2>1. \A k \in Devices : MesaWith(k) = {} /\ m_taken[k] = 0
    BY DEF MesaWith, Mesa!Init
  <2>. QED
    BY <2>1, FS_EmptySet DEF MesaGiven, Mesa!Init
<1>8. MesaWalks
  BY DEF Mesa!Init, MesaWalks, Mesa!Nobody
<1>. QED
  BY <1>3, <1>5, <1>6, <1>7, <1>8 DEF MesaInv, MesaSound

-----------------------------------------------------------------------------
\* What a step leaves alone stays as it was.
LEMMA MesaSame ==
  ASSUME MesaSound,
         UNCHANGED <<m_named, m_stage, m_nameOf, m_refs, m_users, m_owner,
           m_holders,
                     m_listed, m_pc>>
  PROVE  MesaSound'
<1>1. \A c, s : MesaGoing(c, s)' <=> MesaGoing(c, s)
  BY DEF MesaGoing
<1>2. \A c, d : MesaDying(c, d)' <=> MesaDying(c, d)
  BY DEF MesaDying
<1>3. \A s : Mesa!Built(s)' <=> Mesa!Built(s)
  BY DEF Mesa!Built
<1>4. \A d : /\ MesaOf(d)' = MesaOf(d)
             /\ Mesa!Alive(d)' <=> Mesa!Alive(d)
             /\ MesaFound(d)' <=> MesaFound(d)
  BY <1>3 DEF MesaOf, Mesa!Alive, MesaFound
<1>5. MesaTypes'
  BY DEF MesaSound, MesaTypes
<1>6. MesaCounted'
  BY <1>4 DEF MesaSound, MesaCounted
<1>7. MesaMapped'
  BY <1>2, <1>4 DEF MesaSound, MesaMapped, Mesa!Alive
<1>8. MesaLiving'
  BY <1>1, <1>3 DEF MesaSound, MesaLiving
<1>. QED
  BY <1>5, <1>6, <1>7, <1>8 DEF MesaSound

LEMMA MesaGivenSame ==
  ASSUME MesaGiven, UNCHANGED <<m_devices, m_taken>>
  PROVE  MesaGiven'
BY DEF MesaGiven, MesaWith

LEMMA MesaWalksSame ==
  ASSUME MesaWalks, UNCHANGED <<m_mapLock, m_adminLock, m_input>>,
         m_mapLock = "input" => m_stage' = m_stage,
         \A s \in m_input.call : s \in m_listed' /\ m_owner'[s] = m_owner[s]
  PROVE  MesaWalks'
BY DEF MesaWalks, Mesa!Alive

\* A reference that is given back: the last one makes its client the one to
\* delete the display.
LEMMA MesaDropped ==
  ASSUME Mesa!MesaAssumption, MesaTypes, MesaMapped,
         NEW c \in Clients, NEW d \in Mesa!Displays, Mesa!Drop(c, d),
         m_refs[d] > 0,
         m_pc[c].at \notin {"erase", "close", "closing"},
         UNCHANGED <<m_named, m_stage, m_nameOf>>
  PROVE  /\ MesaMapped'
         /\ m_refs' \in [Mesa!Displays -> Nat]
         /\ m_pc' \in [Clients -> MesaCalls]
         /\ m_refs'[d] = m_refs[d] - 1
         /\ \A e \in Mesa!Displays \ {d} : m_refs'[e] = m_refs[e]
         /\ \A s \in Mesa!Surfaces : ~MesaGoing(c, s)'
         /\ \A e \in Clients \ {c}, s \in Mesa!Surfaces : MesaGoing(e, s)'
              <=> MesaGoing(e, s)
         /\ \A e \in Clients \ {c} : m_pc'[e] = m_pc[e]
<1>1. /\ m_refs \in [Mesa!Displays -> Nat] /\ m_pc \in [Clients -> MesaCalls]
      /\ m_refs' = [m_refs EXCEPT ![d] = m_refs[d] - 1]
      /\ Mesa!Idle = [at |-> "idle", on |-> Mesa!None]
  BY DEF MesaTypes, Mesa!Drop, Mesa!Idle
<1>2. m_refs[d] \in Nat /\ m_refs[d] - 1 \in Nat
  BY <1>1
<1>3. /\ m_refs' \in [Mesa!Displays -> Nat] /\ m_refs'[d] = m_refs[d] - 1
      /\ \A e \in Mesa!Displays \ {d} : m_refs'[e] = m_refs[e]
  BY <1>1, <1>2
<1>4. PICK call \in MesaCalls :
        /\ call = IF m_refs[d] = 1 THEN [at |-> "erase", on |-> d]
                  ELSE [at |-> "idle", on |-> Mesa!None]
        /\ m_pc' = [m_pc EXCEPT ![c] = call]
  BY <1>1 DEF Mesa!Drop, MesaCalls
<1>5. /\ m_pc' \in [Clients -> MesaCalls] /\ m_pc'[c] = call
      /\ \A e \in Clients \ {c} : m_pc'[e] = m_pc[e]
  BY <1>1, <1>4
<1>6. /\ call.at \in {"erase", "idle"} /\ (call.at = "erase" <=> m_refs[d] = 1)
      /\ call.at = "erase" => call.on = d
  BY <1>4
<1>7. /\ \A s \in Mesa!Surfaces : ~MesaGoing(c, s)'
      /\ \A e \in Clients \ {c}, s \in Mesa!Surfaces : MesaGoing(e, s)'
           <=> MesaGoing(e, s)
  BY <1>5, <1>6 DEF MesaGoing
<1>8. /\ \A f \in Mesa!Displays : MesaDying(c, f)'
           => f = d /\ m_refs[d] = 1 /\ m_pc'[c].at = "erase"
      /\ \A e \in Clients \ {c}, f \in Mesa!Displays : MesaDying(e, f)'
           <=> MesaDying(e, f)
  BY <1>5, <1>6 DEF MesaDying
<1>9. /\ \A e : (Mesa!Alive(e)' <=> Mesa!Alive(e))
           /\ (MesaFound(e)' <=> MesaFound(e))
      /\ Mesa!Alive(d) /\ MesaFound(d)
  BY DEF Mesa!Alive, MesaFound, MesaMapped
<1>10. \A e \in Clients : ~MesaDying(e, d)
  BY DEF MesaMapped
<1>11. \A f \in Mesa!Displays : m_refs'[f] > 0
         => Mesa!Alive(f)' /\ MesaFound(f)'
  BY <1>3, <1>9 DEF MesaMapped
<1>12. \A n \in DisplayNames :
         m_named'[n] # Mesa!None
           => /\ m_stage'[m_named'[n]] \in {"refused", "open", "half"}
              /\ m_nameOf'[m_named'[n]] = n
  BY DEF MesaMapped, Mesa!Alive
<1>13. \A e \in Clients, f \in Mesa!Displays :
         MesaDying(e, f)' => /\ m_refs'[f] = 0
                             /\ IF m_pc'[e].at = "erase"
                                  THEN Mesa!Alive(f)' /\ MesaFound(f)'
                                  ELSE m_stage'[f] = "closing"
  <2>1. SUFFICES ASSUME NEW e \in Clients, NEW f \in Mesa!Displays,
                          MesaDying(e, f)'
                 PROVE  /\ m_refs'[f] = 0
                        /\ IF m_pc'[e].at = "erase"
                             THEN Mesa!Alive(f)' /\ MesaFound(f)'
                             ELSE m_stage'[f] = "closing"
    OBVIOUS
  <2>2. CASE e = c
    BY <1>3, <1>8, <1>9, <2>1, <2>2
  <2>3. CASE e # c
    BY <1>3, <1>5, <1>8, <1>9, <1>10, <2>1, <2>3 DEF MesaMapped
  <2>. QED
    BY <2>2, <2>3
<1>14. \A e, f \in Clients, g \in Mesa!Displays : MesaDying(e, g)'
         /\ MesaDying(f, g)' => e = f
  BY <1>8, <1>10 DEF MesaMapped
<1>15. MesaMapped'
  BY <1>11, <1>12, <1>13, <1>14 DEF MesaMapped, Mesa!Alive
<1>. QED
  BY <1>3, <1>5, <1>7, <1>15

LEMMA MesaInstance ==
  ASSUME Mesa!MesaAssumption, MesaInv, NEW c \in Clients,
         NEW n \in DisplayNames,
         Mesa!Instance(c, n)
  PROVE  MesaInv'
<1>1. PICK d \in Mesa!Displays :
        /\ \/ /\ m_named[n] = d /\ ~Mesa!Dying(d) /\ c \notin m_users[d]
              /\ UNCHANGED <<m_named, m_stage, m_nameOf, m_adminLock>>
           \/ /\ m_named[n] = Mesa!None /\ m_stage[d] = "none"
              /\ m_named' = [m_named EXCEPT ![n] = d]
              /\ m_nameOf' = [m_nameOf EXCEPT ![d] = n]
              /\ Mesa!Initialize(c, d)
        /\ m_refs' = [m_refs EXCEPT ![d] = @ + 1]
        /\ m_users' = [m_users EXCEPT ![d] = @ \cup {c}]
  BY DEF Mesa!Instance, Mesa!AddRef, Mesa!displayVars
<1>2. /\ m_mapLock = Mesa!Nobody
      /\ UNCHANGED <<m_owner, m_listed, m_holders, m_devices, m_taken,
           m_mapLock, m_pc,
                     m_input>>
  BY DEF Mesa!Instance, Mesa!surfaceVars
<1>3. /\ m_refs \in [Mesa!Displays -> Nat]
      /\ m_users \in [Mesa!Displays -> SUBSET Clients]
      /\ MesaTypes /\ MesaMapped /\ d # Mesa!None
  BY MesaNone DEF MesaInv, MesaSound, MesaTypes
<1>4. /\ c \notin m_users[d]
      /\ \A e \in Clients : ~MesaDying(e, d)
      /\ m_named' \in [DisplayNames -> Mesa!Displays \cup {Mesa!None}]
      /\ m_stage'
           \in [Mesa!Displays -> {"none", "refused", "open", "half", "closing",
             "gone"}]
      /\ m_nameOf' \in [Mesa!Displays -> DisplayNames \cup {Mesa!Nobody}]
      /\ m_named'[n] = d /\ m_nameOf'[d] = n /\ Mesa!Alive(d)'
      /\ \A k \in DisplayNames \ {n} : /\ m_named'[k] = m_named[k]
                                       /\ m_named[k] # d
      /\ \A e \in Mesa!Displays \ {d} : /\ m_stage'[e] = m_stage[e]
           /\ m_nameOf'[e] = m_nameOf[e]
           /\ m_named[n] # e
  <2>1. CASE /\ m_named[n] = d /\ ~Mesa!Dying(d) /\ c \notin m_users[d]
             /\ UNCHANGED <<m_named, m_stage, m_nameOf, m_adminLock>>
    <3>1. \A e \in Clients : ~MesaDying(e, d)
      BY <2>1 DEF MesaDying, Mesa!Dying
    <3>2. /\ Mesa!Alive(d) /\ m_nameOf[d] = n
          /\ \A k \in DisplayNames \ {n} : m_named[k] # d
      BY <1>3, <2>1 DEF MesaMapped
    <3>3. Mesa!Alive(d)'
      BY <2>1, <3>2 DEF Mesa!Alive
    <3>. QED
      BY <1>3, <2>1, <3>1, <3>2, <3>3 DEF MesaTypes
  <2>2. CASE /\ m_named[n] = Mesa!None /\ m_stage[d] = "none"
             /\ m_named' = [m_named EXCEPT ![n] = d]
             /\ m_nameOf' = [m_nameOf EXCEPT ![d] = n]
             /\ Mesa!Initialize(c, d)
    <3>1. PICK new \in {"refused", "open", "half"} :
            m_stage' = [m_stage EXCEPT ![d] = new]
      BY <2>2 DEF Mesa!Initialize
    <3>2. ~Mesa!Alive(d) /\ m_stage[d] # "closing"
      BY <2>2 DEF Mesa!Alive
    <3>3. ~(m_refs[d] > 0) /\ (\A e \in Clients : ~MesaDying(e, d))
          /\ (\A k \in DisplayNames : m_named[k] # d)
      BY <1>3, <3>2 DEF MesaMapped
    <3>4. c \notin m_users[d]
      BY <3>3, MesaReferenced DEF MesaInv
    <3>5. Mesa!Alive(d)'
      BY <1>3, <3>1 DEF Mesa!Alive, MesaTypes
    <3>6. \A e \in Mesa!Displays : m_named[n] # e
      BY <2>2, MesaNone
    <3>. QED
      BY <1>3, <2>2, <3>1, <3>3, <3>4, <3>5, <3>6 DEF MesaTypes
  <2>. QED
    BY <1>1, <2>1, <2>2
<1>5. /\ m_refs' \in [Mesa!Displays -> Nat]
      /\ m_users' \in [Mesa!Displays -> SUBSET Clients]
      /\ m_refs'[d] = m_refs[d] + 1 /\ m_users'[d] = m_users[d] \cup {c}
      /\ \A e \in Mesa!Displays \ {d} : /\ m_refs'[e] = m_refs[e]
                                        /\ m_users'[e] = m_users[e]
  <2>1. m_refs[d] + 1 \in Nat /\ m_users[d] \cup {c} \in SUBSET Clients
    BY <1>3
  <2>. QED
    BY <1>1, <1>3, <2>1
<1>6. /\ \A e, t : MesaGoing(e, t)' <=> MesaGoing(e, t)
      /\ \A e, f : MesaDying(e, f)' <=> MesaDying(e, f)
      /\ \A t : Mesa!Built(t)' <=> Mesa!Built(t)
  BY <1>2 DEF MesaGoing, MesaDying, Mesa!Built
<1>7. \A e : MesaOf(e)' = MesaOf(e)
  BY <1>2, <1>6 DEF MesaOf
<1>8. MesaTypes'
  BY <1>2, <1>4, <1>5 DEF MesaInv, MesaSound, MesaTypes
<1>9. MesaCounted'
  <2>1. IsFiniteSet(m_users[d]) /\ IsFiniteSet(MesaOf(d))
    BY DEF MesaInv, MesaSound, MesaCounted
  <2>2. /\ IsFiniteSet(m_users'[d])
        /\ Cardinality(m_users'[d]) = Cardinality(m_users[d]) + 1
    BY <1>4, <1>5, <2>1, OneMore
  <2>3. Cardinality(m_users[d]) \in Nat /\ Cardinality(MesaOf(d)) \in Nat
    BY <2>1, FS_CardinalityType
  <2>4. m_refs'[d] = Cardinality(m_users'[d]) + Cardinality(MesaOf(d)')
    BY <1>5, <1>7, <2>2, <2>3 DEF MesaInv, MesaSound, MesaCounted
  <2>. QED
    BY <1>5, <1>7, <2>2, <2>4 DEF MesaInv, MesaSound, MesaCounted
<1>10. MesaMapped'
  <2>1. \A e \in Mesa!Displays \ {d} : /\ Mesa!Alive(e)' <=> Mesa!Alive(e)
                                       /\ MesaFound(e) => MesaFound(e)'
    BY <1>4 DEF Mesa!Alive, MesaFound
  <2>2. MesaFound(d)'
    BY <1>4 DEF MesaFound
  <2>3. \A e \in Mesa!Displays : m_refs'[e] > 0
          => Mesa!Alive(e)' /\ MesaFound(e)'
    BY <1>3, <1>4, <1>5, <2>1, <2>2 DEF MesaMapped
  <2>4. \A k \in DisplayNames :
          m_named'[k] # Mesa!None
            => /\ m_stage'[m_named'[k]] \in {"refused", "open", "half"}
               /\ m_nameOf'[m_named'[k]] = k
    <3>1. SUFFICES ASSUME NEW k \in DisplayNames, m_named'[k] # Mesa!None
                   PROVE  /\ m_stage'[m_named'[k]]
                               \in {"refused", "open", "half"}
                          /\ m_nameOf'[m_named'[k]] = k
      OBVIOUS
    <3>2. CASE k = n
      BY <1>4, <3>2 DEF Mesa!Alive
    <3>3. CASE k # n
      <4>1. PICK e \in Mesa!Displays : e = m_named[k] /\ m_named'[k] = e
              /\ e # d
        BY <1>3, <1>4, <3>1, <3>3 DEF MesaTypes
      <4>2. m_stage[e] \in {"refused", "open", "half"} /\ m_nameOf[e] = k
        BY <1>3, <4>1, MesaNone DEF MesaMapped, Mesa!Alive
      <4>. QED
        BY <1>4, <4>1, <4>2
    <3>. QED
      BY <3>2, <3>3
  <2>5. \A e \in Clients, f \in Mesa!Displays :
          MesaDying(e, f) => /\ m_refs'[f] = 0
                             /\ IF m_pc'[e].at = "erase"
                                  THEN Mesa!Alive(f)' /\ MesaFound(f)'
                                  ELSE m_stage'[f] = "closing"
    BY <1>2, <1>3, <1>4, <1>5, <2>1 DEF MesaMapped
  <2>. QED
    BY <1>3, <1>6, <2>3, <2>4, <2>5 DEF MesaMapped, Mesa!Alive
<1>11. MesaLiving'
  BY <1>2, <1>6 DEF MesaInv, MesaSound, MesaLiving
<1>12. MesaGiven'
  BY <1>2, MesaGivenSame DEF MesaInv
<1>13. MesaWalks'
  <2>1. m_mapLock # "input" /\ m_input' = m_input /\ m_mapLock' = m_mapLock
    BY <1>2 DEF Mesa!Nobody
  <2>2. m_input.call = {}
    BY <2>1 DEF MesaInv, MesaWalks
  <2>3. m_adminLock' \in [Mesa!Displays -> Clients \cup {"input", Mesa!Nobody}]
    BY <1>1 DEF Mesa!Initialize, MesaInv, MesaWalks
  <2>4. \A e \in Mesa!Displays : m_adminLock'[e] # "input"
    <3>1. \A e \in Mesa!Displays : m_adminLock[e] # "input"
      BY <2>1 DEF MesaInv, MesaWalks
    <3>2. c # "input"
      BY DEF Mesa!MesaAssumption
    <3>3. m_adminLock \in [Mesa!Displays -> Clients \cup {"input", Mesa!Nobody}]
      BY DEF MesaInv, MesaWalks
    <3>4. \/ m_adminLock' = m_adminLock
          \/ m_adminLock' = [m_adminLock EXCEPT ![d] = c]
      BY <1>1 DEF Mesa!Initialize
    <3>. QED
      BY <3>1, <3>2, <3>3, <3>4
  <2>. QED
    BY <1>2, <2>1, <2>2, <2>3, <2>4 DEF MesaInv, MesaWalks
<1>. QED
  BY <1>8, <1>9, <1>10, <1>11, <1>12, <1>13 DEF MesaInv, MesaSound

LEMMA MesaRelease ==
  ASSUME Mesa!MesaAssumption, MesaInv, NEW c \in Clients,
         NEW d \in Mesa!Displays,
         Mesa!Release(c, d)
  PROVE  MesaInv'
<1>1. /\ m_pc[c].at = "idle" /\ c \in m_users[d] /\ Mesa!Drop(c, d)
      /\ m_users' = [m_users EXCEPT ![d] = @ \ {c}]
      /\ UNCHANGED <<m_named, m_stage, m_nameOf, m_owner, m_listed, m_holders,
           m_devices,
                     m_taken, m_mapLock, m_adminLock, m_input>>
  BY DEF Mesa!Release, Mesa!surfaceVars, Mesa!displayVars, Mesa!Idle
<1>. MesaSound
  BY DEF MesaInv
<1>2. m_refs[d] > 0
  BY <1>1, MesaReferenced
<1>3. /\ MesaMapped'
      /\ m_refs' \in [Mesa!Displays -> Nat] /\ m_pc' \in [Clients -> MesaCalls]
      /\ m_refs'[d] = m_refs[d] - 1
      /\ \A e \in Mesa!Displays \ {d} : m_refs'[e] = m_refs[e]
      /\ \A s \in Mesa!Surfaces : ~MesaGoing(c, s)'
      /\ \A e \in Clients \ {c}, s \in Mesa!Surfaces : MesaGoing(e, s)'
           <=> MesaGoing(e, s)
      /\ \A e \in Clients \ {c} : m_pc'[e] = m_pc[e]
  BY <1>1, <1>2, MesaDropped DEF MesaSound
<1>4. \A e \in Clients, s \in Mesa!Surfaces :
        /\ MesaGoing(e, s)' <=> MesaGoing(e, s)
        /\ MesaGoing(e, s) => m_pc'[e] = m_pc[e]
  BY <1>1, <1>3 DEF MesaGoing
<1>5. \A s \in Mesa!Surfaces : Mesa!Built(s)' <=> Mesa!Built(s)
  BY <1>1, <1>4 DEF Mesa!Built, MesaGoing
<1>6. \A e : MesaOf(e)' = MesaOf(e)
  BY <1>1, <1>5 DEF MesaOf
<1>7. /\ m_users' \in [Mesa!Displays -> SUBSET Clients]
      /\ m_users'[d] = m_users[d] \ {c}
      /\ \A e \in Mesa!Displays \ {d} : m_users'[e] = m_users[e]
  BY <1>1 DEF MesaSound, MesaTypes
<1>8. MesaTypes'
  BY <1>1, <1>3, <1>7 DEF MesaSound, MesaTypes
<1>9. MesaCounted'
  <2>1. IsFiniteSet(m_users[d]) /\ IsFiniteSet(MesaOf(d))
    BY DEF MesaSound, MesaCounted
  <2>2. /\ IsFiniteSet(m_users'[d])
        /\ Cardinality(m_users'[d]) = Cardinality(m_users[d]) - 1
    BY <1>1, <1>7, <2>1, OneLess
  <2>3. Cardinality(m_users[d]) \in Nat /\ Cardinality(MesaOf(d)) \in Nat
    BY <2>1, FS_CardinalityType
  <2>4. m_refs'[d] = Cardinality(m_users'[d]) + Cardinality(MesaOf(d)')
    BY <1>3, <1>6, <2>2, <2>3 DEF MesaSound, MesaCounted
  <2>. QED
    BY <1>3, <1>6, <1>7, <2>2, <2>4 DEF MesaSound, MesaCounted
<1>10. MesaLiving'
  <2>1. \A t \in m_listed' : Mesa!Built(t)'
    BY <1>1, <1>5 DEF MesaSound, MesaLiving, MesaTypes
  <2>. QED
    BY <1>1, <1>4, <2>1 DEF MesaSound, MesaLiving
<1>11. MesaGiven' /\ MesaWalks'
  <2>1. \A s \in m_input.call : s \in m_listed
    BY DEF MesaInv, MesaWalks
  <2>. QED
    BY <1>1, <2>1, MesaGivenSame, MesaWalksSame DEF MesaInv
<1>. QED
  BY <1>3, <1>8, <1>9, <1>10, <1>11 DEF MesaInv, MesaSound

\* The three steps in which the last client deletes the display.
LEMMA MesaDeletes ==
  ASSUME Mesa!MesaAssumption, MesaInv, NEW c \in Clients,
         NEW d \in Mesa!Displays,
         Mesa!Erase(c, d) \/ Mesa!Close(c, d) \/ Mesa!Deinitialize(c, d)
  PROVE  MesaInv'
<1>. MesaSound /\ MesaTypes /\ MesaMapped /\ MesaLiving /\ MesaWalks
  BY DEF MesaInv, MesaSound
<1>1. PICK call \in MesaCalls : /\ m_pc' = [m_pc EXCEPT ![c] = call]
        /\ \/ /\ Mesa!Erase(c, d) /\ call.at = "close" /\ call.on = d
           \/ /\ Mesa!Close(c, d) /\ call.at = "closing" /\ call.on = d
           \/ /\ Mesa!Deinitialize(c, d) /\ call.at = "idle"
  <2>1. CASE Mesa!Erase(c, d)
    <3>1. [at |-> "close", on |-> d] \in MesaCalls
      BY DEF MesaCalls
    <3>2. m_pc' = [m_pc EXCEPT ![c] = [m_pc[c] EXCEPT !.at = "close"]]
      BY <2>1 DEF Mesa!Erase
    <3>3. [m_pc[c] EXCEPT !.at = "close"] = [at |-> "close", on |-> d]
      BY <2>1 DEF Mesa!Erase
    <3>. QED
      BY <2>1, <3>1, <3>2, <3>3
  <2>2. CASE Mesa!Close(c, d)
    <3>1. [at |-> "closing", on |-> d] \in MesaCalls
      BY DEF MesaCalls
    <3>2. m_pc' = [m_pc EXCEPT ![c] = [m_pc[c] EXCEPT !.at = "closing"]]
      BY <2>2 DEF Mesa!Close
    <3>3. [m_pc[c] EXCEPT !.at = "closing"] = [at |-> "closing", on |-> d]
      BY <2>2 DEF Mesa!Close
    <3>. QED
      BY <2>2, <3>1, <3>2, <3>3
  <2>3. CASE Mesa!Deinitialize(c, d)
    <3>1. Mesa!Idle \in MesaCalls /\ Mesa!Idle.at = "idle"
      BY DEF MesaCalls, Mesa!Idle
    <3>. QED
      BY <2>3, <3>1 DEF Mesa!Deinitialize
  <2>. QED
    BY <2>1, <2>2, <2>3
<1>2. UNCHANGED <<m_nameOf, m_refs, m_users, m_owner, m_holders, m_devices,
        m_taken,
                  m_mapLock, m_input>>
  BY DEF Mesa!Erase, Mesa!Close, Mesa!Deinitialize, Mesa!displayVars,
         Mesa!surfaceVars
<1>3. /\ m_pc' \in [Clients -> MesaCalls] /\ m_pc'[c] = call
      /\ \A e \in Clients \ {c} : m_pc'[e] = m_pc[e]
      /\ MesaDying(c, d)
      /\ \A s : ~MesaGoing(c, s) /\ ~MesaGoing(c, s)'
  <2>1. m_pc[c].on = d /\ m_pc[c].at \in {"erase", "close", "closing"}
    BY DEF Mesa!Erase, Mesa!Close, Mesa!Deinitialize
  <2>. QED
    BY <1>1, <2>1 DEF MesaTypes, MesaDying, MesaGoing
<1>4. \A e \in Clients : \A s :
        /\ MesaGoing(e, s)' <=> MesaGoing(e, s)
        /\ MesaGoing(e, s) => m_pc'[e] = m_pc[e]
  BY <1>3 DEF MesaGoing
<1>5. /\ \A f \in Mesa!Displays : MesaDying(c, f)' => f = d
      /\ \A e \in Clients \ {c}, f \in Mesa!Displays : MesaDying(e, f)'
           <=> MesaDying(e, f)
      /\ \A e \in Clients \ {c} : ~MesaDying(e, d)
      /\ m_refs[d] = 0
  BY <1>1, <1>3 DEF MesaDying, MesaMapped
<1>6. /\ \A s \in Mesa!Surfaces : Mesa!Built(s)' <=> Mesa!Built(s)
      /\ \A e : MesaOf(e)' = MesaOf(e)
  <2>1. \A s \in Mesa!Surfaces : Mesa!Built(s)' <=> Mesa!Built(s)
    BY <1>2, <1>4 DEF Mesa!Built, MesaGoing
  <2>. QED
    BY <1>2, <2>1 DEF MesaOf
<1>7. MesaCounted'
  BY <1>2, <1>6 DEF MesaSound, MesaCounted
<1>8. /\ m_named' \in [DisplayNames -> Mesa!Displays \cup {Mesa!None}]
      /\ m_stage'
           \in [Mesa!Displays -> {"none", "refused", "open", "half", "closing",
             "gone"}]
      /\ m_listed' \subseteq m_listed
      /\ \A e \in Mesa!Displays \ {d} : /\ m_stage'[e] = m_stage[e]
                                        /\ MesaFound(e) => MesaFound(e)'
      /\ \A n \in DisplayNames :
           m_named'[n] # Mesa!None
             => m_named'[n] = m_named[n]
               /\ (m_named[n] # d \/ m_stage' = m_stage)
      /\ MesaDying(c, d)' => m_pc'[c].at # "erase" /\ m_stage'[d] = "closing"
  <2>1. CASE Mesa!Erase(c, d)
    <3>1. m_pc[c].at = "erase" /\ Mesa!Alive(d) /\ MesaFound(d)
      BY <1>3, <2>1 DEF Mesa!Erase, MesaMapped
    <3>2. PICK n \in DisplayNames : n = m_nameOf[d] /\ m_named[n] = d
      BY <3>1 DEF MesaFound
    <3>3. /\ m_named' = [m_named EXCEPT ![n] = Mesa!None]
          /\ m_stage' = [m_stage EXCEPT ![d] = "closing"]
          /\ m_listed' = m_listed
      BY <2>1, <3>2 DEF Mesa!Erase, Mesa!surfaceVars
    <3>4. \A k \in DisplayNames \ {n} : /\ m_named'[k] = m_named[k]
                                        /\ m_named[k] # d
      <4>1. \A k \in DisplayNames \ {n} : m_named[k] # d
        BY <3>2, MesaNone DEF MesaMapped
      <4>. QED
        BY <3>3, <4>1 DEF MesaTypes
    <3>5. m_named'[n] = Mesa!None
      BY <3>3 DEF MesaTypes
    <3>6. \A e \in Mesa!Displays \ {d} : MesaFound(e) => MesaFound(e)'
      BY <1>2, <3>2, <3>4 DEF MesaFound
    <3>7. m_named' \in [DisplayNames -> Mesa!Displays \cup {Mesa!None}]
      BY <3>3 DEF MesaTypes
    <3>8. /\ m_stage'
               \in [Mesa!Displays -> {"none", "refused", "open", "half",
                 "closing", "gone"}]
          /\ m_stage'[d] = "closing"
          /\ \A e \in Mesa!Displays \ {d} : m_stage'[e] = m_stage[e]
      BY <3>3 DEF MesaTypes
    <3>9. m_pc'[c].at # "erase"
      BY <1>1, <1>3
    <3>. QED
      BY <3>3, <3>4, <3>5, <3>6, <3>7, <3>8, <3>9
  <2>2. CASE Mesa!Close(c, d)
    <3>1. UNCHANGED <<m_named, m_stage, m_listed>> /\ m_pc[c].at = "close"
      BY <2>2 DEF Mesa!Close, Mesa!displayVars, Mesa!surfaceVars
    <3>2. m_stage[d] = "closing"
      BY <1>3, <3>1 DEF MesaMapped
    <3>3. m_pc'[c].at # "erase"
      BY <1>1, <1>3
    <3>. QED
      BY <1>2, <3>1, <3>2, <3>3 DEF MesaTypes, MesaFound
  <2>3. CASE Mesa!Deinitialize(c, d)
    <3>1. /\ m_pc[c].at = "closing" /\ m_named' = m_named
          /\ m_listed' \subseteq m_listed
          /\ m_stage' = [m_stage EXCEPT ![d] = "gone"]
      BY <2>3 DEF Mesa!Deinitialize
    <3>2. m_stage[d] = "closing"
      BY <1>3, <3>1 DEF MesaMapped
    <3>3. \A n \in DisplayNames : m_named[n] # d
      BY <3>2, MesaNone DEF MesaMapped, Mesa!Alive
    <3>4. ~MesaDying(c, d)'
      BY <1>1, <1>3, <2>3, <3>1 DEF MesaDying, Mesa!Erase, Mesa!Close
    <3>. QED
      BY <1>2, <3>1, <3>3, <3>4 DEF MesaTypes, MesaFound
  <2>. QED
    BY <2>1, <2>2, <2>3
<1>9. MesaTypes'
  BY <1>2, <1>3, <1>8 DEF MesaTypes
<1>10. MesaMapped'
  <2>1. \A e \in Mesa!Displays \ {d} : Mesa!Alive(e)' <=> Mesa!Alive(e)
    BY <1>8 DEF Mesa!Alive
  <2>2. \A e \in Mesa!Displays : m_refs'[e] > 0
          => Mesa!Alive(e)' /\ MesaFound(e)'
    <3>1. SUFFICES ASSUME NEW e \in Mesa!Displays, m_refs'[e] > 0
                   PROVE  Mesa!Alive(e)' /\ MesaFound(e)'
      OBVIOUS
    <3>2. e # d /\ m_refs[e] > 0
      BY <1>2, <1>5, <3>1
    <3>. QED
      BY <1>8, <2>1, <3>2 DEF MesaMapped
  <2>3. \A n \in DisplayNames :
          m_named'[n] # Mesa!None
            => /\ m_stage'[m_named'[n]] \in {"refused", "open", "half"}
               /\ m_nameOf'[m_named'[n]] = n
    <3>1. SUFFICES ASSUME NEW n \in DisplayNames, m_named'[n] # Mesa!None
                   PROVE  /\ m_stage'[m_named'[n]]
                               \in {"refused", "open", "half"}
                          /\ m_nameOf'[m_named'[n]] = n
      OBVIOUS
    <3>2. PICK e \in Mesa!Displays : e = m_named[n] /\ m_named'[n] = e
            /\ (e # d \/ m_stage' = m_stage)
      BY <1>8, <3>1 DEF MesaTypes
    <3>3. m_stage[e] \in {"refused", "open", "half"} /\ m_nameOf[e] = n
      BY <3>2, MesaNone DEF MesaMapped, Mesa!Alive
    <3>. QED
      BY <1>2, <1>8, <3>2, <3>3
  <2>4. \A e \in Clients, f \in Mesa!Displays :
          MesaDying(e, f)' => /\ m_refs'[f] = 0
                              /\ IF m_pc'[e].at = "erase"
                                   THEN Mesa!Alive(f)' /\ MesaFound(f)'
                                   ELSE m_stage'[f] = "closing"
    <3>1. SUFFICES ASSUME NEW e \in Clients, NEW f \in Mesa!Displays,
                            MesaDying(e, f)'
                   PROVE  /\ m_refs'[f] = 0
                          /\ IF m_pc'[e].at = "erase"
                               THEN Mesa!Alive(f)' /\ MesaFound(f)'
                               ELSE m_stage'[f] = "closing"
      OBVIOUS
    <3>2. CASE e = c
      BY <1>2, <1>5, <1>8, <3>1, <3>2
    <3>3. CASE e # c
      <4>1. MesaDying(e, f) /\ f # d /\ m_pc'[e] = m_pc[e]
        BY <1>3, <1>5, <3>1, <3>3
      <4>. QED
        BY <1>2, <1>8, <2>1, <4>1 DEF MesaMapped
    <3>. QED
      BY <3>2, <3>3
  <2>5. \A e, f \in Clients, g \in Mesa!Displays : MesaDying(e, g)'
          /\ MesaDying(f, g)' => e = f
    BY <1>5 DEF MesaMapped
  <2>. QED
    BY <2>2, <2>3, <2>4, <2>5 DEF MesaMapped, Mesa!Alive
<1>11. MesaLiving'
  <2>1. \A t \in m_listed' : Mesa!Built(t)'
    BY <1>6, <1>8 DEF MesaLiving, MesaTypes
  <2>. QED
    BY <1>2, <1>4, <1>8, <2>1 DEF MesaLiving
<1>12. MesaGiven'
  BY <1>2, MesaGivenSame DEF MesaInv
<1>13. MesaWalks'
  <2>1. c # "input" /\ Mesa!Nobody # "input"
    BY DEF Mesa!MesaAssumption, Mesa!Nobody
  <2>2. CASE Mesa!Close(c, d)
    <3>1. /\ m_adminLock' = [m_adminLock EXCEPT ![d] = c]
          /\ m_adminLock[d] # "input"
          /\ m_stage' = m_stage /\ m_listed' = m_listed
      BY <2>1, <2>2 DEF Mesa!Close, Mesa!displayVars, Mesa!surfaceVars
    <3>2. /\ m_adminLock'
               \in [Mesa!Displays -> Clients \cup {"input", Mesa!Nobody}]
          /\ \A e \in Mesa!Displays : m_adminLock'[e] = "input"
               <=> m_adminLock[e] = "input"
      BY <2>1, <3>1 DEF MesaWalks
    <3>. QED
      BY <1>2, <3>1, <3>2 DEF MesaWalks, Mesa!Alive
  <2>3. CASE Mesa!Erase(c, d) \/ Mesa!Deinitialize(c, d)
    <3>1. m_mapLock # "input"
      BY <2>1, <2>3 DEF Mesa!Erase, Mesa!Deinitialize
    <3>2. m_input.call = {} /\ \A e \in Mesa!Displays : m_adminLock[e] # "input"
      BY <3>1 DEF MesaWalks
    <3>3. \/ m_adminLock' = m_adminLock
          \/ m_adminLock' = [m_adminLock EXCEPT ![d] = Mesa!Nobody]
      BY <2>3 DEF Mesa!Erase, Mesa!Deinitialize
    <3>4. /\ m_adminLock'
               \in [Mesa!Displays -> Clients \cup {"input", Mesa!Nobody}]
          /\ \A e \in Mesa!Displays : m_adminLock'[e] # "input"
      BY <2>1, <3>2, <3>3 DEF MesaWalks
    <3>. QED
      BY <1>2, <3>1, <3>2, <3>4 DEF MesaWalks
  <2>. QED
    BY <2>2, <2>3
<1>. QED
  BY <1>7, <1>9, <1>10, <1>11, <1>12, <1>13 DEF MesaInv, MesaSound

LEMMA MesaCreate ==
  ASSUME Mesa!MesaAssumption, MesaInv, NEW c \in Clients,
         NEW d \in Mesa!Displays,
         Mesa!Create(c, d)
  PROVE  MesaInv'
<1>. MesaSound /\ MesaTypes /\ MesaMapped /\ MesaLiving /\ MesaWalks
  BY DEF MesaInv, MesaSound
<1>1. PICK s \in Mesa!Surfaces :
        /\ m_owner[s] = Mesa!None
        /\ m_owner' = [m_owner EXCEPT ![s] = d]
        /\ m_holders' = [m_holders EXCEPT ![s] = {c}]
        /\ m_listed' = m_listed \cup {s}
  BY DEF Mesa!Create
<1>2. /\ c \in m_users[d] /\ m_refs' = [m_refs EXCEPT ![d] = @ + 1]
      /\ UNCHANGED <<m_named, m_stage, m_nameOf, m_users, m_devices, m_taken,
           m_mapLock,
                     m_adminLock, m_pc, m_input>>
  BY DEF Mesa!Create, Mesa!displayVars
<1>3. /\ m_owner' \in [Mesa!Surfaces -> Mesa!Displays \cup {Mesa!None}]
      /\ m_owner'[s] = d
      /\ m_holders' \in [Mesa!Surfaces -> SUBSET Clients] /\ m_holders'[s] = {c}
      /\ d # Mesa!None
      /\ \A t \in Mesa!Surfaces \ {s} : /\ m_owner'[t] = m_owner[t]
                                        /\ m_holders'[t] = m_holders[t]
  BY <1>1, MesaNone DEF MesaTypes
<1>4. /\ m_refs \in [Mesa!Displays -> Nat] /\ m_refs' \in [Mesa!Displays -> Nat]
      /\ m_refs'[d] = m_refs[d] + 1 /\ m_refs[d] > 0
      /\ \A e \in Mesa!Displays \ {d} : m_refs'[e] = m_refs[e]
  <2>1. m_refs \in [Mesa!Displays -> Nat]
    BY DEF MesaTypes
  <2>2. m_refs[d] > 0
    BY <1>2, MesaReferenced
  <2>3. m_refs[d] + 1 \in Nat
    BY <2>1
  <2>. QED
    BY <1>2, <2>1, <2>2, <2>3
<1>5. /\ \A e, t : MesaGoing(e, t)' <=> MesaGoing(e, t)
      /\ \A e, f : MesaDying(e, f)' <=> MesaDying(e, f)
      /\ \A e : (Mesa!Alive(e)' <=> Mesa!Alive(e))
           /\ (MesaFound(e)' <=> MesaFound(e))
  BY <1>2 DEF MesaGoing, MesaDying, Mesa!Alive, MesaFound
<1>6. /\ \A e \in Clients : ~MesaGoing(e, s)
      /\ ~Mesa!Built(s) /\ Mesa!Built(s)'
      /\ \A t \in Mesa!Surfaces \ {s} : Mesa!Built(t)' <=> Mesa!Built(t)
  <2>1. \A e \in Clients : ~MesaGoing(e, s)
    BY <1>1 DEF MesaLiving
  <2>. QED
    BY <1>1, <1>2, <1>3, <2>1 DEF Mesa!Built
<1>7. /\ s \notin MesaOf(d) /\ MesaOf(d)' = MesaOf(d) \cup {s}
      /\ \A e \in Mesa!Displays \ {d} : MesaOf(e)' = MesaOf(e)
  BY <1>1, <1>3, <1>6 DEF MesaOf
<1>8. MesaTypes'
  BY <1>1, <1>2, <1>3, <1>4 DEF MesaTypes
<1>9. MesaCounted'
  <2>1. IsFiniteSet(MesaOf(d)) /\ IsFiniteSet(m_users[d])
    BY DEF MesaSound, MesaCounted
  <2>2. /\ IsFiniteSet(MesaOf(d)')
        /\ Cardinality(MesaOf(d)') = Cardinality(MesaOf(d)) + 1
    BY <1>7, <2>1, OneMore
  <2>3. Cardinality(m_users[d]) \in Nat /\ Cardinality(MesaOf(d)) \in Nat
    BY <2>1, FS_CardinalityType
  <2>4. m_refs'[d] = Cardinality(m_users'[d]) + Cardinality(MesaOf(d)')
    BY <1>2, <1>4, <2>2, <2>3 DEF MesaSound, MesaCounted
  <2>. QED
    BY <1>2, <1>4, <1>7, <2>1, <2>2, <2>4 DEF MesaSound, MesaCounted
<1>10. MesaMapped'
  <2>1. Mesa!Alive(d) /\ MesaFound(d)
    BY <1>4 DEF MesaMapped
  <2>2. \A e \in Mesa!Displays : m_refs'[e] > 0
          => Mesa!Alive(e)' /\ MesaFound(e)'
    BY <1>4, <1>5, <2>1 DEF MesaMapped
  <2>3. \A e \in Clients : ~MesaDying(e, d)
    BY <1>4 DEF MesaMapped
  <2>4. \A n \in DisplayNames :
          m_named'[n] # Mesa!None
            => /\ m_stage'[m_named'[n]] \in {"refused", "open", "half"}
               /\ m_nameOf'[m_named'[n]] = n
    BY <1>2 DEF MesaMapped, Mesa!Alive
  <2>5. \A e \in Clients, f \in Mesa!Displays :
          MesaDying(e, f) => /\ m_refs'[f] = 0
                             /\ IF m_pc'[e].at = "erase"
                                  THEN Mesa!Alive(f)' /\ MesaFound(f)'
                                  ELSE m_stage'[f] = "closing"
    BY <1>2, <1>4, <1>5, <2>3 DEF MesaMapped
  <2>. QED
    BY <1>5, <2>2, <2>4, <2>5 DEF MesaMapped, Mesa!Alive
<1>11. MesaLiving'
  <2>1. \A t \in m_listed' : Mesa!Built(t)'
    BY <1>1, <1>6 DEF MesaLiving, MesaTypes
  <2>2. \A e \in Clients, t \in Mesa!Surfaces :
          MesaGoing(e, t) => t # s /\ m_owner'[t] = m_owner[t]
            /\ m_holders'[t] = m_holders[t]
    BY <1>3, <1>6
  <2>3. \A t \in Mesa!Surfaces : m_owner'[t] = Mesa!None => m_holders'[t] = {}
    BY <1>3 DEF MesaLiving
  <2>. QED
    BY <1>1, <1>2, <1>5, <2>1, <2>2, <2>3 DEF MesaLiving
<1>12. MesaGiven'
  BY <1>2, MesaGivenSame DEF MesaInv
<1>13. MesaWalks'
  <2>1. \A t \in m_input.call : t \in m_listed' /\ m_owner'[t] = m_owner[t]
    <3>1. \A t \in m_input.call : t \in m_listed /\ t \in Mesa!Surfaces /\ t # s
      BY <1>6 DEF MesaWalks, MesaTypes, MesaLiving
    <3>. QED
      BY <1>1, <1>3, <3>1
  <2>. QED
    BY <1>2, <2>1, MesaWalksSame
<1>. QED
  BY <1>8, <1>9, <1>10, <1>11, <1>12, <1>13 DEF MesaInv, MesaSound

LEMMA MesaSurfaceByName ==
  ASSUME Mesa!MesaAssumption, MesaInv, NEW c \in Clients,
         NEW d \in Mesa!Displays,
         NEW s \in Mesa!Surfaces, Mesa!SurfaceByName(c, d, s)
  PROVE  MesaInv'
<1>. MesaSound /\ MesaTypes /\ MesaMapped /\ MesaLiving /\ MesaWalks
  BY DEF MesaInv, MesaSound
<1>1. /\ m_holders[s] # {} /\ m_holders' = [m_holders EXCEPT ![s] = @ \cup {c}]
      /\ UNCHANGED <<m_named, m_stage, m_nameOf, m_refs, m_users, m_owner,
           m_listed,
                     m_devices, m_taken, m_mapLock, m_adminLock, m_pc, m_input>>
  BY DEF Mesa!SurfaceByName, Mesa!displayVars
<1>2. /\ m_holders' \in [Mesa!Surfaces -> SUBSET Clients]
      /\ \A t \in Mesa!Surfaces : m_holders'[t] = {} <=> m_holders[t] = {}
  BY <1>1 DEF MesaTypes
<1>3. /\ \A e, t : MesaGoing(e, t)' <=> MesaGoing(e, t)
      /\ \A e, f : MesaDying(e, f)' <=> MesaDying(e, f)
      /\ \A e : (Mesa!Alive(e)' <=> Mesa!Alive(e))
           /\ (MesaFound(e)' <=> MesaFound(e))
      /\ \A t \in Mesa!Surfaces : Mesa!Built(t)' <=> Mesa!Built(t)
  BY <1>1, <1>2 DEF MesaGoing, MesaDying, Mesa!Alive, MesaFound, Mesa!Built
<1>4. \A e : MesaOf(e)' = MesaOf(e)
  BY <1>1, <1>3 DEF MesaOf
<1>5. MesaTypes' /\ MesaCounted'
  BY <1>1, <1>2, <1>4 DEF MesaTypes, MesaSound, MesaCounted
<1>6. MesaMapped'
  BY <1>1, <1>3 DEF MesaMapped, Mesa!Alive
<1>7. MesaLiving'
  <2>1. \A t \in m_listed' : Mesa!Built(t)'
    BY <1>1, <1>3 DEF MesaLiving, MesaTypes
  <2>. QED
    BY <1>1, <1>2, <1>3, <2>1 DEF MesaLiving
<1>8. MesaGiven' /\ MesaWalks'
  <2>1. \A t \in m_input.call : t \in m_listed
    BY DEF MesaWalks
  <2>. QED
    BY <1>1, <2>1, MesaGivenSame, MesaWalksSame DEF MesaInv
<1>. QED
  BY <1>5, <1>6, <1>7, <1>8 DEF MesaInv, MesaSound

\* The steps of a client that leave the surface built: one reference less, and
\* out of the list.
LEMMA MesaGoes ==
  ASSUME Mesa!MesaAssumption, MesaInv, NEW c \in Clients,
         NEW s \in Mesa!Surfaces,
         Mesa!ReleaseSurface(c, s) \/ Mesa!Unregister(c, s)
  PROVE  MesaInv'
<1>. MesaSound /\ MesaTypes /\ MesaMapped /\ MesaLiving /\ MesaWalks
  BY DEF MesaInv, MesaSound
<1>1. PICK call \in MesaCalls :
        /\ m_pc' = [m_pc EXCEPT ![c] = call]
        /\ \/ /\ call.at = "unregister" /\ call.on = s /\ m_pc[c].at = "idle"
              /\ m_holders[s] = {c}
              /\ m_holders' = [m_holders EXCEPT ![s] = @ \ {c}]
              /\ m_listed' = m_listed
           \/ /\ call.at = "idle" /\ m_pc[c].at = "idle" /\ c \in m_holders[s]
              /\ m_holders[s] # {c}
              /\ m_holders' = [m_holders EXCEPT ![s] = @ \ {c}]
              /\ m_listed' = m_listed
           \/ /\ call.at = "dispose" /\ call.on = s
              /\ m_pc[c] = [at |-> "unregister", on |-> s]
              /\ m_listed' = m_listed \ {s} /\ m_holders' = m_holders
  <2>1. CASE Mesa!ReleaseSurface(c, s)
    <3>1. /\ [at |-> "unregister", on |-> s] \in MesaCalls
          /\ Mesa!Idle \in MesaCalls /\ Mesa!Idle.at = "idle"
      BY DEF MesaCalls, Mesa!Idle
    <3>2. CASE m_holders[s] = {c}
      BY <2>1, <3>1, <3>2 DEF Mesa!ReleaseSurface
    <3>3. CASE m_holders[s] # {c}
      BY <2>1, <3>1, <3>3 DEF Mesa!ReleaseSurface
    <3>. QED
      BY <3>2, <3>3
  <2>2. CASE Mesa!Unregister(c, s)
    <3>1. [at |-> "dispose", on |-> s] \in MesaCalls
      BY DEF MesaCalls
    <3>2. m_pc' = [m_pc EXCEPT ![c] = [m_pc[c] EXCEPT !.at = "dispose"]]
      BY <2>2 DEF Mesa!Unregister
    <3>3. [m_pc[c] EXCEPT !.at = "dispose"] = [at |-> "dispose", on |-> s]
      BY <2>2 DEF Mesa!Unregister
    <3>. QED
      BY <2>2, <3>1, <3>2, <3>3 DEF Mesa!Unregister
  <2>. QED
    BY <2>1, <2>2
<1>2. UNCHANGED <<m_named, m_stage, m_nameOf, m_refs, m_users, m_owner,
        m_devices, m_taken,
                  m_mapLock, m_adminLock, m_input>>
  BY DEF Mesa!ReleaseSurface, Mesa!Unregister, Mesa!displayVars
<1>3. /\ m_pc' \in [Clients -> MesaCalls] /\ m_pc'[c] = call
      /\ \A e \in Clients \ {c} : m_pc'[e] = m_pc[e]
      /\ m_holders' \in [Mesa!Surfaces -> SUBSET Clients]
      /\ \A t \in Mesa!Surfaces \ {s} : m_holders'[t] = m_holders[t]
      /\ \A t \in Mesa!Surfaces : m_holders'[t] \subseteq m_holders[t]
  BY <1>1 DEF MesaTypes
<1>4. /\ \A e \in Clients : \A f : MesaDying(e, f)' <=> MesaDying(e, f)
      /\ \A e \in Clients : \A f : MesaDying(e, f) => m_pc'[e] = m_pc[e]
      /\ \A e : (Mesa!Alive(e)' <=> Mesa!Alive(e))
           /\ (MesaFound(e)' <=> MesaFound(e))
  BY <1>1, <1>2, <1>3 DEF MesaDying, Mesa!Alive, MesaFound
<1>5. /\ m_holders[s] # {} \/ MesaGoing(c, s)
      /\ \A e \in Clients \ {c} : ~MesaGoing(e, s)
      /\ m_owner[s] # Mesa!None
  <2>1. m_holders[s] # {} \/ MesaGoing(c, s)
    BY <1>1 DEF MesaGoing
  <2>. QED
    BY <2>1 DEF MesaLiving
<1>6. /\ \A e \in Clients, t \in Mesa!Surfaces \ {s} : MesaGoing(e, t)'
           <=> MesaGoing(e, t)
      /\ \A e \in Clients : MesaGoing(e, s)' => e = c
      /\ MesaGoing(c, s)' \/ m_holders'[s] # {}
      /\ MesaGoing(c, s)'
           => m_holders'[s] = {}
             /\ (m_pc'[c].at = "dispose" => s \notin m_listed')
  <2>1. \A e \in Clients, t \in Mesa!Surfaces \ {s} : MesaGoing(e, t)'
          <=> MesaGoing(e, t)
    BY <1>1, <1>3 DEF MesaGoing
  <2>2. \A e \in Clients : MesaGoing(e, s)' => e = c
    BY <1>3, <1>5 DEF MesaGoing
  <2>3. CASE call.at = "unregister"
    BY <1>1, <1>3, <2>1, <2>2, <2>3 DEF MesaGoing, MesaTypes
  <2>4. CASE call.at = "idle"
    <3>1. /\ m_holders'[s] = m_holders[s] \ {c} /\ c \in m_holders[s]
          /\ m_holders[s] # {c}
      BY <1>1, <2>4 DEF MesaTypes
    <3>2. m_holders'[s] # {} /\ ~MesaGoing(c, s)'
      BY <1>3, <2>4, <3>1 DEF MesaGoing
    <3>. QED
      BY <2>1, <2>2, <3>2
  <2>5. CASE call.at = "dispose"
    <3>1. /\ m_pc[c] = [at |-> "unregister", on |-> s] /\ m_holders' = m_holders
          /\ call.on = s
          /\ s \notin m_listed'
      BY <1>1, <2>5
    <3>2. MesaGoing(c, s)
      BY <3>1 DEF MesaGoing
    <3>3. m_holders'[s] = {} /\ MesaGoing(c, s)'
      BY <1>3, <2>5, <3>1, <3>2 DEF MesaGoing, MesaLiving
    <3>. QED
      BY <2>1, <2>2, <3>1, <3>3
  <2>. QED
    BY <1>1, <2>3, <2>4, <2>5
<1>7. \A t \in Mesa!Surfaces : Mesa!Built(t)' <=> Mesa!Built(t)
  <2>1. Mesa!Built(s)
    BY <1>5, MesaBuilt
  <2>2. Mesa!Built(s)'
    BY <1>2, <1>5, <1>6 DEF Mesa!Built, MesaGoing
  <2>3. \A t \in Mesa!Surfaces \ {s} : Mesa!Built(t)' <=> Mesa!Built(t)
    BY <1>2, <1>3, <1>6 DEF Mesa!Built, MesaGoing
  <2>. QED
    BY <2>1, <2>2, <2>3
<1>8. \A e : MesaOf(e)' = MesaOf(e)
  BY <1>2, <1>7 DEF MesaOf
<1>9. m_listed' \subseteq m_listed
  BY <1>1
<1>10. MesaTypes' /\ MesaCounted'
  BY <1>2, <1>3, <1>8, <1>9 DEF MesaTypes, MesaSound, MesaCounted
<1>11. MesaMapped'
  BY <1>2, <1>4 DEF MesaMapped, Mesa!Alive
<1>12. MesaLiving'
  <2>1. \A t \in m_listed' : Mesa!Built(t)'
    BY <1>7, <1>9 DEF MesaLiving, MesaTypes
  <2>2. \A e \in Clients, t \in Mesa!Surfaces :
          MesaGoing(e, t)' => /\ m_owner'[t] # Mesa!None /\ m_holders'[t] = {}
                              /\ m_pc'[e].at = "dispose" => t \notin m_listed'
    <3>1. SUFFICES ASSUME NEW e \in Clients, NEW t \in Mesa!Surfaces,
                            MesaGoing(e, t)'
                   PROVE  /\ m_owner'[t] # Mesa!None /\ m_holders'[t] = {}
                          /\ m_pc'[e].at = "dispose" => t \notin m_listed'
      OBVIOUS
    <3>2. CASE t = s
      BY <1>2, <1>5, <1>6, <3>1, <3>2
    <3>3. CASE t # s
      <4>1. MesaGoing(e, t)
        BY <1>6, <3>1, <3>3
      <4>2. m_pc'[e].at = "dispose" => m_pc[e].at = "dispose"
        BY <1>1, <1>3, <3>1, <3>3 DEF MesaGoing
      <4>. QED
        BY <1>2, <1>3, <1>9, <3>3, <4>1, <4>2 DEF MesaLiving
    <3>. QED
      BY <3>2, <3>3
  <2>3. \A t \in Mesa!Surfaces : m_owner'[t] = Mesa!None => m_holders'[t] = {}
    BY <1>2, <1>3 DEF MesaLiving
  <2>4. \A e, f \in Clients, t \in Mesa!Surfaces : MesaGoing(e, t)'
          /\ MesaGoing(f, t)' => e = f
    BY <1>6 DEF MesaLiving
  <2>. QED
    BY <2>1, <2>2, <2>3, <2>4 DEF MesaLiving
<1>13. MesaGiven'
  BY <1>2, MesaGivenSame DEF MesaInv
<1>14. MesaWalks'
  <2>1. \A t \in m_input.call : t \in m_listed'
    <3>1. CASE Mesa!ReleaseSurface(c, s)
      BY <3>1 DEF Mesa!ReleaseSurface, MesaWalks
    <3>2. CASE Mesa!Unregister(c, s)
      <4>1. m_adminLock[m_owner[s]] # "input"
        BY <3>2 DEF Mesa!Unregister, Mesa!MesaAssumption, Mesa!Nobody
      <4>. QED
        BY <3>2, <4>1 DEF Mesa!Unregister, MesaWalks
    <3>. QED
      BY <3>1, <3>2
  <2>. QED
    BY <1>2, <2>1, MesaWalksSame
<1>. QED
  BY <1>10, <1>11, <1>12, <1>13, <1>14 DEF MesaInv, MesaSound

\* The references of the devices when a surface is disposed of, and when a
\* client gives it one or takes it back.
LEMMA MesaGivenBack ==
  ASSUME MesaGiven, NEW s \in Mesa!Surfaces, m_taken' = Mesa!Less(s),
         m_devices' = [m_devices EXCEPT ![s] = {}]
  PROVE  MesaGiven'
<1>1. /\ m_devices' \in [Mesa!Surfaces -> SUBSET Devices] /\ m_devices'[s] = {}
      /\ \A t \in Mesa!Surfaces \ {s} : m_devices'[t] = m_devices[t]
  BY DEF MesaGiven
<1>2. \A k : MesaWith(k)' = MesaWith(k) \ {s}
  BY <1>1 DEF MesaWith
<1>3. ASSUME NEW k \in Devices
      PROVE  /\ IsFiniteSet(MesaWith(k)')
             /\ m_taken'[k] = Cardinality(MesaWith(k)')
             /\ m_taken'[k] \in Nat
  <2>1. /\ IsFiniteSet(MesaWith(k)) /\ m_taken[k] = Cardinality(MesaWith(k))
        /\ m_taken[k] \in Nat
    BY DEF MesaGiven
  <2>2. CASE k \in m_devices[s]
    <3>1. s \in MesaWith(k) /\ MesaWith(k)' = MesaWith(k) \ {s}
      BY <1>2, <2>2 DEF MesaWith
    <3>2. /\ IsFiniteSet(MesaWith(k)')
          /\ Cardinality(MesaWith(k)') = Cardinality(MesaWith(k)) - 1
      BY <2>1, <3>1, OneLess
    <3>3. m_taken'[k] = m_taken[k] - 1
      BY <2>2 DEF Mesa!Less
    <3>4. Cardinality(MesaWith(k)') \in Nat
      BY <3>2, FS_CardinalityType
    <3>. QED
      BY <2>1, <3>2, <3>3, <3>4
  <2>3. CASE k \notin m_devices[s]
    <3>1. MesaWith(k)' = MesaWith(k)
      BY <1>2, <2>3 DEF MesaWith
    <3>2. m_taken'[k] = m_taken[k] - 0
      BY <2>3 DEF Mesa!Less
    <3>. QED
      BY <2>1, <3>1, <3>2
  <2>. QED
    BY <2>2, <2>3
<1>4. m_taken' = [k \in Devices |-> m_taken'[k]]
  BY DEF Mesa!Less
<1>. QED
  BY <1>1, <1>3, <1>4 DEF MesaGiven

LEMMA MesaDispose ==
  ASSUME Mesa!MesaAssumption, MesaInv, NEW c \in Clients,
         NEW s \in Mesa!Surfaces,
         Mesa!Dispose(c, s)
  PROVE  MesaInv'
<1>. MesaSound /\ MesaTypes /\ MesaMapped /\ MesaLiving /\ MesaWalks
  BY DEF MesaInv, MesaSound
<1>1. /\ m_pc[c] = [at |-> "dispose", on |-> s] /\ Mesa!Drop(c, m_owner[s])
      /\ m_taken' = Mesa!Less(s) /\ m_devices' = [m_devices EXCEPT ![s] = {}]
      /\ UNCHANGED <<m_named, m_stage, m_nameOf, m_users, m_owner, m_listed,
           m_holders,
                     m_mapLock, m_adminLock, m_input>>
  BY DEF Mesa!Dispose, Mesa!displayVars
<1>2. MesaGoing(c, s) /\ Mesa!Built(s) /\ m_holders[s] = {} /\ s \notin m_listed
  <2>1. MesaGoing(c, s) /\ m_pc[c].at = "dispose"
    BY <1>1 DEF MesaGoing
  <2>2. m_owner[s] # Mesa!None /\ m_holders[s] = {} /\ s \notin m_listed
    BY <2>1 DEF MesaLiving
  <2>. QED
    BY <2>1, <2>2, MesaBuilt
<1>3. PICK d \in Mesa!Displays : d = m_owner[s] /\ m_refs[d] > 0
  BY <1>2, MesaReferenced
<1>4. /\ MesaMapped'
      /\ m_refs' \in [Mesa!Displays -> Nat] /\ m_pc' \in [Clients -> MesaCalls]
      /\ m_refs'[d] = m_refs[d] - 1
      /\ \A e \in Mesa!Displays \ {d} : m_refs'[e] = m_refs[e]
      /\ \A t \in Mesa!Surfaces : ~MesaGoing(c, t)'
      /\ \A e \in Clients \ {c}, t \in Mesa!Surfaces : MesaGoing(e, t)'
           <=> MesaGoing(e, t)
      /\ \A e \in Clients \ {c} : m_pc'[e] = m_pc[e]
  BY <1>1, <1>3, MesaDropped
<1>5. /\ \A e \in Clients : ~MesaGoing(e, s)'
      /\ \A e \in Clients, t \in Mesa!Surfaces \ {s} : MesaGoing(e, t)'
           <=> MesaGoing(e, t)
      /\ \A e \in Clients, t \in Mesa!Surfaces : MesaGoing(e, t)'
           => m_pc'[e] = m_pc[e]
  <2>1. \A e \in Clients \ {c} : ~MesaGoing(e, s)
    BY <1>2 DEF MesaLiving
  <2>2. \A t : t # s => ~MesaGoing(c, t)
    BY <1>1 DEF MesaGoing
  <2>. QED
    BY <1>4, <2>1, <2>2
<1>6. /\ ~Mesa!Built(s)'
      /\ \A t \in Mesa!Surfaces \ {s} : Mesa!Built(t)' <=> Mesa!Built(t)
  BY <1>1, <1>2, <1>5 DEF Mesa!Built, MesaGoing
<1>7. /\ s \in MesaOf(d) /\ MesaOf(d)' = MesaOf(d) \ {s}
      /\ \A e \in Mesa!Displays \ {d} : MesaOf(e)' = MesaOf(e)
  BY <1>1, <1>2, <1>3, <1>6 DEF MesaOf
<1>8. MesaTypes'
  BY <1>1, <1>4 DEF MesaTypes
<1>9. MesaCounted'
  <2>1. IsFiniteSet(MesaOf(d)) /\ IsFiniteSet(m_users[d])
    BY <1>3 DEF MesaSound, MesaCounted
  <2>2. /\ IsFiniteSet(MesaOf(d)')
        /\ Cardinality(MesaOf(d)') = Cardinality(MesaOf(d)) - 1
    BY <1>7, <2>1, OneLess
  <2>3. Cardinality(m_users[d]) \in Nat /\ Cardinality(MesaOf(d)) \in Nat
    BY <2>1, FS_CardinalityType
  <2>4. m_refs[d] = Cardinality(m_users[d]) + Cardinality(MesaOf(d))
    BY <1>3 DEF MesaSound, MesaCounted
  <2>5. m_refs'[d] = Cardinality(m_users'[d]) + Cardinality(MesaOf(d)')
    BY <1>1, <1>4, <2>2, <2>3, <2>4
  <2>6. \A e \in Mesa!Displays \ {d} :
          /\ IsFiniteSet(m_users'[e]) /\ IsFiniteSet(MesaOf(e)')
          /\ m_refs'[e] = Cardinality(m_users'[e]) + Cardinality(MesaOf(e)')
    BY <1>1, <1>4, <1>7 DEF MesaSound, MesaCounted
  <2>7. SUFFICES
          ASSUME NEW e \in Mesa!Displays
          PROVE  (/\ IsFiniteSet(m_users[e]) /\ IsFiniteSet(MesaOf(e))
                  /\ m_refs[e]
                       = Cardinality(m_users[e]) + Cardinality(MesaOf(e)))'
    BY DEF MesaCounted
  <2>8. CASE e = d
    BY <1>1, <2>1, <2>2, <2>5, <2>8
  <2>9. CASE e # d
    BY <2>6, <2>9
  <2>. QED
    BY <2>8, <2>9
<1>10. MesaLiving'
  <2>1. \A t \in m_listed' : Mesa!Built(t)'
    BY <1>1, <1>2, <1>6 DEF MesaLiving, MesaTypes
  <2>. QED
    BY <1>1, <1>5, <2>1 DEF MesaLiving
<1>11. MesaGiven'
  BY <1>1, MesaGivenBack DEF MesaInv
<1>12. MesaWalks'
  <2>1. \A t \in m_input.call : t \in m_listed
    BY DEF MesaWalks
  <2>. QED
    BY <1>1, <2>1, MesaWalksSame
<1>. QED
  BY <1>4, <1>8, <1>9, <1>10, <1>11, <1>12 DEF MesaInv, MesaSound

LEMMA MesaAttach ==
  ASSUME MesaInv, NEW c \in Clients, NEW s \in Mesa!Surfaces, NEW k \in Devices,
         Mesa!Attach(c, s, k)
  PROVE  MesaInv'
<1>1. UNCHANGED <<m_named, m_stage, m_nameOf, m_refs, m_users, m_owner,
        m_listed,
                  m_holders, m_mapLock, m_adminLock, m_pc, m_input>>
  BY DEF Mesa!Attach, Mesa!displayVars
<1>2. /\ m_devices \in [Mesa!Surfaces -> SUBSET Devices]
      /\ m_taken \in [Devices -> Nat]
      /\ IsFiniteSet(MesaWith(k)) /\ m_taken[k] = Cardinality(MesaWith(k))
  BY DEF MesaInv, MesaGiven
<1>3. /\ m_devices' \in [Mesa!Surfaces -> SUBSET Devices]
      /\ m_taken' \in [Devices -> Nat]
      /\ IsFiniteSet(MesaWith(k)') /\ m_taken'[k] = Cardinality(MesaWith(k)')
      /\ \A e \in Devices \ {k} : /\ MesaWith(e)' = MesaWith(e)
                                  /\ m_taken'[e] = m_taken[e]
  <2>1. CASE k \in m_devices[s]
    <3>1. /\ m_devices' = [m_devices EXCEPT ![s] = @ \ {k}]
          /\ m_taken' = [m_taken EXCEPT ![k] = @ - 1]
      BY <2>1 DEF Mesa!Attach
    <3>2. /\ m_devices'[s] = m_devices[s] \ {k}
          /\ \A t \in Mesa!Surfaces \ {s} : m_devices'[t] = m_devices[t]
      BY <1>2, <3>1
    <3>3. /\ s \in MesaWith(k) /\ MesaWith(k)' = MesaWith(k) \ {s}
          /\ \A e \in Devices \ {k} : MesaWith(e)' = MesaWith(e)
      BY <2>1, <3>2 DEF MesaWith
    <3>4. /\ IsFiniteSet(MesaWith(k)')
          /\ Cardinality(MesaWith(k)') = Cardinality(MesaWith(k)) - 1
      BY <1>2, <3>3, OneLess
    <3>5. m_taken[k] - 1 \in Nat
      BY <1>2, <3>4, FS_CardinalityType
    <3>. QED
      BY <1>2, <3>1, <3>3, <3>4, <3>5
  <2>2. CASE k \notin m_devices[s]
    <3>1. /\ m_devices' = [m_devices EXCEPT ![s] = @ \cup {k}]
          /\ m_taken' = [m_taken EXCEPT ![k] = @ + 1]
      BY <2>2 DEF Mesa!Attach
    <3>2. /\ m_devices'[s] = m_devices[s] \cup {k}
          /\ \A t \in Mesa!Surfaces \ {s} : m_devices'[t] = m_devices[t]
      BY <1>2, <3>1
    <3>3. /\ s \notin MesaWith(k) /\ MesaWith(k)' = MesaWith(k) \cup {s}
          /\ \A e \in Devices \ {k} : MesaWith(e)' = MesaWith(e)
      BY <2>2, <3>2 DEF MesaWith
    <3>4. /\ IsFiniteSet(MesaWith(k)')
          /\ Cardinality(MesaWith(k)') = Cardinality(MesaWith(k)) + 1
      BY <1>2, <3>3, OneMore
    <3>5. m_taken[k] + 1 \in Nat
      BY <1>2
    <3>. QED
      BY <1>2, <3>1, <3>3, <3>4, <3>5
  <2>. QED
    BY <2>1, <2>2
<1>4. MesaGiven'
  BY <1>3 DEF MesaInv, MesaGiven
<1>5. \A t \in m_input.call : t \in m_listed
  BY DEF MesaInv, MesaWalks
<1>. QED
  BY <1>1, <1>4, <1>5, MesaSame, MesaWalksSame DEF MesaInv

\* The input thread.
LEMMA MesaInput ==
  ASSUME Mesa!MesaAssumption, MesaInv,
         \/ Mesa!Publish \/ Mesa!Published
         \/ \E d \in Mesa!Displays : Mesa!Visit(d) \/ Mesa!Leave(d)
         \/ \E s \in Mesa!Surfaces : Mesa!Send(s)
  PROVE  MesaInv'
<1>. MesaSound /\ MesaTypes /\ MesaMapped /\ MesaLiving /\ MesaWalks
  BY DEF MesaInv, MesaSound
<1>1. UNCHANGED <<m_named, m_stage, m_nameOf, m_refs, m_users, m_owner,
        m_holders, m_listed,
                  m_devices, m_taken, m_pc>>
  BY DEF Mesa!Publish, Mesa!Published, Mesa!Visit, Mesa!Leave, Mesa!Send,
         Mesa!displayVars, Mesa!surfaceVars
<1>2. MesaSound' /\ MesaGiven'
  BY <1>1, MesaSame, MesaGivenSame DEF MesaInv
<1>3. /\ m_input \in [visit : SUBSET Mesa!Displays, call : SUBSET Mesa!Surfaces]
      /\ m_adminLock \in [Mesa!Displays -> Clients \cup {"input", Mesa!Nobody}]
      /\ Mesa!Nobody # "input"
      /\ \A d : Mesa!Alive(d)' <=> Mesa!Alive(d)
  BY <1>1 DEF MesaWalks, Mesa!Nobody, Mesa!Alive
<1>4. CASE Mesa!Publish
  <2>1. /\ m_mapLock = Mesa!Nobody /\ m_mapLock' = "input"
        /\ m_adminLock' = m_adminLock
        /\ m_input' = [visit |-> Mesa!Registered, call |-> {}]
    BY <1>4 DEF Mesa!Publish
  <2>2. /\ Mesa!Registered \subseteq Mesa!Displays
        /\ \A d \in Mesa!Registered : Mesa!Alive(d)
    BY MesaNone DEF Mesa!Registered, MesaTypes, MesaMapped
  <2>3. m_input'.visit = Mesa!Registered /\ m_input'.call = {}
        /\ m_input' \in [visit : SUBSET Mesa!Displays, call :
             SUBSET Mesa!Surfaces]
    BY <2>1, <2>2
  <2>4. \A d \in Mesa!Displays : m_adminLock[d] # "input"
    BY <1>3, <2>1 DEF MesaWalks
  <2>5. MesaWalks'
    BY <1>3, <2>1, <2>2, <2>3, <2>4 DEF MesaWalks
  <2>. QED
    BY <1>2, <2>5 DEF MesaInv
<1>5. CASE Mesa!Published
  <2>1. /\ m_mapLock = "input" /\ m_mapLock' = Mesa!Nobody /\ m_input.visit = {}
        /\ UNCHANGED <<m_adminLock, m_input>>
    BY <1>5 DEF Mesa!Published
  <2>2. /\ \A d \in Mesa!Displays : m_adminLock[d] # "input"
        /\ \A s \in m_input.call : FALSE
    BY <2>1 DEF MesaWalks
  <2>3. MesaWalks'
    BY <1>3, <2>1, <2>2 DEF MesaWalks
  <2>. QED
    BY <1>2, <2>3 DEF MesaInv
<1>6. ASSUME NEW d \in Mesa!Displays, Mesa!Visit(d) PROVE MesaInv'
  <2>1. /\ m_mapLock = "input" /\ m_mapLock' = "input" /\ d \in m_input.visit
        /\ \A e \in Mesa!Displays : m_adminLock[e] # "input"
        /\ m_adminLock' = [m_adminLock EXCEPT ![d] = "input"]
        /\ m_input'
             = [m_input EXCEPT !.call = {s \in m_listed : m_owner[s] = d}]
    BY <1>6 DEF Mesa!Visit
  <2>2. /\ m_input'.visit = m_input.visit
        /\ m_input'.call = {s \in m_listed : m_owner[s] = d}
        /\ {s \in m_listed : m_owner[s] = d} \in SUBSET Mesa!Surfaces
    BY <1>3, <2>1 DEF MesaTypes
  <2>3. m_input' \in [visit : SUBSET Mesa!Displays, call : SUBSET Mesa!Surfaces]
    BY <1>3, <2>1, <2>2
  <2>4. /\ m_adminLock'
             \in [Mesa!Displays -> Clients \cup {"input", Mesa!Nobody}]
        /\ m_adminLock'[d] = "input"
        /\ \A e \in Mesa!Displays \ {d} : m_adminLock'[e] = m_adminLock[e]
    BY <1>3, <2>1
  <2>5. MesaWalks'
    BY <1>1, <1>3, <2>1, <2>2, <2>3, <2>4 DEF MesaWalks
  <2>. QED
    BY <1>2, <2>5 DEF MesaInv
<1>7. ASSUME NEW d \in Mesa!Displays, Mesa!Leave(d) PROVE MesaInv'
  <2>1. /\ m_adminLock[d] = "input" /\ m_input.call = {}
        /\ m_mapLock' = m_mapLock
        /\ m_adminLock' = [m_adminLock EXCEPT ![d] = Mesa!Nobody]
        /\ m_input' = [m_input EXCEPT !.visit = @ \ {d}]
    BY <1>7 DEF Mesa!Leave
  <2>2. m_input'.visit = m_input.visit \ {d} /\ m_input'.call = {}
    BY <1>3, <2>1
  <2>3. m_input' \in [visit : SUBSET Mesa!Displays, call : SUBSET Mesa!Surfaces]
    BY <1>3, <2>1, <2>2
  <2>4. /\ m_adminLock'
             \in [Mesa!Displays -> Clients \cup {"input", Mesa!Nobody}]
        /\ m_adminLock'[d] = Mesa!Nobody
        /\ \A e \in Mesa!Displays \ {d} : m_adminLock'[e] = m_adminLock[e]
    BY <1>3, <2>1
  <2>5. MesaWalks'
    BY <1>3, <2>1, <2>2, <2>3, <2>4 DEF MesaWalks
  <2>. QED
    BY <1>2, <2>5 DEF MesaInv
<1>8. ASSUME NEW s \in Mesa!Surfaces, Mesa!Send(s) PROVE MesaInv'
  <2>1. /\ m_input' = [m_input EXCEPT !.call = @ \ {s}]
        /\ UNCHANGED <<m_mapLock, m_adminLock>>
    BY <1>8 DEF Mesa!Send
  <2>2. m_input'.visit = m_input.visit /\ m_input'.call = m_input.call \ {s}
    BY <1>3, <2>1
  <2>3. m_input' \in [visit : SUBSET Mesa!Displays, call : SUBSET Mesa!Surfaces]
    BY <1>3, <2>1, <2>2
  <2>4. MesaWalks'
    BY <1>1, <1>3, <2>1, <2>2, <2>3 DEF MesaWalks
  <2>. QED
    BY <1>2, <2>4 DEF MesaInv
<1>. QED
  BY <1>4, <1>5, <1>6, <1>7, <1>8

LEMMA MesaNext ==
  ASSUME Mesa!MesaAssumption, MesaInv, [Mesa!Next]_(Mesa!vars)
  PROVE  MesaInv'
<1>1. CASE UNCHANGED Mesa!vars
  <2>1. \A s \in m_input.call : s \in m_listed
    BY DEF MesaInv, MesaWalks
  <2>. QED
    BY <1>1, <2>1, MesaSame, MesaGivenSame, MesaWalksSame DEF Mesa!vars, MesaInv
<1>2. CASE Mesa!Next
  BY <1>2, MesaInstance, MesaRelease, MesaDeletes, MesaCreate,
     MesaSurfaceByName, MesaGoes, MesaDispose, MesaAttach, MesaInput
     DEF Mesa!Next
<1>. QED
  BY <1>1, <1>2

LEMMA MesaAlways == ASSUME Mesa!MesaAssumption PROVE Mesa!Spec => []MesaInv
<1>1. Mesa!Init => MesaInv
  BY MesaInit
<1>2. MesaInv /\ [Mesa!Next]_(Mesa!vars) => MesaInv'
  BY MesaNext
<1>. QED
  BY <1>1, <1>2, PTL DEF Mesa!Spec

LEMMA MesaProperties ==
  ASSUME Mesa!MesaAssumption, MesaInv
  PROVE  /\ Mesa!TypeOK /\ Mesa!ReferencesBalance /\ Mesa!RegistriesAreSound
         /\ Mesa!CallbacksAreRegistered
<1>. /\ MesaSound /\ MesaTypes /\ MesaMapped /\ MesaLiving /\ MesaGiven
     /\ MesaWalks
  BY DEF MesaInv, MesaSound
<1>1. Mesa!TypeOK
  <2>1. \A c \in Clients :
          m_pc[c].at \in {"idle", "erase", "close", "closing", "unregister",
            "dispose"}
    BY DEF MesaTypes, MesaCalls
  <2>. QED
    BY <2>1 DEF Mesa!TypeOK, MesaTypes, MesaGiven, MesaWalks
<1>2. Mesa!ReferencesBalance
  <2>1. \A S : Mesa!Cardinality(S) = Cardinality(S)
    BY DEF Mesa!Cardinality, Cardinality
  <2>2. \A d \in Mesa!Displays :
          m_refs[d] = Mesa!Cardinality(m_users[d])
                        + Mesa!Cardinality({s \in Mesa!Surfaces : m_owner[s] = d
                          /\ Mesa!Built(s)})
    BY <2>1 DEF MesaSound, MesaCounted, MesaOf
  <2>3. \A k \in Devices :
          m_taken[k]
            = Mesa!Cardinality({s \in Mesa!Surfaces : k \in m_devices[s]})
    BY <2>1 DEF MesaGiven, MesaWith
  <2>. QED
    BY <2>2, <2>3 DEF Mesa!ReferencesBalance
<1>3. Mesa!RegistriesAreSound
  <2>1. ASSUME NEW s \in m_listed
        PROVE  /\ Mesa!Built(s) /\ Mesa!Alive(m_owner[s])
               /\ m_named[m_nameOf[m_owner[s]]] = m_owner[s]
    <3>1. s \in Mesa!Surfaces /\ Mesa!Built(s)
      BY DEF MesaTypes, MesaLiving
    <3>2. m_owner[s] \in Mesa!Displays /\ m_refs[m_owner[s]] > 0
      BY <3>1, MesaReferenced
    <3>. QED
      BY <3>1, <3>2 DEF MesaMapped, MesaFound
  <2>. QED
    BY <2>1 DEF Mesa!RegistriesAreSound, MesaMapped, MesaWalks
<1>4. Mesa!CallbacksAreRegistered
  BY DEF Mesa!CallbacksAreRegistered, MesaWalks
<1>. QED
  BY <1>1, <1>2, <1>3, <1>4

-----------------------------------------------------------------------------
(* The displays of the Raspberry Pi backend *)

RpiCalls == [at : {"idle"}, on : {Rpi!None}]
              \cup [at : {"erase", "close"}, on : RpiDisplays]
              \cup [at : {"destroy", "revoke"}, on : RpiSurfaces]

RpiTypes ==
  /\ r_named \in RpiDisplays \cup {Rpi!None}
  /\ r_used \subseteq RpiDisplays /\ r_running \subseteq r_used
  /\ r_refs \in [RpiDisplays -> Nat]
  /\ r_users \in [RpiDisplays -> SUBSET Clients]
  /\ r_owner \in [RpiSurfaces -> RpiDisplays \cup {Rpi!None}]
  /\ r_holders \in [RpiSurfaces -> SUBSET Clients]
  /\ r_listed \subseteq RpiSurfaces /\ r_native \subseteq RpiSurfaces
  /\ r_offered \subseteq RpiSurfaces
  /\ r_pc \in [Clients -> RpiCalls]

\* The values that are sent to the compositor and to the application.
RpiValues ==
  /\ r_remote \in [RpiSurfaces -> [opacity : Nat, layer : Nat]]
  /\ r_queue \in Seq(Rpi!Events) /\ Len(r_queue) <= MaxQueued
  /\ r_pointer \in [RpiDisplays -> Int]
  /\ r_touch \in [RpiDisplays -> 0..Rpi!MaxTouch]
  /\ Rpi!ValuesFit

\* Client c is destroying surface s, or about to close display d.
RpiGoing(c, s) == r_pc[c].on = s /\ r_pc[c].at \in {"destroy", "revoke"}
RpiDying(c, d) == r_pc[c].on = d /\ r_pc[c].at \in {"erase", "close"}

\* The surfaces of a display that are built.
RpiOf(d) == {s \in RpiSurfaces : r_owner[s] = d /\ Rpi!Built(s)}

\* The references of a display are the users' and the surfaces'.
RpiCounted ==
  \A d \in RpiDisplays :
    /\ IsFiniteSet(r_users[d]) /\ IsFiniteSet(RpiOf(d))
    /\ r_refs[d] = Cardinality(r_users[d]) + Cardinality(RpiOf(d))

\* Only the display in the map is referenced; one client at most closes a
\* display, which no one refers to any more, and until then no other takes its
\* place.
RpiMapped ==
  /\ \A d \in RpiDisplays : r_refs[d] > 0 => r_named = d
  /\ r_named # Rpi!None =>
       r_named \in r_running
         /\ (r_refs[r_named] > 0 \/ \E c \in Clients : RpiDying(c, r_named))
  /\ \A c \in Clients, d \in RpiDisplays :
       RpiDying(c, d) => /\ r_refs[d] = 0 /\ d \in r_running
                         /\ r_named = IF r_pc[c].at = "erase" THEN d
                                      ELSE Rpi!None
  /\ \A c, e \in Clients, d, f \in RpiDisplays :
       RpiDying(c, d) /\ RpiDying(e, f) => c = e

\* One client at most destroys a surface, which no one holds any more; what the
\* list and the compositor know is built.
RpiLiving ==
  /\ \A s \in RpiSurfaces : r_owner[s] = Rpi!None => r_holders[s] = {}
  /\ \A c \in Clients, s \in RpiSurfaces :
       RpiGoing(c, s) => /\ r_owner[s] # Rpi!None /\ r_holders[s] = {}
                         /\ r_pc[c].at = "revoke" => s \notin r_listed
  /\ \A c, e \in Clients, s \in RpiSurfaces : RpiGoing(c, s) /\ RpiGoing(e, s)
       => c = e
  /\ \A s \in r_listed \cup r_offered : Rpi!Built(s)

RpiSound == RpiTypes /\ RpiCounted /\ RpiMapped /\ RpiLiving

RpiInv == RpiSound /\ RpiValues

\* What is built is going or held; what a client uses, or a surface, is
\* referenced.
LEMMA RpiBuilt ==
  ASSUME NEW s
  PROVE  Rpi!Built(s) <=> /\ r_owner[s] # Rpi!None
                          /\ \/ r_holders[s] # {}
                             \/ \E c \in Clients : RpiGoing(c, s)
BY DEF Rpi!Built, Rpi!Going, RpiGoing

LEMMA RpiReferenced ==
  ASSUME Rpi!RpiAssumption, RpiSound
  PROVE  /\ \A d \in RpiDisplays : r_users[d] # {} => r_refs[d] > 0
         /\ \A s \in RpiSurfaces : Rpi!Built(s) => /\ r_owner[s] \in RpiDisplays
                                                   /\ r_refs[r_owner[s]] > 0
<1>1. \A d \in RpiDisplays : /\ Cardinality(r_users[d]) \in Nat
                             /\ Cardinality(RpiOf(d)) \in Nat
  BY FS_CardinalityType DEF RpiSound, RpiCounted
<1>2. \A d \in RpiDisplays : /\ r_users[d] # {} => Cardinality(r_users[d]) # 0
                             /\ RpiOf(d) # {} => Cardinality(RpiOf(d)) # 0
  BY FS_EmptySet DEF RpiSound, RpiCounted
<1>3. \A s \in RpiSurfaces : Rpi!Built(s) => r_owner[s] \in RpiDisplays
  <2>1. r_owner \in [RpiSurfaces -> RpiDisplays \cup {Rpi!None}]
    BY DEF RpiSound, RpiTypes
  <2>2. \A s \in RpiSurfaces : Rpi!Built(s) => r_owner[s] # Rpi!None
    BY DEF Rpi!Built
  <2>. QED
    BY <2>1, <2>2
<1>4. \A s \in RpiSurfaces : Rpi!Built(s) => s \in RpiOf(r_owner[s])
  BY DEF RpiOf
<1>5. \A s \in RpiSurfaces : Rpi!Built(s) => r_refs[r_owner[s]] > 0
  BY <1>1, <1>2, <1>3, <1>4 DEF RpiSound, RpiCounted
<1>. QED
  BY <1>1, <1>2, <1>3, <1>5 DEF RpiSound, RpiCounted

LEMMA RpiInit == ASSUME Rpi!RpiAssumption, Rpi!Init PROVE RpiInv
<1>1. Rpi!Idle = [at |-> "idle", on |-> Rpi!None] /\ Rpi!Idle \in RpiCalls
  BY DEF Rpi!Idle, RpiCalls
<1>2. r_pc \in [Clients -> RpiCalls] /\ \A c \in Clients : r_pc[c].at = "idle"
  BY <1>1 DEF Rpi!Init
<1>3. /\ r_users \in [RpiDisplays -> SUBSET Clients]
      /\ r_holders \in [RpiSurfaces -> SUBSET Clients]
      /\ r_owner \in [RpiSurfaces -> RpiDisplays \cup {Rpi!None}]
      /\ r_refs \in [RpiDisplays -> Nat]
  BY DEF Rpi!Init
<1>4. /\ r_remote \in [RpiSurfaces -> [opacity : Nat, layer : Nat]]
      /\ r_pointer \in [RpiDisplays -> Int]
      /\ r_touch \in [RpiDisplays -> 0..Rpi!MaxTouch]
  BY DEF Rpi!Init, Rpi!MaxOpacity, Rpi!MaxTouch
<1>5. r_queue \in Seq(Rpi!Events) /\ Len(r_queue) <= MaxQueued
  <2>1. r_queue = << >>
    BY DEF Rpi!Init
  <2>2. << >> \in Seq(Rpi!Events) /\ Len(<< >>) = 0
    OBVIOUS
  <2>. QED
    BY <2>1, <2>2 DEF Rpi!RpiAssumption
<1>6. RpiTypes
  BY <1>2, <1>3 DEF Rpi!Init, RpiTypes
<1>7. \A s \in RpiSurfaces : ~Rpi!Built(s)
  BY DEF Rpi!Init, Rpi!Built
<1>8. RpiCounted
  <2>1. \A d \in RpiDisplays : RpiOf(d) = {} /\ r_users[d] = {} /\ r_refs[d] = 0
    BY <1>7 DEF RpiOf, Rpi!Init
  <2>. QED
    BY <2>1, FS_EmptySet DEF RpiCounted
<1>9. RpiMapped /\ RpiLiving
  <2>1. \A c \in Clients : (\A d : ~RpiDying(c, d)) /\ (\A s : ~RpiGoing(c, s))
    BY <1>2 DEF RpiDying, RpiGoing
  <2>2. \A d \in RpiDisplays : ~(r_refs[d] > 0)
    BY DEF Rpi!Init
  <2>. QED
    BY <2>1, <2>2 DEF Rpi!Init, RpiMapped, RpiLiving
<1>10. Rpi!ValuesFit
  <2>1. /\ \A d \in RpiDisplays : r_pointer[d] = 0 /\ r_touch[d] = Rpi!MaxTouch
        /\ \A s \in RpiSurfaces : /\ r_remote[s].opacity = 255
                                  /\ r_remote[s].layer = 0
    BY DEF Rpi!Init, Rpi!MaxOpacity
  <2>2. Rpi!MaxOpacity = 255 /\ Rpi!VideoLayer = 10000 /\ 0 \in 0..(Width - 1)
    BY DEF Rpi!RpiAssumption, Rpi!MaxOpacity, Rpi!VideoLayer, Rpi!MaxTouch
  <2>3. \A d \in RpiDisplays : /\ r_pointer[d] \in 0..(Width - 1)
                               /\ r_touch[d] \in 0..(Width - 1)
                                    \cup {Rpi!MaxTouch}
    BY <2>1, <2>2
  <2>4. \A s \in RpiSurfaces : /\ r_remote[s].opacity <= Rpi!MaxOpacity
                               /\ r_remote[s].layer <= Rpi!VideoLayer
    BY <2>1, <2>2
  <2>. QED
    BY <2>3, <2>4 DEF Rpi!ValuesFit
<1>. QED
  BY <1>4, <1>5, <1>6, <1>8, <1>9, <1>10 DEF RpiInv, RpiSound, RpiValues
\* What a step leaves alone stays as it was.
LEMMA RpiSame ==
  ASSUME RpiSound,
         UNCHANGED <<r_named, r_used, r_running, r_refs, r_users, r_owner,
           r_holders,
                     r_listed, r_native, r_offered, r_pc>>
  PROVE  RpiSound'
<1>1. \A c, s : RpiGoing(c, s)' <=> RpiGoing(c, s)
  BY DEF RpiGoing
<1>2. \A c, d : RpiDying(c, d)' <=> RpiDying(c, d)
  BY DEF RpiDying
<1>3. \A s : Rpi!Built(s)' <=> Rpi!Built(s)
  BY DEF Rpi!Built, Rpi!Going
<1>4. \A d : RpiOf(d)' = RpiOf(d)
  BY <1>3 DEF RpiOf
<1>5. RpiTypes'
  BY DEF RpiSound, RpiTypes
<1>6. RpiCounted'
  BY <1>4 DEF RpiSound, RpiCounted
<1>7. RpiMapped'
  BY <1>2 DEF RpiSound, RpiMapped
<1>8. RpiLiving'
  BY <1>1, <1>3 DEF RpiSound, RpiLiving
<1>. QED
  BY <1>5, <1>6, <1>7, <1>8 DEF RpiSound

LEMMA RpiValuesSame ==
  ASSUME RpiValues, UNCHANGED <<r_remote, r_queue, r_pointer, r_touch>>
  PROVE  RpiValues'
BY DEF RpiValues, Rpi!ValuesFit

\* A reference that is given back: the last one makes its client the one to
\* close the display.
LEMMA RpiDropped ==
  ASSUME Rpi!RpiAssumption, RpiTypes, RpiMapped,
         NEW c \in Clients, NEW d \in RpiDisplays, Rpi!Drop(c, d),
         r_refs[d] > 0,
         r_pc[c].at \notin {"erase", "close"}, UNCHANGED <<r_named, r_running>>
  PROVE  /\ RpiMapped'
         /\ r_refs' \in [RpiDisplays -> Nat] /\ r_pc' \in [Clients -> RpiCalls]
         /\ r_refs'[d] = r_refs[d] - 1
         /\ \A e \in RpiDisplays \ {d} : r_refs'[e] = r_refs[e]
         /\ \A s \in RpiSurfaces : ~RpiGoing(c, s)'
         /\ \A e \in Clients \ {c}, s \in RpiSurfaces : RpiGoing(e, s)'
              <=> RpiGoing(e, s)
<1>1. /\ r_refs \in [RpiDisplays -> Nat] /\ r_pc \in [Clients -> RpiCalls]
      /\ r_refs' = [r_refs EXCEPT ![d] = r_refs[d] - 1]
      /\ Rpi!Idle = [at |-> "idle", on |-> Rpi!None]
  BY DEF RpiTypes, Rpi!Drop, Rpi!Idle
<1>2. r_refs[d] \in Nat /\ r_refs[d] - 1 \in Nat
  BY <1>1
<1>3. /\ r_refs' \in [RpiDisplays -> Nat] /\ r_refs'[d] = r_refs[d] - 1
      /\ \A e \in RpiDisplays \ {d} : r_refs'[e] = r_refs[e]
  BY <1>1, <1>2
<1>4. PICK call \in RpiCalls :
        /\ call = IF r_refs[d] = 1 THEN [at |-> "erase", on |-> d]
                  ELSE [at |-> "idle", on |-> Rpi!None]
        /\ r_pc' = [r_pc EXCEPT ![c] = call]
  BY <1>1 DEF Rpi!Drop, RpiCalls
<1>5. /\ r_pc' \in [Clients -> RpiCalls] /\ r_pc'[c] = call
      /\ \A e \in Clients \ {c} : r_pc'[e] = r_pc[e]
  BY <1>1, <1>4
<1>6. call.at \in {"erase", "idle"} /\ (call.at = "erase" <=> r_refs[d] = 1)
  BY <1>4
<1>7. call.at = "erase" => call.on = d
  BY <1>4
<1>8. /\ \A s \in RpiSurfaces : ~RpiGoing(c, s)'
      /\ \A e \in Clients \ {c}, s \in RpiSurfaces : RpiGoing(e, s)'
           <=> RpiGoing(e, s)
  BY <1>5, <1>6 DEF RpiGoing
<1>9. /\ \A f \in RpiDisplays : RpiDying(c, f)' <=> f = d /\ r_refs[d] = 1
      /\ \A e \in Clients \ {c}, f \in RpiDisplays : RpiDying(e, f)'
           <=> RpiDying(e, f)
      /\ \A f \in RpiDisplays : ~RpiDying(c, f)
  BY <1>5, <1>6, <1>7 DEF RpiDying
<1>10. r_named = d /\ d # Rpi!None /\ d \in r_running
  BY DEF RpiMapped, Rpi!RpiAssumption
<1>11. \A e \in Clients, f \in RpiDisplays : ~RpiDying(e, f)
  BY <1>10 DEF RpiMapped
<1>12. \A f \in RpiDisplays : r_refs'[f] > 0 => r_named' = f
  BY <1>1, <1>2, <1>3, <1>10 DEF RpiMapped
<1>13. /\ r_named' \in r_running'
       /\ (r_refs[r_named] > 0 \/ \E e \in Clients : RpiDying(e, r_named))'
  <2>1. r_refs'[d] > 0 \/ r_refs[d] = 1
    BY <1>2, <1>3
  <2>2. r_refs[d] = 1
          => (r_pc'[c].on = r_named' /\ r_pc'[c].at \in {"erase", "close"})
    BY <1>4, <1>5, <1>10
  <2>. QED
    BY <1>10, <2>1, <2>2 DEF RpiDying
<1>14. \A e \in Clients, f \in RpiDisplays : RpiDying(e, f)'
         => e = c /\ f = d /\ r_refs[d] = 1
  BY <1>9, <1>11
<1>15. \A e \in Clients, f \in RpiDisplays :
         RpiDying(e, f)' => /\ r_refs'[f] = 0 /\ f \in r_running'
                            /\ r_named' =
                                   IF r_pc'[e].at = "erase" THEN f ELSE Rpi!None
  BY <1>3, <1>5, <1>6, <1>10, <1>14
<1>16. RpiMapped'
  BY <1>12, <1>13, <1>14, <1>15 DEF RpiMapped
<1>. QED
  BY <1>3, <1>5, <1>8, <1>16

LEMMA RpiInstance ==
  ASSUME Rpi!RpiAssumption, RpiSound, NEW c \in Clients, Rpi!Instance(c)
  PROVE  RpiSound'
<1>1. PICK d \in RpiDisplays :
        /\ \/ /\ r_named = d /\ ~Rpi!Dying(d) /\ c \notin r_users[d]
              /\ UNCHANGED <<r_named, r_used, r_running>>
           \/ /\ r_named = Rpi!None /\ d \notin r_used
              /\ \A e \in r_used : r_refs[e] = 0 /\ ~Rpi!Dying(e)
              /\ r_named' = d /\ r_used' = r_used \cup {d}
              /\ r_running' = r_running \cup {d}
        /\ r_refs' = [r_refs EXCEPT ![d] = @ + 1]
        /\ r_users' = [r_users EXCEPT ![d] = @ \cup {c}]
  BY DEF Rpi!Instance, Rpi!Initialize
<1>2. UNCHANGED <<r_owner, r_holders, r_listed, r_native, r_offered, r_pc>>
  BY DEF Rpi!Instance, Rpi!Initialize, Rpi!surfaceVars
<1>3. /\ r_refs \in [RpiDisplays -> Nat]
      /\ r_users \in [RpiDisplays -> SUBSET Clients]
      /\ d # Rpi!None /\ r_running \subseteq r_used
  BY DEF RpiSound, RpiTypes, Rpi!RpiAssumption
<1>4. /\ r_named' = d /\ d \in r_running' /\ r_running \subseteq r_running'
      /\ c \notin r_users[d]
      /\ \A e \in RpiDisplays \ {d} : r_refs[e] = 0
      /\ \A e \in Clients, f \in RpiDisplays : ~RpiDying(e, f)
  <2>1. CASE /\ r_named = d /\ ~Rpi!Dying(d) /\ c \notin r_users[d]
             /\ UNCHANGED <<r_named, r_used, r_running>>
    <3>1. \A e \in RpiDisplays \ {d} : r_refs[e] = 0
      BY <2>1, <1>3 DEF RpiSound, RpiMapped
    <3>2. \A e \in Clients : ~RpiDying(e, d)
      BY <2>1 DEF RpiDying, Rpi!Dying
    <3>3. \A e \in Clients, f \in RpiDisplays : ~RpiDying(e, f)
      BY <2>1, <3>2, <1>3 DEF RpiSound, RpiMapped
    <3>4. d \in r_running
      BY <2>1, <1>3 DEF RpiSound, RpiMapped
    <3>. QED
      BY <2>1, <3>1, <3>3, <3>4
  <2>2. CASE /\ r_named = Rpi!None /\ d \notin r_used
             /\ \A e \in r_used : r_refs[e] = 0 /\ ~Rpi!Dying(e)
             /\ r_named' = d /\ r_used' = r_used \cup {d}
             /\ r_running' = r_running \cup {d}
    <3>1. \A e \in RpiDisplays : e # Rpi!None /\ r_refs[e] = 0
      BY <2>2, <1>3 DEF RpiSound, RpiMapped, Rpi!RpiAssumption
    <3>2. c \notin r_users[d]
      BY <3>1, RpiReferenced
    <3>3. \A e \in Clients, f \in RpiDisplays : ~RpiDying(e, f)
      <4>1. SUFFICES ASSUME NEW e \in Clients, NEW f \in RpiDisplays,
                              RpiDying(e, f)
                     PROVE  FALSE
        OBVIOUS
      <4>2. f \in r_used
        BY <4>1, <1>3 DEF RpiSound, RpiMapped
      <4>. QED
        BY <2>2, <4>1, <4>2 DEF RpiDying, Rpi!Dying
    <3>. QED
      BY <2>2, <3>1, <3>2, <3>3
  <2>. QED
    BY <1>1, <2>1, <2>2
<1>5. /\ r_refs' \in [RpiDisplays -> Nat]
      /\ r_users' \in [RpiDisplays -> SUBSET Clients]
      /\ r_refs'[d] = r_refs[d] + 1 /\ r_users'[d] = r_users[d] \cup {c}
      /\ \A e \in RpiDisplays \ {d} : /\ r_refs'[e] = r_refs[e]
                                      /\ r_users'[e] = r_users[e]
  <2>1. r_refs[d] + 1 \in Nat /\ r_users[d] \cup {c} \in SUBSET Clients
    BY <1>3
  <2>. QED
    BY <1>1, <1>3, <2>1
<1>6. /\ \A e, t : RpiGoing(e, t)' <=> RpiGoing(e, t)
      /\ \A e, f : RpiDying(e, f)' <=> RpiDying(e, f)
      /\ \A t : Rpi!Built(t)' <=> Rpi!Built(t)
  BY <1>2 DEF RpiGoing, RpiDying, Rpi!Built, Rpi!Going
<1>7. \A e : RpiOf(e)' = RpiOf(e)
  BY <1>2, <1>6 DEF RpiOf
<1>8. RpiTypes'
  <2>1. /\ r_named' \in RpiDisplays \cup {Rpi!None}
        /\ r_used' \subseteq RpiDisplays /\ r_running' \subseteq r_used'
    BY <1>1 DEF RpiSound, RpiTypes
  <2>. QED
    BY <1>2, <1>5, <2>1 DEF RpiSound, RpiTypes
<1>9. RpiCounted'
  <2>1. /\ IsFiniteSet(r_users'[d])
        /\ Cardinality(r_users'[d]) = Cardinality(r_users[d]) + 1
    <3>1. IsFiniteSet(r_users[d])
      BY DEF RpiSound, RpiCounted
    <3>. QED
      BY <1>4, <1>5, <3>1, OneMore
  <2>2. Cardinality(r_users[d]) \in Nat /\ Cardinality(RpiOf(d)) \in Nat
    BY FS_CardinalityType DEF RpiSound, RpiCounted
  <2>3. r_refs'[d] = Cardinality(r_users'[d]) + Cardinality(RpiOf(d)')
    BY <1>5, <1>7, <2>1, <2>2 DEF RpiSound, RpiCounted
  <2>. QED
    BY <1>5, <1>7, <2>1, <2>3 DEF RpiSound, RpiCounted
<1>10. RpiMapped'
  <2>1. r_refs'[d] > 0
    BY <1>3, <1>5
  <2>2. \A e \in RpiDisplays : r_refs'[e] > 0 => e = d
    BY <1>4, <1>5
  <2>. QED
    BY <1>4, <1>6, <2>1, <2>2 DEF RpiMapped
<1>11. RpiLiving'
  BY <1>2, <1>6 DEF RpiSound, RpiLiving
<1>. QED
  BY <1>8, <1>9, <1>10, <1>11 DEF RpiSound

LEMMA RpiRelease ==
  ASSUME Rpi!RpiAssumption, RpiSound, NEW c \in Clients, NEW d \in RpiDisplays,
         Rpi!Release(c, d)
  PROVE  RpiSound'
<1>1. /\ r_pc[c].at = "idle" /\ c \in r_users[d] /\ Rpi!Drop(c, d)
      /\ r_users' = [r_users EXCEPT ![d] = @ \ {c}]
      /\ UNCHANGED <<r_named, r_used, r_running, r_owner, r_holders, r_listed,
           r_native,
                     r_offered>>
  BY DEF Rpi!Release, Rpi!surfaceVars, Rpi!Idle
<1>2. r_refs[d] > 0
  BY <1>1, RpiReferenced
<1>3. /\ RpiMapped'
      /\ r_refs' \in [RpiDisplays -> Nat] /\ r_pc' \in [Clients -> RpiCalls]
      /\ r_refs'[d] = r_refs[d] - 1
      /\ \A e \in RpiDisplays \ {d} : r_refs'[e] = r_refs[e]
      /\ \A s \in RpiSurfaces : ~RpiGoing(c, s)'
      /\ \A e \in Clients \ {c}, s \in RpiSurfaces : RpiGoing(e, s)'
           <=> RpiGoing(e, s)
  BY <1>1, <1>2, RpiDropped DEF RpiSound
<1>4. \A e \in Clients, s \in RpiSurfaces :
        /\ RpiGoing(e, s)' <=> RpiGoing(e, s)
        /\ RpiGoing(e, s) => r_pc'[e] = r_pc[e]
  BY <1>1, <1>3 DEF RpiGoing, Rpi!Drop, RpiSound, RpiTypes
<1>5. \A s \in RpiSurfaces : Rpi!Built(s)' <=> Rpi!Built(s)
  BY <1>1, <1>4 DEF Rpi!Built, Rpi!Going, RpiGoing
<1>6. \A e : RpiOf(e)' = RpiOf(e)
  BY <1>1, <1>5 DEF RpiOf
<1>7. /\ r_users' \in [RpiDisplays -> SUBSET Clients]
      /\ r_users'[d] = r_users[d] \ {c}
      /\ \A e \in RpiDisplays \ {d} : r_users'[e] = r_users[e]
  BY <1>1 DEF RpiSound, RpiTypes
<1>8. RpiTypes'
  BY <1>1, <1>3, <1>7 DEF RpiSound, RpiTypes
<1>9. RpiCounted'
  <2>1. /\ IsFiniteSet(r_users'[d])
        /\ Cardinality(r_users'[d]) = Cardinality(r_users[d]) - 1
    BY <1>1, <1>7, OneLess DEF RpiSound, RpiCounted
  <2>2. Cardinality(r_users[d]) \in Nat /\ Cardinality(RpiOf(d)) \in Nat
    BY FS_CardinalityType DEF RpiSound, RpiCounted
  <2>3. r_refs'[d] = Cardinality(r_users'[d]) + Cardinality(RpiOf(d)')
    BY <1>3, <1>6, <2>1, <2>2 DEF RpiSound, RpiCounted
  <2>. QED
    BY <1>3, <1>6, <1>7, <2>1, <2>3 DEF RpiSound, RpiCounted
<1>10. RpiLiving'
  <2>1. \A t \in (r_listed \cup r_offered)' : Rpi!Built(t)'
    BY <1>1, <1>5 DEF RpiSound, RpiLiving, RpiTypes
  <2>. QED
    BY <1>1, <1>4, <2>1 DEF RpiSound, RpiLiving
<1>. QED
  BY <1>3, <1>8, <1>9, <1>10 DEF RpiSound

LEMMA RpiErase ==
  ASSUME Rpi!RpiAssumption, RpiSound, NEW c \in Clients, NEW d \in RpiDisplays,
         Rpi!Erase(c, d) \/ Rpi!Deinitialize(c, d)
  PROVE  RpiSound'
<1>1. PICK call \in RpiCalls : r_pc' = [r_pc EXCEPT ![c] = call]
        /\ \/ /\ call.at = "close" /\ call.on = d
              /\ r_pc[c] = [at |-> "erase", on |-> d] /\ r_named' = Rpi!None
              /\ UNCHANGED <<r_running, r_listed>>
           \/ /\ call.at = "idle" /\ r_pc[c] = [at |-> "close", on |-> d]
              /\ r_running' = r_running \ {d}
              /\ r_listed' = {s \in r_listed : r_owner[s] # d}
              /\ UNCHANGED r_named
  <2>1. CASE Rpi!Erase(c, d)
    <3>1. [at |-> "close", on |-> d] \in RpiCalls
      BY DEF RpiCalls
    <3>2. r_pc' = [r_pc EXCEPT ![c] = [r_pc[c] EXCEPT !.at = "close"]]
      BY <2>1 DEF Rpi!Erase
    <3>3. [r_pc[c] EXCEPT !.at = "close"] = [at |-> "close", on |-> d]
      BY <2>1 DEF Rpi!Erase
    <3>. QED
      BY <2>1, <3>1, <3>2, <3>3 DEF Rpi!Erase, Rpi!surfaceVars
  <2>2. CASE Rpi!Deinitialize(c, d)
    <3>1. Rpi!Idle \in RpiCalls /\ Rpi!Idle.at = "idle"
      BY DEF RpiCalls, Rpi!Idle
    <3>. QED
      BY <2>2, <3>1 DEF Rpi!Deinitialize
  <2>. QED
    BY <2>1, <2>2
<1>2. UNCHANGED <<r_used, r_refs, r_users, r_owner, r_holders, r_native,
        r_offered>>
  BY DEF Rpi!Erase, Rpi!Deinitialize, Rpi!surfaceVars
<1>3. /\ r_pc' \in [Clients -> RpiCalls] /\ r_pc'[c] = call
      /\ \A e \in Clients \ {c} : r_pc'[e] = r_pc[e]
  BY <1>1 DEF RpiSound, RpiTypes
<1>4. RpiDying(c, d) /\ (\A s : ~RpiGoing(c, s)) /\ (\A s : ~RpiGoing(c, s)')
  BY <1>1, <1>3 DEF RpiDying, RpiGoing
<1>5. \A e \in Clients : \A s :
        /\ RpiGoing(e, s)' <=> RpiGoing(e, s)
        /\ RpiGoing(e, s) => r_pc'[e] = r_pc[e]
  BY <1>3, <1>4 DEF RpiGoing
<1>6. \A e \in Clients \ {c}, f \in RpiDisplays : ~RpiDying(e, f)'
  BY <1>3, <1>4 DEF RpiDying, RpiSound, RpiMapped
<1>7. /\ \A s \in RpiSurfaces : Rpi!Built(s)' <=> Rpi!Built(s)
      /\ \A e : RpiOf(e)' = RpiOf(e)
  <2>1. \A s \in RpiSurfaces : Rpi!Built(s)' <=> Rpi!Built(s)
    BY <1>2, <1>5 DEF Rpi!Built, Rpi!Going, RpiGoing
  <2>. QED
    BY <1>2, <2>1 DEF RpiOf
<1>8. r_listed' \subseteq r_listed /\ r_running' \subseteq r_running
  BY <1>1
<1>9. RpiTypes'
  BY <1>1, <1>2, <1>3, <1>8 DEF RpiSound, RpiTypes
<1>10. RpiCounted'
  BY <1>2, <1>7 DEF RpiSound, RpiCounted
<1>11. RpiMapped'
  <2>1. r_refs[d] = 0 /\ d \in r_running /\ r_named \in {d, Rpi!None}
    BY <1>4 DEF RpiSound, RpiMapped
  <2>2. r_named' = Rpi!None
    BY <1>1, <1>4 DEF RpiSound, RpiMapped
  <2>3. \A e \in RpiDisplays : ~(r_refs[e] > 0)
    BY <2>1 DEF RpiSound, RpiMapped, RpiTypes, Rpi!RpiAssumption
  <2>4. \A f \in RpiDisplays : RpiDying(c, f)'
          => f = d /\ r_pc'[c].at = "close" /\ r_running' = r_running
    BY <1>1, <1>3 DEF RpiDying
  <2>. QED
    BY <1>2, <1>6, <2>1, <2>2, <2>3, <2>4 DEF RpiMapped
<1>12. RpiLiving'
  <2>1. \A t \in (r_listed \cup r_offered)' : Rpi!Built(t)'
    BY <1>2, <1>7, <1>8 DEF RpiSound, RpiLiving, RpiTypes
  <2>. QED
    BY <1>2, <1>5, <1>8, <2>1 DEF RpiSound, RpiLiving
<1>. QED
  BY <1>9, <1>10, <1>11, <1>12 DEF RpiSound

LEMMA RpiCreate ==
  ASSUME Rpi!RpiAssumption, RpiSound, NEW c \in Clients, NEW d \in RpiDisplays,
         Rpi!Create(c, d)
  PROVE  RpiSound'
<1>1. PICK s \in RpiSurfaces :
        /\ r_owner[s] = Rpi!None
        /\ r_owner' = [r_owner EXCEPT ![s] = d]
        /\ r_holders' = [r_holders EXCEPT ![s] = {c}]
        /\ r_listed' = r_listed \cup {s}
        /\ r_native' = r_native \cup {s}
        /\ r_offered' = r_offered \cup {s}
  BY DEF Rpi!Create, Rpi!CreateSurface, Rpi!Register, Rpi!OfferClientInterface
<1>2. /\ c \in r_users[d] /\ r_refs' = [r_refs EXCEPT ![d] = @ + 1]
      /\ UNCHANGED <<r_named, r_used, r_running, r_users, r_pc>>
  BY DEF Rpi!Create, Rpi!CreateSurface, Rpi!Register, Rpi!OfferClientInterface
<1>3. /\ r_owner' \in [RpiSurfaces -> RpiDisplays \cup {Rpi!None}]
      /\ r_owner'[s] = d
      /\ r_holders' \in [RpiSurfaces -> SUBSET Clients] /\ r_holders'[s] = {c}
      /\ d # Rpi!None
      /\ \A t \in RpiSurfaces \ {s} : /\ r_owner'[t] = r_owner[t]
                                      /\ r_holders'[t] = r_holders[t]
  BY <1>1 DEF RpiSound, RpiTypes, Rpi!RpiAssumption
<1>4. /\ r_refs \in [RpiDisplays -> Nat] /\ r_refs' \in [RpiDisplays -> Nat]
      /\ r_refs'[d] = r_refs[d] + 1 /\ r_refs[d] > 0
      /\ \A e \in RpiDisplays \ {d} : r_refs'[e] = r_refs[e]
  <2>1. r_refs \in [RpiDisplays -> Nat]
    BY DEF RpiSound, RpiTypes
  <2>2. r_refs[d] > 0
    BY <1>2, RpiReferenced
  <2>3. r_refs[d] + 1 \in Nat
    BY <2>1
  <2>. QED
    BY <1>2, <2>1, <2>2, <2>3
<1>5. /\ \A e, t : RpiGoing(e, t)' <=> RpiGoing(e, t)
      /\ \A e, f : RpiDying(e, f)' <=> RpiDying(e, f)
  BY <1>2 DEF RpiGoing, RpiDying
<1>6. /\ \A e \in Clients : ~RpiGoing(e, s)
      /\ ~Rpi!Built(s) /\ Rpi!Built(s)'
      /\ \A t \in RpiSurfaces \ {s} : Rpi!Built(t)' <=> Rpi!Built(t)
  <2>1. \A e \in Clients : ~RpiGoing(e, s)
    BY <1>1 DEF RpiSound, RpiLiving
  <2>. QED
    BY <1>1, <1>2, <1>3, <2>1 DEF Rpi!Built, Rpi!Going
<1>7. /\ s \notin RpiOf(d) /\ RpiOf(d)' = RpiOf(d) \cup {s}
      /\ \A e \in RpiDisplays \ {d} : RpiOf(e)' = RpiOf(e)
  BY <1>1, <1>3, <1>6 DEF RpiOf
<1>8. RpiTypes'
  BY <1>1, <1>2, <1>3, <1>4 DEF RpiSound, RpiTypes
<1>9. RpiCounted'
  <2>1. IsFiniteSet(RpiOf(d)) /\ IsFiniteSet(r_users[d])
    BY DEF RpiSound, RpiCounted
  <2>2. /\ IsFiniteSet(RpiOf(d)')
        /\ Cardinality(RpiOf(d)') = Cardinality(RpiOf(d)) + 1
    BY <1>7, <2>1, OneMore
  <2>3. Cardinality(r_users[d]) \in Nat /\ Cardinality(RpiOf(d)) \in Nat
    BY <2>1, FS_CardinalityType
  <2>4. r_refs'[d] = Cardinality(r_users'[d]) + Cardinality(RpiOf(d)')
    BY <1>2, <1>4, <2>2, <2>3 DEF RpiSound, RpiCounted
  <2>. QED
    BY <1>2, <1>4, <1>7, <2>1, <2>2, <2>4 DEF RpiSound, RpiCounted
<1>10. RpiMapped'
  <2>1. r_named = d
    BY <1>4 DEF RpiSound, RpiMapped
  <2>2. \A e \in RpiDisplays : (r_refs'[e] > 0 => e = d) /\ r_refs'[d] > 0
    BY <1>3, <1>4, <2>1 DEF RpiSound, RpiMapped
  <2>3. \A e \in Clients, f \in RpiDisplays : RpiDying(e, f) => f # d
    BY <1>4 DEF RpiSound, RpiMapped
  <2>. QED
    BY <1>2, <1>4, <1>5, <2>1, <2>2, <2>3 DEF RpiSound, RpiMapped
<1>11. RpiLiving'
  <2>1. \A t \in (r_listed \cup r_offered)' : Rpi!Built(t)'
    BY <1>1, <1>6 DEF RpiSound, RpiLiving, RpiTypes
  <2>2. \A e \in Clients, t \in RpiSurfaces :
          RpiGoing(e, t) => t # s /\ r_owner'[t] = r_owner[t]
            /\ r_holders'[t] = r_holders[t]
    BY <1>3, <1>6
  <2>3. \A t \in RpiSurfaces : r_owner'[t] = Rpi!None => r_holders'[t] = {}
    BY <1>3 DEF RpiSound, RpiLiving
  <2>. QED
    BY <1>1, <1>2, <1>5, <2>1, <2>2, <2>3 DEF RpiSound, RpiLiving
<1>. QED
  BY <1>8, <1>9, <1>10, <1>11 DEF RpiSound

\* The two steps of a client that leave the surface built.
LEMMA RpiGoes ==
  ASSUME RpiSound, NEW c \in Clients, NEW s \in RpiSurfaces,
         Rpi!ReleaseSurface(c, s) \/ Rpi!Unregister(c, s)
  PROVE  RpiSound'
<1>1. PICK call \in RpiCalls :
        /\ r_pc' = [r_pc EXCEPT ![c] = call] /\ call.on = s
        /\ \/ /\ call.at = "destroy" /\ r_pc[c].at = "idle"
              /\ r_holders[s] = {c}
              /\ r_holders' = [r_holders EXCEPT ![s] = {}]
              /\ UNCHANGED <<r_listed, r_native>>
           \/ /\ call.at = "revoke" /\ r_pc[c] = [at |-> "destroy", on |-> s]
              /\ r_listed' = r_listed \ {s} /\ r_native' = r_native \ {s}
              /\ UNCHANGED r_holders
  <2>1. CASE Rpi!ReleaseSurface(c, s)
    <3>1. [at |-> "destroy", on |-> s] \in RpiCalls /\ Rpi!Idle.at = "idle"
      BY DEF RpiCalls, Rpi!Idle
    <3>. QED
      BY <2>1, <3>1 DEF Rpi!ReleaseSurface
  <2>2. CASE Rpi!Unregister(c, s)
    <3>1. [at |-> "revoke", on |-> s] \in RpiCalls
      BY DEF RpiCalls
    <3>2. r_pc' = [r_pc EXCEPT ![c] = [r_pc[c] EXCEPT !.at = "revoke"]]
      BY <2>2 DEF Rpi!Unregister, Rpi!DestroySurface
    <3>3. [r_pc[c] EXCEPT !.at = "revoke"] = [at |-> "revoke", on |-> s]
      BY <2>2 DEF Rpi!Unregister, Rpi!DestroySurface
    <3>. QED
      BY <2>2, <3>1, <3>2, <3>3 DEF Rpi!Unregister, Rpi!DestroySurface
  <2>. QED
    BY <2>1, <2>2
<1>2. UNCHANGED <<r_named, r_used, r_running, r_refs, r_users, r_owner,
        r_offered>>
  BY DEF Rpi!ReleaseSurface, Rpi!Unregister, Rpi!DestroySurface
<1>3. /\ r_pc' \in [Clients -> RpiCalls] /\ r_pc'[c] = call
      /\ \A e \in Clients \ {c} : r_pc'[e] = r_pc[e]
      /\ r_holders' \in [RpiSurfaces -> SUBSET Clients] /\ r_holders'[s] = {}
      /\ \A t \in RpiSurfaces \ {s} : r_holders'[t] = r_holders[t]
      /\ \A t \in RpiSurfaces : r_holders'[t] \subseteq r_holders[t]
  <2>1. r_pc[c].at # "idle" => r_holders[s] = {}
    BY <1>1 DEF RpiSound, RpiLiving, RpiGoing
  <2>2. /\ r_pc \in [Clients -> RpiCalls]
        /\ r_holders \in [RpiSurfaces -> SUBSET Clients]
    BY DEF RpiSound, RpiTypes
  <2>. QED
    BY <1>1, <2>1, <2>2
<1>4. /\ \A e \in Clients : \A f : RpiDying(e, f)' <=> RpiDying(e, f)
      /\ \A e \in Clients : \A f : RpiDying(e, f) => r_pc'[e] = r_pc[e]
  BY <1>1, <1>3 DEF RpiDying
<1>5. /\ RpiGoing(c, s)'
      /\ \A e \in Clients, t \in RpiSurfaces :
           RpiGoing(e, t)'
             => (e = c /\ t = s) \/ (RpiGoing(e, t) /\ e # c /\ t # s)
  <2>1. \A e \in Clients \ {c} : ~RpiGoing(e, s)
    <3>1. r_holders[s] # {} \/ RpiGoing(c, s)
      BY <1>1 DEF RpiGoing
    <3>. QED
      BY <3>1 DEF RpiSound, RpiLiving
  <2>. QED
    BY <1>1, <1>3, <2>1 DEF RpiGoing
<1>6. r_owner[s] # Rpi!None /\ Rpi!Built(s) /\ Rpi!Built(s)'
  <2>1. r_owner[s] # Rpi!None
    BY <1>1 DEF RpiSound, RpiLiving, RpiGoing
  <2>2. r_holders[s] # {} \/ \E e \in Clients : RpiGoing(e, s)
    BY <1>1 DEF RpiGoing
  <2>3. Rpi!Built(s)
    BY <2>1, <2>2, RpiBuilt
  <2>. QED
    BY <1>2, <1>5, <2>1, <2>3 DEF Rpi!Built, Rpi!Going, RpiGoing
<1>7. \A e \in Clients, t \in RpiSurfaces \ {s} : RpiGoing(e, t)'
        <=> RpiGoing(e, t)
  BY <1>1, <1>3 DEF RpiGoing
<1>8. \A t \in RpiSurfaces : Rpi!Built(t)' <=> Rpi!Built(t)
  BY <1>2, <1>3, <1>6, <1>7 DEF Rpi!Built, Rpi!Going, RpiGoing
<1>9. \A e : RpiOf(e)' = RpiOf(e)
  BY <1>2, <1>8 DEF RpiOf
<1>10. RpiTypes'
  BY <1>1, <1>2, <1>3 DEF RpiSound, RpiTypes
<1>11. RpiCounted'
  BY <1>2, <1>9 DEF RpiSound, RpiCounted
<1>12. RpiMapped'
  BY <1>2, <1>4 DEF RpiSound, RpiMapped
<1>13. RpiLiving'
  <2>1. r_listed' \subseteq r_listed
          /\ (r_pc'[c].at = "revoke" => s \notin r_listed')
    BY <1>1, <1>3
  <2>2. \A t \in (r_listed \cup r_offered)' : Rpi!Built(t)'
    BY <1>2, <1>8, <2>1 DEF RpiSound, RpiLiving, RpiTypes
  <2>3. \A e \in Clients, t \in RpiSurfaces :
          RpiGoing(e, t)' => /\ r_owner'[t] # Rpi!None /\ r_holders'[t] = {}
                             /\ r_pc'[e].at = "revoke" => t \notin r_listed'
    BY <1>2, <1>3, <1>5, <1>6, <2>1 DEF RpiSound, RpiLiving
  <2>4. \A t \in RpiSurfaces : r_owner'[t] = Rpi!None => r_holders'[t] = {}
    BY <1>2, <1>3 DEF RpiSound, RpiLiving
  <2>5. \A e, f \in Clients, t \in RpiSurfaces : RpiGoing(e, t)'
          /\ RpiGoing(f, t)' => e = f
    BY <1>5 DEF RpiSound, RpiLiving
  <2>. QED
    BY <2>2, <2>3, <2>4, <2>5 DEF RpiLiving
<1>. QED
  BY <1>10, <1>11, <1>12, <1>13 DEF RpiSound

LEMMA RpiRevoke ==
  ASSUME Rpi!RpiAssumption, RpiSound, NEW c \in Clients, NEW s \in RpiSurfaces,
         Rpi!Revoke(c, s)
  PROVE  RpiSound'
<1>1. /\ r_pc[c] = [at |-> "revoke", on |-> s] /\ Rpi!Drop(c, r_owner[s])
      /\ r_offered' = r_offered \ {s}
      /\ UNCHANGED <<r_named, r_used, r_running, r_users, r_owner, r_holders,
           r_listed,
                     r_native>>
  BY DEF Rpi!Revoke
<1>2. RpiGoing(c, s) /\ Rpi!Built(s) /\ r_holders[s] = {} /\ s \notin r_listed
  <2>1. RpiGoing(c, s) /\ r_pc[c].at = "revoke"
    BY <1>1 DEF RpiGoing
  <2>2. r_owner[s] # Rpi!None /\ r_holders[s] = {} /\ s \notin r_listed
    BY <2>1 DEF RpiSound, RpiLiving
  <2>. QED
    BY <2>1, <2>2, RpiBuilt
<1>3. PICK d \in RpiDisplays : d = r_owner[s] /\ r_refs[d] > 0
  BY <1>2, RpiReferenced
<1>4. /\ RpiMapped'
      /\ r_refs' \in [RpiDisplays -> Nat] /\ r_pc' \in [Clients -> RpiCalls]
      /\ r_refs'[d] = r_refs[d] - 1
      /\ \A e \in RpiDisplays \ {d} : r_refs'[e] = r_refs[e]
      /\ \A t \in RpiSurfaces : ~RpiGoing(c, t)'
      /\ \A e \in Clients \ {c}, t \in RpiSurfaces : RpiGoing(e, t)'
           <=> RpiGoing(e, t)
  BY <1>1, <1>3, RpiDropped DEF RpiSound
<1>5. /\ \A e \in Clients : ~RpiGoing(e, s)'
      /\ \A e \in Clients, t \in RpiSurfaces \ {s} : RpiGoing(e, t)'
           <=> RpiGoing(e, t)
      /\ \A e \in Clients, t \in RpiSurfaces : RpiGoing(e, t)'
           => r_pc'[e] = r_pc[e]
  <2>1. \A e \in Clients \ {c} : ~RpiGoing(e, s)
    BY <1>2 DEF RpiSound, RpiLiving
  <2>2. \A t : t # s => ~RpiGoing(c, t)
    BY <1>1 DEF RpiGoing
  <2>3. \A e \in Clients \ {c} : r_pc'[e] = r_pc[e]
    BY <1>1 DEF Rpi!Drop, RpiSound, RpiTypes
  <2>. QED
    BY <1>4, <2>1, <2>2, <2>3
<1>6. /\ ~Rpi!Built(s)'
      /\ \A t \in RpiSurfaces \ {s} : Rpi!Built(t)' <=> Rpi!Built(t)
  BY <1>1, <1>2, <1>5 DEF Rpi!Built, Rpi!Going, RpiGoing
<1>7. /\ s \in RpiOf(d) /\ RpiOf(d)' = RpiOf(d) \ {s}
      /\ \A e \in RpiDisplays \ {d} : RpiOf(e)' = RpiOf(e)
  BY <1>1, <1>2, <1>3, <1>6 DEF RpiOf
<1>8. RpiTypes'
  BY <1>1, <1>4 DEF RpiSound, RpiTypes
<1>9. RpiCounted'
  <2>1. IsFiniteSet(RpiOf(d)) /\ IsFiniteSet(r_users[d])
    BY <1>3 DEF RpiSound, RpiCounted
  <2>2. /\ IsFiniteSet(RpiOf(d)')
        /\ Cardinality(RpiOf(d)') = Cardinality(RpiOf(d)) - 1
    <3>1. RpiOf(d)' = RpiOf(d) \ {s} /\ s \in RpiOf(d)
      BY <1>7
    <3>. QED
      BY <2>1, <3>1, OneLess
  <2>3. Cardinality(r_users[d]) \in Nat /\ Cardinality(RpiOf(d)) \in Nat
    BY <2>1, FS_CardinalityType
  <2>4. r_refs[d] = Cardinality(r_users[d]) + Cardinality(RpiOf(d))
    BY <1>3 DEF RpiSound, RpiCounted
  <2>5. r_refs'[d] = Cardinality(r_users'[d]) + Cardinality(RpiOf(d)')
    BY <1>1, <1>4, <2>2, <2>3, <2>4
  <2>6. \A e \in RpiDisplays \ {d} :
          /\ IsFiniteSet(r_users'[e]) /\ IsFiniteSet(RpiOf(e)')
          /\ r_refs'[e] = Cardinality(r_users'[e]) + Cardinality(RpiOf(e)')
    BY <1>1, <1>4, <1>7 DEF RpiSound, RpiCounted
  <2>7. IsFiniteSet(r_users'[d])
    BY <1>1, <2>1
  <2>8. SUFFICES
          ASSUME NEW e \in RpiDisplays
          PROVE  (/\ IsFiniteSet(r_users[e]) /\ IsFiniteSet(RpiOf(e))
                  /\ r_refs[e]
                       = Cardinality(r_users[e]) + Cardinality(RpiOf(e)))'
    BY DEF RpiCounted
  <2>9. CASE e = d
    BY <2>2, <2>5, <2>7, <2>9
  <2>10. CASE e # d
    BY <2>6, <2>10
  <2>. QED
    BY <2>9, <2>10
<1>10. RpiLiving'
  <2>1. \A t \in (r_listed \cup r_offered)' : Rpi!Built(t)'
    BY <1>1, <1>2, <1>6 DEF RpiSound, RpiLiving, RpiTypes
  <2>. QED
    BY <1>1, <1>5, <2>1 DEF RpiSound, RpiLiving
<1>. QED
  BY <1>4, <1>8, <1>9, <1>10 DEF RpiSound

\* What the compositor sets, and what the application reads from the pipe, is in
\* range: opacities are clamped, layers turned over, movements clamped, touches
\* scaled.
LEMMA RpiRemote ==
  ASSUME RpiValues, NEW s \in RpiSurfaces, Rpi!Opacity(s) \/ Rpi!ZOrder(s)
  PROVE  RpiValues'
<1>1. r_remote \in [RpiSurfaces -> [opacity : Nat, layer : Nat]]
  BY DEF RpiValues
<1>2. PICK value \in [opacity : Nat, layer : Nat] :
        /\ r_remote' = [r_remote EXCEPT ![s] = value]
        /\ r_remote[s].opacity <= Rpi!MaxOpacity
             => value.opacity <= Rpi!MaxOpacity
        /\ r_remote[s].layer <= Rpi!VideoLayer => value.layer <= Rpi!VideoLayer
  <2>1. CASE Rpi!Opacity(s)
    <3>1. PICK v \in Rpi!Opacities :
            r_remote' = [r_remote EXCEPT ![s].opacity =
                           IF v > Rpi!MaxOpacity THEN Rpi!MaxOpacity ELSE v]
      BY <2>1 DEF Rpi!Opacity
    <3>2. PICK new \in Nat :
            /\ new = IF v > Rpi!MaxOpacity THEN Rpi!MaxOpacity ELSE v
            /\ new <= Rpi!MaxOpacity
      BY <3>1 DEF Rpi!Opacities, Rpi!MaxOpacity
    <3>3. r_remote'
            = [r_remote EXCEPT ![s] = [r_remote[s] EXCEPT !.opacity = new]]
      BY <3>1, <3>2
    <3>4. /\ r_remote[s] \in [opacity : Nat, layer : Nat]
          /\ [r_remote[s] EXCEPT !.opacity = new]
               = [opacity |-> new, layer |-> r_remote[s].layer]
      BY <1>1
    <3>5. [opacity |-> new, layer |-> r_remote[s].layer] \in [opacity :
            Nat, layer : Nat]
      BY <3>2, <3>4
    <3>6. r_remote'
            = [r_remote EXCEPT ![s]
              = [opacity |-> new, layer |-> r_remote[s].layer]]
      BY <3>3, <3>4
    <3>. QED
      BY <3>2, <3>5, <3>6
  <2>2. CASE Rpi!ZOrder(s)
    <3>1. PICK v \in Rpi!Layers :
            r_remote' = [r_remote EXCEPT ![s].layer = Rpi!Turned(v)]
      BY <2>2 DEF Rpi!ZOrder
    <3>2. PICK new \in Nat : new = Rpi!Turned(v) /\ new <= Rpi!VideoLayer
      BY <3>1 DEF Rpi!Layers, Rpi!VideoLayer, Rpi!Turned
    <3>3. r_remote'
            = [r_remote EXCEPT ![s] = [r_remote[s] EXCEPT !.layer = new]]
      BY <3>1, <3>2
    <3>4. /\ r_remote[s] \in [opacity : Nat, layer : Nat]
          /\ [r_remote[s] EXCEPT !.layer = new]
               = [opacity |-> r_remote[s].opacity, layer |-> new]
      BY <1>1
    <3>5. [opacity |-> r_remote[s].opacity, layer |-> new] \in [opacity :
            Nat, layer : Nat]
      BY <3>2, <3>4
    <3>6. r_remote'
            = [r_remote EXCEPT ![s]
              = [opacity |-> r_remote[s].opacity, layer |-> new]]
      BY <3>3, <3>4
    <3>. QED
      <4> DEFINE value == [opacity |-> r_remote[s].opacity, layer |-> new]
      <4>1. value.opacity = r_remote[s].opacity /\ value.layer = new
        OBVIOUS
      <4> HIDE DEF value
      <4>. QED
        <5>1. value \in [opacity : Nat, layer : Nat]
                /\ r_remote' = [r_remote EXCEPT ![s] = value]
          BY <3>5, <3>6 DEF value
        <5>. QED
          BY <3>2, <4>1, <5>1
  <2>. QED
    BY <2>1, <2>2
<1>3. /\ r_remote' \in [RpiSurfaces -> [opacity : Nat, layer : Nat]]
      /\ r_remote'[s] = value
      /\ \A t \in RpiSurfaces \ {s} : r_remote'[t] = r_remote[t]
  BY <1>1, <1>2
<1>4. UNCHANGED <<r_queue, r_pointer, r_touch>>
  BY DEF Rpi!Opacity, Rpi!ZOrder, Rpi!inputVars
<1>. QED
  BY <1>2, <1>3, <1>4 DEF RpiValues, Rpi!ValuesFit

LEMMA RpiWrite ==
  ASSUME Rpi!RpiAssumption, RpiValues, NEW event \in Rpi!Events,
         Rpi!Write(event)
  PROVE  RpiValues'
<1>1. /\ r_queue' = Append(r_queue, event) /\ Len(r_queue) < MaxQueued
      /\ UNCHANGED <<r_remote, r_pointer, r_touch>>
  BY DEF Rpi!Write, Rpi!surfaceVars
<1>2. r_queue' \in Seq(Rpi!Events) /\ Len(r_queue') <= MaxQueued
  BY <1>1 DEF RpiValues, Rpi!RpiAssumption
<1>. QED
  BY <1>1, <1>2 DEF RpiValues, Rpi!ValuesFit

LEMMA RpiProcess ==
  ASSUME Rpi!RpiAssumption, RpiValues, NEW c \in Clients, NEW d \in RpiDisplays,
         Rpi!Process(c, d)
  PROVE  RpiValues'
<1>1. /\ r_queue \in Seq(Rpi!Events) /\ Len(r_queue) <= MaxQueued
      /\ r_queue # << >>
  BY DEF RpiValues, Rpi!Process
<1>2. PICK event \in Rpi!Events : event = Head(r_queue)
  BY <1>1
<1>3. /\ r_queue' \in Seq(Rpi!Events) /\ Len(r_queue') <= MaxQueued
      /\ UNCHANGED r_remote
  <2>1. r_queue' = Tail(r_queue)
    BY DEF Rpi!Process
  <2>2. Tail(r_queue) \in Seq(Rpi!Events) /\ Len(Tail(r_queue)) <= Len(r_queue)
    BY <1>1
  <2>. QED
    BY <1>1, <2>1, <2>2 DEF Rpi!Process, Rpi!surfaceVars, Rpi!RpiAssumption
<1>4. Width \in Nat /\ Width > 0 /\ Width <= 65535 /\ Rpi!MaxTouch = 65535
  BY DEF Rpi!RpiAssumption, Rpi!MaxTouch
<1>5. /\ r_pointer' \in [RpiDisplays -> Int]
      /\ \A e \in RpiDisplays : r_pointer'[e] \in 0..(Width - 1)
  <2>1. /\ r_pointer \in [RpiDisplays -> Int]
        /\ \A e \in RpiDisplays : r_pointer[e] \in 0..(Width - 1)
    BY DEF RpiValues, Rpi!ValuesFit
  <2>2. CASE event.type = "mouse"
    <3>1. event.move \in Int
      BY <1>4, <2>2 DEF Rpi!Events, Rpi!Moves
    <3>2. PICK x \in Int : /\ x = Rpi!Clamped(r_pointer[d] + event.move)
                           /\ x \in 0..(Width - 1)
      BY <1>4, <2>1, <3>1 DEF Rpi!Clamped
    <3>3. r_pointer' = [r_pointer EXCEPT ![d] = x]
      BY <1>2, <2>2, <3>2 DEF Rpi!Process
    <3>. QED
      BY <2>1, <3>2, <3>3
  <2>3. CASE event.type # "mouse"
    BY <1>2, <2>1, <2>3 DEF Rpi!Process
  <2>. QED
    BY <2>2, <2>3
<1>6. /\ r_touch' \in [RpiDisplays -> 0..Rpi!MaxTouch]
      /\ \A e \in RpiDisplays :
           r_touch'[e] \in 0..(Width - 1) \cup {Rpi!MaxTouch}
  <2>1. /\ r_touch \in [RpiDisplays -> 0..Rpi!MaxTouch]
        /\ \A e \in RpiDisplays :
             r_touch[e] \in 0..(Width - 1) \cup {Rpi!MaxTouch}
    BY DEF RpiValues, Rpi!ValuesFit
  <2>2. CASE event.type = "touch"
    <3>1. event.at \in {0, 65535}
      BY <1>4, <2>2 DEF Rpi!Events, Rpi!Touches
    <3>2. 0 <= Rpi!Scaled(event.at) /\ Rpi!Scaled(event.at) <= Width - 1
      BY <1>4, <3>1 DEF Rpi!Scaled
    <3>3. Rpi!Scaled(event.at) \in Int
      BY <1>4, <3>1 DEF Rpi!Scaled
    <3>4. Rpi!Scaled(event.at) \in 0..(Width - 1)
      BY <3>2, <3>3, <1>4
    <3>5. 0..(Width - 1) \subseteq 0..Rpi!MaxTouch
      <4>1. Width \in Nat /\ Rpi!MaxTouch \in Nat /\ Width <= Rpi!MaxTouch
        BY <1>4
      <4>. QED
        BY <4>1
    <3>6. PICK x \in 0..Rpi!MaxTouch : x = Rpi!Scaled(event.at)
            /\ x \in 0..(Width - 1)
      BY <3>4, <3>5, Zenon
    <3>7. r_touch' = [r_touch EXCEPT ![d] = x]
      BY <1>2, <2>2, <3>6 DEF Rpi!Process
    <3>. QED
      BY <2>1, <3>6, <3>7
  <2>3. CASE event.type # "touch"
    BY <1>2, <2>1, <2>3 DEF Rpi!Process
  <2>. QED
    BY <2>2, <2>3
<1>. QED
  BY <1>3, <1>5, <1>6 DEF RpiValues, Rpi!ValuesFit

\* A new display, and one that is closed, start with an empty pipe.
LEMMA RpiEmptied ==
  ASSUME Rpi!RpiAssumption, RpiValues, r_queue' = r_queue \/ r_queue' = << >>,
         UNCHANGED <<r_remote, r_pointer, r_touch>>
  PROVE  RpiValues'
<1>1. << >> \in Seq(Rpi!Events) /\ Len(<< >>) = 0
  OBVIOUS
<1>2. /\ r_queue \in Seq(Rpi!Events) /\ Len(r_queue) <= MaxQueued
      /\ MaxQueued \in Nat
  BY DEF RpiValues, Rpi!RpiAssumption
<1>3. CASE r_queue' = r_queue
  BY <1>2, <1>3, RpiValuesSame
<1>4. CASE r_queue' = << >>
  <2>1. r_queue' \in Seq(Rpi!Events)
    BY <1>1, <1>4
  <2>2. Len(r_queue') = 0
    BY <1>4
  <2>. QED
    BY <1>2, <2>1, <2>2 DEF RpiValues, Rpi!ValuesFit
<1>. QED
  BY <1>3, <1>4

LEMMA RpiNext ==
  ASSUME Rpi!RpiAssumption, RpiInv, [Rpi!Next]_(Rpi!vars)
  PROVE  RpiInv'
<1>. RpiSound /\ RpiValues
  BY DEF RpiInv
<1>1. CASE UNCHANGED Rpi!vars
  BY <1>1, RpiSame, RpiValuesSame DEF Rpi!vars, RpiInv
<1>2. ASSUME NEW c \in Clients, Rpi!Instance(c) PROVE RpiInv'
  <2>1. UNCHANGED <<r_remote, r_pointer, r_touch>>
          /\ (r_queue' = r_queue \/ r_queue' = << >>)
    BY <1>2 DEF Rpi!Instance, Rpi!Initialize, Rpi!surfaceVars
  <2>. QED
    BY <1>2, <2>1, RpiInstance, RpiEmptied DEF RpiInv
<1>3. ASSUME NEW c \in Clients, NEW d \in RpiDisplays,
             \/ Rpi!Release(c, d) \/ Rpi!Erase(c, d) \/ Rpi!Deinitialize(c, d)
             \/ Rpi!Create(c, d) \/ Rpi!Process(c, d)
      PROVE  RpiInv'
  <2>1. CASE Rpi!Release(c, d)
    <3>1. UNCHANGED <<r_remote, r_queue, r_pointer, r_touch>>
      BY <2>1 DEF Rpi!Release, Rpi!surfaceVars, Rpi!inputVars
    <3>. QED
      BY <2>1, <3>1, RpiRelease, RpiValuesSame DEF RpiInv
  <2>2. CASE Rpi!Erase(c, d) \/ Rpi!Deinitialize(c, d)
    <3>1. UNCHANGED <<r_remote, r_pointer, r_touch>>
            /\ (r_queue' = r_queue \/ r_queue' = << >>)
      BY <2>2 DEF Rpi!Erase, Rpi!Deinitialize, Rpi!surfaceVars, Rpi!inputVars
    <3>. QED
      BY <2>2, <3>1, RpiErase, RpiEmptied DEF RpiInv
  <2>3. CASE Rpi!Create(c, d)
    <3>1. UNCHANGED <<r_remote, r_queue, r_pointer, r_touch>>
      BY <2>3 DEF Rpi!Create, Rpi!CreateSurface, Rpi!Register,
           Rpi!OfferClientInterface, Rpi!inputVars
    <3>. QED
      BY <2>3, <3>1, RpiCreate, RpiValuesSame DEF RpiInv
  <2>4. CASE Rpi!Process(c, d)
    <3>1. UNCHANGED <<r_named, r_used, r_running, r_refs, r_users, r_owner,
            r_holders,
                      r_listed, r_native, r_offered, r_pc>>
      BY <2>4 DEF Rpi!Process, Rpi!surfaceVars
    <3>. QED
      BY <2>4, <3>1, RpiSame, RpiProcess DEF RpiInv
  <2>. QED
    BY <1>3, <2>1, <2>2, <2>3, <2>4
<1>4. ASSUME NEW c \in Clients, NEW s \in RpiSurfaces,
             Rpi!ReleaseSurface(c, s) \/ Rpi!Unregister(c, s)
               \/ Rpi!Revoke(c, s)
      PROVE  RpiInv'
  <2>1. UNCHANGED <<r_remote, r_queue, r_pointer, r_touch>>
    BY <1>4 DEF Rpi!ReleaseSurface, Rpi!Unregister, Rpi!DestroySurface, Rpi!Revoke,
         Rpi!inputVars
  <2>. QED
    BY <1>4, <2>1, RpiGoes, RpiRevoke, RpiValuesSame DEF RpiInv
<1>5. ASSUME NEW s \in RpiSurfaces, Rpi!Opacity(s) \/ Rpi!ZOrder(s)
      PROVE  RpiInv'
  <2>1. UNCHANGED <<r_named, r_used, r_running, r_refs, r_users, r_owner,
          r_holders,
                    r_listed, r_native, r_offered, r_pc>>
    BY <1>5 DEF Rpi!Opacity, Rpi!ZOrder
  <2>. QED
    BY <1>5, <2>1, RpiSame, RpiRemote DEF RpiInv
<1>6. ASSUME NEW event \in Rpi!Events, Rpi!Write(event) PROVE RpiInv'
  <2>1. UNCHANGED <<r_named, r_used, r_running, r_refs, r_users, r_owner,
          r_holders,
                    r_listed, r_native, r_offered, r_pc>>
    BY <1>6 DEF Rpi!Write, Rpi!surfaceVars
  <2>. QED
    BY <1>6, <2>1, RpiSame, RpiWrite DEF RpiInv
<1>. QED
  BY <1>1, <1>2, <1>3, <1>4, <1>5, <1>6 DEF Rpi!Next

LEMMA RpiAlways == ASSUME Rpi!RpiAssumption PROVE Rpi!Spec => []RpiInv
<1>1. Rpi!Init => RpiInv
  BY RpiInit
<1>2. RpiInv /\ [Rpi!Next]_(Rpi!vars) => RpiInv'
  BY RpiNext
<1>. QED
  BY <1>1, <1>2, PTL DEF Rpi!Spec

LEMMA RpiProperties ==
  ASSUME Rpi!RpiAssumption, RpiInv
  PROVE  /\ Rpi!TypeOK /\ Rpi!ReferencesBalance /\ Rpi!RegistriesAreSound
         /\ Rpi!ValuesFit
<1>. RpiSound /\ RpiValues
  BY DEF RpiInv
<1>1. Rpi!TypeOK
  <2>1. \A c \in Clients :
          r_pc[c].at \in {"idle", "erase", "close", "destroy", "revoke"}
    BY DEF RpiSound, RpiTypes, RpiCalls
  <2>. QED
    BY <2>1 DEF RpiSound, RpiTypes, RpiValues, Rpi!TypeOK
<1>2. Rpi!ReferencesBalance
  BY DEF RpiSound, RpiCounted, RpiOf, Rpi!ReferencesBalance, Rpi!Cardinality,
         Cardinality
<1>3. Rpi!RegistriesAreSound
  <2>1. r_named # Rpi!None
          => r_named \in r_running
            /\ (r_refs[r_named] > 0 \/ Rpi!Dying(r_named))
    BY DEF RpiSound, RpiMapped, RpiDying, Rpi!Dying
  <2>2. ASSUME NEW s \in r_listed \cup r_offered
        PROVE  /\ Rpi!Built(s) /\ r_owner[s] \in r_running
               /\ r_refs[r_owner[s]] > 0
               /\ r_named = r_owner[s]
    <3>1. s \in RpiSurfaces /\ Rpi!Built(s)
      BY DEF RpiSound, RpiTypes, RpiLiving
    <3>2. r_owner[s] \in RpiDisplays /\ r_refs[r_owner[s]] > 0
      BY <3>1, RpiReferenced
    <3>3. r_named = r_owner[s] /\ r_named # Rpi!None
      BY <3>2 DEF RpiSound, RpiMapped, Rpi!RpiAssumption
    <3>. QED
      BY <3>1, <3>2, <3>3, <2>1 DEF RpiSound, RpiMapped
  <2>. QED
    BY <2>1, <2>2 DEF Rpi!RegistriesAreSound
<1>4. Rpi!ValuesFit
  BY DEF RpiValues
<1>. QED
  BY <1>1, <1>2, <1>3, <1>4

-----------------------------------------------------------------------------
(* The Westeros backend *)

\* The object is found by an id; the maps it is in.
WaylandIdentified(o) == \E i \in Ids : w_byId[i] = o
WaylandMaps(o) ==
  (IF o \in w_byWayland THEN 1 ELSE 0) + (IF WaylandIdentified(o) THEN 1 ELSE 0)
WaylandHolds(o) == WaylandMaps(o) + (IF o \in w_held THEN 1 ELSE 0)

WaylandTypes ==
  /\ w_users \subseteq Clients /\ w_up \in BOOLEAN /\ w_collect \in BOOLEAN
  /\ w_bound \subseteq Wayland!Globals \cup Wayland!OfSeat
  /\ w_made \subseteq Wrappers
  /\ w_count \in [Wrappers -> Nat]
  /\ w_held \subseteq w_made /\ w_linked \subseteq w_made
  /\ w_byWayland \subseteq w_made /\ w_frames \subseteq w_made
  /\ w_byId \in [Ids -> Wrappers \cup {Wayland!None}]

\* One id for an object, and each is counted for what holds it.
WaylandCounted ==
  /\ \A i \in Ids : w_byId[i] \in w_made \cup {Wayland!None}
  /\ \A i, j \in Ids : w_byId[i] = w_byId[j] /\ w_byId[i] # Wayland!None
       => i = j
  /\ \A o \in w_made :
       /\ w_count[o] >= WaylandHolds(o)
       /\ o \in w_linked /\ o \in w_byWayland => w_count[o] = WaylandHolds(o)

\* Who is in no map has not the focus, and without a display the maps are empty.
WaylandMapped ==
  /\ w_up <=> w_users # {}
  /\ w_focus \in w_byWayland \cup {Wayland!None}
  /\ ~w_up => w_byWayland = {} /\ \A i \in Ids : w_byId[i] = Wayland!None

WaylandKnown == WaylandTypes /\ WaylandCounted /\ WaylandMapped

\* A keyboard that is set has the key map in force: only what is made has one.
WaylandKeyed ==
  /\ w_keyMap \in KeyMaps \cup {Wayland!None}
  /\ w_keyboards \in [Wrappers -> KeyMaps \cup {"", Wayland!None}]
  /\ \A o \in Wrappers \ w_made : w_keyboards[o] = Wayland!None
  /\ \A o \in w_byWayland : w_keyboards[o] \in {Wayland!None, Wayland!Mapping}

\* One signal for each client that waits.
WaylandDrawn ==
  /\ w_trigger \in Nat /\ w_redraw \in Nat
  /\ w_flusher \in {"none", "wait", "flush"}
  /\ IsFiniteSet(w_waiting) /\ w_waiting \subseteq w_users
  /\ Cardinality(w_waiting)
       = w_trigger + w_redraw + (IF w_flusher = "flush" THEN 1 ELSE 0)

WaylandInv == WaylandKnown /\ WaylandKeyed /\ WaylandDrawn

LEMMA WaylandInMaps ==
  ASSUME WaylandCounted, NEW o, o # Wayland!None
  PROVE  Wayland!InMaps(o) = WaylandMaps(o) /\ WaylandMaps(o) \in 0..2
<1> DEFINE S == {i \in Ids : w_byId[i] = o}
<1>1. S = {} \/ \E i \in Ids : S = {i}
  BY DEF WaylandCounted
<1>2. Cardinality(S) = IF WaylandIdentified(o) THEN 1 ELSE 0
  BY <1>1, FS_EmptySet, FS_Singleton DEF WaylandIdentified
<1>3. Wayland!Cardinality(S) = Cardinality(S)
  BY DEF Wayland!Cardinality, Cardinality
<1>4. Wayland!InMaps(o)
        = (IF o \in w_byWayland THEN 1 ELSE 0) + Wayland!Cardinality(S)
  BY DEF Wayland!InMaps
<1>. QED
  BY <1>2, <1>3, <1>4 DEF WaylandMaps

LEMMA WaylandKnows ==
  ASSUME NEW o
  PROVE  o \in Wayland!Known <=> o # Wayland!None /\ WaylandIdentified(o)
BY DEF Wayland!Known, WaylandIdentified

LEMMA WaylandInit ==
  ASSUME Wayland!WesterosAssumption, Wayland!Init
  PROVE  WaylandInv
<1>1. WaylandKnown
  BY DEF Wayland!Init, WaylandKnown, WaylandTypes, WaylandCounted, WaylandMapped
<1>2. WaylandKeyed
  BY DEF Wayland!Init, WaylandKeyed
<1>3. WaylandDrawn
  BY FS_EmptySet DEF Wayland!Init, WaylandDrawn
<1>. QED
  BY <1>1, <1>2, <1>3 DEF WaylandInv

-----------------------------------------------------------------------------
\* What a step leaves alone stays as it was.
LEMMA WaylandKnownSame ==
  ASSUME WaylandKnown, w_frames' \subseteq w_made',
         UNCHANGED <<w_users, w_up, w_bound, w_made, w_count, w_held, w_linked,
                     w_byWayland, w_byId, w_focus>>,
         w_collect' \in BOOLEAN
  PROVE  WaylandKnown'
<1>1. \A o : WaylandHolds(o)' = WaylandHolds(o)
  BY DEF WaylandHolds, WaylandMaps, WaylandIdentified
<1>. QED
  BY <1>1 DEF WaylandKnown, WaylandTypes, WaylandCounted, WaylandMapped

LEMMA WaylandKeyedSame ==
  ASSUME WaylandKeyed, UNCHANGED <<w_keyMap, w_keyboards>>,
         w_made \subseteq w_made',
         \A o \in w_byWayland' : o \in w_byWayland
           \/ (o \in Wrappers /\ o \notin w_made)
  PROVE  WaylandKeyed'
BY DEF WaylandKeyed, Wayland!Mapping

LEMMA WaylandDrawnSame ==
  ASSUME WaylandDrawn, UNCHANGED <<w_trigger, w_redraw, w_flusher, w_waiting>>,
         w_users \subseteq w_users'
  PROVE  WaylandDrawn'
BY DEF WaylandDrawn

LEMMA WaylandInstance ==
  ASSUME WaylandInv, NEW c \in Clients, Wayland!Instance(c)
  PROVE  WaylandInv'
<1>1. /\ w_users' = w_users \cup {c} /\ w_up' = TRUE
      /\ UNCHANGED <<w_collect, w_made, w_count, w_held, w_linked, w_byWayland,
           w_byId,
                     w_focus, w_keyMap, w_keyboards, w_frames, w_waiting>>
  BY DEF Wayland!Instance, Wayland!Initialize, Wayland!surfaceVars, Wayland!inputVars
<1>2. WaylandKnown'
  <2>1. \A o : WaylandHolds(o)' = WaylandHolds(o)
    BY <1>1 DEF WaylandHolds, WaylandMaps, WaylandIdentified
  <2>2. WaylandCounted'
    BY <1>1, <2>1 DEF WaylandInv, WaylandKnown, WaylandCounted
  <2>3. w_bound' \subseteq Wayland!Globals \cup Wayland!OfSeat
    BY DEF Wayland!Instance, Wayland!Initialize, Wayland!OfSeat, WaylandInv, WaylandKnown,
           WaylandTypes
  <2>4. w_users' \subseteq Clients /\ w_users' # {}
    BY <1>1 DEF WaylandInv, WaylandKnown, WaylandTypes
  <2>5. WaylandTypes'
    BY <1>1, <2>3, <2>4 DEF WaylandInv, WaylandKnown, WaylandTypes
  <2>6. WaylandMapped'
    BY <1>1, <2>4 DEF WaylandInv, WaylandKnown, WaylandMapped
  <2>. QED
    BY <2>2, <2>5, <2>6 DEF WaylandKnown
<1>3. WaylandKeyed'
  BY <1>1, WaylandKeyedSame DEF WaylandInv
<1>4. WaylandDrawn'
  <2>1. CASE w_up
    <3>1. /\ UNCHANGED <<w_trigger, w_redraw, w_flusher, w_waiting>>
          /\ w_users \subseteq w_users'
      BY <1>1, <2>1 DEF Wayland!Instance, Wayland!Initialize
    <3>. QED
      BY <3>1, WaylandDrawnSame DEF WaylandInv
  <2>2. CASE ~w_up
    <3>1. w_trigger' = 0 /\ w_redraw' = 0 /\ w_flusher' = "wait"
      BY <2>2 DEF Wayland!Instance, Wayland!Initialize
    <3>2. w_waiting = {}
      BY <2>2 DEF WaylandInv, WaylandDrawn, WaylandKnown, WaylandMapped
    <3>. QED
      BY <1>1, <3>1, <3>2, FS_EmptySet DEF WaylandDrawn
  <2>. QED
    BY <2>1, <2>2
<1>. QED
  BY <1>2, <1>3, <1>4 DEF WaylandInv

LEMMA WaylandRelease ==
  ASSUME Wayland!WesterosAssumption, WaylandInv, NEW c \in Clients,
         Wayland!Release(c)
  PROVE  WaylandInv'
<1>1. /\ w_users' = w_users \ {c} /\ w_waiting = {}
      /\ UNCHANGED <<w_collect, w_made, w_held, w_keyMap, w_keyboards, w_redraw,
           w_waiting>>
  BY DEF Wayland!Release, Wayland!surfaceVars, Wayland!inputVars,
         Wayland!drawVars
<1>2. w_trigger = 0 /\ w_redraw = 0 /\ w_flusher # "flush"
  <2>1. Cardinality(w_waiting) = 0
    BY <1>1, FS_EmptySet
  <2>. QED
    BY <2>1 DEF WaylandInv, WaylandDrawn
<1>3. CASE w_users # {c}
  <2>1. UNCHANGED <<w_up, w_bound, w_count, w_linked, w_byWayland, w_byId,
          w_focus,
                    w_frames, w_trigger, w_flusher>>
    BY <1>3
       DEF Wayland!Release, Wayland!surfaceVars, Wayland!inputVars,
           Wayland!drawVars
  <2>2. \A o : WaylandHolds(o)' = WaylandHolds(o)
    BY <1>1, <2>1 DEF WaylandHolds, WaylandMaps, WaylandIdentified
  <2>3. c \in w_users /\ w_users' # {} /\ w_users' \subseteq Clients
    BY <1>1, <1>3 DEF Wayland!Release, WaylandInv, WaylandKnown, WaylandTypes
  <2>4. WaylandKnown'
    BY <1>1, <2>1, <2>2, <2>3
       DEF WaylandInv, WaylandKnown, WaylandTypes, WaylandCounted, WaylandMapped
  <2>5. WaylandKeyed'
    BY <1>1, <2>1, WaylandKeyedSame DEF WaylandInv
  <2>6. WaylandDrawn'
    BY <1>1, <2>1 DEF WaylandInv, WaylandDrawn
  <2>. QED
    BY <2>4, <2>5, <2>6 DEF WaylandInv
<1>4. CASE w_users = {c}
  <2>1. /\ w_up' = FALSE /\ w_bound' = w_bound \cap {"pointer", "touch"}
        /\ w_focus' = Wayland!None
        /\ w_count' = [o \in Wrappers |-> w_count[o] - Wayland!InMaps(o)]
        /\ w_linked' = w_linked \ Wayland!Known
        /\ w_byWayland' = {} /\ w_byId' = [i \in Ids |-> Wayland!None]
        /\ w_frames' = {o \in w_frames : w_count[o] > Wayland!InMaps(o)}
        /\ w_trigger' = 0 /\ w_flusher' = "none"
    BY <1>4 DEF Wayland!Release
  <2>2. \A o \in Wrappers : /\ Wayland!InMaps(o) = WaylandMaps(o)
          /\ o # Wayland!None
          /\ w_count[o] \in Nat /\ WaylandMaps(o) \in 0..2
    BY WaylandInMaps
       DEF WaylandInv, WaylandKnown, WaylandTypes, Wayland!WesterosAssumption
  <2>3. \A o \in Wrappers : o \notin w_made => WaylandMaps(o) = 0
    BY <2>2
       DEF WaylandInv, WaylandKnown, WaylandTypes, WaylandCounted, WaylandMaps,
           WaylandIdentified
  <2>4. \A o \in Wrappers :
          w_count[o] >= WaylandMaps(o) + (IF o \in w_held THEN 1 ELSE 0)
    <3>1. \A o \in w_made :
            w_count[o] >= WaylandMaps(o) + (IF o \in w_held THEN 1 ELSE 0)
      BY DEF WaylandInv, WaylandKnown, WaylandCounted, WaylandHolds
    <3>2. \A o \in Wrappers : o \notin w_made => o \notin w_held
      BY DEF WaylandInv, WaylandKnown, WaylandTypes
    <3>. QED
      BY <2>2, <2>3, <3>1, <3>2
  <2>5. /\ w_count' \in [Wrappers -> Nat]
        /\ \A o \in Wrappers : w_count'[o] >= IF o \in w_held THEN 1 ELSE 0
    <3>1. \A o \in Wrappers : /\ w_count'[o] = w_count[o] - WaylandMaps(o)
                              /\ w_count[o] - WaylandMaps(o) \in Nat
      BY <2>1, <2>2, <2>4
    <3>2. w_count' = [o \in Wrappers |-> w_count'[o]]
      BY <2>1
    <3>. QED
      BY <2>2, <2>4, <3>1, <3>2
  <2>6. \A o \in w_made : WaylandHolds(o)' = IF o \in w_held THEN 1 ELSE 0
    <3>1. \A o \in w_made : o \in Wrappers /\ ~WaylandIdentified(o)'
      BY <2>1, <2>2
         DEF WaylandIdentified, WaylandInv, WaylandKnown, WaylandTypes
    <3>. QED
      BY <1>1, <2>1, <3>1 DEF WaylandHolds, WaylandMaps
  <2>7. WaylandCounted'
    <3>1. \A o \in w_made' : /\ w_count'[o] >= WaylandHolds(o)'
                             /\ o \notin w_byWayland'
      BY <1>1, <2>1, <2>5, <2>6 DEF WaylandInv, WaylandKnown, WaylandTypes
    <3>. QED
      BY <2>1, <3>1 DEF WaylandCounted
  <2>8. WaylandTypes'
    <3>1. /\ w_linked' \subseteq w_made' /\ w_frames' \subseteq w_made'
          /\ w_held' \subseteq w_made'
          /\ w_bound' \subseteq Wayland!Globals \cup Wayland!OfSeat
      BY <1>1, <2>1 DEF WaylandInv, WaylandKnown, WaylandTypes
    <3>. QED
      BY <1>1, <2>1, <2>5, <3>1 DEF WaylandInv, WaylandKnown, WaylandTypes
  <2>9. WaylandMapped'
    BY <1>1, <1>4, <2>1 DEF WaylandMapped
  <2>10. WaylandKeyed'
    BY <1>1, <2>1, WaylandKeyedSame DEF WaylandInv
  <2>11. WaylandDrawn'
    <3>1. Cardinality({}) = 0 /\ IsFiniteSet({})
      BY FS_EmptySet
    <3>. QED
      BY <1>1, <1>2, <2>1, <3>1 DEF WaylandDrawn
  <2>. QED
    BY <2>7, <2>8, <2>9, <2>10, <2>11 DEF WaylandInv, WaylandKnown
<1>. QED
  BY <1>3, <1>4

LEMMA WaylandCreate ==
  ASSUME Wayland!WesterosAssumption, WaylandInv, Wayland!Create
  PROVE  WaylandInv'
<1>1. PICK o \in Wrappers \ w_made :
        /\ w_made' = w_made \cup {o}
        /\ w_count' = [w_count EXCEPT ![o] = 2]
        /\ w_held' = w_held \cup {o} /\ w_linked' = w_linked \cup {o}
        /\ w_byWayland' = w_byWayland \cup {o}
  BY DEF Wayland!Create, Wayland!Construct
<1>2. /\ w_users # {}
      /\ UNCHANGED <<w_users, w_up, w_bound, w_collect, w_byId, w_focus,
           w_keyMap,
                     w_keyboards, w_frames, w_trigger, w_redraw, w_flusher,
                       w_waiting>>
  BY DEF Wayland!Create, Wayland!Construct, Wayland!inputVars, Wayland!drawVars
<1>3. o # Wayland!None /\ ~WaylandIdentified(o)
  BY DEF Wayland!WesterosAssumption, WaylandInv, WaylandKnown, WaylandCounted,
         WaylandIdentified
<1>4. /\ w_count' \in [Wrappers -> Nat] /\ w_count'[o] = 2
      /\ \A p \in w_made : w_count'[p] = w_count[p]
  BY <1>1 DEF WaylandInv, WaylandKnown, WaylandTypes
<1>5. /\ WaylandHolds(o)' = 2
      /\ \A p \in w_made : WaylandHolds(p)' = WaylandHolds(p)
  BY <1>1, <1>2, <1>3 DEF WaylandHolds, WaylandMaps, WaylandIdentified
<1>6. WaylandCounted'
  BY <1>1, <1>2, <1>4, <1>5 DEF WaylandInv, WaylandKnown, WaylandCounted
<1>7. WaylandTypes'
  BY <1>1, <1>2, <1>4 DEF WaylandInv, WaylandKnown, WaylandTypes
<1>8. WaylandMapped'
  BY <1>1, <1>2 DEF WaylandInv, WaylandKnown, WaylandMapped
<1>9. WaylandKeyed'
  BY <1>1, <1>2, WaylandKeyedSame DEF WaylandInv
<1>10. WaylandDrawn'
  BY <1>2, WaylandDrawnSame DEF WaylandInv
<1>. QED
  BY <1>6, <1>7, <1>8, <1>9, <1>10 DEF WaylandInv, WaylandKnown

LEMMA WaylandReleaseSurface ==
  ASSUME WaylandInv, NEW o \in Wrappers, Wayland!ReleaseSurface(o)
  PROVE  WaylandInv'
<1>1. /\ o \in w_held /\ w_held' = w_held \ {o}
      /\ w_count' = [w_count EXCEPT ![o] = @ - 1]
      /\ w_frames' \subseteq w_frames
      /\ UNCHANGED <<w_users, w_up, w_bound, w_collect, w_made, w_linked,
           w_byWayland,
                     w_byId, w_focus, w_keyMap, w_keyboards, w_trigger,
                       w_redraw,
                     w_flusher, w_waiting>>
  BY DEF Wayland!ReleaseSurface, Wayland!inputVars
<1>2. \A p : WaylandMaps(p)' = WaylandMaps(p) /\ WaylandMaps(p) \in 0..2
  BY <1>1 DEF WaylandMaps, WaylandIdentified
<1>3. /\ WaylandHolds(o) = WaylandMaps(o) + 1
      /\ WaylandHolds(o)' = WaylandMaps(o)
      /\ \A p : p # o => WaylandHolds(p)' = WaylandHolds(p)
  BY <1>1, <1>2 DEF WaylandHolds
<1>4. /\ w_count[o] \in Nat /\ w_count[o] >= WaylandMaps(o) + 1 /\ o \in w_made
      /\ o \in w_linked /\ o \in w_byWayland => w_count[o] = WaylandMaps(o) + 1
  BY <1>1, <1>3 DEF WaylandInv, WaylandKnown, WaylandTypes, WaylandCounted
<1>5. w_count[o] - 1 \in Nat
  BY <1>2, <1>4
<1>6. /\ w_count' \in [Wrappers -> Nat] /\ w_count'[o] = w_count[o] - 1
      /\ \A p \in Wrappers \ {o} : w_count'[p] = w_count[p]
  BY <1>1, <1>5 DEF WaylandInv, WaylandKnown, WaylandTypes
<1>7. /\ w_count'[o] >= WaylandHolds(o)'
      /\ o \in w_linked' /\ o \in w_byWayland' => w_count'[o] = WaylandHolds(o)'
  BY <1>1, <1>2, <1>3, <1>4, <1>6
<1>8. WaylandCounted'
  <2>1. \A p \in w_made \ {o} : p \in Wrappers
    BY DEF WaylandInv, WaylandKnown, WaylandTypes
  <2>. QED
    BY <1>1, <1>3, <1>6, <1>7, <2>1 DEF WaylandInv, WaylandKnown, WaylandCounted
<1>9. WaylandTypes'
  BY <1>1, <1>6 DEF WaylandInv, WaylandKnown, WaylandTypes
<1>10. WaylandMapped'
  BY <1>1 DEF WaylandInv, WaylandKnown, WaylandMapped
<1>11. WaylandKeyed'
  BY <1>1, WaylandKeyedSame DEF WaylandInv
<1>12. WaylandDrawn'
  BY <1>1, WaylandDrawnSame DEF WaylandInv
<1>. QED
  BY <1>8, <1>9, <1>10, <1>11, <1>12 DEF WaylandInv, WaylandKnown

LEMMA WaylandSurfaceId ==
  ASSUME Wayland!WesterosAssumption, WaylandInv, NEW o \in Wrappers,
         NEW i \in Ids,
         Wayland!SurfaceId(o, i)
  PROVE  WaylandInv'
<1>1. /\ w_up /\ w_byId[i] = Wayland!None /\ w_byId' = [w_byId EXCEPT ![i] = o]
      /\ UNCHANGED <<w_users, w_up, w_bound, w_collect, w_held, w_focus,
           w_keyMap,
                     w_keyboards, w_frames, w_trigger, w_redraw, w_flusher,
                       w_waiting>>
  BY DEF Wayland!SurfaceId, Wayland!inputVars, Wayland!drawVars
<1>2. o # Wayland!None /\ ~WaylandIdentified(o)
  <2>1. o # Wayland!None
    BY DEF Wayland!WesterosAssumption
  <2>2. CASE o \in w_byWayland \ Wayland!Known
    BY <2>1, <2>2, WaylandKnows
  <2>3. CASE o \notin w_made
    BY <2>1, <2>3
       DEF WaylandInv, WaylandKnown, WaylandCounted, WaylandIdentified
  <2>. QED
    BY <2>1, <2>2, <2>3 DEF Wayland!SurfaceId
<1>3. /\ w_byId' \in [Ids -> Wrappers \cup {Wayland!None}] /\ w_byId'[i] = o
      /\ \A j \in Ids \ {i} : w_byId'[j] = w_byId[j]
  BY <1>1 DEF WaylandInv, WaylandKnown, WaylandTypes
<1>4. /\ WaylandIdentified(o)'
      /\ \A p : p # o /\ p # Wayland!None
           => (WaylandIdentified(p)' <=> WaylandIdentified(p))
  BY <1>1, <1>3 DEF WaylandIdentified
<1>5. /\ o \in w_made' /\ w_made \subseteq w_made' /\ w_made' \subseteq Wrappers
      /\ w_made' \subseteq w_made \cup {o}
      /\ w_byWayland' = w_byWayland \cup {o} /\ w_linked' \subseteq w_made'
      /\ \A p : p # o => (p \in w_linked' <=> p \in w_linked)
      /\ w_count' \in [Wrappers -> Nat]
      /\ \A p \in Wrappers \ {o} : w_count'[p] = w_count[p]
      /\ w_count'[o] >= WaylandHolds(o)'
      /\ o \in w_linked' => w_count'[o] = WaylandHolds(o)'
  <2>1. CASE /\ o \in w_byWayland \ Wayland!Known
             /\ w_count' = [w_count EXCEPT ![o] = @ + 1]
             /\ UNCHANGED <<w_made, w_linked, w_byWayland>>
    <3>1. WaylandHolds(o)' = WaylandHolds(o) + 1 /\ WaylandHolds(o) \in Nat
      BY <1>1, <1>2, <1>4, <2>1 DEF WaylandHolds, WaylandMaps
    <3>2. /\ w_count[o] \in Nat /\ o \in w_made /\ w_count[o] >= WaylandHolds(o)
          /\ o \in w_linked => w_count[o] = WaylandHolds(o)
      BY <2>1 DEF WaylandInv, WaylandKnown, WaylandTypes, WaylandCounted
    <3>3. /\ w_count' \in [Wrappers -> Nat] /\ w_count'[o] = w_count[o] + 1
          /\ \A p \in Wrappers \ {o} : w_count'[p] = w_count[p]
      BY <2>1, <3>2 DEF WaylandInv, WaylandKnown, WaylandTypes
    <3>. QED
      BY <2>1, <3>1, <3>2, <3>3 DEF WaylandInv, WaylandKnown, WaylandTypes
  <2>2. CASE /\ o \notin w_made
             /\ w_made' = w_made \cup {o}
             /\ w_count' = [w_count EXCEPT ![o] = 2]
             /\ w_linked' = w_linked \cup {o}
             /\ w_byWayland' = w_byWayland \cup {o}
    <3>1. o \notin w_held
      BY <2>2 DEF WaylandInv, WaylandKnown, WaylandTypes
    <3>2. WaylandHolds(o)' = 2
      BY <1>1, <1>4, <2>2, <3>1 DEF WaylandHolds, WaylandMaps
    <3>3. /\ w_count' \in [Wrappers -> Nat] /\ w_count'[o] = 2
          /\ \A p \in Wrappers \ {o} : w_count'[p] = w_count[p]
      BY <2>2 DEF WaylandInv, WaylandKnown, WaylandTypes
    <3>. QED
      BY <2>2, <3>2, <3>3 DEF WaylandInv, WaylandKnown, WaylandTypes
  <2>. QED
    BY <2>1, <2>2 DEF Wayland!SurfaceId
<1>6. \A p \in w_made \ {o} : WaylandHolds(p)' = WaylandHolds(p)
  <2>1. \A p \in w_made : p # Wayland!None
    BY DEF WaylandInv, WaylandKnown, WaylandTypes, Wayland!WesterosAssumption
  <2>. QED
    BY <1>1, <1>4, <1>5, <2>1 DEF WaylandHolds, WaylandMaps
<1>7. WaylandCounted'
  <2>1. \A p \in w_made' :
          /\ w_count'[p] >= WaylandHolds(p)'
          /\ p \in w_linked' /\ p \in w_byWayland'
               => w_count'[p] = WaylandHolds(p)'
    <3>1. SUFFICES ASSUME NEW p \in w_made', p # o
                   PROVE  /\ w_count'[p] >= WaylandHolds(p)'
                          /\ p \in w_linked' /\ p \in w_byWayland'
                               => w_count'[p] = WaylandHolds(p)'
      BY <1>5
    <3>2. p \in w_made /\ p \in Wrappers
      BY <1>5, <3>1
    <3>. QED
      BY <1>5, <1>6, <3>1, <3>2 DEF WaylandInv, WaylandKnown, WaylandCounted
  <2>2. \A j \in Ids : w_byId'[j] \in w_made' \cup {Wayland!None}
    BY <1>3, <1>5 DEF WaylandInv, WaylandKnown, WaylandCounted
  <2>3. \A j, k \in Ids : w_byId'[j] = w_byId'[k] /\ w_byId'[j] # Wayland!None
          => j = k
    BY <1>2, <1>3
       DEF WaylandInv, WaylandKnown, WaylandCounted, WaylandIdentified
  <2>. QED
    BY <2>1, <2>2, <2>3 DEF WaylandCounted
<1>8. WaylandTypes'
  BY <1>1, <1>3, <1>5 DEF WaylandInv, WaylandKnown, WaylandTypes
<1>9. WaylandMapped'
  BY <1>1, <1>5 DEF WaylandInv, WaylandKnown, WaylandMapped
<1>10. WaylandKeyed'
  <2>1. \A p \in w_byWayland' : p \in w_byWayland
          \/ (p \in Wrappers /\ p \notin w_made)
    BY <1>5 DEF Wayland!SurfaceId
  <2>. QED
    BY <1>1, <1>5, <2>1, WaylandKeyedSame DEF WaylandInv
<1>11. WaylandDrawn'
  BY <1>1, WaylandDrawnSame DEF WaylandInv
<1>. QED
  BY <1>7, <1>8, <1>9, <1>10, <1>11 DEF WaylandInv, WaylandKnown

LEMMA WaylandSurfaceCreated ==
  ASSUME Wayland!WesterosAssumption, WaylandInv, NEW o \in Wrappers,
         NEW i \in Ids,
         Wayland!SurfaceCreated(o, i)
  PROVE  WaylandInv'
<1>1. /\ w_up /\ o \notin w_made /\ w_made' = w_made \cup {o}
      /\ w_count' = [w_count EXCEPT ![o] = 2]
      /\ w_byId' = [w_byId EXCEPT ![i] = IF @ = Wayland!None THEN o ELSE @]
      /\ UNCHANGED <<w_users, w_up, w_bound, w_collect, w_held, w_linked,
           w_byWayland,
                     w_focus, w_keyMap, w_keyboards, w_frames, w_trigger,
                       w_redraw,
                     w_flusher, w_waiting>>
  BY DEF Wayland!SurfaceCreated, Wayland!inputVars, Wayland!drawVars
<1>2. o # Wayland!None /\ ~WaylandIdentified(o)
  BY <1>1
     DEF Wayland!WesterosAssumption, WaylandInv, WaylandKnown, WaylandCounted,
         WaylandIdentified
<1>3. /\ w_byId' \in [Ids -> Wrappers \cup {Wayland!None}]
      /\ w_byId'[i] = (IF w_byId[i] = Wayland!None THEN o ELSE w_byId[i])
      /\ \A j \in Ids \ {i} : w_byId'[j] = w_byId[j]
  BY <1>1 DEF WaylandInv, WaylandKnown, WaylandTypes
<1>4. \A p : p # o /\ p # Wayland!None
        => (WaylandIdentified(p)' <=> WaylandIdentified(p))
  BY <1>1, <1>3 DEF WaylandIdentified
<1>5. /\ w_count' \in [Wrappers -> Nat] /\ w_count'[o] = 2
      /\ \A p \in Wrappers \ {o} : w_count'[p] = w_count[p]
  BY <1>1 DEF WaylandInv, WaylandKnown, WaylandTypes
<1>6. o \notin w_held /\ o \notin w_byWayland
  BY <1>1 DEF WaylandInv, WaylandKnown, WaylandTypes
<1>7. WaylandHolds(o)' <= 2
  BY <1>1, <1>6 DEF WaylandHolds, WaylandMaps
<1>8. \A p \in w_made : WaylandHolds(p)' = WaylandHolds(p)
  <2>1. \A p \in w_made : p # Wayland!None /\ p # o
    BY <1>1
       DEF WaylandInv, WaylandKnown, WaylandTypes, Wayland!WesterosAssumption
  <2>. QED
    BY <1>1, <1>4, <2>1 DEF WaylandHolds, WaylandMaps
<1>9. WaylandCounted'
  <2>1. \A p \in w_made' :
          /\ w_count'[p] >= WaylandHolds(p)'
          /\ p \in w_linked' /\ p \in w_byWayland'
               => w_count'[p] = WaylandHolds(p)'
    <3>1. SUFFICES ASSUME NEW p \in w_made', p # o
                   PROVE  /\ w_count'[p] >= WaylandHolds(p)'
                          /\ p \in w_linked' /\ p \in w_byWayland'
                               => w_count'[p] = WaylandHolds(p)'
      BY <1>1, <1>5, <1>6, <1>7 DEF WaylandHolds, WaylandMaps
    <3>2. p \in w_made /\ p \in Wrappers
      BY <1>1, <3>1 DEF WaylandInv, WaylandKnown, WaylandTypes
    <3>. QED
      BY <1>1, <1>5, <1>8, <3>1, <3>2
         DEF WaylandInv, WaylandKnown, WaylandCounted
  <2>2. \A j \in Ids : w_byId'[j] \in w_made' \cup {Wayland!None}
    BY <1>1, <1>3 DEF WaylandInv, WaylandKnown, WaylandCounted
  <2>3. \A j, k \in Ids : w_byId'[j] = w_byId'[k] /\ w_byId'[j] # Wayland!None
          => j = k
    BY <1>2, <1>3
       DEF WaylandInv, WaylandKnown, WaylandCounted, WaylandIdentified
  <2>. QED
    BY <2>1, <2>2, <2>3 DEF WaylandCounted
<1>10. WaylandTypes'
  BY <1>1, <1>3, <1>5 DEF WaylandInv, WaylandKnown, WaylandTypes
<1>11. WaylandMapped'
  BY <1>1 DEF WaylandInv, WaylandKnown, WaylandMapped
<1>12. WaylandKeyed'
  BY <1>1, WaylandKeyedSame DEF WaylandInv
<1>13. WaylandDrawn'
  BY <1>1, WaylandDrawnSame DEF WaylandInv
<1>. QED
  BY <1>9, <1>10, <1>11, <1>12, <1>13 DEF WaylandInv, WaylandKnown

LEMMA WaylandSurfaceDestroyed ==
  ASSUME Wayland!WesterosAssumption, WaylandInv, NEW i \in Ids,
         Wayland!SurfaceDestroyed(i)
  PROVE  WaylandInv'
<1>1. PICK o \in Wrappers : o = w_byId[i] /\ o \in w_made /\ o # Wayland!None
  BY DEF Wayland!SurfaceDestroyed, WaylandInv, WaylandKnown, WaylandTypes,
         WaylandCounted
<1>2. /\ w_focus' = IF w_focus = o THEN Wayland!None ELSE w_focus
      /\ w_count' = [w_count EXCEPT ![o] = @ - Wayland!InMaps(o)]
      /\ w_frames' \subseteq w_frames
      /\ w_linked' = w_linked \ {o} /\ w_byWayland' = w_byWayland \ {o}
      /\ w_byId' = [w_byId EXCEPT ![i] = Wayland!None]
      /\ UNCHANGED <<w_users, w_up, w_bound, w_collect, w_made, w_held,
           w_keyMap,
                     w_keyboards, w_trigger, w_redraw, w_flusher, w_waiting>>
  BY <1>1 DEF Wayland!SurfaceDestroyed
<1>3. Wayland!InMaps(o) = WaylandMaps(o) /\ WaylandMaps(o) \in 0..2
  BY <1>1, WaylandInMaps DEF WaylandInv, WaylandKnown
<1>4. /\ w_byId' \in [Ids -> Wrappers \cup {Wayland!None}]
      /\ w_byId'[i] = Wayland!None
      /\ \A j \in Ids \ {i} : w_byId'[j] = w_byId[j]
  BY <1>2 DEF WaylandInv, WaylandKnown, WaylandTypes
<1>5. /\ ~WaylandIdentified(o)'
      /\ \A p : p # o /\ p # Wayland!None
           => (WaylandIdentified(p)' <=> WaylandIdentified(p))
  BY <1>1, <1>4 DEF WaylandIdentified, WaylandInv, WaylandKnown, WaylandCounted
<1>6. WaylandHolds(o)' = (IF o \in w_held THEN 1 ELSE 0)
  BY <1>2, <1>5 DEF WaylandHolds, WaylandMaps
<1>7. w_count[o] \in Nat
        /\ w_count[o] >= WaylandMaps(o) + (IF o \in w_held THEN 1 ELSE 0)
  BY <1>1
     DEF WaylandInv, WaylandKnown, WaylandTypes, WaylandCounted, WaylandHolds
<1>8. /\ w_count[o] - WaylandMaps(o) \in Nat
      /\ w_count[o] - WaylandMaps(o) >= IF o \in w_held THEN 1 ELSE 0
  BY <1>3, <1>7
<1>9. /\ w_count' \in [Wrappers -> Nat] /\ w_count'[o] >= WaylandHolds(o)'
      /\ \A p \in Wrappers \ {o} : w_count'[p] = w_count[p]
  BY <1>2, <1>3, <1>6, <1>8 DEF WaylandInv, WaylandKnown, WaylandTypes
<1>10. \A p \in w_made \ {o} : WaylandHolds(p)' = WaylandHolds(p)
  <2>1. \A p \in w_made : p # Wayland!None
    BY DEF WaylandInv, WaylandKnown, WaylandTypes, Wayland!WesterosAssumption
  <2>. QED
    BY <1>2, <1>5, <2>1 DEF WaylandHolds, WaylandMaps
<1>11. WaylandCounted'
  <2>1. \A p \in w_made' :
          /\ w_count'[p] >= WaylandHolds(p)'
          /\ p \in w_linked' /\ p \in w_byWayland'
               => w_count'[p] = WaylandHolds(p)'
    <3>1. SUFFICES ASSUME NEW p \in w_made, p # o
                   PROVE  /\ w_count'[p] >= WaylandHolds(p)'
                          /\ p \in w_linked' /\ p \in w_byWayland'
                               => w_count'[p] = WaylandHolds(p)'
      BY <1>2, <1>9
    <3>2. p \in Wrappers
      BY DEF WaylandInv, WaylandKnown, WaylandTypes
    <3>. QED
      BY <1>2, <1>9, <1>10, <3>1, <3>2
         DEF WaylandInv, WaylandKnown, WaylandCounted
  <2>2. \A j \in Ids : w_byId'[j] \in w_made' \cup {Wayland!None}
    BY <1>2, <1>4 DEF WaylandInv, WaylandKnown, WaylandCounted
  <2>3. \A j, k \in Ids : w_byId'[j] = w_byId'[k] /\ w_byId'[j] # Wayland!None
          => j = k
    BY <1>4 DEF WaylandInv, WaylandKnown, WaylandCounted
  <2>. QED
    BY <2>1, <2>2, <2>3 DEF WaylandCounted
<1>12. WaylandTypes'
  BY <1>2, <1>4, <1>9 DEF WaylandInv, WaylandKnown, WaylandTypes
<1>13. WaylandMapped'
  <2>1. \A j \in Ids : w_byId'[j] \in {w_byId[j], Wayland!None}
    BY <1>4
  <2>. QED
    BY <1>2, <2>1 DEF WaylandInv, WaylandKnown, WaylandMapped
<1>14. WaylandKeyed'
  BY <1>2, WaylandKeyedSame DEF WaylandInv
<1>15. WaylandDrawn'
  BY <1>2, WaylandDrawnSame DEF WaylandInv
<1>. QED
  BY <1>11, <1>12, <1>13, <1>14, <1>15 DEF WaylandInv, WaylandKnown

\* The focus, and the keyboards.
LEMMA WaylandKeyboard ==
  ASSUME Wayland!WesterosAssumption, WaylandInv, NEW o \in Wrappers,
         \/ Wayland!KeyboardEnter(o) \/ Wayland!KeyboardLeave(o)
         \/ Wayland!Keyboard(o)
  PROVE  WaylandInv'
<1>1. UNCHANGED <<w_users, w_up, w_bound, w_collect, w_made, w_count, w_held,
        w_linked,
                  w_byWayland, w_byId, w_keyMap, w_frames, w_trigger, w_redraw,
                  w_flusher, w_waiting>>
  BY DEF Wayland!KeyboardEnter, Wayland!KeyboardLeave, Wayland!Keyboard,
         Wayland!surfaceVars, Wayland!drawVars
<1>2. w_focus' \in w_byWayland \cup {Wayland!None}
        /\ (~w_up => w_focus' = w_focus)
  BY DEF Wayland!KeyboardEnter, Wayland!KeyboardLeave, Wayland!Keyboard,
         WaylandInv, WaylandKnown, WaylandMapped
<1>3. \A p : WaylandHolds(p)' = WaylandHolds(p)
  BY <1>1 DEF WaylandHolds, WaylandMaps, WaylandIdentified
<1>4. WaylandKnown'
  BY <1>1, <1>2, <1>3
     DEF WaylandInv, WaylandKnown, WaylandTypes, WaylandCounted, WaylandMapped
<1>5. WaylandKeyed'
  <2>1. CASE w_keyboards' = w_keyboards
    BY <1>1, <2>1, WaylandKeyedSame DEF WaylandInv
  <2>2. CASE Wayland!Keyboard(o)
    <3>1. PICK map \in {Wayland!None, Wayland!Mapping} :
            w_keyboards' = [w_keyboards EXCEPT ![o] = map]
      BY <2>2 DEF Wayland!Keyboard
    <3>2. /\ Wayland!Mapping \in KeyMaps \cup {"", Wayland!None}
          /\ Wayland!Mapping' = Wayland!Mapping
      BY <1>1 DEF WaylandInv, WaylandKeyed, Wayland!Mapping
    <3>3. w_made \subseteq Wrappers /\ o \in w_made
      BY <2>2 DEF Wayland!Keyboard, WaylandInv, WaylandKnown, WaylandTypes
    <3>4. w_byWayland \subseteq Wrappers
      BY <3>3 DEF WaylandInv, WaylandKnown, WaylandTypes
    <3>. QED
      BY <1>1, <3>1, <3>2, <3>3, <3>4 DEF WaylandInv, WaylandKeyed
  <2>. QED
    BY <2>1, <2>2 DEF Wayland!KeyboardEnter, Wayland!KeyboardLeave
<1>6. WaylandDrawn'
  BY <1>1, WaylandDrawnSame DEF WaylandInv
<1>. QED
  BY <1>4, <1>5, <1>6 DEF WaylandInv

LEMMA WaylandKeyMapConfiguration ==
  ASSUME Wayland!WesterosAssumption, WaylandInv, NEW m \in KeyMaps,
         Wayland!KeyMapConfiguration(m)
  PROVE  WaylandInv'
<1>1. /\ w_keyMap' = m
      /\ w_keyboards' = [o \in Wrappers |->
                           IF o \in w_byWayland
                             /\ w_keyboards[o] # Wayland!None THEN m
                           ELSE w_keyboards[o]]
      /\ UNCHANGED <<w_users, w_up, w_bound, w_collect, w_made, w_count, w_held,
           w_linked,
                     w_byWayland, w_byId, w_focus, w_frames, w_trigger,
                       w_redraw,
                     w_flusher, w_waiting>>
  BY DEF Wayland!KeyMapConfiguration, Wayland!surfaceVars, Wayland!drawVars
<1>2. m # Wayland!None /\ Wayland!Mapping' = m
  BY <1>1 DEF Wayland!WesterosAssumption, Wayland!Mapping
<1>3. w_byWayland \subseteq w_made /\ w_made \subseteq Wrappers
  BY DEF WaylandInv, WaylandKnown, WaylandTypes
<1>4. WaylandKeyed'
  BY <1>1, <1>2, <1>3 DEF WaylandInv, WaylandKeyed
<1>5. WaylandKnown'
  BY <1>1, WaylandKnownSame DEF WaylandInv, WaylandKnown, WaylandTypes
<1>6. WaylandDrawn'
  BY <1>1, WaylandDrawnSame DEF WaylandInv
<1>. QED
  BY <1>4, <1>5, <1>6 DEF WaylandInv

\* Redraw() and the thread that answers it.
LEMMA WaylandDraws ==
  ASSUME WaylandInv,
         \/ \E c \in Clients, o \in Wrappers : Wayland!Redraw(c, o)
         \/ \E c \in Clients : Wayland!Redrawn(c)
         \/ Wayland!Flush \/ Wayland!Flushed
         \/ \E o \in Wrappers : Wayland!Rendered(o)
  PROVE  WaylandInv'
<1>1. UNCHANGED <<w_users, w_up, w_bound, w_collect, w_made, w_count, w_held,
        w_linked,
                  w_byWayland, w_byId, w_focus, w_keyMap, w_keyboards>>
  BY DEF Wayland!Redraw, Wayland!Redrawn, Wayland!Flush, Wayland!Flushed,
         Wayland!Rendered, Wayland!surfaceVars, Wayland!inputVars
<1>2. w_frames' \subseteq w_made
  BY DEF Wayland!Redraw, Wayland!Redrawn, Wayland!Flush, Wayland!Flushed,
         Wayland!Rendered, WaylandInv, WaylandKnown, WaylandTypes
<1>3. WaylandKnown'
  BY <1>1, <1>2, WaylandKnownSame DEF WaylandInv, WaylandKnown, WaylandTypes
<1>4. WaylandKeyed'
  BY <1>1, WaylandKeyedSame DEF WaylandInv
<1>5. /\ IsFiniteSet(w_waiting) /\ Cardinality(w_waiting) \in Nat
      /\ w_trigger \in Nat /\ w_redraw \in Nat
  BY FS_CardinalityType DEF WaylandInv, WaylandDrawn
<1>6. WaylandDrawn'
  <2>1. ASSUME NEW c \in Clients, NEW o \in Wrappers, Wayland!Redraw(c, o)
        PROVE  WaylandDrawn'
    <3>1. /\ c \notin w_waiting /\ c \in w_users
          /\ w_waiting' = w_waiting \cup {c}
          /\ w_trigger' = w_trigger + 1 /\ UNCHANGED <<w_redraw, w_flusher>>
      BY <2>1 DEF Wayland!Redraw
    <3>2. /\ IsFiniteSet(w_waiting')
          /\ Cardinality(w_waiting') = Cardinality(w_waiting) + 1
      BY <1>5, <3>1, OneMore
    <3>. QED
      BY <1>1, <1>5, <3>1, <3>2 DEF WaylandInv, WaylandDrawn
  <2>2. ASSUME NEW c \in Clients, Wayland!Redrawn(c) PROVE WaylandDrawn'
    <3>1. /\ c \in w_waiting /\ w_waiting' = w_waiting \ {c} /\ w_redraw > 0
          /\ w_redraw' = w_redraw - 1 /\ UNCHANGED <<w_trigger, w_flusher>>
      BY <2>2 DEF Wayland!Redrawn
    <3>2. /\ IsFiniteSet(w_waiting')
          /\ Cardinality(w_waiting') = Cardinality(w_waiting) - 1
      BY <1>5, <3>1, OneLess
    <3>. QED
      BY <1>1, <1>5, <3>1, <3>2 DEF WaylandInv, WaylandDrawn
  <2>3. CASE Wayland!Flush \/ Wayland!Flushed
    BY <1>1, <1>5, <2>3
       DEF Wayland!Flush, Wayland!Flushed, WaylandInv, WaylandDrawn
  <2>4. ASSUME NEW o \in Wrappers, Wayland!Rendered(o) PROVE WaylandDrawn'
    BY <1>1, <2>4, WaylandDrawnSame DEF Wayland!Rendered, WaylandInv
  <2>. QED
    BY <2>1, <2>2, <2>3, <2>4
<1>. QED
  BY <1>3, <1>4, <1>6 DEF WaylandInv

LEMMA WaylandNext ==
  ASSUME Wayland!WesterosAssumption, WaylandInv, [Wayland!Next]_(Wayland!vars)
  PROVE  WaylandInv'
<1>1. CASE UNCHANGED Wayland!vars
  BY <1>1, WaylandKnownSame, WaylandKeyedSame, WaylandDrawnSame
     DEF Wayland!vars, WaylandInv, WaylandKnown, WaylandTypes
<1>2. CASE Wayland!LoadSurfaces
  <2>1. /\ w_collect' \in BOOLEAN
        /\ UNCHANGED <<w_users, w_up, w_bound, w_made, w_count, w_held,
             w_linked,
                       w_byWayland, w_byId, w_focus, w_keyMap, w_keyboards,
                         w_frames,
                       w_trigger, w_redraw, w_flusher, w_waiting>>
    BY <1>2
       DEF Wayland!LoadSurfaces, Wayland!surfaceVars, Wayland!inputVars,
           Wayland!drawVars
  <2>. QED
    BY <2>1, WaylandKnownSame, WaylandKeyedSame, WaylandDrawnSame
       DEF WaylandInv, WaylandKnown, WaylandTypes
<1>3. ASSUME Wayland!Next, ~Wayland!LoadSurfaces PROVE WaylandInv'
  BY <1>3, WaylandInstance, WaylandRelease, WaylandCreate,
     WaylandReleaseSurface, WaylandSurfaceId, WaylandSurfaceCreated,
     WaylandSurfaceDestroyed, WaylandKeyboard, WaylandKeyMapConfiguration,
     WaylandDraws
     DEF Wayland!Next
<1>. QED
  BY <1>1, <1>2, <1>3

LEMMA WaylandAlways ==
  ASSUME Wayland!WesterosAssumption
  PROVE  Wayland!Spec => []WaylandInv
<1>1. Wayland!Init => WaylandInv
  BY WaylandInit
<1>2. WaylandInv /\ [Wayland!Next]_(Wayland!vars) => WaylandInv'
  BY WaylandNext
<1>. QED
  BY <1>1, <1>2, PTL DEF Wayland!Spec

LEMMA WaylandProperties ==
  ASSUME Wayland!WesterosAssumption, WaylandInv
  PROVE  /\ Wayland!TypeOK /\ Wayland!ReferencesBalance
         /\ Wayland!RegistriesAreSound
         /\ Wayland!AnswersMatch
<1>1. Wayland!TypeOK
  <2>1. w_waiting \subseteq Clients
    BY DEF WaylandInv, WaylandDrawn, WaylandKnown, WaylandTypes
  <2>2. w_focus \in Wrappers \cup {Wayland!None}
    BY DEF WaylandInv, WaylandKnown, WaylandTypes, WaylandMapped
  <2>. QED
    BY <2>1, <2>2
       DEF Wayland!TypeOK, WaylandInv, WaylandKnown, WaylandTypes, WaylandKeyed,
           WaylandDrawn
<1>2. \A o \in w_made : o \in Wrappers /\ o # Wayland!None
                        /\ Wayland!InMaps(o) = WaylandMaps(o)
                        /\ WaylandMaps(o) \in 0..2
  BY WaylandInMaps
     DEF WaylandInv, WaylandKnown, WaylandTypes, Wayland!WesterosAssumption
<1>3. Wayland!ReferencesBalance
  BY <1>2
     DEF Wayland!ReferencesBalance, WaylandInv, WaylandKnown, WaylandCounted,
         WaylandHolds
<1>4. Wayland!RegistriesAreSound
  <2>1. ASSUME NEW o \in w_byWayland \cup Wayland!Known \cup w_held
                          \cup ({w_focus} \ {Wayland!None})
        PROVE  w_count[o] > 0
    <3>1. o \in w_byWayland \/ o \in Wayland!Known \/ o \in w_held
      BY DEF WaylandInv, WaylandKnown, WaylandMapped
    <3>2. o \in w_made
      BY <3>1, WaylandKnows
         DEF WaylandInv, WaylandKnown, WaylandTypes, WaylandCounted,
             WaylandIdentified
    <3>3. WaylandHolds(o) >= 1 /\ WaylandHolds(o) \in Nat
      BY <3>1, WaylandKnows DEF WaylandHolds, WaylandMaps
    <3>4. w_count[o] \in Nat /\ w_count[o] >= WaylandHolds(o)
      BY <3>2 DEF WaylandInv, WaylandKnown, WaylandTypes, WaylandCounted
    <3>. QED
      BY <3>3, <3>4
  <2>2. w_users = {} => w_byWayland = {} /\ Wayland!Known = {}
          /\ w_focus = Wayland!None
    BY DEF WaylandInv, WaylandKnown, WaylandMapped, Wayland!Known
  <2>. QED
    BY <2>1, <2>2 DEF Wayland!RegistriesAreSound
<1>5. Wayland!AnswersMatch
  BY DEF Wayland!AnswersMatch, WaylandInv, WaylandKeyed, WaylandDrawn,
         Wayland!Cardinality, Cardinality
<1>. QED
  BY <1>1, <1>3, <1>4, <1>5
=============================================================================
