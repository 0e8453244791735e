---------------------------- MODULE OcdmAccessor ----------------------------
(***************************************************************************)
(* The connection of libocdm to the OCDM server: OpenCDMAccessor opens it, *)
(* asks the server one question at a time under _adminLock and opens it    *)
(* again in IsTypeSupported(); OpenCDMSession holds the server's session.  *)
(* The server may die and come back at any time, and calls the sink of a   *)
(* session on a thread of its own.                                         *)
(*                                                                         *)
(* A life of the server is a number; a proxy of its accessor is the life   *)
(* it was obtained from, 0 is nullptr.  The reference count of             *)
(* OpenCDMSession and the map of sessions are the subject of OcdmSessions: *)
(* here the application destructs a session when no call on it is left.    *)
(***************************************************************************)
EXTENDS Integers, FiniteSets

CONSTANTS
  Threads,      \* threads of the application
  Sessions,     \* OpenCDMSession objects
  None,
  MaxLives,     \* bound: how often the server starts
  Patient       \* TRUE: the application calls a session only after
                \* opencdm_construct_session() has returned it with an id

ASSUME NoneAssumption == None \notin Threads \cup Sessions
ASSUME LivesAssumption == MaxLives \in Nat \ {0}
ASSUME PatientAssumption == Patient \in BOOLEAN

VARIABLES
  running,      \* the server runs
  life,         \* its present or last life
  client,       \* OpenCDMAccessor::_client: not valid, open or closed
  remote,       \* OpenCDMAccessor::_remote
  references,   \* references to the remote accessor of each life
  adminLock,    \* who holds OpenCDMAccessor::_adminLock
  stage,        \* how far each session is from construction to destruction
  proxy,        \* OpenCDMSession::_session # nullptr
  ext,          \* OpenCDMSession::_sessionExt # nullptr
  counts,       \* references to the session's proxies
  sink,         \* the sessions the server has, in this life, and calls back
  challenged,   \* the sessions the application was given by a callback
  rpc,          \* the session whose callback runs, and the life that called it
  pc, call, session,   \* where each thread is, in which call, on which session
  fit           \* (history) since the call began the server ran, and a channel
                \* to an earlier life was known to be closed

server == <<running, life, sink>>
accessor == <<client, remote, references, adminLock>>
objects == <<stage, proxy, ext, counts>>
callbacks == <<challenged, rpc>>
thread == <<pc, call, session, fit>>
vars == <<server, accessor, objects, callbacks, thread>>

Lives == 1..MaxLives
Calls == {"none", "IsTypeSupported", "Question", "Construct", "Session", "SessionExt",
          "Destruct"}
Steps == {"idle", "reconnect", "open", "enter", "ask", "created", "store",
          "release", "use", "useExt", "remove", "revoke", "free"}

\* Every variable keeps its type, and no reference count is negative.
TypeOK ==
  /\ running \in BOOLEAN /\ life \in Lives
  /\ client \in {"none", "open", "closed", "disposed"}
  /\ remote \in 0..MaxLives
  /\ references \in [Lives -> Nat]
  /\ adminLock \in Threads \cup {None}
  /\ stage \in [Sessions -> {"unborn", "new", "made", "dying", "freed"}]
  /\ proxy \in [Sessions -> BOOLEAN]
  /\ ext \in [Sessions -> BOOLEAN]
  /\ counts \in [Sessions -> Nat]
  /\ sink \subseteq Sessions /\ challenged \subseteq Sessions
  /\ rpc \in ((Sessions \cup {None}) \X (0..MaxLives))
  /\ pc \in [Threads -> Steps]
  /\ call \in [Threads -> Calls]
  /\ session \in [Threads -> Sessions \cup {None}]
  /\ fit \in [Threads -> BOOLEAN]

\* The server may run or not when the first call constructs the accessor.
Init ==
  /\ running \in BOOLEAN
  /\ life = 1
  /\ client = IF running THEN "open" ELSE "none"
  /\ remote = IF running THEN 1 ELSE 0
  /\ references = [l \in Lives |-> IF l = remote THEN 1 ELSE 0]
  /\ adminLock = None
  /\ stage = [s \in Sessions |-> "unborn"]
  /\ proxy = [s \in Sessions |-> FALSE]
  /\ ext = [s \in Sessions |-> FALSE]
  /\ counts = [s \in Sessions |-> 0]
  /\ sink = {} /\ challenged = {} /\ rpc = <<None, 0>>
  /\ pc = [t \in Threads |-> "idle"]
  /\ call = [t \in Threads |-> "none"]
  /\ session = [t \in Threads |-> None]
  /\ fit = [t \in Threads |-> FALSE]

\* A call through a proxy reaches the server.
Reaches(p) == running /\ p = life

Start(t, c, s, step) ==
  /\ pc[t] = "idle"
  /\ client # "disposed"
  /\ pc' = [pc EXCEPT ![t] = step]
  /\ call' = [call EXCEPT ![t] = c]
  /\ session' = [session EXCEPT ![t] = s]
  /\ fit' = [fit EXCEPT ![t] = running /\ (client = "open" => Reaches(remote))]

Goto(t, step) ==
  /\ pc' = [pc EXCEPT ![t] = step]
  /\ UNCHANGED <<call, session, fit>>

Return(t) ==
  /\ pc' = [pc EXCEPT ![t] = "idle"]
  /\ session' = [session EXCEPT ![t] = None]
  /\ UNCHANGED <<call, fit>>

-----------------------------------------------------------------------------
(***************************************************************************)
(* OpenCDMAccessor                                                         *)
(***************************************************************************)

IsTypeSupported(t) ==
  /\ Start(t, "IsTypeSupported", None, "reconnect")
  /\ UNCHANGED <<server, accessor, objects, callbacks>>

\* The other calls ask at once.
Question(t) ==
  /\ Start(t, "Question", None, "enter")
  /\ UNCHANGED <<server, accessor, objects, callbacks>>

\* Mutant: a client that exists is not looked at.
Reconnect_IfInvalid(t) ==
  /\ pc[t] = "reconnect"
  /\ adminLock = None
  /\ IF client # "none"
     THEN Goto(t, "enter") /\ UNCHANGED accessor
     ELSE /\ references' = [l \in Lives |->
                              references[l] - IF l = remote THEN 1 ELSE 0]
          /\ client' = "closed"
          /\ adminLock' = t
          /\ Goto(t, "open")
          /\ UNCHANGED remote
  /\ UNCHANGED <<server, objects, callbacks>>

\* Mutant: Reconnect() does not take _adminLock.
Reconnect_Unlocked(t) ==
  /\ pc[t] = "reconnect"
  /\ IF client = "open"
     THEN Goto(t, "enter") /\ UNCHANGED accessor
     ELSE /\ references' = [l \in Lives |->
                              references[l] - IF l = remote THEN 1 ELSE 0]
          /\ client' = "closed"
          /\ Goto(t, "open")
          /\ UNCHANGED <<remote, adminLock>>
  /\ UNCHANGED <<server, objects, callbacks>>

\* Reconnect() up to Open(): a new client if there is none, and the reference to
\* the old accessor goes while _remote still points at it.
Reconnect(t) ==
  /\ pc[t] = "reconnect"
  /\ adminLock = None
  /\ IF client = "open"
     THEN Goto(t, "enter") /\ UNCHANGED accessor
     ELSE /\ references' = [l \in Lives |->
                              references[l] - IF l = remote THEN 1 ELSE 0]
          /\ client' = "closed"
          /\ adminLock' = t
          /\ Goto(t, "open")
          /\ UNCHANGED remote
  /\ UNCHANGED <<server, objects, callbacks>>

Open(t) ==
  /\ pc[t] = "open"
  /\ IF running
     THEN /\ remote' = life
          /\ references' = [references EXCEPT ![life] = @ + 1]
          /\ client' = "open"
     ELSE /\ remote' = 0
          /\ client' = "none"
          /\ UNCHANGED references
  /\ adminLock' = None
  /\ Goto(t, "enter")
  /\ UNCHANGED <<server, objects, callbacks>>

\* Every question takes the lock, and asks if there is a remote accessor.
Enter(t) ==
  /\ pc[t] = "enter"
  /\ adminLock = None /\ remote # 0
  /\ adminLock' = t
  /\ Goto(t, "ask")
  /\ UNCHANGED <<server, client, remote, references, objects, callbacks>>

\* If there is none it returns what it began with.  A session that could not be
\* created is handed out all the same.
NoRemote(t) ==
  /\ pc[t] = "enter"
  /\ adminLock = None /\ remote = 0
  /\ Return(t)
  /\ stage' = IF call[t] = "Construct" THEN [stage EXCEPT ![session[t]] = "made"] ELSE stage
  /\ UNCHANGED <<server, accessor, proxy, ext, counts, callbacks>>

\* The server does what it is asked, refuses, or is gone.
Ask(t) ==
  /\ pc[t] = "ask"
  /\ \E ok \in {Reaches(remote), FALSE} :
       IF call[t] = "Construct" /\ ok
       THEN /\ sink' = sink \cup {session[t]}
            /\ Goto(t, "created")
            /\ UNCHANGED <<adminLock, stage>>
       ELSE /\ Return(t)
            /\ adminLock' = None
            /\ stage' = IF call[t] = "Construct"
                        THEN [stage EXCEPT ![session[t]] = "made"] ELSE stage
            /\ UNCHANGED sink
  /\ UNCHANGED <<running, life, client, remote, references, proxy, ext, counts,
                 callbacks>>

\* Mutant: the destructor releases a remote accessor that is not there.
Dispose_Unchecked ==
  /\ client # "disposed"
  /\ \A t \in Threads : pc[t] = "idle"
  /\ \A s \in Sessions : stage[s] \in {"unborn", "freed"}
  /\ references' = [references EXCEPT ![life] = @ - 1]
  /\ remote' = 0
  /\ client' = "disposed"
  /\ UNCHANGED <<server, adminLock, objects, callbacks, thread>>

\* ~OpenCDMAccessor(), the last the application does.
Dispose ==
  /\ client # "disposed"
  /\ \A t \in Threads : pc[t] = "idle"
  /\ \A s \in Sessions : stage[s] \in {"unborn", "freed"}
  /\ references' = [l \in Lives |-> references[l] - IF l = remote THEN 1 ELSE 0]
  /\ remote' = 0
  /\ client' = "disposed"
  /\ UNCHANGED <<server, adminLock, objects, callbacks, thread>>

-----------------------------------------------------------------------------
(***************************************************************************)
(* OpenCDMSession                                                          *)
(***************************************************************************)

Construct(t, s) ==
  /\ stage[s] = "unborn"
  /\ Start(t, "Construct", s, "enter")
  /\ stage' = [stage EXCEPT ![s] = "new"]
  /\ UNCHANGED <<server, accessor, proxy, ext, counts, callbacks>>

\* The reply of CreateSession() with the first reference, or none if the server
\* dies before it has answered.
Created(t) ==
  LET s == session[t] IN
  /\ pc[t] = "created"
  /\ adminLock' = None
  /\ IF s \in sink
     THEN /\ counts' = [counts EXCEPT ![s] = 1]
          /\ Goto(t, "store")
          /\ UNCHANGED stage
     ELSE /\ stage' = [stage EXCEPT ![s] = "made"]
          /\ Return(t)
          /\ UNCHANGED counts
  /\ UNCHANGED <<server, client, remote, references, proxy, ext, callbacks>>

\* Session(realSession): a reference for _session, and one for _sessionExt if the
\* server has it and still answers.
Store(t) ==
  LET s == session[t] IN
  /\ pc[t] = "store"
  /\ \E e \in {s \in sink, FALSE} :
       /\ ext' = [ext EXCEPT ![s] = e]
       /\ counts' = [counts EXCEPT ![s] = @ + IF e THEN 2 ELSE 1]
  /\ proxy' = [proxy EXCEPT ![s] = TRUE]
  /\ Goto(t, "release")
  /\ UNCHANGED <<server, accessor, stage, callbacks>>

\* realSession->Release() and AddSession().
ReleaseReal(t) ==
  LET s == session[t] IN
  /\ pc[t] = "release"
  /\ adminLock = None
  /\ counts' = [counts EXCEPT ![s] = @ - 1]
  /\ stage' = [stage EXCEPT ![s] = "made"]
  /\ Return(t)
  /\ UNCHANGED <<server, accessor, proxy, ext, callbacks>>

\* The sessions the application may call: those it was given, with an id that is
\* not empty; an impatient application also those of a callback.
Usable(s) ==
  \/ stage[s] = "made" /\ proxy[s]
  \/ ~Patient /\ s \in challenged /\ stage[s] = "new"

CallSession(t, s) ==
  /\ Usable(s)
  /\ Start(t, "Session", s, "use")
  /\ UNCHANGED <<server, accessor, objects, callbacks>>

\* "This method only works on Exchange::ISessionExt implementations."
CallSessionExt(t, s) ==
  /\ Usable(s) /\ ext[s]
  /\ Start(t, "SessionExt", s, "useExt")
  /\ UNCHANGED <<server, accessor, objects, callbacks>>

\* The call through _session; no lock is held.
Use(t) ==
  /\ pc[t] = "use"
  /\ Return(t)
  /\ UNCHANGED <<server, accessor, objects, callbacks>>

\* The call through _sessionExt.
UseExt(t) ==
  /\ pc[t] = "useExt"
  /\ Return(t)
  /\ UNCHANGED <<server, accessor, objects, callbacks>>

Destruct(t, s) ==
  /\ stage[s] = "made"
  /\ \A u \in Threads : session[u] # s
  /\ Start(t, "Destruct", s, "remove")
  /\ stage' = [stage EXCEPT ![s] = "dying"]
  /\ UNCHANGED <<server, accessor, proxy, ext, counts, callbacks>>

\* RemoveSession() takes the lock.
RemoveSession(t) ==
  /\ pc[t] = "remove"
  /\ adminLock = None
  /\ Goto(t, IF proxy[session[t]] THEN "revoke" ELSE "free")
  /\ UNCHANGED <<server, accessor, objects, callbacks>>

\* The server lets a callback of the session end before it answers Revoke(); if it
\* is gone, the call fails.
Revoke(t) ==
  /\ pc[t] = "revoke"
  /\ rpc # <<session[t], life>> \/ ~running
  /\ sink' = sink \ {session[t]}
  /\ Goto(t, "free")
  /\ UNCHANGED <<running, life, accessor, objects, callbacks>>

\* Mutant: the reference of _sessionExt stays.
Free_KeepsExt(t) ==
  LET s == session[t] IN
  /\ pc[t] = "free"
  /\ counts' = [counts EXCEPT ![s] = @ - IF proxy[s] THEN 1 ELSE 0]
  /\ proxy' = [proxy EXCEPT ![s] = FALSE]
  /\ ext' = [ext EXCEPT ![s] = FALSE]
  /\ stage' = [stage EXCEPT ![s] = "freed"]
  /\ Return(t)
  /\ UNCHANGED <<server, accessor, callbacks>>

\* Session(nullptr) releases what there is, and the memory goes.
Free(t) ==
  LET s == session[t]
      held == {p \in {"_session", "_sessionExt"} :
                 IF p = "_session" THEN proxy[s] ELSE ext[s]}
  IN
  /\ pc[t] = "free"
  /\ counts' = [counts EXCEPT ![s] = @ - Cardinality(held)]
  /\ proxy' = [proxy EXCEPT ![s] = FALSE]
  /\ ext' = [ext EXCEPT ![s] = FALSE]
  /\ stage' = [stage EXCEPT ![s] = "freed"]
  /\ Return(t)
  /\ UNCHANGED <<server, accessor, callbacks>>

-----------------------------------------------------------------------------
(***************************************************************************)
(* The server, its channel and the thread of the callbacks.                *)
(***************************************************************************)

Die ==
  /\ running
  /\ running' = FALSE
  /\ sink' = {}
  /\ fit' = [t \in Threads |-> FALSE]
  /\ UNCHANGED <<life, accessor, objects, callbacks, pc, call, session>>

Restart ==
  /\ ~running /\ life < MaxLives
  /\ running' = TRUE
  /\ life' = life + 1
  /\ UNCHANGED <<sink, accessor, objects, callbacks, thread>>

\* The channel notices some time after the server died.
ChannelCloses ==
  /\ client = "open" /\ ~Reaches(remote)
  /\ client' = "closed"
  /\ UNCHANGED <<server, remote, references, adminLock, objects, callbacks, thread>>

\* The sink passes a key message, an error or a status on to the application, on
\* the one thread there is for it.
OnKeyMessage(s) ==
  /\ s \in sink /\ rpc[1] = None
  /\ rpc' = <<s, life>>
  /\ challenged' = challenged \cup {s}
  /\ UNCHANGED <<server, accessor, objects, thread>>

CallbackReturns ==
  /\ rpc[1] # None
  /\ rpc' = <<None, 0>>
  /\ UNCHANGED <<server, accessor, objects, challenged, thread>>

ThreadStep(t) ==
  \/ Reconnect(t) \/ Open(t) \/ Enter(t) \/ NoRemote(t) \/ Ask(t)
  \/ Created(t) \/ Store(t) \/ ReleaseReal(t)
  \/ Use(t) \/ UseExt(t) \/ RemoveSession(t) \/ Revoke(t) \/ Free(t)

Next ==
  \/ \E t \in Threads : IsTypeSupported(t) \/ Question(t)
  \/ \E t \in Threads, s \in Sessions :
       \/ Construct(t, s) \/ CallSession(t, s) \/ CallSessionExt(t, s)
       \/ Destruct(t, s)
  \/ \E t \in Threads : ThreadStep(t)
  \/ \E s \in Sessions : OnKeyMessage(s)
  \/ Dispose \/ Die \/ Restart \/ ChannelCloses \/ CallbackReturns

Spec == Init /\ [][Next]_vars

-----------------------------------------------------------------------------
(***************************************************************************)
(* Properties.                                                             *)
(***************************************************************************)

\* A question that is under way at the server goes through a proxy the process
\* holds a reference to, although other threads replace it at any time.
QuestionsAreOnHeldProxies ==
  \A t \in Threads :
    pc[t] \in {"ask", "created"} => remote # 0 /\ references[remote] > 0

\* The process holds one reference per pointer: to the accessor _remote points at,
\* except between Release() and Open(), and to each session for _session, for
\* _sessionExt and for a constructor that has not released its own yet.  So it
\* stays through every death of the server.
ProxiesBalance ==
  /\ \A l \in Lives :
       references[l] = IF remote = l /\ \A t \in Threads : pc[t] # "open" THEN 1 ELSE 0
  /\ \A s \in Sessions :
       counts[s] = Cardinality({p \in {"_session", "_sessionExt"} :
                                  IF p = "_session" THEN proxy[s] ELSE ext[s]})
                 + Cardinality({t \in Threads :
                                  session[t] = s /\ pc[t] \in {"store", "release"}})

\* "Do reconnection here again if server is down": a question for a type that
\* begins when the server runs reaches this life of the server, if the channel to
\* an earlier one was known to be closed and the server stays up.
SupportedReconnects ==
  [][\A t \in Threads :
       call[t] = "IsTypeSupported" /\ pc[t] = "enter" /\ pc'[t] # "enter" /\ fit[t]
       => pc'[t] = "ask" /\ remote = life]_vars

\* "ASSERT(_session != nullptr)", and the same of _sessionExt: a call on a session
\* finds the proxy it goes through.
SessionCallsHaveSession ==
  \A t \in Threads :
    /\ pc[t] = "use" => proxy[session[t]] /\ counts[session[t]] > 0
    /\ pc[t] = "useExt" => ext[session[t]] /\ counts[session[t]] > 1

\* The memory of a session stays while a callback of it runs, as long as the
\* server that called it lives: the destructor revokes the sink before.
CalledWhileAlive ==
  running /\ rpc[1] # None /\ rpc[2] = life => stage[rpc[1]] # "freed"

\* Whatever becomes of the server, and whichever thread reconnects, constructs or
\* destructs meanwhile, no call goes through a proxy that is not there or released.
InterfacesAreAlive == QuestionsAreOnHeldProxies /\ SessionCallsHaveSession /\ CalledWhileAlive
=============================================================================
