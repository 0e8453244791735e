----------------------------- MODULE OcdmDecrypt -----------------------------
(***************************************************************************)
(* Decryption in libocdm: OpenCDMSession::Decrypt(), called by several     *)
(* threads (audio and video) for one or more sessions, the lazy creation   *)
(* of the buffer a session shares with the OCDM server, and the exchange   *)
(* of data through it, OpenCDMSession::DataExchange::Decrypt().            *)
(*                                                                         *)
(* The server and the shared buffer (Core::SharedBuffer of Thunder, whose  *)
(* two semaphores hand the memory to and fro) are modelled from how the    *)
(* code uses them.  A buffer holds the data of one call: a value of Data,  *)
(* encrypted or clear, and the status of the last decryption.              *)
(***************************************************************************)
EXTENDS Integers

CONSTANTS
  Threads,   \* threads of the application
  Sessions,  \* live OpenCDMSession objects
  Data,      \* encrypted samples
  None,      \* nobody, nothing
  MaxCalls   \* bound: Decrypt() calls of each thread

ASSUME NoneAssumption == None \notin Threads /\ None \notin Sessions /\ None \notin Data
ASSUME MaxAssumption == MaxCalls \in Nat

VARIABLES
  served,    \* sessions the server has a buffer for
  made,      \* sessions whose _decryptSession is not null
  producer,  \* the semaphore of RequestProduce() and Consumed(), per buffer
  consumer,  \* the semaphore of Produced() and RequestConsume(), per buffer
  sample,    \* the sample in the buffer
  status,    \* Status() of the last decryption in it
  server,    \* what the server does with it
  lock,      \* who holds _systemLock
  pc,        \* the next step of each thread
  session,   \* the session it decrypts for
  data,      \* the caller's memory (encryptedData)
  given,     \* (history) the sample the caller put there
  result,    \* what Decrypt() is going to return
  calls      \* calls each thread has made

memory == <<sample, status>>
buffers == <<served, made, producer, consumer, memory, server>>
locals == <<session, data, given, result, calls>>
vars == <<buffers, lock, pc, locals>>

Steps == {"idle", "lazy", "create", "new", "spin", "check", "lock", "request",
          "write", "produced", "await", "read", "consumed", "unlock"}

\* Steps under _systemLock, and those of them in which the buffer is the thread's.
Locked == {"request", "write", "produced", "await", "read", "consumed", "unlock"}
Owning == {"write", "produced", "read", "consumed"}

Encrypted(d) == [of |-> d, clear |-> FALSE]
Clear(d) == [of |-> d, clear |-> TRUE]
Samples == [of : Data \cup {None}, clear : BOOLEAN]
Results == {"success", "failed", "no buffer"}

\* Every variable keeps its type; in particular neither semaphore counts past one.
TypeOK ==
  /\ served \subseteq Sessions
  /\ made \subseteq Sessions
  /\ producer \in [Sessions -> 0..1]
  /\ consumer \in [Sessions -> 0..1]
  /\ sample \in [Sessions -> Samples]
  /\ status \in [Sessions -> {"success", "failed"}]
  /\ server \in [Sessions -> {"waiting", "decrypting"}]
  /\ lock \in Threads \cup {None}
  /\ pc \in [Threads -> Steps]
  /\ session \in [Threads -> Sessions \cup {None}]
  /\ data \in [Threads -> Samples]
  /\ given \in [Threads -> Data \cup {None}]
  /\ result \in [Threads -> Results]
  /\ calls \in [Threads -> Nat]

Init ==
  /\ served = {}
  /\ made = {}
  /\ producer = [s \in Sessions |-> 1]
  /\ consumer = [s \in Sessions |-> 0]
  /\ sample = [s \in Sessions |-> Encrypted(None)]
  /\ status = [s \in Sessions |-> "success"]
  /\ server = [s \in Sessions |-> "waiting"]
  /\ lock = None
  /\ pc = [t \in Threads |-> "idle"]
  /\ session = [t \in Threads |-> None]
  /\ data = [t \in Threads |-> Encrypted(None)]
  /\ given = [t \in Threads |-> None]
  /\ result = [t \in Threads |-> "no buffer"]
  /\ calls = [t \in Threads |-> 0]

Goto(t, step) == pc' = [pc EXCEPT ![t] = step]

-----------------------------------------------------------------------------
(***************************************************************************)
(* OpenCDMSession::Decrypt() and DecryptSession()                          *)
(***************************************************************************)

Decrypt(t, s, d) ==
  /\ pc[t] = "idle"
  /\ calls[t] < MaxCalls
  /\ calls' = [calls EXCEPT ![t] = @ + 1]
  /\ session' = [session EXCEPT ![t] = s]
  /\ data' = [data EXCEPT ![t] = Encrypted(d)]
  /\ given' = [given EXCEPT ![t] = d]
  /\ result' = [result EXCEPT ![t] = "no buffer"]
  /\ Goto(t, "lazy")
  /\ UNCHANGED <<buffers, lock>>

Lazy(t) ==
  /\ pc[t] = "lazy"
  /\ Goto(t, IF session[t] \in made THEN "check" ELSE "create")
  /\ UNCHANGED <<buffers, lock, locals>>

\* The server answers 0 to the first who asks, 1 to the others, or an error if it
\* cannot create a buffer.
CreateSessionBuffer(t) ==
  LET s == session[t] IN
  /\ pc[t] = "create"
  /\ \/ s \notin served /\ served' = served \cup {s} /\ Goto(t, "new")
     \/ s \in served /\ served' = served /\ Goto(t, "spin")
     \/ s \notin served /\ served' = served /\ Goto(t, "check")
  /\ UNCHANGED <<made, producer, consumer, memory, server, lock, locals>>

New(t) ==
  /\ pc[t] = "new"
  /\ made' = made \cup {session[t]}
  /\ Goto(t, "check")
  /\ UNCHANGED <<served, producer, consumer, memory, server, lock, locals>>

\* while (_decryptSession == nullptr) SleepMs(0)
Spin(t) ==
  /\ pc[t] = "spin"
  /\ session[t] \in made
  /\ Goto(t, "check")
  /\ UNCHANGED <<buffers, lock, locals>>

\* Without a buffer Decrypt() returns ERROR_INVALID_DECRYPT_BUFFER.
Check(t) ==
  /\ pc[t] = "check"
  /\ Goto(t, IF session[t] \in made THEN "lock" ELSE "idle")
  /\ UNCHANGED <<buffers, lock, locals>>

-----------------------------------------------------------------------------
(***************************************************************************)
(* DataExchange::Decrypt()                                                 *)
(***************************************************************************)

\* Mutant: the lock excludes nobody.
Lock_None(t) ==
  /\ pc[t] = "lock"
  /\ lock' = t
  /\ Goto(t, "request")
  /\ UNCHANGED <<buffers, locals>>

Lock(t) ==
  /\ pc[t] = "lock"
  /\ lock = None
  /\ lock' = t
  /\ Goto(t, "request")
  /\ UNCHANGED <<buffers, locals>>

\* RequestProduce(): for the buffer to be free, and for the server's answer.
RequestProduce(t, from, to) ==
  LET s == session[t] IN
  /\ pc[t] = from
  /\ producer[s] > 0
  /\ producer' = [producer EXCEPT ![s] = @ - 1]
  /\ Goto(t, to)
  /\ UNCHANGED <<served, made, consumer, memory, server, lock, locals>>

RequestBuffer(t) == RequestProduce(t, "request", "write")

\* Mutant: the answer is read without waiting for it.
AwaitServer_Not(t) ==
  /\ pc[t] = "await"
  /\ Goto(t, "read")
  /\ UNCHANGED <<buffers, lock, locals>>

AwaitServer(t) == RequestProduce(t, "await", "read")

Write(t) ==
  /\ pc[t] = "write"
  /\ sample' = [sample EXCEPT ![session[t]] = data[t]]
  /\ Goto(t, "produced")
  /\ UNCHANGED <<served, made, producer, consumer, status, server, lock, locals>>

Produced(t) ==
  LET s == session[t] IN
  /\ pc[t] = "produced"
  /\ consumer' = [consumer EXCEPT ![s] = @ + 1]
  /\ Goto(t, "await")
  /\ UNCHANGED <<served, made, producer, memory, server, lock, locals>>

\* Read() and Status()
Read(t) ==
  LET s == session[t] IN
  /\ pc[t] = "read"
  /\ data' = [data EXCEPT ![t] = sample[s]]
  /\ result' = [result EXCEPT ![t] = status[s]]
  /\ Goto(t, "consumed")
  /\ UNCHANGED <<buffers, lock, session, given, calls>>

\* Mutant: the buffer is not handed back.
Consumed_Not(t) ==
  /\ pc[t] = "consumed"
  /\ Goto(t, "unlock")
  /\ UNCHANGED <<buffers, lock, locals>>

Consumed(t) ==
  LET s == session[t] IN
  /\ pc[t] = "consumed"
  /\ producer' = [producer EXCEPT ![s] = @ + 1]
  /\ Goto(t, "unlock")
  /\ UNCHANGED <<served, made, consumer, memory, server, lock, locals>>

Unlock(t) ==
  /\ pc[t] = "unlock"
  /\ lock' = None
  /\ Goto(t, "idle")
  /\ UNCHANGED <<buffers, locals>>

-----------------------------------------------------------------------------
(***************************************************************************)
(* The server.                                                             *)
(***************************************************************************)

RequestConsume(s) ==
  /\ server[s] = "waiting"
  /\ consumer[s] > 0
  /\ consumer' = [consumer EXCEPT ![s] = @ - 1]
  /\ server' = [server EXCEPT ![s] = "decrypting"]
  /\ UNCHANGED <<served, made, producer, memory, lock, pc, locals>>

\* The sample is decrypted in place, or left as it is with an error.
ServerDecrypt(s) ==
  /\ server[s] = "decrypting"
  /\ \/ /\ sample' = [sample EXCEPT ![s] = Clear(@.of)]
        /\ status' = [status EXCEPT ![s] = "success"]
     \/ /\ sample' = sample
        /\ status' = [status EXCEPT ![s] = "failed"]
  /\ producer' = [producer EXCEPT ![s] = @ + 1]
  /\ server' = [server EXCEPT ![s] = "waiting"]
  /\ UNCHANGED <<served, made, consumer, lock, pc, locals>>

-----------------------------------------------------------------------------

ThreadStep(t) ==
  \/ Lazy(t) \/ CreateSessionBuffer(t) \/ New(t) \/ Spin(t) \/ Check(t)
  \/ Lock(t) \/ RequestBuffer(t) \/ Write(t) \/ Produced(t)
  \/ AwaitServer(t) \/ Read(t) \/ Consumed(t) \/ Unlock(t)

ServerStep(s) == RequestConsume(s) \/ ServerDecrypt(s)

Next ==
  \/ \E t \in Threads, s \in Sessions, d \in Data : Decrypt(t, s, d)
  \/ \E t \in Threads : ThreadStep(t)
  \/ \E s \in Sessions : ServerStep(s)

Spec == Init /\ [][Next]_vars

\* Threads run, and so does the server.  A thread never finds _systemLock taken for
\* ever because the others make a bounded number of calls.
Fairness ==
  /\ \A t \in Threads : WF_vars(ThreadStep(t))
  /\ \A s \in Sessions : WF_vars(ServerStep(s))

FairSpec == Spec /\ Fairness

-----------------------------------------------------------------------------
(***************************************************************************)
(* Properties.                                                             *)
(***************************************************************************)

\* A shared buffer is in one hand at a time: the server's, or that of one thread
\* of all those that decrypt for the session.
BufferIsExclusive ==
  \A s \in Sessions :
    LET owners == {t \in Threads : pc[t] \in Owning /\ session[t] = s}
    IN  /\ server[s] = "decrypting" \/ consumer[s] > 0 \/ producer[s] > 0 => owners = {}
        /\ \A t, u \in owners : t = u

\* What a caller gets back is its own sample: decrypted if Decrypt() says so, still
\* encrypted otherwise, and never a sample of another thread, although all of them
\* go through one buffer in three separate steps.
OwnAnswer ==
  \A t \in Threads : pc[t] \in {"consumed", "unlock", "idle"} /\ given[t] # None =>
    data[t] = IF result[t] = "success" THEN Clear(given[t]) ELSE Encrypted(given[t])

\* "ASSERT (_decryptSession == nullptr)": of the threads that find a session without
\* a buffer one creates it, and no other replaces it.
OneBuffer ==
  \A t \in Threads : pc[t] = "new" =>
    /\ session[t] \notin made
    /\ \A u \in Threads : pc[u] = "new" /\ session[u] = session[t] => u = t

\* Decrypt() returns: the threads that wait for the buffer to be created, for the
\* lock or for the server are all served.
DecryptReturns == \A t \in Threads : pc[t] # "idle" ~> pc[t] = "idle"

=============================================================================
