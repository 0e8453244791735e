-------------------------- MODULE OcdmDecryptProofs --------------------------
(***************************************************************************)
(* Theorems about OcdmDecrypt, for any threads, sessions, samples and      *)
(* number of calls.  The invariant comes in four layers, each inductive    *)
(* relative to those before it: the types and the lock (BaseInv), the      *)
(* creation of buffers (CreationInv), who has a buffer (TokenInv), and     *)
(* what is in it and in the caller's memory (AnswerInv).                   *)
(***************************************************************************)
EXTENDS OcdmDecrypt, TLAPS

LEMMA SampleFacts ==
  \A d \in Data \cup {None} : Encrypted(d) \in Samples /\ Clear(d) \in Samples
  BY DEF Samples, Encrypted, Clear

-----------------------------------------------------------------------------
(***************************************************************************)
(* Types, with semaphores that may count further, and the lock.            *)
(***************************************************************************)

BufferTypes ==
  /\ served \subseteq Sessions
  /\ made \subseteq Sessions
  /\ producer \in [Sessions -> Nat]
  /\ consumer \in [Sessions -> Nat]
  /\ sample \in [Sessions -> Samples]
  /\ status \in [Sessions -> {"success", "failed"}]
  /\ server \in [Sessions -> {"waiting", "decrypting"}]

ThreadTypes ==
  /\ lock \in Threads \cup {None}
  /\ pc \in [Threads -> Steps]
  /\ session \in [Threads -> Sessions \cup {None}]
  /\ data \in [Threads -> Samples]
  /\ given \in [Threads -> Data \cup {None}]
  /\ result \in [Threads -> Results]
  /\ calls \in [Threads -> Nat]

BusyInv == \A t \in Threads : pc[t] # "idle" => session[t] \in Sessions /\ given[t] \in Data

LockInv == \A t \in Threads : pc[t] \in Locked <=> lock = t

BaseInv == BufferTypes /\ ThreadTypes /\ BusyInv /\ LockInv

LEMMA BaseInit == Init => BaseInv
<1> SUFFICES ASSUME Init PROVE BaseInv
  OBVIOUS
<1>1. BufferTypes
  BY SampleFacts DEF Init, BufferTypes
<1>2. ThreadTypes
  BY SampleFacts DEF Init, ThreadTypes, Steps, Results
<1>3. BusyInv
  BY DEF Init, BusyInv
<1>4. LockInv
  BY NoneAssumption DEF Init, LockInv, Locked
<1>. QED
  BY <1>1, <1>2, <1>3, <1>4 DEF BaseInv

LEMMA BaseStep == BaseInv /\ [Next]_vars => BaseInv'
<1> SUFFICES ASSUME BaseInv, [Next]_vars PROVE BaseInv'
  OBVIOUS
<1> USE DEF BaseInv, Goto, buffers, memory, locals
<1>1. ASSUME NEW t \in Threads, NEW s \in Sessions, NEW d \in Data, Decrypt(t, s, d)
      PROVE BaseInv'
  <2>1. calls' \in [Threads -> Nat]
    <3>1. calls \in [Threads -> Nat] /\ calls' = [calls EXCEPT ![t] = calls[t] + 1]
      BY <1>1 DEF Decrypt, ThreadTypes
    <3>. QED
      BY <3>1
  <2> USE <1>1 DEF Decrypt
  <2>2. BufferTypes'
    BY SampleFacts DEF BufferTypes, ThreadTypes, BusyInv, Steps
  <2>3. data' \in [Threads -> Samples]
    BY SampleFacts DEF ThreadTypes
  <2>4. ThreadTypes'
    BY <2>1, <2>3 DEF ThreadTypes, Steps, Results
  <2>5. BusyInv'
    BY DEF ThreadTypes, BusyInv, Steps
  <2>6. LockInv'
    BY NoneAssumption DEF ThreadTypes, LockInv, Locked, Steps
  <2>. QED
    BY <2>2, <2>4, <2>5, <2>6
<1>2. ASSUME NEW t \in Threads, Lazy(t) PROVE BaseInv'
  BY <1>2, NoneAssumption DEF Lazy, BufferTypes, ThreadTypes, BusyInv,
     LockInv, Locked, Steps, Results
<1>3. ASSUME NEW t \in Threads, CreateSessionBuffer(t) PROVE BaseInv'
  <2> USE <1>3 DEF CreateSessionBuffer
  <2>1. BufferTypes'
    BY SampleFacts DEF BufferTypes, ThreadTypes, BusyInv, Steps
  <2>2. ThreadTypes'
    BY SampleFacts DEF ThreadTypes, BufferTypes, BusyInv, Steps, Results
  <2>3. BusyInv'
    BY DEF ThreadTypes, BusyInv, Steps
  <2>4. LockInv'
    BY NoneAssumption DEF ThreadTypes, LockInv, Locked, Steps
  <2>. QED
    BY <2>1, <2>2, <2>3, <2>4
<1>4. ASSUME NEW t \in Threads, New(t) PROVE BaseInv'
  BY <1>4, NoneAssumption DEF New, BufferTypes, ThreadTypes, BusyInv,
     LockInv, Locked, Steps, Results
<1>5. ASSUME NEW t \in Threads, Spin(t) PROVE BaseInv'
  BY <1>5, NoneAssumption DEF Spin, BufferTypes, ThreadTypes, BusyInv,
     LockInv, Locked, Steps, Results
<1>6. ASSUME NEW t \in Threads, Check(t) PROVE BaseInv'
  BY <1>6, NoneAssumption DEF Check, BufferTypes, ThreadTypes, BusyInv,
     LockInv, Locked, Steps, Results
<1>7. ASSUME NEW t \in Threads, Lock(t) PROVE BaseInv'
  BY <1>7, NoneAssumption DEF Lock, BufferTypes, ThreadTypes, BusyInv,
     LockInv, Locked, Steps, Results
<1>8. ASSUME NEW t \in Threads, RequestBuffer(t) PROVE BaseInv'
  <2> USE <1>8 DEF RequestBuffer, RequestProduce
  <2>1. producer' \in [Sessions -> Nat]
    <3>1. session[t] \in Sessions /\ producer \in [Sessions -> Nat]
      BY DEF BufferTypes, BusyInv
    <3>2. /\ producer' = [producer EXCEPT ![session[t]] = producer[session[t]] - 1]
          /\ producer[session[t]] > 0
      OBVIOUS
    <3>. QED
      BY <3>1, <3>2
  <2>2. UNCHANGED <<consumer, served, made, sample, status, server>>
    OBVIOUS
  <2>3. BufferTypes'
    BY <2>1, <2>2 DEF BufferTypes
  <2>4. ThreadTypes'
    BY SampleFacts DEF ThreadTypes, BufferTypes, BusyInv, Steps, Results
  <2>5. BusyInv'
    BY DEF ThreadTypes, BusyInv, Steps
  <2>6. LockInv'
    BY NoneAssumption DEF ThreadTypes, LockInv, Locked, Steps
  <2>. QED
    BY <2>3, <2>4, <2>5, <2>6
<1>9. ASSUME NEW t \in Threads, Write(t) PROVE BaseInv'
  BY <1>9, NoneAssumption DEF Write, BufferTypes, ThreadTypes, BusyInv,
     LockInv, Locked, Steps, Results
<1>10. ASSUME NEW t \in Threads, Produced(t) PROVE BaseInv'
  <2> USE <1>10 DEF Produced
  <2>1. consumer' \in [Sessions -> Nat]
    <3>1. session[t] \in Sessions /\ consumer \in [Sessions -> Nat]
      BY DEF BufferTypes, BusyInv
    <3>2. consumer' = [consumer EXCEPT ![session[t]] = consumer[session[t]] + 1]
      OBVIOUS
    <3>. QED
      BY <3>1, <3>2
  <2>2. UNCHANGED <<producer, served, made, sample, status, server>>
    OBVIOUS
  <2>3. BufferTypes'
    BY <2>1, <2>2 DEF BufferTypes
  <2>4. ThreadTypes'
    BY SampleFacts DEF ThreadTypes, BufferTypes, BusyInv, Steps, Results
  <2>5. BusyInv'
    BY DEF ThreadTypes, BusyInv, Steps
  <2>6. LockInv'
    BY NoneAssumption DEF ThreadTypes, LockInv, Locked, Steps
  <2>. QED
    BY <2>3, <2>4, <2>5, <2>6
<1>11. ASSUME NEW t \in Threads, AwaitServer(t) PROVE BaseInv'
  <2> USE <1>11 DEF AwaitServer, RequestProduce
  <2>1. producer' \in [Sessions -> Nat]
    <3>1. session[t] \in Sessions /\ producer \in [Sessions -> Nat]
      BY DEF BufferTypes, BusyInv
    <3>2. /\ producer' = [producer EXCEPT ![session[t]] = producer[session[t]] - 1]
          /\ producer[session[t]] > 0
      OBVIOUS
    <3>. QED
      BY <3>1, <3>2
  <2>2. UNCHANGED <<consumer, served, made, sample, status, server>>
    OBVIOUS
  <2>3. BufferTypes'
    BY <2>1, <2>2 DEF BufferTypes
  <2>4. ThreadTypes'
    BY SampleFacts DEF ThreadTypes, BufferTypes, BusyInv, Steps, Results
  <2>5. BusyInv'
    BY DEF ThreadTypes, BusyInv, Steps
  <2>6. LockInv'
    BY NoneAssumption DEF ThreadTypes, LockInv, Locked, Steps
  <2>. QED
    BY <2>3, <2>4, <2>5, <2>6
<1>12. ASSUME NEW t \in Threads, Read(t) PROVE BaseInv'
  BY <1>12, NoneAssumption, ZenonT(40) DEF Read, BufferTypes, ThreadTypes, BusyInv,
     LockInv, Locked, Steps, Results
<1>13. ASSUME NEW t \in Threads, Consumed(t) PROVE BaseInv'
  <2> USE <1>13 DEF Consumed
  <2>1. producer' \in [Sessions -> Nat]
    <3>1. session[t] \in Sessions /\ producer \in [Sessions -> Nat]
      BY DEF BufferTypes, BusyInv
    <3>2. producer' = [producer EXCEPT ![session[t]] = producer[session[t]] + 1]
      OBVIOUS
    <3>. QED
      BY <3>1, <3>2
  <2>2. UNCHANGED <<consumer, served, made, sample, status, server>>
    OBVIOUS
  <2>3. BufferTypes'
    BY <2>1, <2>2 DEF BufferTypes
  <2>4. ThreadTypes'
    BY SampleFacts DEF ThreadTypes, BufferTypes, BusyInv, Steps, Results
  <2>5. BusyInv'
    BY DEF ThreadTypes, BusyInv, Steps
  <2>6. LockInv'
    BY NoneAssumption DEF ThreadTypes, LockInv, Locked, Steps
  <2>. QED
    BY <2>3, <2>4, <2>5, <2>6
<1>14. ASSUME NEW t \in Threads, Unlock(t) PROVE BaseInv'
  BY <1>14, NoneAssumption DEF Unlock, BufferTypes, ThreadTypes, BusyInv,
     LockInv, Locked, Steps, Results
<1>15. ASSUME NEW s \in Sessions, RequestConsume(s) PROVE BaseInv'
  <2> USE <1>15 DEF RequestConsume
  <2>1. consumer' \in [Sessions -> Nat]
    <3>1. s \in Sessions /\ consumer \in [Sessions -> Nat]
      BY DEF BufferTypes
    <3>2. /\ consumer' = [consumer EXCEPT ![s] = consumer[s] - 1]
          /\ consumer[s] > 0
      OBVIOUS
    <3>. QED
      BY <3>1, <3>2
  <2>2. UNCHANGED <<producer, served, made, sample, status>>
    OBVIOUS
  <2>3. server' \in [Sessions -> {"waiting", "decrypting"}]
    BY DEF BufferTypes
  <2>4. BufferTypes'
    BY <2>1, <2>2, <2>3 DEF BufferTypes
  <2>5. ThreadTypes'
    BY SampleFacts DEF ThreadTypes, BufferTypes, BusyInv, Steps, Results
  <2>6. BusyInv'
    BY DEF ThreadTypes, BusyInv, Steps
  <2>7. LockInv'
    BY NoneAssumption DEF ThreadTypes, LockInv, Locked, Steps
  <2>. QED
    BY <2>4, <2>5, <2>6, <2>7
<1>16. ASSUME NEW s \in Sessions, ServerDecrypt(s) PROVE BaseInv'
  <2> USE <1>16 DEF ServerDecrypt
  <2>1. producer' \in [Sessions -> Nat]
    <3>1. s \in Sessions /\ producer \in [Sessions -> Nat]
      BY DEF BufferTypes
    <3>2. producer' = [producer EXCEPT ![s] = producer[s] + 1]
      OBVIOUS
    <3>. QED
      BY <3>1, <3>2
  <2>2. UNCHANGED <<consumer, served, made>>
    OBVIOUS
  <2>3. sample' \in [Sessions -> Samples]
    BY SampleFacts DEF BufferTypes, Samples
  <2>4. status' \in [Sessions -> {"success", "failed"}]
    BY DEF BufferTypes
  <2>5. server' \in [Sessions -> {"waiting", "decrypting"}]
    BY DEF BufferTypes
  <2>6. BufferTypes'
    BY <2>1, <2>2, <2>3, <2>4, <2>5 DEF BufferTypes
  <2>7. ThreadTypes'
    BY SampleFacts DEF ThreadTypes, BufferTypes, BusyInv, Steps, Results
  <2>8. BusyInv'
    BY DEF ThreadTypes, BusyInv, Steps
  <2>9. LockInv'
    BY NoneAssumption DEF ThreadTypes, LockInv, Locked, Steps
  <2>. QED
    BY <2>6, <2>7, <2>8, <2>9
<1>17. CASE UNCHANGED vars
  BY <1>17 DEF vars, BufferTypes, ThreadTypes, BusyInv, LockInv
<1>. QED
  BY <1>1, <1>2, <1>3, <1>4, <1>5, <1>6, <1>7, <1>8, <1>9, <1>10, <1>11, <1>12, <1>13,
     <1>14, <1>15, <1>16, <1>17 DEF Next, ThreadStep, ServerStep

-----------------------------------------------------------------------------
(***************************************************************************)
(* The creation of buffers.                                                *)
(***************************************************************************)

CreationInv ==
  /\ made \subseteq served
  /\ \A t \in Threads : pc[t] = "new" => session[t] \in served \ made
  /\ OneBuffer

\* Most steps leave what CreationInv is about alone.
LEMMA CreationFrame ==
  ASSUME CreationInv, UNCHANGED <<served, made, session>>,
         \A t \in Threads : pc'[t] = "new" => pc[t] = "new"
  PROVE  CreationInv'
  BY DEF CreationInv, OneBuffer

LEMMA CreationInit == Init => CreationInv
  BY DEF Init, CreationInv, OneBuffer

LEMMA CreationStep == BaseInv /\ CreationInv /\ [Next]_vars => CreationInv'
<1> SUFFICES ASSUME BaseInv, CreationInv, [Next]_vars PROVE CreationInv'
  OBVIOUS
<1>0. pc \in [Threads -> Steps] /\ session \in [Threads -> Sessions \cup {None}]
  BY DEF BaseInv, ThreadTypes
<1> USE <1>0 DEF Goto, buffers, memory, locals
<1>1. ASSUME NEW t \in Threads, NEW s \in Sessions, NEW d \in Data, Decrypt(t, s, d)
      PROVE CreationInv'
  BY <1>1 DEF Decrypt, CreationInv, OneBuffer
<1>2. ASSUME NEW t \in Threads, CreateSessionBuffer(t) PROVE CreationInv'
  <2>1. UNCHANGED <<made, session>>
    BY <1>2 DEF CreateSessionBuffer
  <2>2. CASE session[t] \notin served /\ served' = served \cup {session[t]} /\ Goto(t, "new")
    BY <2>1, <2>2 DEF CreationInv, OneBuffer
  <2>3. CASE session[t] \in served /\ served' = served /\ Goto(t, "spin")
    BY <2>1, <2>3, CreationFrame
  <2>4. CASE session[t] \notin served /\ served' = served /\ Goto(t, "check")
    BY <2>1, <2>4, CreationFrame
  <2>. QED
    BY <1>2, <2>2, <2>3, <2>4 DEF CreateSessionBuffer
<1>3. ASSUME NEW t \in Threads, New(t) PROVE CreationInv'
  BY <1>3 DEF New, CreationInv, OneBuffer
<1>4. ASSUME NEW t \in Threads,
             \/ Lazy(t) \/ Spin(t) \/ Check(t) \/ Lock(t) \/ Unlock(t)
             \/ RequestBuffer(t) \/ Write(t) \/ Produced(t) \/ AwaitServer(t)
             \/ Read(t) \/ Consumed(t)
      PROVE CreationInv'
  <2>1. UNCHANGED <<served, made, session>>
    BY <1>4 DEF Lazy, Spin, Check, Lock, Unlock, RequestBuffer, RequestProduce, Write,
                Produced, AwaitServer, Read, Consumed
  <2>2. \E step \in Steps \ {"new"} : pc' = [pc EXCEPT ![t] = step]
    BY <1>4 DEF Lazy, Spin, Check, Lock, Unlock, RequestBuffer, RequestProduce, Write,
                Produced, AwaitServer, Read, Consumed, Steps
  <2>. QED
    BY <2>1, <2>2, CreationFrame
<1>5. ASSUME NEW s \in Sessions, RequestConsume(s) \/ ServerDecrypt(s) PROVE CreationInv'
  BY <1>5, CreationFrame DEF RequestConsume, ServerDecrypt
<1>6. CASE UNCHANGED vars
  BY <1>6, CreationFrame DEF vars
<1>. QED
  BY <1>1, <1>2, <1>3, <1>4, <1>5, <1>6 DEF Next, ThreadStep, ServerStep

-----------------------------------------------------------------------------
(***************************************************************************)
(* Who has a buffer: it is nobody's, the server's, or that of the one      *)
(* thread under _systemLock, which owns it or waits for the server.        *)
(***************************************************************************)

Holds(s, steps) == lock \in Threads /\ pc[lock] \in steps /\ session[lock] = s

TokenInv(s) ==
  IF Holds(s, Owning)
  THEN producer[s] = 0 /\ consumer[s] = 0 /\ server[s] = "waiting"
  ELSE IF Holds(s, {"await"})
  THEN \/ producer[s] = 1 /\ consumer[s] = 0 /\ server[s] = "waiting"
       \/ producer[s] = 0 /\ consumer[s] = 1 /\ server[s] = "waiting"
       \/ producer[s] = 0 /\ consumer[s] = 0 /\ server[s] = "decrypting"
  ELSE producer[s] = 1 /\ consumer[s] = 0 /\ server[s] = "waiting"

Tokens == \A s \in Sessions : TokenInv(s)

LEMMA TokensInit == Init => Tokens
<1> SUFFICES ASSUME Init, NEW s \in Sessions PROVE TokenInv(s)
  BY DEF Tokens
<1>1. lock \notin Threads
  BY NoneAssumption DEF Init
<1>2. producer[s] = 1 /\ consumer[s] = 0 /\ server[s] = "waiting"
  BY DEF Init
<1>. QED
  BY <1>1, <1>2 DEF TokenInv, Holds

\* What a thread does outside _systemLock does not matter.
LEMMA TokensOutside ==
  ASSUME BaseInv, Tokens, NEW t \in Threads, pc[t] \notin Locked,
         UNCHANGED <<producer, consumer, server, lock>>,
         \A u \in Threads \ {t} : pc'[u] = pc[u] /\ session'[u] = session[u]
  PROVE  Tokens'
  BY DEF BaseInv, LockInv, Tokens, TokenInv, Holds

\* The holder of _systemLock goes on, and changes at most its own buffer.
LEMMA TokensHolder ==
  ASSUME BaseInv, Tokens, NEW t \in Threads, pc[t] \in Locked,
         UNCHANGED <<lock, session>>,
         \A s \in Sessions \ {session[t]} :
           producer'[s] = producer[s] /\ consumer'[s] = consumer[s] /\ server'[s] = server[s],
         TokenInv(session[t])'
  PROVE  Tokens'
<1> SUFFICES ASSUME NEW s \in Sessions PROVE TokenInv(s)'
  BY DEF Tokens
<1>1. lock = t
  BY DEF BaseInv, LockInv
<1>2. CASE s = session[t]
  BY <1>2
<1>3. CASE s # session[t]
  BY <1>1, <1>3 DEF Tokens, TokenInv, Holds
<1>. QED
  BY <1>2, <1>3

LEMMA TokensStep == BaseInv /\ Tokens /\ [Next]_vars => Tokens'
<1> SUFFICES ASSUME BaseInv, Tokens, [Next]_vars PROVE Tokens'
  OBVIOUS
<1>0. /\ pc \in [Threads -> Steps] /\ session \in [Threads -> Sessions \cup {None}]
      /\ producer \in [Sessions -> Nat] /\ consumer \in [Sessions -> Nat]
      /\ server \in [Sessions -> {"waiting", "decrypting"}]
      /\ lock \in Threads \cup {None}
      /\ None \notin Threads
  BY NoneAssumption DEF BaseInv, ThreadTypes, BufferTypes
<1>1. ASSUME NEW t \in Threads, NEW s \in Sessions, NEW d \in Data, Decrypt(t, s, d)
      PROVE Tokens'
  BY <1>0, <1>1, TokensOutside DEF Decrypt, Locked, Goto, buffers
<1>2. ASSUME NEW t \in Threads,
             Lazy(t) \/ CreateSessionBuffer(t) \/ New(t) \/ Spin(t) \/ Check(t)
      PROVE Tokens'
  <2>1. pc[t] \in {"lazy", "create", "new", "spin", "check"} /\ pc[t] \notin Locked
    BY <1>2 DEF Lazy, CreateSessionBuffer, New, Spin, Check, Locked
  <2>2. UNCHANGED <<producer, consumer, server, lock, session>>
    BY <1>2 DEF Lazy, CreateSessionBuffer, New, Spin, Check, buffers, locals
  <2>3. \E step \in Steps : pc' = [pc EXCEPT ![t] = step]
    BY <1>2 DEF Lazy, CreateSessionBuffer, New, Spin, Check, Goto, Steps
  <2>. QED
    BY <1>0, <2>1, <2>2, <2>3, TokensOutside
<1>3. ASSUME NEW t \in Threads, Lock(t) PROVE Tokens'
  BY <1>0, <1>3 DEF Lock, Goto, buffers, locals, Tokens, TokenInv, Holds, Owning
<1>4. ASSUME NEW t \in Threads, Unlock(t) PROVE Tokens'
  <2>1. lock = t /\ pc[t] = "unlock"
    BY <1>4 DEF Unlock, BaseInv, LockInv, Locked
  <2>. QED
    BY <1>0, <1>4, <2>1 DEF Unlock, Goto, buffers, locals, Tokens, TokenInv, Holds, Owning
<1>5. ASSUME NEW t \in Threads,
             \/ RequestBuffer(t) \/ Write(t) \/ Produced(t) \/ AwaitServer(t)
             \/ Read(t) \/ Consumed(t)
      PROVE Tokens'
  <2> DEFINE s == session[t]
  <2>1. pc[t] \in {"request", "write", "produced", "await", "read", "consumed"}
    BY <1>5 DEF RequestBuffer, RequestProduce, Write, Produced, AwaitServer, Read, Consumed
  <2>2. pc[t] \in Locked /\ lock = t /\ s \in Sessions
    BY <2>1 DEF Locked, BaseInv, LockInv, BusyInv
  <2>3. TokenInv(s)
    BY <2>2 DEF Tokens
  <2>4. UNCHANGED <<lock, session, server>>
    BY <1>5 DEF RequestBuffer, RequestProduce, Write, Produced, AwaitServer, Read, Consumed,
                buffers, locals
  <2>5. \A r \in Sessions \ {s} : producer'[r] = producer[r] /\ consumer'[r] = consumer[r]
    BY <1>0, <1>5, <2>2 DEF RequestBuffer, RequestProduce, Write, Produced, AwaitServer,
                            Read, Consumed, buffers
  <2>6. TokenInv(s)'
    <3>1. ASSUME RequestBuffer(t) PROVE TokenInv(s)'
      <4>1. /\ pc[t] = "request" /\ pc'[t] = "write"
            /\ producer'[s] = producer[s] - 1 /\ consumer'[s] = consumer[s]
        BY <1>0, <2>2, <3>1 DEF RequestBuffer, RequestProduce, Goto
      <4>. QED
        BY <2>2, <2>3, <2>4, <4>1 DEF TokenInv, Holds, Owning
    <3>2. ASSUME Write(t) PROVE TokenInv(s)'
      <4>1. pc[t] = "write" /\ pc'[t] = "produced" /\ UNCHANGED <<producer, consumer>>
        BY <1>0, <3>2 DEF Write, Goto
      <4>. QED
        BY <2>2, <2>3, <2>4, <4>1 DEF TokenInv, Holds, Owning
    <3>3. ASSUME Produced(t) PROVE TokenInv(s)'
      <4>1. /\ pc[t] = "produced" /\ pc'[t] = "await"
            /\ producer'[s] = producer[s] /\ consumer'[s] = consumer[s] + 1
        BY <1>0, <2>2, <3>3 DEF Produced, Goto
      <4>. QED
        BY <2>2, <2>3, <2>4, <4>1 DEF TokenInv, Holds, Owning
    <3>4. ASSUME AwaitServer(t) PROVE TokenInv(s)'
      <4>1. /\ pc[t] = "await" /\ pc'[t] = "read" /\ producer[s] > 0
            /\ producer'[s] = producer[s] - 1 /\ consumer'[s] = consumer[s]
        BY <1>0, <2>2, <3>4 DEF AwaitServer, RequestProduce, Goto
      <4>. QED
        BY <2>2, <2>3, <2>4, <4>1 DEF TokenInv, Holds, Owning
    <3>5. ASSUME Read(t) PROVE TokenInv(s)'
      <4>1. pc[t] = "read" /\ pc'[t] = "consumed" /\ UNCHANGED <<producer, consumer>>
        BY <1>0, <3>5 DEF Read, Goto, buffers
      <4>. QED
        BY <2>2, <2>3, <2>4, <4>1 DEF TokenInv, Holds, Owning
    <3>6. ASSUME Consumed(t) PROVE TokenInv(s)'
      <4>1. /\ pc[t] = "consumed" /\ pc'[t] = "unlock"
            /\ producer'[s] = producer[s] + 1 /\ consumer'[s] = consumer[s]
        BY <1>0, <2>2, <3>6 DEF Consumed, Goto
      <4>. QED
        BY <2>2, <2>3, <2>4, <4>1 DEF TokenInv, Holds, Owning
    <3>. QED
      BY <1>5, <3>1, <3>2, <3>3, <3>4, <3>5, <3>6
  <2>. QED
    BY <2>2, <2>4, <2>5, <2>6, TokensHolder
<1>6. ASSUME NEW s \in Sessions, RequestConsume(s) \/ ServerDecrypt(s) PROVE Tokens'
  <2>1. UNCHANGED <<lock, pc, session>>
    BY <1>6 DEF RequestConsume, ServerDecrypt, locals
  <2>2. \A r \in Sessions \ {s} :
          producer'[r] = producer[r] /\ consumer'[r] = consumer[r] /\ server'[r] = server[r]
    BY <1>0, <1>6 DEF RequestConsume, ServerDecrypt
  <2>3. TokenInv(s)'
    <3>1. TokenInv(s)
      BY DEF Tokens
    <3>2. ASSUME RequestConsume(s) PROVE TokenInv(s)'
      <4>1. /\ server[s] = "waiting" /\ server'[s] = "decrypting"
            /\ consumer[s] > 0 /\ consumer'[s] = consumer[s] - 1
            /\ producer'[s] = producer[s]
        BY <1>0, <3>2 DEF RequestConsume
      <4>. QED
        BY <2>1, <3>1, <4>1 DEF TokenInv, Holds
    <3>3. ASSUME ServerDecrypt(s) PROVE TokenInv(s)'
      <4>1. /\ server[s] = "decrypting" /\ server'[s] = "waiting"
            /\ producer'[s] = producer[s] + 1 /\ consumer'[s] = consumer[s]
        BY <1>0, <3>3 DEF ServerDecrypt
      <4>. QED
        BY <2>1, <3>1, <4>1 DEF TokenInv, Holds
    <3>. QED
      BY <1>6, <3>2, <3>3
  <2>. QED
    BY <2>1, <2>2, <2>3 DEF Tokens, TokenInv, Holds
<1>7. CASE UNCHANGED vars
  BY <1>7 DEF vars, buffers, locals, Tokens, TokenInv, Holds
<1>. QED
  BY <1>1, <1>2, <1>3, <1>4, <1>5, <1>6, <1>7 DEF Next, ThreadStep, ServerStep

-----------------------------------------------------------------------------
(***************************************************************************)
(* What is in the buffer and in the caller's memory.                       *)
(***************************************************************************)

\* What decryption of d with result st leaves in memory m.
Answered(m, st, d) == m = IF st = "success" THEN Clear(d) ELSE Encrypted(d)

CallerInv(t) ==
  IF pc[t] \in {"consumed", "unlock", "idle"}
  THEN given[t] # None => Answered(data[t], result[t], given[t])
  ELSE data[t] = Encrypted(given[t]) /\ result[t] = "no buffer"

ExchangeInv(t) ==
  /\ pc[t] = "produced" => sample[session[t]] = Encrypted(given[t])
  /\ pc[t] = "await" =>
       IF producer[session[t]] = 1
       THEN Answered(sample[session[t]], status[session[t]], given[t])
       ELSE sample[session[t]] = Encrypted(given[t])
  /\ pc[t] = "read" => Answered(sample[session[t]], status[session[t]], given[t])

AnswerInv == \A t \in Threads : CallerInv(t) /\ ExchangeInv(t)

LEMMA AnswerInit == Init => AnswerInv
  BY DEF Init, AnswerInv, CallerInv, ExchangeInv

\* A thread outside _systemLock touches neither the buffers nor other callers.
LEMMA AnswerOutside ==
  ASSUME AnswerInv, NEW t \in Threads, UNCHANGED <<producer, memory>>,
         \A u \in Threads \ {t} :
           /\ pc'[u] = pc[u] /\ session'[u] = session[u] /\ given'[u] = given[u]
           /\ data'[u] = data[u] /\ result'[u] = result[u],
         CallerInv(t)', pc'[t] \notin {"produced", "await", "read"}
  PROVE  AnswerInv'
<1> SUFFICES ASSUME NEW u \in Threads PROVE CallerInv(u)' /\ ExchangeInv(u)'
  BY DEF AnswerInv
<1>1. CASE u = t
  BY <1>1 DEF ExchangeInv
<1>2. CASE u # t
  BY <1>2, ZenonT(40) DEF AnswerInv, CallerInv, ExchangeInv, Answered, memory
<1>. QED
  BY <1>1, <1>2

\* While a thread has _systemLock no other is in an exchange.
LEMMA AnswerHolder ==
  ASSUME BaseInv, AnswerInv, NEW t \in Threads, lock = t,
         \A u \in Threads \ {t} :
           /\ pc'[u] = pc[u] /\ session'[u] = session[u] /\ given'[u] = given[u]
           /\ data'[u] = data[u] /\ result'[u] = result[u],
         CallerInv(t)', ExchangeInv(t)'
  PROVE  AnswerInv'
<1> SUFFICES ASSUME NEW u \in Threads, u # t PROVE CallerInv(u)' /\ ExchangeInv(u)'
  BY DEF AnswerInv
<1>1. pc[u] \notin Locked
  BY DEF BaseInv, LockInv
<1>2. CallerInv(u)'
  BY DEF AnswerInv, CallerInv, Answered
<1>3. ExchangeInv(u)'
  BY <1>1 DEF ExchangeInv, Locked
<1>. QED
  BY <1>2, <1>3

LEMMA AnswerStep == BaseInv /\ Tokens /\ AnswerInv /\ [Next]_vars => AnswerInv'
<1> SUFFICES ASSUME BaseInv, Tokens, AnswerInv, [Next]_vars PROVE AnswerInv'
  OBVIOUS
<1>0. /\ pc \in [Threads -> Steps] /\ session \in [Threads -> Sessions \cup {None}]
      /\ data \in [Threads -> Samples] /\ given \in [Threads -> Data \cup {None}]
      /\ result \in [Threads -> Results]
      /\ producer \in [Sessions -> Nat] /\ sample \in [Sessions -> Samples]
      /\ status \in [Sessions -> {"success", "failed"}]
  BY DEF BaseInv, ThreadTypes, BufferTypes
<1>1. ASSUME NEW t \in Threads, NEW s \in Sessions, NEW d \in Data, Decrypt(t, s, d)
      PROVE AnswerInv'
  <2>1. /\ pc'[t] = "lazy" /\ data'[t] = Encrypted(d) /\ given'[t] = d
        /\ result'[t] = "no buffer"
    BY <1>0, <1>1 DEF Decrypt, Goto
  <2>2. CallerInv(t)'
    BY <2>1 DEF CallerInv
  <2>. QED
    BY <1>0, <1>1, <2>1, <2>2, AnswerOutside DEF Decrypt, Goto, buffers
<1>2. ASSUME NEW t \in Threads,
             Lazy(t) \/ CreateSessionBuffer(t) \/ New(t) \/ Spin(t) \/ Check(t) \/ Lock(t)
      PROVE AnswerInv'
  <2>1. pc[t] \in {"lazy", "create", "new", "spin", "check", "lock"}
    BY <1>2 DEF Lazy, CreateSessionBuffer, New, Spin, Check, Lock
  <2>2. UNCHANGED <<producer, memory, session, data, given, result>>
    BY <1>2 DEF Lazy, CreateSessionBuffer, New, Spin, Check, Lock, buffers, locals
  <2>3. \E step \in {"check", "create", "new", "spin", "lock", "idle", "request"} :
          pc' = [pc EXCEPT ![t] = step]
    BY <1>2 DEF Lazy, CreateSessionBuffer, New, Spin, Check, Lock, Goto
  <2>4. CallerInv(t)'
    BY <1>0, <2>1, <2>2, <2>3 DEF AnswerInv, CallerInv, Answered
  <2>. QED
    BY <1>0, <2>2, <2>3, <2>4, AnswerOutside
<1>3. ASSUME NEW t \in Threads,
             \/ RequestBuffer(t) \/ Write(t) \/ Produced(t) \/ AwaitServer(t)
             \/ Read(t) \/ Consumed(t) \/ Unlock(t)
      PROVE AnswerInv'
  <2> DEFINE s == session[t]
  <2>1. pc[t] \in Locked
    BY <1>3 DEF RequestBuffer, RequestProduce, Write, Produced, AwaitServer, Read, Consumed,
                Unlock, Locked
  <2>2. lock = t /\ s \in Sessions /\ given[t] \in Data
    BY <2>1 DEF Locked, BaseInv, LockInv, BusyInv
  <2>3. TokenInv(s) /\ CallerInv(t) /\ ExchangeInv(t)
    BY <2>2 DEF Tokens, AnswerInv
  <2>4. UNCHANGED <<session, given>>
    BY <1>3 DEF RequestBuffer, RequestProduce, Write, Produced, AwaitServer, Read, Consumed,
                Unlock, locals
  <2>5. \A u \in Threads \ {t} :
          pc'[u] = pc[u] /\ data'[u] = data[u] /\ result'[u] = result[u]
    BY <1>0, <1>3 DEF RequestBuffer, RequestProduce, Write, Produced, AwaitServer, Read,
                      Consumed, Unlock, Goto, locals
  <2>6. CallerInv(t)' /\ ExchangeInv(t)'
    <3>1. ASSUME RequestBuffer(t) PROVE CallerInv(t)' /\ ExchangeInv(t)'
      <4>1. pc[t] = "request" /\ pc'[t] = "write" /\ UNCHANGED <<data, result>>
        BY <1>0, <3>1 DEF RequestBuffer, RequestProduce, Goto, locals
      <4>. QED
        BY <2>3, <2>4, <4>1 DEF CallerInv, ExchangeInv
    <3>2. ASSUME Write(t) PROVE CallerInv(t)' /\ ExchangeInv(t)'
      <4>1. /\ pc[t] = "write" /\ pc'[t] = "produced" /\ UNCHANGED <<data, result>>
            /\ sample'[s] = data[t]
        BY <1>0, <2>2, <3>2 DEF Write, Goto, locals
      <4>. QED
        BY <2>3, <2>4, <4>1 DEF CallerInv, ExchangeInv
    <3>3. ASSUME Produced(t) PROVE CallerInv(t)' /\ ExchangeInv(t)'
      <4>1. /\ pc[t] = "produced" /\ pc'[t] = "await" /\ UNCHANGED <<data, result>>
            /\ UNCHANGED <<producer, sample, status>>
        BY <1>0, <3>3 DEF Produced, Goto, locals, memory
      <4>2. producer[s] = 0
        BY <2>2, <2>3, <4>1 DEF TokenInv, Holds, Owning
      <4>3. CallerInv(t)'
        BY <2>3, <2>4, <4>1 DEF CallerInv
      <4>4. sample'[session'[t]] = Encrypted(given'[t]) /\ producer'[session'[t]] # 1
        BY <2>3, <2>4, <4>1, <4>2 DEF ExchangeInv
      <4>. QED
        BY <4>1, <4>3, <4>4 DEF ExchangeInv
    <3>4. ASSUME AwaitServer(t) PROVE CallerInv(t)' /\ ExchangeInv(t)'
      <4>1. /\ pc[t] = "await" /\ pc'[t] = "read" /\ UNCHANGED <<data, result>>
            /\ producer[s] > 0 /\ UNCHANGED <<sample, status>>
        BY <1>0, <3>4 DEF AwaitServer, RequestProduce, Goto, locals, memory
      <4>2. producer[s] = 1
        BY <2>2, <2>3, <4>1 DEF TokenInv, Holds, Owning
      <4>. QED
        BY <2>3, <2>4, <4>1, <4>2 DEF CallerInv, ExchangeInv, Answered
    <3>5. ASSUME Read(t) PROVE CallerInv(t)' /\ ExchangeInv(t)'
      <4>1. /\ pc[t] = "read" /\ pc'[t] = "consumed"
            /\ data'[t] = sample[s] /\ result'[t] = status[s]
        BY <1>0, <3>5 DEF Read, Goto
      <4>. QED
        BY <2>3, <2>4, <4>1 DEF CallerInv, ExchangeInv, Answered
    <3>6. ASSUME Consumed(t) \/ Unlock(t) PROVE CallerInv(t)' /\ ExchangeInv(t)'
      <4>1. /\ pc[t] \in {"consumed", "unlock"} /\ pc'[t] \in {"unlock", "idle"}
            /\ UNCHANGED <<data, result>>
        BY <1>0, <3>6 DEF Consumed, Unlock, Goto, locals
      <4>. QED
        BY <2>3, <2>4, <4>1 DEF CallerInv, ExchangeInv, Answered
    <3>. QED
      BY <1>3, <3>1, <3>2, <3>3, <3>4, <3>5, <3>6
  <2>. QED
    BY <2>2, <2>4, <2>5, <2>6, AnswerHolder
<1>4. ASSUME NEW s \in Sessions, RequestConsume(s) PROVE AnswerInv'
  BY <1>4 DEF RequestConsume, AnswerInv, CallerInv, ExchangeInv, Answered, memory, locals
<1>5. ASSUME NEW s \in Sessions, ServerDecrypt(s) PROVE AnswerInv'
  <2>1. /\ UNCHANGED <<lock, pc, session, data, given, result>>
        /\ server[s] = "decrypting" /\ producer'[s] = producer[s] + 1
        /\ \A r \in Sessions \ {s} :
             sample'[r] = sample[r] /\ status'[r] = status[r] /\ producer'[r] = producer[r]
    BY <1>0, <1>5 DEF ServerDecrypt, locals
  <2>2. /\ lock \in Threads /\ pc[lock] = "await" /\ session[lock] = s /\ producer[s] = 0
    BY <2>1 DEF Tokens, TokenInv, Holds
  <2> DEFINE d == given[lock]
  <2>3. sample[s] = Encrypted(d)
    BY <2>2 DEF AnswerInv, ExchangeInv
  <2>4. Answered(sample'[s], status'[s], d)
    <3>1. sample[s].of = d
      BY <2>3 DEF Encrypted
    <3>2. CASE /\ sample' = [sample EXCEPT ![s] = Clear(@.of)]
               /\ status' = [status EXCEPT ![s] = "success"]
      BY <1>0, <3>1, <3>2 DEF Answered
    <3>3. CASE sample' = sample /\ status' = [status EXCEPT ![s] = "failed"]
      BY <1>0, <2>3, <3>3 DEF Answered
    <3>. QED
      BY <1>5, <3>2, <3>3 DEF ServerDecrypt
  <2>5. ASSUME NEW u \in Threads PROVE CallerInv(u)' /\ ExchangeInv(u)'
    <3>1. CallerInv(u)'
      BY <2>1 DEF AnswerInv, CallerInv, Answered
    <3>2. CASE u = lock
      <4>1. pc'[u] = "await" /\ session'[u] = s /\ given'[u] = d /\ producer'[s] = 1
        BY <2>1, <2>2, <3>2
      <4>. QED
        BY <2>4, <3>1, <4>1 DEF ExchangeInv
    <3>3. CASE u # lock
      <4>1. pc'[u] \notin {"produced", "await", "read"}
        BY <2>1, <3>3 DEF BaseInv, LockInv, Locked
      <4>. QED
        BY <3>1, <4>1 DEF ExchangeInv
    <3>. QED
      BY <3>1, <3>2, <3>3
  <2>. QED
    BY <2>5 DEF AnswerInv
<1>6. CASE UNCHANGED vars
  BY <1>6 DEF vars, buffers, memory, locals, AnswerInv, CallerInv, ExchangeInv, Answered
<1>. QED
  BY <1>1, <1>2, <1>3, <1>4, <1>5, <1>6 DEF Next, ThreadStep, ServerStep

-----------------------------------------------------------------------------
(***************************************************************************)
(* The theorems.                                                           *)
(***************************************************************************)

DecryptInv == BaseInv /\ CreationInv /\ Tokens /\ AnswerInv

LEMMA Invariance == Spec => []DecryptInv
<1>1. Init => DecryptInv
  BY BaseInit, CreationInit, TokensInit, AnswerInit DEF DecryptInv
<1>2. DecryptInv /\ [Next]_vars => DecryptInv'
  BY BaseStep, CreationStep, TokensStep, AnswerStep DEF DecryptInv
<1>. QED
  BY <1>1, <1>2, PTL DEF Spec

\* Every variable keeps its type; the two semaphores of a buffer never count past
\* one although threads and server raise them independently.
THEOREM TypeCorrect == Spec => []TypeOK
<1>1. DecryptInv => TypeOK
  <2> SUFFICES ASSUME DecryptInv PROVE TypeOK
    OBVIOUS
  <2>1. BufferTypes /\ ThreadTypes /\ \A s \in Sessions : TokenInv(s)
    BY DEF DecryptInv, BaseInv, Tokens
  <2>2. \A s \in Sessions : producer[s] \in 0..1 /\ consumer[s] \in 0..1
    BY <2>1 DEF TokenInv
  <2>3. producer \in [Sessions -> 0..1] /\ consumer \in [Sessions -> 0..1]
    BY <2>1, <2>2 DEF BufferTypes
  <2>. QED
    BY <2>1, <2>3 DEF TypeOK, BufferTypes, ThreadTypes
<1>. QED
  BY <1>1, Invariance, PTL

\* The memory of a buffer is in one hand at a time.
THEOREM ExclusiveBuffer == Spec => []BufferIsExclusive
<1>1. DecryptInv => BufferIsExclusive
  <2> SUFFICES ASSUME DecryptInv, NEW s \in Sessions,
                      NEW t \in Threads, pc[t] \in Owning, session[t] = s
               PROVE  /\ server[s] # "decrypting" /\ ~(consumer[s] > 0) /\ ~(producer[s] > 0)
                      /\ \A u \in Threads : pc[u] \in Owning => u = t
    BY DEF BufferIsExclusive
  <2>1. lock = t /\ \A u \in Threads : pc[u] \in Owning => lock = u
    BY DEF DecryptInv, BaseInv, LockInv, Owning, Locked
  <2>2. TokenInv(s) /\ Holds(s, Owning)
    BY <2>1 DEF DecryptInv, Tokens, Holds
  <2>. QED
    BY <2>1, <2>2 DEF TokenInv
<1>. QED
  BY <1>1, Invariance, PTL

\* A caller gets its own sample back, decrypted if Decrypt() says so.
THEOREM AnswersMatch == Spec => []OwnAnswer
<1>1. DecryptInv => OwnAnswer
  BY DEF DecryptInv, AnswerInv, CallerInv, Answered, OwnAnswer
<1>. QED
  BY <1>1, Invariance, PTL

\* A session's buffer is created once, however many threads find it missing.
THEOREM CreatedOnce == Spec => []OneBuffer
<1>1. DecryptInv => OneBuffer
  BY DEF DecryptInv, CreationInv
<1>. QED
  BY <1>1, Invariance, PTL

=============================================================================
