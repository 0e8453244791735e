-------------------------- MODULE MesaSurfaceProofs --------------------------
(***************************************************************************)
(* Theorems about MesaSurface, for any set of buffer objects and any size  *)
(* of the slot array.                                                      *)
(*                                                                         *)
(* The argument: a buffer that is neither in GBM's pool nor PENDING with   *)
(* the server is in exactly one place, one of the two pointers or the      *)
(* hands of one thread, and that thread knows its state.  So each          *)
(* compare_exchange on a buffer in a thread's hands succeeds, though no    *)
(* lock is held, and no buffer is dropped between two of them.             *)
(***************************************************************************)
EXTENDS MesaSurface, TLAPS

CoreType ==
  /\ locked \subseteq Buffers
  /\ state \in [Buffers -> BufferState]
  /\ active \in Buffers \cup {None}
  /\ retired \in Buffers \cup {None}
  /\ pc \in [Threads -> Steps]
  /\ buf \in [Threads -> Buffers \cup {None}]
  /\ other \in [Threads -> Buffers \cup {None}]

\* Buffer b is in the hands of thread t.
Has(t, b) ==
  \/ pc[t] \in {"stage", "submit", "exchange active"} /\ buf[t] = b
  \/ pc[t] \in {"retire", "exchange retired", "release", "give back"} /\ other[t] = b

\* What a thread knows of the buffer in its hands.
Known(t, b) ==
  /\ b # None
  /\ b \in locked
  /\ b # active
  /\ b # retired
  /\ pc[t] \in {"stage", "give back"} => state[b] = "FREE"
  /\ pc[t] = "submit" => state[b] = "STAGED"
  /\ pc[t] \in {"exchange active", "retire"} => state[b] = "ACTIVE"
  /\ pc[t] \in {"exchange retired", "release"} => state[b] = "RETIRED"

HandsInv ==
  /\ \A t \in Threads : \A b \in Buffers \cup {None} : Has(t, b) => Known(t, b)
  /\ \A t, u \in Threads : t # u => \A b \in Buffers : ~ (Has(t, b) /\ Has(u, b))
  /\ \A t \in Threads : pc[t] # "idle" => buf[t] # None
  /\ pc["monitor"] \notin {"stage", "submit", "request"}

PointerInv ==
  /\ active # None => state[active] = "ACTIVE"
  /\ retired # None => state[retired] = "RETIRED"

\* No buffer is lost: it is in GBM's pool, with a pointer, or in someone's hands.
Placed(b) ==
  /\ b \notin locked => state[b] = "FREE"
  /\ b \in locked /\ state[b] = "FREE" => Has("render", b) \/ Has("monitor", b)
  /\ state[b] = "ACTIVE" => b = active \/ Has("render", b) \/ Has("monitor", b)
  /\ state[b] = "RETIRED" => b = retired \/ Has("render", b) \/ Has("monitor", b)

SurfaceInv == CoreType /\ HandsInv /\ PointerInv /\ \A b \in Buffers : Placed(b)

LEMMA InitSound == Init => SurfaceInv
BY NoneAssumption DEF Init, SurfaceInv, CoreType, HandsInv, PointerInv, Placed, Has,
   Threads, BufferState, Steps

LEMMA LockFrontSound ==
  ASSUME SurfaceInv, NEW b \in Buffers, LockFront(b)
  PROVE  SurfaceInv'
<1>1. /\ pc["render"] = "idle"
      /\ b \notin locked
      /\ state[b] = "FREE"
      /\ b # active
      /\ b # retired
  BY NoneAssumption DEF SurfaceInv, HandsInv, PointerInv, Placed, CoreType, Has,
       Known, Threads, LockFront
<1>2. /\ locked' = locked \cup {b}
      /\ state' = state
      /\ active' = active
      /\ retired' = retired
      /\ pc' = [pc EXCEPT !["render"] = "stage"]
      /\ buf' = [buf EXCEPT !["render"] = b]
      /\ other' = other
  BY <1>1 DEF LockFront, GetOrCreateContentBuffer, ContentBuffer, Goto
<1>3. CoreType'
  BY <1>1, <1>2 DEF SurfaceInv, CoreType, BufferState, Steps, Threads
<1>4. PointerInv'
  BY <1>1, <1>2, NoneAssumption DEF SurfaceInv, CoreType, PointerInv, Placed, HandsInv, Known
<1>5. HandsInv'
  <2>1. ASSUME NEW u \in Threads, NEW c \in Buffers \cup {None}, Has(u, c)'
        PROVE  Known(u, c)'
    <3>1. CASE u = "render"
      <4>1. c = b /\ b # None
        BY <1>1, <1>2, <2>1, <3>1, NoneAssumption DEF SurfaceInv, CoreType, Has, Threads
      <4>. QED
        BY <1>1, <1>2, <3>1, <4>1, NoneAssumption DEF SurfaceInv, CoreType, Known, PointerInv, Threads
    <3>2. CASE u # "render"
      <4>1. Has(u, c)
        BY <1>1, <1>2, <2>1, <3>2 DEF SurfaceInv, CoreType, Has
      <4>2. Known(u, c)
        BY <4>1 DEF SurfaceInv, HandsInv
      <4>3. c # b
        BY <1>1, <3>2, <4>1, <4>2, NoneAssumption DEF SurfaceInv, CoreType, HandsInv, Known, Has, Threads
      <4>4. pc'[u] = pc[u]
        BY <1>1, <1>2, <3>2 DEF SurfaceInv, CoreType
      <4>. QED
        BY <1>1, <1>2, <4>2, <4>3, <4>4, NoneAssumption DEF SurfaceInv, CoreType, Known, PointerInv
    <3>. QED
      BY <3>1, <3>2
  <2>2. ASSUME NEW u \in Threads, NEW v \in Threads, u # v, NEW c \in Buffers
        PROVE  ~ (Has(u, c) /\ Has(v, c))'
    <3>1. ASSUME NEW w \in Threads, w # "render", Has(w, c)' PROVE Has(w, c)
      BY <1>1, <1>2, <3>1 DEF SurfaceInv, CoreType, Has
    <3>2. Has("render", c)' => Has("render", c) \/ c = b
      BY <1>1, <1>2, <2>2, NoneAssumption DEF SurfaceInv, CoreType, Has, Threads
    <3>3. ASSUME NEW w \in Threads, w # "render", b \in Buffers, Has(w, b) PROVE FALSE
      BY <1>1, <3>3, NoneAssumption DEF SurfaceInv, CoreType, HandsInv, Known, Has, Threads
    <3>. QED
      BY <1>1, <2>2, <3>1, <3>2, <3>3, NoneAssumption DEF SurfaceInv, CoreType, HandsInv, Threads
  <2>3. ASSUME NEW u \in Threads, pc'[u] # "idle" PROVE buf'[u] # None
    BY <1>1, <1>2, <2>3, NoneAssumption DEF SurfaceInv, CoreType, HandsInv, Has,
         Known, Threads
  <2>4. pc'["monitor"] \notin {"stage", "submit", "request"}
    BY <1>1, <1>2 DEF SurfaceInv, CoreType, HandsInv, Has, Known, Threads
  <2>. QED
    BY <2>1, <2>2, <2>3, <2>4 DEF HandsInv
<1>6. ASSUME NEW c \in Buffers PROVE Placed(c)'
  <2>1. CASE c = b
    BY <1>1, <1>2, <2>1, NoneAssumption DEF SurfaceInv, CoreType, HandsInv, PointerInv, Has, Known, Placed, Threads
  <2>2. CASE c # b
    <3>1. \A u \in Threads : Has(u, c) => Has(u, c)'
      BY <1>1, <1>2, <2>2, NoneAssumption DEF SurfaceInv, CoreType, Has, Threads
    <3>2. Placed(c)
      BY DEF SurfaceInv
    <3>. QED
      BY <1>1, <1>2, <2>2, <3>1, <3>2, NoneAssumption DEF Placed, Threads, SurfaceInv, CoreType, PointerInv
  <2>. QED
    BY <2>1, <2>2
<1>. QED
  BY <1>3, <1>4, <1>5, <1>6 DEF SurfaceInv

LEMMA StageSound ==
  ASSUME SurfaceInv, Stage
  PROVE  SurfaceInv'
<1>1. /\ pc["render"] = "stage"
      /\ buf["render"] \in Buffers
      /\ state[buf["render"]] = "FREE"
      /\ Has("render", buf["render"])
  BY NoneAssumption DEF SurfaceInv, HandsInv, PointerInv, Placed, CoreType, Has, Known, Threads, Stage
<1>2. /\ locked' = locked
      /\ state' = [state EXCEPT ![buf["render"]] = "STAGED"]
      /\ active' = active
      /\ retired' = retired
      /\ pc' = [pc EXCEPT !["render"] = "submit"]
      /\ buf' = buf
      /\ other' = other
  BY <1>1 DEF Stage, Advance, Goto
<1>3. CoreType'
  BY <1>1, <1>2 DEF SurfaceInv, CoreType, BufferState, Steps, Threads
<1>4. PointerInv'
  BY <1>1, <1>2, NoneAssumption DEF SurfaceInv, CoreType, PointerInv, Placed, HandsInv, Known
<1>5. HandsInv'
  <2>1. ASSUME NEW u \in Threads, NEW c \in Buffers \cup {None}, Has(u, c)'
        PROVE  Known(u, c)'
    BY <1>1, <1>2, <2>1, NoneAssumption DEF SurfaceInv, CoreType, HandsInv, Has, Known, Threads, Stage, PointerInv
  <2>2. ASSUME NEW u \in Threads, NEW v \in Threads, u # v, NEW c \in Buffers
        PROVE  ~ (Has(u, c) /\ Has(v, c))'
    BY <1>1, <1>2, <2>2, ZenonT(40) DEF SurfaceInv, CoreType, HandsInv, Has, Known, Threads, Stage, PointerInv
  <2>3. ASSUME NEW u \in Threads, pc'[u] # "idle" PROVE buf'[u] # None
    BY <1>1, <1>2, <2>3, NoneAssumption DEF SurfaceInv, CoreType, HandsInv, Has, Known, Threads, Stage
  <2>4. pc'["monitor"] \notin {"stage", "submit", "request"}
    BY <1>1, <1>2 DEF SurfaceInv, CoreType, HandsInv, Has, Known, Threads, Stage
  <2>. QED
    BY <2>1, <2>2, <2>3, <2>4 DEF HandsInv
<1>6. ASSUME NEW c \in Buffers PROVE Placed(c)'
  <2>1. CASE c = buf["render"]
    BY <1>1, <1>2, <2>1, NoneAssumption DEF SurfaceInv, CoreType, HandsInv, PointerInv, Has, Known, Placed, Threads
  <2>2. CASE c # buf["render"]
    <3>1. \A u \in Threads : Has(u, c) => Has(u, c)'
      BY <1>1, <1>2, <2>2, NoneAssumption DEF SurfaceInv, CoreType, Has, Threads, Stage
    <3>2. Placed(c)
      BY DEF SurfaceInv
    <3>. QED
      BY <1>1, <1>2, <2>2, <3>1, <3>2, NoneAssumption DEF Placed, Threads, SurfaceInv, CoreType, PointerInv
  <2>. QED
    BY <2>1, <2>2
<1>. QED
  BY <1>3, <1>4, <1>5, <1>6 DEF SurfaceInv

LEMMA SubmitSound ==
  ASSUME SurfaceInv, Submit
  PROVE  SurfaceInv'
<1>1. /\ pc["render"] = "submit"
      /\ buf["render"] \in Buffers
      /\ state[buf["render"]] = "STAGED"
      /\ Has("render", buf["render"])
  BY NoneAssumption DEF SurfaceInv, HandsInv, PointerInv, Placed, CoreType, Has, Known, Threads, Submit
<1>2. /\ locked' = locked
      /\ state' = [state EXCEPT ![buf["render"]] = "PENDING"]
      /\ active' = active
      /\ retired' = retired
      /\ pc' = [pc EXCEPT !["render"] = "request"]
      /\ buf' = buf
      /\ other' = other
  BY <1>1 DEF Submit, Advance, Goto
<1>3. CoreType'
  BY <1>1, <1>2 DEF SurfaceInv, CoreType, BufferState, Steps, Threads
<1>4. PointerInv'
  BY <1>1, <1>2, NoneAssumption DEF SurfaceInv, CoreType, PointerInv, Placed, HandsInv, Known
<1>5. HandsInv'
  <2>1. ASSUME NEW u \in Threads, NEW c \in Buffers \cup {None}, Has(u, c)'
        PROVE  Known(u, c)'
    BY <1>1, <1>2, <2>1, NoneAssumption DEF SurfaceInv, CoreType, HandsInv, Has, Known, Threads, Submit, PointerInv
  <2>2. ASSUME NEW u \in Threads, NEW v \in Threads, u # v, NEW c \in Buffers
        PROVE  ~ (Has(u, c) /\ Has(v, c))'
    BY <1>1, <1>2, <2>2 DEF SurfaceInv, CoreType, HandsInv, Has, Known, Threads, Submit, PointerInv
  <2>3. ASSUME NEW u \in Threads, pc'[u] # "idle" PROVE buf'[u] # None
    BY <1>1, <1>2, <2>3, NoneAssumption DEF SurfaceInv, CoreType, HandsInv, Has, Known, Threads, Submit
  <2>4. pc'["monitor"] \notin {"stage", "submit", "request"}
    BY <1>1, <1>2 DEF SurfaceInv, CoreType, HandsInv, Has, Known, Threads, Submit
  <2>. QED
    BY <2>1, <2>2, <2>3, <2>4 DEF HandsInv
<1>6. ASSUME NEW c \in Buffers PROVE Placed(c)'
  <2>1. CASE c = buf["render"]
    BY <1>1, <1>2, <2>1, NoneAssumption DEF SurfaceInv, CoreType, HandsInv, PointerInv, Has, Known, Placed, Threads
  <2>2. CASE c # buf["render"]
    <3>1. \A u \in Threads : Has(u, c) => Has(u, c)'
      BY <1>1, <1>2, <2>2, NoneAssumption DEF SurfaceInv, CoreType, Has, Threads, Submit
    <3>2. Placed(c)
      BY DEF SurfaceInv
    <3>. QED
      BY <1>1, <1>2, <2>2, <3>1, <3>2, NoneAssumption DEF Placed, Threads, SurfaceInv, CoreType, PointerInv
  <2>. QED
    BY <2>1, <2>2
<1>. QED
  BY <1>3, <1>4, <1>5, <1>6 DEF SurfaceInv

LEMMA RequestSound ==
  ASSUME SurfaceInv, Request \/ RequestFindsEvent
  PROVE  SurfaceInv'
<1>1. pc["render"] = "request" /\ buf["render"] # None
  BY NoneAssumption DEF SurfaceInv, HandsInv, PointerInv, Placed, CoreType, Has, Known, Threads, Request, RequestFindsEvent
<1>2. \E s \in {"idle", "request", "activate", "take retired"} : pc' = [pc EXCEPT !["render"] = s]
      /\ UNCHANGED <<locked, state, active, retired, buf, other>>
  BY <1>1 DEF Request, RequestFindsEvent, Goto, CoreType, SurfaceInv
<1>3. CoreType'
  BY <1>1, <1>2, ZenonT(40) DEF SurfaceInv, CoreType, BufferState, Steps, Threads
<1>4. PointerInv'
  BY <1>1, <1>2, NoneAssumption DEF SurfaceInv, CoreType, PointerInv, Placed, HandsInv, Known
<1>5. HandsInv'
  <2>1. ASSUME NEW u \in Threads, NEW c \in Buffers \cup {None}, Has(u, c)'
        PROVE  Known(u, c)'
    <3>1. CASE u = "render"
      BY <1>1, <1>2, <2>1, <3>1, NoneAssumption DEF SurfaceInv, CoreType, HandsInv, Has, Known, Threads, Request, RequestFindsEvent, PointerInv
    <3>2. CASE u # "render"
      <4>1. Has(u, c)
        BY <1>1, <1>2, <2>1, <3>2 DEF SurfaceInv, CoreType, Has
      <4>2. Known(u, c)
        BY <4>1 DEF SurfaceInv, HandsInv
      <4>3. TRUE
        BY <1>1, <3>2, <4>1, <4>2, NoneAssumption DEF SurfaceInv, CoreType, HandsInv, Known, Has, Threads
      <4>4. pc'[u] = pc[u]
        BY <1>1, <1>2, <3>2 DEF SurfaceInv, CoreType
      <4>. QED
        BY <1>1, <1>2, <4>2, <4>3, <4>4, NoneAssumption DEF SurfaceInv, CoreType, Known, PointerInv
    <3>. QED
      BY <3>1, <3>2
  <2>2. ASSUME NEW u \in Threads, NEW v \in Threads, u # v, NEW c \in Buffers
        PROVE  ~ (Has(u, c) /\ Has(v, c))'
    <3>1. ASSUME NEW w \in Threads, w # "render", Has(w, c)' PROVE Has(w, c)
      BY <1>1, <1>2, <3>1 DEF SurfaceInv, CoreType, Has
    <3>2. Has("render", c)' => Has("render", c)
      BY <1>1, <1>2, <2>2, NoneAssumption DEF SurfaceInv, CoreType, Has, Threads, Request, RequestFindsEvent
    <3>. QED
      BY <1>1, <2>2, <3>1, <3>2, NoneAssumption DEF SurfaceInv, CoreType, HandsInv, Threads
  <2>3. ASSUME NEW u \in Threads, pc'[u] # "idle" PROVE buf'[u] # None
    BY <1>1, <1>2, <2>3, NoneAssumption DEF SurfaceInv, CoreType, HandsInv, Has, Known, Threads, Request, RequestFindsEvent
  <2>4. pc'["monitor"] \notin {"stage", "submit", "request"}
    BY <1>1, <1>2 DEF SurfaceInv, CoreType, HandsInv, Has, Known, Threads, Request, RequestFindsEvent
  <2>. QED
    BY <2>1, <2>2, <2>3, <2>4 DEF HandsInv
<1>6. ASSUME NEW c \in Buffers PROVE Placed(c)'
  <2>1. \A u \in Threads : Has(u, c) => Has(u, c)'
    BY <1>1, <1>2, NoneAssumption DEF SurfaceInv, CoreType, Has, Threads, Request, RequestFindsEvent
  <2>2. Placed(c)
    BY DEF SurfaceInv
  <2>. QED
    BY <1>1, <1>2, <2>1, <2>2, NoneAssumption DEF Placed, Threads, SurfaceInv, CoreType, PointerInv
<1>. QED
  BY <1>3, <1>4, <1>5, <1>6 DEF SurfaceInv

LEMMA HandleSound ==
  ASSUME SurfaceInv, NEW b \in Buffers, Handle(b)
  PROVE  SurfaceInv'
<1>1. pc["monitor"] = "idle"
  BY NoneAssumption DEF SurfaceInv, HandsInv, PointerInv, Placed, CoreType, Has, Known, Threads, Handle
<1>2. \E s \in {"activate", "take retired"} : pc' = [pc EXCEPT !["monitor"] = s]
      /\ buf' = [buf EXCEPT !["monitor"] = b]
      /\ UNCHANGED <<locked, state, active, retired, other>>
  BY <1>1 DEF Handle, Goto
<1>3. CoreType'
  <2>1. PICK s \in {"activate", "take retired"} : pc' = [pc EXCEPT !["monitor"] = s]
    BY <1>2
  <2>2. pc' \in [Threads -> Steps]
    BY <2>1 DEF SurfaceInv, CoreType, Steps, Threads
  <2>. QED
    BY <1>2, <2>2 DEF SurfaceInv, CoreType, Threads
<1>4. PointerInv'
  BY <1>1, <1>2, NoneAssumption DEF SurfaceInv, CoreType, PointerInv, Placed, HandsInv, Known
<1>5. HandsInv'
  <2>1. ASSUME NEW u \in Threads, NEW c \in Buffers \cup {None}, Has(u, c)'
        PROVE  Known(u, c)'
    BY <1>1, <1>2, <2>1, NoneAssumption, ZenonT(40) DEF SurfaceInv, CoreType, HandsInv, Has, Known, Threads, Handle, PointerInv
  <2>2. ASSUME NEW u \in Threads, NEW v \in Threads, u # v, NEW c \in Buffers
        PROVE  ~ (Has(u, c) /\ Has(v, c))'
    BY <1>1, <1>2, <2>2 DEF SurfaceInv, CoreType, HandsInv, Has, Known, Threads, Handle, PointerInv
  <2>3. ASSUME NEW u \in Threads, pc'[u] # "idle" PROVE buf'[u] # None
    BY <1>1, <1>2, <2>3, NoneAssumption DEF SurfaceInv, CoreType, HandsInv, Has, Known, Threads, Handle
  <2>4. pc'["monitor"] \notin {"stage", "submit", "request"}
    BY <1>1, <1>2 DEF SurfaceInv, CoreType, HandsInv, Has, Known, Threads, Handle
  <2>. QED
    BY <2>1, <2>2, <2>3, <2>4 DEF HandsInv
<1>6. ASSUME NEW c \in Buffers PROVE Placed(c)'
  <2>1. \A u \in Threads : Has(u, c) => Has(u, c)'
    BY <1>1, <1>2, NoneAssumption DEF SurfaceInv, CoreType, Has, Threads, Handle
  <2>2. Placed(c)
    BY DEF SurfaceInv
  <2>. QED
    BY <1>1, <1>2, <2>1, <2>2, NoneAssumption DEF Placed, Threads, SurfaceInv, CoreType, PointerInv
<1>. QED
  BY <1>3, <1>4, <1>5, <1>6 DEF SurfaceInv

LEMMA ActivateSound ==
  ASSUME SurfaceInv, NEW t \in Threads, Activate(t), state[buf[t]] = "PENDING"
  PROVE  SurfaceInv'
<1>1. /\ pc[t] = "activate"
      /\ buf[t] \in locked
      /\ buf[t] # active
      /\ buf[t] # retired
  BY NoneAssumption DEF SurfaceInv, HandsInv, PointerInv, Placed, CoreType, Has, Known, Threads, Activate
<1>2. /\ locked' = locked
      /\ state' = [state EXCEPT ![buf[t]] = "ACTIVE"]
      /\ active' = active
      /\ retired' = retired
      /\ pc' = [pc EXCEPT ![t] = "exchange active"]
      /\ buf' = buf
      /\ other' = other
  BY <1>1 DEF Activate, Move, Goto
<1>3. CoreType'
  BY <1>1, <1>2 DEF SurfaceInv, CoreType, BufferState, Steps, Threads
<1>4. PointerInv'
  BY <1>1, <1>2, NoneAssumption DEF SurfaceInv, CoreType, PointerInv, Placed, HandsInv, Known
<1>5. HandsInv'
  <2>1. ASSUME NEW u \in Threads, NEW c \in Buffers \cup {None}, Has(u, c)'
        PROVE  Known(u, c)'
    <3>1. CASE u = t
      <4>1. c = buf[t] /\ buf[t] # None
        BY <1>1, <1>2, <2>1, <3>1, NoneAssumption DEF SurfaceInv, CoreType, Has, Threads
      <4>. QED
        BY <1>1, <1>2, <3>1, <4>1, NoneAssumption DEF SurfaceInv, CoreType, Known, PointerInv, Threads
    <3>2. CASE u # t
      <4>1. Has(u, c)
        BY <1>1, <1>2, <2>1, <3>2 DEF SurfaceInv, CoreType, Has
      <4>2. Known(u, c)
        BY <4>1 DEF SurfaceInv, HandsInv
      <4>3. c # buf[t]
        BY <1>1, <3>2, <4>1, <4>2, NoneAssumption DEF SurfaceInv, CoreType, HandsInv, Known, Has, Threads
      <4>4. pc'[u] = pc[u]
        BY <1>1, <1>2, <3>2 DEF SurfaceInv, CoreType
      <4>. QED
        BY <1>1, <1>2, <4>2, <4>3, <4>4, NoneAssumption DEF SurfaceInv, CoreType, Known, PointerInv
    <3>. QED
      BY <3>1, <3>2
  <2>2. ASSUME NEW u \in Threads, NEW v \in Threads, u # v, NEW c \in Buffers
        PROVE  ~ (Has(u, c) /\ Has(v, c))'
    <3>1. ASSUME NEW w \in Threads, w # t, Has(w, c)' PROVE Has(w, c)
      BY <1>1, <1>2, <3>1 DEF SurfaceInv, CoreType, Has
    <3>2. Has(t, c)' => Has(t, c) \/ c = buf[t]
      BY <1>1, <1>2, <2>2, NoneAssumption DEF SurfaceInv, CoreType, Has, Threads, Activate
    <3>3. ASSUME NEW w \in Threads, w # t, buf[t] \in Buffers, Has(w, buf[t]) PROVE FALSE
      BY <1>1, <3>3, NoneAssumption DEF SurfaceInv, CoreType, HandsInv, Known, Has, Threads
    <3>. QED
      BY <1>1, <2>2, <3>1, <3>2, <3>3, NoneAssumption DEF SurfaceInv, CoreType, HandsInv, Threads
  <2>3. ASSUME NEW u \in Threads, pc'[u] # "idle" PROVE buf'[u] # None
    BY <1>1, <1>2, <2>3, NoneAssumption DEF SurfaceInv, CoreType, HandsInv, Has, Known, Threads, Activate
  <2>4. pc'["monitor"] \notin {"stage", "submit", "request"}
    BY <1>1, <1>2 DEF SurfaceInv, CoreType, HandsInv, Has, Known, Threads, Activate
  <2>. QED
    BY <2>1, <2>2, <2>3, <2>4 DEF HandsInv
<1>6. ASSUME NEW c \in Buffers PROVE Placed(c)'
  <2>1. CASE c = buf[t]
    BY <1>1, <1>2, <2>1, NoneAssumption DEF SurfaceInv, CoreType, HandsInv, PointerInv, Has, Known, Placed, Threads
  <2>2. CASE c # buf[t]
    <3>1. \A u \in Threads : Has(u, c) => Has(u, c)'
      BY <1>1, <1>2, <2>2, NoneAssumption DEF SurfaceInv, CoreType, Has, Threads, Activate
    <3>2. Placed(c)
      BY DEF SurfaceInv
    <3>. QED
      BY <1>1, <1>2, <2>2, <3>1, <3>2, NoneAssumption DEF Placed, Threads, SurfaceInv, CoreType, PointerInv
  <2>. QED
    BY <2>1, <2>2
<1>. QED
  BY <1>3, <1>4, <1>5, <1>6 DEF SurfaceInv

LEMMA ActivateReturnsSound ==
  ASSUME SurfaceInv, NEW t \in Threads, Activate(t), state[buf[t]] # "PENDING"
  PROVE  SurfaceInv'
<1>1. pc[t] = "activate" /\ buf[t] # None
  BY NoneAssumption DEF SurfaceInv, HandsInv, PointerInv, Placed, CoreType, Has, Known, Threads, Activate
<1>2. /\ locked' = locked
      /\ state' = state
      /\ active' = active
      /\ retired' = retired
      /\ pc' = [pc EXCEPT ![t] = IF t = "monitor" THEN "idle" ELSE "request"]
      /\ buf' = buf
      /\ other' = other
  BY <1>1 DEF Activate, Move, Return, Goto
<1>3. CoreType'
  BY <1>1, <1>2 DEF SurfaceInv, CoreType, BufferState, Steps, Threads
<1>4. PointerInv'
  BY <1>1, <1>2, NoneAssumption DEF SurfaceInv, CoreType, PointerInv, Placed, HandsInv, Known
<1>5. HandsInv'
  <2>1. ASSUME NEW u \in Threads, NEW c \in Buffers \cup {None}, Has(u, c)'
        PROVE  Known(u, c)'
    BY <1>1, <1>2, <2>1, NoneAssumption, ZenonT(40) DEF SurfaceInv, CoreType, HandsInv, Has, Known, Threads, Activate, PointerInv
  <2>2. ASSUME NEW u \in Threads, NEW v \in Threads, u # v, NEW c \in Buffers
        PROVE  ~ (Has(u, c) /\ Has(v, c))'
    BY <1>1, <1>2, <2>2, ZenonT(40) DEF SurfaceInv, CoreType, HandsInv, Has, Known, Threads, Activate, PointerInv
  <2>3. ASSUME NEW u \in Threads, pc'[u] # "idle" PROVE buf'[u] # None
    BY <1>1, <1>2, <2>3, NoneAssumption DEF SurfaceInv, CoreType, HandsInv, Has, Known, Threads, Activate
  <2>4. pc'["monitor"] \notin {"stage", "submit", "request"}
    BY <1>1, <1>2 DEF SurfaceInv, CoreType, HandsInv, Has, Known, Threads, Activate
  <2>. QED
    BY <2>1, <2>2, <2>3, <2>4 DEF HandsInv
<1>6. ASSUME NEW c \in Buffers PROVE Placed(c)'
  <2>1. \A u \in Threads : Has(u, c) => Has(u, c)'
    BY <1>1, <1>2, NoneAssumption DEF SurfaceInv, CoreType, Has, Threads, Activate
  <2>2. Placed(c)
    BY DEF SurfaceInv
  <2>. QED
    BY <1>1, <1>2, <2>1, <2>2, NoneAssumption DEF Placed, Threads, SurfaceInv, CoreType, PointerInv
<1>. QED
  BY <1>3, <1>4, <1>5, <1>6 DEF SurfaceInv

LEMMA ExchangeActiveSound ==
  ASSUME SurfaceInv, NEW t \in Threads, ExchangeActive(t)
  PROVE  SurfaceInv'
<1>1. /\ pc[t] = "exchange active"
      /\ buf[t] \in Buffers
      /\ Has(t, buf[t])
      /\ active # buf[t]
      /\ active # None => active \in locked /\ active # retired
  BY NoneAssumption DEF SurfaceInv, HandsInv, PointerInv, Placed, CoreType, Has, Known, Threads, ExchangeActive
<1>2. /\ locked' = locked
      /\ state' = state
      /\ active' = buf[t]
      /\ retired' = retired
      /\ pc' = [pc EXCEPT ![t] = IF active # None THEN "retire" ELSE IF t = "monitor" THEN "idle" ELSE "request"]
      /\ buf' = buf
      /\ other' = [other EXCEPT ![t] = active]
  BY <1>1 DEF ExchangeActive, Return, Goto
<1>3. CoreType'
  BY <1>1, <1>2 DEF SurfaceInv, CoreType, BufferState, Steps, Threads
<1>4. PointerInv'
  BY <1>1, <1>2, NoneAssumption DEF SurfaceInv, CoreType, PointerInv, Placed, HandsInv, Known
<1>5. HandsInv'
  <2>1. ASSUME NEW u \in Threads, NEW c \in Buffers \cup {None}, Has(u, c)'
        PROVE  Known(u, c)'
    <3>1. CASE u = t
      <4>1. c = active /\ active # None
        BY <1>1, <1>2, <2>1, <3>1, NoneAssumption DEF SurfaceInv, CoreType, Has, Threads
      <4>. QED
        BY <1>1, <1>2, <3>1, <4>1, NoneAssumption DEF SurfaceInv, CoreType, Known, PointerInv, Threads
    <3>2. CASE u # t
      <4>1. Has(u, c)
        BY <1>1, <1>2, <2>1, <3>2 DEF SurfaceInv, CoreType, Has
      <4>2. Known(u, c)
        BY <4>1 DEF SurfaceInv, HandsInv
      <4>3. c # buf[t] /\ c # active
        BY <1>1, <3>2, <4>1, <4>2, NoneAssumption DEF SurfaceInv, CoreType, HandsInv, Known, Has, Threads
      <4>4. pc'[u] = pc[u]
        BY <1>1, <1>2, <3>2 DEF SurfaceInv, CoreType
      <4>. QED
        BY <1>1, <1>2, <4>2, <4>3, <4>4, NoneAssumption DEF SurfaceInv, CoreType, Known, PointerInv
    <3>. QED
      BY <3>1, <3>2
  <2>2. ASSUME NEW u \in Threads, NEW v \in Threads, u # v, NEW c \in Buffers
        PROVE  ~ (Has(u, c) /\ Has(v, c))'
    <3>1. ASSUME NEW w \in Threads, w # t, Has(w, c)' PROVE Has(w, c)
      BY <1>1, <1>2, <3>1 DEF SurfaceInv, CoreType, Has
    <3>2. Has(t, c)' => Has(t, c) \/ c = active
      BY <1>1, <1>2, <2>2, NoneAssumption DEF SurfaceInv, CoreType, Has, Threads, ExchangeActive
    <3>3. ASSUME NEW w \in Threads, w # t, active \in Buffers, Has(w, active) PROVE FALSE
      BY <1>1, <3>3, NoneAssumption DEF SurfaceInv, CoreType, HandsInv, Known, Has, Threads
    <3>. QED
      BY <1>1, <2>2, <3>1, <3>2, <3>3, NoneAssumption DEF SurfaceInv, CoreType, HandsInv, Threads
  <2>3. ASSUME NEW u \in Threads, pc'[u] # "idle" PROVE buf'[u] # None
    BY <1>1, <1>2, <2>3, NoneAssumption DEF SurfaceInv, CoreType, HandsInv, Has, Known, Threads, ExchangeActive
  <2>4. pc'["monitor"] \notin {"stage", "submit", "request"}
    BY <1>1, <1>2 DEF SurfaceInv, CoreType, HandsInv, Has, Known, Threads, ExchangeActive
  <2>. QED
    BY <2>1, <2>2, <2>3, <2>4 DEF HandsInv
<1>6. ASSUME NEW c \in Buffers PROVE Placed(c)'
  <2>1. CASE c = buf[t]
    BY <1>1, <1>2, <2>1, NoneAssumption, ZenonT(40) DEF SurfaceInv, CoreType, HandsInv, PointerInv, Has, Known, Placed, Threads
  <2>2. CASE c = active
    BY <1>1, <1>2, <2>2, NoneAssumption DEF SurfaceInv, CoreType, HandsInv, PointerInv, Has, Known, Placed, Threads
  <2>3. CASE c # buf[t] /\ c # active
    <3>1. \A u \in Threads : Has(u, c) => Has(u, c)'
      BY <1>1, <1>2, <2>3, NoneAssumption DEF SurfaceInv, CoreType, Has, Threads, ExchangeActive
    <3>2. Placed(c)
      BY DEF SurfaceInv
    <3>. QED
      BY <1>1, <1>2, <2>3, <3>1, <3>2, NoneAssumption DEF Placed, Threads, SurfaceInv, CoreType, PointerInv
  <2>. QED
    BY <2>1, <2>2, <2>3
<1>. QED
  BY <1>3, <1>4, <1>5, <1>6 DEF SurfaceInv

LEMMA RetireSound ==
  ASSUME SurfaceInv, NEW t \in Threads, Retire(t)
  PROVE  SurfaceInv'
<1>1. /\ pc[t] = "retire"
      /\ other[t] \in Buffers
      /\ state[other[t]] = "ACTIVE"
      /\ Has(t, other[t])
  BY NoneAssumption DEF SurfaceInv, HandsInv, PointerInv, Placed, CoreType, Has, Known, Threads, Retire
<1>2. /\ locked' = locked
      /\ state' = [state EXCEPT ![other[t]] = "RETIRED"]
      /\ active' = active
      /\ retired' = retired
      /\ pc' = [pc EXCEPT ![t] = "exchange retired"]
      /\ buf' = buf
      /\ other' = other
  BY <1>1 DEF Retire, Move, Goto
<1>3. CoreType'
  BY <1>1, <1>2 DEF SurfaceInv, CoreType, BufferState, Steps, Threads
<1>4. PointerInv'
  BY <1>1, <1>2, NoneAssumption DEF SurfaceInv, CoreType, PointerInv, Placed, HandsInv, Known
<1>5. HandsInv'
  <2>1. ASSUME NEW u \in Threads, NEW c \in Buffers \cup {None}, Has(u, c)'
        PROVE  Known(u, c)'
    <3>1. CASE u = t
      BY <1>1, <1>2, <2>1, <3>1, NoneAssumption DEF SurfaceInv, CoreType, HandsInv, Has, Known, Threads, Retire, PointerInv
    <3>2. CASE u # t
      <4>1. Has(u, c)
        BY <1>1, <1>2, <2>1, <3>2 DEF SurfaceInv, CoreType, Has
      <4>2. Known(u, c)
        BY <4>1 DEF SurfaceInv, HandsInv
      <4>3. c # other[t]
        BY <1>1, <3>2, <4>1, <4>2, NoneAssumption DEF SurfaceInv, CoreType, HandsInv, Known, Has, Threads
      <4>4. pc'[u] = pc[u]
        BY <1>1, <1>2, <3>2 DEF SurfaceInv, CoreType
      <4>. QED
        BY <1>1, <1>2, <4>2, <4>3, <4>4, NoneAssumption DEF SurfaceInv, CoreType, Known, PointerInv
    <3>. QED
      BY <3>1, <3>2
  <2>2. ASSUME NEW u \in Threads, NEW v \in Threads, u # v, NEW c \in Buffers
        PROVE  ~ (Has(u, c) /\ Has(v, c))'
    <3>1. ASSUME NEW w \in Threads, w # t, Has(w, c)' PROVE Has(w, c)
      BY <1>1, <1>2, <3>1 DEF SurfaceInv, CoreType, Has
    <3>2. Has(t, c)' => Has(t, c)
      BY <1>1, <1>2, <2>2, NoneAssumption DEF SurfaceInv, CoreType, Has, Threads, Retire
    <3>. QED
      BY <1>1, <2>2, <3>1, <3>2, NoneAssumption DEF SurfaceInv, CoreType, HandsInv, Threads
  <2>3. ASSUME NEW u \in Threads, pc'[u] # "idle" PROVE buf'[u] # None
    BY <1>1, <1>2, <2>3, NoneAssumption DEF SurfaceInv, CoreType, HandsInv, Has, Known, Threads, Retire
  <2>4. pc'["monitor"] \notin {"stage", "submit", "request"}
    BY <1>1, <1>2 DEF SurfaceInv, CoreType, HandsInv, Has, Known, Threads, Retire
  <2>. QED
    BY <2>1, <2>2, <2>3, <2>4 DEF HandsInv
<1>6. ASSUME NEW c \in Buffers PROVE Placed(c)'
  <2>1. CASE c = other[t]
    BY <1>1, <1>2, <2>1, NoneAssumption DEF SurfaceInv, CoreType, HandsInv, PointerInv, Has, Known, Placed, Threads
  <2>2. CASE c # other[t]
    <3>1. \A u \in Threads : Has(u, c) => Has(u, c)'
      BY <1>1, <1>2, <2>2, NoneAssumption DEF SurfaceInv, CoreType, Has, Threads, Retire
    <3>2. Placed(c)
      BY DEF SurfaceInv
    <3>. QED
      BY <1>1, <1>2, <2>2, <3>1, <3>2, NoneAssumption DEF Placed, Threads, SurfaceInv, CoreType, PointerInv
  <2>. QED
    BY <2>1, <2>2
<1>. QED
  BY <1>3, <1>4, <1>5, <1>6 DEF SurfaceInv

LEMMA ExchangeRetiredSound ==
  ASSUME SurfaceInv, NEW t \in Threads, ExchangeRetired(t)
  PROVE  SurfaceInv'
<1>1. /\ pc[t] = "exchange retired"
      /\ other[t] \in Buffers
      /\ state[other[t]] = "RETIRED"
      /\ retired # other[t]
      /\ retired # None => retired \in locked /\ retired # active
      /\ Has(t, other[t])
  BY NoneAssumption DEF SurfaceInv, HandsInv, PointerInv, Placed, CoreType, Has, Known, Threads, ExchangeRetired
<1>2. /\ locked' = locked
      /\ state' = state
      /\ active' = active
      /\ retired' = other[t]
      /\ pc' = [pc EXCEPT ![t] = IF retired # None THEN "release" ELSE IF t = "monitor" THEN "idle" ELSE "request"]
      /\ buf' = buf
      /\ other' = [other EXCEPT ![t] = retired]
  BY <1>1 DEF ExchangeRetired, Return, Goto
<1>3. CoreType'
  BY <1>1, <1>2 DEF SurfaceInv, CoreType, BufferState, Steps, Threads
<1>4. PointerInv'
  BY <1>1, <1>2, NoneAssumption DEF SurfaceInv, CoreType, PointerInv, Placed, HandsInv, Known
<1>5. HandsInv'
  <2>1. ASSUME NEW u \in Threads, NEW c \in Buffers \cup {None}, Has(u, c)'
        PROVE  Known(u, c)'
    <3>1. CASE u = t
      <4>1. c = retired /\ retired # None
        BY <1>1, <1>2, <2>1, <3>1, NoneAssumption DEF SurfaceInv, CoreType, Has, Threads
      <4>. QED
        BY <1>1, <1>2, <3>1, <4>1, NoneAssumption DEF SurfaceInv, CoreType, Known, PointerInv, Threads
    <3>2. CASE u # t
      <4>1. Has(u, c)
        BY <1>1, <1>2, <2>1, <3>2 DEF SurfaceInv, CoreType, Has
      <4>2. Known(u, c)
        BY <4>1 DEF SurfaceInv, HandsInv
      <4>3. c # other[t] /\ c # retired
        BY <1>1, <3>2, <4>1, <4>2, NoneAssumption DEF SurfaceInv, CoreType, HandsInv, Known, Has, Threads
      <4>4. pc'[u] = pc[u]
        BY <1>1, <1>2, <3>2 DEF SurfaceInv, CoreType
      <4>. QED
        BY <1>1, <1>2, <4>2, <4>3, <4>4, NoneAssumption DEF SurfaceInv, CoreType, Known, PointerInv
    <3>. QED
      BY <3>1, <3>2
  <2>2. ASSUME NEW u \in Threads, NEW v \in Threads, u # v, NEW c \in Buffers
        PROVE  ~ (Has(u, c) /\ Has(v, c))'
    <3>1. ASSUME NEW w \in Threads, w # t, Has(w, c)' PROVE Has(w, c)
      BY <1>1, <1>2, <3>1 DEF SurfaceInv, CoreType, Has
    <3>2. Has(t, c)' => Has(t, c) \/ c = retired
      BY <1>1, <1>2, <2>2, NoneAssumption DEF SurfaceInv, CoreType, Has, Threads, ExchangeRetired
    <3>3. ASSUME NEW w \in Threads, w # t, retired \in Buffers, Has(w, retired) PROVE FALSE
      BY <1>1, <3>3, NoneAssumption DEF SurfaceInv, CoreType, HandsInv, Known, Has, Threads
    <3>. QED
      BY <1>1, <2>2, <3>1, <3>2, <3>3, NoneAssumption DEF SurfaceInv, CoreType, HandsInv, Threads
  <2>3. ASSUME NEW u \in Threads, pc'[u] # "idle" PROVE buf'[u] # None
    BY <1>1, <1>2, <2>3, NoneAssumption DEF SurfaceInv, CoreType, HandsInv, Has, Known, Threads, ExchangeRetired
  <2>4. pc'["monitor"] \notin {"stage", "submit", "request"}
    BY <1>1, <1>2 DEF SurfaceInv, CoreType, HandsInv, Has, Known, Threads, ExchangeRetired
  <2>. QED
    BY <2>1, <2>2, <2>3, <2>4 DEF HandsInv
<1>6. ASSUME NEW c \in Buffers PROVE Placed(c)'
  <2>1. CASE c = other[t]
    BY <1>1, <1>2, <2>1, NoneAssumption DEF SurfaceInv, CoreType, HandsInv, PointerInv, Has, Known, Placed, Threads
  <2>2. CASE c = retired
    BY <1>1, <1>2, <2>2, NoneAssumption DEF SurfaceInv, CoreType, HandsInv, PointerInv, Has, Known, Placed, Threads
  <2>3. CASE c # other[t] /\ c # retired
    <3>1. \A u \in Threads : Has(u, c) => Has(u, c)'
      BY <1>1, <1>2, <2>3, NoneAssumption DEF SurfaceInv, CoreType, Has, Threads, ExchangeRetired
    <3>2. Placed(c)
      BY DEF SurfaceInv
    <3>. QED
      BY <1>1, <1>2, <2>3, <3>1, <3>2, NoneAssumption DEF Placed, Threads, SurfaceInv, CoreType, PointerInv
  <2>. QED
    BY <2>1, <2>2, <2>3
<1>. QED
  BY <1>3, <1>4, <1>5, <1>6 DEF SurfaceInv

LEMMA TakeRetiredSound ==
  ASSUME SurfaceInv, NEW t \in Threads, TakeRetired(t)
  PROVE  SurfaceInv'
<1>1. /\ pc[t] = "take retired"
      /\ retired # None => retired \in locked /\ retired # active
  BY NoneAssumption DEF SurfaceInv, HandsInv, PointerInv, Placed, CoreType, Has, Known, Threads, TakeRetired
<1>2. /\ locked' = locked
      /\ state' = state
      /\ active' = active
      /\ retired' = None
      /\ pc' = [pc EXCEPT ![t] = IF retired # None THEN "release" ELSE IF t = "monitor" THEN "idle" ELSE "request"]
      /\ buf' = buf
      /\ other' = [other EXCEPT ![t] = retired]
  BY <1>1 DEF TakeRetired, Return, Goto
<1>3. CoreType'
  BY <1>1, <1>2 DEF SurfaceInv, CoreType, BufferState, Steps, Threads
<1>4. PointerInv'
  BY <1>1, <1>2, NoneAssumption DEF SurfaceInv, CoreType, PointerInv, Placed, HandsInv, Known
<1>5. HandsInv'
  <2>1. ASSUME NEW u \in Threads, NEW c \in Buffers \cup {None}, Has(u, c)'
        PROVE  Known(u, c)'
    <3>1. CASE u = t
      <4>1. c = retired /\ retired # None
        BY <1>1, <1>2, <2>1, <3>1, NoneAssumption DEF SurfaceInv, CoreType, Has, Threads
      <4>. QED
        BY <1>1, <1>2, <3>1, <4>1, NoneAssumption DEF SurfaceInv, CoreType, Known, PointerInv, Threads
    <3>2. CASE u # t
      <4>1. Has(u, c)
        BY <1>1, <1>2, <2>1, <3>2 DEF SurfaceInv, CoreType, Has
      <4>2. Known(u, c)
        BY <4>1 DEF SurfaceInv, HandsInv
      <4>3. c # retired
        BY <1>1, <3>2, <4>1, <4>2, NoneAssumption DEF SurfaceInv, CoreType, HandsInv, Known, Has, Threads
      <4>4. pc'[u] = pc[u]
        BY <1>1, <1>2, <3>2 DEF SurfaceInv, CoreType
      <4>. QED
        BY <1>1, <1>2, <4>2, <4>3, <4>4, NoneAssumption DEF SurfaceInv, CoreType, Known, PointerInv
    <3>. QED
      BY <3>1, <3>2
  <2>2. ASSUME NEW u \in Threads, NEW v \in Threads, u # v, NEW c \in Buffers
        PROVE  ~ (Has(u, c) /\ Has(v, c))'
    <3>1. ASSUME NEW w \in Threads, w # t, Has(w, c)' PROVE Has(w, c)
      BY <1>1, <1>2, <3>1 DEF SurfaceInv, CoreType, Has
    <3>2. Has(t, c)' => Has(t, c) \/ c = retired
      BY <1>1, <1>2, <2>2, NoneAssumption DEF SurfaceInv, CoreType, Has, Threads, TakeRetired
    <3>3. ASSUME NEW w \in Threads, w # t, retired \in Buffers, Has(w, retired) PROVE FALSE
      BY <1>1, <3>3, NoneAssumption DEF SurfaceInv, CoreType, HandsInv, Known, Has, Threads
    <3>. QED
      BY <1>1, <2>2, <3>1, <3>2, <3>3, NoneAssumption DEF SurfaceInv, CoreType, HandsInv, Threads
  <2>3. ASSUME NEW u \in Threads, pc'[u] # "idle" PROVE buf'[u] # None
    BY <1>1, <1>2, <2>3, NoneAssumption DEF SurfaceInv, CoreType, HandsInv, Has, Known, Threads, TakeRetired
  <2>4. pc'["monitor"] \notin {"stage", "submit", "request"}
    BY <1>1, <1>2 DEF SurfaceInv, CoreType, HandsInv, Has, Known, Threads, TakeRetired
  <2>. QED
    BY <2>1, <2>2, <2>3, <2>4 DEF HandsInv
<1>6. ASSUME NEW c \in Buffers PROVE Placed(c)'
  <2>1. CASE c = retired
    BY <1>1, <1>2, <2>1, NoneAssumption DEF SurfaceInv, CoreType, HandsInv, PointerInv, Has, Known, Placed, Threads
  <2>2. CASE c # retired
    <3>1. \A u \in Threads : Has(u, c) => Has(u, c)'
      BY <1>1, <1>2, <2>2, NoneAssumption DEF SurfaceInv, CoreType, Has, Threads, TakeRetired
    <3>2. Placed(c)
      BY DEF SurfaceInv
    <3>. QED
      BY <1>1, <1>2, <2>2, <3>1, <3>2, NoneAssumption DEF Placed, Threads, SurfaceInv, CoreType, PointerInv
  <2>. QED
    BY <2>1, <2>2
<1>. QED
  BY <1>3, <1>4, <1>5, <1>6 DEF SurfaceInv

LEMMA ReleaseSound ==
  ASSUME SurfaceInv, NEW t \in Threads, Release(t)
  PROVE  SurfaceInv'
<1>1. /\ other[t] \in Buffers
      /\ state[other[t]] = "RETIRED"
      /\ Has(t, other[t])
  BY NoneAssumption DEF SurfaceInv, HandsInv, PointerInv, Placed, CoreType, Has, Known, Threads, Release
<1>2. /\ locked' = locked
      /\ state' = [state EXCEPT ![other[t]] = "FREE"]
      /\ active' = active
      /\ retired' = retired
      /\ pc' = [pc EXCEPT ![t] = "give back"]
      /\ buf' = buf
      /\ other' = other
  BY <1>1 DEF Release, Move, Goto
<1>3. CoreType'
  BY <1>1, <1>2 DEF SurfaceInv, CoreType, BufferState, Steps, Threads
<1>4. PointerInv'
  BY <1>1, <1>2, NoneAssumption DEF SurfaceInv, CoreType, PointerInv, Placed, HandsInv, Known
<1>5. HandsInv'
  <2>1. ASSUME NEW u \in Threads, NEW c \in Buffers \cup {None}, Has(u, c)'
        PROVE  Known(u, c)'
    <3>1. CASE u = t
      BY <1>1, <1>2, <2>1, <3>1, NoneAssumption, ZenonT(40) DEF SurfaceInv, CoreType, HandsInv, Has, Known, Threads, Release, PointerInv
    <3>2. CASE u # t
      <4>1. Has(u, c)
        BY <1>1, <1>2, <2>1, <3>2 DEF SurfaceInv, CoreType, Has
      <4>2. Known(u, c)
        BY <4>1 DEF SurfaceInv, HandsInv
      <4>3. c # other[t]
        BY <1>1, <3>2, <4>1, <4>2, NoneAssumption DEF SurfaceInv, CoreType, HandsInv, Known, Has, Threads
      <4>4. pc'[u] = pc[u]
        BY <1>1, <1>2, <3>2 DEF SurfaceInv, CoreType
      <4>. QED
        BY <1>1, <1>2, <4>2, <4>3, <4>4, NoneAssumption DEF SurfaceInv, CoreType, Known, PointerInv
    <3>. QED
      BY <3>1, <3>2
  <2>2. ASSUME NEW u \in Threads, NEW v \in Threads, u # v, NEW c \in Buffers
        PROVE  ~ (Has(u, c) /\ Has(v, c))'
    <3>1. ASSUME NEW w \in Threads, w # t, Has(w, c)' PROVE Has(w, c)
      BY <1>1, <1>2, <3>1 DEF SurfaceInv, CoreType, Has
    <3>2. Has(t, c)' => Has(t, c)
      BY <1>1, <1>2, <2>2, NoneAssumption DEF SurfaceInv, CoreType, Has, Threads, Release
    <3>. QED
      BY <1>1, <2>2, <3>1, <3>2, NoneAssumption DEF SurfaceInv, CoreType, HandsInv, Threads
  <2>3. ASSUME NEW u \in Threads, pc'[u] # "idle" PROVE buf'[u] # None
    BY <1>1, <1>2, <2>3, NoneAssumption DEF SurfaceInv, CoreType, HandsInv, Has, Known, Threads, Release
  <2>4. pc'["monitor"] \notin {"stage", "submit", "request"}
    BY <1>1, <1>2 DEF SurfaceInv, CoreType, HandsInv, Has, Known, Threads, Release
  <2>. QED
    BY <2>1, <2>2, <2>3, <2>4 DEF HandsInv
<1>6. ASSUME NEW c \in Buffers PROVE Placed(c)'
  <2>1. CASE c = other[t]
    BY <1>1, <1>2, <2>1, NoneAssumption DEF SurfaceInv, CoreType, HandsInv, PointerInv, Has, Known, Placed, Threads
  <2>2. CASE c # other[t]
    <3>1. \A u \in Threads : Has(u, c) => Has(u, c)'
      BY <1>1, <1>2, <2>2, NoneAssumption DEF SurfaceInv, CoreType, Has, Threads, Release
    <3>2. Placed(c)
      BY DEF SurfaceInv
    <3>. QED
      BY <1>1, <1>2, <2>2, <3>1, <3>2, NoneAssumption DEF Placed, Threads, SurfaceInv, CoreType, PointerInv
  <2>. QED
    BY <2>1, <2>2
<1>. QED
  BY <1>3, <1>4, <1>5, <1>6 DEF SurfaceInv

LEMMA GiveBackSound ==
  ASSUME SurfaceInv, NEW t \in Threads, GiveBack(t)
  PROVE  SurfaceInv'
<1>1. /\ other[t] \in Buffers
      /\ state[other[t]] = "FREE"
      /\ pc[t] = "give back"
      /\ Has(t, other[t])
  BY NoneAssumption, ZenonT(40) DEF SurfaceInv, HandsInv, PointerInv, Placed, CoreType, Has, Known, Threads, GiveBack
<1>2. /\ locked' = locked \ {other[t]}
      /\ state' = state
      /\ active' = active
      /\ retired' = retired
      /\ pc' = [pc EXCEPT ![t] = IF t = "monitor" THEN "idle" ELSE "request"]
      /\ buf' = buf
      /\ other' = other
  BY <1>1 DEF GiveBack, Return, Goto
<1>3. CoreType'
  BY <1>1, <1>2 DEF SurfaceInv, CoreType, BufferState, Steps, Threads
<1>4. PointerInv'
  BY <1>1, <1>2, NoneAssumption DEF SurfaceInv, CoreType, PointerInv, Placed, HandsInv, Known
<1>5. HandsInv'
  <2>1. ASSUME NEW u \in Threads, NEW c \in Buffers \cup {None}, Has(u, c)'
        PROVE  Known(u, c)'
    <3>1. CASE u = t
      BY <1>1, <1>2, <2>1, <3>1, NoneAssumption DEF SurfaceInv, CoreType, HandsInv, Has, Known, Threads, GiveBack, PointerInv
    <3>2. CASE u # t
      <4>1. Has(u, c)
        BY <1>1, <1>2, <2>1, <3>2 DEF SurfaceInv, CoreType, Has
      <4>2. Known(u, c)
        BY <4>1 DEF SurfaceInv, HandsInv
      <4>3. c # other[t]
        BY <1>1, <3>2, <4>1, <4>2, NoneAssumption DEF SurfaceInv, CoreType, HandsInv, Known, Has, Threads
      <4>4. pc'[u] = pc[u]
        BY <1>1, <1>2, <3>2 DEF SurfaceInv, CoreType
      <4>. QED
        BY <1>1, <1>2, <4>2, <4>3, <4>4, NoneAssumption DEF SurfaceInv, CoreType, Known, PointerInv
    <3>. QED
      BY <3>1, <3>2
  <2>2. ASSUME NEW u \in Threads, NEW v \in Threads, u # v, NEW c \in Buffers
        PROVE  ~ (Has(u, c) /\ Has(v, c))'
    <3>1. ASSUME NEW w \in Threads, w # t, Has(w, c)' PROVE Has(w, c)
      BY <1>1, <1>2, <3>1 DEF SurfaceInv, CoreType, Has
    <3>2. Has(t, c)' => Has(t, c)
      BY <1>1, <1>2, <2>2, NoneAssumption DEF SurfaceInv, CoreType, Has, Threads, GiveBack
    <3>. QED
      BY <1>1, <2>2, <3>1, <3>2, NoneAssumption DEF SurfaceInv, CoreType, HandsInv, Threads
  <2>3. ASSUME NEW u \in Threads, pc'[u] # "idle" PROVE buf'[u] # None
    BY <1>1, <1>2, <2>3, NoneAssumption DEF SurfaceInv, CoreType, HandsInv, Has, Known, Threads, GiveBack
  <2>4. pc'["monitor"] \notin {"stage", "submit", "request"}
    BY <1>1, <1>2 DEF SurfaceInv, CoreType, HandsInv, Has, Known, Threads, GiveBack
  <2>. QED
    BY <2>1, <2>2, <2>3, <2>4 DEF HandsInv
<1>6. ASSUME NEW c \in Buffers PROVE Placed(c)'
  <2>1. CASE c = other[t]
    BY <1>1, <1>2, <2>1, NoneAssumption DEF SurfaceInv, CoreType, HandsInv, PointerInv, Has, Known, Placed, Threads
  <2>2. CASE c # other[t]
    <3>1. \A u \in Threads : Has(u, c) => Has(u, c)'
      BY <1>1, <1>2, <2>2, NoneAssumption DEF SurfaceInv, CoreType, Has, Threads, GiveBack
    <3>2. Placed(c)
      BY DEF SurfaceInv
    <3>. QED
      BY <1>1, <1>2, <2>2, <3>1, <3>2, NoneAssumption DEF Placed, Threads, SurfaceInv, CoreType, PointerInv
  <2>. QED
    BY <2>1, <2>2
<1>. QED
  BY <1>3, <1>4, <1>5, <1>6 DEF SurfaceInv

\* A step that leaves the buffers, the pointers and the threads alone.
LEMMA UnchangedSound ==
  ASSUME SurfaceInv, UNCHANGED <<locked, state, active, retired, pc, buf, other>>
  PROVE  SurfaceInv'
<1>1. CoreType' /\ PointerInv'
  BY DEF SurfaceInv, CoreType, PointerInv
<1>2. \A t \in Threads : \A b \in Buffers \cup {None} :
        /\ Has(t, b)' <=> Has(t, b)
        /\ Known(t, b)' <=> Known(t, b)
  BY DEF Has, Known
<1>3. HandsInv'
  BY <1>2 DEF SurfaceInv, HandsInv
<1>4. \A b \in Buffers : Placed(b)'
  BY <1>2 DEF SurfaceInv, Placed, Threads
<1>. QED
  BY <1>1, <1>3, <1>4 DEF SurfaceInv

\* A buffer object GBM destroys is FREE, so no pointer names it.
LEMMA BoDestroyedSound ==
  ASSUME SurfaceInv, NEW b \in Buffers, BoDestroyed(b)
  PROVE  SurfaceInv'
<1>1. state[b] = "FREE"
  BY DEF BoDestroyed, SurfaceInv, Placed
<1>2. active # b /\ retired # b
  BY <1>1, NoneAssumption DEF SurfaceInv, PointerInv
<1>3. UNCHANGED <<locked, state, active, retired, pc, buf, other>>
  BY <1>2 DEF BoDestroyed, threads
<1>. QED
  BY <1>3, UnchangedSound

LEMMA ServerSound ==
  ASSUME SurfaceInv, ServerStep
  PROVE  SurfaceInv'
<1>1. UNCHANGED <<locked, state, active, retired, pc, buf, other>>
  BY DEF ServerStep, ServerTake, ServerRendered, ServerPublished, threads
<1>. QED
  BY <1>1, UnchangedSound

LEMMA ThreadStepSound ==
  ASSUME SurfaceInv, NEW t \in Threads, ThreadStep(t)
  PROVE  SurfaceInv'
<1>1. CASE Stage
  BY <1>1, StageSound
<1>2. CASE Submit
  BY <1>2, SubmitSound
<1>3. CASE Request \/ RequestFindsEvent
  BY <1>3, RequestSound
<1>4. CASE \E b \in Buffers : Handle(b)
  BY <1>4, HandleSound
<1>5. CASE Activate(t)
  BY <1>5, ActivateSound, ActivateReturnsSound
<1>6. CASE ExchangeActive(t)
  BY <1>6, ExchangeActiveSound
<1>7. CASE Retire(t)
  BY <1>7, RetireSound
<1>8. CASE ExchangeRetired(t)
  BY <1>8, ExchangeRetiredSound
<1>9. CASE TakeRetired(t)
  BY <1>9, TakeRetiredSound
<1>10. CASE Release(t)
  BY <1>10, ReleaseSound
<1>11. CASE GiveBack(t)
  BY <1>11, GiveBackSound
<1>. QED
  BY <1>1, <1>2, <1>3, <1>4, <1>5, <1>6, <1>7, <1>8, <1>9, <1>10, <1>11 DEF ThreadStep

LEMMA SurfaceInvariance == Spec => []SurfaceInv
<1>1. SurfaceInv /\ [Next]_vars => SurfaceInv'
  <2>. SUFFICES ASSUME SurfaceInv, [Next]_vars
                PROVE  SurfaceInv'
    OBVIOUS
  <2>1. CASE \E b \in Buffers : LockFront(b) \/ BoDestroyed(b)
    BY <2>1, LockFrontSound, BoDestroyedSound
  <2>2. CASE \E t \in Threads : ThreadStep(t)
    BY <2>2, ThreadStepSound
  <2>3. CASE ServerStep
    BY <2>3, ServerSound
  <2>4. CASE UNCHANGED vars
    BY <2>4, UnchangedSound DEF vars, threads
  <2>. QED
    BY <2>1, <2>2, <2>3, <2>4 DEF Next
<1>. QED
  BY InitSound, <1>1, PTL DEF Spec

(***************************************************************************)
(* The theorems.                                                           *)
(***************************************************************************)

\* RequestRender() and the two callbacks keep every buffer object with the owner
\* its state names, whatever the order of their atomic steps on the two threads.
THEOREM OwnershipHolds == Spec => []Ownership
<1>1. SurfaceInv => Ownership
  BY DEF SurfaceInv, CoreType, HandsInv, Placed, Has, Known, Ownership, Threads
<1>. QED
  BY SurfaceInvariance, <1>1, PTL

\* _activeBuffer and _retiredBuffer agree with the states, and no frame is lost
\* between the exchanges of OnBufferRendered() and OnBufferPublished().
THEOREM PointersHold == Spec => []PointersSound
<1>1. SurfaceInv => PointersSound
  <2>. SUFFICES ASSUME SurfaceInv
                PROVE  PointersSound
    OBVIOUS
  <2>1. ASSUME NEW b \in Buffers, state[b] = "ACTIVE", b # active
        PROVE  \E t \in Threads : \/ pc[t] = "exchange active" /\ buf[t] = b
                                  \/ pc[t] = "retire" /\ other[t] = b
    <3>1. PICK t \in Threads : Has(t, b)
      BY <2>1 DEF SurfaceInv, Placed, Threads
    <3>2. Known(t, b)
      BY <3>1 DEF SurfaceInv, HandsInv
    <3>. QED
      BY <2>1, <3>1, <3>2 DEF Has, Known
  <2>2. ASSUME NEW b \in Buffers, state[b] = "RETIRED", b # retired
        PROVE  \E t \in Threads : /\ pc[t] \in {"exchange retired", "release"}
                                  /\ other[t] = b
    <3>1. PICK t \in Threads : Has(t, b)
      BY <2>2 DEF SurfaceInv, Placed, Threads
    <3>2. Known(t, b)
      BY <3>1 DEF SurfaceInv, HandsInv
    <3>. QED
      BY <2>2, <3>1, <3>2 DEF Has, Known
  <2>. QED
    BY <2>1, <2>2 DEF PointersSound, SurfaceInv, PointerInv
<1>. QED
  BY SurfaceInvariance, <1>1, PTL

LEMMA TypeStep ==
  ASSUME TypeOK, SurfaceInv, SurfaceInv', [Next]_vars
  PROVE  TypeOK'
<1> USE DEF TypeOK, SurfaceInv, CoreType
<1>1. ASSUME NEW b \in Buffers, LockFront(b) PROVE TypeOK'
  BY <1>1 DEF LockFront, GetOrCreateContentBuffer, ContentBuffer
<1>2. ASSUME NEW b \in Buffers, BoDestroyed(b) PROVE TypeOK'
  BY <1>2 DEF BoDestroyed, threads
<1>3. CASE Stage \/ Submit
  BY <1>3 DEF Stage, Submit, Advance
<1>4. CASE Request
  BY <1>4 DEF Request
<1>5. CASE RequestFindsEvent
  <2>1. tries' \in 1..3
    <3>1. tries \in 1..3
      OBVIOUS
    <3> HIDE DEF TypeOK, SurfaceInv, CoreType
    <3>2. CASE tries = 3
      BY <1>5, <3>1, <3>2 DEF RequestFindsEvent
    <3>3. CASE tries # 3
      <4>1. tries' = tries + 1
        BY <1>5, <3>3, Zenon DEF RequestFindsEvent
      <4>. QED
        BY <3>1, <3>3, <4>1
    <3>. QED
      BY <3>2, <3>3
  <2>2. command' \in [Buffers -> {"IDLE", "REQUEST", "RENDERED", "PUBLISHED"}]
    BY <1>5, ZenonT(40) DEF RequestFindsEvent
  <2>. QED
    BY <1>5, <2>1, <2>2 DEF RequestFindsEvent
<1>6. ASSUME NEW b \in Buffers, Handle(b) PROVE TypeOK'
  BY <1>6 DEF Handle
<1>7. ASSUME NEW t \in Threads,
             \/ Activate(t) \/ ExchangeActive(t) \/ Retire(t) \/ ExchangeRetired(t)
             \/ TakeRetired(t) \/ Release(t) \/ GiveBack(t)
      PROVE  TypeOK'
  <2>1. UNCHANGED <<known, command, tries, server, screen>> /\ locked' \subseteq locked
    BY <1>7 DEF Activate, ExchangeActive, Retire, ExchangeRetired, TakeRetired, Release, GiveBack
  <2>. QED
    BY <2>1
<1>8. ASSUME NEW b \in Buffers, ServerTake(b) PROVE TypeOK'
  BY <1>8 DEF ServerTake, threads
<1>9. CASE ServerRendered
  BY <1>9 DEF ServerRendered, threads
<1>10. CASE ServerPublished
  BY <1>10 DEF ServerPublished, threads
<1>11. CASE UNCHANGED vars
  BY <1>11 DEF vars, threads
<1>. QED
  BY <1>1, <1>2, <1>3, <1>4, <1>5, <1>6, <1>7, <1>8, <1>9, <1>10, <1>11
  DEF Next, ThreadStep, ServerStep

\* Every variable keeps its type, and a buffer object out of GBM's hands always has
\* its ContentBuffer.
THEOREM TypeCorrect == Spec => []TypeOK
<1>1. Init => TypeOK
  BY DEF Init, TypeOK, Threads, BufferState, Steps
<1>2. TypeOK /\ SurfaceInv /\ SurfaceInv' /\ [Next]_vars => TypeOK'
  BY TypeStep
<1>. QED
  BY <1>1, <1>2, SurfaceInvariance, PTL DEF Spec

\* Stage() and Submit() never fail: what gbm_surface_lock_front_buffer returns is
\* a buffer object whose ContentBuffer is FREE.
THEOREM StageHolds == Spec => []StageNeverFails
<1>1. SurfaceInv => StageNeverFails
  BY DEF SurfaceInv, CoreType, HandsInv, Has, Known, StageNeverFails, Threads
<1>. QED
  BY SurfaceInvariance, <1>1, PTL

(***************************************************************************)
(* The channels.  The server posts on the buffer it has and no other, and  *)
(* a RENDERED stands no longer than until its PUBLISHED.  So the monitor   *)
(* takes the RENDERED of a frame after it took that of the frame before,   *)
(* and a frame is retired when the server is through with it.              *)
(***************************************************************************)

\* RequestRender() is at work on buffer b.
Attempting(b) == pc["render"] # "idle" /\ buf["render"] = b

\* OnBufferRendered() is about to activate buffer b.
Activating(b) == pc["monitor"] = "activate" /\ buf["monitor"] = b

\* How far the frame of buffer b is, by its command and by the server.
ChannelOf(b) ==
  /\ command[b] = "REQUEST" =>
       /\ state[b] = "PENDING" /\ server[2] # b
       /\ ~Attempting(b) /\ ~Activating(b)
  /\ command[b] = "RENDERED" =>
       /\ server[1] = "rendered" /\ server[2] = b
       /\ state[b] = "PENDING" /\ ~Activating(b)
  /\ Activating(b) => state[b] = "PENDING" /\ ~Attempting(b)
  /\ server[2] = b =>
       /\ state[b] \in {"PENDING", "ACTIVE"}
       /\ ~Attempting(b)
       /\ command[b] \in {"IDLE", "RENDERED"}
  /\ server[1] = "drawing" /\ server[2] = b =>
       command[b] = "IDLE" /\ state[b] = "PENDING" /\ ~Activating(b)

\* What the render thread does in RequestRender(): events on its buffer are old
\* PUBLISHED ones, of which there is one at most, and it never activates.
RenderInv ==
  /\ pc["render"] \in {"idle", "stage", "submit", "request", "take retired",
                       "release", "give back"}
  /\ pc["render"] \in {"request", "take retired", "release", "give back"} =>
       state[buf["render"]] = "PENDING"
  /\ pc["render"] # "idle" =>
       tries = 1 \/ (tries = 2 /\ command[buf["render"]] = "IDLE")

\* What the monitor retires is not with the server.
MonitorInv ==
  /\ pc["monitor"] \in {"activate", "exchange active"} /\ active \notin {None, buf["monitor"]}
       => server[2] # active
  /\ pc["monitor"] = "retire" => server[2] # other["monitor"]

ChannelInv == RenderInv /\ MonitorInv /\ \A b \in Buffers : ChannelOf(b)

LEMMA ChannelInit == Init => ChannelInv
BY NoneAssumption DEF Init, ChannelInv, RenderInv, MonitorInv, ChannelOf, Attempting,
   Activating, Threads

\* What the steps need of the two invariants that hold already.
LEMMA ChannelFacts ==
  ASSUME SurfaceInv, TypeOK
  PROVE  /\ pc \in [Threads -> Steps]
         /\ buf \in [Threads -> Buffers \cup {None}]
         /\ other \in [Threads -> Buffers \cup {None}]
         /\ state \in [Buffers -> BufferState]
         /\ command \in [Buffers -> {"IDLE", "REQUEST", "RENDERED", "PUBLISHED"}]
         /\ active \in Buffers \cup {None} /\ None \notin Buffers
         /\ active # None => state[active] = "ACTIVE"
         /\ pc["monitor"] \notin {"stage", "submit", "request"}
         /\ \A t \in Threads :
              /\ pc[t] # "idle" => buf[t] \in Buffers
              /\ pc[t] \in {"retire", "exchange retired", "release", "give back"} =>
                   other[t] \in Buffers
              /\ pc[t] = "retire" => state[other[t]] = "ACTIVE"
              /\ pc[t] \in {"exchange retired", "release"} => state[other[t]] = "RETIRED"
              /\ pc[t] = "give back" => state[other[t]] = "FREE"
              /\ pc[t] = "exchange active" => state[buf[t]] = "ACTIVE"
              /\ pc[t] = "stage" => state[buf[t]] = "FREE"
              /\ pc[t] = "submit" => state[buf[t]] = "STAGED"
         /\ \A b \in Buffers : b \notin locked => state[b] = "FREE"
<1> USE DEF SurfaceInv, CoreType, TypeOK
<1>1. ASSUME NEW t \in Threads
      PROVE  /\ pc[t] # "idle" => buf[t] \in Buffers
             /\ pc[t] \in {"retire", "exchange retired", "release", "give back"} =>
                  other[t] \in Buffers
             /\ pc[t] = "retire" => state[other[t]] = "ACTIVE"
             /\ pc[t] \in {"exchange retired", "release"} => state[other[t]] = "RETIRED"
             /\ pc[t] = "give back" => state[other[t]] = "FREE"
             /\ pc[t] = "exchange active" => state[buf[t]] = "ACTIVE"
             /\ pc[t] = "stage" => state[buf[t]] = "FREE"
             /\ pc[t] = "submit" => state[buf[t]] = "STAGED"
  BY NoneAssumption, ZenonT(40) DEF HandsInv, Has, Known
<1>2. \A b \in Buffers : b \notin locked => state[b] = "FREE"
  BY DEF Placed
<1>. QED
  BY <1>1, <1>2, NoneAssumption DEF PointerInv, HandsInv

LEMMA ChannelLockFront ==
  ASSUME SurfaceInv, TypeOK, ChannelInv, NEW b \in Buffers, LockFront(b)
  PROVE  ChannelInv'
<1> USE ChannelFacts DEF ChannelInv, RenderInv, MonitorInv, Attempting, Activating, Threads,
        LockFront, GetOrCreateContentBuffer, ContentBuffer, Goto
<1>1. RenderInv'
  BY DEF ChannelOf
<1>2. MonitorInv'
  BY DEF ChannelOf
<1>3. ASSUME NEW c \in Buffers PROVE ChannelOf(c)'
  BY DEF ChannelOf
<1>. QED
  BY <1>1, <1>2, <1>3

LEMMA ChannelAdvance ==
  ASSUME SurfaceInv, TypeOK, ChannelInv, Stage \/ Submit
  PROVE  ChannelInv'
<1>. DEFINE b == buf["render"]
<1>1. /\ b \in Buffers /\ Attempting(b)
      /\ UNCHANGED <<command, active, buf, other, tries, server>>
      /\ \/ /\ pc["render"] = "stage" /\ pc' = [pc EXCEPT !["render"] = "submit"]
            /\ state[b] = "FREE" /\ state' = [state EXCEPT ![b] = "STAGED"]
         \/ /\ pc["render"] = "submit" /\ pc' = [pc EXCEPT !["render"] = "request"]
            /\ state[b] = "STAGED" /\ state' = [state EXCEPT ![b] = "PENDING"]
  BY ChannelFacts DEF Stage, Submit, Advance, Goto, Threads, Attempting
<1>2. server[2] # b /\ command[b] \notin {"REQUEST", "RENDERED"} /\ ~Activating(b)
  BY <1>1 DEF ChannelInv, ChannelOf
<1>3. pc'["monitor"] = pc["monitor"] /\ pc'["render"] \in {"submit", "request"}
  BY <1>1, ChannelFacts DEF Threads
<1>4. RenderInv'
  <2>1. pc'["render"] = "request" => state'[b] = "PENDING"
    BY <1>1, <1>3, ChannelFacts DEF Threads
  <2>2. pc["render"] # "idle"
    BY <1>1
  <2>. QED
    BY <1>1, <1>3, <2>1, <2>2 DEF ChannelInv, RenderInv
<1>5. MonitorInv'
  BY <1>1, <1>3 DEF ChannelInv, MonitorInv
<1>6. ASSUME NEW c \in Buffers PROVE ChannelOf(c)'
  <2>1. Attempting(c)' = Attempting(c) /\ Activating(c)' = Activating(c)
    BY <1>1, <1>3 DEF Attempting, Activating
  <2>2. CASE c = b
    BY <1>1, <1>2, <2>1, <2>2 DEF ChannelOf
  <2>3. CASE c # b
    <3>1. state'[c] = state[c] /\ ChannelOf(c)
      BY <1>1, <2>3, ChannelFacts DEF ChannelInv
    <3>. QED
      BY <1>1, <2>1, <3>1 DEF ChannelOf
  <2>. QED
    BY <2>2, <2>3
<1>. QED
  BY <1>4, <1>5, <1>6 DEF ChannelInv

LEMMA ChannelRequest ==
  ASSUME SurfaceInv, TypeOK, ChannelInv, Request
  PROVE  ChannelInv'
<1> USE ChannelFacts DEF ChannelInv, RenderInv, MonitorInv, Attempting, Activating, Threads,
        Request, Goto
<1>1. RenderInv'
  BY DEF ChannelOf
<1>2. MonitorInv'
  BY DEF ChannelOf
<1>3. ASSUME NEW c \in Buffers PROVE ChannelOf(c)'
  BY DEF ChannelOf
<1>. QED
  BY <1>1, <1>2, <1>3

LEMMA ChannelRequestFinds ==
  ASSUME SurfaceInv, TypeOK, ChannelInv, RequestFindsEvent
  PROVE  ChannelInv'
<1>. DEFINE b == buf["render"]
<1>1. /\ b \in Buffers /\ Attempting(b) /\ pc["render"] = "request"
      /\ server[2] # b /\ ~Activating(b) /\ state[b] = "PENDING"
      /\ command[b] = "PUBLISHED" /\ tries = 1
  BY ChannelFacts DEF ChannelInv, RenderInv, ChannelOf, RequestFindsEvent, Attempting, Threads
<1>2. /\ UNCHANGED <<state, active, buf, other, server>>
      /\ command' = [command EXCEPT ![b] = "IDLE"]
      /\ pc' = [pc EXCEPT !["render"] = "take retired"]
      /\ tries' = 2
  <2>1. tries # 3 /\ tries # 2 /\ tries + 1 = 2 /\ command[b] # "RENDERED"
    BY <1>1
  <2>2. /\ UNCHANGED <<state, active, buf, other, server>>
        /\ tries' = tries + 1
        /\ command' = [command EXCEPT ![b] = "IDLE"]
        /\ pc' = [pc EXCEPT !["render"] = "take retired"]
    BY <2>1, Zenon DEF RequestFindsEvent, Goto
  <2>. QED
    BY <2>1, <2>2
<1>3. /\ pc'["monitor"] = pc["monitor"] /\ pc'["render"] = "take retired"
      /\ command'[b] = "IDLE"
  BY <1>1, <1>2, ChannelFacts DEF Threads
<1>4. RenderInv'
  BY <1>1, <1>2, <1>3 DEF RenderInv
<1>5. MonitorInv'
  BY <1>2, <1>3 DEF ChannelInv, MonitorInv
<1>6. ASSUME NEW c \in Buffers PROVE ChannelOf(c)'
  <2>1. Attempting(c)' = Attempting(c) /\ Activating(c)' = Activating(c)
    BY <1>1, <1>2, <1>3 DEF Attempting, Activating
  <2>2. CASE c = b
    BY <1>1, <1>2, <1>3, <2>1, <2>2 DEF ChannelOf
  <2>3. CASE c # b
    <3>1. command'[c] = command[c] /\ ChannelOf(c)
      BY <1>1, <1>2, <2>3, ChannelFacts DEF ChannelInv
    <3>. QED
      BY <1>2, <2>1, <3>1 DEF ChannelOf
  <2>. QED
    BY <2>2, <2>3
<1>. QED
  BY <1>4, <1>5, <1>6 DEF ChannelInv

LEMMA ChannelHandle ==
  ASSUME SurfaceInv, TypeOK, ChannelInv, NEW b \in Buffers, Handle(b)
  PROVE  ChannelInv'
<1>1. /\ pc["monitor"] = "idle" /\ command[b] \in {"RENDERED", "PUBLISHED"}
      /\ UNCHANGED <<state, active, other, tries, server>>
      /\ command' = [command EXCEPT ![b] = "IDLE"]
      /\ buf' = [buf EXCEPT !["monitor"] = b]
      /\ pc' = [pc EXCEPT !["monitor"] = IF command[b] = "RENDERED" THEN "activate"
                                                                    ELSE "take retired"]
  BY DEF Handle, Goto
<1>2. /\ pc'["render"] = pc["render"] /\ buf'["render"] = buf["render"]
      /\ buf'["monitor"] = b /\ command'[b] = "IDLE"
      /\ pc'["monitor"] \in {"activate", "take retired"}
      /\ pc'["monitor"] = "activate" => command[b] = "RENDERED"
      /\ \A c \in Buffers : c # b => command'[c] = command[c]
  BY <1>1, ChannelFacts DEF Threads
<1>3. /\ command[b] = "RENDERED" =>
           server[1] = "rendered" /\ server[2] = b /\ state[b] = "PENDING" /\ ~Attempting(b)
      /\ command[b] = "PUBLISHED" => server[2] # b
  BY <1>1 DEF ChannelInv, ChannelOf
<1>4. RenderInv'
  BY <1>1, <1>2, ChannelFacts DEF ChannelInv, RenderInv, Threads
<1>5. MonitorInv'
  BY <1>2, <1>3 DEF MonitorInv, Handle
<1>6. ASSUME NEW c \in Buffers PROVE ChannelOf(c)'
  <2>1. /\ Attempting(c)' = Attempting(c)
        /\ Activating(c)' => c = b /\ command[b] = "RENDERED"
    BY <1>2 DEF Attempting, Activating
  <2>2. ChannelOf(c)
    BY DEF ChannelInv
  <2>3. CASE c = b
    BY <1>1, <1>2, <1>3, <2>1, <2>2, <2>3 DEF ChannelOf
  <2>4. CASE c # b
    BY <1>1, <1>2, <2>1, <2>2, <2>4 DEF ChannelOf
  <2>. QED
    BY <2>3, <2>4
<1>. QED
  BY <1>4, <1>5, <1>6 DEF ChannelInv

LEMMA ChannelActivate ==
  ASSUME SurfaceInv, TypeOK, ChannelInv, NEW t \in Threads, Activate(t)
  PROVE  ChannelInv'
<1>1. /\ t = "monitor" /\ pc["monitor"] = "activate" /\ Activating(buf[t])
      /\ buf[t] \in Buffers
  BY ChannelFacts DEF Activate, ChannelInv, RenderInv, Activating, Threads
<1>. DEFINE b == buf["monitor"]
<1>2. /\ state[b] = "PENDING" /\ ~Attempting(b)
      /\ command[b] \notin {"REQUEST", "RENDERED"} /\ ~(server[1] = "drawing" /\ server[2] = b)
  BY <1>1 DEF ChannelInv, ChannelOf
<1>3. /\ UNCHANGED <<command, active, buf, other, tries, server>>
      /\ state' = [state EXCEPT ![b] = "ACTIVE"]
      /\ pc' = [pc EXCEPT !["monitor"] = "exchange active"]
  BY <1>1, <1>2 DEF Activate, Move, Goto
<1>4. /\ pc'["render"] = pc["render"] /\ pc'["monitor"] = "exchange active"
      /\ state'[b] = "ACTIVE" /\ \A c \in Buffers : c # b => state'[c] = state[c]
  BY <1>1, <1>3, ChannelFacts DEF Threads
<1>5. RenderInv'
  <2>1. pc["render"] # "idle" => buf["render"] # b /\ buf["render"] \in Buffers
    BY <1>2, ChannelFacts DEF Attempting, Threads
  <2>. QED
    BY <1>3, <1>4, <2>1 DEF ChannelInv, RenderInv
<1>6. MonitorInv'
  BY <1>1, <1>3, <1>4 DEF ChannelInv, MonitorInv
<1>7. ASSUME NEW c \in Buffers PROVE ChannelOf(c)'
  <2>1. Attempting(c)' = Attempting(c) /\ ~Activating(c)'
    BY <1>3, <1>4 DEF Attempting, Activating
  <2>2. ChannelOf(c)
    BY DEF ChannelInv
  <2>3. CASE c = b
    BY <1>2, <1>3, <1>4, <2>1, <2>2, <2>3 DEF ChannelOf
  <2>4. CASE c # b
    BY <1>3, <1>4, <2>1, <2>2, <2>4 DEF ChannelOf
  <2>. QED
    BY <2>3, <2>4
<1>. QED
  BY <1>5, <1>6, <1>7 DEF ChannelInv

LEMMA ChannelExchangeActive ==
  ASSUME SurfaceInv, TypeOK, ChannelInv, NEW t \in Threads, ExchangeActive(t)
  PROVE  ChannelInv'
<1> USE ChannelFacts DEF ChannelInv, RenderInv, MonitorInv, Attempting, Activating, Threads,
        ExchangeActive, Goto, Return
<1>1. RenderInv'
  BY DEF ChannelOf
<1>2. MonitorInv'
  BY DEF ChannelOf
<1>3. ASSUME NEW c \in Buffers PROVE ChannelOf(c)'
  BY DEF ChannelOf
<1>. QED
  BY <1>1, <1>2, <1>3

\* A thread moves on, with a buffer that is neither PENDING nor with the server.
LEMMA ChannelMoved ==
  ASSUME SurfaceInv, TypeOK, ChannelInv, NEW t \in Threads, NEW b \in Buffers,
         NEW s \in {"RETIRED", "FREE"}, NEW step \in {"exchange retired", "give back"},
         pc[t] \in {"retire", "release"}, step = "give back" \/ t = "monitor",
         state[b] \in {"ACTIVE", "RETIRED"}, server[2] # b,
         UNCHANGED <<command, active, buf, other, tries, server>>,
         state' = [state EXCEPT ![b] = s], pc' = [pc EXCEPT ![t] = step]
  PROVE  ChannelInv'
<1>1. /\ pc'[t] = step /\ \A u \in Threads : u # t => pc'[u] = pc[u]
      /\ state'[b] = s /\ \A c \in Buffers : c # b => state'[c] = state[c]
  BY ChannelFacts
<1>2. RenderInv'
  <2>1. pc["render"] \in {"request", "take retired", "release", "give back"} =>
          state'[buf["render"]] = "PENDING"
    BY <1>1, ChannelFacts DEF ChannelInv, RenderInv, Threads
  <2>2. pc'["render"] \in {"request", "take retired", "release", "give back"} =>
          pc["render"] \in {"request", "take retired", "release", "give back"}
    BY <1>1 DEF ChannelInv, RenderInv, Threads
  <2>3. (pc'["render"] # "idle" <=> pc["render"] # "idle")
    BY <1>1 DEF Threads
  <2>4. pc'["render"] \in {"idle", "stage", "submit", "request", "take retired",
                           "release", "give back"}
    BY <1>1 DEF ChannelInv, RenderInv, Threads
  <2>. QED
    BY <2>1, <2>2, <2>3, <2>4 DEF ChannelInv, RenderInv
<1>3. MonitorInv'
  BY <1>1 DEF ChannelInv, MonitorInv, Threads
<1>4. ASSUME NEW c \in Buffers PROVE ChannelOf(c)'
  <2>1. Attempting(c)' = Attempting(c) /\ Activating(c)' = Activating(c)
    BY <1>1 DEF Attempting, Activating, Threads
  <2>2. ChannelOf(c)
    BY DEF ChannelInv
  <2>3. CASE c = b
    BY <1>1, <2>1, <2>2, <2>3 DEF ChannelOf
  <2>4. CASE c # b
    BY <1>1, <2>1, <2>2, <2>4 DEF ChannelOf
  <2>. QED
    BY <2>3, <2>4
<1>. QED
  BY <1>2, <1>3, <1>4 DEF ChannelInv

LEMMA ChannelRetire ==
  ASSUME SurfaceInv, TypeOK, ChannelInv, NEW t \in Threads, Retire(t)
  PROVE  ChannelInv'
<1>1. /\ t = "monitor" /\ pc["monitor"] = "retire" /\ other[t] \in Buffers
      /\ state[other[t]] = "ACTIVE" /\ server[2] # other[t]
  BY ChannelFacts DEF Retire, ChannelInv, RenderInv, MonitorInv, Threads
<1>. DEFINE b == other["monitor"]
<1>2. /\ UNCHANGED <<command, active, buf, other, tries, server>>
      /\ state' = [state EXCEPT ![b] = "RETIRED"]
      /\ pc' = [pc EXCEPT !["monitor"] = "exchange retired"]
  BY <1>1 DEF Retire, Move, Goto
<1>. QED
  BY <1>1, <1>2, ChannelMoved

LEMMA ChannelExchangeRetired ==
  ASSUME SurfaceInv, TypeOK, ChannelInv, NEW t \in Threads, ExchangeRetired(t)
  PROVE  ChannelInv'
<1> USE ChannelFacts DEF ChannelInv, RenderInv, MonitorInv, Attempting, Activating, Threads,
        ExchangeRetired, Goto, Return
<1>1. RenderInv'
  BY DEF ChannelOf
<1>2. MonitorInv'
  BY DEF ChannelOf
<1>3. ASSUME NEW c \in Buffers PROVE ChannelOf(c)'
  BY DEF ChannelOf
<1>. QED
  BY <1>1, <1>2, <1>3

LEMMA ChannelTakeRetired ==
  ASSUME SurfaceInv, TypeOK, ChannelInv, NEW t \in Threads, TakeRetired(t)
  PROVE  ChannelInv'
<1> USE ChannelFacts DEF ChannelInv, RenderInv, MonitorInv, Attempting, Activating, Threads,
        TakeRetired, Goto, Return
<1>1. RenderInv'
  BY DEF ChannelOf
<1>2. MonitorInv'
  BY DEF ChannelOf
<1>3. ASSUME NEW c \in Buffers PROVE ChannelOf(c)'
  BY DEF ChannelOf
<1>. QED
  BY <1>1, <1>2, <1>3

LEMMA ChannelRelease ==
  ASSUME SurfaceInv, TypeOK, ChannelInv, NEW t \in Threads, Release(t)
  PROVE  ChannelInv'
<1>1. /\ pc[t] = "release" /\ other[t] \in Buffers /\ state[other[t]] = "RETIRED"
  BY ChannelFacts DEF Release
<1>2. server[2] # other[t]
  BY <1>1 DEF ChannelInv, ChannelOf
<1>3. /\ UNCHANGED <<command, active, buf, other, tries, server>>
      /\ state' = [state EXCEPT ![other[t]] = "FREE"]
      /\ pc' = [pc EXCEPT ![t] = "give back"]
  BY <1>1 DEF Release, Move, Goto
<1>. QED
  BY <1>1, <1>2, <1>3, ChannelMoved

LEMMA ChannelGiveBack ==
  ASSUME SurfaceInv, TypeOK, ChannelInv, NEW t \in Threads, GiveBack(t)
  PROVE  ChannelInv'
<1> USE ChannelFacts DEF ChannelInv, RenderInv, MonitorInv, Attempting, Activating, Threads,
        GiveBack, Goto, Return
<1>1. RenderInv'
  BY DEF ChannelOf
<1>2. MonitorInv'
  BY DEF ChannelOf
<1>3. ASSUME NEW c \in Buffers PROVE ChannelOf(c)'
  BY DEF ChannelOf
<1>. QED
  BY <1>1, <1>2, <1>3

LEMMA ChannelBoDestroyed ==
  ASSUME SurfaceInv, TypeOK, ChannelInv, NEW b \in Buffers, BoDestroyed(b)
  PROVE  ChannelInv'
<1> USE ChannelFacts DEF ChannelInv, RenderInv, MonitorInv, Attempting, Activating, Threads,
        BoDestroyed, threads
<1>1. RenderInv'
  BY DEF ChannelOf
<1>2. MonitorInv'
  BY DEF ChannelOf
<1>3. ASSUME NEW c \in Buffers PROVE ChannelOf(c)'
  BY DEF ChannelOf
<1>. QED
  BY <1>1, <1>2, <1>3

LEMMA ChannelTake ==
  ASSUME SurfaceInv, TypeOK, ChannelInv, NEW b \in Buffers, ServerTake(b)
  PROVE  ChannelInv'
<1> USE ChannelFacts DEF ChannelInv, RenderInv, MonitorInv, Attempting, Activating, Threads,
        ServerTake, threads
<1>1. RenderInv'
  BY DEF ChannelOf
<1>2. MonitorInv'
  BY DEF ChannelOf
<1>3. ASSUME NEW c \in Buffers PROVE ChannelOf(c)'
  BY ZenonT(40) DEF ChannelOf
<1>. QED
  BY <1>1, <1>2, <1>3

LEMMA ChannelRendered ==
  ASSUME SurfaceInv, TypeOK, ChannelInv, ServerRendered
  PROVE  ChannelInv'
<1> USE ChannelFacts DEF ChannelInv, RenderInv, MonitorInv, Attempting, Activating, Threads,
        ServerRendered, threads
<1>1. RenderInv'
  BY DEF ChannelOf
<1>2. MonitorInv'
  BY DEF ChannelOf
<1>3. ASSUME NEW c \in Buffers PROVE ChannelOf(c)'
  BY DEF ChannelOf
<1>. QED
  BY <1>1, <1>2, <1>3

LEMMA ChannelPublished ==
  ASSUME SurfaceInv, TypeOK, ChannelInv, ServerPublished
  PROVE  ChannelInv'
<1> USE ChannelFacts DEF ChannelInv, RenderInv, MonitorInv, Attempting, Activating, Threads,
        ServerPublished, threads
<1>1. RenderInv'
  BY DEF ChannelOf
<1>2. MonitorInv'
  BY DEF ChannelOf
<1>3. ASSUME NEW c \in Buffers PROVE ChannelOf(c)'
  BY DEF ChannelOf
<1>. QED
  BY <1>1, <1>2, <1>3

LEMMA ChannelRest ==
  ASSUME SurfaceInv, TypeOK, ChannelInv, UNCHANGED vars
  PROVE  ChannelInv'
<1> USE ChannelFacts DEF ChannelInv, RenderInv, MonitorInv, Attempting, Activating, Threads,
        vars, threads
<1>1. RenderInv'
  BY DEF ChannelOf
<1>2. MonitorInv'
  BY DEF ChannelOf
<1>3. ASSUME NEW c \in Buffers PROVE ChannelOf(c)'
  BY DEF ChannelOf
<1>. QED
  BY <1>1, <1>2, <1>3

LEMMA ChannelInvariance == Spec => []ChannelInv
<1>1. SurfaceInv /\ TypeOK /\ ChannelInv /\ [Next]_vars => ChannelInv'
  BY ChannelLockFront, ChannelAdvance, ChannelRequest, ChannelRequestFinds, ChannelHandle,
     ChannelActivate, ChannelExchangeActive, ChannelRetire, ChannelExchangeRetired,
     ChannelTakeRetired, ChannelRelease, ChannelGiveBack, ChannelBoDestroyed, ChannelTake,
     ChannelRendered, ChannelPublished, ChannelRest
  DEF Next, ThreadStep, ServerStep
<1>. QED
  BY <1>1, ChannelInit, SurfaceInvariance, TypeCorrect, PTL DEF Spec

\* Rendered() and Published() never meet a request for the buffer they are for, and
\* RequestRender() is never left with an event after its second attempt: a buffer
\* is retired, and so drawn into and requested again, only after the server
\* finished with it, though the posts and the callbacks overtake each other.
THEOREM ChannelsHold == Spec => []ChannelsDisciplined
<1>1. ASSUME SurfaceInv, TypeOK, ChannelInv PROVE ChannelsDisciplined
  <2>1. ASSUME server[1] # "idle" PROVE command[server[2]] # "REQUEST"
    <3>1. server[2] \in Buffers
      BY <2>1, <1>1 DEF TypeOK
    <3>. QED
      BY <3>1, <1>1 DEF ChannelInv, ChannelOf
  <2>2. ~(pc["render"] = "request" /\ tries = 3)
    <3>1. tries = 3 => ~(tries = 1) /\ ~(tries = 2)
      BY <1>1 DEF TypeOK
    <3>. QED
      BY <1>1, <3>1 DEF ChannelInv, RenderInv
  <2>. QED
    BY <2>1, <2>2 DEF ChannelsDisciplined
<1>. QED
  BY <1>1, SurfaceInvariance, TypeCorrect, ChannelInvariance, PTL

=============================================================================
