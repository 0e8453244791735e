------------------------ MODULE GraphicsBufferProofs ------------------------
(***************************************************************************)
(* Theorems about GraphicsBuffer, for any number of frames, any pushers    *)
(* and either kind of application.                                         *)
(***************************************************************************)
EXTENDS GraphicsBuffer, TLAPS, SequenceTheorems

(***************************************************************************)
(* Removing the last suspended post leaves a sequence of events.           *)
(***************************************************************************)
LEMMA PopIsEvents ==
  ASSUME NEW s \in Seq(Event), s # <<>>
  PROVE  s[Len(s)] \in Event /\ SubSeq(s, 1, Len(s) - 1) \in Seq(Event)
<1>1. Len(s) \in Nat /\ Len(s) # 0 /\ s \in [1..Len(s) -> Event]
  OBVIOUS
<1>2. Len(s) \in 1..Len(s)
  BY <1>1
<1>3. \A i \in 1..(Len(s) - 1) : s[i] \in Event
  BY <1>1
<1>4. SubSeq(s, 1, Len(s) - 1) = [i \in 1..(Len(s) - 1) |-> s[i]]
  BY <1>1
<1>. QED
  BY <1>1, <1>2, <1>3, <1>4

(***************************************************************************)
(* Both ends of the hand-over keep their variables within their types.     *)
(***************************************************************************)
LEMMA PostReturnsTyped ==
  ASSUME TypeOK, NEW t \in ServerThreads, NEW posted \in BOOLEAN,
         PostReturns(t, posted)
  PROVE  /\ spc' \in [ServerThreads -> ServerSteps]
         /\ posting' \in [ServerThreads -> Event]
         /\ retry' \in [ServerThreads -> BOOLEAN]
         /\ stack' \in [ServerThreads -> Seq(Event)]
<1> USE DEF TypeOK, ServerSteps
<1>1. stack[t] \in Seq(Event)
  OBVIOUS
<1>2. CASE stack[t] = <<>>
  BY <1>2 DEF PostReturns, Event
<1>3. CASE stack[t] # <<>>
  <2>1. /\ stack[t][Len(stack[t])] \in Event
        /\ SubSeq(stack[t], 1, Len(stack[t]) - 1) \in Seq(Event)
    BY <1>1, <1>3, PopIsEvents
  <2>. QED
    BY <1>3, <2>1, ZenonT(40) DEF PostReturns, Event
<1>. QED
  BY <1>2, <1>3

\* RequestRender() never counts past its third attempt: it looks for events
\* only after the first and the second.
AttemptOK ==
  cpc["app"] \in {"isRendered", "isPublished", "onRendered", "onPublished"}
    => attempt \in 1..2

TypeInv == TypeOK /\ AttemptOK

LEMMA ClientTypeStep ==
  ASSUME TypeInv, NEW t \in ClientThreads, ClientStep(t)
  PROVE  TypeInv'
<1> USE DEF TypeInv, AttemptOK, TypeOK, ClientSteps, ClientThreads, Mode, server
<1>1. CASE t = "app" /\ RequestFromIdle
  BY <1>1 DEF RequestFromIdle, Cas
<1>2. CASE t = "app" /\ RequestFromRequest
  BY <1>2 DEF RequestFromRequest, Cas, AfterRequest
<1>3. CASE t = "app" /\ RequestRefused
  BY <1>3 DEF RequestRefused
<1>4. CASE t = "app" /\ RequestSignal
  BY <1>4 DEF RequestSignal
<1>5. CASE t = "monitor" /\ ClientHandle
  BY <1>5 DEF ClientHandle
<1>6. CASE IsRendered(t)
  BY <1>6 DEF IsRendered, Cas
<1>7. CASE IsPublished(t)
  BY <1>7 DEF IsPublished, Cas, Resume, CountAttempt
<1>8. CASE OnRendered(t)
  BY <1>8 DEF OnRendered, Resume, CountAttempt
<1>9. CASE OnPublished(t)
  BY <1>9 DEF OnPublished, Resume, CountAttempt
<1>. QED
  BY <1>1, <1>2, <1>3, <1>4, <1>5, <1>6, <1>7, <1>8, <1>9 DEF ClientStep

LEMMA ServerTypeStep ==
  ASSUME TypeInv, NEW t \in ServerThreads, ServerStep(t)
  PROVE  TypeInv'
<1>0. ASSUME NEW posted \in BOOLEAN, PostReturns(t, posted)
      PROVE  /\ spc' \in [ServerThreads -> ServerSteps]
             /\ posting' \in [ServerThreads -> Event]
             /\ retry' \in [ServerThreads -> BOOLEAN]
             /\ stack' \in [ServerThreads -> Seq(Event)]
  BY <1>0, PostReturnsTyped DEF TypeInv
<1> USE DEF TypeInv, AttemptOK, TypeOK, ServerSteps, Event, Mode, client
<1>1. CASE t = "monitor" /\ ServerHandle
  BY <1>1 DEF ServerHandle
<1>2. CASE IsRequested(t)
  <2>1. stack' \in [ServerThreads -> Seq(Event)]
    <3>1. Append(stack[t], posting[t]) \in Seq(Event)
      OBVIOUS
    <3>. QED
      BY <1>2, <3>1 DEF IsRequested
  <2>. QED
    BY <1>2, <2>1 DEF IsRequested
<1>3. CASE PostFromIdle(t)
  BY <1>3 DEF PostFromIdle, Cas
<1>4. CASE PostFromRendered(t)
  BY <1>4 DEF PostFromRendered, Cas
<1>5. CASE PostFromPublished(t)
  BY <1>5 DEF PostFromPublished, Cas
<1>6. CASE PostRefused(t)
  <2>1. PostReturns(t, FALSE)
    BY <1>6 DEF PostRefused
  <2>2. /\ spc' \in [ServerThreads -> ServerSteps]
        /\ posting' \in [ServerThreads -> Event]
        /\ retry' \in [ServerThreads -> BOOLEAN]
        /\ stack' \in [ServerThreads -> Seq(Event)]
    BY <1>0, <2>1
  <2>. QED
    BY <1>6, <2>2 DEF PostRefused
<1>7. CASE PostSignal(t)
  <2>1. PostReturns(t, TRUE)
    BY <1>7 DEF PostSignal
  <2>2. /\ spc' \in [ServerThreads -> ServerSteps]
        /\ posting' \in [ServerThreads -> Event]
        /\ retry' \in [ServerThreads -> BOOLEAN]
        /\ stack' \in [ServerThreads -> Seq(Event)]
    BY <1>0, <2>1
  <2>. QED
    BY <1>7, <2>2 DEF PostSignal
<1>. QED
  BY <1>1, <1>2, <1>3, <1>4, <1>5, <1>6, <1>7 DEF ServerStep

LEMMA TypeStep == TypeInv /\ [Next]_vars => TypeInv'
<1> SUFFICES ASSUME TypeInv, [Next]_vars PROVE TypeInv'
  OBVIOUS
<1> USE DEF TypeInv, AttemptOK, TypeOK, client, server
<1>1. CASE RequestRender
  BY <1>1 DEF RequestRender, ClientSteps, ClientThreads
<1>2. ASSUME NEW t \in Pushers, Push(t) PROVE TypeInv'
  BY <1>2 DEF Push, ServerThreads, ServerSteps, Event
<1>3. ASSUME NEW t \in ClientThreads, ClientStep(t) PROVE TypeInv'
  BY <1>3, ClientTypeStep
<1>4. ASSUME NEW t \in ServerThreads, ServerStep(t) PROVE TypeInv'
  BY <1>4, ServerTypeStep
<1>5. CASE ClientDestroy
  BY <1>5 DEF ClientDestroy, ClientSteps, ClientThreads, Mode
<1>6. CASE ServerDestroy
  BY <1>6 DEF ServerDestroy, ServerSteps, Mode
<1>7. CASE UNCHANGED vars
  BY <1>7 DEF vars
<1>. QED
  BY <1>1, <1>2, <1>3, <1>4, <1>5, <1>6, <1>7 DEF Next

LEMMA TypeInvariance == Spec => []TypeInv
<1>1. Init => TypeInv
  BY BoundsAssumption DEF Init, TypeInv, TypeOK, AttemptOK, Mode, Event,
     ClientSteps, ServerSteps, ClientThreads
<1>. QED
  BY <1>1, TypeStep, PTL DEF Spec

(***************************************************************************)
(* Every variable of both processes keeps its type: in particular          *)
(* RequestRender() stops after its third attempt.                          *)
(***************************************************************************)
THEOREM TypeCorrect == Spec => []TypeOK
  BY TypeInvariance, PTL DEF TypeInv

-----------------------------------------------------------------------------
(***************************************************************************)
(* No wake-up is lost, in either direction.  The two facts are inductive   *)
(* once it is known that an end that is gone left DESTROYED behind: a      *)
(* monitor that stopped polling would otherwise miss the event.            *)
(***************************************************************************)
GoneMeansDestroyed ==
  (cpc["monitor"] = "gone" \/ spc["monitor"] = "gone") => command = "DESTROYED"

Signalled == GoneMeansDestroyed /\ RequestIsSignalled /\ PostIsSignalled

LEMMA ClientSignalStep ==
  ASSUME TypeInv, Signalled, NEW t \in ClientThreads, ClientStep(t)
  PROVE  Signalled'
<1> USE DEF Signalled, GoneMeansDestroyed, RequestIsSignalled, PostIsSignalled,
            TypeInv, TypeOK, ClientThreads, ServerThreads, Event, Mode, server
<1>1. CASE t = "app" /\ RequestFromIdle
  BY <1>1 DEF RequestFromIdle, Cas
<1>2. CASE t = "app" /\ RequestFromRequest
  BY <1>2 DEF RequestFromRequest, Cas, AfterRequest
<1>3. CASE t = "app" /\ RequestRefused
  BY <1>3 DEF RequestRefused
<1>4. CASE t = "app" /\ RequestSignal
  BY <1>4 DEF RequestSignal
<1>5. CASE t = "monitor" /\ ClientHandle
  BY <1>5 DEF ClientHandle
<1>6. CASE IsRendered(t)
  BY <1>6 DEF IsRendered, Cas
<1>7. CASE IsPublished(t)
  BY <1>7 DEF IsPublished, Cas, Resume
<1>8. CASE OnRendered(t)
  BY <1>8 DEF OnRendered, Resume
<1>9. CASE OnPublished(t)
  BY <1>9 DEF OnPublished, Resume
<1>. QED
  BY <1>1, <1>2, <1>3, <1>4, <1>5, <1>6, <1>7, <1>8, <1>9 DEF ClientStep

LEMMA ServerSignalStep ==
  ASSUME TypeInv, Signalled, NEW t \in ServerThreads, ServerStep(t)
  PROVE  Signalled'
<1> USE DEF Signalled, GoneMeansDestroyed, RequestIsSignalled, PostIsSignalled,
            TypeInv, TypeOK, ServerThreads, Event, Mode, client
<1>1. CASE t = "monitor" /\ ServerHandle
  BY <1>1 DEF ServerHandle
<1>2. CASE IsRequested(t)
  BY <1>2 DEF IsRequested
<1>3. CASE PostFromIdle(t)
  BY <1>3 DEF PostFromIdle, Cas
<1>4. CASE PostFromRendered(t)
  BY <1>4 DEF PostFromRendered, Cas
<1>5. CASE PostFromPublished(t)
  BY <1>5 DEF PostFromPublished, Cas
<1>6. CASE PostRefused(t)
  BY <1>6 DEF PostRefused, PostReturns
<1>7. CASE PostSignal(t)
  <2>1. consumed' > 0
    BY <1>7 DEF PostSignal
  <2>2. spc'["monitor"] = "gone" => spc["monitor"] = "gone"
    BY <1>7 DEF PostSignal, PostReturns
  <2>3. spc["monitor"] = "isRequested" => spc'["monitor"] = "isRequested"
    BY <1>7 DEF PostSignal, PostReturns
  <2>. QED
    BY <1>7, <2>1, <2>2, <2>3 DEF PostSignal
<1>. QED
  BY <1>1, <1>2, <1>3, <1>4, <1>5, <1>6, <1>7 DEF ServerStep

LEMMA SignalStep == TypeInv /\ Signalled /\ [Next]_vars => Signalled'
<1> SUFFICES ASSUME TypeInv, Signalled, [Next]_vars PROVE Signalled'
  OBVIOUS
<1> USE DEF Signalled, GoneMeansDestroyed, RequestIsSignalled, PostIsSignalled,
            TypeInv, TypeOK, ClientThreads, ServerThreads, Event, client, server
<1>1. CASE RequestRender
  BY <1>1 DEF RequestRender
<1>2. ASSUME NEW t \in Pushers, Push(t) PROVE Signalled'
  BY <1>2, PushersAssumption DEF Push
<1>3. ASSUME NEW t \in ClientThreads, ClientStep(t) PROVE Signalled'
  BY <1>3, ClientSignalStep
<1>4. ASSUME NEW t \in ServerThreads, ServerStep(t) PROVE Signalled'
  BY <1>4, ServerSignalStep
<1>5. CASE ClientDestroy
  BY <1>5 DEF ClientDestroy
<1>6. CASE ServerDestroy
  BY <1>6 DEF ServerDestroy
<1>7. CASE UNCHANGED vars
  BY <1>7 DEF vars
<1>. QED
  BY <1>1, <1>2, <1>3, <1>4, <1>5, <1>6, <1>7 DEF Next

(***************************************************************************)
(* Every REQUEST, RENDERED or PUBLISHED standing in _command is covered by *)
(* an event the other end has yet to read, however many events coalesced   *)
(* and whichever thread consumed one without reading the eventfd.          *)
(***************************************************************************)
THEOREM NoLostWakeup == Spec => [](RequestIsSignalled /\ PostIsSignalled)
<1>1. Init => Signalled
  BY DEF Init, Signalled, GoneMeansDestroyed, RequestIsSignalled,
     PostIsSignalled, Event, ClientThreads, ServerThreads
<1>2. Signalled => RequestIsSignalled /\ PostIsSignalled
  BY DEF Signalled
<1>. QED
  BY <1>1, <1>2, SignalStep, TypeInvariance, PTL DEF Spec

\* No RENDERED or PUBLISHED stands in the command byte without an event to be
\* read, a thread of the server about to write it, or the monitor about to look.
COROLLARY PostNeverLost == Spec => []PostIsSignalled
<1>1. RequestIsSignalled /\ PostIsSignalled => PostIsSignalled
  OBVIOUS
<1>. QED
  BY <1>1, NoLostWakeup, PTL

-----------------------------------------------------------------------------
(***************************************************************************)
(* No compare_exchange has DESTROYED as its expected value, so none of     *)
(* those under way when an end goes away can revive the buffer.            *)
(***************************************************************************)
LEMMA DestroyedStep ==
  [Next]_vars => (command = "DESTROYED" => command' = "DESTROYED")
<1> USE DEF Cas
<1>1. ASSUME NEW t \in ClientThreads, ClientStep(t), command = "DESTROYED"
      PROVE  command' = "DESTROYED"
  BY <1>1 DEF ClientStep, RequestFromIdle, RequestFromRequest, RequestRefused,
     RequestSignal, ClientHandle, IsRendered, IsPublished, OnRendered, OnPublished
<1>2. ASSUME NEW t \in ServerThreads, ServerStep(t), command = "DESTROYED"
      PROVE  command' = "DESTROYED"
  BY <1>2 DEF ServerStep, ServerHandle, IsRequested, PostFromIdle,
     PostFromRendered, PostFromPublished, PostRefused, PostSignal
<1>. QED
  BY <1>1, <1>2 DEF Next, RequestRender, Push, ClientDestroy, ServerDestroy, vars

THEOREM DestroyedForGood == Spec => DestroyedIsFinal
  BY DestroyedStep, PTL DEF Spec, DestroyedIsFinal

-----------------------------------------------------------------------------
(***************************************************************************)
(* The frame-by-frame contract.  While the buffer is not destroyed, the    *)
(* application and the four threads are in one of five joint phases; the   *)
(* disjuncts say which compare_exchange each thread can still have under   *)
(* way in that phase.  Two cases make the invariant less obvious than it   *)
(* looks: the client may take PUBLISHED with an event left over from       *)
(* RENDERED, and ask for the next frame before the server has signalled    *)
(* this one; and it may take RENDERED in the middle of the server's three  *)
(* compare_exchanges, which then all fail.                                 *)
(***************************************************************************)
Quiet == cpc["monitor"] \notin {"onRendered", "onPublished"}

AppDone == cpc["app"] \in {"idle", "write"}

ServerDone ==
  \/ spc["monitor"] \in {"idle", "isRequested"} /\ ~retry["monitor"]
  \/ spc["monitor"] = "write" /\ posting["monitor"] = "PUBLISHED"

Free ==
  /\ command = "IDLE" /\ ServerDone /\ Quiet
  /\ \/ frame = "ready" /\ AppDone
     \/ frame = "submitted" /\ cpc["app"] = "request1"

Requested ==
  command = "REQUEST" /\ ServerDone /\ Quiet /\ frame = "submitted" /\ AppDone

Drawing ==
  /\ command = "IDLE" /\ Quiet /\ frame = "submitted" /\ AppDone
  /\ spc["monitor"] = "fromIdle" /\ posting["monitor"] = "RENDERED"
  /\ ~retry["monitor"]

\* RENDERED was posted; the client took it at most once.
RenderedTaken ==
  \/ command = "RENDERED" /\ frame = "submitted" /\ Quiet
  \/ command = "IDLE" /\ frame = "submitted" /\ cpc["monitor"] = "onRendered"
  \/ command = "IDLE" /\ frame = "rendered" /\ Quiet

RenderedPosted ==
  /\ AppDone /\ RenderedTaken
  /\ \/ /\ spc["monitor"] = "write" /\ posting["monitor"] = "RENDERED"
        /\ ~retry["monitor"]
     \/ /\ posting["monitor"] = "PUBLISHED"
        /\ \/ spc["monitor"] = "fromIdle" /\ (retry["monitor"] => command = "IDLE")
           \/ spc["monitor"] = "fromRendered" /\ ~retry["monitor"]
           \/ spc["monitor"] = "fromPublished" /\ command = "IDLE" /\ ~retry["monitor"]
           \/ spc["monitor"] = "isRequested" /\ command = "IDLE" /\ retry["monitor"]

PublishedPosted ==
  /\ AppDone /\ ServerDone
  /\ \/ /\ command = "PUBLISHED" /\ cpc["monitor"] # "onPublished"
        /\ \/ frame = "submitted"
           \/ frame = "rendered" /\ cpc["monitor"] # "onRendered"
     \/ /\ command = "IDLE" /\ cpc["monitor"] = "onPublished"
        /\ frame \in {"submitted", "rendered"}

Phases == Free \/ Requested \/ Drawing \/ RenderedPosted \/ PublishedPosted

FrameInv ==
  /\ stack["monitor"] = <<>>
  /\ command # "DESTROYED" => Phases

LEMMA ClientFrameStep ==
  ASSUME TypeInv, FrameInv, NEW t \in ClientThreads, ClientStep(t)
  PROVE  FrameInv'
<1> USE DEF FrameInv, Phases, Free, Requested, Drawing, RenderedPosted, PublishedPosted,
            RenderedTaken, Quiet, AppDone, ServerDone, TypeInv, TypeOK,
            ClientThreads, server
<1>1. CASE t = "app" /\ RequestFromIdle
  BY <1>1 DEF RequestFromIdle, Cas
<1>2. CASE t = "app" /\ RequestFromRequest
  BY <1>2 DEF RequestFromRequest, Cas
<1>3. CASE t = "app" /\ RequestRefused
  BY <1>3 DEF RequestRefused
<1>4. CASE t = "app" /\ RequestSignal
  BY <1>4 DEF RequestSignal
<1>5. CASE t = "monitor" /\ ClientHandle
  BY <1>5 DEF ClientHandle
<1>6. CASE IsRendered(t)
  BY <1>6 DEF IsRendered, Cas
<1>7. CASE IsPublished(t)
  BY <1>7 DEF IsPublished, Cas, Resume
<1>8. CASE OnRendered(t)
  BY <1>8 DEF OnRendered, Resume
<1>9. CASE OnPublished(t)
  BY <1>9 DEF OnPublished, Resume
<1>. QED
  BY <1>1, <1>2, <1>3, <1>4, <1>5, <1>6, <1>7, <1>8, <1>9 DEF ClientStep

LEMMA ServerFrameStep ==
  ASSUME TypeInv, FrameInv, Pushers = {}, ServerStep("monitor")
  PROVE  FrameInv'
<1> USE DEF FrameInv, Phases, Free, Requested, Drawing, RenderedPosted, PublishedPosted,
            RenderedTaken, Quiet, AppDone, ServerDone, TypeInv, TypeOK,
            ServerThreads, client
<1>1. CASE ServerHandle
  BY <1>1 DEF ServerHandle
<1>2. CASE IsRequested("monitor")
  BY <1>2 DEF IsRequested
<1>3. CASE PostFromIdle("monitor")
  BY <1>3 DEF PostFromIdle, Cas
<1>4. CASE PostFromRendered("monitor")
  BY <1>4 DEF PostFromRendered, Cas
<1>5. CASE PostFromPublished("monitor")
  BY <1>5 DEF PostFromPublished, Cas
<1>6. CASE PostRefused("monitor")
  BY <1>6 DEF PostRefused, PostReturns
<1>7. CASE PostSignal("monitor")
  BY <1>7 DEF PostSignal, PostReturns
<1>. QED
  BY <1>1, <1>2, <1>3, <1>4, <1>5, <1>6, <1>7 DEF ServerStep

LEMMA FrameStep ==
  ASSUME Disciplined, Pushers = {}, TypeInv, FrameInv, [Next]_vars
  PROVE  FrameInv'
<1>1. CASE RequestRender
  BY <1>1 DEF RequestRender, FrameInv, Phases, Free, Requested, Drawing,
     RenderedPosted, PublishedPosted, RenderedTaken, Quiet, AppDone, ServerDone,
     TypeInv, TypeOK, ClientThreads, server
<1>2. ASSUME NEW t \in ClientThreads, ClientStep(t) PROVE FrameInv'
  BY <1>2, ClientFrameStep
<1>3. ASSUME NEW t \in ServerThreads, ServerStep(t) PROVE FrameInv'
  BY <1>3, ServerFrameStep DEF ServerThreads
<1>4. CASE ClientDestroy
  BY <1>4 DEF ClientDestroy, FrameInv, server
<1>5. CASE ServerDestroy
  BY <1>5 DEF ServerDestroy, FrameInv
<1>6. CASE UNCHANGED vars
  BY <1>6 DEF vars, client, server, FrameInv, Phases, Free, Requested, Drawing,
     RenderedPosted, PublishedPosted, RenderedTaken, Quiet, AppDone, ServerDone
<1>. QED
  BY <1>1, <1>2, <1>3, <1>4, <1>5, <1>6 DEF Next

LEMMA FrameInit == Init => FrameInv
  BY DEF Init, FrameInv, Phases, Free, ServerDone, Quiet, AppDone, ClientThreads,
     ServerThreads

(***************************************************************************)
(* With an application that waits for Published(), the "MUST succeed" of   *)
(* the comments is true: neither ASSERT fails unless the buffer was        *)
(* destroyed, and Request() is never re-entered.                           *)
(***************************************************************************)
THEOREM DisciplineSuffices ==
  ASSUME Disciplined, Pushers = {}
  PROVE  Spec => [](RequestMustSucceed /\ PostMustSucceed /\ NoNestedRequest)
<1>1. TypeInv /\ FrameInv => RequestMustSucceed /\ PostMustSucceed /\ NoNestedRequest
  BY DEF FrameInv, Phases, Free, Requested, Drawing, RenderedPosted, PublishedPosted,
     ServerDone, AppDone, RequestMustSucceed, PostMustSucceed, NoNestedRequest,
     ServerThreads
<1>2. TypeInv /\ FrameInv /\ [Next]_vars => FrameInv'
  BY FrameStep
<1>. QED
  BY <1>1, <1>2, FrameInit, TypeInvariance, PTL DEF Spec

\* RequestRender() never gives up on a buffer that was not destroyed.
COROLLARY RequestSucceeds ==
  ASSUME Disciplined, Pushers = {} PROVE Spec => []RequestMustSucceed
<1>1. RequestMustSucceed /\ PostMustSucceed /\ NoNestedRequest => RequestMustSucceed
  OBVIOUS
<1>. QED
  BY <1>1, DisciplineSuffices, PTL

\* No Request() is entered from inside another: the server finishes a frame
\* before it takes the next.
COROLLARY NeverNested ==
  ASSUME Disciplined, Pushers = {} PROVE Spec => []NoNestedRequest
<1>1. RequestMustSucceed /\ PostMustSucceed /\ NoNestedRequest => NoNestedRequest
  OBVIOUS
<1>. QED
  BY <1>1, DisciplineSuffices, PTL

(***************************************************************************)
(* Every step of such a system is a step of the contract, or stutters.     *)
(***************************************************************************)
LEMMA ClientContractStep ==
  ASSUME Disciplined, TypeInv, FrameInv, NEW t \in ClientThreads,
         ClientStep(t), command # "DESTROYED"
  PROVE  [Contract!Next]_<<stage, told>>
<1> USE DEF Contract!Next, Contract!Request, Contract!TellRendered,
            Contract!TellPublished, Contract!Advance, stage, told, ServerResting,
            FrameInv, Phases, Free, Requested, Drawing, RenderedPosted, PublishedPosted,
            RenderedTaken, Quiet, AppDone, ServerDone, TypeInv, TypeOK,
            ClientThreads, server
<1>1. CASE t = "app" /\ RequestFromIdle
  BY <1>1 DEF RequestFromIdle, Cas
<1>2. CASE t = "app" /\ RequestFromRequest
  BY <1>2 DEF RequestFromRequest, Cas
<1>3. CASE t = "app" /\ RequestRefused
  BY <1>3 DEF RequestRefused
<1>4. CASE t = "app" /\ RequestSignal
  BY <1>4 DEF RequestSignal
<1>5. CASE t = "monitor" /\ ClientHandle
  BY <1>5 DEF ClientHandle
<1>6. CASE IsRendered(t)
  BY <1>6 DEF IsRendered, Cas
<1>7. CASE IsPublished(t)
  BY <1>7 DEF IsPublished, Cas, Resume
<1>8. CASE OnRendered(t)
  BY <1>8 DEF OnRendered, Resume
<1>9. CASE OnPublished(t)
  BY <1>9 DEF OnPublished, Resume
<1>. QED
  BY <1>1, <1>2, <1>3, <1>4, <1>5, <1>6, <1>7, <1>8, <1>9 DEF ClientStep

LEMMA ServerContractStep ==
  ASSUME TypeInv, FrameInv, Pushers = {}, ServerStep("monitor"),
         command # "DESTROYED"
  PROVE  [Contract!Next]_<<stage, told>>
<1> USE DEF Contract!Next, Contract!Take, Contract!Render, Contract!Publish,
            Contract!Advance, stage, told, ServerResting,
            FrameInv, Phases, Free, Requested, Drawing, RenderedPosted, PublishedPosted,
            RenderedTaken, Quiet, AppDone, ServerDone, TypeInv, TypeOK,
            ServerThreads, client
<1>1. CASE ServerHandle
  BY <1>1 DEF ServerHandle
<1>2. CASE IsRequested("monitor")
  BY <1>2 DEF IsRequested
<1>3. CASE PostFromIdle("monitor")
  BY <1>3 DEF PostFromIdle, Cas
<1>4. CASE PostFromRendered("monitor")
  BY <1>4 DEF PostFromRendered, Cas
<1>5. CASE PostFromPublished("monitor")
  BY <1>5 DEF PostFromPublished, Cas
<1>6. CASE PostRefused("monitor")
  BY <1>6 DEF PostRefused, PostReturns
<1>7. CASE PostSignal("monitor")
  BY <1>7 DEF PostSignal, PostReturns
<1>. QED
  BY <1>1, <1>2, <1>3, <1>4, <1>5, <1>6, <1>7 DEF ServerStep

LEMMA ContractStep ==
  ASSUME Disciplined, Pushers = {}, TypeInv, FrameInv, [Next]_vars
  PROVE  [Contract!Next]_<<stage, told>>
<1>1. told' \in BOOLEAN
  BY DEF told
<1>2. CASE command' = "DESTROYED"
  BY <1>1, <1>2 DEF stage, Contract!Next, Contract!Destroy
<1>3. CASE command' # "DESTROYED"
  <2>0. command # "DESTROYED"
    BY <1>3, DestroyedStep
  <2>1. CASE RequestRender
    BY <2>0, <2>1 DEF RequestRender, stage, told, ServerResting, FrameInv, Phases, Free, Requested,
       Drawing, RenderedPosted, PublishedPosted, TypeInv, TypeOK, ClientThreads, server
  <2>2. ASSUME NEW t \in ClientThreads, ClientStep(t)
        PROVE  [Contract!Next]_<<stage, told>>
    BY <2>0, <2>2, ClientContractStep
  <2>3. ASSUME NEW t \in ServerThreads, ServerStep(t)
        PROVE  [Contract!Next]_<<stage, told>>
    BY <2>0, <2>3, ServerContractStep DEF ServerThreads
  <2>4. CASE UNCHANGED vars
    BY <2>4 DEF vars, client, server, stage, told, ServerResting
  <2>. QED
    BY <1>3, <2>1, <2>2, <2>3, <2>4 DEF Next, ClientDestroy, ServerDestroy
<1>. QED
  BY <1>2, <1>3

(***************************************************************************)
(* The buffer implements the safety part of FrameContract: one frame at a  *)
(* time, taken, rendered and published once, Published() heard once and    *)
(* after any Rendered() of the same frame.                                 *)
(***************************************************************************)
THEOREM ImplementsContract ==
  ASSUME Disciplined, Pushers = {}
  PROVE  Spec => Contract!SafeSpec
<1>1. Init => Contract!Init
  BY DEF Init, Contract!Init, stage, told, ServerResting, ClientThreads
<1>2. TypeInv /\ FrameInv /\ [Next]_vars => FrameInv'
  BY FrameStep
<1>3. TypeInv /\ FrameInv /\ [Next]_vars => [Contract!Next]_<<stage, told>>
  BY ContractStep
<1>. QED
  BY <1>1, <1>2, <1>3, FrameInit, TypeInvariance, PTL
  DEF Spec, Contract!SafeSpec, Contract!contractVars

=============================================================================
