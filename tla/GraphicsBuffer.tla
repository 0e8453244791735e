--------------------------- MODULE GraphicsBuffer ---------------------------
(***************************************************************************)
(* The frame hand-over of Graphics::ClientBufferType and                   *)
(* Graphics::ServerBufferType.  The two ends are different processes that  *)
(* share one atomic byte (_command, in a memfd mapping) and two semaphore  *)
(* eventfds.  Nothing else synchronises them: every compare_exchange of    *)
(* the code is one step here, and the steps of all threads interleave.     *)
(*                                                                         *)
(* Client process: the application thread ("app") calls RequestRender(),   *)
(* the ResourceMonitor thread ("monitor") runs ClientBufferType::Handle(). *)
(* Server process: the ResourceMonitor thread ("monitor") runs             *)
(* ServerBufferType::Handle(), which calls the virtual Request(); the      *)
(* implementation of Request() in the repository (the example server)      *)
(* calls Rendered() and, if that worked, Published() on the spot.  Threads *)
(* in Pushers call Rendered() and Published() on their own initiative, as  *)
(* the 'W' command of the example server does.                             *)
(***************************************************************************)
EXTENDS Integers, Sequences

CONSTANTS
  MaxFrames,   \* bound: how often the application calls RequestRender()
  Pushers,     \* server threads that post frames nobody requested
  MaxPushes,   \* bound: how often each of them does so
  Disciplined  \* TRUE: the application waits for Published() before the
               \* next RequestRender() on this buffer

ASSUME BoundsAssumption == MaxFrames \in Nat /\ MaxPushes \in Nat
ASSUME PushersAssumption == "monitor" \notin Pushers
ASSUME DisciplinedAssumption == Disciplined \in BOOLEAN

VARIABLES
  command,   \* SharedStorageType::_command
  produced,  \* count of the eventfd _producedFd: client to server
  consumed,  \* count of the eventfd _consumedFd: server to client
  cpc,       \* the next atomic step of each client thread
  attempt,   \* which of its three Request() attempts RequestRender() is at
  frame,     \* what the application was told of its last frame
  frames,    \* RequestRender() calls so far
  spc,       \* the next atomic step of each server thread
  posting,   \* the event a server thread is posting
  retry,     \* the thread is past the Request() of that post
  stack,     \* posts suspended by a nested call of Request()
  pushes     \* unrequested posts left to each pusher

client == <<cpc, attempt, frame, frames>>
server == <<spc, posting, retry, stack, pushes>>
vars == <<command, produced, consumed, client, server>>

Mode == {"IDLE", "REQUEST", "RENDERED", "PUBLISHED", "DESTROYED"}
Event == {"RENDERED", "PUBLISHED"}
ClientThreads == {"app", "monitor"}
ServerThreads == {"monitor"} \cup Pushers

ClientSteps == {"idle", "request1", "request2", "isRendered", "isPublished",
                "onRendered", "onPublished", "assert", "write", "gone"}
ServerSteps == {"idle", "isRequested", "fromIdle", "fromRendered",
                "fromPublished", "assert", "write", "gone"}

\* Every variable keeps its type; RequestRender() never makes a fourth attempt.
TypeOK ==
  /\ command \in Mode
  /\ produced \in Nat
  /\ consumed \in Nat
  /\ cpc \in [ClientThreads -> ClientSteps]
  /\ attempt \in 1..3
  /\ frame \in {"ready", "submitted", "rendered"}
  /\ frames \in Nat
  /\ spc \in [ServerThreads -> ServerSteps]
  /\ posting \in [ServerThreads -> Event]
  /\ retry \in [ServerThreads -> BOOLEAN]
  /\ stack \in [ServerThreads -> Seq(Event)]
  /\ pushes \in [Pushers -> Nat]

Init ==
  /\ command = "IDLE"
  /\ produced = 0
  /\ consumed = 0
  /\ cpc = [t \in ClientThreads |-> "idle"]
  /\ attempt = 1
  /\ frame = "ready"
  /\ frames = 0
  /\ spc = [t \in ServerThreads |-> "idle"]
  /\ posting = [t \in ServerThreads |-> "RENDERED"]
  /\ retry = [t \in ServerThreads |-> FALSE]
  /\ stack = [t \in ServerThreads |-> <<>>]
  /\ pushes = [t \in Pushers |-> MaxPushes]

\* One compare_exchange_strong on _command, and where the thread goes next.
Cas(expected, desired, pc, t, success, failure) ==
  IF command = expected
  THEN command' = desired /\ pc' = [pc EXCEPT ![t] = success]
  ELSE command' = command /\ pc' = [pc EXCEPT ![t] = failure]

-----------------------------------------------------------------------------
(***************************************************************************)
(* Client: RequestRender() on the application thread, Handle() on the      *)
(* monitor thread.  Both consume RENDERED and PUBLISHED, so the callbacks  *)
(* may run on either thread.                                               *)
(***************************************************************************)

RequestRender ==
  /\ cpc["app"] = "idle"
  /\ frames < MaxFrames
  /\ Disciplined => frame = "ready"
  /\ cpc' = [cpc EXCEPT !["app"] = "request1"]
  /\ attempt' = 1
  /\ frame' = "submitted"
  /\ frames' = frames + 1
  /\ UNCHANGED <<command, produced, consumed, server>>

\* Mutant: the application thread signals only a repeated request.
RequestFromIdle_NoSignal ==
  /\ cpc["app"] = "request1"
  /\ Cas("IDLE", "REQUEST", cpc, "app", "idle", "request2")
  /\ UNCHANGED <<produced, consumed, attempt, frame, frames, server>>

\* SharedStorageType::Request(): IDLE to REQUEST, else REQUEST to REQUEST.
RequestFromIdle ==
  /\ cpc["app"] = "request1"
  /\ Cas("IDLE", "REQUEST", cpc, "app", "write", "request2")
  /\ UNCHANGED <<produced, consumed, attempt, frame, frames, server>>

\* Mutant: RequestRender() keeps trying.
AfterRequest_Forever == IF attempt = 1 THEN "isRendered" ELSE "isPublished"

AfterRequest == CASE attempt = 1 -> "isRendered"
                  [] attempt = 2 -> "isPublished"
                  [] OTHER       -> "assert"

RequestFromRequest ==
  /\ cpc["app"] = "request2"
  /\ Cas("REQUEST", "REQUEST", cpc, "app", "write", AfterRequest)
  /\ UNCHANGED <<produced, consumed, attempt, frame, frames, server>>

\* The third attempt failed: ASSERT, and RequestRender() returns false.
RequestRefused ==
  /\ cpc["app"] = "assert"
  /\ cpc' = [cpc EXCEPT !["app"] = "idle"]
  /\ UNCHANGED <<command, produced, consumed, attempt, frame, frames, server>>

\* Mutant: the write to the eventfd is forgotten.
RequestSignal_Never ==
  /\ cpc["app"] = "write"
  /\ cpc' = [cpc EXCEPT !["app"] = "idle"]
  /\ UNCHANGED <<command, produced, consumed, attempt, frame, frames, server>>

RequestSignal ==
  /\ cpc["app"] = "write"
  /\ produced' = produced + 1
  /\ cpc' = [cpc EXCEPT !["app"] = "idle"]
  /\ UNCHANGED <<command, consumed, attempt, frame, frames, server>>

\* ClientBufferType::Handle(): POLLIN on _consumedFd and the read of it.
ClientHandle ==
  /\ cpc["monitor"] = "idle"
  /\ consumed > 0
  /\ consumed' = consumed - 1
  /\ cpc' = [cpc EXCEPT !["monitor"] = "isRendered"]
  /\ UNCHANGED <<command, produced, attempt, frame, frames, server>>

\* Once its event is dealt with the monitor polls and the application thread
\* makes its next attempt.
Resume(t) == IF t = "app" THEN "request1" ELSE "idle"
CountAttempt(t) == attempt' = IF t = "app" THEN attempt + 1 ELSE attempt

\* Mutant: PUBLISHED is looked for only after RENDERED.
IsRendered_Only(t) ==
  /\ cpc[t] = "isRendered"
  /\ Cas("RENDERED", "IDLE", cpc, t, "onRendered", Resume(t))
  /\ UNCHANGED <<produced, consumed, attempt, frame, frames, server>>

IsRendered(t) ==
  /\ cpc[t] = "isRendered"
  /\ Cas("RENDERED", "IDLE", cpc, t, "onRendered", "isPublished")
  /\ UNCHANGED <<produced, consumed, attempt, frame, frames, server>>

\* Mutant: PUBLISHED is looked at and not consumed.
IsPublished_Peek(t) ==
  /\ cpc[t] = "isPublished"
  /\ Cas("PUBLISHED", "PUBLISHED", cpc, t, "onPublished", Resume(t))
  /\ IF command = "PUBLISHED" THEN attempt' = attempt ELSE CountAttempt(t)
  /\ UNCHANGED <<produced, consumed, frame, frames, server>>

IsPublished(t) ==
  /\ cpc[t] = "isPublished"
  /\ Cas("PUBLISHED", "IDLE", cpc, t, "onPublished", Resume(t))
  /\ IF command = "PUBLISHED" THEN attempt' = attempt ELSE CountAttempt(t)
  /\ UNCHANGED <<produced, consumed, frame, frames, server>>

\* Mutant: the application takes Rendered() for the end of the frame.
OnRendered_Ends(t) ==
  /\ cpc[t] = "onRendered"
  /\ frame' = "ready"
  /\ cpc' = [cpc EXCEPT ![t] = Resume(t)]
  /\ CountAttempt(t)
  /\ UNCHANGED <<command, produced, consumed, frames, server>>

\* The virtual Rendered() and Published() of the client buffer.
OnRendered(t) ==
  /\ cpc[t] = "onRendered"
  /\ frame' = IF frame = "submitted" THEN "rendered" ELSE frame
  /\ cpc' = [cpc EXCEPT ![t] = Resume(t)]
  /\ CountAttempt(t)
  /\ UNCHANGED <<command, produced, consumed, frames, server>>

OnPublished(t) ==
  /\ cpc[t] = "onPublished"
  /\ frame' = "ready"
  /\ cpc' = [cpc EXCEPT ![t] = Resume(t)]
  /\ CountAttempt(t)
  /\ UNCHANGED <<command, produced, consumed, frames, server>>

\* ~ClientBuffer: off the monitor, which is not inside Handle() then, and
\* DESTROYED is stored.
ClientDestroy ==
  /\ \A t \in ClientThreads : cpc[t] = "idle"
  /\ command' = "DESTROYED"
  /\ cpc' = [t \in ClientThreads |-> "gone"]
  /\ UNCHANGED <<produced, consumed, attempt, frame, frames, server>>

-----------------------------------------------------------------------------
(***************************************************************************)
(* Server: Rendered() and Published() differ only in the event they post.  *)
(***************************************************************************)

\* ServerBufferType::Handle(): POLLIN on _producedFd and the read of it.
ServerHandle ==
  /\ spc["monitor"] = "idle"
  /\ produced > 0
  /\ produced' = produced - 1
  /\ spc' = [spc EXCEPT !["monitor"] = "isRequested"]
  /\ UNCHANGED <<command, consumed, posting, retry, stack, pushes, client>>

\* The 'W' command of the example server: Rendered() and then Published().
Push(t) ==
  /\ spc[t] = "idle"
  /\ pushes[t] > 0
  /\ pushes' = [pushes EXCEPT ![t] = @ - 1]
  /\ spc' = [spc EXCEPT ![t] = "fromIdle"]
  /\ posting' = [posting EXCEPT ![t] = "RENDERED"]
  /\ retry' = [retry EXCEPT ![t] = FALSE]
  /\ UNCHANGED <<command, produced, consumed, stack, client>>

\* IsRequested() in Handle(), or (retry) between the two attempts of a post,
\* which waits on the stack while Request() runs.
IsRequested(t) ==
  /\ spc[t] = "isRequested"
  /\ IF command = "REQUEST"
     THEN /\ command' = "IDLE"
          /\ spc' = [spc EXCEPT ![t] = "fromIdle"]
          /\ posting' = [posting EXCEPT ![t] = "RENDERED"]
          /\ retry' = [retry EXCEPT ![t] = FALSE]
          /\ stack' = IF retry[t]
                      THEN [stack EXCEPT ![t] = Append(@, posting[t])]
                      ELSE stack
     ELSE /\ spc' = [spc EXCEPT ![t] = IF retry[t] THEN "fromIdle" ELSE "idle"]
          /\ UNCHANGED <<command, posting, retry, stack>>
  /\ UNCHANGED <<produced, consumed, pushes, client>>

\* SharedStorageType::Rendered() and Published(): from IDLE, from RENDERED and
\* from PUBLISHED, three separate compare_exchanges.
PostFromIdle(t) ==
  /\ spc[t] = "fromIdle"
  /\ Cas("IDLE", posting[t], spc, t, "write", "fromRendered")
  /\ UNCHANGED <<produced, consumed, posting, retry, stack, pushes, client>>

PostFromRendered(t) ==
  /\ spc[t] = "fromRendered"
  /\ Cas("RENDERED", posting[t], spc, t, "write", "fromPublished")
  /\ UNCHANGED <<produced, consumed, posting, retry, stack, pushes, client>>

\* Mutant: the last attempt is a store.
PostFromPublished_Store(t) ==
  /\ spc[t] = "fromPublished"
  /\ command' = posting[t]
  /\ spc' = [spc EXCEPT ![t] = "write"]
  /\ UNCHANGED <<produced, consumed, posting, retry, stack, pushes, client>>

PostFromPublished(t) ==
  /\ spc[t] = "fromPublished"
  /\ Cas("PUBLISHED", posting[t], spc, t, "write",
         IF retry[t] THEN "assert" ELSE "isRequested")
  /\ retry' = [retry EXCEPT ![t] = @ \/ command # "PUBLISHED"]
  /\ UNCHANGED <<produced, consumed, posting, stack, pushes, client>>

\* A post returns posted.  Request() goes on from Rendered() to Published() if
\* it worked, a pusher in any case; after Published() both are finished, and
\* a suspended post makes its second attempt.
PostReturns(t, posted) ==
  LET outermost == stack[t] = <<>>
      goesOn == /\ posting[t] = "RENDERED"
                /\ posted \/ (outermost /\ t \in Pushers)
  IN CASE goesOn ->
            /\ posting' = [posting EXCEPT ![t] = "PUBLISHED"]
            /\ retry' = [retry EXCEPT ![t] = FALSE]
            /\ spc' = [spc EXCEPT ![t] = "fromIdle"]
            /\ stack' = stack
       [] ~goesOn /\ outermost ->
            /\ retry' = [retry EXCEPT ![t] = FALSE]
            /\ spc' = [spc EXCEPT ![t] = "idle"]
            /\ UNCHANGED <<posting, stack>>
       [] ~goesOn /\ ~outermost ->
            /\ posting' = [posting EXCEPT ![t] = stack[t][Len(stack[t])]]
            /\ retry' = [retry EXCEPT ![t] = TRUE]
            /\ spc' = [spc EXCEPT ![t] = "fromIdle"]
            /\ stack' = [stack EXCEPT ![t] = SubSeq(@, 1, Len(@) - 1)]

\* The second attempt failed: ASSERT, and the post returns false.
PostRefused(t) ==
  /\ spc[t] = "assert"
  /\ PostReturns(t, FALSE)
  /\ UNCHANGED <<command, produced, consumed, pushes, client>>

\* Mutant: one event per frame, for RENDERED.
PostSignal_PerFrame(t) ==
  /\ spc[t] = "write"
  /\ consumed' = IF posting[t] = "RENDERED" THEN consumed + 1 ELSE consumed
  /\ PostReturns(t, TRUE)
  /\ UNCHANGED <<command, produced, pushes, client>>

PostSignal(t) ==
  /\ spc[t] = "write"
  /\ consumed' = consumed + 1
  /\ PostReturns(t, TRUE)
  /\ UNCHANGED <<command, produced, pushes, client>>

ServerDestroy ==
  /\ \A t \in ServerThreads : spc[t] = "idle"
  /\ command' = "DESTROYED"
  /\ spc' = [t \in ServerThreads |-> "gone"]
  /\ UNCHANGED <<produced, consumed, posting, retry, stack, pushes, client>>

-----------------------------------------------------------------------------

\* The steps a thread takes to finish what it began.
ClientStep(t) ==
  \/ t = "app" /\ ( \/ RequestFromIdle \/ RequestFromRequest
                    \/ RequestRefused \/ RequestSignal )
  \/ t = "monitor" /\ ClientHandle
  \/ IsRendered(t) \/ IsPublished(t) \/ OnRendered(t) \/ OnPublished(t)

ServerStep(t) ==
  \/ t = "monitor" /\ ServerHandle
  \/ IsRequested(t)
  \/ PostFromIdle(t) \/ PostFromRendered(t) \/ PostFromPublished(t)
  \/ PostRefused(t) \/ PostSignal(t)

Next ==
  \/ RequestRender
  \/ \E t \in Pushers : Push(t)
  \/ \E t \in ClientThreads : ClientStep(t)
  \/ \E t \in ServerThreads : ServerStep(t)
  \/ ClientDestroy
  \/ ServerDestroy

Spec == Init /\ [][Next]_vars

\* The scheduler runs every thread that can run; the monitors poll for as
\* long as they are registered.  Calls of RequestRender(), pushes and
\* destruction are up to the applications and carry no fairness.
Fairness ==
  /\ \A t \in ClientThreads : WF_vars(ClientStep(t))
  /\ \A t \in ServerThreads : WF_vars(ServerStep(t))

FairSpec == Spec /\ Fairness

-----------------------------------------------------------------------------
(***************************************************************************)
(* Properties.                                                             *)
(***************************************************************************)

\* No wake-up of the server is lost: as long as a REQUEST stands, the server
\* monitor has an event to read or is about to take it, or the client has
\* not signalled it yet.  (Handle() takes one event per read and looks at
\* _command once, although any number of events may have been coalesced.)
RequestIsSignalled ==
  command = "REQUEST" =>
    \/ produced > 0
    \/ cpc["app"] = "write"
    \/ spc["monitor"] = "isRequested"

\* No wake-up of the client is lost: as long as RENDERED or PUBLISHED stands,
\* the client monitor has an event to read or is about to take it, or the
\* thread that posted it has not signalled it yet.
PostIsSignalled ==
  command \in Event =>
    \/ consumed > 0
    \/ \E t \in ServerThreads : spc[t] = "write"
    \/ cpc["monitor"] = "isRendered"
    \/ cpc["monitor"] = "isPublished" /\ command = "PUBLISHED"

\* A destroyed buffer stays destroyed, whichever end destroyed it: no
\* compare_exchange under way on the other end may revive it.
DestroyedIsFinal == [][command = "DESTROYED" => command' = "DESTROYED"]_vars

\* A frame the client requested is taken by the server, unless the buffer is
\* destroyed: the count of the eventfd and the one look at _command per event
\* never leave a request behind.
RequestIsTaken == command = "REQUEST" ~> command # "REQUEST"

\* What the server posted reaches the client: RENDERED and PUBLISHED do not
\* stand for ever.
PostIsTaken == command \in Event ~> command \notin Event

\* The comment on the third attempt of RequestRender(), "Now the request
\* *MUST* succeed!", and the ASSERT below it.
RequestMustSucceed == cpc["app"] = "assert" => command = "DESTROYED"

\* The same comment and ASSERT in ServerBufferType::Rendered() and
\* ServerBufferType::Published().
PostMustSucceed ==
  \A t \in ServerThreads : spc[t] = "assert" => command = "DESTROYED"

\* A Request() is never entered from inside another: the server finishes a
\* frame before it takes the next.
NoNestedRequest == \A t \in ServerThreads : stack[t] = <<>>

(***************************************************************************)
(* What a disciplined application sees is a FrameContract.                 *)
(***************************************************************************)

\* The monitor is between Handle() calls, or finds nothing to do in one.
ServerResting ==
  spc["monitor"] \in {"idle", "isRequested"} /\ ~retry["monitor"]

stage ==
  IF command = "DESTROYED" THEN "destroyed"
  ELSE IF command = "REQUEST" THEN "requested"
  ELSE IF frame = "ready" \/ cpc["app"] \in {"request1", "request2"} THEN "free"
  ELSE IF ServerResting THEN "published"
  ELSE IF posting["monitor"] = "RENDERED" /\ spc["monitor"] # "write" THEN "drawing"
  ELSE IF posting["monitor"] = "PUBLISHED" /\ spc["monitor"] = "write" THEN "published"
  ELSE "rendered"

told == frame = "rendered"

Contract == INSTANCE FrameContract WITH stage <- stage, told <- told

\* With a disciplined application and no pushers, the buffer implements the
\* frame-by-frame contract, its progress included: the compare_exchanges of
\* four threads amount to one frame at a time, published exactly once.
ContractHolds == Contract!Spec

=============================================================================
