---------------------------- MODULE FrameContract ----------------------------
(***************************************************************************)
(* What one graphics buffer promises to an application that waits for      *)
(* Published() before it uses the buffer again: one frame is under way at  *)
(* a time; the server renders it and publishes it once; the application    *)
(* hears Published() exactly once per frame and not before the server      *)
(* published, and Rendered() at most once, not before the server rendered  *)
(* and never after Published().  Rendered() may be left out: the server    *)
(* may publish before the client saw that it rendered.                     *)
(***************************************************************************)
VARIABLES
  stage,  \* how far the frame is on its way
  told    \* the application heard Rendered() for it

Stages == {"free", "requested", "drawing", "rendered", "published", "destroyed"}

\* A frame is at one of the stages.
TypeOK == stage \in Stages /\ told \in BOOLEAN

Init == stage = "free" /\ told = FALSE

Advance(from, to) == stage = from /\ stage' = to /\ told' = told

Request == Advance("free", "requested")
Take    == Advance("requested", "drawing")
Render  == Advance("drawing", "rendered")
Publish == Advance("rendered", "published")

TellRendered ==
  /\ stage \in {"rendered", "published"}
  /\ ~told
  /\ told' = TRUE
  /\ stage' = stage

TellPublished ==
  /\ stage = "published"
  /\ stage' = "free"
  /\ told' = FALSE

\* Callbacks that were under way when an end was destroyed still arrive.
Destroy ==
  /\ stage' = "destroyed"
  /\ told' \in BOOLEAN

Next ==
  \/ Request \/ Take \/ Render \/ Publish
  \/ TellRendered \/ TellPublished
  \/ Destroy

\* A frame under way keeps moving.
Progress == Take \/ Render \/ Publish \/ TellPublished

contractVars == <<stage, told>>

SafeSpec == Init /\ [][Next]_contractVars

Spec == SafeSpec /\ WF_contractVars(Progress)

=============================================================================
