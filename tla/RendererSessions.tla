--------------------------- MODULE RendererSessions ---------------------------
(***************************************************************************)
(* The rendering of the map views of one episode: the adapter of the API   *)
(* (core/renderer/terriamap.py), called by the step of the store, and the  *)
(* browser service (harness_renderer), whose page runs the bridge of       *)
(* ui/eo-harness-ui.js.                                                    *)
(*                                                                         *)
(* The adapter makes one request after another and gives each up after a   *)
(* time; nothing tells the service, whose handler goes on.  Handlers       *)
(* interleave wherever they await, and those of one episode share one      *)
(* page.                                                                   *)
(*                                                                         *)
(* External: the browser and TerriaMap.  A page shows what it was last     *)
(* told to show, layers at once and the camera when the zoom is done.      *)
(***************************************************************************)
EXTENDS Naturals, FiniteSets

CONSTANTS
  Views,     \* map states a step asks for
  Contexts,  \* browser contexts that may be open at once, each with its page
  Calls,     \* requests the service may be handling at once
  MaxFaults, \* bound: requests given up and pages that fail to load
  MaxRestarts, \* bound: restarts of the service
  None

ASSUME RendererAssumption ==
  /\ IsFiniteSet(Contexts) /\ IsFiniteSet(Calls)
  /\ MaxFaults \in Nat /\ MaxRestarts \in Nat
  /\ None \notin Views /\ None \notin Contexts /\ None \notin Calls

VARIABLES
  status,   \* of the episode; "truncated" is what a tool run makes of it
  step,     \* the step that renders, or ends the episode
  image,    \* the capture the episode registered last, or None
  session,  \* SessionManager.sessions: the context of the episode
  contexts, \* the page of each open browser context
  calls,    \* what the service is handling
  faults, restarts, \* what has gone wrong so far
  lost,     \* how many creates were given up or failed
  unclosed  \* history: the service never heard of the close of the episode

vars == <<status, step, image, session, contexts, calls, faults, restarts, lost,
          unclosed>>

Shown == Views \cup {None}

\* A page has the map state it was told last, lastDesiredMapState, and shows
\* layers and a camera.
Pages == [desired : Shown, layers : Shown, camera : Shown]

ASSUME NoneIsNoPage == None \notin Pages

Blank == [desired |-> None, layers |-> None, camera |-> None]

\* A read-back and what the two screenshots show.
Captures == [readback : Shown, layers : Shown, camera : Shown]

NoCapture == [readback |-> None, layers |-> None, camera |-> None]

\* "disturbed": an apply that had been given up wrote to a page meanwhile.
\* "committed": the step has ended the episode and has not sent the close yet.
Steps == [phase : {"idle", "creating", "applying", "capturing", "committed", "closing"},
          view : Shown, call : Calls \cup {None}, disturbed : BOOLEAN,
          answer : {"none", "ok", "error"}, capture : Captures]

NoStep == [phase |-> "idle", view |-> None, call |-> None, disturbed |-> FALSE,
           answer |-> "none", capture |-> NoCapture]

Handlings == [op : {"none", "create", "apply", "capture", "close"},
              phase : {"arrived", "loading", "waiting", "zooming", "settling",
                       "first", "second", "closing"},
              view : Shown, context : Contexts \cup {None},
              readback : Shown, layers : Shown, camera : Shown]

NoCall == [op |-> "none", phase |-> "arrived", view |-> None, context |-> None,
           readback |-> None, layers |-> None, camera |-> None]

Init ==
  /\ status = "active"
  /\ step = NoStep
  /\ image = None
  /\ session = None
  /\ contexts = [k \in Contexts |-> None]
  /\ calls = [c \in Calls |-> NoCall]
  /\ faults = 0 /\ restarts = 0 /\ lost = 0
  /\ unclosed = FALSE

service == <<session, contexts, lost>>
episode == <<status, image, unclosed>>
bounds == <<faults, restarts>>

(***************************************************************************)
(* The adapter, inside the transaction of the step.                        *)
(***************************************************************************)

\* One request to the service; it is waited for in "phase".
Send(op, phase, v, disturbed) ==
  \E c \in Calls :
    /\ calls[c].op = "none"
    /\ calls' = [calls EXCEPT ![c] = [NoCall EXCEPT !.op = op, !.view = v]]
    /\ step' = [NoStep EXCEPT !.phase = phase, !.view = v, !.call = c,
                              !.disturbed = disturbed]

Answered(phase, answer) == step.phase = phase /\ step.answer = answer

\* Every step of a map action sees to the session first.
Render(v) ==
  /\ status = "active" /\ step.phase = "idle"
  /\ Send("create", "creating", v, FALSE)
  /\ UNCHANGED <<episode, service, bounds>>

ApplyState ==
  /\ Answered("creating", "ok")
  /\ Send("apply", "applying", step.view, step.disturbed)
  /\ UNCHANGED <<episode, service, bounds>>

Capture ==
  /\ Answered("applying", "ok")
  /\ Send("capture", "capturing", step.view, step.disturbed)
  /\ UNCHANGED <<episode, service, bounds>>

\* Mutant: a step that uses up a budget does not close the session.
ClosesAnswersOnly(next) == status' = next /\ step' = NoStep /\ UNCHANGED calls

\* The step commits; one that ends the episode still has to close the session.
Finish(next) ==
  /\ status' = next
  /\ step' = IF next = "ended" THEN [NoStep EXCEPT !.phase = "committed"] ELSE NoStep
  /\ UNCHANGED calls

Register ==
  /\ Answered("capturing", "ok")
  /\ image' = [view |-> step.view, capture |-> step.capture,
               disturbed |-> step.disturbed]
  /\ \E next \in {"active", "ended"} : Finish(next)
  /\ UNCHANGED <<service, bounds, unclosed>>

SendClose ==
  /\ step.phase = "committed"
  /\ Send("close", "closing", None, FALSE)
  /\ UNCHANGED <<episode, service, bounds>>

\* The request failed, or the capture does not fit the budget or the rows of
\* the episode: the step fails and the episode stays as it was.
FailStep ==
  /\ step.answer = "error" \/ Answered("capturing", "ok")
  /\ step.phase # "closing"
  /\ step' = NoStep
  /\ UNCHANGED <<episode, service, calls, bounds>>

\* An answer, or another action that uses up a budget, renders nothing.
End ==
  /\ status = "active" /\ step.phase = "idle"
  /\ Finish("ended")
  /\ UNCHANGED <<image, service, bounds, unclosed>>

\* A tool run that uses up a budget leaves the session alone.
TruncateByTool ==
  /\ status = "active" /\ step.phase = "idle"
  /\ status' = "truncated"
  /\ UNCHANGED <<step, image, service, calls, bounds, unclosed>>

\* Whatever the service says of the close is ignored.
Closed ==
  /\ step.phase = "closing" /\ step.answer # "none"
  /\ step' = NoStep
  /\ UNCHANGED <<episode, service, calls, bounds>>

\* The request times out, or the API dies: the step is rolled back or recorded
\* as failed, and the service is not told.
GiveUp ==
  /\ step.call # None /\ step.answer = "none"
  /\ faults < MaxFaults /\ faults' = faults + 1
  /\ lost' = IF step.phase = "creating" THEN lost + 1 ELSE lost
  /\ step' = NoStep
  /\ UNCHANGED <<episode, session, contexts, calls, restarts>>

\* The API dies before it sends the request, or the service cannot be reached.
\* A repeated action answers from its row and sends no close.
NeverHeard ==
  /\ step.answer = "none"
  /\ \/ step.phase = "committed" /\ UNCHANGED calls
     \/ /\ step.call # None /\ calls[step.call].phase = "arrived"
        /\ calls' = [calls EXCEPT ![step.call] = NoCall]
  /\ faults < MaxFaults /\ faults' = faults + 1
  /\ unclosed' = (unclosed \/ step.phase \in {"committed", "closing"})
  /\ step' = NoStep
  /\ UNCHANGED <<status, image, service, restarts>>

(***************************************************************************)
(* The service: one action between two awaits of a handler.                *)
(***************************************************************************)

\* The handler is done; nobody may be waiting any more.
Respond(c, answer, capture) ==
  /\ calls' = [calls EXCEPT ![c] = NoCall]
  /\ step' = IF step.call = c /\ step.answer = "none"
             THEN [step EXCEPT !.answer = answer, !.capture = capture]
             ELSE step

Await(c, phase, k) ==
  /\ calls' = [calls EXCEPT ![c].phase = phase, ![c].context = k]
  /\ UNCHANGED step

Arrives(c, op) == calls[c].op = op /\ calls[c].phase = "arrived"

\* The handler is at this point, and the context it works on is still open.
Runs(c, op, phase) ==
  calls[c].op = op /\ calls[c].phase = phase /\ calls[c].context # None

Page(c) == contexts[calls[c].context]

\* A session is created once: further creates find it.
FindSession(c) ==
  /\ Arrives(c, "create") /\ session # None
  /\ Respond(c, "ok", NoCapture)
  /\ UNCHANGED service

OpenContext(c) ==
  /\ Arrives(c, "create") /\ session = None
  /\ \E k \in Contexts :
       /\ contexts[k] = None
       /\ contexts' = [contexts EXCEPT ![k] = Blank]
       /\ Await(c, "loading", k)
  /\ UNCHANGED <<session, lost>>

KeepSession(c) ==
  /\ Runs(c, "create", "loading")
  /\ session' = calls[c].context
  /\ Respond(c, "ok", NoCapture)
  /\ UNCHANGED <<contexts, lost>>

\* get: every other operation needs the session.
NoSession(c) ==
  /\ \E op \in {"apply", "capture", "close"} : Arrives(c, op)
  /\ session = None
  /\ Respond(c, "error", NoCapture)
  /\ UNCHANGED service

\* applyState waits for the bridge, writes the layers and the desired state,
\* zooms, and waits for a stable frame.
StartApply(c) ==
  /\ Arrives(c, "apply") /\ session # None
  /\ Await(c, "waiting", session)
  /\ UNCHANGED service

Write(c, page) ==
  /\ contexts' = [contexts EXCEPT ![calls[c].context] = page]
  /\ UNCHANGED <<session, lost>>

Disturb(c) ==
  step' = IF step.call = c THEN step ELSE [step EXCEPT !.disturbed = step.phase # "idle"]

WriteState(c) ==
  /\ Runs(c, "apply", "waiting")
  /\ Write(c, [Page(c) EXCEPT !.desired = calls[c].view, !.layers = calls[c].view])
  /\ calls' = [calls EXCEPT ![c].phase = "zooming"]
  /\ Disturb(c)

Zoom(c) ==
  /\ Runs(c, "apply", "zooming")
  /\ Write(c, [Page(c) EXCEPT !.camera = calls[c].view])
  /\ calls' = [calls EXCEPT ![c].phase = "settling"]
  /\ Disturb(c)

\* Mutant: a page without a desired state is consistent.
AgreesWithDesired(page) ==
  page.desired # None => page.layers = page.desired /\ page.camera = page.desired

\* readState: no state may have been applied, which is no consistency.
Consistent(page) ==
  /\ page.desired # None
  /\ page.layers = page.desired /\ page.camera = page.desired

EndApply(c) ==
  /\ Runs(c, "apply", "settling")
  /\ Respond(c, IF Consistent(Page(c)) THEN "ok" ELSE "error", NoCapture)
  /\ UNCHANGED service

StartCapture(c) ==
  /\ Arrives(c, "capture") /\ session # None
  /\ Await(c, "settling", session)
  /\ UNCHANGED service

\* The read-back the capture is answered with is that of the first frame.
ReadBack(c) ==
  /\ Runs(c, "capture", "settling")
  /\ IF Consistent(Page(c))
     THEN /\ calls' = [calls EXCEPT ![c].phase = "first", ![c].readback = Page(c).desired]
          /\ UNCHANGED step
     ELSE Respond(c, "error", NoCapture)
  /\ UNCHANGED service

FirstShot(c) ==
  /\ Runs(c, "capture", "first")
  /\ calls' = [calls EXCEPT ![c].phase = "second", ![c].layers = Page(c).layers,
                            ![c].camera = Page(c).camera]
  /\ UNCHANGED <<step, service>>

SecondShot(c) ==
  /\ Runs(c, "capture", "second")
  /\ LET shot == [readback |-> calls[c].readback, layers |-> Page(c).layers,
                  camera |-> Page(c).camera]
     IN  IF calls[c].layers = shot.layers /\ calls[c].camera = shot.camera
         THEN Respond(c, "ok", shot)
         ELSE Respond(c, "error", NoCapture)
  /\ UNCHANGED service

\* Whoever still works on a context loses its page with it.
CloseSession(c) ==
  /\ Arrives(c, "close") /\ session # None
  /\ Await(c, "closing", session)
  /\ session' = None
  /\ UNCHANGED <<contexts, lost>>

CloseContext(c) ==
  /\ Runs(c, "close", "closing")
  /\ contexts' = [contexts EXCEPT ![calls[c].context] = None]
  /\ calls' = [d \in Calls |->
       IF d = c THEN NoCall
       ELSE IF calls[d].context = calls[c].context THEN [calls[d] EXCEPT !.context = None]
       ELSE calls[d]]
  /\ step' = IF step.call = c THEN [step EXCEPT !.answer = "ok"] ELSE step
  /\ UNCHANGED <<session, lost>>

\* An await throws: a wait takes too long or the page is gone.  The context
\* that create has opened stays open.
FailLoading(c) ==
  /\ Runs(c, "create", "loading")
  /\ faults < MaxFaults /\ faults' = faults + 1
  /\ lost' = lost + 1
  /\ Respond(c, "error", NoCapture)
  /\ UNCHANGED <<session, contexts>>

FailWaiting(c) ==
  /\ calls[c].op \in {"apply", "capture"} /\ calls[c].phase # "arrived"
  /\ Respond(c, "error", NoCapture)
  /\ UNCHANGED service

\* The service restarts, and whoever waits for it is refused.
Restart ==
  /\ restarts < MaxRestarts /\ restarts' = restarts + 1
  /\ session' = None
  /\ contexts' = [k \in Contexts |-> None]
  /\ calls' = [c \in Calls |-> NoCall]
  /\ step' = IF step.call # None /\ step.answer = "none"
             THEN [step EXCEPT !.answer = "error"] ELSE step
  /\ UNCHANGED <<episode, lost, faults>>

Handle(c) ==
  /\ \/ FindSession(c) \/ OpenContext(c) \/ KeepSession(c) \/ NoSession(c)
     \/ StartApply(c) \/ WriteState(c) \/ Zoom(c) \/ EndApply(c)
     \/ StartCapture(c) \/ ReadBack(c) \/ FirstShot(c) \/ SecondShot(c)
     \/ CloseSession(c) \/ CloseContext(c) \/ FailWaiting(c)
  /\ UNCHANGED <<episode, bounds>>

Next ==
  \/ \E v \in Views : Render(v)
  \/ ApplyState \/ Capture \/ Register \/ FailStep \/ End \/ TruncateByTool
  \/ SendClose \/ Closed \/ GiveUp \/ NeverHeard \/ Restart
  \/ \E c \in Calls : Handle(c)
  \/ \E c \in Calls : FailLoading(c) /\ UNCHANGED <<episode, restarts>>

Spec == Init /\ [][Next]_vars

(***************************************************************************)
(* Properties.                                                             *)
(***************************************************************************)

\* Every variable has its type, and the session of the episode is a context
\* that is open (SessionManager.get hands it out unchecked).
TypeOK ==
  /\ status \in {"active", "ended", "truncated"}
  /\ step \in Steps
  /\ image \in [view : Views, capture : Captures, disturbed : BOOLEAN] \cup {None}
  /\ session \in Contexts \cup {None}
  /\ contexts \in [Contexts -> Pages \cup {None}]
  /\ calls \in [Calls -> Handlings]
  /\ faults \in 0 .. MaxFaults /\ restarts \in 0 .. MaxRestarts /\ lost \in 0 .. MaxFaults
  /\ unclosed \in BOOLEAN
  /\ session # None => contexts[session] # None

\* A registered image shows the view of the step that registered it, and its
\* read-back says so, even if the session was replaced between apply and
\* capture; only an apply that was given up and still wrote to the page can
\* belie it (TerriaMapRenderer.render compares neither with its map state).
ImagesShowTheirView ==
  image # None => \/ image.disturbed
                  \/ {image.capture.readback, image.capture.layers,
                      image.capture.camera} = {image.view}

\* A context that no session, no create and no close knows of is never closed
\* again; each one is due to a create that was given up or failed
\* (SessionManager.create closes nothing).
Orphans ==
  {k \in Contexts : /\ contexts[k] # None /\ k # session
                    /\ \A c \in Calls : calls[c].context = k => calls[c].op \notin {"create", "close"}}

OrphansAreLostCreates == Cardinality(Orphans) <= lost

\* Once an episode was ended by a step and nothing is under way, the browser
\* keeps nothing of it but what lost creates left, and its session if the API
\* died between the commit and the close or could not reach the service (step
\* closes the session after its commit, once, and a repeated action never does).
EndedEpisodesKeepNothing ==
  status = "ended" /\ step.phase = "idle" /\ (\A c \in Calls : calls[c].op = "none")
    => Cardinality({k \in Contexts : contexts[k] # None /\ ~(unclosed /\ k = session)})
         <= lost

\* Every browser context is accounted for, before and after the end.
ContextsAccounted == OrphansAreLostCreates /\ EndedEpisodesKeepNothing
===============================================================================
