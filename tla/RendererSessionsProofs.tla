------------------------- MODULE RendererSessionsProofs ------------------------
(***************************************************************************)
(* Proofs about the renderer sessions, for any views, contexts, requests   *)
(* and bounds.                                                             *)
(*                                                                         *)
(* An image is right although the session may be another one at every      *)
(* request of its step: a context becomes the session once, with a blank   *)
(* page, so the page a capture finds is the one the step applied to or one *)
(* that has no state to read back.  And every context that is left open is *)
(* paid for: by a create that failed, by one that was given up and can     *)
(* still leave one, or by a close that the service never heard of.         *)
(***************************************************************************)
EXTENDS RendererSessions, FiniteSetTheorems, TLAPS

(* The requests the service is handling. *)
PhasesOf(op) ==
  CASE op = "none" -> {"arrived"}
    [] op = "create" -> {"arrived", "loading"}
    [] op = "apply" -> {"arrived", "waiting", "zooming", "settling"}
    [] op = "capture" -> {"arrived", "settling", "first", "second"}
    [] OTHER -> {"arrived", "closing"}

\* A request works on a context that is open, from its first await on.
CallsFit ==
  \A c \in Calls :
    /\ calls[c].phase \in PhasesOf(calls[c].op)
    /\ calls[c].phase = "arrived" => calls[c].context = None
    /\ calls[c].context # None => contexts[calls[c].context] # None

\* The context of a create is its own until it is the session; the context of
\* a close is the session no more, and no other create or close has it.
CreatesAlone ==
  \A c \in Calls :
    calls[c].op = "create" /\ calls[c].phase = "loading" =>
      /\ calls[c].context # None /\ calls[c].context # session
      /\ contexts[calls[c].context] = Blank
      /\ \A d \in Calls \ {c} : calls[d].context # calls[c].context

ClosesAlone ==
  \A c \in Calls :
    calls[c].op = "close" /\ calls[c].context # None =>
      /\ calls[c].context # session
      /\ \A d \in Calls \ {c} :
           calls[d].op = "close" => calls[d].context # calls[c].context

(* The step that waits for one of them. *)
OpOf(phase) ==
  CASE phase = "creating" -> "create"
    [] phase = "applying" -> "apply"
    [] phase = "capturing" -> "capture"
    [] OTHER -> "close"

Waits(c) == step.call = c /\ step.answer = "none"

StepFits ==
  /\ step.phase = "idle" => step = NoStep
  /\ step.phase \notin {"idle", "committed"} => step.call \in Calls
  /\ step.phase = "committed" =>
       status = "ended" /\ step.call = None /\ step.answer = "none"
  /\ step.phase \in {"creating", "applying", "capturing"} =>
       status = "active" /\ step.view \in Views
  /\ step.phase = "closing" => status = "ended"
  /\ \A c \in Calls : step.call = c =>
       IF step.answer = "none"
       THEN calls[c].op = OpOf(step.phase) /\ calls[c].view = step.view
       ELSE calls[c].op = "none"

Sound == TypeOK /\ lost <= faults /\ CallsFit /\ CreatesAlone /\ ClosesAlone /\ StepFits

\* A page that has no state, or shows a view and says so.
Clean(k, v) ==
  contexts[k].desired # None =>
    contexts[k].desired = v /\ contexts[k].layers = v /\ contexts[k].camera = v

\* What an apply has written so far of the view it was asked for.
Written(c, v) ==
  LET k == calls[c].context IN
  /\ calls[c].phase # "arrived" /\ session # None /\ session # k =>
       contexts[session].desired = None
  /\ k # None =>
       /\ calls[c].phase \in {"zooming", "settling"} =>
            contexts[k].desired = v /\ contexts[k].layers = v
       /\ calls[c].phase = "settling" => contexts[k].camera = v

\* What a capture has seen so far of it.
Captured(c, v) ==
  LET k == calls[c].context IN
  /\ calls[c].phase = "arrived" /\ session # None => Clean(session, v)
  /\ k # None => Clean(k, v)
  /\ calls[c].phase \in {"first", "second"} =>
       /\ calls[c].readback = v
       /\ k # None => contexts[k].desired = v
  /\ calls[c].phase = "second" => calls[c].layers = v /\ calls[c].camera = v

\* A step that no other request has disturbed.
Undisturbed ==
  ~step.disturbed =>
    /\ step.phase = "applying" /\ step.answer = "none" => Written(step.call, step.view)
    /\ step.phase = "applying" /\ step.answer = "ok" /\ session # None =>
         Clean(session, step.view)
    /\ step.phase = "capturing" /\ step.answer = "none" => Captured(step.call, step.view)
    /\ step.phase = "capturing" /\ step.answer = "ok" =>
         {step.capture.readback, step.capture.layers, step.capture.camera} = {step.view}

(* What will be left open. *)
\* Creates that nobody waits for any more.
LostCreates == {c \in Calls : calls[c].op = "create" /\ ~Waits(c)}

\* The create that is waited for will replace a session.
Doubles == \E c \in Calls : /\ Waits(c) /\ calls[c].op = "create"
                            /\ calls[c].phase = "loading" /\ session # None

\* The episode has ended and no close is to come or under way to end its
\* session, although none went unheard.
LeftOpen == /\ status = "ended" /\ session # None /\ ~unclosed
            /\ step.phase # "committed"
            /\ \A c \in Calls : ~Arrives(c, "close")

One(p) == IF p THEN 1 ELSE 0

Paid == Cardinality(Orphans) + Cardinality(LostCreates) + One(Doubles) + One(LeftOpen)
          <= lost

-------------------------------------------------------------------------------
(* Types of what the actions write. *)

\* The parts of the state.
LEMMA StateType ==
  ASSUME TypeOK
  PROVE  /\ step \in Steps /\ calls \in [Calls -> Handlings]
         /\ contexts \in [Contexts -> Pages \cup {None}]
         /\ \A c \in Calls : /\ calls[c] \in Handlings /\ calls[c].view \in Shown
                             /\ calls[c].context \in Contexts \cup {None}
  BY DEF TypeOK, Handlings

\* No request, no step and a blank page.
LEMMA EmptyType ==
  /\ NoCall \in Handlings /\ NoCall.op = "none" /\ NoCall.context = None
  /\ NoCall.phase = "arrived"
  /\ NoCapture \in Captures /\ NoStep \in Steps /\ NoStep.phase = "idle"
  /\ NoStep.call = None /\ NoStep.answer = "none" /\ NoStep.disturbed = FALSE
  /\ Blank \in Pages /\ Blank # None /\ Blank.desired = None
<1>1. None \in Shown
  BY DEF Shown
<1>2. NoCapture \in Captures /\ Blank \in Pages
  BY <1>1 DEF NoCapture, Captures, Blank, Pages
<1>3. NoCall \in Handlings
  BY <1>1 DEF NoCall, Handlings
<1>4. NoStep \in Steps
  BY <1>1, <1>2 DEF NoStep, Steps
<1> QED BY <1>2, <1>3, <1>4, NoneIsNoPage DEF NoCall, NoStep, Blank

\* A free slot takes a request and the step waits for it.
LEMMA SendType ==
  ASSUME TypeOK, NEW op \in {"create", "apply", "capture", "close"},
         NEW phase \in {"creating", "applying", "capturing", "closing"},
         NEW v \in Shown, NEW disturbed \in BOOLEAN, Send(op, phase, v, disturbed)
  PROVE  /\ step' \in Steps /\ calls' \in [Calls -> Handlings]
         /\ step'.phase = phase /\ step'.view = v /\ step'.disturbed = disturbed
         /\ step'.answer = "none" /\ step'.call \in Calls
         /\ calls[step'.call].op = "none"
         /\ calls'[step'.call].op = op /\ calls'[step'.call].view = v
         /\ calls'[step'.call].phase = "arrived" /\ calls'[step'.call].context = None
         /\ \A d \in Calls : d # step'.call => calls'[d] = calls[d]
<1>1. PICK c \in Calls :
        /\ calls[c].op = "none"
        /\ calls' = [calls EXCEPT ![c] = [NoCall EXCEPT !.op = op, !.view = v]]
        /\ step' = [NoStep EXCEPT !.phase = phase, !.view = v, !.call = c,
                                  !.disturbed = disturbed]
  BY DEF Send
<1>2. [NoCall EXCEPT !.op = op, !.view = v] \in Handlings
  BY EmptyType DEF Handlings
<1>3. step' \in Steps
  BY <1>1, EmptyType DEF Steps
<1>4. /\ step'.phase = phase /\ step'.view = v /\ step'.disturbed = disturbed
      /\ step'.answer = "none" /\ step'.call = c
  BY <1>1, EmptyType DEF Steps
<1>5. calls' \in [Calls -> Handlings] /\ calls'[c] = [NoCall EXCEPT !.op = op, !.view = v]
      /\ \A d \in Calls : d # c => calls'[d] = calls[d]
  BY <1>1, <1>2 DEF TypeOK
<1> QED BY <1>1, <1>3, <1>4, <1>5, EmptyType DEF Handlings

\* A request is answered, and its slot is free.
LEMMA RespondType ==
  ASSUME TypeOK, NEW c \in Calls, NEW answer \in {"ok", "error"},
         NEW capture \in Captures, Respond(c, answer, capture)
  PROVE  /\ calls' \in [Calls -> Handlings] /\ calls'[c] = NoCall
         /\ \A d \in Calls \ {c} : calls'[d] = calls[d]
         /\ step' \in Steps /\ step'.phase = step.phase /\ step'.view = step.view
         /\ step'.call = step.call /\ step'.disturbed = step.disturbed
         /\ IF Waits(c) THEN step'.answer = answer /\ step'.capture = capture
                        ELSE step' = step
<1>1. /\ calls' = [calls EXCEPT ![c] = NoCall]
      /\ step' = IF Waits(c) THEN [step EXCEPT !.answer = answer, !.capture = capture]
                             ELSE step
  BY DEF Respond, Waits
<1>2. calls \in [Calls -> Handlings] /\ step \in Steps
  BY DEF TypeOK
<1>3. calls' \in [Calls -> Handlings] /\ calls'[c] = NoCall
      /\ \A d \in Calls \ {c} : calls'[d] = calls[d]
  BY <1>1, <1>2, EmptyType
<1> QED BY <1>1, <1>2, <1>3 DEF Steps

\* A handler goes on to its next await.
LEMMA AwaitType ==
  ASSUME TypeOK, NEW c \in Calls, NEW k \in Contexts,
         NEW phase \in {"loading", "waiting", "settling", "closing"}, Await(c, phase, k)
  PROVE  /\ calls' \in [Calls -> Handlings] /\ step' = step
         /\ calls'[c].op = calls[c].op /\ calls'[c].view = calls[c].view
         /\ calls'[c].phase = phase /\ calls'[c].context = k
         /\ \A d \in Calls \ {c} : calls'[d] = calls[d]
  BY DEF TypeOK, Handlings, Await

-------------------------------------------------------------------------------
(* The step and the requests fit each other. *)

\* Answers are given to the step that waits for them.
LEMMA RespondFits ==
  ASSUME Sound, NEW c \in Calls, NEW answer \in {"ok", "error"},
         NEW capture \in Captures, Respond(c, answer, capture), status' = status
  PROVE  StepFits'
<1>1. /\ calls'[c] = NoCall /\ \A d \in Calls \ {c} : calls'[d] = calls[d]
      /\ step'.phase = step.phase /\ step'.view = step.view /\ step'.call = step.call
      /\ IF Waits(c) THEN step'.answer = answer ELSE step' = step
  BY RespondType DEF Sound
<1>2. step.phase \in {"idle", "committed"} => ~Waits(c)
  BY EmptyType, RendererAssumption DEF Sound, StepFits, Waits
<1>3. step.phase = "idle" => step' = NoStep
  BY <1>1, <1>2 DEF Sound, StepFits
<1>4. ASSUME NEW d \in Calls, step'.call = d
      PROVE  IF step'.answer = "none"
             THEN calls'[d].op = OpOf(step'.phase) /\ calls'[d].view = step'.view
             ELSE calls'[d].op = "none"
  BY <1>1, <1>4, EmptyType DEF Sound, StepFits, Waits
<1> QED BY <1>1, <1>2, <1>3, <1>4 DEF Sound, StepFits

\* A handler that goes on is still waited for.
LEMMA StillFits ==
  ASSUME Sound, status' = status,
         \A d \in Calls : calls'[d].op = calls[d].op /\ calls'[d].view = calls[d].view,
         \/ step' = step
         \/ step' = [step EXCEPT !.disturbed = step.phase # "idle"]
  PROVE  StepFits' /\ step' \in Steps
<1>1. step \in Steps
  BY DEF Sound, TypeOK
<1>2. CASE step' = step
  BY <1>1, <1>2 DEF Sound, StepFits
<1>3. CASE step' = [step EXCEPT !.disturbed = step.phase # "idle"]
  <2>1. /\ step' \in Steps /\ step'.phase = step.phase /\ step'.view = step.view
        /\ step'.call = step.call /\ step'.answer = step.answer
    BY <1>1, <1>3 DEF Steps
  <2>2. step.phase = "idle" => step' = step
    <3> SUFFICES ASSUME step.phase = "idle" PROVE step' = step
      OBVIOUS
    <3>1. step = NoStep
      BY DEF Sound, StepFits
    <3> QED BY <1>3, <3>1, EmptyType DEF NoStep
  <2> QED BY <2>1, <2>2 DEF Sound, StepFits
<1> QED BY <1>2, <1>3

\* A new request is waited for by the step that sent it.
LEMMA SendFits ==
  ASSUME Sound, NEW v \in Shown, NEW disturbed \in BOOLEAN,
         NEW op \in {"create", "apply", "capture", "close"},
         NEW phase \in {"creating", "applying", "capturing", "closing"},
         Send(op, phase, v, disturbed), op = OpOf(phase),
         IF phase = "closing" THEN status' = "ended"
                              ELSE status' = "active" /\ v \in Views
  PROVE  StepFits'
  BY SendType DEF Sound, StepFits

\* Requests that have just arrived have no context, so nothing that holds of
\* the contexts of the others is changed by one, or by one that is no more.
LEMMA SendKeeps ==
  ASSUME Sound, UNCHANGED <<session, contexts>>,
         \/ UNCHANGED calls
         \/ \E c \in Calls :
              /\ calls[c].op = "none"
              /\ calls'[c].op \in {"create", "apply", "capture", "close"}
              /\ calls'[c].phase = "arrived" /\ calls'[c].context = None
              /\ \A d \in Calls \ {c} : calls'[d] = calls[d]
         \/ \E c \in Calls :
              /\ calls'[c] = NoCall /\ \A d \in Calls \ {c} : calls'[d] = calls[d]
  PROVE  CallsFit' /\ CreatesAlone' /\ ClosesAlone'
<1>1. CASE UNCHANGED calls
  BY <1>1 DEF Sound, CallsFit, CreatesAlone, ClosesAlone
<1>2. ASSUME NEW c \in Calls, calls[c].op = "none",
             calls'[c].op \in {"create", "apply", "capture", "close"},
             calls'[c].phase = "arrived", calls'[c].context = None,
             \A d \in Calls \ {c} : calls'[d] = calls[d]
      PROVE  CallsFit' /\ CreatesAlone' /\ ClosesAlone'
  <2>1. CallsFit'
    BY <1>2 DEF Sound, CallsFit, PhasesOf
  <2>2. CreatesAlone'
    BY <1>2 DEF Sound, CreatesAlone
  <2>3. ClosesAlone'
    BY <1>2 DEF Sound, ClosesAlone
  <2> QED BY <2>1, <2>2, <2>3
<1>3. ASSUME NEW c \in Calls, calls'[c] = NoCall,
             \A d \in Calls \ {c} : calls'[d] = calls[d]
      PROVE  CallsFit' /\ CreatesAlone' /\ ClosesAlone'
  <2>1. CallsFit'
    BY <1>3, EmptyType DEF Sound, CallsFit, PhasesOf
  <2>2. CreatesAlone' /\ ClosesAlone'
    BY <1>3, EmptyType DEF Sound, CreatesAlone, ClosesAlone
  <2> QED BY <2>1, <2>2
<1> QED BY <1>1, <1>2, <1>3

-------------------------------------------------------------------------------
(* Every step keeps that. *)

\* Initially nothing is under way.
LEMMA InitSound == ASSUME Init PROVE Sound
<1>1. TypeOK /\ lost <= faults
  <2>1. /\ step \in Steps /\ calls \in [Calls -> Handlings]
        /\ contexts \in [Contexts -> Pages \cup {None}]
    BY EmptyType DEF Init
  <2>2. faults \in 0 .. MaxFaults /\ restarts \in 0 .. MaxRestarts /\ lost \in 0 .. MaxFaults
    BY RendererAssumption DEF Init
  <2>3. unclosed \in BOOLEAN
    BY DEF Init
  <2>4. /\ status = "active" /\ image = None /\ session = None /\ lost <= faults
    BY DEF Init
  <2> QED BY <2>1, <2>2, <2>3, <2>4 DEF TypeOK
<1>2. CallsFit /\ CreatesAlone /\ ClosesAlone
  BY EmptyType DEF Init, CallsFit, CreatesAlone, ClosesAlone, PhasesOf
<1>3. StepFits
  BY EmptyType, RendererAssumption DEF Init, StepFits
<1> QED BY <1>1, <1>2, <1>3 DEF Sound

\* A step of the adapter sends a request.
LEMMA SendSound ==
  ASSUME Sound, NEW v \in Shown, NEW disturbed \in BOOLEAN,
         NEW op \in {"create", "apply", "capture", "close"},
         NEW phase \in {"creating", "applying", "capturing", "closing"},
         Send(op, phase, v, disturbed), op = OpOf(phase),
         IF phase = "closing" THEN status' = "ended"
                              ELSE status' = "active" /\ v \in Views,
         UNCHANGED <<service, bounds, unclosed>>,
         image' \in [view : Views, capture : Captures, disturbed : BOOLEAN] \cup {None}
  PROVE  Sound'
<1>1. StepFits'
  BY SendFits
<1>2. CallsFit' /\ CreatesAlone' /\ ClosesAlone'
  BY SendType, SendKeeps DEF Sound, service
<1>3. step' \in Steps /\ calls' \in [Calls -> Handlings]
  BY SendType DEF Sound
<1>4. TypeOK' /\ (lost <= faults)'
  BY <1>3 DEF Sound, TypeOK, service, bounds
<1> QED BY <1>1, <1>2, <1>4 DEF Sound

\* A step of the adapter ends, or has a close to send yet; its request may go
\* on or be no more.
LEMMA EndSound ==
  ASSUME Sound, status' \in {"active", "ended", "truncated"},
         \/ step' = NoStep
         \/ step' = [NoStep EXCEPT !.phase = "committed"] /\ status' = "ended",
         \/ UNCHANGED calls
         \/ \E c \in Calls : calls' = [calls EXCEPT ![c] = NoCall],
         UNCHANGED <<session, contexts, restarts>>,
         image' \in [view : Views, capture : Captures, disturbed : BOOLEAN] \cup {None},
         faults' \in 0 .. MaxFaults, lost' \in 0 .. MaxFaults, lost' <= faults',
         unclosed' \in BOOLEAN
  PROVE  Sound'
<1>1. /\ calls' \in [Calls -> Handlings]
      /\ \/ UNCHANGED calls
         \/ \E c \in Calls :
              calls'[c] = NoCall /\ \A d \in Calls \ {c} : calls'[d] = calls[d]
  BY EmptyType DEF Sound, TypeOK
<1>2. /\ step' \in Steps /\ step'.call = None /\ step'.answer = "none"
      /\ \/ step' = NoStep
         \/ step'.phase = "committed" /\ status' = "ended"
  <2>1. CASE step' = NoStep
    BY <2>1, EmptyType
  <2>2. CASE step' = [NoStep EXCEPT !.phase = "committed"] /\ status' = "ended"
    BY <2>2, EmptyType DEF Steps
  <2> QED BY <2>1, <2>2
<1>3. StepFits'
  BY <1>2, EmptyType, RendererAssumption DEF StepFits
<1>4. CallsFit' /\ CreatesAlone' /\ ClosesAlone'
  BY <1>1, SendKeeps
<1>5. TypeOK'
  BY <1>1, <1>2 DEF Sound, TypeOK
<1> QED BY <1>3, <1>4, <1>5 DEF Sound

\* Every step of the adapter is one of the two.
LEMMA AdapterSound ==
  ASSUME Sound,
         \/ \E v \in Views : Render(v)
         \/ ApplyState \/ Capture \/ Register \/ FailStep \/ End \/ TruncateByTool
         \/ SendClose \/ Closed \/ GiveUp \/ NeverHeard
  PROVE  Sound'
<1> USE DEF episode, service, bounds
<1>1. /\ image \in [view : Views, capture : Captures, disturbed : BOOLEAN] \cup {None}
      /\ step \in Steps /\ status \in {"active", "ended", "truncated"}
      /\ faults \in 0 .. MaxFaults /\ lost \in 0 .. MaxFaults /\ lost <= faults
      /\ step.view \in Shown /\ step.disturbed \in BOOLEAN /\ None \in Shown
      /\ step.capture \in Captures /\ unclosed \in BOOLEAN
  BY DEF Sound, TypeOK, Steps, Shown
<1>2. ASSUME NEW v \in Views, Render(v) PROVE Sound'
  <2>1. v \in Shown
    BY DEF Shown
  <2> QED BY <1>1, <1>2, <2>1, SendSound DEF Render, OpOf
<1>3. CASE ApplyState
  <2>1. status = "active" /\ step.view \in Views
    BY <1>3 DEF ApplyState, Answered, Sound, StepFits
  <2> QED BY <1>1, <1>3, <2>1, SendSound DEF ApplyState, OpOf
<1>4. CASE Capture
  <2>1. status = "active" /\ step.view \in Views
    BY <1>4 DEF Capture, Answered, Sound, StepFits
  <2> QED BY <1>1, <1>4, <2>1, SendSound DEF Capture, OpOf
<1>5. ASSUME NEW next \in {"active", "ended"}, Finish(next),
             UNCHANGED <<service, bounds, unclosed>>,
             image' \in [view : Views, capture : Captures, disturbed : BOOLEAN] \cup {None}
      PROVE  Sound'
  BY <1>1, <1>5, EndSound DEF Finish
<1>6. CASE Register
  <2>1. step.view \in Views
    BY <1>6 DEF Register, Answered, Sound, StepFits
  <2>2. image' \in [view : Views, capture : Captures, disturbed : BOOLEAN]
    BY <1>1, <1>6, <2>1 DEF Register
  <2> QED BY <1>5, <1>6, <2>2 DEF Register
<1>7. CASE End
  BY <1>1, <1>5, <1>7 DEF End
<1>8. CASE FailStep \/ Closed
  BY <1>1, <1>8, EndSound DEF FailStep, Closed
<1>9. CASE TruncateByTool
  <2>1. step' = NoStep
    BY <1>9 DEF TruncateByTool, Sound, StepFits
  <2> QED BY <1>1, <1>9, <2>1, EndSound DEF TruncateByTool
<1>10. CASE GiveUp
  <2>1. /\ faults' = faults + 1 /\ faults < MaxFaults
        /\ lost' = lost \/ lost' = lost + 1
    BY <1>10 DEF GiveUp
  <2>2. faults' \in 0 .. MaxFaults /\ lost' \in 0 .. MaxFaults /\ lost' <= faults'
    BY <1>1, <2>1, RendererAssumption
  <2> QED BY <1>1, <1>10, <2>2, EndSound DEF GiveUp
<1>11. CASE NeverHeard
  <2>1. faults' \in 0 .. MaxFaults /\ lost' = lost /\ lost <= faults'
    BY <1>1, <1>11, RendererAssumption DEF NeverHeard
  <2>2. UNCHANGED calls \/ \E c \in Calls : calls' = [calls EXCEPT ![c] = NoCall]
    BY <1>11 DEF NeverHeard, Sound, TypeOK, Steps
  <2>3. unclosed' \in BOOLEAN /\ step' = NoStep
    BY <1>1, <1>11 DEF NeverHeard
  <2> QED BY <1>1, <1>11, <2>1, <2>2, <2>3, EndSound DEF NeverHeard
<1>12. CASE SendClose
  <2>1. status = "ended"
    BY <1>12 DEF SendClose, Sound, StepFits
  <2> QED BY <1>1, <1>12, <2>1, SendSound DEF SendClose, OpOf
<1> QED BY <1>2, <1>3, <1>4, <1>6, <1>7, <1>8, <1>9, <1>10, <1>11, <1>12

\* The service restarts and knows of nothing.
LEMMA RestartSound ==
  ASSUME Sound, Restart
  PROVE  Sound'
<1>1. /\ session' = None /\ contexts' = [k \in Contexts |-> None]
      /\ calls' = [c \in Calls |-> NoCall] /\ UNCHANGED <<status, image, unclosed, lost, faults>>
      /\ restarts' \in 0 .. MaxRestarts
  BY RendererAssumption DEF Restart, episode, Sound, TypeOK
<1>2. /\ step' \in Steps /\ step'.phase = step.phase /\ step'.view = step.view
      /\ step'.call = step.call
      /\ step'.answer = IF step.call # None /\ step.answer = "none" THEN "error"
                                                                    ELSE step.answer
      /\ step.call = None => step' = step
  BY DEF Restart, Sound, TypeOK, Steps
<1>3. TypeOK' /\ (lost <= faults)'
  BY <1>1, <1>2, EmptyType DEF Sound, TypeOK
<1>4. CallsFit' /\ CreatesAlone' /\ ClosesAlone'
  BY <1>1, EmptyType DEF CallsFit, CreatesAlone, ClosesAlone, PhasesOf
<1>5. \A c \in Calls : step'.call = c => step'.answer # "none"
  BY <1>2, EmptyType, RendererAssumption DEF Sound, StepFits
<1>6. StepFits'
  BY <1>1, <1>2, <1>5, EmptyType DEF Sound, StepFits
<1> QED BY <1>3, <1>4, <1>6 DEF Sound

\* What a handler leaves alone, outside the service.
Outside == UNCHANGED <<status, image, unclosed, faults, restarts>>

\* A handler answers and changes nothing else.
LEMMA AnswerSound ==
  ASSUME Sound, NEW c \in Calls, NEW answer \in {"ok", "error"},
         NEW capture \in Captures, Respond(c, answer, capture),
         UNCHANGED <<session, contexts, status, image, unclosed, restarts>>,
         lost' \in 0 .. MaxFaults, faults' \in 0 .. MaxFaults, lost' <= faults'
  PROVE  Sound'
<1>1. /\ calls' \in [Calls -> Handlings] /\ calls'[c] = NoCall /\ step' \in Steps
      /\ \A d \in Calls \ {c} : calls'[d] = calls[d]
  BY RespondType DEF Sound
<1>2. StepFits'
  BY RespondFits
<1>3. TypeOK'
  BY <1>1 DEF Sound, TypeOK
<1>4. CallsFit'
  BY <1>1, EmptyType DEF Sound, CallsFit, PhasesOf
<1>5. CreatesAlone' /\ ClosesAlone'
  BY <1>1, EmptyType DEF Sound, CreatesAlone, ClosesAlone
<1> QED BY <1>2, <1>3, <1>4, <1>5 DEF Sound

\* A create opens a context that nothing else knows of.
LEMMA OpenContextSound ==
  ASSUME Sound, NEW c \in Calls, OpenContext(c), Outside
  PROVE  Sound'
<1>1. PICK k \in Contexts :
        /\ calls[c].op = "create" /\ session = None /\ contexts[k] = None
        /\ contexts' = [contexts EXCEPT ![k] = Blank] /\ Await(c, "loading", k)
        /\ UNCHANGED <<session, lost>>
  BY DEF OpenContext, Arrives
<1>2. /\ calls' \in [Calls -> Handlings] /\ step' = step
      /\ calls'[c].op = "create" /\ calls'[c].view = calls[c].view
      /\ calls'[c].phase = "loading" /\ calls'[c].context = k
      /\ \A d \in Calls \ {c} : calls'[d] = calls[d]
  BY <1>1, AwaitType DEF Sound
<1>3. /\ contexts' \in [Contexts -> Pages \cup {None}] /\ contexts'[k] = Blank
      /\ \A j \in Contexts \ {k} : contexts'[j] = contexts[j]
  BY <1>1, EmptyType DEF Sound, TypeOK
<1>4. k # None /\ \A d \in Calls : calls[d].context # k
  BY <1>1, RendererAssumption DEF Sound, CallsFit
<1>5. StepFits'
  BY <1>1, <1>2, StillFits DEF Outside
<1>6. TypeOK'
  BY <1>1, <1>2, <1>3, EmptyType DEF Sound, TypeOK, Outside
<1>7. \A d \in Calls : calls[d].context \in Contexts \cup {None}
  BY StateType DEF Sound
<1>8. CallsFit'
  BY <1>2, <1>3, <1>4, <1>7, EmptyType DEF Sound, CallsFit, PhasesOf
<1>9. CreatesAlone' /\ ClosesAlone'
  BY <1>1, <1>2, <1>3, <1>4, <1>7 DEF Sound, CreatesAlone, ClosesAlone
<1> QED BY <1>1, <1>5, <1>6, <1>8, <1>9 DEF Sound, Outside

\* A create makes its context the session.
LEMMA KeepSessionSound ==
  ASSUME Sound, NEW c \in Calls, KeepSession(c), Outside
  PROVE  Sound'
<1>1. /\ calls[c].op = "create" /\ calls[c].phase = "loading" /\ calls[c].context # None
      /\ session' = calls[c].context /\ Respond(c, "ok", NoCapture)
      /\ UNCHANGED <<contexts, lost>>
  BY DEF KeepSession, Runs
<1>2. /\ calls' \in [Calls -> Handlings] /\ calls'[c] = NoCall /\ step' \in Steps
      /\ \A d \in Calls \ {c} : calls'[d] = calls[d]
  BY <1>1, RespondType, EmptyType DEF Sound
<1>3. StepFits'
  BY <1>1, RespondFits, EmptyType DEF Outside
<1>4. session' \in Contexts /\ contexts'[session'] # None
  BY <1>1, StateType DEF Sound, CallsFit
<1>5. TypeOK'
  BY <1>1, <1>2, <1>4 DEF Sound, TypeOK, Outside
<1>6. CallsFit'
  BY <1>1, <1>2, EmptyType DEF Sound, CallsFit, PhasesOf
<1>7. \A d \in Calls \ {c} : calls[d].context # session'
  BY <1>1 DEF Sound, CreatesAlone
<1>8. CreatesAlone' /\ ClosesAlone'
  BY <1>1, <1>2, <1>7, EmptyType DEF Sound, CreatesAlone, ClosesAlone
<1> QED BY <1>1, <1>3, <1>5, <1>6, <1>8 DEF Sound, Outside

\* An apply or a capture takes the session as it finds it.
LEMMA StartSound ==
  ASSUME Sound, NEW c \in Calls, StartApply(c) \/ StartCapture(c), Outside
  PROVE  Sound'
<1>1. PICK phase \in {"waiting", "settling"} :
        /\ calls[c].op \in {"apply", "capture"} /\ session # None
        /\ phase \in PhasesOf(calls[c].op) /\ Await(c, phase, session)
        /\ UNCHANGED <<session, contexts, lost>>
  BY DEF StartApply, StartCapture, Arrives, PhasesOf, service
<1>2. session \in Contexts /\ contexts[session] # None
  BY <1>1 DEF Sound, TypeOK
<1>3. /\ calls' \in [Calls -> Handlings] /\ step' = step
      /\ calls'[c].op = calls[c].op /\ calls'[c].view = calls[c].view
      /\ calls'[c].phase = phase /\ calls'[c].context = session
      /\ \A d \in Calls \ {c} : calls'[d] = calls[d]
  BY <1>1, <1>2, AwaitType DEF Sound
<1>4. StepFits'
  BY <1>3, StillFits DEF Outside
<1>5. TypeOK'
  BY <1>1, <1>3 DEF Sound, TypeOK, Outside
<1>6. CallsFit'
  BY <1>1, <1>2, <1>3 DEF Sound, CallsFit, PhasesOf
<1>7. CreatesAlone' /\ ClosesAlone'
  BY <1>1, <1>3 DEF Sound, CreatesAlone, ClosesAlone
<1> QED BY <1>1, <1>4, <1>5, <1>6, <1>7 DEF Sound, Outside

\* A close takes the session from everyone who comes later.
LEMMA CloseSessionSound ==
  ASSUME Sound, NEW c \in Calls, CloseSession(c), Outside
  PROVE  Sound'
<1>1. /\ calls[c].op = "close" /\ session # None /\ Await(c, "closing", session)
      /\ session' = None /\ UNCHANGED <<contexts, lost>>
  BY DEF CloseSession, Arrives
<1>2. session \in Contexts /\ contexts[session] # None
  BY <1>1 DEF Sound, TypeOK
<1>3. /\ calls' \in [Calls -> Handlings] /\ step' = step
      /\ calls'[c].op = "close" /\ calls'[c].view = calls[c].view
      /\ calls'[c].phase = "closing" /\ calls'[c].context = session
      /\ \A d \in Calls \ {c} : calls'[d] = calls[d]
  BY <1>1, <1>2, AwaitType DEF Sound
<1>4. StepFits'
  BY <1>1, <1>3, StillFits DEF Outside
<1>5. TypeOK'
  BY <1>1, <1>3 DEF Sound, TypeOK, Outside
<1>6. CallsFit'
  BY <1>1, <1>2, <1>3 DEF Sound, CallsFit, PhasesOf
<1>7. CreatesAlone' /\ ClosesAlone'
  BY <1>1, <1>3 DEF Sound, CreatesAlone, ClosesAlone
<1> QED BY <1>1, <1>4, <1>5, <1>6, <1>7 DEF Sound, Outside

\* A closed context is lost to whoever still works on it, which is no create,
\* no other close and not the session.
LEMMA CloseContextSound ==
  ASSUME Sound, NEW c \in Calls, CloseContext(c), Outside
  PROVE  Sound'
<1> DEFINE k == calls[c].context
<1>1. /\ calls[c].op = "close" /\ k # None
      /\ contexts' = [contexts EXCEPT ![k] = None]
      /\ calls' = [d \in Calls |->
           IF d = c THEN NoCall
           ELSE IF calls[d].context = k THEN [calls[d] EXCEPT !.context = None]
           ELSE calls[d]]
      /\ step' = IF step.call = c THEN [step EXCEPT !.answer = "ok"] ELSE step
      /\ UNCHANGED <<session, lost>>
  BY DEF CloseContext, Runs
<1>2. k \in Contexts /\ k # session /\ \A d \in Calls \ {c} :
        /\ calls[d].op = "create" /\ calls[d].phase = "loading" => calls[d].context # k
        /\ calls[d].op = "close" => calls[d].context # k
  BY <1>1, StateType DEF Sound, CreatesAlone, ClosesAlone
<1>3. /\ calls' \in [Calls -> Handlings] /\ calls'[c] = NoCall
      /\ \A d \in Calls \ {c} :
           /\ calls'[d].op = calls[d].op /\ calls'[d].view = calls[d].view
           /\ calls'[d].phase = calls[d].phase
           /\ calls'[d].context = IF calls[d].context = k THEN None ELSE calls[d].context
  <2>1. \A d \in Calls : [calls[d] EXCEPT !.context = None] \in Handlings
    BY StateType DEF Sound, Handlings
  <2>2. \A d \in Calls : calls'[d] \in Handlings
    BY <1>1, <2>1, StateType, EmptyType DEF Sound
  <2> QED BY <1>1, <2>2, StateType DEF Sound, Handlings
<1>4. /\ contexts' \in [Contexts -> Pages \cup {None}]
      /\ \A j \in Contexts \ {k} : contexts'[j] = contexts[j]
  BY <1>1, <1>2 DEF Sound, TypeOK
<1>5. /\ step' \in Steps /\ step'.phase = step.phase /\ step'.view = step.view
      /\ step'.call = step.call /\ step'.disturbed = step.disturbed
      /\ IF step.call = c THEN step'.answer = "ok" ELSE step' = step
  BY <1>1 DEF Sound, TypeOK, Steps
<1>6. StepFits'
  <2>1. step.phase = "idle" => step' = NoStep
    BY <1>5, EmptyType, RendererAssumption DEF Sound, StepFits
  <2>2. \A d \in Calls : step'.call = d =>
          IF step'.answer = "none"
          THEN calls'[d].op = OpOf(step'.phase) /\ calls'[d].view = step'.view
          ELSE calls'[d].op = "none"
    BY <1>3, <1>5, EmptyType DEF Sound, StepFits
  <2>3. step.phase = "committed" => step' = step
    BY <1>5, RendererAssumption DEF Sound, StepFits
  <2> QED BY <1>5, <2>1, <2>2, <2>3 DEF Sound, StepFits, Outside
<1>7. TypeOK'
  BY <1>1, <1>2, <1>3, <1>4, <1>5 DEF Sound, TypeOK, Outside
<1>8. CallsFit'
  BY <1>1, <1>2, <1>3, <1>4, StateType, EmptyType DEF Sound, CallsFit, PhasesOf
<1>9. CreatesAlone' /\ ClosesAlone'
  BY <1>1, <1>2, <1>3, <1>4, StateType, EmptyType DEF Sound, CreatesAlone, ClosesAlone
<1> QED BY <1>1, <1>6, <1>7, <1>8, <1>9 DEF Sound, Outside

\* An apply writes to its page, which is no create's.
LEMMA WriteSound ==
  ASSUME Sound, NEW c \in Calls, NEW page \in Pages,
         NEW phase \in {"zooming", "settling"},
         calls[c].op = "apply", calls[c].phase # "arrived", calls[c].context # None,
         Write(c, page), calls' = [calls EXCEPT ![c].phase = phase], Disturb(c), Outside
  PROVE  Sound'
<1> DEFINE k == calls[c].context
<1>1. /\ contexts' = [contexts EXCEPT ![k] = page] /\ UNCHANGED <<session, lost>>
      /\ \/ step' = step
         \/ step' = [step EXCEPT !.disturbed = step.phase # "idle"]
  BY DEF Write, Disturb
<1>2. /\ calls' \in [Calls -> Handlings] /\ calls'[c].op = "apply"
      /\ calls'[c].view = calls[c].view
      /\ calls'[c].phase = phase /\ calls'[c].context = k
      /\ \A d \in Calls \ {c} : calls'[d] = calls[d]
  BY DEF Sound, TypeOK, Handlings
<1>3. /\ k \in Contexts /\ contexts' \in [Contexts -> Pages \cup {None}]
      /\ contexts'[k] = page /\ page # None
      /\ \A j \in Contexts \ {k} : contexts'[j] = contexts[j]
  BY <1>1, StateType, NoneIsNoPage DEF Sound
<1>4. StepFits' /\ step' \in Steps
  BY <1>1, <1>2, StillFits DEF Outside
<1>5. TypeOK'
  BY <1>1, <1>2, <1>3, <1>4 DEF Sound, TypeOK, Outside
<1>6. CallsFit'
  BY <1>2, <1>3, StateType DEF Sound, CallsFit, PhasesOf
<1>7. \A d \in Calls : calls[d].op = "create" /\ calls[d].phase = "loading" =>
                         calls[d].context # k
  BY DEF Sound, CreatesAlone
<1>8. CreatesAlone' /\ ClosesAlone'
  BY <1>1, <1>2, <1>3, <1>7, StateType DEF Sound, CreatesAlone, ClosesAlone
<1> QED BY <1>1, <1>4, <1>5, <1>6, <1>8 DEF Sound, Outside

\* A capture goes on to its next frame.
LEMMA LookSound ==
  ASSUME Sound, NEW c \in Calls, NEW phase \in {"first", "second"},
         calls[c].op = "capture", calls[c].phase # "arrived",
         calls' \in [Calls -> Handlings],
         calls'[c].op = "capture", calls'[c].phase = phase,
         calls'[c].view = calls[c].view, calls'[c].context = calls[c].context,
         \A d \in Calls \ {c} : calls'[d] = calls[d],
         UNCHANGED <<step, service>>, Outside
  PROVE  Sound'
<1>1. UNCHANGED <<session, contexts, lost, step>>
  BY DEF service
<1>2. StepFits'
  BY <1>1, StillFits DEF Outside
<1>3. TypeOK'
  BY <1>1 DEF Sound, TypeOK, Outside
<1>4. CallsFit'
  BY <1>1 DEF Sound, CallsFit, PhasesOf
<1>5. CreatesAlone' /\ ClosesAlone'
  BY <1>1 DEF Sound, CreatesAlone, ClosesAlone
<1> QED BY <1>1, <1>2, <1>3, <1>4, <1>5 DEF Sound, Outside

\* The page a request works on is open.
LEMMA PageType ==
  ASSUME Sound, NEW c \in Calls, calls[c].context # None
  PROVE  /\ Page(c) \in Pages /\ Page(c).desired \in Shown /\ Page(c).layers \in Shown
         /\ Page(c).camera \in Shown
  BY StateType DEF Sound, CallsFit, Page, Pages

\* What the other steps of a handler are.
LEMMA AnswersSound ==
  ASSUME Sound, NEW c \in Calls, UNCHANGED <<episode, bounds>>,
         \/ FindSession(c) \/ NoSession(c) \/ EndApply(c) \/ FailWaiting(c)
         \/ ReadBack(c) \/ FirstShot(c) \/ SecondShot(c)
  PROVE  Sound'
<1>1. Outside /\ lost \in 0 .. MaxFaults /\ faults \in 0 .. MaxFaults /\ lost <= faults
  BY DEF Outside, episode, bounds, Sound, TypeOK
<1>2. ASSUME NEW answer \in {"ok", "error"}, NEW capture \in Captures,
             Respond(c, answer, capture), UNCHANGED service
      PROVE  Sound'
  BY <1>1, <1>2, AnswerSound DEF Outside, service
<1>3. CASE FindSession(c) \/ NoSession(c) \/ FailWaiting(c)
  BY <1>2, <1>3, EmptyType DEF FindSession, NoSession, FailWaiting
<1>4. CASE EndApply(c)
  BY <1>2, <1>4, EmptyType DEF EndApply
<1>5. CASE ReadBack(c)
  <2>1. calls[c].op = "capture" /\ calls[c].phase = "settling" /\ calls[c].context # None
    BY <1>5 DEF ReadBack, Runs
  <2>2. CASE Consistent(Page(c))
    <3>1. /\ calls' = [calls EXCEPT ![c].phase = "first", ![c].readback = Page(c).desired]
          /\ UNCHANGED <<step, service>>
      BY <1>5, <2>2 DEF ReadBack
    <3>2. /\ calls' \in [Calls -> Handlings] /\ calls'[c].op = "capture"
          /\ calls'[c].phase = "first" /\ calls'[c].view = calls[c].view
          /\ calls'[c].context = calls[c].context
          /\ \A d \in Calls \ {c} : calls'[d] = calls[d]
      <4> DEFINE call == [calls[c] EXCEPT !.phase = "first", !.readback = Page(c).desired]
      <4>1. calls \in [Calls -> Handlings] /\ Page(c).desired \in Shown
        BY <2>1, PageType, StateType DEF Sound
      <4>2. /\ call \in Handlings /\ call.op = calls[c].op /\ call.phase = "first"
            /\ call.view = calls[c].view /\ call.context = calls[c].context
        BY <4>1 DEF Handlings
      <4>3. calls' = [calls EXCEPT ![c] = call]
        BY <3>1
      <4> HIDE DEF call
      <4> QED BY <2>1, <4>1, <4>2, <4>3
    <3> QED BY <1>1, <2>1, <3>1, <3>2, LookSound
  <2>3. CASE ~Consistent(Page(c))
    BY <1>2, <1>5, <2>3, EmptyType DEF ReadBack
  <2> QED BY <2>2, <2>3
<1>6. CASE FirstShot(c)
  <2>1. /\ calls[c].op = "capture" /\ calls[c].phase = "first" /\ calls[c].context # None
        /\ calls' = [calls EXCEPT ![c].phase = "second", ![c].layers = Page(c).layers,
                                  ![c].camera = Page(c).camera]
        /\ UNCHANGED <<step, service>>
    BY <1>6 DEF FirstShot, Runs
  <2>2. /\ calls' \in [Calls -> Handlings] /\ calls'[c].op = "capture"
        /\ calls'[c].phase = "second" /\ calls'[c].view = calls[c].view
        /\ calls'[c].context = calls[c].context
        /\ \A d \in Calls \ {c} : calls'[d] = calls[d]
    <3> DEFINE call == [calls[c] EXCEPT !.phase = "second", !.layers = Page(c).layers,
                                        !.camera = Page(c).camera]
    <3>1. calls \in [Calls -> Handlings] /\ Page(c).layers \in Shown /\ Page(c).camera \in Shown
      BY <2>1, PageType, StateType DEF Sound
    <3>2. /\ call \in Handlings /\ call.op = calls[c].op /\ call.phase = "second"
          /\ call.view = calls[c].view /\ call.context = calls[c].context
      BY <3>1 DEF Handlings
    <3>3. calls' = [calls EXCEPT ![c] = call]
      BY <2>1
    <3> HIDE DEF call
    <3> QED BY <2>1, <3>1, <3>2, <3>3
  <2> QED BY <1>1, <2>1, <2>2, LookSound
<1>7. CASE SecondShot(c)
  <2>1. [readback |-> calls[c].readback, layers |-> Page(c).layers,
         camera |-> Page(c).camera] \in Captures
    BY <1>7, PageType, StateType DEF SecondShot, Runs, Sound, Captures, Handlings
  <2> QED BY <1>2, <1>7, <2>1, EmptyType DEF SecondShot
<1> QED BY <1>3, <1>4, <1>5, <1>6, <1>7 

\* So every step of the service keeps it.
LEMMA ServiceSound ==
  ASSUME Sound, NEW c \in Calls,
         Handle(c) \/ (FailLoading(c) /\ UNCHANGED <<episode, restarts>>)
  PROVE  Sound'
<1>1. ASSUME WriteState(c) \/ Zoom(c), Outside PROVE Sound'
  <2>1. calls[c].op = "apply" /\ calls[c].phase # "arrived" /\ calls[c].context # None
    BY <1>1 DEF WriteState, Zoom, Runs
  <2>2. calls[c].view \in Shown
    BY StateType DEF Sound
  <2>3. CASE WriteState(c)
    <3>1. [Page(c) EXCEPT !.desired = calls[c].view, !.layers = calls[c].view] \in Pages
      BY <2>1, <2>2, PageType DEF Pages
    <3> QED BY <1>1, <2>1, <2>3, <3>1, WriteSound DEF WriteState
  <2>4. CASE Zoom(c)
    <3>1. [Page(c) EXCEPT !.camera = calls[c].view] \in Pages
      BY <2>1, <2>2, PageType DEF Pages
    <3> QED BY <1>1, <2>1, <2>4, <3>1, WriteSound DEF Zoom
  <2> QED BY <1>1, <2>3, <2>4
<1>2. CASE Handle(c)
  <2>1. Outside /\ UNCHANGED <<episode, bounds>>
    BY <1>2 DEF Handle, Outside, episode, bounds
  <2> QED BY <1>1, <1>2, <2>1, AnswersSound, OpenContextSound, KeepSessionSound, StartSound,
             CloseSessionSound, CloseContextSound DEF Handle
<1>3. CASE FailLoading(c) /\ UNCHANGED <<episode, restarts>>
  <2>1. /\ faults < MaxFaults /\ faults' = faults + 1 /\ lost' = lost + 1
        /\ faults \in 0 .. MaxFaults /\ lost \in 0 .. MaxFaults /\ lost <= faults
    BY <1>3 DEF FailLoading, Sound, TypeOK
  <2>2. lost' \in 0 .. MaxFaults /\ faults' \in 0 .. MaxFaults /\ lost' <= faults'
    BY <2>1, RendererAssumption
  <2> QED BY <1>3, <2>2, AnswerSound, EmptyType DEF FailLoading, episode
<1> QED BY <1>2, <1>3

LEMMA SoundStep == Sound /\ [Next]_vars => Sound'
<1> SUFFICES ASSUME Sound, [Next]_vars PROVE Sound'
  OBVIOUS
<1>1. CASE Next
  BY <1>1, AdapterSound, RestartSound, ServiceSound DEF Next
<1>2. CASE UNCHANGED vars
  BY <1>2 DEF vars, Sound, TypeOK, CallsFit, CreatesAlone, ClosesAlone, StepFits
<1> QED BY <1>1, <1>2

\* Steps and requests fit each other in every reachable state: a request works
\* on an open context, a context is kept as the session once and closed once
\* (SessionManager.create and close), and the adapter waits for one request.
THEOREM RequestsFit == Spec => []Sound
<1>1. Init => Sound
  BY InitSound
<1>2. Sound /\ [Next]_vars => Sound'
  BY SoundStep
<1> QED BY <1>1, <1>2, PTL DEF Spec

\* Every variable has its type, and the session of the episode is open.
THEOREM RendererTypes == Spec => []TypeOK
<1>1. Sound => TypeOK
  BY DEF Sound
<1> QED BY <1>1, RequestsFit, PTL

-------------------------------------------------------------------------------
(* The pages under an undisturbed step. *)

\* The request of another does not bear on the step: the session stays or is
\* replaced by a blank page, and the request of the step loses its context at
\* most.
LEMMA OthersDoNotDisturb ==
  ASSUME Sound, Undisturbed, step' = step,
         \/ session' = None
         \/ session' = session /\ contexts'[session] = contexts[session]
         \/ contexts'[session'].desired = None,
         \A d \in Calls : Waits(d) /\ calls[d].op \in {"apply", "capture"} =>
           /\ calls'[d].phase = calls[d].phase /\ calls'[d].readback = calls[d].readback
           /\ calls'[d].layers = calls[d].layers /\ calls'[d].camera = calls[d].camera
           /\ \/ calls'[d].context = calls[d].context
              \/ calls'[d].context = None /\ calls[d].context # session'
           /\ calls'[d].context # None =>
                contexts'[calls'[d].context] = contexts[calls'[d].context]
  PROVE  Undisturbed'
<1> SUFFICES ASSUME ~step.disturbed PROVE Undisturbed'
  BY DEF Undisturbed
<1> DEFINE w == step.call
           v == step.view
<1>1. ASSUME step.phase \in {"applying", "capturing"}, step.answer = "none"
      PROVE  w \in Calls /\ Waits(w) /\ calls[w].op \in {"apply", "capture"}
  BY <1>1 DEF Sound, StepFits, Waits, OpOf
<1>2. step.phase = "applying" /\ step.answer = "none" => Written(w, v)'
  <2> SUFFICES ASSUME step.phase = "applying", step.answer = "none" PROVE Written(w, v)'
    OBVIOUS
  <2>1. Written(w, v)
    BY DEF Undisturbed
  <2> QED BY <1>1, <2>1 DEF Written
<1>3. step.phase = "applying" /\ step.answer = "ok" /\ session' # None => Clean(session, v)'
  BY DEF Undisturbed, Clean
<1>4. step.phase = "capturing" /\ step.answer = "none" => Captured(w, v)'
  <2> SUFFICES ASSUME step.phase = "capturing", step.answer = "none" PROVE Captured(w, v)'
    OBVIOUS
  <2>1. Captured(w, v)
    BY DEF Undisturbed
  <2> QED BY <1>1, <2>1 DEF Captured, Clean
<1> QED BY <1>2, <1>3, <1>4 DEF Undisturbed

\* An answer tells the step what the service has seen to.
LEMMA AnswerUndisturbed ==
  ASSUME Sound, Undisturbed, NEW c \in Calls, NEW answer \in {"ok", "error"},
         NEW capture \in Captures, Respond(c, answer, capture),
         UNCHANGED <<session, contexts>>,
         Waits(c) /\ answer = "ok" /\ ~step.disturbed =>
           /\ step.phase = "applying" /\ session # None => Clean(session, step.view)
           /\ step.phase = "capturing" =>
                {capture.readback, capture.layers, capture.camera} = {step.view}
  PROVE  Undisturbed'
<1>1. /\ \A d \in Calls \ {c} : calls'[d] = calls[d]
      /\ step'.phase = step.phase /\ step'.view = step.view
      /\ step'.call = step.call /\ step'.disturbed = step.disturbed
      /\ IF Waits(c) THEN step'.answer = answer /\ step'.capture = capture
                     ELSE step' = step
  BY RespondType DEF Sound
<1>2. CASE Waits(c)
  BY <1>1, <1>2 DEF Undisturbed, Clean
<1>3. CASE ~Waits(c)
  BY <1>1, <1>3, OthersDoNotDisturb
<1> QED BY <1>2, <1>3

\* A step of the adapter that asks for the view to be applied, or captured
\* where it has been applied.
LEMMA AdapterUndisturbed ==
  ASSUME Sound, Undisturbed,
         \/ \E v \in Views : Render(v)
         \/ ApplyState \/ Capture \/ Register \/ FailStep \/ End \/ TruncateByTool
         \/ SendClose \/ Closed \/ GiveUp \/ NeverHeard
  PROVE  Undisturbed'
<1>1. step' = NoStep => Undisturbed'
  BY EmptyType DEF Undisturbed
<1>2. step.view \in Shown /\ step.disturbed \in BOOLEAN /\ None \in Shown
  BY DEF Sound, TypeOK, Steps, Shown
<1>3. ASSUME NEW op \in {"create", "close"}, NEW phase \in {"creating", "closing"},
             NEW v \in Shown, Send(op, phase, v, FALSE)
      PROVE  Undisturbed'
  BY <1>3, SendType DEF Sound, Undisturbed
<1>4. ASSUME NEW next \in {"active", "ended"}, Finish(next) PROVE Undisturbed'
  BY <1>4, EmptyType DEF Finish, Undisturbed, Steps
<1>5. ASSUME NEW v \in Views, Render(v) PROVE Undisturbed'
  BY <1>3, <1>5 DEF Render, Shown
<1>6. CASE ApplyState
  <2>1. Send("apply", "applying", step.view, step.disturbed)
    BY <1>6 DEF ApplyState
  <2>2. /\ step'.phase = "applying" /\ step'.answer = "none" /\ step'.call \in Calls
        /\ calls'[step'.call].phase = "arrived" /\ calls'[step'.call].context = None
    BY <1>2, <2>1, SendType DEF Sound
  <2> QED BY <2>2 DEF Undisturbed, Written
<1>7. CASE Capture
  <2>1. /\ Send("capture", "capturing", step.view, step.disturbed)
        /\ step.phase = "applying" /\ step.answer = "ok" /\ UNCHANGED <<session, contexts>>
    BY <1>7 DEF Capture, Answered, service
  <2>2. /\ step'.phase = "capturing" /\ step'.answer = "none" /\ step'.call \in Calls
        /\ step'.view = step.view /\ step'.disturbed = step.disturbed
        /\ calls'[step'.call].phase = "arrived" /\ calls'[step'.call].context = None
    BY <1>2, <2>1, SendType DEF Sound
  <2>3. ~step.disturbed /\ session # None => Clean(session, step.view)
    BY <2>1 DEF Undisturbed
  <2> QED BY <2>1, <2>2, <2>3 DEF Undisturbed, Captured, Clean
<1>8. CASE TruncateByTool
  BY <1>8, EmptyType DEF TruncateByTool, Undisturbed
<1>9. CASE SendClose
  BY <1>2, <1>3, <1>9 DEF SendClose
<1> QED BY <1>1, <1>4, <1>5, <1>6, <1>7, <1>8, <1>9
        DEF Register, FailStep, End, Closed, GiveUp, NeverHeard

\* Nothing is left of the service for a step to find.
LEMMA RestartUndisturbed ==
  ASSUME Sound, Undisturbed, Restart
  PROVE  Undisturbed'
<1>1. /\ session' = None /\ step'.phase = step.phase /\ step'.view = step.view
      /\ step'.capture = step.capture /\ step'.disturbed = step.disturbed
      /\ step'.answer = IF step.call # None /\ step.answer = "none" THEN "error"
                                                                    ELSE step.answer
  BY DEF Restart, Sound, TypeOK, Steps
<1>2. step.phase \in {"applying", "capturing"} => step'.answer # "none"
  BY <1>1, RendererAssumption DEF Sound, StepFits
<1> QED BY <1>1, <1>2 DEF Undisturbed

\* The step that waits for a request has asked for it.
LEMMA WaitsFor ==
  ASSUME Sound, NEW c \in Calls, step.call = c, calls[c].op # "none"
  PROVE  /\ Waits(c) /\ calls[c].view = step.view
         /\ step.phase = "creating" <=> calls[c].op = "create"
         /\ step.phase = "applying" <=> calls[c].op = "apply"
         /\ step.phase = "capturing" <=> calls[c].op = "capture"
<1>1. step.phase \in {"creating", "applying", "capturing", "closing"}
  BY EmptyType, RendererAssumption DEF Sound, StepFits, TypeOK, Steps
<1>2. Waits(c) /\ calls[c].view = step.view /\ calls[c].op = OpOf(step.phase)
  BY DEF Sound, StepFits, Waits
<1> QED BY <1>1, <1>2 DEF OpOf

\* A create brings a blank page, and a close takes the session away.
LEMMA SessionsUndisturbed ==
  ASSUME Sound, Undisturbed, NEW c \in Calls,
         OpenContext(c) \/ KeepSession(c) \/ CloseSession(c) \/ CloseContext(c)
  PROVE  Undisturbed'
<1>1. ASSUME NEW d \in Calls, Waits(d), calls[d].op \in {"apply", "capture"},
             calls[c].op \in {"create", "close"}
      PROVE  d # c
  BY <1>1
<1>2. CASE OpenContext(c)
  <2>1. PICK k \in Contexts :
          /\ calls[c].op = "create" /\ session = None /\ contexts[k] = None
          /\ contexts' = [contexts EXCEPT ![k] = Blank] /\ Await(c, "loading", k)
          /\ UNCHANGED <<session, lost>>
    BY <1>2 DEF OpenContext, Arrives
  <2>2. step' = step /\ \A d \in Calls \ {c} : calls'[d] = calls[d]
    BY <2>1, AwaitType DEF Sound
  <2>3. \A d \in Calls : calls[d].context # None =>
          contexts'[calls[d].context] = contexts[calls[d].context]
    BY <2>1, StateType DEF Sound, CallsFit
  <2> QED BY <1>1, <2>1, <2>2, <2>3, OthersDoNotDisturb
<1>3. CASE KeepSession(c)
  <2>1. /\ calls[c].op = "create" /\ contexts[calls[c].context] = Blank
        /\ session' = calls[c].context /\ Respond(c, "ok", NoCapture)
        /\ UNCHANGED contexts
    BY <1>3 DEF KeepSession, Runs, Sound, CreatesAlone
  <2>2. /\ \A d \in Calls \ {c} : calls'[d] = calls[d]
        /\ step'.phase = step.phase
        /\ Waits(c) \/ step' = step
    BY <2>1, RespondType, EmptyType DEF Sound
  <2>3. CASE Waits(c)
    <3>1. step.phase = "creating"
      BY <2>1, <2>3, WaitsFor DEF Waits
    <3> QED BY <2>2, <3>1 DEF Undisturbed
  <2>4. CASE step' = step
    BY <1>1, <2>1, <2>2, <2>4, OthersDoNotDisturb, EmptyType
  <2> QED BY <2>2, <2>3, <2>4
<1>4. CASE CloseSession(c)
  <2>1. /\ calls[c].op = "close" /\ session # None /\ Await(c, "closing", session)
        /\ session' = None /\ UNCHANGED contexts
    BY <1>4 DEF CloseSession, Arrives
  <2>2. session \in Contexts
    BY <2>1 DEF Sound, TypeOK
  <2>3. step' = step /\ \A d \in Calls \ {c} : calls'[d] = calls[d]
    BY <2>1, <2>2, AwaitType DEF Sound
  <2> QED BY <1>1, <2>1, <2>3, OthersDoNotDisturb
<1>5. CASE CloseContext(c)
  <2> DEFINE k == calls[c].context
  <2>1. /\ calls[c].op = "close" /\ k \in Contexts /\ k # session
        /\ contexts' = [contexts EXCEPT ![k] = None]
        /\ calls' = [d \in Calls |->
             IF d = c THEN NoCall
             ELSE IF calls[d].context = k THEN [calls[d] EXCEPT !.context = None]
             ELSE calls[d]]
        /\ step' = IF step.call = c THEN [step EXCEPT !.answer = "ok"] ELSE step
        /\ UNCHANGED session
    BY <1>5, StateType DEF CloseContext, Runs, Sound, ClosesAlone
  <2>2. CASE step.call = c
    <3>1. step.phase \notin {"applying", "capturing"}
      BY <2>1, <2>2, WaitsFor
    <3>2. step'.phase = step.phase
      BY <2>1, <2>2 DEF Sound, TypeOK, Steps
    <3> QED BY <3>1, <3>2 DEF Undisturbed
  <2>3. CASE step.call # c
    <3>1. \A d \in Calls \ {c} :
            /\ calls'[d].phase = calls[d].phase /\ calls'[d].readback = calls[d].readback
            /\ calls'[d].layers = calls[d].layers /\ calls'[d].camera = calls[d].camera
            /\ calls'[d].context = IF calls[d].context = k THEN None ELSE calls[d].context
      BY <2>1, StateType DEF Sound, Handlings
    <3>2. \A j \in Contexts \ {k} : contexts'[j] = contexts[j]
      BY <2>1 DEF Sound, TypeOK
    <3>3. \/ session' = None
          \/ session' = session /\ contexts'[session] = contexts[session]
      BY <2>1, <3>2 DEF Sound, TypeOK
    <3> QED BY <1>1, <2>1, <2>3, <3>1, <3>2, <3>3, StateType, OthersDoNotDisturb DEF Sound
  <2> QED BY <2>2, <2>3
<1> QED BY <1>2, <1>3, <1>4, <1>5

\* What an apply writes is the view its step asked for; the step of anyone
\* else is disturbed.
LEMMA WritesUndisturbed ==
  ASSUME Sound, Undisturbed, NEW c \in Calls, WriteState(c) \/ Zoom(c)
  PROVE  Undisturbed'
<1> DEFINE k == calls[c].context
<1>1. /\ calls[c].op = "apply" /\ k # None /\ Disturb(c)
      /\ calls[c].phase # "arrived" /\ UNCHANGED session
  BY DEF WriteState, Zoom, Runs, Write
<1>2. k \in Contexts /\ contexts[k] \in Pages
  BY <1>1, StateType DEF Sound, CallsFit
<1>3. CASE step.call # c
  <2>1. step' = [step EXCEPT !.disturbed = step.phase # "idle"] /\ step \in Steps
    BY <1>1, <1>3 DEF Disturb, Sound, TypeOK
  <2>2. step'.phase = step.phase /\ step'.disturbed = (step.phase # "idle")
    BY <2>1 DEF Steps
  <2> QED BY <2>2 DEF Undisturbed
<1>4. CASE step.call = c
  <2>1. /\ step' = step /\ step.phase = "applying" /\ Waits(c)
        /\ calls[c].view = step.view
    BY <1>1, <1>4, WaitsFor DEF Disturb
  <2> SUFFICES ASSUME ~step.disturbed PROVE Undisturbed'
    BY <2>1 DEF Undisturbed
  <2>2. Written(c, step.view)
    BY <1>4, <2>1 DEF Undisturbed, Waits
  <2>3. \A j \in Contexts \ {k} : contexts'[j] = contexts[j]
    BY <1>2 DEF WriteState, Zoom, Write, Sound, TypeOK
  <2>4. /\ calls'[c].phase \in {"zooming", "settling"} /\ calls'[c].context = k
        /\ contexts'[k].desired = step.view /\ contexts'[k].layers = step.view
        /\ calls'[c].phase = "settling" => contexts'[k].camera = step.view
    <3>1. CASE WriteState(c)
      <4>1. /\ calls' = [calls EXCEPT ![c].phase = "zooming"]
            /\ contexts' = [contexts EXCEPT ![k] =
                 [contexts[k] EXCEPT !.desired = calls[c].view, !.layers = calls[c].view]]
        BY <3>1 DEF WriteState, Write, Page
      <4>2. calls'[c].phase = "zooming" /\ calls'[c].context = k
        BY <4>1, StateType DEF Sound, Handlings
      <4>3. contexts'[k] = [contexts[k] EXCEPT !.desired = calls[c].view,
                                               !.layers = calls[c].view]
        BY <1>2, <4>1 DEF Sound, TypeOK
      <4> QED BY <1>2, <2>1, <4>2, <4>3 DEF Pages
    <3>2. CASE Zoom(c)
      <4>1. /\ calls[c].phase = "zooming" /\ calls' = [calls EXCEPT ![c].phase = "settling"]
            /\ contexts' = [contexts EXCEPT ![k] =
                 [contexts[k] EXCEPT !.camera = calls[c].view]]
        BY <3>2 DEF Zoom, Runs, Write, Page
      <4>2. calls'[c].phase = "settling" /\ calls'[c].context = k
        BY <4>1, StateType DEF Sound, Handlings
      <4>3. contexts'[k] = [contexts[k] EXCEPT !.camera = calls[c].view]
        BY <1>2, <4>1 DEF Sound, TypeOK
      <4>4. contexts[k].desired = step.view /\ contexts[k].layers = step.view
        BY <1>1, <2>2, <4>1 DEF Written
      <4> QED BY <1>2, <2>1, <4>2, <4>3, <4>4 DEF Pages
    <3> QED BY <3>1, <3>2
  <2>5. session # None /\ session # k => contexts'[session].desired = None
    BY <1>1, <2>2, <2>3 DEF Written, Sound, TypeOK
  <2>6. Written(c, step.view)'
    BY <1>1, <2>1, <2>4, <2>5 DEF Written
  <2> QED BY <1>4, <2>1, <2>6 DEF Undisturbed, Waits
<1> QED BY <1>3, <1>4

\* An apply finds the session, a capture a page that is clean.
LEMMA StartUndisturbed ==
  ASSUME Sound, Undisturbed, NEW c \in Calls, StartApply(c) \/ StartCapture(c)
  PROVE  Undisturbed'
<1>1. PICK phase \in {"waiting", "settling"} :
        /\ calls[c].op \in {"apply", "capture"} /\ calls[c].phase = "arrived"
        /\ phase = (IF calls[c].op = "apply" THEN "waiting" ELSE "settling")
        /\ session # None /\ Await(c, phase, session) /\ UNCHANGED <<session, contexts>>
  BY DEF StartApply, StartCapture, Arrives, service
<1>2. session \in Contexts
  BY <1>1 DEF Sound, TypeOK
<1>3. /\ step' = step /\ calls'[c].phase = phase /\ calls'[c].context = session
      /\ \A d \in Calls \ {c} : calls'[d] = calls[d]
  BY <1>1, <1>2, AwaitType DEF Sound
<1>4. CASE ~Waits(c)
  BY <1>1, <1>3, <1>4, OthersDoNotDisturb
<1>5. CASE Waits(c) /\ calls[c].op = "apply"
  <2>1. step.phase = "applying" /\ step.call = c
    BY <1>5, WaitsFor DEF Waits
  <2>2. Written(step.call, step.view)'
    BY <1>1, <1>3, <1>5, <2>1 DEF Written
  <2> QED BY <1>3, <1>5, <2>1, <2>2 DEF Undisturbed, Waits
<1>6. CASE Waits(c) /\ calls[c].op = "capture"
  <2>1. step.phase = "capturing" /\ step.call = c
    BY <1>6, WaitsFor DEF Waits
  <2>2. ~step.disturbed => Clean(session, step.view)
    BY <1>1, <1>6, <2>1 DEF Undisturbed, Captured, Waits
  <2>3. ~step.disturbed => Captured(step.call, step.view)'
    BY <1>1, <1>3, <1>6, <2>1, <2>2 DEF Captured, Clean
  <2> QED BY <1>3, <1>6, <2>1, <2>3 DEF Undisturbed, Waits
<1> QED BY <1>1, <1>4, <1>5, <1>6

\* A capture sees what the page says of itself.
LEMMA LooksUndisturbed ==
  ASSUME Sound, Undisturbed, NEW c \in Calls,
         \/ ReadBack(c) /\ Consistent(Page(c))
         \/ FirstShot(c)
  PROVE  Undisturbed'
<1> DEFINE k == calls[c].context
<1>1. /\ calls[c].op = "capture" /\ k # None /\ UNCHANGED <<step, session, contexts>>
      /\ calls[c].phase # "arrived"
  BY DEF ReadBack, FirstShot, Runs, service
<1>2. /\ \A d \in Calls \ {c} : calls'[d] = calls[d]
      /\ calls'[c].context = k
      /\ \/ /\ ReadBack(c) /\ Consistent(Page(c)) /\ calls'[c].phase = "first"
            /\ calls'[c].readback = contexts[k].desired
         \/ /\ FirstShot(c) /\ calls'[c].phase = "second"
            /\ calls'[c].readback = calls[c].readback
            /\ calls'[c].layers = contexts[k].layers
            /\ calls'[c].camera = contexts[k].camera
  <2>1. CASE ReadBack(c) /\ Consistent(Page(c))
    <3>1. calls' = [calls EXCEPT ![c].phase = "first", ![c].readback = Page(c).desired]
      BY <2>1 DEF ReadBack
    <3>2. calls'[c] = [calls[c] EXCEPT !.phase = "first", !.readback = contexts[k].desired]
      BY <3>1, StateType DEF Sound, Page
    <3> QED BY <2>1, <3>1, <3>2, StateType DEF Sound, Handlings
  <2>2. CASE FirstShot(c)
    <3>1. calls' = [calls EXCEPT ![c].phase = "second", ![c].layers = Page(c).layers,
                                 ![c].camera = Page(c).camera]
      BY <2>2 DEF FirstShot
    <3>2. calls'[c] = [calls[c] EXCEPT !.phase = "second", !.layers = contexts[k].layers,
                                       !.camera = contexts[k].camera]
      BY <3>1, StateType DEF Sound, Page
    <3>3. /\ calls'[c].phase = "second" /\ calls'[c].readback = calls[c].readback
          /\ calls'[c].context = k /\ calls'[c].layers = contexts[k].layers
          /\ calls'[c].camera = contexts[k].camera
      BY <3>2, StateType DEF Sound, Handlings
    <3>4. \A d \in Calls \ {c} : calls'[d] = calls[d]
      BY <3>1, StateType DEF Sound
    <3> QED BY <2>2, <3>3, <3>4
  <2> QED BY <2>1, <2>2
<1>3. CASE step.call # c
  BY <1>1, <1>2, <1>3, OthersDoNotDisturb DEF Waits
<1>4. CASE step.call = c
  <2>1. step.phase = "capturing" /\ step.answer = "none"
    BY <1>1, <1>4, WaitsFor DEF Waits
  <2> SUFFICES ASSUME ~step.disturbed PROVE Captured(c, step.view)'
    BY <1>1, <1>4, <2>1 DEF Undisturbed
  <2>2. Captured(c, step.view)
    BY <1>4, <2>1 DEF Undisturbed
  <2>3. Clean(k, step.view)
    BY <1>1, <2>2 DEF Captured
  <2>4. CASE ReadBack(c) /\ Consistent(Page(c)) /\ calls'[c].phase = "first"
    <3>1. contexts[k].desired = step.view
      BY <2>3, <2>4 DEF Clean, Consistent, Page
    <3> QED BY <1>1, <1>2, <2>3, <2>4, <3>1 DEF Captured, Clean
  <2>5. CASE FirstShot(c) /\ calls'[c].phase = "second"
    <3>1. calls[c].readback = step.view /\ contexts[k].desired = step.view
      BY <1>1, <2>2, <2>5 DEF Captured, FirstShot, Runs
    <3>2. calls'[c].readback = step.view
      BY <1>2, <2>5, <3>1
    <3>3. calls'[c].layers = step.view /\ calls'[c].camera = step.view
      <4>1. contexts[k].desired # None
        BY <2>1, <3>1, RendererAssumption DEF Sound, StepFits
      <4> QED BY <1>2, <2>3, <2>5, <3>1, <4>1 DEF Clean
    <3> QED BY <1>1, <1>2, <2>3, <2>5, <3>1, <3>2, <3>3 DEF Captured, Clean
  <2> QED BY <1>2, <2>4, <2>5
<1> QED BY <1>3, <1>4

\* A request that ends well has done what its step asked for.
LEMMA AnswersUndisturbed ==
  ASSUME Sound, Undisturbed, NEW c \in Calls,
         \/ FindSession(c) \/ NoSession(c) \/ EndApply(c) \/ FailWaiting(c)
         \/ ReadBack(c) \/ SecondShot(c) \/ FailLoading(c)
  PROVE  Undisturbed'
<1>1. ASSUME UNCHANGED <<session, contexts>>, Respond(c, "error", NoCapture)
      PROVE  Undisturbed'
  BY <1>1, AnswerUndisturbed, EmptyType
<1>2. CASE NoSession(c) \/ FailWaiting(c) \/ FailLoading(c)
  BY <1>1, <1>2 DEF NoSession, FailWaiting, FailLoading, service
<1>3. CASE FindSession(c)
  <2>1. /\ calls[c].op = "create" /\ Respond(c, "ok", NoCapture)
        /\ UNCHANGED <<session, contexts>>
    BY <1>3 DEF FindSession, Arrives, service
  <2>2. Waits(c) => step.phase = "creating"
    BY <2>1, WaitsFor DEF Waits
  <2> QED BY <2>1, <2>2, AnswerUndisturbed, EmptyType
<1>4. CASE EndApply(c)
  <2> DEFINE k == calls[c].context
  <2>1. /\ calls[c].op = "apply" /\ calls[c].phase = "settling" /\ k # None
        /\ Respond(c, IF Consistent(Page(c)) THEN "ok" ELSE "error", NoCapture)
        /\ UNCHANGED <<session, contexts>>
    BY <1>4 DEF EndApply, Runs, service
  <2>2. Waits(c) => step.phase = "applying"
    BY <2>1, WaitsFor DEF Waits
  <2>3. Waits(c) /\ ~step.disturbed /\ session # None => Clean(session, step.view)
    <3> SUFFICES ASSUME Waits(c), ~step.disturbed, session # None
                 PROVE  Clean(session, step.view)
      OBVIOUS
    <3>1. Written(c, step.view)
      BY <2>2 DEF Undisturbed, Waits
    <3> QED BY <2>1, <3>1 DEF Written, Clean
  <2> QED BY <1>1, <2>1, <2>2, <2>3, AnswerUndisturbed, EmptyType
<1>5. CASE ReadBack(c)
  BY <1>1, <1>5, LooksUndisturbed DEF ReadBack, service
<1>6. CASE SecondShot(c)
  <2> DEFINE shot == [readback |-> calls[c].readback, layers |-> Page(c).layers,
                      camera |-> Page(c).camera]
  <2>1. /\ calls[c].op = "capture" /\ calls[c].phase = "second"
        /\ calls[c].context # None /\ UNCHANGED <<session, contexts>>
        /\ IF calls[c].layers = shot.layers /\ calls[c].camera = shot.camera
           THEN Respond(c, "ok", shot) ELSE Respond(c, "error", NoCapture)
    BY <1>6 DEF SecondShot, Runs, service
  <2>2. shot \in Captures
    BY <2>1, PageType, StateType DEF Sound, Captures, Handlings
  <2>3. CASE calls[c].layers = shot.layers /\ calls[c].camera = shot.camera
    <3>1. Waits(c) => step.phase = "capturing"
      BY <2>1, WaitsFor DEF Waits
    <3>2. Waits(c) /\ ~step.disturbed =>
            {shot.readback, shot.layers, shot.camera} = {step.view}
      <4> SUFFICES ASSUME Waits(c), ~step.disturbed
                   PROVE  {shot.readback, shot.layers, shot.camera} = {step.view}
        OBVIOUS
      <4>1. Captured(c, step.view)
        BY <3>1 DEF Undisturbed, Waits
      <4>2. /\ calls[c].readback = step.view /\ calls[c].layers = step.view
            /\ calls[c].camera = step.view
        BY <2>1, <4>1 DEF Captured
      <4> QED BY <2>3, <4>2
    <3> QED BY <2>1, <2>2, <2>3, <3>1, <3>2, AnswerUndisturbed
  <2>4. CASE ~(calls[c].layers = shot.layers /\ calls[c].camera = shot.camera)
    BY <1>1, <2>1, <2>4
  <2> QED BY <2>3, <2>4
<1> QED BY <1>2, <1>3, <1>4, <1>5, <1>6

LEMMA UndisturbedStep == Sound /\ Undisturbed /\ [Next]_vars => Undisturbed'
<1> SUFFICES ASSUME Sound, Undisturbed, [Next]_vars PROVE Undisturbed'
  OBVIOUS
<1>1. ASSUME NEW c \in Calls, Handle(c) \/ FailLoading(c) PROVE Undisturbed'
  <2>1. CASE FirstShot(c)
    BY <2>1, LooksUndisturbed
  <2> QED BY <1>1, <2>1, SessionsUndisturbed, StartUndisturbed, WritesUndisturbed,
             AnswersUndisturbed DEF Handle
<1>2. CASE UNCHANGED vars
  BY <1>2 DEF vars, Undisturbed, Written, Captured, Clean
<1> QED BY <1>1, <1>2, AdapterUndisturbed, RestartUndisturbed DEF Next

\* An image is registered with the capture of its step, so one whose step was
\* not disturbed shows its view and says so.
THEOREM ImagesAreTrue == Spec => []ImagesShowTheirView
<1>1. Init => Undisturbed /\ ImagesShowTheirView
  BY EmptyType DEF Init, Undisturbed, ImagesShowTheirView
<1>2. Sound /\ Undisturbed /\ ImagesShowTheirView /\ [Next]_vars => ImagesShowTheirView'
  <2> SUFFICES ASSUME Sound, Undisturbed, ImagesShowTheirView, [Next]_vars
               PROVE  ImagesShowTheirView'
    OBVIOUS
  <2>1. CASE UNCHANGED image
    BY <2>1 DEF ImagesShowTheirView
  <2>2. CASE Register
    <3>1. /\ step.phase = "capturing" /\ step.answer = "ok"
          /\ image' = [view |-> step.view, capture |-> step.capture,
                       disturbed |-> step.disturbed]
      BY <2>2 DEF Register, Answered
    <3>2. ~step.disturbed =>
            {step.capture.readback, step.capture.layers, step.capture.camera} = {step.view}
      BY <3>1 DEF Undisturbed
    <3> QED BY <3>1, <3>2 DEF ImagesShowTheirView
  <2>3. Register \/ UNCHANGED image
    BY DEF Next, vars, episode, Render, ApplyState, Capture, FailStep, End, TruncateByTool,
           SendClose, Closed, GiveUp, NeverHeard, Restart, Handle
  <2> QED BY <2>1, <2>2, <2>3
<1> QED BY <1>1, <1>2, UndisturbedStep, RequestsFit, PTL DEF Spec

-------------------------------------------------------------------------------
(* What is left open is paid for. *)

LEMMA AddsOne ==
  ASSUME NEW T, IsFiniteSet(T), NEW x, NEW S \in SUBSET (T \cup {x})
  PROVE  Cardinality(S) <= Cardinality(T) + 1
<1>1. /\ IsFiniteSet(T \cup {x}) /\ Cardinality(T) \in Nat
      /\ Cardinality(T \cup {x}) = Cardinality(T) \/ Cardinality(T \cup {x}) = Cardinality(T) + 1
  BY FS_AddElement, FS_CardinalityType
<1>2. Cardinality(S) <= Cardinality(T \cup {x}) /\ Cardinality(S) \in Nat
  BY <1>1, FS_Subset, FS_CardinalityType
<1> QED BY <1>1, <1>2

LEMMA LosesOne ==
  ASSUME NEW T, IsFiniteSet(T), NEW x \in T, NEW S \in SUBSET (T \ {x})
  PROVE  Cardinality(S) <= Cardinality(T) - 1
<1>1. /\ IsFiniteSet(T \ {x}) /\ Cardinality(T) \in Nat
      /\ Cardinality(T \ {x}) = Cardinality(T) - 1
  BY FS_RemoveElement, FS_CardinalityType
<1> QED BY <1>1, FS_Subset

\* The parts of the account are numbers, before and after a step.
LEMMA AccountType ==
  /\ IsFiniteSet(Orphans) /\ Cardinality(Orphans) \in Nat
  /\ IsFiniteSet(LostCreates) /\ Cardinality(LostCreates) \in Nat
  /\ IsFiniteSet(Orphans') /\ Cardinality(Orphans') \in Nat
  /\ IsFiniteSet(LostCreates') /\ Cardinality(LostCreates') \in Nat
<1>1. /\ Orphans \in SUBSET Contexts /\ Orphans' \in SUBSET Contexts
      /\ LostCreates \in SUBSET Calls /\ LostCreates' \in SUBSET Calls
  BY DEF Orphans, LostCreates
<1> QED BY <1>1, RendererAssumption, FS_Subset, FS_CardinalityType

\* The four ways a step can turn out.
LEMMA Balance ==
  ASSUME Paid, lost \in Nat, lost' \in Nat,
         \/ /\ Orphans' \subseteq Orphans /\ LostCreates' \subseteq LostCreates
            /\ (Doubles' => Doubles) /\ (LeftOpen' => LeftOpen) /\ lost' >= lost
         \/ /\ \E x : \/ Orphans' \subseteq Orphans \cup {x} /\ LostCreates' \subseteq LostCreates
                      \/ Orphans' \subseteq Orphans /\ LostCreates' \subseteq LostCreates \cup {x}
            /\ (Doubles' => Doubles) /\ (LeftOpen' => LeftOpen) /\ lost' = lost + 1
         \/ /\ \E x : Orphans' \subseteq Orphans \cup {x}
            /\ LostCreates' \subseteq LostCreates
            /\ Doubles /\ ~Doubles' /\ (LeftOpen' => LeftOpen) /\ lost' = lost
         \/ /\ \E c \in LostCreates : LostCreates' \subseteq LostCreates \ {c}
            /\ \/ /\ \E x : Orphans' \subseteq Orphans \cup {x}
                  /\ (Doubles' => Doubles) /\ (LeftOpen' => LeftOpen)
               \/ Orphans' \subseteq Orphans /\ ~(Doubles' /\ LeftOpen')
            /\ lost' = lost
  PROVE  Paid'
<1> DEFINE o == Cardinality(Orphans)
           l == Cardinality(LostCreates)
           p == Cardinality(Orphans')
           m == Cardinality(LostCreates')
<1>1. o \in Nat /\ l \in Nat /\ p \in Nat /\ m \in Nat
  BY AccountType
<1>2. /\ Orphans' \subseteq Orphans => p <= o
      /\ LostCreates' \subseteq LostCreates => m <= l
  BY AccountType, FS_Subset
<1>3. /\ (\E x : Orphans' \subseteq Orphans \cup {x}) => p <= o + 1
      /\ (\E x : LostCreates' \subseteq LostCreates \cup {x}) => m <= l + 1
  BY AccountType, AddsOne
<1>4. (\E c \in LostCreates : LostCreates' \subseteq LostCreates \ {c}) => m <= l - 1
  BY AccountType, LosesOne
<1>5. o + l + One(Doubles) + One(LeftOpen) <= lost
  BY DEF Paid
<1>6. /\ One(Doubles) = (IF Doubles THEN 1 ELSE 0) /\ One(LeftOpen) = (IF LeftOpen THEN 1 ELSE 0)
      /\ One(Doubles)' = (IF Doubles' THEN 1 ELSE 0)
      /\ One(LeftOpen)' = (IF LeftOpen' THEN 1 ELSE 0)
  BY DEF One
<1> SUFFICES p + m + One(Doubles)' + One(LeftOpen)' <= lost'
  BY DEF Paid
<1> HIDE DEF o, l, p, m
<1>7. \/ p <= o /\ m <= l /\ (Doubles' => Doubles) /\ (LeftOpen' => LeftOpen) /\ lost' >= lost
      \/ /\ (p <= o + 1 /\ m <= l) \/ (p <= o /\ m <= l + 1)
         /\ (Doubles' => Doubles) /\ (LeftOpen' => LeftOpen) /\ lost' = lost + 1
      \/ /\ p <= o + 1 /\ m <= l /\ Doubles /\ ~Doubles'
         /\ (LeftOpen' => LeftOpen) /\ lost' = lost
      \/ /\ m <= l - 1 /\ lost' = lost
         /\ \/ p <= o + 1 /\ (Doubles' => Doubles) /\ (LeftOpen' => LeftOpen)
            \/ p <= o /\ ~(Doubles' /\ LeftOpen')
  BY <1>2, <1>3, <1>4
<1> QED BY <1>1, <1>5, <1>6, <1>7

\* What the account is made of, without the cardinalities.
LEMMA Entries ==
  ASSUME Sound
  PROVE  /\ lost \in Nat
         /\ \A c \in Calls : Waits(c) /\ calls[c].op = "create" => status = "active"
         /\ \A c \in Calls : calls[c].op = "none" => calls[c].context = None
         /\ \A c \in Calls : Waits(c) => step.phase \notin {"idle", "committed"}
<1>1. lost \in Nat
  BY RendererAssumption DEF Sound, TypeOK
<1>2. \A c \in Calls : Waits(c) => step.phase \notin {"idle", "committed"}
  BY EmptyType, RendererAssumption DEF Sound, StepFits, Waits
<1>3. \A c \in Calls : Waits(c) /\ calls[c].op = "create" => status = "active"
  BY <1>2, WaitsFor DEF Sound, StepFits, Waits
<1>4. \A c \in Calls : calls[c].op = "none" => calls[c].context = None
  BY DEF Sound, CallsFit, PhasesOf
<1> QED BY <1>1, <1>2, <1>3, <1>4

\* A step that sends a request waits for it, and waited for none before.
LEMMA SendPaid ==
  ASSUME Sound, Paid, NEW op \in {"create", "apply", "capture", "close"},
         NEW phase \in {"creating", "applying", "capturing", "closing"},
         NEW v \in Shown, NEW disturbed \in BOOLEAN, Send(op, phase, v, disturbed),
         step.phase \in {"idle", "committed"} \/ step.answer # "none",
         status' = "ended" => op = "close",
         UNCHANGED <<session, contexts, lost>>
  PROVE  Paid'
<1>1. PICK w \in Calls :
        /\ step'.call = w /\ step'.answer = "none" /\ calls[w].op = "none"
        /\ calls'[w].op = op /\ calls'[w].phase = "arrived" /\ calls'[w].context = None
        /\ \A d \in Calls \ {w} : calls'[d] = calls[d]
  BY SendType DEF Sound
<1>2. \A d \in Calls : ~Waits(d)
  BY Entries DEF Waits
<1>3. Orphans' \subseteq Orphans
  BY <1>1, Entries, RendererAssumption DEF Orphans
<1>4. LostCreates' \subseteq LostCreates
  BY <1>1, <1>2 DEF LostCreates, Waits
<1>5. ~Doubles'
  BY <1>1 DEF Doubles, Waits
<1>6. ~LeftOpen'
  BY <1>1 DEF LeftOpen, Arrives
<1> QED BY <1>3, <1>4, <1>5, <1>6, Entries, Balance

\* A step that ends leaves its create to itself, if it has one.
LEMMA EndPaid ==
  ASSUME Sound, Paid, step'.call = None, UNCHANGED <<session, contexts, calls>>,
         LeftOpen' => LeftOpen,
         \/ lost' = lost /\ \A c \in Calls : Waits(c) => calls[c].op # "create"
         \/ lost' = lost + 1
  PROVE  Paid'
<1>1. Orphans' = Orphans
  BY DEF Orphans
<1>2. ~Doubles' /\ \A c \in Calls : ~Waits(c)'
  BY EmptyType, RendererAssumption DEF Doubles, Waits
<1>4. lost' \in Nat /\ lost \in Nat
  BY Entries
<1>5. CASE lost' = lost /\ \A c \in Calls : Waits(c) => calls[c].op # "create"
  <2>1. LostCreates' \subseteq LostCreates
    BY <1>5 DEF LostCreates
  <2> QED BY <1>1, <1>2, <1>4, <1>5, <2>1, Balance
<1>6. CASE lost' = lost + 1
  <2>1. LostCreates' \subseteq LostCreates \cup {step.call}
    BY DEF LostCreates, Waits
  <2> QED BY <1>1, <1>2, <1>4, <1>6, <2>1, Balance
<1> QED BY <1>5, <1>6

\* A request that is no more owes nothing, and a close that is no more went
\* unheard.
LEMMA NeverHeardPaid ==
  ASSUME Sound, Paid, NeverHeard
  PROVE  Paid'
<1>1. /\ step' = NoStep /\ UNCHANGED <<status, session, contexts, lost>>
      /\ unclosed' = (unclosed \/ step.phase \in {"committed", "closing"})
      /\ step.answer = "none"
  BY DEF NeverHeard, service
<1>2. /\ \/ UNCHANGED calls /\ step.call = None
         \/ /\ step.call \in Calls /\ calls'[step.call] = NoCall
            /\ calls[step.call].context = None
      /\ \A d \in Calls : d # step.call => calls'[d] = calls[d]
  <2>1. CASE step.phase = "committed" /\ UNCHANGED calls
    BY <2>1 DEF Sound, StepFits
  <2>2. CASE /\ step.call # None /\ calls[step.call].phase = "arrived"
             /\ calls' = [calls EXCEPT ![step.call] = NoCall]
    <3>1. step.call \in Calls /\ calls[step.call].context = None
      BY <2>2 DEF Sound, TypeOK, Steps, CallsFit
    <3> QED BY <2>2, <3>1, EmptyType DEF Sound, TypeOK
  <2> QED BY <2>1, <2>2 DEF NeverHeard
<1>3. Orphans' \subseteq Orphans
  BY <1>1, <1>2, EmptyType, RendererAssumption DEF Orphans
<1>4. ~Doubles' /\ LostCreates' \subseteq LostCreates
  BY <1>1, <1>2, EmptyType, RendererAssumption DEF Doubles, LostCreates, Waits
<1>5. LeftOpen' => LeftOpen
  <2> SUFFICES ASSUME LeftOpen' PROVE LeftOpen
    OBVIOUS
  <2>1. status = "ended" /\ step.phase \notin {"committed", "closing"}
    BY <1>1 DEF LeftOpen
  <2>2. step.phase = "idle"
    BY <2>1 DEF Sound, StepFits, TypeOK, Steps
  <2>3. UNCHANGED calls
    BY <1>2, <2>2, EmptyType, RendererAssumption DEF Sound, StepFits
  <2> QED BY <1>1, <2>2, <2>3 DEF LeftOpen, Arrives
<1> QED BY <1>1, <1>3, <1>4, <1>5, Entries, Balance

\* Every step of the adapter is one of the three.
LEMMA AdapterPaid ==
  ASSUME Sound, Paid,
         \/ \E v \in Views : Render(v)
         \/ ApplyState \/ Capture \/ Register \/ FailStep \/ End \/ TruncateByTool
         \/ SendClose \/ Closed \/ GiveUp \/ NeverHeard
  PROVE  Paid'
<1> USE DEF episode, service
<1>0. NoStep.call = None /\ [NoStep EXCEPT !.phase = "committed"].call = None
      /\ [NoStep EXCEPT !.phase = "committed"].phase = "committed"
  BY EmptyType DEF Steps
<1>1. step.view \in Shown /\ step.disturbed \in BOOLEAN /\ None \in Shown
  BY DEF Sound, TypeOK, Steps, Shown
<1>2. ASSUME step.phase = "idle" \/ step.answer # "none"
      PROVE  \A c \in Calls : Waits(c) => calls[c].op # "create"
  BY <1>2, Entries DEF Waits
<1>3. ASSUME NEW next \in {"active", "ended"}, Finish(next),
             step.phase = "idle" \/ step.answer # "none",
             UNCHANGED <<session, contexts, lost>>
      PROVE  Paid'
  <2>1. step'.call = None /\ UNCHANGED calls /\ ~LeftOpen'
    BY <1>0, <1>3 DEF Finish, LeftOpen
  <2> QED BY <1>2, <1>3, <2>1, EndPaid
<1>4. ASSUME NEW v \in Views, Render(v) PROVE Paid'
  <2>1. v \in Shown
    BY DEF Shown
  <2> QED BY <1>1, <1>4, <2>1, SendPaid DEF Render
<1>5. CASE ApplyState
  <2>1. status = "active"
    BY <1>5 DEF ApplyState, Answered, Sound, StepFits
  <2> QED BY <1>1, <1>5, <2>1, SendPaid DEF ApplyState, Answered
<1>6. CASE Capture
  <2>1. status = "active"
    BY <1>6 DEF Capture, Answered, Sound, StepFits
  <2> QED BY <1>1, <1>6, <2>1, SendPaid DEF Capture, Answered
<1>7. CASE Register
  BY <1>3, <1>7 DEF Register, Answered
<1>8. CASE End
  BY <1>3, <1>8 DEF End
<1>9. CASE FailStep \/ Closed
  <2>1. step.phase # "committed" /\ (step.phase = "idle" \/ step.answer # "none")
    BY <1>9 DEF FailStep, Closed, Answered, Sound, StepFits
  <2>2. LeftOpen' => LeftOpen
    BY <1>9, <2>1 DEF FailStep, Closed, LeftOpen, Arrives
  <2> QED BY <1>0, <1>2, <1>9, <2>1, <2>2, EndPaid DEF FailStep, Closed
<1>10. CASE TruncateByTool
  <2>1. step'.call = None /\ ~LeftOpen'
    BY <1>0, <1>10 DEF TruncateByTool, LeftOpen, Sound, StepFits
  <2> QED BY <1>2, <1>10, <2>1, EndPaid DEF TruncateByTool
<1>11. CASE GiveUp
  <2>1. step.phase # "creating" => \A c \in Calls : Waits(c) => calls[c].op # "create"
    BY WaitsFor DEF Waits
  <2>2. step.phase # "committed"
    BY <1>11 DEF GiveUp, Sound, StepFits
  <2>3. LeftOpen' => LeftOpen
    BY <1>11, <2>2 DEF GiveUp, LeftOpen, Arrives
  <2> QED BY <1>0, <1>11, <2>1, <2>3, EndPaid DEF GiveUp
<1>12. CASE SendClose
  BY <1>1, <1>12, SendPaid DEF SendClose
<1> QED BY <1>4, <1>5, <1>6, <1>7, <1>8, <1>9, <1>10, <1>11, <1>12, NeverHeardPaid

\* A restart closes all there is.
LEMMA RestartPaid ==
  ASSUME Sound, Paid, Restart
  PROVE  Paid'
<1>1. /\ session' = None /\ contexts' = [k \in Contexts |-> None]
      /\ calls' = [c \in Calls |-> NoCall] /\ lost' = lost
  BY DEF Restart
<1>2. Orphans' = {} /\ LostCreates' = {} /\ ~Doubles' /\ ~LeftOpen'
  BY <1>1, EmptyType DEF Orphans, LostCreates, Doubles, LeftOpen
<1> QED BY <1>1, <1>2, Entries, Balance

\* A handler that is not about to open, keep or close a context.
LEMMA WorkPaid ==
  ASSUME Sound, Paid, NEW c \in Calls, UNCHANGED <<session, status, unclosed, lost>>,
         step'.phase = step.phase,
         \A k \in Contexts : contexts'[k] # None => contexts[k] # None,
         \A d \in Calls : /\ calls'[d].op = calls[d].op /\ Waits(d)' = Waits(d)
                          /\ calls[d].op \in {"create", "close"} => calls'[d] = calls[d]
  PROVE  Paid'
<1>1. Orphans' \subseteq Orphans
  BY DEF Orphans
<1>2. LostCreates' \subseteq LostCreates
  BY DEF LostCreates
<1>3. Doubles' => Doubles
  BY DEF Doubles
<1>4. LeftOpen' => LeftOpen
  BY DEF LeftOpen, Arrives
<1> QED BY <1>1, <1>2, <1>3, <1>4, Entries, Balance

\* What an answer does to the entries.
LEMMA AnswerEntries ==
  ASSUME Sound, NEW c \in Calls, NEW answer \in {"ok", "error"},
         NEW capture \in Captures, Respond(c, answer, capture),
         UNCHANGED <<status, unclosed>>
  PROVE  /\ LostCreates' \subseteq LostCreates \ {c}
         /\ UNCHANGED session => (Doubles' => Doubles)
         /\ Waits(c) => ~Doubles'
         /\ session' # None /\ session # None /\ ~Arrives(c, "close") =>
              (Doubles' => Doubles) /\ (LeftOpen' => LeftOpen)
         /\ Doubles' => status = "active"
         /\ \A d \in Calls \ {c} : calls'[d] = calls[d]
         /\ calls'[c].op = "none" /\ calls'[c].context = None
<1>1. /\ calls'[c].op = "none" /\ calls'[c].context = None
      /\ \A d \in Calls \ {c} : calls'[d] = calls[d]
      /\ step'.call = step.call /\ step'.phase = step.phase
      /\ IF Waits(c) THEN step'.answer = answer ELSE step' = step
  BY RespondType, EmptyType DEF Sound
<1>2. \A d \in Calls \ {c} : Waits(d)' <=> Waits(d)
  BY <1>1 DEF Waits
<1>3. LostCreates' \subseteq LostCreates \ {c}
  BY <1>1, <1>2 DEF LostCreates
<1>4. /\ session' = session \/ session # None => (Doubles' => Doubles)
      /\ Doubles' => status = "active"
  BY <1>1, <1>2, Entries DEF Doubles
<1>5. Waits(c) => ~Doubles'
  BY <1>1 DEF Doubles, Waits
<1>6. session' # None /\ session # None /\ ~Arrives(c, "close") => (LeftOpen' => LeftOpen)
  BY <1>1 DEF LeftOpen, Arrives
<1> QED BY <1>1, <1>3, <1>4, <1>5, <1>6

\* An answer costs nothing, unless a context is left.
LEMMA AnswerPaid ==
  ASSUME Sound, Paid, NEW c \in Calls, NEW answer \in {"ok", "error"},
         NEW capture \in Captures, Respond(c, answer, capture),
         UNCHANGED <<session, contexts, status, unclosed>>,
         session = None \/ ~Arrives(c, "close"),
         \/ lost' = lost /\ (calls[c].op \in {"create", "close"} => calls[c].context = None)
         \/ lost' = lost + 1
  PROVE  Paid'
<1>1. /\ LostCreates' \subseteq LostCreates /\ (Doubles' => Doubles)
      /\ \A d \in Calls \ {c} : calls'[d] = calls[d]
      /\ calls'[c].op = "none" /\ calls'[c].context = None
  BY AnswerEntries
<1>2. LeftOpen' => LeftOpen
  <2>1. CASE session = None
    BY <2>1 DEF LeftOpen
  <2>2. CASE session # None
    BY <2>2, AnswerEntries
  <2> QED BY <2>1, <2>2
<1>3. lost \in Nat /\ lost' \in Nat
  BY Entries
<1>4. CASE lost' = lost /\ (calls[c].op \in {"create", "close"} => calls[c].context = None)
  <2>1. Orphans' \subseteq Orphans
    BY <1>1, <1>4, RendererAssumption DEF Orphans
  <2> QED BY <1>1, <1>2, <1>3, <1>4, <2>1, Balance
<1>5. CASE lost' = lost + 1
  <2>1. Orphans' \subseteq Orphans \cup {calls[c].context}
    BY <1>1 DEF Orphans
  <2> QED BY <1>1, <1>2, <1>3, <1>5, <2>1, Balance
<1> QED BY <1>4, <1>5

\* A create keeps its context: the session it replaces has been paid for by
\* whoever was lost, or has been taken into account by the one who waits.
LEMMA KeepSessionPaid ==
  ASSUME Sound, Paid, NEW c \in Calls, KeepSession(c), UNCHANGED <<status, unclosed>>
  PROVE  Paid'
<1>1. /\ calls[c].op = "create" /\ calls[c].phase = "loading"
      /\ session' = calls[c].context /\ session' # None
      /\ Respond(c, "ok", NoCapture) /\ UNCHANGED <<contexts, lost>>
      /\ ~Arrives(c, "close")
  BY DEF KeepSession, Runs, Arrives
<1>2. /\ LostCreates' \subseteq LostCreates \ {c}
      /\ Waits(c) => ~Doubles'
      /\ session # None => (Doubles' => Doubles) /\ (LeftOpen' => LeftOpen)
      /\ Doubles' => status = "active"
      /\ \A d \in Calls \ {c} : calls'[d] = calls[d]
  BY <1>1, AnswerEntries, EmptyType
<1>3. Orphans' \subseteq Orphans \cup {session}
  BY <1>1, <1>2 DEF Orphans
<1>4. session = None => Orphans' \subseteq Orphans
  BY <1>3, RendererAssumption DEF Orphans
<1>5. lost \in Nat /\ lost' = lost
  BY <1>1, Entries
<1>6. CASE Waits(c)
  <2>1. ~LeftOpen'
    BY <1>1, <1>6, Entries DEF LeftOpen
  <2>2. CASE session = None
    BY <1>2, <1>4, <1>5, <1>6, <2>1, <2>2, Balance
  <2>3. CASE session # None
    <3>1. Doubles
      BY <1>1, <1>6, <2>3 DEF Doubles
    <3>2. LostCreates' \subseteq LostCreates
      BY <1>2
    <3> QED BY <1>2, <1>3, <1>5, <1>6, <2>1, <3>1, <3>2, Balance
  <2> QED BY <2>2, <2>3
<1>7. CASE ~Waits(c)
  <2>1. c \in LostCreates
    BY <1>1, <1>7 DEF LostCreates
  <2>2. CASE session = None
    <3>1. ~(Doubles' /\ LeftOpen')
      BY <1>2 DEF LeftOpen
    <3> QED BY <1>2, <1>4, <1>5, <2>1, <2>2, <3>1, Balance
  <2>3. CASE session # None
    BY <1>2, <1>3, <1>5, <2>1, <2>3, Balance
  <2> QED BY <2>2, <2>3
<1> QED BY <1>6, <1>7

\* A create that opens a context knows of it, and so does the close of one.
LEMMA ContextsPaid ==
  ASSUME Sound, Paid, NEW c \in Calls, UNCHANGED <<status, unclosed>>,
         OpenContext(c) \/ CloseSession(c) \/ CloseContext(c)
  PROVE  Paid'
<1>1. lost \in Nat /\ lost' = lost
  BY Entries DEF OpenContext, CloseSession, CloseContext
<1>2. CASE OpenContext(c)
  <2>1. PICK k \in Contexts :
          /\ calls[c].op = "create" /\ calls[c].phase = "arrived" /\ session' = None
          /\ contexts' = [contexts EXCEPT ![k] = Blank] /\ Await(c, "loading", k)
    BY <1>2 DEF OpenContext, Arrives
  <2>2. /\ step' = step /\ calls'[c].op = "create" /\ calls'[c].context = k
        /\ \A d \in Calls \ {c} : calls'[d] = calls[d]
    BY <2>1, AwaitType DEF Sound
  <2>3. \A j \in Contexts \ {k} : contexts'[j] = contexts[j]
    BY <2>1 DEF Sound, TypeOK
  <2>4. session = None /\ calls[c].context = None
    BY <1>2, <2>1 DEF OpenContext, Sound, CallsFit
  <2>5. Orphans' \subseteq Orphans
    BY <2>1, <2>2, <2>3, <2>4, RendererAssumption DEF Orphans
  <2>6. LostCreates' \subseteq LostCreates /\ ~Doubles' /\ ~LeftOpen'
    BY <2>1, <2>2 DEF LostCreates, Doubles, LeftOpen, Waits
  <2> QED BY <1>1, <2>5, <2>6, Balance
<1>3. CASE CloseSession(c)
  <2>1. /\ calls[c].op = "close" /\ session # None /\ Await(c, "closing", session)
        /\ session' = None /\ UNCHANGED contexts
        /\ calls[c].context = None /\ session \in Contexts
    BY <1>3 DEF CloseSession, Arrives, Sound, CallsFit, TypeOK
  <2>2. /\ step' = step /\ calls'[c].op = "close" /\ calls'[c].context = session
        /\ \A d \in Calls \ {c} : calls'[d] = calls[d]
    BY <2>1, AwaitType DEF Sound
  <2>3. Orphans' \subseteq Orphans
    BY <2>1, <2>2, RendererAssumption DEF Orphans
  <2>4. LostCreates' \subseteq LostCreates /\ ~Doubles' /\ ~LeftOpen'
    BY <2>1, <2>2 DEF LostCreates, Doubles, LeftOpen, Waits
  <2> QED BY <1>1, <2>3, <2>4, Balance
<1>4. CASE CloseContext(c)
  <2> DEFINE k == calls[c].context
  <2>1. /\ calls[c].op = "close" /\ calls[c].phase = "closing" /\ k \in Contexts
        /\ contexts' = [contexts EXCEPT ![k] = None]
        /\ calls' = [d \in Calls |->
             IF d = c THEN NoCall
             ELSE IF calls[d].context = k THEN [calls[d] EXCEPT !.context = None]
             ELSE calls[d]]
        /\ step' = IF step.call = c THEN [step EXCEPT !.answer = "ok"] ELSE step
        /\ UNCHANGED session
    BY <1>4, StateType DEF CloseContext, Runs, Sound
  <2>2. /\ calls'[c].op = "none"
        /\ \A d \in Calls \ {c} :
             /\ calls'[d].op = calls[d].op /\ calls'[d].phase = calls[d].phase
             /\ calls'[d].context = IF calls[d].context = k THEN None ELSE calls[d].context
    BY <2>1, StateType, EmptyType DEF Sound, Handlings
  <2>3. \A d \in Calls \ {c} : Waits(d)' <=> Waits(d)
    BY <2>1 DEF Waits, Sound, TypeOK, Steps
  <2>4. contexts'[k] = None /\ \A j \in Contexts \ {k} : contexts'[j] = contexts[j]
    BY <2>1 DEF Sound, TypeOK
  <2>5. Orphans' \subseteq Orphans
    <3> SUFFICES ASSUME NEW j \in Orphans' PROVE j \in Orphans
      OBVIOUS
    <3>1. j \in Contexts /\ j # k /\ contexts[j] # None /\ j # session
      BY <2>1, <2>4 DEF Orphans
    <3>2. ASSUME NEW d \in Calls, calls[d].context = j
          PROVE  calls[d].op \notin {"create", "close"}
      <4>1. d # c /\ calls'[d].context = j /\ calls'[d].op = calls[d].op
        BY <2>2, <3>1, <3>2
      <4> QED BY <4>1 DEF Orphans
    <3> QED BY <3>1, <3>2 DEF Orphans
  <2>6. LostCreates' \subseteq LostCreates
    BY <2>2, <2>3 DEF LostCreates
  <2>7. Doubles' => Doubles
    BY <2>1, <2>2, <2>3 DEF Doubles
  <2>8. LeftOpen' => LeftOpen
    <3>1. step'.phase = step.phase
      BY <2>1 DEF Sound, TypeOK, Steps
    <3> QED BY <2>1, <2>2, <3>1 DEF LeftOpen, Arrives
  <2> QED BY <1>1, <2>5, <2>6, <2>7, <2>8, Balance
<1> QED BY <1>2, <1>3, <1>4

LEMMA ServicePaid ==
  ASSUME Sound, Paid, NEW c \in Calls, UNCHANGED <<status, unclosed>>,
         Handle(c) \/ FailLoading(c)
  PROVE  Paid'
<1> USE DEF service
<1>1. CASE FindSession(c) \/ NoSession(c) \/ EndApply(c) \/ FailWaiting(c)
  <2>1. /\ calls[c].op \in {"create", "close"} => calls[c].context = None
        /\ session = None \/ ~Arrives(c, "close")
        /\ UNCHANGED <<session, contexts, lost>>
    BY <1>1 DEF FindSession, NoSession, EndApply, FailWaiting, Arrives, Runs, Sound, CallsFit
  <2> QED BY <1>1, <2>1, AnswerPaid, EmptyType DEF FindSession, NoSession, EndApply, FailWaiting
<1>2. CASE SecondShot(c)
  <2>1. [readback |-> calls[c].readback, layers |-> Page(c).layers,
         camera |-> Page(c).camera] \in Captures
    BY <1>2, PageType, StateType DEF SecondShot, Runs, Sound, Captures, Handlings
  <2>2. calls[c].op = "capture" /\ ~Arrives(c, "close") /\ UNCHANGED <<session, contexts, lost>>
    BY <1>2 DEF SecondShot, Runs, Arrives
  <2> QED BY <1>2, <2>1, <2>2, AnswerPaid, EmptyType DEF SecondShot
<1>3. CASE FailLoading(c)
  BY <1>3, AnswerPaid, EmptyType DEF FailLoading, Runs, Arrives
<1>4. CASE ReadBack(c)
  <2>1. calls[c].op = "capture" /\ ~Arrives(c, "close") /\ UNCHANGED <<session, contexts, lost>>
    BY <1>4 DEF ReadBack, Runs, Arrives
  <2>2. CASE Consistent(Page(c))
    <3>1. /\ calls' = [calls EXCEPT ![c].phase = "first", ![c].readback = Page(c).desired]
          /\ step' = step
      BY <1>4, <2>2 DEF ReadBack
    <3>2. \A d \in Calls : calls'[d].op = calls[d].op /\ (d # c => calls'[d] = calls[d])
      <4>1. calls'[c] = [calls[c] EXCEPT !.phase = "first", !.readback = Page(c).desired]
        BY <3>1, StateType DEF Sound
      <4>2. calls'[c].op = calls[c].op
        BY <4>1, StateType DEF Sound, Handlings
      <4> QED BY <3>1, <4>2, StateType DEF Sound
    <3> QED BY <2>1, <3>1, <3>2, WorkPaid DEF Waits
  <2>3. CASE ~Consistent(Page(c))
    BY <1>4, <2>1, <2>3, AnswerPaid, EmptyType DEF ReadBack
  <2> QED BY <2>2, <2>3
<1>5. CASE FirstShot(c)
  <2>1. /\ calls[c].op = "capture" /\ UNCHANGED <<session, contexts, lost, step>>
        /\ calls' = [calls EXCEPT ![c].phase = "second", ![c].layers = Page(c).layers,
                                  ![c].camera = Page(c).camera]
    BY <1>5 DEF FirstShot, Runs
  <2>2. \A d \in Calls : calls'[d].op = calls[d].op /\ (d # c => calls'[d] = calls[d])
    <3>1. calls'[c] = [calls[c] EXCEPT !.phase = "second", !.layers = Page(c).layers,
                                       !.camera = Page(c).camera]
      BY <2>1, StateType DEF Sound
    <3>2. calls'[c].op = calls[c].op
      BY <3>1, StateType DEF Sound, Handlings
    <3> QED BY <2>1, <3>2, StateType DEF Sound
  <2> QED BY <2>1, <2>2, WorkPaid DEF Waits
<1>6. CASE StartApply(c) \/ StartCapture(c)
  <2>1. PICK phase \in {"waiting", "settling"} :
          /\ calls[c].op \in {"apply", "capture"} /\ session # None
          /\ Await(c, phase, session) /\ UNCHANGED <<session, contexts, lost>>
    BY <1>6 DEF StartApply, StartCapture, Arrives
  <2>2. session \in Contexts
    BY <2>1 DEF Sound, TypeOK
  <2>3. /\ step' = step /\ calls'[c].op = calls[c].op
        /\ \A d \in Calls \ {c} : calls'[d] = calls[d]
    BY <2>1, <2>2, AwaitType DEF Sound
  <2> QED BY <2>1, <2>3, WorkPaid DEF Waits
<1>7. CASE WriteState(c) \/ Zoom(c)
  <2>1. PICK phase, page :
          /\ calls[c].op = "apply" /\ calls[c].context # None
          /\ contexts' = [contexts EXCEPT ![calls[c].context] = page]
          /\ UNCHANGED <<session, lost>>
          /\ calls' = [calls EXCEPT ![c].phase = phase] /\ Disturb(c)
    BY <1>7 DEF WriteState, Zoom, Runs, Write
  <2>2. \A k \in Contexts : contexts'[k] # None => contexts[k] # None
    BY <2>1, StateType DEF Sound, CallsFit
  <2>3. \A d \in Calls : calls'[d].op = calls[d].op /\ (d # c => calls'[d] = calls[d])
    BY <2>1, StateType DEF Sound, Handlings
  <2>4. step'.phase = step.phase /\ \A d \in Calls : Waits(d)' = Waits(d)
    <3>1. /\ step'.call = step.call /\ step'.answer = step.answer
          /\ step'.phase = step.phase
      BY <2>1 DEF Disturb, Sound, TypeOK, Steps
    <3> QED BY <3>1 DEF Waits
  <2> QED BY <2>1, <2>2, <2>3, <2>4, WorkPaid
<1> QED BY <1>1, <1>2, <1>3, <1>4, <1>5, <1>6, <1>7, KeepSessionPaid, ContextsPaid DEF Handle

LEMMA PaidStep == Sound /\ Paid /\ [Next]_vars => Paid'
<1> SUFFICES ASSUME Sound, Paid, [Next]_vars PROVE Paid'
  OBVIOUS
<1>1. CASE UNCHANGED vars
  <2>1. Orphans' = Orphans /\ LostCreates' = LostCreates
    BY <1>1 DEF vars, Orphans, LostCreates, Waits
  <2>2. (Doubles' => Doubles) /\ (LeftOpen' => LeftOpen) /\ lost' = lost
    BY <1>1 DEF vars, Doubles, LeftOpen, Waits, Arrives
  <2> QED BY <2>1, <2>2, Entries, Balance
<1>2. ASSUME NEW c \in Calls, Handle(c) \/ (FailLoading(c) /\ UNCHANGED <<episode, restarts>>)
      PROVE  Paid'
  <2>1. UNCHANGED <<status, unclosed>>
    BY <1>2 DEF Handle, episode
  <2> QED BY <1>2, <2>1, ServicePaid
<1> QED BY <1>1, <1>2, AdapterPaid, RestartPaid DEF Next

\* Initially nothing is open and nothing is owed.
LEMMA InitPaid == ASSUME Init PROVE Paid
<1>1. Orphans = {} /\ LostCreates = {} /\ ~Doubles /\ ~LeftOpen /\ lost = 0
  BY EmptyType, RendererAssumption DEF Init, Orphans, LostCreates, Doubles, LeftOpen
<1> QED BY <1>1, FS_EmptySet DEF Paid, One

\* A context that nobody will close has been left by a create that was given up
\* or failed, and so has one that is still open after the end of the episode,
\* but for the session of an episode whose close the service never heard of.
THEOREM ContextsArePaid == Spec => []ContextsAccounted
<1>1. Init => Sound /\ Paid
  BY InitSound, InitPaid
<1>2. Sound /\ Paid => ContextsAccounted
  <2> SUFFICES ASSUME Sound, Paid PROVE ContextsAccounted
    OBVIOUS
  <2> DEFINE o == Cardinality(Orphans)
             l == Cardinality(LostCreates)
  <2>1. o \in Nat /\ l \in Nat /\ lost \in Nat
    BY AccountType, Entries
  <2>2. o + l + One(Doubles) + One(LeftOpen) <= lost
    BY DEF Paid
  <2>3. OrphansAreLostCreates
    <3>1. One(Doubles) \in Nat /\ One(LeftOpen) \in Nat
      BY DEF One
    <3> HIDE DEF o, l
    <3>2. o <= lost
      BY <2>1, <2>2, <3>1
    <3> QED BY <3>2 DEF o, OrphansAreLostCreates
  <2>4. EndedEpisodesKeepNothing
    <3> DEFINE open == {k \in Contexts : contexts[k] # None /\ ~(unclosed /\ k = session)}
    <3> SUFFICES ASSUME status = "ended", step.phase = "idle",
                        \A c \in Calls : calls[c].op = "none"
                 PROVE  Cardinality(open) <= lost
      BY DEF EndedEpisodesKeepNothing
    <3>1. /\ open \subseteq Orphans \cup {session}
          /\ session = None \/ unclosed => open \subseteq Orphans
      BY RendererAssumption DEF Orphans
    <3>2. CASE session = None \/ unclosed
      BY <2>1, <2>3, <3>1, <3>2, AccountType, FS_Subset, FS_CardinalityType
         DEF OrphansAreLostCreates
    <3>3. CASE session # None /\ ~unclosed
      <4>1. LeftOpen
        BY <3>3 DEF LeftOpen, Arrives
      <4>2. Cardinality(open) <= o + 1 /\ Cardinality(open) \in Nat
        <5>1. open \in SUBSET (Orphans \cup {session})
          BY <3>1
        <5>2. open \in SUBSET Contexts
          OBVIOUS
        <5> QED BY <5>1, <5>2, AddsOne, AccountType, FS_Subset, FS_CardinalityType,
                   RendererAssumption
      <4>3. One(LeftOpen) = 1 /\ One(Doubles) \in Nat
        BY <4>1 DEF One
      <4> HIDE DEF o, l, open
      <4> QED BY <2>1, <2>2, <4>2, <4>3
    <3> QED BY <3>2, <3>3
  <2> QED BY <2>3, <2>4 DEF ContextsAccounted
<1> QED BY <1>1, <1>2, PaidStep, RequestsFit, PTL DEF Spec
===============================================================================
