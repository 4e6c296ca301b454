------------------------------ MODULE EpisodesV1 ------------------------------
(***************************************************************************)
(* The first API (store.py, domain.py): one episode of map actions with a  *)
(* step budget, retries by client action id, and its trace. Coordinates    *)
(* are integers on a small world; a call is one transaction, a trace is    *)
(* read in two.                                                            *)
(***************************************************************************)
EXTENDS Integers, Sequences, SequencesExt, FiniteSetsExt

CONSTANT None

Longitudes == <<-16, 16>>
Latitudes == <<-8, 8>>

(***************************************************************************)
(* The view.                                                               *)
(***************************************************************************)
BoxValid(box) ==
  /\ Longitudes[1] =< box.west /\ box.west < box.east /\ box.east =< Longitudes[2]
  /\ Latitudes[1] =< box.south /\ box.south < box.north /\ box.north =< Latitudes[2]

\* A range around a centre, moved back inside when it sticks out.
BoundedRange(centre, span, range) ==
  LET width == Min({Max({span, 1}), range[2] - range[1]})
      start == centre - width \div 2
      low == Max({start, range[1]})
      high == Min({low + width, range[2]})
  IN <<high - width, high>>

BoxFromCentre(longitude, latitude, width, height) ==
  LET across == BoundedRange(longitude, width, Longitudes)
      up == BoundedRange(latitude, height, Latitudes)
  IN [west |-> across[1], east |-> across[2], south |-> up[1], north |-> up[2]]

View(box) ==
  [box |-> box, longitude |-> (box.west + box.east) \div 2,
   latitude |-> (box.south + box.north) \div 2]

Width(box) == box.east - box.west
Height(box) == box.north - box.south

Panned(view, action) ==
  BoxFromCentre(view.longitude + action.east, view.latitude + action.north,
                Width(view.box), Height(view.box))

Zoomed(view, action) ==
  LET scaled(span) == IF action.direction = "in" THEN span \div action.factor
                      ELSE span * action.factor
  IN BoxFromCentre(view.longitude, view.latitude, scaled(Width(view.box)),
                   scaled(Height(view.box)))

(***************************************************************************)
(* apply_action.                                                           *)
(***************************************************************************)
InitialState(specification) ==
  [status |-> "active", steps |-> 0, max_steps |-> specification.max_steps,
   view |-> View(specification.view),
   layers |-> [worldcover |-> [visible |-> TRUE, opacity |-> 1]], answer |-> None]

\* create_initial_state refuses a specification without an episode.
SpecificationValid(specification) ==
  specification.max_steps \in 1..1000 /\ BoxValid(specification.view)

ActionError(state, action) ==
  IF state.status # "active" THEN "episode_closed"
  ELSE IF action.type = "set_view" THEN (IF BoxValid(action.box) THEN None ELSE "invalid_bbox")
  ELSE IF action.type = "pan" THEN
         IF action.east = 0 /\ action.north = 0 THEN "invalid_pan" ELSE None
  ELSE IF action.type = "zoom" THEN (IF action.factor \in 2..8 THEN None ELSE "invalid_zoom")
  ELSE IF action.type \in {"set_layer_visibility", "set_layer_opacity"} THEN
         IF action.layer \notin DOMAIN state.layers THEN "unknown_layer"
         ELSE IF action.type = "set_layer_opacity" /\ action.opacity \notin 0..1
           THEN "invalid_opacity"
         ELSE None
  ELSE IF action.type = "submit_answer" THEN IF action.answer = None THEN "invalid_answer" ELSE None
  ELSE "unsupported_action"

Changed(state, action) ==
  CASE action.type = "set_view" -> [state EXCEPT !.view = View(action.box)]
    [] action.type = "pan" -> [state EXCEPT !.view = View(Panned(@, action))]
    [] action.type = "zoom" -> [state EXCEPT !.view = View(Zoomed(@, action))]
    [] action.type = "set_layer_visibility" ->
         [state EXCEPT !.layers[action.layer].visible = action.visible]
    [] action.type = "set_layer_opacity" ->
         [state EXCEPT !.layers[action.layer].opacity = action.opacity]
    [] action.type = "submit_answer" ->
         [state EXCEPT !.answer = action.answer, !.status = "terminated"]

Applied(state, action) ==
  LET steps == state.steps + 1
  IN [Changed(state, action) EXCEPT !.steps = steps,
        !.status = IF @ = "active" /\ steps >= state.max_steps THEN "truncated" ELSE @]

(***************************************************************************)
(* The store: the episode's row, its transitions, and the initial state.   *)
(***************************************************************************)
Reset(specification) ==
  [initial |-> InitialState(specification), state |-> InitialState(specification),
   transitions |-> <<>>]

Prior(db, id) == {i \in DOMAIN db.transitions : id # None /\ db.transitions[i].id = id}

\* _response: everything in it is the state's.
Response(state, id) ==
  [error |-> None, state |-> state, id |-> id, terminated |-> state.status = "terminated",
   truncated |-> state.status = "truncated",
   remaining |-> Max({state.max_steps - state.steps, 0})]

Failed(error) == [error |-> error]

Transitioned(db, call, next) ==
  [answer |-> Response(next, call.id),
   db |-> [db EXCEPT !.state = next,
             !.transitions = Append(@, [sequence |-> next.steps, id |-> call.id,
                                        action |-> call.action, state |-> next,
                                        response |-> Response(next, call.id)])]]

SteppedAnew(db, call) ==
  LET error == ActionError(db.state, call.action)
  IN IF error # None THEN [db |-> db, answer |-> Failed(error)]
     ELSE Transitioned(db, call, Applied(db.state, call.action))

ClosedFirst(db, call) ==  \* mutant
  IF db.state.status # "active" THEN [db |-> db, answer |-> Failed("episode_closed")]
  ELSE IF Prior(db, call.id) # {}
    THEN [db |-> db, answer |-> db.transitions[CHOOSE i \in Prior(db, call.id) : TRUE].response]
  ELSE SteppedAnew(db, call)

\* step: an id that was used repeats its answer, whatever happened since.
Step(db, call) ==
  LET prior == db.transitions[CHOOSE i \in Prior(db, call.id) : TRUE]
  IN IF Prior(db, call.id) = {} THEN SteppedAnew(db, call)
     ELSE IF prior.action # call.action
       THEN [db |-> db, answer |-> Failed("idempotency_conflict")]
     ELSE [db |-> db, answer |-> prior.response]

\* get_trace reads the episode and its transitions in two statements, each of
\* which sees the last commit.
Trace(row, db) ==
  [initial |-> row.initial, transitions |-> db.transitions, final |-> row.state]

\* The hash that ignores ids and times, as what it digests.
SemanticTrace(trace) ==
  [initial |-> trace.initial, final |-> trace.final,
   transitions |-> [i \in DOMAIN trace.transitions |->
                      [sequence |-> trace.transitions[i].sequence,
                       action |-> trace.transitions[i].action,
                       state |-> trace.transitions[i].state]]]
===============================================================================
