------------------------------ MODULE StoreCases ------------------------------
(***************************************************************************)
(* Bounded inputs of the stores' algorithms and what they must do with     *)
(* them: migrations, trace pages, the first API, and replay.               *)
(***************************************************************************)
EXTENDS Absence, Integers, Sequences, SequencesExt, FiniteSets, TLC

Schema == INSTANCE Migrations
Pages == INSTANCE Traces
V1 == INSTANCE EpisodesV1
Again == INSTANCE Replay

\* Sequences over S of at most n elements.
Upto(S, n) == UNION {[1..k -> S] : k \in 0..n}

(***************************************************************************)
(* Migrations: databases of two episodes, each with an observation, and of *)
(* two artifacts, that an older version may have left.                     *)
(***************************************************************************)
Owners == {None} \cup [episode : 1..2, status : {"created", "deleted"}]

Observations == {[observation |-> 11, episode |-> 1], [observation |-> 12, episode |-> 2]}

Owned(owner) ==
  {[artifact |-> a, episode |-> owner[a].episode, status |-> owner[a].status] :
     a \in {x \in 1..2 : owner[x] # None}}

\* What the code of the version kept: an artifact's first episode is associated
\* with it, and an observation shows what its episode has.
LegacyValid(db) ==
  /\ \A l \in db.associations : \E a \in db.artifacts : a.artifact = l.artifact
  /\ \A a \in Schema!Created(db) : Schema!Association(a.episode, a.artifact) \in db.associations
  /\ \A s \in db.shown : \E o \in db.observations :
       /\ o.observation = s.observation
       /\ Schema!Association(o.episode, s.artifact) \in db.associations

Links == [episode : 1..2, artifact : 1..2]

LegacyDatabases ==
  {db \in {[version |-> v, artifacts |-> Owned(owner), associations |-> links,
            shown |-> shown, observations |-> Observations, evidence |-> {}] :
            v \in 2..3, owner \in [1..2 -> Owners], links \in SUBSET Links,
            shown \in SUBSET [observation : 11..12, artifact : 1..2]} : LegacyValid(db)}

OldestDatabases ==
  {[version |-> 1, artifacts |-> Owned(owner), associations |-> {}, shown |-> {},
    observations |-> Observations, evidence |-> {}] : owner \in [1..2 -> Owners]}

MigrationCases ==
  {[of |-> "migration", db |-> db] :
     db \in LegacyDatabases \cup OldestDatabases \cup {Schema!Empty, [Schema!Empty EXCEPT !.version = 5]}}

MigrationKeepsRowsIn(case) ==
  LET new == Schema!Initialized(case.db)
      shownBefore(o, e) == IF case.db.version < 2 THEN {} ELSE Schema!ShownBy(case.db, o, e)
  IN IF case.db.version > Schema!SupportedVersion THEN new = None
     ELSE /\ new.version = Schema!SupportedVersion
          /\ Schema!KeysHold(new)
          /\ Schema!Initialized(new) = new
          /\ \A e \in 1..2 : Schema!Accessible(new, e) = Schema!Accessible(case.db, e)
          /\ \A e \in 1..2, o \in 11..12 : Schema!ShownBy(new, o, e) = shownBefore(o, e)

(***************************************************************************)
(* Traces: a reader follows the cursors of a growing log; or a stored log  *)
(* lost a row, or has two rows exchanged or one overwritten by another.    *)
(***************************************************************************)
Log(n) ==
  [i \in 1..n |-> [sequence |-> i - 1, id |-> 100 + i, version |-> i \div 2,
                   manifest |-> IF i = 1 THEN 7 ELSE None]]

PageCases ==
  {[of |-> "pages", lengths |-> l, limit |-> n] :
     l \in {s \in Upto(1..6, 4) : s # <<>> /\ \A i, j \in DOMAIN s : i < j => s[i] =< s[j]},
     n \in 1..4}

LogEdits ==
  {[how |-> h, at |-> i, with |-> j] : h \in {"none", "drop", "swap", "copy"}, i, j \in 1..5}

LogCases == {[of |-> "log", length |-> n, edit |-> e] : n \in 1..5, e \in LogEdits}

\* A log keeps an event at least.
TraceCases ==
  PageCases \cup
  {c \in LogCases : /\ c.edit.at =< c.length /\ c.edit.with =< c.length
                    /\ c.edit.how = "drop" => c.length > 1}

EditedLog(case) ==
  LET log == Log(case.length)
      e == case.edit
  IN CASE e.how = "drop" -> RemoveAt(log, e.at)
       [] e.how = "swap" -> [log EXCEPT ![e.at] = log[e.with], ![e.with] = log[e.at]]
       [] e.how = "copy" -> [log EXCEPT ![e.at] = log[e.with]]
       [] OTHER -> log

Further(reader, n, page) ==
  [read |-> reader.read \o page.events, cursor |-> page.next_cursor, done |-> ~page.has_more,
   length |-> n]

\* What a reader has after the pages, the last of which is in "page".
FollowedPages(case) ==
  FoldLeft(LAMBDA reader, n :
             IF reader.done THEN reader
             ELSE Further(reader, n, Pages!Page(Log(n), reader.cursor, case.limit)),
           [read |-> <<>>, cursor |-> None, done |-> FALSE, length |-> 0], case.lengths)

TracesAreWholeIn(case) ==
  /\ case.of = "pages" =>
       LET reader == FollowedPages(case)
       IN /\ IsPrefix(reader.read, Log(reader.length))
          /\ reader.done => reader.read = Log(reader.length)
  /\ case.of = "log" =>
       (Pages!StructuralReplay(EditedLog(case), 7) <=>
          EditedLog(case) # <<>> /\ IsPrefix(EditedLog(case), Log(case.length)))

(***************************************************************************)
(* The first API: histories of calls.                                      *)
(***************************************************************************)
Box(w, e, s, n) == [west |-> w, east |-> e, south |-> s, north |-> n]

Actions ==
  {[type |-> "set_view", box |-> b] : b \in {Box(-16, 0, -8, 0), Box(4, 4, 0, 8)}} \cup
  {[type |-> "pan", east |-> 12, north |-> n] : n \in {0, 6}} \cup
  {[type |-> "zoom", direction |-> d, factor |-> 4] : d \in {"in", "out"}} \cup
  {[type |-> "set_layer_visibility", layer |-> "worldcover", visible |-> FALSE],
   [type |-> "submit_answer", answer |-> 1]}

Calls == [id : {1, 2}, action : Actions] \cup
         [id : {None}, action : {[type |-> "pan", east |-> -12, north |-> 0],
                                 [type |-> "submit_answer", answer |-> 2]}]

FirstCases ==
  {[of |-> "first", max_steps |-> m, calls |-> calls] :
     m \in 1..2, calls \in [1..3 -> Calls]}

\* The databases after each call, and the answers.
Extended(lived, step) ==
  [dbs |-> Append(lived.dbs, step.db), answers |-> Append(lived.answers, step.answer)]

Lived(case) ==
  FoldLeft(LAMBDA l, call : Extended(l, V1!Step(Last(l.dbs), call)),
           [dbs |-> <<V1!Reset([max_steps |-> case.max_steps, view |-> Box(0, 16, -8, 8)])>>,
            answers |-> <<>>], case.calls)

Chained(db) ==
  \A i \in DOMAIN db.transitions :
    LET t == db.transitions[i]
        before == IF i = 1 THEN db.initial ELSE db.transitions[i - 1].state
    IN /\ t.sequence = i
       /\ t.state = V1!Applied(before, t.action)
       /\ V1!BoxValid(t.state.view.box)
       /\ t.action.type = "pan" =>
            /\ V1!Width(t.state.view.box) = V1!Width(before.view.box)
            /\ V1!Height(t.state.view.box) = V1!Height(before.view.box)
       /\ t.state.status = "truncated" <=> i = db.state.max_steps /\ t.state.answer = None

Repeats(case, lived) ==
  LET db == Last(lived.dbs)
      ids == {t \in ToSet(db.transitions) : t.id # None}
  IN /\ Chained(db)
     /\ db.state = IF db.transitions = <<>> THEN db.initial ELSE Last(db.transitions).state
     /\ \A t, u \in ids : t.id = u.id => t = u
     /\ \A i \in DOMAIN case.calls :
          lived.answers[i].error = None /\ case.calls[i].id # None =>
            V1!Step(db, case.calls[i]) = [db |-> db, answer |-> lived.answers[i]]
     /\ \A i, j \in DOMAIN lived.dbs : i =< j =>
          V1!Trace(lived.dbs[i], lived.dbs[j]).final \in
            {db.initial} \cup {t.state : t \in ToSet(lived.dbs[j].transitions)}

FirstApiRepeatsIn(case) == Repeats(case, Lived(case))

(***************************************************************************)
(* Replay: a recorded history, what happened to its record, and the world  *)
(* in which it is replayed.                                                *)
(***************************************************************************)
Home == [manifest |-> 1, product |-> 21, image |-> 31, version |-> 1, truth |-> 1]

Worlds ==
  {Home, [Home EXCEPT !.manifest = 2], [Home EXCEPT !.product = 22], [Home EXCEPT !.image = 32],
   [Home EXCEPT !.image = None], [Home EXCEPT !.truth = 2], [Home EXCEPT !.truth = None],
   [Home EXCEPT !.version = 2]}

ReplayTasks ==
  {[manifest |-> 1, max_steps |-> 3, rendered |-> FALSE, evaluator |-> None],
   [manifest |-> 1, max_steps |-> 2, rendered |-> TRUE, evaluator |-> 5]}

Requests ==
  {[type |-> "memory", evidence |-> 21], [type |-> "map"], [type |-> "tool.invoke"],
   [type |-> "answer", answer |-> [choice |-> 1, created_at |-> 8, episode_id |-> 9]]}

\* The faults of the calls and the time at the last one, as it was recorded.
Recorded(case) ==
  FoldLeft(LAMBDA db, i :
             LET wall == IF i = Len(case.history) THEN case.wall ELSE 0
             IN Again!Step(db, [id |-> i, expected |-> db.state.version,
                                action |-> case.history[i]],
                           wall, wall, case.fault = i, Home),
           Again!CreateEpisode(case.task, 1000), [i \in DOMAIN case.history |-> i])

Histories == UNION {[1..n -> Requests] : n \in 1..3}

Edits ==
  {[how |-> "none"]} \cup
  [how : {"drop_result", "drop_event", "drop_run", "other_request", "other_key", "other_outcome",
          "other_saved", "other_what", "other_version", "run_again"}, at : 1..3] \cup
  {[how |-> h] : h \in {"other_answer", "other_status", "other_evaluation", "other_artifact",
                        "no_artifact", "other_start", "extra_result", "running"}}

\* One row of the record changed; an edit of a row it has not changes nothing.
EditedRecord(db, edit) ==
  LET has(rows) == edit.at \in DOMAIN rows
      result == db.results[edit.at]
      all == Len(db.results)
  IN CASE edit.how = "drop_result" /\ has(db.results) ->
            [db EXCEPT !.results = RemoveAt(@, edit.at)]
       [] edit.how = "drop_event" /\ has(db.events) -> [db EXCEPT !.events = RemoveAt(@, edit.at)]
       [] edit.how = "drop_run" /\ has(db.runs) -> [db EXCEPT !.runs = RemoveAt(@, edit.at)]
       [] edit.how = "run_again" /\ has(db.runs) -> [db EXCEPT !.runs = Append(@, @[edit.at])]
       [] edit.how = "other_request" /\ has(db.results) ->
            [db EXCEPT !.results[edit.at].request.action = [type |-> "map"]]
       [] edit.how = "other_key" /\ has(db.events) -> [db EXCEPT !.events[edit.at].key = 1]
       [] edit.how = "other_outcome" /\ has(db.results) ->
            [db EXCEPT !.results[edit.at] = [@ EXCEPT !.outcome = "error", !.code = "tool_failed",
                                               !.state = None, !.observation = None]]
       [] edit.how = "other_saved" /\ has(db.results) /\ result.state # None ->
            [db EXCEPT !.results[edit.at].state.saved = @ + 1]
       [] edit.how = "other_what" /\ has(db.events) ->
            [db EXCEPT !.events[edit.at].what = db.events[1].what]
       [] edit.how = "other_version" /\ has(db.runs) -> [db EXCEPT !.runs[edit.at].version = 2]
       [] edit.how = "other_answer" /\ db.state.answer # None ->
            [db EXCEPT !.state.answer.episode_id = @ + 1]
       [] edit.how = "other_status" -> [db EXCEPT !.state.status = "truncated"]
       [] edit.how = "other_evaluation" /\ db.state.evaluation # None ->
            [db EXCEPT !.state.evaluation.right = ~@]
       [] edit.how = "other_artifact" /\ db.artifacts # {} -> [db EXCEPT !.artifacts = {29}]
       [] edit.how = "no_artifact" -> [db EXCEPT !.artifacts = {}]
       [] edit.how = "other_start" -> [db EXCEPT !.initial.saved = 1]
       [] edit.how = "extra_result" /\ all > 0 ->
            [db EXCEPT !.results = Append(@, [db.results[all] EXCEPT !.id = 9])]
       [] edit.how = "running" /\ db.runs # <<>> -> [db EXCEPT !.runs[1].status = "running"]
       [] OTHER -> db

ReplayCase(task, history, fault, wall, world, edit) ==
  [of |-> "replay", task |-> task, history |-> history, fault |-> fault, wall |-> wall,
   world |-> world, edit |-> edit]

\* Of every history: faults and delays, other worlds, edits.
ReplayCases ==
  LET none == [how |-> "none"]
  IN {ReplayCase(t, h, f, w, Home, none) :
        t \in ReplayTasks, h \in Histories, f \in {None, 1, 2}, w \in 0..2} \cup
     {ReplayCase(t, h, None, 1, x, none) : t \in ReplayTasks, h \in Histories, x \in Worlds} \cup
     {ReplayCase(t, h, None, 1, Home, e) : t \in ReplayTasks, h \in Histories, e \in Edits}

\* What a reader learns from a record.
Visible(db) ==
  [initial |-> Again!SemanticState(db.initial),
   final |-> [Again!SemanticState(db.state) EXCEPT !.answer = db.state.answer],
   events |-> Again!SemanticTrace(db.events), artifacts |-> db.artifacts,
   results |-> {Again!SemanticResult(r) : r \in ToSet(db.results)}]

\* The world is still as the record found it.
Unchanged(db, world) ==
  LET succeeded(type) == \E r \in ToSet(db.results) :
                           r.outcome = "success" /\ r.request.action.type = type
  IN /\ world.manifest = Home.manifest
     /\ succeeded("tool.invoke") => [world EXCEPT !.image = None, !.truth = None] =
                                     [Home EXCEPT !.image = None, !.truth = None]
     /\ succeeded("map") /\ db.task.rendered => world.image = Home.image
     /\ db.state.evaluation # None => world.truth = Home.truth

Reproducible(db, case) ==
  /\ db.results # <<>> /\ db.state.status # "active"
  /\ case.wall < Again!WallLimit
  /\ db = Recorded([case EXCEPT !.fault = None])
  /\ case.world = Home

ExactAgainst(case, db, edited) ==
  LET passed == Again!Replayed(edited, case.world).status = "passed"
  IN /\ passed => Visible(edited) = Visible(db) /\ Unchanged(db, case.world)
     /\ edited = db /\ Reproducible(db, case) => passed

ReplayIsExactIn(case) ==
  \A db \in {Recorded(case)} : ExactAgainst(case, db, EditedRecord(db, case.edit))
===============================================================================
