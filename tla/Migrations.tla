------------------------------ MODULE Migrations ------------------------------
(***************************************************************************)
(* The schema of the V2 store and the migrations to it (core/store.py).    *)
(* A table is a set of rows; the columns that no migration reads are one   *)
(* value. One transaction runs every migration, so a crash leaves none.    *)
(***************************************************************************)
EXTENDS Integers, FiniteSets

CONSTANT None

SupportedVersion == 4   \* STORE_SCHEMA_VERSION

(***************************************************************************)
(* Databases by version. Artifacts are keyed by their id up to version 3,  *)
(* by episode and id from version 4; evidence changes so in version 3.     *)
(***************************************************************************)
Empty ==
  [version |-> 0, artifacts |-> {}, associations |-> {}, shown |-> {},
   observations |-> {}, evidence |-> {}]

Created(db) == {a \in db.artifacts : a.status = "created"}

Association(episode, artifact) == [episode |-> episode, artifact |-> artifact]

\* Artifacts belong to the episode that made them first.
Migration2(db) ==
  [db EXCEPT !.version = 2,
     !.associations = {Association(a.episode, a.artifact) : a \in Created(db)},
     !.shown = {}]

\* The rows are copied to a table with another key.
Migration3(db) == [db EXCEPT !.version = 3]

OwnedArtifacts(db) == db.artifacts  \* mutant

\* Every episode gets its own row of the artifacts associated with it.
ScopedArtifacts(db) ==
  db.artifacts \cup
  {[p[1] EXCEPT !.episode = p[2].episode] :
     p \in {q \in db.artifacts \X db.associations : q[1].artifact = q[2].artifact}}

\* What an observation shows is scoped to the observation's episode.
Scoped(shown, observations, artifacts) ==
  {[observation |-> p[1].observation, episode |-> p[2].episode, artifact |-> p[1].artifact] :
     p \in {q \in shown \X artifacts :
       /\ q[1].artifact = q[2].artifact
       /\ \E o \in observations : /\ o.observation = q[1].observation
                                  /\ o.episode = q[2].episode}}

Migration4(db) ==
  LET artifacts == ScopedArtifacts(db)
  IN [db EXCEPT !.version = 4,
        !.artifacts = artifacts,
        !.associations = {Association(a.episode, a.artifact) :
                            a \in {x \in artifacts : x.status = "created"}},
        !.shown = Scoped(db.shown, db.observations, artifacts)]

\* _initialize: what a process finds after opening a database, None when the
\* database is newer than the code.
Initialized(db) ==
  LET one == IF db.version < 1 THEN [db EXCEPT !.version = 1] ELSE db
      two == IF one.version < 2 THEN Migration2(one) ELSE one
      three == IF two.version < 3 THEN Migration3(two) ELSE two
      four == IF three.version < 4 THEN Migration4(three) ELSE three
  IN IF db.version > SupportedVersion THEN None ELSE four

(***************************************************************************)
(* The queries: what an episode's agent may read.                          *)
(***************************************************************************)
\* get_artifact and _artifacts_for_episode; before version 2 an artifact had
\* one episode.
Accessible(db, episode) ==
  {a.artifact : a \in {x \in Created(db) :
     IF db.version < 2 THEN x.episode = episode
     ELSE /\ Association(episode, x.artifact) \in db.associations
          /\ db.version >= 4 => x.episode = episode}}

\* Which artifacts an observation of an episode shows.
ShownBy(db, observation, episode) ==
  IF [observation |-> observation, episode |-> episode] \in db.observations
  THEN {s.artifact : s \in {x \in db.shown :
          x.observation = observation /\ (db.version >= 4 => x.episode = episode)}}
  ELSE {}

\* The foreign keys of a version.
KeysHold(db) ==
  LET keys == {[episode |-> a.episode, artifact |-> a.artifact] : a \in db.artifacts}
      ids == {a.artifact : a \in db.artifacts}
  IN /\ Cardinality(db.artifacts) = Cardinality(IF db.version < 4 THEN ids ELSE keys)
     /\ \A l \in db.associations :
          IF db.version < 4 THEN l.artifact \in ids ELSE l \in keys
     /\ \A s \in db.shown :
          /\ \E o \in db.observations : o.observation = s.observation
          /\ IF db.version < 4 THEN s.artifact \in ids
             ELSE Association(s.episode, s.artifact) \in keys
===============================================================================
