----------------------------- MODULE RecordProofs -----------------------------
(***************************************************************************)
(* Theorems about migrations and the first API (StoreCases.tla), and about *)
(* the cases of a run of MCAlgorithms: whatever value None has, and the    *)
(* constants of the byte ranges, the properties hold of all of them.       *)
(***************************************************************************)
EXTENDS MCAlgorithms, AlgorithmProofs

-------------------------------------------------------------------------------
(* Migrations *)

Artifacts(E, A, S) == [artifact : A, episode : E, status : S]

Databases(E, A, S, O, V) ==
  [version : 0 .. 4, artifacts : SUBSET Artifacts(E, A, S),
   associations : SUBSET [episode : E, artifact : A], shown : SUBSET [observation : O, artifact : A],
   observations : SUBSET [observation : O, episode : E], evidence : SUBSET V]

\* The keys of the tables: an id names one artifact, and one observation.
Keyed(db) ==
  /\ \A a, b \in db.artifacts : a.artifact = b.artifact => a = b
  /\ \A o, p \in db.observations : o.observation = p.observation => o = p

\* A database that a version before the last may have left.
Older(db, E, A, S, O, V) ==
  /\ db \in Databases(E, A, S, O, V) /\ db.version < 4
  /\ IsFiniteSet(db.artifacts) /\ IsFiniteSet(db.associations)
  /\ Keyed(db)
  /\ db.version >= 2 => LegacyValid(db)
  /\ db.version < 2 => db.associations = {} /\ db.shown = {}

LEMMA SameCardinality ==
  \A S : Schema!Cardinality(S) = Cardinality(S)
BY Zenon DEF Schema!Cardinality, Cardinality

\* A row for an episode is the artifact's, with the episode.
Row(a, e) == [artifact |-> a.artifact, episode |-> e, status |-> a.status]

\* Which rows there are after the fourth migration.
Scoping(n, db, E, A, S) ==
  /\ n \subseteq Artifacts(E, A, S) /\ IsFiniteSet(n) /\ db.artifacts \subseteq n
  /\ \A l \in db.associations : \A a \in db.artifacts :
       a.artifact = l.artifact => Row(a, l.episode) \in n
  /\ \A r \in n : \E a \in db.artifacts :
       /\ r = Row(a, r.episode)
       /\ r = a \/ Schema!Association(r.episode, r.artifact) \in db.associations

LEMMA ScopedRows ==
  ASSUME NEW E, NEW A, NEW S, NEW O, NEW V, NEW db, Older(db, E, A, S, O, V)
  PROVE  Scoping(Schema!ScopedArtifacts(db), db, E, A, S)
<1>1. PICK P : P = {q \in db.artifacts \X db.associations : q[1].artifact = q[2].artifact}
  OBVIOUS
<1>2. PICK R : R = {[p[1] EXCEPT !.episode = p[2].episode] : p \in P}
  OBVIOUS
<1>3. Schema!ScopedArtifacts(db) = db.artifacts \cup R
  BY <1>1, <1>2 DEF Schema!ScopedArtifacts
<1>4. /\ db.artifacts \subseteq Artifacts(E, A, S)
      /\ db.associations \subseteq [episode : E, artifact : A]
      /\ IsFiniteSet(db.artifacts) /\ IsFiniteSet(db.associations)
  BY DEF Older, Databases
<1>5. \A p \in P : /\ p[1] \in db.artifacts /\ p[2] \in db.associations
                   /\ p[1].artifact = p[2].artifact
                   /\ p[1] \in Artifacts(E, A, S) /\ p[2] \in [episode : E, artifact : A]
  BY <1>1, <1>4
<1>6. ASSUME NEW a \in Artifacts(E, A, S), NEW e \in E
      PROVE  /\ [a EXCEPT !.episode = e] = Row(a, e) /\ Row(a, e) \in Artifacts(E, A, S)
             /\ Row(a, e).episode = e /\ Row(a, e).artifact = a.artifact /\ Row(a, a.episode) = a
  BY DEF Artifacts, Row
<1>7. \A p \in P : /\ [p[1] EXCEPT !.episode = p[2].episode] = Row(p[1], p[2].episode)
                   /\ Row(p[1], p[2].episode) \in Artifacts(E, A, S)
  BY <1>5, <1>6
<1>8. R \subseteq Artifacts(E, A, S)
  BY <1>2, <1>7
<1>9. IsFiniteSet(R)
  <2>1. IsFiniteSet(db.artifacts \X db.associations)
    BY <1>4, FS_Product
  <2>2. IsFiniteSet(P)
    BY <1>1, <2>1, FS_Subset
  <2>3. PICK f : f = [p \in P |-> [p[1] EXCEPT !.episode = p[2].episode]]
    OBVIOUS
  <2>4. f \in Surjection(P, R)
    BY <1>2, <2>3 DEF Surjection
  <2> QED BY <2>2, <2>4, FS_Surjection DEF ExistsSurjection
<1>10. IsFiniteSet(db.artifacts \cup R)
  BY <1>4, <1>9, FS_Union
<1>11. ASSUME NEW l \in db.associations, NEW a \in db.artifacts, a.artifact = l.artifact
       PROVE  Row(a, l.episode) \in R
  <2>1. <<a, l>> \in P
    BY <1>1, <1>11
  <2> QED BY <1>2, <1>7, <2>1
<1>12. ASSUME NEW r \in R
       PROVE  \E a \in db.artifacts :
                /\ r = Row(a, r.episode)
                /\ Schema!Association(r.episode, r.artifact) \in db.associations
  <2>1. PICK p \in P : r = [p[1] EXCEPT !.episode = p[2].episode]
    BY <1>2
  <2>2. PICK a, l : a = p[1] /\ l = p[2]
    OBVIOUS
  <2>3. /\ a \in db.artifacts /\ l \in db.associations /\ a.artifact = l.artifact
        /\ a \in Artifacts(E, A, S) /\ l \in [episode : E, artifact : A] /\ r = Row(a, l.episode)
    BY <1>5, <1>7, <2>1, <2>2
  <2>4. l.episode \in E /\ r.episode = l.episode /\ r.artifact = l.artifact
    BY <1>6, <2>3
  <2>5. Schema!Association(r.episode, r.artifact) = l
    BY <2>3, <2>4 DEF Schema!Association
  <2> QED BY <2>3, <2>4, <2>5
<1>13. \A a \in db.artifacts : a = Row(a, a.episode)
  BY <1>4, <1>6 DEF Artifacts
<1> QED BY <1>3, <1>4, <1>8, <1>10, <1>11, <1>12, <1>13 DEF Scoping

\* A key of the new table names one row.
LEMMA ScopedKeys ==
  ASSUME NEW E, NEW A, NEW S, NEW O, NEW V, NEW db, Older(db, E, A, S, O, V),
         NEW n, Scoping(n, db, E, A, S)
  PROVE  Cardinality(n) = Cardinality({[episode |-> a.episode, artifact |-> a.artifact] : a \in n})
<1>1. PICK f : f = [a \in n |-> [episode |-> a.episode, artifact |-> a.artifact]]
  OBVIOUS
<1>2. PICK K : K = {[episode |-> a.episode, artifact |-> a.artifact] : a \in n}
  OBVIOUS
<1>3. ASSUME NEW r \in n, NEW s \in n, f[r] = f[s] PROVE r = s
  <2>1. r.episode = s.episode /\ r.artifact = s.artifact
    BY <1>1, <1>3
  <2>2. PICK a \in db.artifacts : r = Row(a, r.episode)
    BY DEF Scoping
  <2>3. PICK b \in db.artifacts : s = Row(b, s.episode)
    BY DEF Scoping
  <2>4. a.artifact = b.artifact
    BY <2>1, <2>2, <2>3 DEF Row
  <2>5. a = b
    BY <2>4 DEF Older, Keyed
  <2> QED BY <2>1, <2>2, <2>3, <2>5
<1>4. f \in Bijection(n, K)
  BY <1>1, <1>2, <1>3 DEF Bijection, Injection, IsInjective, Surjection
<1> QED BY <1>2, <1>4, FS_Bijection DEF Scoping, ExistsBijection

Valid(db, E, A, S, O, V) == Older(db, E, A, S, O, V) /\ LegacyValid(db)

\* What every episode may read of one database, it may read of the other.
Kept(new, db) ==
  /\ \A e : Schema!Accessible(new, e) = Schema!Accessible(db, e)
  /\ \A o, e : Schema!ShownBy(new, o, e) = Schema!ShownBy(db, o, e)

\* Migration 2 finds no observation that shows anything.
LEMMA SecondKeeps ==
  ASSUME NEW E, NEW A, NEW S, NEW O, NEW V, NEW db, Older(db, E, A, S, O, V), db.version < 2,
         NEW d, d = Schema!Migration2(db)
  PROVE  Valid(d, E, A, S, O, V) /\ d.version = 2 /\ Kept(d, db)
<1>1. PICK C : C = Schema!Created(db)
  OBVIOUS
<1>2. PICK L : L = {Schema!Association(a.episode, a.artifact) : a \in C}
  OBVIOUS
<1>3. /\ d.version = 2 /\ d.artifacts = db.artifacts /\ d.associations = L /\ d.shown = {}
      /\ d.observations = db.observations /\ d.evidence = db.evidence
      /\ d \in [version : {2}, artifacts : {db.artifacts}, associations : {L}, shown : {{}},
                observations : {db.observations}, evidence : {db.evidence}]
  BY <1>1, <1>2 DEF Older, Databases, Schema!Migration2
<1>4. C = {a \in db.artifacts : a.status = "created"} /\ Schema!Created(d) = C
  BY <1>1, <1>3 DEF Schema!Created
<1>5. \A a \in db.artifacts : a.episode \in E /\ a.artifact \in A
  BY DEF Older, Databases, Artifacts
<1>6. L \subseteq [episode : E, artifact : A]
  BY <1>2, <1>4, <1>5 DEF Schema!Association
<1>7. IsFiniteSet(L)
  <2>1. IsFiniteSet(C)
    BY <1>4, FS_Subset DEF Older
  <2>2. PICK f : f = [a \in C |-> Schema!Association(a.episode, a.artifact)]
    OBVIOUS
  <2>3. f \in Surjection(C, L)
    BY <1>2, <2>2 DEF Surjection
  <2> QED BY <2>1, <2>3, FS_Surjection DEF ExistsSurjection
<1>8. d \in Databases(E, A, S, O, V)
  BY <1>3, <1>6 DEF Older, Databases
<1>9. LegacyValid(d)
  <2>1. \A l \in L : \E a \in db.artifacts : a.artifact = l.artifact
    BY <1>2, <1>4 DEF Schema!Association
  <2>2. \A a \in C : Schema!Association(a.episode, a.artifact) \in L
    BY <1>2
  <2> QED BY <1>3, <1>4, <2>1, <2>2 DEF LegacyValid
<1>10. Valid(d, E, A, S, O, V)
  BY <1>3, <1>7, <1>8, <1>9 DEF Valid, Older, Keyed
<1>11. ASSUME NEW e PROVE Schema!Accessible(d, e) = Schema!Accessible(db, e)
  <2>1. \A a \in C : Schema!Association(e, a.artifact) \in L <=>
                     \E b \in C : b.episode = e /\ b.artifact = a.artifact
    BY <1>2 DEF Schema!Association
  <2>2. \A a, b \in C : b.artifact = a.artifact => a = b
    BY <1>4 DEF Older, Keyed
  <2>3. {x \in C : Schema!Association(e, x.artifact) \in L} = {x \in C : x.episode = e}
    BY <2>1, <2>2
  <2>4. Schema!Accessible(d, e) = {a.artifact : a \in {x \in C : Schema!Association(e, x.artifact) \in L}}
    BY <1>3, <1>4 DEF Schema!Accessible
  <2>5. Schema!Accessible(db, e) = {a.artifact : a \in {x \in C : x.episode = e}}
    BY <1>1 DEF Schema!Accessible
  <2> QED BY <2>3, <2>4, <2>5
<1>12. ASSUME NEW o, NEW e PROVE Schema!ShownBy(d, o, e) = Schema!ShownBy(db, o, e)
  <2>1. db.shown = {}
    BY DEF Older
  <2> QED BY <1>3, <2>1 DEF Schema!ShownBy
<1> QED BY <1>3, <1>10, <1>11, <1>12 DEF Kept

LEMMA ThirdKeeps ==
  ASSUME NEW E, NEW A, NEW S, NEW O, NEW V, NEW db, Valid(db, E, A, S, O, V), db.version = 2,
         NEW d, d = Schema!Migration3(db)
  PROVE  Valid(d, E, A, S, O, V) /\ d.version = 3 /\ Kept(d, db)
<1>1. /\ d.version = 3 /\ d.artifacts = db.artifacts /\ d.associations = db.associations
      /\ d.shown = db.shown /\ d.observations = db.observations /\ d.evidence = db.evidence
      /\ d \in Databases(E, A, S, O, V)
  BY DEF Valid, Older, Databases, Schema!Migration3
<1>2. Schema!Created(d) = Schema!Created(db)
  BY <1>1 DEF Schema!Created
<1>3. LegacyValid(d)
  BY <1>1, <1>2 DEF Valid, LegacyValid
<1>4. Valid(d, E, A, S, O, V)
  BY <1>1, <1>3 DEF Valid, Older, Keyed
<1>5. Kept(d, db)
  BY <1>1, <1>2 DEF Kept, Schema!Accessible, Schema!ShownBy
<1> QED BY <1>1, <1>4, <1>5

LEMMA FourthKeeps ==
  ASSUME NEW E, NEW A, NEW S, NEW O, NEW V, NEW db, Valid(db, E, A, S, O, V), db.version = 3,
         NEW d, d = Schema!Migration4(db)
  PROVE  d.version = 4 /\ Schema!KeysHold(d) /\ Kept(d, db)
<1>1. PICK N : N = Schema!ScopedArtifacts(db)
  OBVIOUS
<1>2. Scoping(N, db, E, A, S)
  BY <1>1, ScopedRows DEF Valid
<1>3. PICK C : C = {x \in N : x.status = "created"}
  OBVIOUS
<1>4. PICK L : L = {Schema!Association(a.episode, a.artifact) : a \in C}
  OBVIOUS
<1>5. PICK W : W = Schema!Scoped(db.shown, db.observations, N)
  OBVIOUS
<1>6. /\ d.version = 4 /\ d.artifacts = N /\ d.associations = L /\ d.shown = W
      /\ d.observations = db.observations
  BY <1>1, <1>3, <1>4, <1>5 DEF Valid, Older, Databases, Schema!Migration4
<1>7. Schema!Created(d) = C
  BY <1>3, <1>6 DEF Schema!Created
<1>8. LegacyValid(db) /\ Keyed(db) /\ db \in Databases(E, A, S, O, V)
  BY DEF Valid, Older
<1>9. \A w : w \in W <=> \E s \in db.shown, a \in N :
               /\ s.artifact = a.artifact
               /\ \E o \in db.observations : o.observation = s.observation /\ o.episode = a.episode
               /\ w = [observation |-> s.observation, episode |-> a.episode, artifact |-> s.artifact]
  <2>1. PICK P : P = {q \in db.shown \X N :
                        /\ q[1].artifact = q[2].artifact
                        /\ \E o \in db.observations : /\ o.observation = q[1].observation
                                                      /\ o.episode = q[2].episode}
    OBVIOUS
  <2>2. W = {[observation |-> p[1].observation, episode |-> p[2].episode,
              artifact |-> p[1].artifact] : p \in P}
    BY <1>5, <2>1 DEF Schema!Scoped
  <2>3. ASSUME NEW w \in W
        PROVE  \E s \in db.shown, a \in N :
                 /\ s.artifact = a.artifact
                 /\ \E o \in db.observations : o.observation = s.observation /\ o.episode = a.episode
                 /\ w = [observation |-> s.observation, episode |-> a.episode, artifact |-> s.artifact]
    <3>1. PICK p \in P : w = [observation |-> p[1].observation, episode |-> p[2].episode,
                              artifact |-> p[1].artifact]
      BY <2>2
    <3> QED BY <2>1, <3>1
  <2>4. ASSUME NEW w, NEW s \in db.shown, NEW a \in N, s.artifact = a.artifact,
               \E o \in db.observations : o.observation = s.observation /\ o.episode = a.episode,
               w = [observation |-> s.observation, episode |-> a.episode, artifact |-> s.artifact]
        PROVE  w \in W
    <3>1. <<s, a>> \in P
      BY <2>1, <2>4
    <3> QED BY <2>2, <2>4, <3>1
  <2> QED BY <2>3, <2>4
<1>10. PICK keys : keys = {[episode |-> a.episode, artifact |-> a.artifact] : a \in N}
  OBVIOUS
<1>11. Schema!KeysHold(d)
  <2>1. Schema!Cardinality(N) = Schema!Cardinality(keys)
    BY <1>2, <1>10, ScopedKeys, SameCardinality DEF Valid
  <2>2. \A l \in L : l \in keys
    BY <1>3, <1>4, <1>10 DEF Schema!Association
  <2>3. ASSUME NEW w \in W
        PROVE  /\ \E o \in db.observations : o.observation = w.observation
               /\ Schema!Association(w.episode, w.artifact) \in keys
    <3>1. PICK s \in db.shown, a \in N :
               /\ s.artifact = a.artifact
               /\ \E o \in db.observations : o.observation = s.observation /\ o.episode = a.episode
               /\ w = [observation |-> s.observation, episode |-> a.episode, artifact |-> s.artifact]
      BY <1>9
    <3>2. w.observation = s.observation /\ w.episode = a.episode /\ w.artifact = a.artifact
      BY <3>1
    <3> QED BY <1>10, <3>1, <3>2 DEF Schema!Association
  <2> QED BY <1>6, <1>10, <2>1, <2>2, <2>3 DEF Schema!KeysHold
<1>12. ASSUME NEW e PROVE Schema!Accessible(d, e) = Schema!Accessible(db, e)
  <2>1. PICK X : X = {x \in C : Schema!Association(e, x.artifact) \in L /\ x.episode = e}
    OBVIOUS
  <2>2. PICK Y : Y = {x \in Schema!Created(db) :
                        Schema!Association(e, x.artifact) \in db.associations}
    OBVIOUS
  <2>3. Schema!Accessible(d, e) = {a.artifact : a \in X}
    BY <1>6, <1>7, <2>1 DEF Schema!Accessible
  <2>4. Schema!Accessible(db, e) = {a.artifact : a \in Y}
    BY <2>2 DEF Schema!Accessible
  <2>5. ASSUME NEW x \in X PROVE \E y \in Y : y.artifact = x.artifact
    <3>1. x \in N /\ x.status = "created" /\ x.episode = e
      BY <1>3, <2>1
    <3>2. PICK a \in db.artifacts :
               /\ x = Row(a, x.episode)
               /\ x = a \/ Schema!Association(x.episode, x.artifact) \in db.associations
      BY <1>2, <3>1 DEF Scoping
    <3>3. a.artifact = x.artifact /\ a.status = "created"
      BY <3>1, <3>2 DEF Row
    <3>4. a \in Schema!Created(db)
      BY <3>3 DEF Schema!Created
    <3>5. Schema!Association(e, a.artifact) \in db.associations
      BY <1>8, <3>1, <3>2, <3>3, <3>4 DEF LegacyValid
    <3> QED BY <2>2, <3>3, <3>4, <3>5
  <2>6. ASSUME NEW y \in Y PROVE \E x \in X : x.artifact = y.artifact
    <3>1. /\ y \in db.artifacts /\ y.status = "created"
          /\ Schema!Association(e, y.artifact) \in db.associations
      BY <2>2 DEF Schema!Created
    <3>2. PICK l \in db.associations : l = Schema!Association(e, y.artifact)
      BY <3>1
    <3>3. l.episode = e /\ l.artifact = y.artifact
      BY <3>2 DEF Schema!Association
    <3>4. Row(y, e) \in N
      BY <1>2, <3>1, <3>3 DEF Scoping
    <3>5. Row(y, e).status = "created" /\ Row(y, e).episode = e /\ Row(y, e).artifact = y.artifact
      BY <3>1 DEF Row
    <3>6. Row(y, e) \in C
      BY <1>3, <3>4, <3>5
    <3>7. Schema!Association(e, Row(y, e).artifact) \in L
      BY <1>4, <3>5, <3>6
    <3> QED BY <2>1, <3>5, <3>6, <3>7
  <2> QED BY <2>3, <2>4, <2>5, <2>6
<1>13. ASSUME NEW o, NEW e PROVE Schema!ShownBy(d, o, e) = Schema!ShownBy(db, o, e)
  <2>1. CASE [observation |-> o, episode |-> e] \notin db.observations
    BY <1>6, <2>1 DEF Schema!ShownBy
  <2>2. CASE [observation |-> o, episode |-> e] \in db.observations
    <3>1. PICK X : X = {x \in W : x.observation = o /\ x.episode = e}
      OBVIOUS
    <3>2. PICK Y : Y = {x \in db.shown : x.observation = o}
      OBVIOUS
    <3>3. Schema!ShownBy(d, o, e) = {s.artifact : s \in X}
      BY <1>6, <2>2, <3>1 DEF Schema!ShownBy
    <3>4. Schema!ShownBy(db, o, e) = {s.artifact : s \in Y}
      BY <2>2, <3>2 DEF Schema!ShownBy
    <3>5. ASSUME NEW x \in X PROVE \E y \in Y : y.artifact = x.artifact
      <4>1. x \in W /\ x.observation = o
        BY <3>1
      <4>2. PICK s \in db.shown, a \in N :
              x = [observation |-> s.observation, episode |-> a.episode, artifact |-> s.artifact]
        BY <1>9, <4>1
      <4>3. s.observation = o /\ s.artifact = x.artifact
        BY <4>1, <4>2
      <4> QED BY <3>2, <4>3
    <3>6. ASSUME NEW y \in Y PROVE \E x \in X : x.artifact = y.artifact
      <4>1. y \in db.shown /\ y.observation = o
        BY <3>2
      <4>2. PICK p \in db.observations :
              p.observation = o /\ Schema!Association(p.episode, y.artifact) \in db.associations
        BY <1>8, <4>1 DEF LegacyValid
      <4>3. PICK q \in db.observations : q = [observation |-> o, episode |-> e]
        BY <2>2
      <4>4. p.episode = e /\ q.observation = o /\ q.episode = e
        BY <1>8, <4>2, <4>3 DEF Keyed
      <4>5. PICK l \in db.associations : l = Schema!Association(e, y.artifact)
        BY <4>2, <4>4
      <4>6. l.episode = e /\ l.artifact = y.artifact
        BY <4>5 DEF Schema!Association
      <4>7. PICK a \in db.artifacts : a.artifact = y.artifact
        BY <1>8, <4>6 DEF LegacyValid
      <4>8. PICK r \in N : r = Row(a, e)
        BY <1>2, <4>6, <4>7 DEF Scoping
      <4>9. r.episode = e /\ r.artifact = y.artifact
        BY <4>7, <4>8 DEF Row
      <4>10. PICK x : x = [observation |-> y.observation, episode |-> r.episode,
                           artifact |-> y.artifact]
        OBVIOUS
      <4>11. x \in W
        BY <1>9, <4>1, <4>3, <4>4, <4>9, <4>10
      <4>12. x.observation = o /\ x.episode = e /\ x.artifact = y.artifact
        BY <4>1, <4>9, <4>10
      <4> QED BY <3>1, <4>11, <4>12
    <3> QED BY <3>3, <3>4, <3>5, <3>6
  <2> QED BY <2>1, <2>2
<1> QED BY <1>6, <1>11, <1>12, <1>13 DEF Kept

\* What a process finds after opening a database that the code of any earlier
\* version left, whatever is in it: the current version, its foreign keys hold,
\* the next process finds the same, and every episode may read what it could.
THEOREM MigrationsKeepRows ==
  ASSUME NEW E, NEW A, NEW S, NEW O, NEW V, NEW db, Older(db, E, A, S, O, V),
         NEW new, new = Schema!Initialized(db)
  PROVE  /\ new.version = Schema!SupportedVersion
         /\ Schema!KeysHold(new)
         /\ Schema!Initialized(new) = new
         /\ Kept(new, db)
<1>1. db.version \in 0 .. 3
  BY DEF Older, Databases
<1>2. PICK one : one = IF db.version < 1 THEN [db EXCEPT !.version = 1] ELSE db
  OBVIOUS
<1>3. PICK two : two = IF one.version < 2 THEN Schema!Migration2(one) ELSE one
  OBVIOUS
<1>4. PICK three : three = IF two.version < 3 THEN Schema!Migration3(two) ELSE two
  OBVIOUS
<1>5. PICK four : four = IF three.version < 4 THEN Schema!Migration4(three) ELSE three
  OBVIOUS
<1>6. new = four
  BY <1>1, <1>2, <1>3, <1>4, <1>5 DEF Schema!Initialized, Schema!SupportedVersion
<1>7. Older(one, E, A, S, O, V) /\ one.version \in 1 .. 3 /\ Kept(one, db)
  <2>1. CASE db.version >= 1
    BY <1>1, <1>2, <2>1 DEF Kept
  <2>2. CASE db.version < 1
    <3>1. /\ one.version = 1 /\ one.artifacts = db.artifacts /\ one.observations = db.observations
          /\ one.associations = db.associations /\ one.shown = db.shown
          /\ one \in Databases(E, A, S, O, V)
      BY <1>2, <2>2 DEF Older, Databases
    <3>2. Older(one, E, A, S, O, V)
      BY <1>1, <2>2, <3>1 DEF Older, Keyed
    <3>3. Schema!Created(one) = Schema!Created(db)
      BY <3>1 DEF Schema!Created
    <3>4. one.version < 2 /\ db.version < 2 /\ ~(one.version >= 4) /\ ~(db.version >= 4)
      BY <1>1, <2>2, <3>1
    <3>5. \A e : Schema!Accessible(one, e) = Schema!Accessible(db, e)
      BY <3>3, <3>4, Zenon DEF Schema!Accessible
    <3>6. \A o, e : Schema!ShownBy(one, o, e) = Schema!ShownBy(db, o, e)
      BY <3>1, <3>4, Zenon DEF Schema!ShownBy
    <3>7. Kept(one, db)
      BY <3>5, <3>6 DEF Kept
    <3> QED BY <3>1, <3>2, <3>7
  <2> QED BY <1>1, <2>1, <2>2
<1>8. Valid(two, E, A, S, O, V) /\ two.version \in 2 .. 3 /\ Kept(two, one)
  <2>1. CASE one.version < 2
    BY <1>3, <1>7, <2>1, SecondKeeps
  <2>2. CASE one.version >= 2
    BY <1>3, <1>7, <2>2 DEF Valid, Older, Kept
  <2> QED BY <1>7, <2>1, <2>2
<1>9. Valid(three, E, A, S, O, V) /\ three.version = 3 /\ Kept(three, two)
  <2>1. CASE two.version = 2
    BY <1>4, <1>8, <2>1, ThirdKeeps
  <2>2. CASE two.version = 3
    BY <1>4, <1>8, <2>2 DEF Kept
  <2> QED BY <1>8, <2>1, <2>2
<1>10. new.version = 4 /\ Schema!KeysHold(new) /\ Kept(new, three)
  BY <1>5, <1>6, <1>9, FourthKeeps
<1>11. Schema!Initialized(new) = new
  <2>1. /\ ~(new.version < 1) /\ ~(new.version < 2) /\ ~(new.version < 3) /\ ~(new.version < 4)
        /\ ~(new.version > Schema!SupportedVersion)
    BY <1>10 DEF Schema!SupportedVersion
  <2> QED BY <2>1, Zenon DEF Schema!Initialized
<1> QED BY <1>7, <1>8, <1>9, <1>10, <1>11 DEF Kept, Schema!SupportedVersion


LEMMA OwnedRows ==
  ASSUME NEW owner \in [1 .. 2 -> Owners], NEW R, R = Owned(owner)
  PROVE  /\ R \subseteq Artifacts(1 .. 2, 1 .. 2, {"created", "deleted"}) /\ IsFiniteSet(R)
         /\ \A a, b \in R : a.artifact = b.artifact => a = b
<1>1. PICK X : X = {x \in 1 .. 2 : owner[x] # None}
  OBVIOUS
<1>2. PICK f : f = [x \in X |-> [artifact |-> x, episode |-> owner[x].episode,
                                 status |-> owner[x].status]]
  OBVIOUS
<1>3. R = {f[x] : x \in X}
  BY <1>1, <1>2 DEF Owned
<1>4. \A x \in X : owner[x] \in [episode : 1 .. 2, status : {"created", "deleted"}]
  BY <1>1 DEF Owners
<1>5. \A x \in X : /\ x \in 1 .. 2 /\ f[x].artifact = x
                   /\ f[x] \in Artifacts(1 .. 2, 1 .. 2, {"created", "deleted"})
  BY <1>1, <1>2, <1>4 DEF Artifacts
<1>6. IsFiniteSet(X)
  BY <1>1, FS_Interval, FS_Subset
<1>7. f \in Surjection(X, R)
  BY <1>2, <1>3 DEF Surjection
<1>8. IsFiniteSet(R)
  BY <1>6, <1>7, FS_Surjection DEF ExistsSurjection
<1> QED BY <1>3, <1>5, <1>8

LEMMA LinksAreFinite ==
  IsFiniteSet([episode : 1 .. 2, artifact : 1 .. 2])
<1>1. PICK P : P = (1 .. 2) \X (1 .. 2)
  OBVIOUS
<1>2. PICK f : f = [p \in P |-> [episode |-> p[1], artifact |-> p[2]]]
  OBVIOUS
<1>3. IsFiniteSet(P)
  <2>1. IsFiniteSet(1 .. 2)
    <3>1. 1 \in Int /\ 2 \in Int
      OBVIOUS
    <3> QED BY <3>1, FS_Interval, Zenon
  <2> QED BY <1>1, <2>1, FS_Product
<1>4. f \in [P -> [episode : 1 .. 2, artifact : 1 .. 2]]
  BY <1>1, <1>2
<1>5. ASSUME NEW l \in [episode : 1 .. 2, artifact : 1 .. 2] PROVE \E p \in P : f[p] = l
  <2>1. <<l.episode, l.artifact>> \in P
    BY <1>1
  <2> QED BY <1>2, <2>1
<1>6. f \in Surjection(P, [episode : 1 .. 2, artifact : 1 .. 2])
  BY <1>4, <1>5 DEF Surjection
<1> QED BY <1>3, <1>6, FS_Surjection DEF ExistsSurjection

Small(db) == Older(db, 1 .. 2, 1 .. 2, {"created", "deleted"}, 11 .. 12, {})

LEMMA CasesAreOlder ==
  ASSUME NEW db \in LegacyDatabases \cup OldestDatabases \cup {Schema!Empty}
  PROVE  Small(db)
<1>1. Observations \subseteq [observation : 11 .. 12, episode : 1 .. 2]
  BY DEF Observations
<1>2. \A o, p \in Observations : o.observation = p.observation => o = p
  BY DEF Observations
<1>3. CASE db = Schema!Empty
  <2>1. IsFiniteSet({})
    BY FS_EmptySet
  <2> QED BY <1>3, <2>1 DEF Small, Older, Databases, Keyed, Schema!Empty
<1>4. CASE db \in OldestDatabases
  <2>1. PICK owner \in [1 .. 2 -> Owners] :
          db = [version |-> 1, artifacts |-> Owned(owner), associations |-> {}, shown |-> {},
                observations |-> Observations, evidence |-> {}]
    BY <1>4 DEF OldestDatabases
  <2>2. PICK R : R = Owned(owner)
    OBVIOUS
  <2>3. /\ R \subseteq Artifacts(1 .. 2, 1 .. 2, {"created", "deleted"}) /\ IsFiniteSet(R)
        /\ \A a, b \in R : a.artifact = b.artifact => a = b
    BY <2>2, OwnedRows
  <2>4. db = [version |-> 1, artifacts |-> R, associations |-> {}, shown |-> {},
              observations |-> Observations, evidence |-> {}]
    BY <2>1, <2>2
  <2>5. IsFiniteSet({})
    BY FS_EmptySet
  <2> QED BY <1>1, <1>2, <2>3, <2>4, <2>5 DEF Small, Older, Databases, Keyed
<1>5. CASE db \in LegacyDatabases
  <2>1. PICK v \in 2 .. 3, owner \in [1 .. 2 -> Owners], links \in SUBSET Links,
             shown \in SUBSET [observation : 11 .. 12, artifact : 1 .. 2] :
          db = [version |-> v, artifacts |-> Owned(owner), associations |-> links,
                shown |-> shown, observations |-> Observations, evidence |-> {}]
    BY <1>5 DEF LegacyDatabases
  <2>2. LegacyValid(db)
    BY <1>5 DEF LegacyDatabases
  <2>3. PICK R : R = Owned(owner)
    OBVIOUS
  <2>4. /\ R \subseteq Artifacts(1 .. 2, 1 .. 2, {"created", "deleted"}) /\ IsFiniteSet(R)
        /\ \A a, b \in R : a.artifact = b.artifact => a = b
    BY <2>3, OwnedRows
  <2>5. db = [version |-> v, artifacts |-> R, associations |-> links,
              shown |-> shown, observations |-> Observations, evidence |-> {}]
    BY <2>1, <2>3
  <2>6. IsFiniteSet(links)
    BY LinksAreFinite, FS_Subset DEF Links
  <2>7. links \subseteq [episode : 1 .. 2, artifact : 1 .. 2]
    BY DEF Links
  <2> QED BY <1>1, <1>2, <2>2, <2>4, <2>5, <2>6, <2>7 DEF Small, Older, Databases, Keyed
<1> QED BY <1>3, <1>4, <1>5

LEMMA MigrationsKeepCases ==
  ASSUME NEW case \in MigrationCases
  PROVE  MigrationKeepsRowsIn(case)
<1>1. PICK db \in LegacyDatabases \cup OldestDatabases \cup
                  {Schema!Empty, [Schema!Empty EXCEPT !.version = 5]} :
        case = [of |-> "migration", db |-> db]
  BY DEF MigrationCases
<1>2. case.db = db
  BY <1>1
<1>3. PICK new : new = Schema!Initialized(db)
  OBVIOUS
<1>4. CASE Small(db)
  <2>1. db.version \in 0 .. 3 /\ (db.version < 2 => db.shown = {})
    BY <1>4 DEF Small, Older, Databases
  <2>2. /\ new.version = Schema!SupportedVersion /\ Schema!KeysHold(new)
        /\ Schema!Initialized(new) = new /\ Kept(new, db)
    BY <1>3, <1>4, MigrationsKeepRows DEF Small
  <2>3. ~(db.version > Schema!SupportedVersion)
    BY <2>1 DEF Schema!SupportedVersion
  <2>4. \A o, e : db.version < 2 => Schema!ShownBy(db, o, e) = {}
    BY <2>1 DEF Schema!ShownBy
  <2>5. \A e \in 1 .. 2 : Schema!Accessible(new, e) = Schema!Accessible(db, e)
    BY <2>2 DEF Kept
  <2>6. \A e \in 1 .. 2, o \in 11 .. 12 :
          Schema!ShownBy(new, o, e) =
            IF db.version < 2 THEN {} ELSE Schema!ShownBy(db, o, e)
    BY <2>2, <2>4 DEF Kept
  <2> QED BY <1>2, <1>3, <2>2, <2>3, <2>5, <2>6, Zenon DEF MigrationKeepsRowsIn
<1>5. CASE db = [Schema!Empty EXCEPT !.version = 5]
  <2>1. db.version = 5
    BY <1>5 DEF Schema!Empty
  <2>2. db.version > Schema!SupportedVersion
    BY <2>1 DEF Schema!SupportedVersion
  <2>3. new = None
    BY <1>3, <2>2, Zenon DEF Schema!Initialized
  <2> QED BY <1>2, <1>3, <2>2, <2>3, Zenon DEF MigrationKeepsRowsIn
<1> QED BY <1>1, <1>4, <1>5, CasesAreOlder

-------------------------------------------------------------------------------
(* The first API *)

FirstBoxes == [west : Int, east : Int, south : Int, north : Int]

\* What an agent may ask for; in W are all answers and all names of layers.
FirstActions(W) ==
  [type : {"set_view"}, box : FirstBoxes] \cup
  [type : {"pan"}, east : Int, north : Int] \cup
  [type : {"zoom"}, direction : {"in", "out"}, factor : Int] \cup
  [type : {"set_layer_visibility"}, layer : W, visible : BOOLEAN] \cup
  [type : {"set_layer_opacity"}, layer : W, opacity : Int] \cup
  [type : {"submit_answer"}, answer : W]

FirstViews == [box : FirstBoxes, longitude : Int, latitude : Int]

FirstLayers == [worldcover : [visible : BOOLEAN, opacity : Int]]

FirstStates(W) ==
  [status : {"active", "terminated", "truncated"}, steps : Nat, max_steps : Nat,
   view : FirstViews, layers : FirstLayers, answer : W]

\* No error is None.
ErrorsAreErrors ==
  None \notin {"episode_closed", "invalid_bbox", "invalid_pan", "invalid_zoom", "unknown_layer",
               "invalid_opacity", "invalid_answer", "unsupported_action", "idempotency_conflict"}

LEMMA ActionParts ==
  ASSUME NEW W, NEW action \in FirstActions(W)
  PROVE  /\ action.type \in {"set_view", "pan", "zoom", "set_layer_visibility",
                             "set_layer_opacity", "submit_answer"}
         /\ action.type = "set_view" => action.box \in FirstBoxes
         /\ action.type = "pan" => action.east \in Int /\ action.north \in Int
         /\ action.type = "zoom" => action.direction \in {"in", "out"} /\ action.factor \in Int
         /\ action.type = "set_layer_visibility" => action.visible \in BOOLEAN
         /\ action.type = "set_layer_opacity" => action.opacity \in Int
         /\ action.type = "submit_answer" => action.answer \in W
BY DEF FirstActions

LEMMA FirstSmaller ==
  ASSUME NEW a \in Int, NEW b \in Int
  PROVE  V1!Min({a, b}) \in {a, b} /\ V1!Min({a, b}) <= a /\ V1!Min({a, b}) <= b
BY DEF V1!Min

LEMMA FirstLarger ==
  ASSUME NEW a \in Int, NEW b \in Int
  PROVE  V1!Max({a, b}) \in {a, b} /\ V1!Max({a, b}) >= a /\ V1!Max({a, b}) >= b
BY DEF V1!Max

Inside(r, lo, hi, span) ==
  /\ r[1] \in Int /\ r[2] \in Int /\ lo <= r[1] /\ r[1] < r[2] /\ r[2] <= hi
  /\ (1 <= span /\ span <= hi - lo) => r[2] - r[1] = span

\* A range that is moved back inside, and keeps its size if it can.
LEMMA RangeIsInside ==
  ASSUME NEW centre \in Int, NEW span \in Int, NEW lo \in Int, NEW hi \in Int, lo < hi,
         NEW r, r = V1!BoundedRange(centre, span, <<lo, hi>>)
  PROVE  Inside(r, lo, hi, span)
<1>1. PICK all, wide : all = hi - lo /\ wide = V1!Max({span, 1})
  OBVIOUS
<1>2. wide \in {span, 1} /\ wide >= 1 /\ wide >= span /\ all \in Int /\ all >= 1 /\ wide \in Int
  <2>1. 1 \in Int
    OBVIOUS
  <2>2. wide \in {span, 1} /\ wide >= span /\ wide >= 1
    BY <1>1, <2>1, FirstLarger, Zenon
  <2> QED BY <1>1, <2>1, <2>2
<1>3. PICK width : width = V1!Min({wide, all})
  OBVIOUS
<1>4. width \in {wide, all} /\ width <= wide /\ width <= all /\ width \in Int
  BY <1>2, <1>3, FirstSmaller
<1>5. PICK start : start = centre - width \div 2
  OBVIOUS
<1>6. start \in Int
  BY <1>4, <1>5
<1>7. PICK low : low = V1!Max({start, lo})
  OBVIOUS
<1>8. low \in {start, lo} /\ low >= lo /\ low \in Int
  BY <1>6, <1>7, FirstLarger
<1>9. PICK end : end = low + width
  OBVIOUS
<1>10. end \in Int
  BY <1>4, <1>8, <1>9
<1>11. PICK high : high = V1!Min({end, hi})
  OBVIOUS
<1>12. high \in {end, hi} /\ high <= hi /\ high <= end /\ high \in Int
  BY <1>10, <1>11, FirstSmaller
<1>13. r = <<high - width, high>>
  BY <1>1, <1>3, <1>5, <1>7, <1>9, <1>11 DEF V1!BoundedRange
<1>14. r[1] = high - width /\ r[2] = high
  BY <1>13
<1> QED BY <1>1, <1>2, <1>4, <1>8, <1>9, <1>12, <1>14 DEF Inside

LEMMA BoxIsInside ==
  ASSUME NEW longitude \in Int, NEW latitude \in Int, NEW width \in Int, NEW height \in Int,
         NEW box, box = V1!BoxFromCentre(longitude, latitude, width, height)
  PROVE  /\ box \in FirstBoxes /\ V1!BoxValid(box)
         /\ (1 <= width /\ width <= 32) => V1!Width(box) = width
         /\ (1 <= height /\ height <= 16) => V1!Height(box) = height
<1>1. PICK across, up : /\ across = V1!BoundedRange(longitude, width, <<-16, 16>>)
                        /\ up = V1!BoundedRange(latitude, height, <<-8, 8>>)
  OBVIOUS
<1>2. -16 \in Int /\ 16 \in Int /\ -16 < 16 /\ -8 \in Int /\ 8 \in Int /\ -8 < 8
  OBVIOUS
<1>3. /\ across[1] \in Int /\ across[2] \in Int /\ -16 <= across[1] /\ across[1] < across[2]
      /\ across[2] <= 16
      /\ (1 <= width /\ width <= 32) => across[2] - across[1] = width
  <2>1. Inside(across, -16, 16, width)
    BY <1>1, <1>2, RangeIsInside, Zenon
  <2> QED BY <2>1 DEF Inside
<1>4. /\ up[1] \in Int /\ up[2] \in Int /\ -8 <= up[1] /\ up[1] < up[2] /\ up[2] <= 8
      /\ (1 <= height /\ height <= 16) => up[2] - up[1] = height
  <2>1. Inside(up, -8, 8, height)
    BY <1>1, <1>2, RangeIsInside, Zenon
  <2> QED BY <2>1 DEF Inside
<1>5. box = [west |-> across[1], east |-> across[2], south |-> up[1], north |-> up[2]]
  BY <1>1 DEF V1!BoxFromCentre, V1!Longitudes, V1!Latitudes
<1>6. /\ box.west = across[1] /\ box.east = across[2] /\ box.south = up[1] /\ box.north = up[2]
      /\ box \in FirstBoxes
  BY <1>3, <1>4, <1>5 DEF FirstBoxes
<1>7. V1!BoxValid(box)
  BY <1>3, <1>4, <1>6 DEF V1!BoxValid, V1!Longitudes, V1!Latitudes
<1> QED BY <1>3, <1>4, <1>6, <1>7 DEF V1!Width, V1!Height

LEMMA ViewOfBox ==
  ASSUME NEW box \in FirstBoxes
  PROVE  V1!View(box) \in FirstViews /\ V1!View(box).box = box
BY DEF FirstBoxes, FirstViews, V1!View

\* What status, steps and answer of a state have to do with each other.
Consistent(s, max) ==
  /\ s.max_steps = max /\ s.steps <= max
  /\ s.status = "terminated" <=> s.answer # None
  /\ s.status = "truncated" <=> (s.steps = max /\ s.answer = None)
  /\ V1!BoxValid(s.view.box)

SameSize(new, old) ==
  V1!Width(new.view.box) = V1!Width(old.view.box) /\ V1!Height(new.view.box) = V1!Height(old.view.box)

\* A change keeps everything but what its action is about.
Change(new, s, action, W) ==
  /\ new \in FirstStates(W) /\ V1!BoxValid(new.view.box)
  /\ new.steps = s.steps /\ new.max_steps = s.max_steps
  /\ action.type = "pan" => SameSize(new, s)
  /\ action.type = "submit_answer" => new.status = "terminated" /\ new.answer # None
  /\ action.type # "submit_answer" => new.status = s.status /\ new.answer = s.answer

LEMMA ChangesAreSound ==
  ASSUME ErrorsAreErrors, NEW W, NEW s \in FirstStates(W), V1!BoxValid(s.view.box),
         NEW action \in FirstActions(W), V1!ActionError(s, action) = None,
         NEW new, new = V1!Changed(s, action)
  PROVE  Change(new, s, action, W)
<1>1. /\ action.type \in {"set_view", "pan", "zoom", "set_layer_visibility",
                          "set_layer_opacity", "submit_answer"}
      /\ action.type = "set_view" => action.box \in FirstBoxes
      /\ action.type = "pan" => action.east \in Int /\ action.north \in Int
      /\ action.type = "zoom" => action.direction \in {"in", "out"} /\ action.factor \in Int
      /\ action.type = "set_layer_visibility" => action.visible \in BOOLEAN
      /\ action.type = "set_layer_opacity" => action.opacity \in Int
      /\ action.type = "submit_answer" => action.answer \in W
  BY ActionParts
<1>2. /\ s.status = "active"
      /\ action.type = "set_view" => V1!BoxValid(action.box)
      /\ action.type = "zoom" => action.factor \in 2..8
      /\ action.type \in {"set_layer_visibility", "set_layer_opacity"} =>
           action.layer \in DOMAIN s.layers
      /\ action.type = "submit_answer" => action.answer # None
  BY <1>1 DEF ErrorsAreErrors, V1!ActionError
<1>3. /\ s.view \in FirstViews /\ s.view.box \in FirstBoxes /\ s.layers \in FirstLayers
      /\ s.view.longitude \in Int /\ s.view.latitude \in Int
      /\ DOMAIN s.layers = {"worldcover"}
  BY DEF FirstStates, FirstViews, FirstLayers
<1>4. PICK width, height : width = V1!Width(s.view.box) /\ height = V1!Height(s.view.box)
  OBVIOUS
<1>5. width \in Int /\ height \in Int /\ 1 <= width /\ width <= 32 /\ 1 <= height /\ height <= 16
  BY <1>3, <1>4 DEF FirstBoxes, V1!Width, V1!Height, V1!BoxValid, V1!Longitudes, V1!Latitudes
<1>6. ASSUME NEW box \in FirstBoxes, V1!BoxValid(box), new = [s EXCEPT !.view = V1!View(box)]
      PROVE  /\ new \in FirstStates(W) /\ V1!BoxValid(new.view.box) /\ new.view.box = box
             /\ new.steps = s.steps /\ new.max_steps = s.max_steps
             /\ new.status = s.status /\ new.answer = s.answer
  <2>1. PICK view : view = V1!View(box)
    OBVIOUS
  <2>2. view \in FirstViews /\ view.box = box
    BY <2>1, ViewOfBox
  <2> QED BY <1>6, <2>1, <2>2 DEF FirstStates
<1>7. CASE action.type = "set_view"
  <2>1. new = [s EXCEPT !.view = V1!View(action.box)]
    BY <1>7 DEF V1!Changed
  <2> QED BY <1>1, <1>2, <1>6, <1>7, <2>1 DEF Change
<1>8. CASE action.type = "pan"
  <2>1. PICK box, longitude, latitude :
          /\ box = V1!BoxFromCentre(longitude, latitude, width, height)
          /\ longitude = s.view.longitude + action.east /\ latitude = s.view.latitude + action.north
    OBVIOUS
  <2>2. longitude \in Int /\ latitude \in Int
    BY <1>1, <1>3, <1>8, <2>1
  <2>3. /\ box \in FirstBoxes /\ V1!BoxValid(box)
        /\ V1!Width(box) = width /\ V1!Height(box) = height
    BY <1>5, <2>1, <2>2, BoxIsInside
  <2>4. box = V1!Panned(s.view, action)
    BY <1>4, <2>1 DEF V1!Panned
  <2>5. new = [s EXCEPT !.view = V1!View(V1!Panned(s.view, action))]
    BY <1>8 DEF V1!Changed
  <2> QED BY <1>4, <1>6, <1>8, <2>3, <2>4, <2>5 DEF Change, SameSize
<1>9. CASE action.type = "zoom"
  <2>1. PICK w, h :
          /\ w = IF action.direction = "in" THEN width \div action.factor ELSE width * action.factor
          /\ h = IF action.direction = "in" THEN height \div action.factor ELSE height * action.factor
    OBVIOUS
  <2>2. w \in Int /\ h \in Int
    BY <1>2, <1>5, <1>9, <2>1
  <2>3. PICK box : box = V1!BoxFromCentre(s.view.longitude, s.view.latitude, w, h)
    OBVIOUS
  <2>4. box \in FirstBoxes /\ V1!BoxValid(box)
    BY <1>3, <2>2, <2>3, BoxIsInside
  <2>5. box = V1!Zoomed(s.view, action)
    BY <1>4, <2>1, <2>3 DEF V1!Zoomed
  <2>6. new = [s EXCEPT !.view = V1!View(V1!Zoomed(s.view, action))]
    BY <1>9 DEF V1!Changed
  <2> QED BY <1>6, <1>9, <2>4, <2>5, <2>6 DEF Change
<1>10. CASE action.type = "set_layer_visibility"
  <2>1. new = [s EXCEPT !.layers["worldcover"].visible = action.visible]
    BY <1>2, <1>3, <1>10 DEF V1!Changed
  <2>2. new \in FirstStates(W) /\ new.view = s.view /\ new.steps = s.steps
        /\ new.max_steps = s.max_steps /\ new.status = s.status /\ new.answer = s.answer
    BY <1>1, <1>3, <1>10, <2>1 DEF FirstStates, FirstLayers
  <2> QED BY <1>10, <2>2 DEF Change
<1>11. CASE action.type = "set_layer_opacity"
  <2>1. new = [s EXCEPT !.layers["worldcover"].opacity = action.opacity]
    BY <1>2, <1>3, <1>11 DEF V1!Changed
  <2>2. new \in FirstStates(W) /\ new.view = s.view /\ new.steps = s.steps
        /\ new.max_steps = s.max_steps /\ new.status = s.status /\ new.answer = s.answer
    BY <1>1, <1>3, <1>11, <2>1 DEF FirstStates, FirstLayers
  <2> QED BY <1>11, <2>2 DEF Change
<1>12. CASE action.type = "submit_answer"
  <2>1. new = [s EXCEPT !.answer = action.answer, !.status = "terminated"]
    BY <1>12 DEF V1!Changed
  <2>2. new \in FirstStates(W) /\ new.view = s.view /\ new.steps = s.steps
        /\ new.max_steps = s.max_steps /\ new.status = "terminated" /\ new.answer = action.answer
    BY <1>1, <1>12, <2>1 DEF FirstStates
  <2> QED BY <1>2, <1>12, <2>2 DEF Change
<1> QED BY <1>1, <1>7, <1>8, <1>9, <1>10, <1>11, <1>12

LEMMA AppliedIsConsistent ==
  ASSUME ErrorsAreErrors, NEW W, NEW s \in FirstStates(W), NEW max \in Nat, Consistent(s, max),
         NEW action \in FirstActions(W), V1!ActionError(s, action) = None,
         NEW next, next = V1!Applied(s, action)
  PROVE  /\ next \in FirstStates(W) /\ Consistent(next, max) /\ next.steps = s.steps + 1
         /\ action.type = "pan" => SameSize(next, s)
<1>1. PICK new : new = V1!Changed(s, action)
  OBVIOUS
<1>2. Change(new, s, action, W)
  BY <1>1, ChangesAreSound DEF Consistent
<1>3. s.status = "active" /\ s.steps \in Nat /\ s.max_steps = max /\ s.answer = None /\ s.steps < max
  <2>1. s.status = "active"
    BY DEF ErrorsAreErrors, V1!ActionError
  <2> QED BY <2>1 DEF Consistent, FirstStates
<1>4. PICK status : status = IF new.status = "active" /\ s.steps + 1 >= max THEN "truncated"
                             ELSE new.status
  OBVIOUS
<1>5. next = [new EXCEPT !.steps = s.steps + 1, !.status = status]
  BY <1>1, <1>3, <1>4 DEF V1!Applied
<1>6. status \in {"active", "terminated", "truncated"}
  BY <1>2, <1>4 DEF Change, FirstStates
<1>7. /\ next \in FirstStates(W) /\ next.steps = s.steps + 1 /\ next.status = status
      /\ next.view = new.view /\ next.answer = new.answer /\ next.max_steps = new.max_steps
  <2>1. PICK steps : steps = s.steps + 1
    OBVIOUS
  <2>2. steps \in Nat /\ new \in FirstStates(W)
    BY <1>2, <1>3, <2>1 DEF Change
  <2>3. next = [new EXCEPT !.steps = steps, !.status = status]
    BY <1>5, <2>1
  <2> QED BY <1>6, <2>1, <2>2, <2>3 DEF FirstStates
<1>8. action.type = "pan" => SameSize(next, s)
  BY <1>2, <1>7 DEF Change, SameSize
<1>9. CASE action.type = "submit_answer"
  BY <1>2, <1>3, <1>4, <1>7, <1>8, <1>9 DEF Change, Consistent
<1>10. CASE action.type # "submit_answer"
  BY <1>2, <1>3, <1>4, <1>7, <1>8, <1>10 DEF Change, Consistent
<1> QED BY <1>9, <1>10

-------------------------------------------------------------------------------
(* Its store *)

FirstResponses(I, W) ==
  [error : {None}, state : FirstStates(W), id : I, terminated : BOOLEAN, truncated : BOOLEAN,
   remaining : Int]

FirstTransitions(I, W) ==
  [sequence : Nat, id : I, action : FirstActions(W), state : FirstStates(W),
   response : FirstResponses(I, W)]

FirstStores(I, W) ==
  [initial : FirstStates(W), state : FirstStates(W), transitions : Seq(FirstTransitions(I, W))]

FirstCalls(I, W) == [id : I, action : FirstActions(W)]

\* Where a transition begins.
Before(db, i) == IF i = 1 THEN db.initial ELSE db.transitions[i - 1].state

\* One link of the chain of transitions.
Linked(db, i) ==
  LET t == db.transitions[i]
  IN /\ t.sequence = i /\ t.state.steps = i
     /\ t.state = V1!Applied(Before(db, i), t.action)
     /\ Consistent(t.state, db.initial.max_steps)
     /\ t.action.type = "pan" => SameSize(t.state, Before(db, i))
     /\ t.response = V1!Response(t.state, t.id)

\* The invariant of an episode's rows.
Intact(db, I, W) ==
  /\ db \in FirstStores(I, W)
  /\ db.initial.max_steps \in Nat \ {0} /\ Consistent(db.initial, db.initial.max_steps)
  /\ db.initial.steps = 0
  /\ \A i \in DOMAIN db.transitions : Linked(db, i)
  /\ db.state = IF db.transitions = <<>> THEN db.initial
                ELSE db.transitions[Len(db.transitions)].state
  /\ \A i, j \in DOMAIN db.transitions :
       db.transitions[i].id # None /\ db.transitions[i].id = db.transitions[j].id => i = j

\* Rows are only ever added.
Longer(new, old) ==
  /\ new.initial = old.initial
  /\ Len(old.transitions) <= Len(new.transitions)
  /\ \A i \in DOMAIN old.transitions : new.transitions[i] = old.transitions[i]

\* The answer to a call with an id is in its row.
Settled(db, call, answer) ==
  (answer.error = None /\ call.id # None) =>
    \E i \in DOMAIN db.transitions :
      /\ db.transitions[i].id = call.id /\ db.transitions[i].action = call.action
      /\ db.transitions[i].response = answer

LEMMA BeginningIsWhole ==
  ASSUME NEW I, NEW W, None \in W, NEW specification, V1!SpecificationValid(specification),
         specification.view \in FirstBoxes, NEW db, db = V1!Reset(specification)
  PROVE  Intact(db, I, W)
<1>1. PICK view, max : view = V1!View(specification.view) /\ max = specification.max_steps
  OBVIOUS
<1>2. view \in FirstViews /\ view.box = specification.view
  BY <1>1, ViewOfBox
<1>3. max \in 1 .. 1000 /\ V1!BoxValid(specification.view)
  BY <1>1 DEF V1!SpecificationValid
<1>4. PICK s : s = V1!InitialState(specification)
  OBVIOUS
<1>5. s = [status |-> "active", steps |-> 0, max_steps |-> max, view |-> view,
           layers |-> [worldcover |-> [visible |-> TRUE, opacity |-> 1]], answer |-> None]
  BY <1>1, <1>4 DEF V1!InitialState
<1>6. PICK layers : layers = [worldcover |-> [visible |-> TRUE, opacity |-> 1]]
  OBVIOUS
<1>7. layers \in FirstLayers
  BY <1>6 DEF FirstLayers
<1>8. s \in FirstStates(W) /\ s.max_steps = max /\ s.steps = 0 /\ s.status = "active"
      /\ s.answer = None /\ s.view = view
  BY <1>2, <1>3, <1>5, <1>6, <1>7 DEF FirstStates
<1>9. Consistent(s, max)
  BY <1>2, <1>3, <1>8 DEF Consistent
<1>10. db = [initial |-> s, state |-> s, transitions |-> <<>>]
  BY <1>4 DEF V1!Reset
<1>11. <<>> \in Seq(FirstTransitions(I, W)) /\ DOMAIN <<>> = {}
  OBVIOUS
<1>12. db \in FirstStores(I, W) /\ db.initial = s /\ db.state = s /\ db.transitions = <<>>
  BY <1>8, <1>10, <1>11 DEF FirstStores
<1> QED BY <1>3, <1>8, <1>9, <1>11, <1>12 DEF Intact

\* One more row.
LEMMA NextIsWhole ==
  ASSUME ErrorsAreErrors, NEW I, NEW W, NEW db, Intact(db, I, W), NEW call \in FirstCalls(I, W),
         V1!ActionError(db.state, call.action) = None, V1!Prior(db, call.id) = {},
         NEW next, next = V1!Applied(db.state, call.action),
         NEW new, new = V1!Transitioned(db, call, next)
  PROVE  /\ Intact(new.db, I, W) /\ Longer(new.db, db) /\ Settled(new.db, call, new.answer)
<1>1. PICK max, n, id, action, old :
        /\ max = db.initial.max_steps /\ n = Len(db.transitions)
        /\ id = call.id /\ action = call.action /\ old = db.transitions
  OBVIOUS
<1>2. /\ db \in FirstStores(I, W) /\ old \in Seq(FirstTransitions(I, W)) /\ n \in Nat
      /\ max \in Nat \ {0} /\ DOMAIN old = 1 .. n /\ id \in I /\ action \in FirstActions(W)
      /\ db.state \in FirstStates(W) /\ db.initial \in FirstStates(W)
  BY <1>1 DEF Intact, FirstStores, FirstCalls
<1>3. db.state = Before(db, n + 1) /\ Consistent(db.state, max) /\ db.state.steps = n
  <2>1. CASE n = 0
    <3>1. old = <<>>
      <4>1. PICK S : S = FirstTransitions(I, W)
        OBVIOUS
      <4>2. old \in Seq(S) /\ Len(old) = 0
        BY <1>1, <1>2, <2>1, <4>1
      <4> QED BY <4>2
    <3> QED BY <1>1, <2>1, <3>1 DEF Intact, Before
  <2>2. CASE n # 0
    <3>1. old # <<>> /\ n \in DOMAIN old /\ (n + 1) - 1 = n /\ n + 1 # 1
      BY <1>1, <1>2, <2>2
    <3>2. Linked(db, n) /\ db.state = old[n].state
      BY <1>1, <3>1 DEF Intact
    <3> QED BY <1>1, <3>1, <3>2 DEF Before, Linked
  <2> QED BY <2>1, <2>2
<1>4. /\ next \in FirstStates(W) /\ Consistent(next, max) /\ next.steps = n + 1
      /\ action.type = "pan" => SameSize(next, db.state)
  BY <1>1, <1>2, <1>3, AppliedIsConsistent
<1>5. PICK response : response = V1!Response(next, id)
  OBVIOUS
<1>6. response \in FirstResponses(I, W) /\ response.error = None
  <2>1. PICK left : left = next.max_steps - next.steps
    OBVIOUS
  <2>2. left \in Int /\ 0 \in Int
    BY <1>4, <2>1 DEF FirstStates
  <2>3. V1!Max({left, 0}) \in Int
    BY <2>2, FirstLarger
  <2>4. PICK remaining : remaining = V1!Max({left, 0})
    OBVIOUS
  <2>5. response = [error |-> None, state |-> next, id |-> id,
                    terminated |-> next.status = "terminated",
                    truncated |-> next.status = "truncated", remaining |-> remaining]
    BY <1>5, <2>1, <2>4 DEF V1!Response
  <2> QED BY <1>2, <1>4, <2>3, <2>4, <2>5 DEF FirstResponses
<1>7. PICK t : t = [sequence |-> n + 1, id |-> id, action |-> action, state |-> next,
                    response |-> response]
  OBVIOUS
<1>8. /\ t \in FirstTransitions(I, W) /\ t.sequence = n + 1 /\ t.id = id /\ t.action = action
      /\ t.state = next /\ t.response = response
  BY <1>2, <1>4, <1>6, <1>7 DEF FirstTransitions
<1>9. PICK rows : rows = Append(old, t)
  OBVIOUS
<1>10. /\ rows \in Seq(FirstTransitions(I, W)) /\ Len(rows) = n + 1 /\ DOMAIN rows = 1 .. (n + 1)
       /\ rows[n + 1] = t /\ (\A i \in 1 .. n : rows[i] = old[i]) /\ rows # <<>>
  BY <1>1, <1>2, <1>8, <1>9
<1>11. PICK after : after = [db EXCEPT !.state = next, !.transitions = rows]
  OBVIOUS
<1>12. new.db = after /\ new.answer = response
  BY <1>1, <1>4, <1>5, <1>7, <1>9, <1>11 DEF V1!Transitioned
<1>13. /\ after \in FirstStores(I, W) /\ after.initial = db.initial /\ after.state = next
       /\ after.transitions = rows
  BY <1>2, <1>4, <1>10, <1>11 DEF FirstStores
<1>14. ASSUME NEW i \in 1 .. (n + 1) PROVE Linked(after, i)
  <2>1. CASE i = n + 1
    <3>1. Before(after, i) = db.state
      <4>1. CASE n = 0
        BY <1>3, <1>13, <2>1, <4>1 DEF Before
      <4>2. CASE n # 0
        <5>1. i # 1 /\ n + 1 # 1 /\ i - 1 = n /\ (n + 1) - 1 = n /\ n \in 1 .. n
          BY <1>2, <2>1, <4>2
        <5> QED BY <1>1, <1>3, <1>10, <1>13, <5>1 DEF Before
      <4> QED BY <4>1, <4>2
    <3>2. after.transitions[i] = t
      BY <1>10, <1>13, <2>1
    <3> QED BY <1>1, <1>4, <1>5, <1>8, <1>13, <2>1, <3>1, <3>2 DEF Linked
  <2>2. CASE i # n + 1
    <3>1. i \in 1 .. n /\ i - 1 \in 0 .. n /\ (i # 1 => i - 1 \in 1 .. n)
      BY <1>2, <2>2
    <3>2. after.transitions[i] = db.transitions[i] /\ Linked(db, i)
      BY <1>1, <1>2, <1>10, <1>13, <3>1 DEF Intact
    <3>3. Before(after, i) = Before(db, i)
      BY <1>1, <1>10, <1>13, <3>1 DEF Before
    <3> QED BY <1>13, <3>2, <3>3 DEF Linked
  <2> QED BY <2>1, <2>2
<1>15. \A i \in 1 .. n : id # None => old[i].id # id
  BY <1>1, <1>2 DEF V1!Prior
<1>16. ASSUME NEW i \in 1 .. (n + 1), NEW j \in 1 .. (n + 1), rows[i].id # None,
              rows[i].id = rows[j].id
       PROVE  i = j
  <2>1. CASE i \in 1 .. n /\ j \in 1 .. n
    BY <1>1, <1>2, <1>10, <1>16, <2>1 DEF Intact
  <2>2. CASE i \notin 1 .. n /\ j \notin 1 .. n
    BY <1>2, <2>2
  <2>3. CASE i \in 1 .. n /\ j \notin 1 .. n
    <3>1. j = n + 1
      BY <1>2, <2>3
    <3> QED BY <1>8, <1>10, <1>15, <1>16, <2>3, <3>1
  <2>4. CASE i \notin 1 .. n /\ j \in 1 .. n
    <3>1. i = n + 1
      BY <1>2, <2>4
    <3> QED BY <1>8, <1>10, <1>15, <1>16, <2>4, <3>1
  <2> QED BY <2>1, <2>2, <2>3, <2>4
<1>17. Intact(after, I, W)
  BY <1>1, <1>2, <1>8, <1>10, <1>13, <1>14, <1>16 DEF Intact
<1>18. Longer(after, db)
  BY <1>1, <1>2, <1>10, <1>13 DEF Longer
<1>19. Settled(after, call, response)
  <2>1. n + 1 \in DOMAIN rows
    BY <1>2, <1>10
  <2> QED BY <1>1, <1>8, <1>10, <1>13, <2>1 DEF Settled
<1> QED BY <1>12, <1>17, <1>18, <1>19

\* A call: the rows stay whole, and what is settled needs no other.
LEMMA StepIsWhole ==
  ASSUME ErrorsAreErrors, NEW I, NEW W, NEW db, Intact(db, I, W), NEW call \in FirstCalls(I, W),
         NEW new, new = V1!Step(db, call)
  PROVE  /\ Intact(new.db, I, W) /\ Longer(new.db, db) /\ Settled(new.db, call, new.answer)
<1>1. Longer(db, db)
  <2>1. Len(db.transitions) \in Nat
    BY DEF Intact, FirstStores
  <2> QED BY <2>1 DEF Longer
<1>2. CASE V1!Prior(db, call.id) = {}
  <2>1. PICK error : error = V1!ActionError(db.state, call.action)
    OBVIOUS
  <2>2. new = V1!SteppedAnew(db, call)
    BY <1>2 DEF V1!Step
  <2>3. CASE error # None
    <3>1. new = [db |-> db, answer |-> [error |-> error]]
      BY <2>1, <2>2, <2>3 DEF V1!SteppedAnew, V1!Failed
    <3>2. new.db = db /\ new.answer.error # None
      BY <2>3, <3>1
    <3> QED BY <1>1, <3>2 DEF Settled
  <2>4. CASE error = None
    <3>1. new = V1!Transitioned(db, call, V1!Applied(db.state, call.action))
      BY <2>1, <2>2, <2>4 DEF V1!SteppedAnew
    <3> QED BY <1>2, <2>1, <2>4, <3>1, NextIsWhole
  <2> QED BY <2>3, <2>4
<1>3. CASE V1!Prior(db, call.id) # {}
  <2>1. PICK i : i = CHOOSE k \in V1!Prior(db, call.id) : TRUE
    OBVIOUS
  <2>2. i \in V1!Prior(db, call.id)
    BY <1>3, <2>1
  <2>3. PICK prior : prior = db.transitions[i]
    OBVIOUS
  <2>4. i \in DOMAIN db.transitions /\ call.id # None /\ prior.id = call.id
    BY <2>2, <2>3 DEF V1!Prior
  <2>5. CASE prior.action # call.action
    <3>1. new = [db |-> db, answer |-> [error |-> "idempotency_conflict"]]
      BY <1>3, <2>1, <2>3, <2>5 DEF V1!Step, V1!Failed
    <3>2. new.db = db /\ new.answer.error # None
      BY <3>1 DEF ErrorsAreErrors
    <3> QED BY <1>1, <3>2 DEF Settled
  <2>6. CASE prior.action = call.action
    <3>1. new = [db |-> db, answer |-> prior.response]
      BY <1>3, <2>1, <2>3, <2>6 DEF V1!Step
    <3>2. new.db = db /\ new.answer = prior.response
      BY <3>1
    <3> QED BY <1>1, <2>3, <2>4, <2>6, <3>2 DEF Settled
  <2> QED BY <2>5, <2>6
<1> QED BY <1>2, <1>3

LEMMA SettledStays ==
  ASSUME NEW I, NEW W, NEW db, Intact(db, I, W), NEW new, Intact(new, I, W), Longer(new, db),
         NEW call, NEW answer, Settled(db, call, answer)
  PROVE  Settled(new, call, answer)
<1>1. DOMAIN db.transitions \subseteq DOMAIN new.transitions
  BY DEF Intact, FirstStores, Longer
<1> QED BY <1>1 DEF Settled, Longer

LEMMA SettledRepeats ==
  ASSUME NEW I, NEW W, NEW db, Intact(db, I, W), NEW call, NEW answer, Settled(db, call, answer),
         answer.error = None, call.id # None
  PROVE  V1!Step(db, call) = [db |-> db, answer |-> answer]
<1>1. PICK i \in DOMAIN db.transitions :
        /\ db.transitions[i].id = call.id /\ db.transitions[i].action = call.action
        /\ db.transitions[i].response = answer
  BY DEF Settled
<1>2. V1!Prior(db, call.id) = {i}
  BY <1>1 DEF V1!Prior, Intact
<1>3. (CHOOSE k \in V1!Prior(db, call.id) : TRUE) = i /\ V1!Prior(db, call.id) # {}
  BY <1>2
<1> QED BY <1>1, <1>3, Zenon DEF V1!Step

LEMMA LongerStill ==
  ASSUME NEW I, NEW W, NEW a, NEW b, NEW c, Intact(a, I, W), Intact(b, I, W), Intact(c, I, W),
         Longer(b, a), Longer(c, b)
  PROVE  Longer(c, a)
<1>1. /\ Len(a.transitions) \in Nat /\ Len(b.transitions) \in Nat /\ Len(c.transitions) \in Nat
      /\ DOMAIN a.transitions \subseteq DOMAIN b.transitions
  BY DEF Intact, FirstStores, Longer
<1> QED BY <1>1 DEF Longer

-------------------------------------------------------------------------------
(* Its histories *)

\* The databases before and after each of the calls, and the answers.
Lives(lived, calls, first) ==
  /\ DOMAIN lived.dbs = 1 .. (Len(calls) + 1) /\ Len(lived.dbs) = Len(calls) + 1
  /\ lived.dbs[1] = first
  /\ \A i \in 1 .. Len(calls) :
       /\ lived.dbs[i + 1] = V1!Step(lived.dbs[i], calls[i]).db
       /\ lived.answers[i] = V1!Step(lived.dbs[i], calls[i]).answer

\* Every prefix of a history is sound, and extends to the later ones.
LEMMA HistoriesAreWhole ==
  ASSUME ErrorsAreErrors, NEW I, NEW W, NEW calls \in Seq(FirstCalls(I, W)), NEW first,
         Intact(first, I, W), NEW lived, Lives(lived, calls, first)
  PROVE  /\ \A i \in 1 .. (Len(calls) + 1) : Intact(lived.dbs[i], I, W)
         /\ \A i, j \in 1 .. (Len(calls) + 1) : i <= j => Longer(lived.dbs[j], lived.dbs[i])
         /\ \A i \in 1 .. Len(calls), j \in 1 .. (Len(calls) + 1) :
              i < j => Settled(lived.dbs[j], calls[i], lived.answers[i])
<1>1. PICK n, dbs, answers : n = Len(calls) /\ dbs = lived.dbs /\ answers = lived.answers
  OBVIOUS
<1>2. n \in Nat /\ \A i \in 1 .. n : calls[i] \in FirstCalls(I, W)
  <2>1. PICK C : C = FirstCalls(I, W)
    OBVIOUS
  <2>2. n \in Nat /\ \A i \in 1 .. n : calls[i] \in C
    BY <1>1, <2>1
  <2> QED BY <2>1, <2>2
<1>3. ASSUME NEW i \in 1 .. n, Intact(dbs[i], I, W)
      PROVE  /\ Intact(dbs[i + 1], I, W) /\ Longer(dbs[i + 1], dbs[i])
             /\ Settled(dbs[i + 1], calls[i], answers[i])
  <2>1. PICK new : new = V1!Step(dbs[i], calls[i])
    OBVIOUS
  <2>2. dbs[i + 1] = new.db /\ answers[i] = new.answer
    BY <1>1, <2>1 DEF Lives
  <2>3. calls[i] \in FirstCalls(I, W)
    BY <1>2
  <2> QED BY <1>3, <2>1, <2>2, <2>3, StepIsWhole
<1>4. ASSUME NEW i \in 1 .. (n + 1) PROVE Intact(dbs[i], I, W)
  <2>1. PICK S : S = {k \in Nat : k + 1 \in 1 .. (n + 1) => Intact(dbs[k + 1], I, W)}
    OBVIOUS
  <2>2. 0 \in S
    BY <1>1, <2>1 DEF Lives
  <2>3. ASSUME NEW k \in Nat, k \in S PROVE k + 1 \in S
    <3>1. CASE k + 2 \in 1 .. (n + 1)
      <4>1. k + 1 \in 1 .. n /\ k + 1 \in 1 .. (n + 1) /\ (k + 1) + 1 = k + 2
        BY <1>2, <3>1
      <4>2. Intact(dbs[(k + 1) + 1], I, W)
        BY <1>3, <2>1, <2>3, <4>1
      <4> QED BY <2>1, <4>2
    <3>2. CASE k + 2 \notin 1 .. (n + 1)
      <4>1. (k + 1) + 1 = k + 2 /\ k + 1 \in Nat
        OBVIOUS
      <4> QED BY <2>1, <3>2, <4>1
    <3> QED BY <3>1, <3>2
  <2>4. Nat \subseteq S
    BY <2>2, <2>3, AllNumbers
  <2>5. i - 1 \in Nat /\ (i - 1) + 1 = i
    BY <1>2
  <2> QED BY <2>1, <2>4, <2>5
<1>5. ASSUME NEW i \in 1 .. (n + 1), NEW j \in 1 .. (n + 1), i <= j
      PROVE  Longer(dbs[j], dbs[i])
  <2>1. PICK S : S = {k \in Nat : i + k \in 1 .. (n + 1) => Longer(dbs[i + k], dbs[i])}
    OBVIOUS
  <2>2. 0 \in S
    <3>1. i + 0 = i /\ Intact(dbs[i], I, W)
      BY <1>2, <1>4
    <3>2. Len(dbs[i].transitions) \in Nat
      BY <3>1 DEF Intact, FirstStores
    <3>3. Longer(dbs[i], dbs[i])
      BY <3>2 DEF Longer
    <3> QED BY <2>1, <3>1, <3>3
  <2>3. ASSUME NEW k \in Nat, k \in S PROVE k + 1 \in S
    <3>1. CASE i + (k + 1) \in 1 .. (n + 1)
      <4>1. i + k \in 1 .. n /\ i + k \in 1 .. (n + 1) /\ (i + k) + 1 = i + (k + 1)
        BY <1>2, <3>1
      <4>2. PICK m : m = i + k
        OBVIOUS
      <4>3. Longer(dbs[m], dbs[i]) /\ Intact(dbs[m], I, W)
        BY <1>4, <2>1, <2>3, <4>1, <4>2
      <4>4. Longer(dbs[m + 1], dbs[m]) /\ Intact(dbs[m + 1], I, W)
        BY <1>3, <4>1, <4>2, <4>3
      <4>5. Longer(dbs[m + 1], dbs[i])
        BY <1>4, <4>3, <4>4, LongerStill
      <4> QED BY <2>1, <4>1, <4>2, <4>5
    <3>2. CASE i + (k + 1) \notin 1 .. (n + 1)
      BY <2>1, <3>2
    <3> QED BY <3>1, <3>2
  <2>4. Nat \subseteq S
    BY <2>2, <2>3, AllNumbers
  <2>5. j - i \in Nat /\ i + (j - i) = j
    BY <1>2, <1>5
  <2> QED BY <2>1, <2>4, <2>5
<1>6. ASSUME NEW i \in 1 .. n, NEW j \in 1 .. (n + 1), i < j
      PROVE  Settled(dbs[j], calls[i], answers[i])
  <2>1. i \in 1 .. (n + 1) /\ i + 1 \in 1 .. (n + 1) /\ i + 1 <= j
    BY <1>2, <1>6
  <2>2. Settled(dbs[i + 1], calls[i], answers[i])
    BY <1>3, <1>4, <2>1
  <2>3. PICK m : m = i + 1
    OBVIOUS
  <2>4. Longer(dbs[m], dbs[m]) /\ Longer(dbs[j], dbs[m]) /\ Intact(dbs[m], I, W) /\ Intact(dbs[j], I, W)
    BY <1>2, <1>4, <1>5, <2>1, <2>3
  <2> QED BY <2>2, <2>3, <2>4, SettledStays
<1> QED BY <1>1, <1>4, <1>5, <1>6

LEMMA WholeIsChained ==
  ASSUME NEW I, NEW W, NEW db, Intact(db, I, W)
  PROVE  /\ Chained(db)
         /\ db.state = IF db.transitions = <<>> THEN db.initial ELSE Last(db.transitions).state
         /\ \A t, u \in {t \in ToSet(db.transitions) : t.id # None} : t.id = u.id => t = u
<1>1. PICK max, old, n : max = db.initial.max_steps /\ old = db.transitions /\ n = Len(old)
  OBVIOUS
<1>2. old \in Seq(FirstTransitions(I, W)) /\ n \in Nat /\ DOMAIN old = 1 .. n
  BY <1>1 DEF Intact, FirstStores
<1>3. db.state = IF old = <<>> THEN db.initial ELSE Last(old).state
  BY <1>1 DEF Intact, Last
<1>4. db.state.max_steps = max
  <2>1. CASE old = <<>>
    BY <1>1, <2>1 DEF Intact
  <2>2. CASE old # <<>>
    <3>1. n \in 1 .. n
      <4>1. PICK S : S = FirstTransitions(I, W)
        OBVIOUS
      <4>2. old \in Seq(S)
        BY <1>2, <4>1
      <4> QED BY <1>1, <2>2, <4>2
    <3>2. Linked(db, n) /\ db.state = old[n].state
      BY <1>1, <1>2, <2>2, <3>1 DEF Intact
    <3> QED BY <1>1, <3>2 DEF Linked, Consistent
  <2> QED BY <2>1, <2>2
<1>5. ASSUME NEW i \in DOMAIN old
      PROVE  LET t == old[i]
                 before == IF i = 1 THEN db.initial ELSE old[i - 1].state
             IN /\ t.sequence = i
                /\ t.state = V1!Applied(before, t.action)
                /\ V1!BoxValid(t.state.view.box)
                /\ t.action.type = "pan" =>
                     /\ V1!Width(t.state.view.box) = V1!Width(before.view.box)
                     /\ V1!Height(t.state.view.box) = V1!Height(before.view.box)
                /\ t.state.status = "truncated" <=> i = max /\ t.state.answer = None
  <2>1. Linked(db, i)
    BY <1>1 DEF Intact
  <2>2. PICK t, before : t = old[i] /\ before = Before(db, i)
    OBVIOUS
  <2>3. /\ t.sequence = i /\ t.state.steps = i /\ t.state = V1!Applied(before, t.action)
        /\ Consistent(t.state, max)
        /\ t.action.type = "pan" => SameSize(t.state, before)
    BY <1>1, <2>1, <2>2 DEF Linked
  <2>4. before = IF i = 1 THEN db.initial ELSE old[i - 1].state
    BY <1>1, <2>2 DEF Before
  <2>5. /\ V1!BoxValid(t.state.view.box)
        /\ t.state.status = "truncated" <=> (t.state.steps = max /\ t.state.answer = None)
    BY <2>3 DEF Consistent
  <2>6. t.action.type = "pan" =>
          /\ V1!Width(t.state.view.box) = V1!Width(before.view.box)
          /\ V1!Height(t.state.view.box) = V1!Height(before.view.box)
    BY <2>3 DEF SameSize
  <2>7. t.state.status = "truncated" <=> (i = max /\ t.state.answer = None)
    BY <2>3, <2>5
  <2>8. PICK b : b = (IF i = 1 THEN db.initial ELSE old[i - 1].state)
    OBVIOUS
  <2> QED BY <2>2, <2>3, <2>4, <2>5, <2>6, <2>7, <2>8, Zenon
<1>6. Chained(db)
  BY <1>1, <1>4, <1>5 DEF Chained
<1>7. ASSUME NEW t \in ToSet(old), NEW u \in ToSet(old), t.id # None, t.id = u.id
      PROVE  t = u
  <2>1. PICK i \in DOMAIN old, j \in DOMAIN old : t = old[i] /\ u = old[j]
    BY DEF ToSet
  <2>2. i = j
    BY <1>1, <1>7, <2>1 DEF Intact
  <2> QED BY <2>1, <2>2
<1> QED BY <1>1, <1>3, <1>6, <1>7

\* The first API, whatever is asked of it and however often: each id acts once
\* and its answer stands, the transitions lead to the state, the view stays on
\* the map, a pan keeps its size, an episode is truncated at its last step, and
\* a trace that is read in two shows one of the states it shows.
THEOREM AnyHistoryRepeats ==
  ASSUME ErrorsAreErrors, NEW I, NEW W, None \in W, NEW specification,
         V1!SpecificationValid(specification), specification.view \in FirstBoxes,
         NEW c, c.calls \in Seq(FirstCalls(I, W)),
         NEW lived, Lives(lived, c.calls, V1!Reset(specification))
  PROVE  Repeats(c, lived)
<1>1. PICK calls, n, dbs : calls = c.calls /\ n = Len(calls) /\ dbs = lived.dbs
  OBVIOUS
<1>2. PICK first : first = V1!Reset(specification)
  OBVIOUS
<1>3. Intact(first, I, W)
  BY <1>2, BeginningIsWhole
<1>4. calls \in Seq(FirstCalls(I, W)) /\ Lives(lived, calls, first)
  BY <1>1, <1>2
<1>5. /\ \A i \in 1 .. (n + 1) : Intact(dbs[i], I, W)
      /\ \A i, j \in 1 .. (n + 1) : i <= j => Longer(dbs[j], dbs[i])
      /\ \A i \in 1 .. n, j \in 1 .. (n + 1) :
           i < j => Settled(dbs[j], calls[i], lived.answers[i])
  BY <1>1, <1>3, <1>4, HistoriesAreWhole
<1>6. n \in Nat /\ DOMAIN calls = 1 .. n
  <2>1. PICK C : C = FirstCalls(I, W)
    OBVIOUS
  <2>2. calls \in Seq(C)
    BY <1>4, <2>1
  <2> QED BY <1>1, <2>2
<1>7. DOMAIN dbs = 1 .. (n + 1) /\ Len(dbs) = n + 1
  BY <1>1, <1>4 DEF Lives
<1>8. PICK db : db = dbs[n + 1]
  OBVIOUS
<1>9. n + 1 \in 1 .. (n + 1) /\ db = Last(dbs) /\ Intact(db, I, W)
  BY <1>5, <1>6, <1>7, <1>8 DEF Last
<1>10. /\ Chained(db)
       /\ db.state = IF db.transitions = <<>> THEN db.initial ELSE Last(db.transitions).state
       /\ \A t, u \in {t \in ToSet(db.transitions) : t.id # None} : t.id = u.id => t = u
  BY <1>9, WholeIsChained
<1>11. ASSUME NEW i \in DOMAIN calls, lived.answers[i].error = None, calls[i].id # None
       PROVE  V1!Step(db, calls[i]) = [db |-> db, answer |-> lived.answers[i]]
  <2>1. i \in 1 .. n /\ i < n + 1
    BY <1>6
  <2>2. Settled(db, calls[i], lived.answers[i])
    BY <1>5, <1>8, <1>9, <2>1
  <2> QED BY <1>9, <1>11, <2>2, SettledRepeats, Zenon
<1>12. ASSUME NEW i \in DOMAIN dbs, NEW j \in DOMAIN dbs, i <= j
       PROVE  V1!Trace(dbs[i], dbs[j]).final \in
                {db.initial} \cup {t.state : t \in ToSet(dbs[j].transitions)}
  <2>1. PICK a, b : a = dbs[i] /\ b = dbs[j]
    OBVIOUS
  <2>2. Intact(a, I, W) /\ Intact(b, I, W) /\ Longer(b, a) /\ Longer(db, a)
    <3>1. i \in 1 .. (n + 1) /\ j \in 1 .. (n + 1) /\ i <= n + 1
      BY <1>6, <1>7
    <3> QED BY <1>5, <1>8, <1>9, <1>12, <2>1, <3>1
  <2>3. V1!Trace(a, b).final = a.state
    BY DEF V1!Trace
  <2>4. CASE a.transitions = <<>>
    BY <2>1, <2>2, <2>3, <2>4 DEF Intact, Longer
  <2>5. CASE a.transitions # <<>>
    <3>1. PICK S, old, k : S = FirstTransitions(I, W) /\ old = a.transitions /\ k = Len(old)
      OBVIOUS
    <3>2. old \in Seq(S) /\ old # <<>> /\ b.transitions \in Seq(S) /\ k <= Len(b.transitions)
      BY <2>2, <2>5, <3>1 DEF Intact, FirstStores, Longer
    <3>3. k \in DOMAIN old /\ k \in DOMAIN b.transitions
      BY <3>1, <3>2
    <3>4. a.state = old[k].state /\ b.transitions[k] = old[k]
      BY <2>2, <2>5, <3>1, <3>3 DEF Intact, Longer
    <3>5. b.transitions[k] \in ToSet(b.transitions)
      BY <3>3 DEF ToSet
    <3> QED BY <2>1, <2>3, <3>4, <3>5
  <2> QED BY <2>4, <2>5
<1> QED BY <1>1, <1>9, <1>10, <1>11, <1>12 DEF Repeats

-------------------------------------------------------------------------------
(* Folds over the steps of a case *)

\* What the next call, or the next read, makes of what came before it.
Folded(case, stage, i) ==
  IF case.of = "first" THEN Extended(stage, V1!Step(Last(stage.dbs), case.calls[i]))
  ELSE Lengthened(stage, Http!Read(Http!Seek(Last(stage.readers), case.ops[i].offset, 0),
                                   case.ops[i].size, ServerOf(case)))

\* What is there after the steps of a set, one after the other.
Stages(stages, n, begin, case) ==
  stages = [s \in SUBSET (1 .. n) |->
    IF s = {} THEN begin ELSE Folded(case, stages[s \ {Max(s)}], Max(s))]

LEMMA LastStep ==
  ASSUME NEW k \in Nat, NEW s \in SUBSET (1 .. k), k \in s
  PROVE  Max(s) = k
<1>1. \A x \in s : x \in Int /\ x <= k
  OBVIOUS
<1>2. \A x \in s : (\A y \in s : x >= y) => x = k
  BY <1>1
<1>3. \E x \in s : \A y \in s : x >= y
  BY <1>1
<1> QED BY <1>1, <1>2, <1>3 DEF Max

LEMMA StagesExist ==
  ASSUME NEW begin, NEW case, NEW n \in Nat
  PROVE  \E stages : Stages(stages, n, begin, case)
<1>1. PICK S : S = {m \in Nat : \E stages : Stages(stages, m, begin, case)}
  OBVIOUS
<1>2. 0 \in S
  <2>1. PICK stages : stages = [s \in SUBSET (1 .. 0) |-> begin]
    OBVIOUS
  <2>2. SUBSET (1 .. 0) = {{}}
    OBVIOUS
  <2>3. Stages(stages, 0, begin, case)
    BY <2>1, <2>2, Zenon DEF Stages
  <2> QED BY <1>1, <2>3
<1>3. ASSUME NEW m \in Nat, m \in S PROVE m + 1 \in S
  <2>1. PICK stages : Stages(stages, m, begin, case)
    BY <1>1, <1>3
  <2>2. PICK k, more :
          /\ k = m + 1
          /\ more = [s \in SUBSET (1 .. k) |->
                      IF k \in s THEN Folded(case, stages[s \ {k}], k) ELSE stages[s]]
    OBVIOUS
  <2>3. /\ \A s \in SUBSET (1 .. k) : k \in s => Max(s) = k
        /\ \A s \in SUBSET (1 .. k) : s \ {k} \in SUBSET (1 .. m)
        /\ \A s \in SUBSET (1 .. k) : k \notin s => s \in SUBSET (1 .. m)
        /\ k \in Nat
    <3>1. k \in Nat /\ 1 .. k = (1 .. m) \cup {k}
      BY <2>2
    <3>2. ASSUME NEW s \in SUBSET (1 .. k), k \in s PROVE Max(s) = k
      BY <3>1, <3>2, LastStep, Zenon
    <3> QED BY <3>1, <3>2
  <2>5. ASSUME NEW s \in SUBSET (1 .. k)
        PROVE  more[s] = IF s = {} THEN begin ELSE Folded(case, more[s \ {Max(s)}], Max(s))
    <3>1. CASE k \in s
      <4>1. s \ {k} \in SUBSET (1 .. k) /\ k \notin s \ {k} /\ s # {}
        BY <3>1
      <4>2. more[s \ {k}] = stages[s \ {k}]
        BY <2>2, <4>1
      <4>3. more[s] = Folded(case, stages[s \ {k}], k)
        BY <2>2, <3>1
      <4> QED BY <2>3, <3>1, <4>1, <4>2, <4>3
    <3>2. CASE k \notin s
      <4>1. s \in SUBSET (1 .. m) /\ more[s] = stages[s]
        BY <2>2, <2>3, <3>2
      <4>2. more[s] = IF s = {} THEN begin ELSE Folded(case, stages[s \ {Max(s)}], Max(s))
        BY <2>1, <4>1 DEF Stages
      <4>3. s # {} => more[s \ {Max(s)}] = stages[s \ {Max(s)}]
        <5>1. s \ {Max(s)} \in SUBSET (1 .. k) /\ k \notin s \ {Max(s)}
          BY <3>2
        <5> QED BY <2>2, <5>1
      <4> QED BY <4>2, <4>3
    <3> QED BY <3>1, <3>2
  <2>6. Stages(more, k, begin, case)
    BY <2>2, <2>5, Zenon DEF Stages
  <2> QED BY <1>1, <2>2, <2>3, <2>6
<1>4. Nat \subseteq S
  BY <1>2, <1>3, AllNumbers
<1> QED BY <1>1, <1>4

\* A run: from its beginning, step by step, to its end.
Run(run, n, begin, end, case) ==
  /\ run[0] = begin /\ run[n] = end
  /\ \A k \in 1 .. n : run[k] = Folded(case, run[k - 1], k)

LEMMA StagesRun ==
  ASSUME NEW n \in Nat, NEW begin, NEW case, NEW stages, Stages(stages, n, begin, case)
  PROVE  \E run : Run(run, n, begin, stages[1 .. n], case)
<1>1. PICK run : run = [k \in 0 .. n |-> stages[1 .. k]]
  OBVIOUS
<1>2. run[0] = begin
  <2>1. 1 .. 0 = {} /\ {} \in SUBSET (1 .. n)
    OBVIOUS
  <2>2. stages[1 .. 0] = begin
    BY <2>1 DEF Stages
  <2> QED BY <1>1, <2>2
<1>3. ASSUME NEW k \in 1 .. n PROVE run[k] = Folded(case, run[k - 1], k)
  <2>1. PICK s : s = 1 .. k
    OBVIOUS
  <2>2. s \in SUBSET (1 .. n) /\ s # {} /\ k \in Nat /\ s \in SUBSET (1 .. k) /\ k \in s
    BY <2>1
  <2>3. Max(s) = k
    BY <2>2, LastStep
  <2>4. s \ {k} = 1 .. (k - 1) /\ k - 1 \in 0 .. n
    BY <2>1
  <2>5. stages[s] = Folded(case, stages[s \ {k}], k)
    BY <2>2, <2>3 DEF Stages
  <2>6. k \in 0 .. n /\ run[k] = stages[s] /\ run[k - 1] = stages[s \ {k}]
    <3>1. \A j \in 0 .. n : run[j] = stages[1 .. j]
      BY <1>1
    <3>2. k \in 0 .. n
      OBVIOUS
    <3> QED BY <2>1, <2>4, <3>1, <3>2, Zenon
  <2> QED BY <2>5, <2>6
<1>4. run[n] = stages[1 .. n]
  BY <1>1
<1> QED BY <1>2, <1>3, <1>4 DEF Run

\* The fold of a history of calls, as the set of its numbers.
CallStages(calls, begin) ==
  CHOOSE stages : stages = [s \in SUBSET (DOMAIN calls) |->
    IF s = {} THEN begin
    ELSE Extended(stages[s \ {Max(s)}],
                  V1!Step(Last(stages[s \ {Max(s)}].dbs), calls[Max(s)]))]

CallFold(calls, begin) ==
  FoldLeft(LAMBDA l, call : Extended(l, V1!Step(Last(l.dbs), call)), begin, calls)

LEMMA CallsAreRun ==
  ASSUME NEW n \in Nat, NEW calls, DOMAIN calls = 1 .. n, NEW begin,
         NEW case, case.of = "first", case.calls = calls
  PROVE  \E run : Run(run, n, begin, CallFold(calls, begin), case)
<1>1. PICK stages : Stages(stages, n, begin, case)
  BY StagesExist
<1>2. stages = [s \in SUBSET (DOMAIN calls) |->
        IF s = {} THEN begin
        ELSE Extended(stages[s \ {Max(s)}],
                      V1!Step(Last(stages[s \ {Max(s)}].dbs), calls[Max(s)]))]
  BY <1>1, Zenon DEF Stages, Folded
<1>3. CallStages(calls, begin) = [s \in SUBSET (DOMAIN calls) |->
        IF s = {} THEN begin
        ELSE Extended(CallStages(calls, begin)[s \ {Max(s)}],
                      V1!Step(Last(CallStages(calls, begin)[s \ {Max(s)}].dbs), calls[Max(s)]))]
  BY <1>2, Zenon DEF CallStages
<1>4. Stages(CallStages(calls, begin), n, begin, case)
  BY <1>3, Zenon DEF Stages, Folded
<1>5. CallFold(calls, begin) = CallStages(calls, begin)[1 .. n]
  BY DEF CallFold, FoldLeft, MapThenFoldSet, CallStages
<1> QED BY <1>4, <1>5, StagesRun

\* The fold of a session of reads, as the set of its numbers.
ReadStages(ops, begin, server) ==
  CHOOSE stages : stages = [s \in SUBSET (DOMAIN ops) |->
    IF s = {} THEN begin
    ELSE Lengthened(stages[s \ {Max(s)}],
                    Http!Read(Http!Seek(Last(stages[s \ {Max(s)}].readers),
                                        ops[Max(s)].offset, 0), ops[Max(s)].size, server))]

ReadFold(ops, begin, server) ==
  FoldLeft(LAMBDA s, op :
             Lengthened(s, Http!Read(Http!Seek(Last(s.readers), op.offset, 0), op.size, server)),
           begin, ops)

LEMMA ReadsAreRun ==
  ASSUME NEW n \in Nat, NEW ops, DOMAIN ops = 1 .. n, NEW begin,
         NEW case, case.of # "first", case.ops = ops
  PROVE  \E run : Run(run, n, begin, ReadFold(ops, begin, ServerOf(case)), case)
<1>1. PICK stages : Stages(stages, n, begin, case)
  BY StagesExist
<1>2. PICK server : server = ServerOf(case)
  OBVIOUS
<1>3. stages = [s \in SUBSET (DOMAIN ops) |->
        IF s = {} THEN begin
        ELSE Lengthened(stages[s \ {Max(s)}],
                        Http!Read(Http!Seek(Last(stages[s \ {Max(s)}].readers),
                                            ops[Max(s)].offset, 0), ops[Max(s)].size, server))]
  BY <1>1, <1>2, Zenon DEF Stages, Folded
<1>4. PICK chosen : chosen = ReadStages(ops, begin, server)
  OBVIOUS
<1>5. chosen = [s \in SUBSET (DOMAIN ops) |->
        IF s = {} THEN begin
        ELSE Lengthened(chosen[s \ {Max(s)}],
                        Http!Read(Http!Seek(Last(chosen[s \ {Max(s)}].readers),
                                            ops[Max(s)].offset, 0), ops[Max(s)].size, server))]
  BY <1>3, <1>4, Zenon DEF ReadStages
<1>6. Stages(chosen, n, begin, case)
  BY <1>2, <1>5, Zenon DEF Stages, Folded
<1>7. ReadFold(ops, begin, server) = chosen[1 .. n]
  BY <1>4 DEF ReadFold, FoldLeft, MapThenFoldSet, ReadStages
<1> QED BY <1>2, <1>6, <1>7, StagesRun

\* Lived is a history.
Grown(stage, k, D, A, first, calls) ==
  /\ stage.dbs \in Seq(D) /\ Len(stage.dbs) = k + 1 /\ stage.dbs[1] = first
  /\ stage.answers \in Seq(A) /\ Len(stage.answers) = k
  /\ \A i \in 1 .. k :
       /\ stage.dbs[i + 1] = V1!Step(stage.dbs[i], calls[i]).db
       /\ stage.answers[i] = V1!Step(stage.dbs[i], calls[i]).answer

LEMMA FoldLives ==
  ASSUME NEW n \in Nat, NEW C, NEW calls \in Seq(C), Len(calls) = n, NEW first,
         NEW lived, lived = CallFold(calls, [dbs |-> <<first>>, answers |-> <<>>])
  PROVE  Lives(lived, calls, first)
<1>1. PICK begin : begin = [dbs |-> <<first>>, answers |-> <<>>]
  OBVIOUS
<1>2. PICK c : c = [of |-> "first", calls |-> calls]
  OBVIOUS
<1>3. c.of = "first" /\ c.calls = calls /\ DOMAIN calls = 1 .. n
  BY <1>2
<1>4. PICK run : Run(run, n, begin, lived, c)
  BY <1>1, <1>3, CallsAreRun
<1>5. \A k \in 1 .. n : run[k] = Extended(run[k - 1], V1!Step(Last(run[k - 1].dbs), calls[k]))
  BY <1>3, <1>4 DEF Run, Folded
<1> DEFINE Stepped(k) == V1!Step(Last(run[k - 1].dbs), calls[k])
<1>6. PICK D, A : /\ D = {first} \cup {Stepped(k).db : k \in 1 .. n}
                  /\ A = {Stepped(k).answer : k \in 1 .. n}
  OBVIOUS
<1>7. PICK S : S = {k \in Nat : k <= n => Grown(run[k], k, D, A, first, calls)}
  OBVIOUS
<1>8. 0 \in S
  <2>1. run[0] = begin /\ begin.dbs = <<first>> /\ begin.answers = <<>>
    BY <1>1, <1>4 DEF Run
  <2>2. first \in D
    BY <1>6
  <2>3. <<first>> \in Seq(D) /\ Len(<<first>>) = 0 + 1 /\ <<first>>[1] = first
        /\ <<>> \in Seq(A) /\ Len(<<>>) = 0
    BY <2>2
  <2>4. Grown(begin, 0, D, A, first, calls)
    BY <2>1, <2>3 DEF Grown
  <2> QED BY <1>7, <2>1, <2>4
<1>9. ASSUME NEW k \in Nat, k \in S PROVE k + 1 \in S
  <2>1. CASE k + 1 <= n
    <3>1. PICK m, old, new : m = k + 1 /\ old = run[k] /\ new = run[m]
      OBVIOUS
    <3>2. m \in 1 .. n /\ m - 1 = k /\ m \in Nat /\ k <= n
      BY <2>1, <3>1
    <3>3. Grown(old, k, D, A, first, calls)
      BY <1>7, <1>9, <3>1, <3>2
    <3>4. PICK step : step = V1!Step(Last(old.dbs), calls[m])
      OBVIOUS
    <3>5. new = Extended(old, step) /\ step.db \in D /\ step.answer \in A
      <4>1. Stepped(m) = step
        BY <3>1, <3>2, <3>4
      <4>2. Stepped(m).db \in D /\ Stepped(m).answer \in A
        BY <1>6, <3>2
      <4> QED BY <1>5, <3>1, <3>2, <3>4, <4>1, <4>2
    <3>6. PICK dbs, answers, db, answer :
            dbs = old.dbs /\ answers = old.answers /\ db = step.db /\ answer = step.answer
      OBVIOUS
    <3>7. new.dbs = Append(dbs, db) /\ new.answers = Append(answers, answer)
      BY <3>5, <3>6 DEF Extended
    <3>8. /\ dbs \in Seq(D) /\ Len(dbs) = m /\ db \in D /\ answers \in Seq(A) /\ Len(answers) = k
          /\ answer \in A
      BY <3>1, <3>3, <3>5, <3>6 DEF Grown
    <3>9. /\ new.dbs \in Seq(D) /\ Len(new.dbs) = m + 1 /\ new.dbs[m + 1] = db
          /\ \A i \in 1 .. m : new.dbs[i] = dbs[i]
          /\ new.answers \in Seq(A) /\ Len(new.answers) = m /\ new.answers[m] = answer
          /\ \A i \in 1 .. k : new.answers[i] = answers[i]
      BY <3>1, <3>2, <3>7, <3>8
    <3>10. step = V1!Step(dbs[m], calls[m])
      BY <3>4, <3>6, <3>8 DEF Last
    <3>11. ASSUME NEW i \in 1 .. m
           PROVE  /\ new.dbs[i + 1] = V1!Step(new.dbs[i], calls[i]).db
                  /\ new.answers[i] = V1!Step(new.dbs[i], calls[i]).answer
      <4>1. CASE i = m
        BY <3>6, <3>9, <3>10, <4>1
      <4>2. CASE i # m
        <5>1. i \in 1 .. k /\ i + 1 \in 1 .. m /\ i \in 1 .. m
          BY <3>1, <4>2
        <5>2. /\ dbs[i + 1] = V1!Step(dbs[i], calls[i]).db
              /\ answers[i] = V1!Step(dbs[i], calls[i]).answer
          BY <3>3, <3>6, <5>1 DEF Grown
        <5> QED BY <3>9, <5>1, <5>2
      <4> QED BY <4>1, <4>2
    <3>12. new.dbs[1] = first
      <4>1. 1 \in 1 .. m
        BY <3>2
      <4> QED BY <3>3, <3>6, <3>9, <4>1 DEF Grown
    <3>13. Grown(new, m, D, A, first, calls)
      BY <3>9, <3>11, <3>12 DEF Grown
    <3> QED BY <1>7, <3>1, <3>2, <3>13
  <2>2. CASE ~(k + 1 <= n)
    BY <1>7, <2>2
  <2> QED BY <2>1, <2>2
<1>10. Nat \subseteq S
  BY <1>8, <1>9, AllNumbers
<1>11. Grown(lived, n, D, A, first, calls)
  BY <1>4, <1>7, <1>10 DEF Run
<1>12. DOMAIN lived.dbs = 1 .. (n + 1)
  <2>1. PICK dbs : dbs = lived.dbs
    OBVIOUS
  <2>2. dbs \in Seq(D) /\ Len(dbs) = n + 1
    BY <1>11, <2>1 DEF Grown
  <2> QED BY <2>1, <2>2
<1> QED BY <1>11, <1>12 DEF Grown, Lives

LEMMA CallsAreCalls ==
  Calls \subseteq FirstCalls({None, 1, 2}, {None, 1, 2, "worldcover"})
<1>1. PICK W : W = {None, 1, 2, "worldcover"}
  OBVIOUS
<1>2. \A b \in {Box(-16, 0, -8, 0), Box(4, 4, 0, 8)} : b \in FirstBoxes
  BY DEF Box, FirstBoxes
<1>3. ASSUME NEW a \in Actions PROVE a \in FirstActions(W)
  <2>1. CASE \E b \in {Box(-16, 0, -8, 0), Box(4, 4, 0, 8)} : a = [type |-> "set_view", box |-> b]
    <3>1. PICK b \in {Box(-16, 0, -8, 0), Box(4, 4, 0, 8)} : a = [type |-> "set_view", box |-> b]
      BY <2>1
    <3>2. b \in FirstBoxes
      BY <1>2
    <3>3. a \in [type : {"set_view"}, box : FirstBoxes]
      BY <3>1, <3>2
    <3> QED BY <3>3 DEF FirstActions
  <2>2. CASE \E n \in {0, 6} : a = [type |-> "pan", east |-> 12, north |-> n]
    <3>1. a \in [type : {"pan"}, east : Int, north : Int]
      BY <2>2
    <3> QED BY <3>1 DEF FirstActions
  <2>3. CASE \E d \in {"in", "out"} : a = [type |-> "zoom", direction |-> d, factor |-> 4]
    <3>1. a \in [type : {"zoom"}, direction : {"in", "out"}, factor : Int]
      BY <2>3
    <3> QED BY <3>1 DEF FirstActions
  <2>4. CASE a = [type |-> "set_layer_visibility", layer |-> "worldcover", visible |-> FALSE]
    <3>1. a \in [type : {"set_layer_visibility"}, layer : W, visible : BOOLEAN]
      BY <1>1, <2>4
    <3> QED BY <3>1 DEF FirstActions
  <2>5. CASE a = [type |-> "submit_answer", answer |-> 1]
    <3>1. a \in [type : {"submit_answer"}, answer : W]
      BY <1>1, <2>5
    <3> QED BY <3>1 DEF FirstActions
  <2>6. \/ \E b \in {Box(-16, 0, -8, 0), Box(4, 4, 0, 8)} : a = [type |-> "set_view", box |-> b]
        \/ \E n \in {0, 6} : a = [type |-> "pan", east |-> 12, north |-> n]
        \/ \E d \in {"in", "out"} : a = [type |-> "zoom", direction |-> d, factor |-> 4]
        \/ a = [type |-> "set_layer_visibility", layer |-> "worldcover", visible |-> FALSE]
        \/ a = [type |-> "submit_answer", answer |-> 1]
    BY <1>3, Zenon DEF Actions
  <2> QED BY <2>1, <2>2, <2>3, <2>4, <2>5, <2>6
<1>4. /\ [type |-> "pan", east |-> -12, north |-> 0] \in FirstActions(W)
      /\ [type |-> "submit_answer", answer |-> 2] \in FirstActions(W)
  BY <1>1 DEF FirstActions
<1> QED BY <1>1, <1>3, <1>4 DEF Calls, FirstCalls

LEMMA FirstCasesRepeat ==
  ASSUME ErrorsAreErrors, NEW case \in FirstCases
  PROVE  FirstApiRepeatsIn(case)
<1>1. PICK max \in 1 .. 2, calls \in [1 .. 3 -> Calls] :
        case = [of |-> "first", max_steps |-> max, calls |-> calls]
  BY DEF FirstCases
<1>2. PICK I, W : I = {None, 1, 2} /\ W = {None, 1, 2, "worldcover"}
  OBVIOUS
<1>3. calls \in Seq(FirstCalls(I, W)) /\ Len(calls) = 3
  <2>1. PICK C : C = FirstCalls(I, W)
    OBVIOUS
  <2>2. calls \in [1 .. 3 -> C]
    BY <1>2, <2>1, CallsAreCalls
  <2>3. calls \in Seq(C) /\ Len(calls) = 3
    <3>1. PICK m \in Nat : m = 3
      OBVIOUS
    <3>2. calls \in [1 .. m -> C] /\ [1 .. m -> C] \in {[1 .. k -> C] : k \in Nat}
      BY <2>2, <3>1
    <3>3. calls \in Seq(C)
      BY <3>2, SeqDef, Zenon
    <3>4. Len(calls) \in Nat /\ DOMAIN calls = 1 .. Len(calls) /\ DOMAIN calls = 1 .. 3
      BY <2>2, <3>3, LenProperties, Zenon
    <3>5. Len(calls) = 3
      BY <3>4
    <3> QED BY <3>3, <3>5
  <2> QED BY <2>1, <2>3
<1>4. PICK box, specification :
        /\ box = Box(0, 16, -8, 8)
        /\ specification = [max_steps |-> case.max_steps, view |-> Box(0, 16, -8, 8)]
  OBVIOUS
<1>5. box \in FirstBoxes /\ V1!BoxValid(box)
  BY <1>4 DEF Box, FirstBoxes, V1!BoxValid, V1!Longitudes, V1!Latitudes
<1>6. V1!SpecificationValid(specification) /\ specification.view \in FirstBoxes
  BY <1>1, <1>4, <1>5 DEF V1!SpecificationValid
<1>7. Lived(case) = CallFold(calls, [dbs |-> <<V1!Reset(specification)>>, answers |-> <<>>])
  BY <1>1, <1>4 DEF Lived, CallFold
<1>8. PICK first, lived : first = V1!Reset(specification) /\ lived = Lived(case)
  OBVIOUS
<1>9. Lives(lived, calls, first)
  <2>1. PICK C : C = FirstCalls(I, W)
    OBVIOUS
  <2>2. 3 \in Nat /\ calls \in Seq(C) /\ Len(calls) = 3
    BY <1>3, <2>1
  <2> QED BY <1>7, <1>8, <2>2, FoldLives
<1>10. case.calls = calls /\ None \in W
  BY <1>1, <1>2
<1>11. Repeats(case, lived)
  BY <1>3, <1>6, <1>8, <1>9, <1>10, AnyHistoryRepeats
<1> QED BY <1>8, <1>11 DEF FirstApiRepeatsIn

-------------------------------------------------------------------------------
(* The sessions of the run *)

\* The session grows.
Prolonged(stage, k, R, G, first, ops, server) ==
  /\ stage.readers \in Seq(R) /\ Len(stage.readers) = k + 1 /\ stage.readers[1] = first
  /\ stage.gots \in Seq(G) /\ Len(stage.gots) = k
  /\ \A i \in 1 .. k :
       /\ stage.gots[i] =
            Http!Read(Http!Seek(stage.readers[i], ops[i].offset, 0), ops[i].size, server)
       /\ stage.readers[i + 1] = stage.gots[i].reader

LEMMA FoldReads ==
  ASSUME NEW case, case.of # "first", NEW n \in Nat, DOMAIN case.ops = 1 .. n, NEW first,
         NEW session, session = ReadFold(case.ops, [readers |-> <<first>>, gots |-> <<>>],
                                         ServerOf(case))
  PROVE  ReadInTurn(session, case.ops, n, first, ServerOf(case))
<1>1. PICK begin, ops, server :
        /\ begin = [readers |-> <<first>>, gots |-> <<>>] /\ ops = case.ops
        /\ server = ServerOf(case)
  OBVIOUS
<1>2. DOMAIN ops = 1 .. n /\ session = ReadFold(ops, begin, server)
  BY <1>1
<1>3. PICK run : Run(run, n, begin, session, case)
  BY <1>1, <1>2, ReadsAreRun
<1>4. \A k \in 1 .. n :
        run[k] = Lengthened(run[k - 1],
                            Http!Read(Http!Seek(Last(run[k - 1].readers), ops[k].offset, 0),
                                      ops[k].size, server))
  BY <1>1, <1>3 DEF Run, Folded
<1> DEFINE Got(k) == Http!Read(Http!Seek(Last(run[k - 1].readers), ops[k].offset, 0),
                               ops[k].size, server)
<1>5. PICK R, G : /\ R = {first} \cup {Got(k).reader : k \in 1 .. n}
                  /\ G = {Got(k) : k \in 1 .. n}
  OBVIOUS
<1>6. PICK S : S = {k \in Nat : k <= n => Prolonged(run[k], k, R, G, first, ops, server)}
  OBVIOUS
<1>7. 0 \in S
  <2>1. run[0] = begin /\ begin.readers = <<first>> /\ begin.gots = <<>>
    BY <1>1, <1>3 DEF Run
  <2>2. first \in R
    BY <1>5
  <2>3. <<first>> \in Seq(R) /\ Len(<<first>>) = 0 + 1 /\ <<first>>[1] = first
        /\ <<>> \in Seq(G) /\ Len(<<>>) = 0
    BY <2>2
  <2>4. Prolonged(begin, 0, R, G, first, ops, server)
    BY <2>1, <2>3 DEF Prolonged
  <2> QED BY <1>6, <2>1, <2>4
<1>8. ASSUME NEW k \in Nat, k \in S PROVE k + 1 \in S
  <2>1. CASE k + 1 <= n
    <3>1. PICK m, old, new : m = k + 1 /\ old = run[k] /\ new = run[m]
      OBVIOUS
    <3>2. m \in 1 .. n /\ m - 1 = k /\ m \in Nat /\ k <= n
      BY <2>1, <3>1
    <3>3. Prolonged(old, k, R, G, first, ops, server)
      BY <1>6, <1>8, <3>1, <3>2
    <3>4. PICK got : got = Http!Read(Http!Seek(Last(old.readers), ops[m].offset, 0),
                                     ops[m].size, server)
      OBVIOUS
    <3>5. new = Lengthened(old, got) /\ got.reader \in R /\ got \in G
      <4>1. Got(m) = got
        BY <3>1, <3>2, <3>4
      <4>2. Got(m).reader \in R /\ Got(m) \in G
        BY <1>5, <3>2
      <4> QED BY <1>4, <3>1, <3>2, <3>4, <4>1, <4>2
    <3>6. PICK readers, gots, reader :
            readers = old.readers /\ gots = old.gots /\ reader = got.reader
      OBVIOUS
    <3>7. new.readers = Append(readers, reader) /\ new.gots = Append(gots, got)
      BY <3>5, <3>6 DEF Lengthened
    <3>8. /\ readers \in Seq(R) /\ Len(readers) = m /\ reader \in R /\ gots \in Seq(G)
          /\ Len(gots) = k /\ got \in G
      BY <3>1, <3>3, <3>5, <3>6 DEF Prolonged
    <3>9. /\ new.readers \in Seq(R) /\ Len(new.readers) = m + 1 /\ new.readers[m + 1] = reader
          /\ \A i \in 1 .. m : new.readers[i] = readers[i]
          /\ new.gots \in Seq(G) /\ Len(new.gots) = m /\ new.gots[m] = got
          /\ \A i \in 1 .. k : new.gots[i] = gots[i]
      BY <3>1, <3>2, <3>7, <3>8
    <3>10. got = Http!Read(Http!Seek(readers[m], ops[m].offset, 0), ops[m].size, server)
      BY <3>4, <3>6, <3>8 DEF Last
    <3>11. ASSUME NEW i \in 1 .. m
           PROVE  /\ new.gots[i] =
                       Http!Read(Http!Seek(new.readers[i], ops[i].offset, 0), ops[i].size, server)
                  /\ new.readers[i + 1] = new.gots[i].reader
      <4>1. CASE i = m
        BY <3>6, <3>9, <3>10, <4>1
      <4>2. CASE i # m
        <5>1. i \in 1 .. k /\ i + 1 \in 1 .. m /\ i \in 1 .. m
          BY <3>1, <4>2
        <5>2. /\ gots[i] =
                   Http!Read(Http!Seek(readers[i], ops[i].offset, 0), ops[i].size, server)
              /\ readers[i + 1] = gots[i].reader
          BY <3>3, <3>6, <5>1 DEF Prolonged
        <5> QED BY <3>9, <5>1, <5>2
      <4> QED BY <4>1, <4>2
    <3>12. new.readers[1] = first
      <4>1. 1 \in 1 .. m
        BY <3>2
      <4> QED BY <3>3, <3>6, <3>9, <4>1 DEF Prolonged
    <3>13. Prolonged(new, m, R, G, first, ops, server)
      BY <3>9, <3>11, <3>12 DEF Prolonged
    <3> QED BY <1>6, <3>1, <3>2, <3>13
  <2>2. CASE ~(k + 1 <= n)
    BY <1>6, <2>2
  <2> QED BY <2>1, <2>2
<1>9. Nat \subseteq S
  BY <1>7, <1>8, AllNumbers
<1>10. Prolonged(session, n, R, G, first, ops, server)
  BY <1>3, <1>6, <1>9 DEF Run
<1> QED BY <1>1, <1>10 DEF Prolonged, ReadInTurn

LEMMA BytesAreNumbers ==
  ASSUME NEW n \in Nat, NEW of \in Nat
  PROVE  /\ Bytes(n, of) \in Seq(Nat) /\ Len(Bytes(n, of)) = n
         /\ n > 0 => Bytes(n, of)[1] = 10 * of + 1
<1>1. \A i \in 1 .. n : 10 * of + i \in Nat
  OBVIOUS
<1> QED BY <1>1 DEF Bytes

\* The replies of the run's servers.
LEMMA RepliesAreGenuine ==
  ASSUME NEW case \in ReadCases, NEW object, object = Bytes(case.length, 1)
  PROVE  /\ Strong(ServerOf(case), Nat, object, 11)
         /\ case.manner \in {"honest", "changed"} => Modest(ServerOf(case), object)
         /\ case.manner = "honest" => Honest(ServerOf(case), object, 11)
<1>1. PICK n, manner, since, server :
        /\ n = case.length /\ manner = case.manner /\ since = case.since
        /\ server = ServerOf(case)
  OBVIOUS
<1>2. n \in Nat /\ n > 0 /\ manner \in Manners /\ since \in Nat
  BY <1>1 DEF ReadCases
<1>3. object \in Seq(Nat) /\ Len(object) = n /\ object[1] = 11 /\ object = Bytes(n, 1)
  <2>1. 1 \in Nat /\ 10 * 1 + 1 = 11
    OBVIOUS
  <2>2. object = Bytes(n, 1)
    BY <1>1
  <2>3. /\ Bytes(n, 1) \in Seq(Nat) /\ Len(Bytes(n, 1)) = n
        /\ n > 0 => Bytes(n, 1)[1] = 10 * 1 + 1
    BY <1>2, <2>1, BytesAreNumbers, Zenon
  <2> QED BY <1>2, <2>1, <2>2, <2>3
<1>4. ASSUME NEW first \in Nat, NEW last \in Nat, NEW m \in Nat, first <= last, last < Len(object),
             NEW reply, reply = server[<<<<first, last, Len(object)>>, m>>]
      PROVE  /\ Genuine(reply, first, last, Nat, object, 11)
             /\ manner \in {"honest", "changed"} => Len(reply.content) <= last - first + 1
             /\ manner = "honest" => Candid(reply, first, last, object, 11)
  <2>1. PICK range : range = <<first, last, n>>
    OBVIOUS
  <2>2. range \in Nat \X Nat \X Nat /\ range[1] = first /\ range[2] = last
    BY <1>2, <1>4, <2>1
  <2>3. reply = Reply(case, range, m)
    <3>1. PICK asked : asked = <<range, m>>
      OBVIOUS
    <3>2. asked \in (Nat \X Nat \X Nat) \X Nat /\ asked[1] = range /\ asked[2] = m
      BY <2>2, <3>1
    <3>3. server[asked] = Reply(case, asked[1], asked[2])
      BY <1>1, <3>2 DEF ServerOf
    <3>4. reply = server[asked]
      BY <1>3, <1>4, <2>1, <3>1
    <3> QED BY <3>2, <3>3, <3>4
  <2>4. PICK of, its, part, sent, ignored :
          /\ of = (IF case.manner = "changed" /\ m >= case.since THEN 2 ELSE 1)
          /\ its = Bytes(case.length, of)
          /\ part = SubSeq(its, range[1] + 1, range[2] + 1)
          /\ sent = (IF m < case.since THEN part
                     ELSE CASE case.manner = "short" -> Front(part)
                            [] case.manner = "long" -> Append(part, 0)
                            [] case.manner = "whole" -> its
                            [] OTHER -> part)
          /\ ignored = (case.manner = "whole" /\ m >= case.since)
    OBVIOUS
  <2>5. reply = [status |-> IF ignored THEN 200 ELSE 206, range |-> IF ignored THEN None ELSE range,
                 etag |-> its[1], content |-> sent, announced |-> 0]
    <3> DEFINE of0 == IF case.manner = "changed" /\ m >= case.since THEN 2 ELSE 1
               its0 == Bytes(case.length, of0)
               part0 == SubSeq(its0, range[1] + 1, range[2] + 1)
               sent0 == IF m < case.since THEN part0
                        ELSE CASE case.manner = "short" -> Front(part0)
                               [] case.manner = "long" -> Append(part0, 0)
                               [] case.manner = "whole" -> its0
                               [] OTHER -> part0
               ignored0 == case.manner = "whole" /\ m >= case.since
    <3>1. Reply(case, range, m) =
            [status |-> IF ignored0 THEN 200 ELSE 206,
             range |-> IF ignored0 THEN None ELSE range,
             etag |-> its0[1], content |-> sent0, announced |-> 0]
      BY Zenon DEF Reply
    <3>2. of = of0
      BY <2>4
    <3>3. its = its0
      BY <2>4, <3>2, Zenon
    <3>4. part = part0
      BY <2>4, <3>3, Zenon
    <3>5. sent = sent0
      <4>1. sent = IF m < case.since THEN part
                   ELSE CASE case.manner = "short" -> Front(part)
                          [] case.manner = "long" -> Append(part, 0)
                          [] case.manner = "whole" -> its
                          [] OTHER -> part
        BY <2>4
      <4> HIDE DEF part0, its0
      <4> QED BY <3>3, <3>4, <4>1
    <3>6. ignored <=> ignored0
      BY <2>4
    <3>7. reply = Reply(case, range, m)
      BY <2>3
    <3> HIDE DEF of0, its0, part0, sent0, ignored0
    <3> QED BY <3>1, <3>3, <3>5, <3>6, <3>7
  <2>6. of \in {1, 2} /\ (of = 1 \/ manner = "changed")
    BY <1>1, <2>4
  <2>7. its \in Seq(Nat) /\ Len(its) = n /\ its[1] = 10 * of + 1
    BY <1>1, <1>2, <2>4, <2>6, BytesAreNumbers
  <2>8. part \in Seq(Nat) /\ Len(part) = last - first + 1
    <3>1. part = SubSeq(its, first + 1, last + 1) /\ last < Len(its)
      BY <1>3, <1>4, <2>2, <2>4, <2>7
    <3> QED BY <1>4, <2>7, <3>1
  <2>9. /\ Front(part) \in Seq(Nat) /\ Len(Front(part)) = last - first
        /\ Append(part, 0) \in Seq(Nat) /\ Len(Append(part, 0)) = last - first + 2
    BY <1>4, <2>8 DEF Front
  <2>10. /\ sent \in {part, Front(part), Append(part, 0), its}
         /\ ~ignored => sent \in {part, Front(part), Append(part, 0)}
         /\ manner \in {"honest", "changed"} => sent = part /\ ~ignored
    <3>1. CASE m < since
      BY <1>1, <1>2, <2>4, <3>1
    <3>2. CASE ~(m < since)
      <4>1. m >= since
        BY <1>2, <1>4, <3>2
      <4>2. CASE manner = "short"
        BY <1>1, <2>4, <3>2, <4>2
      <4>3. CASE manner = "long"
        BY <1>1, <2>4, <3>2, <4>3
      <4>4. CASE manner = "whole"
        BY <1>1, <2>4, <3>2, <4>1, <4>4
      <4>5. CASE manner \in {"honest", "changed"}
        BY <1>1, <2>4, <3>2, <4>5
      <4> QED BY <1>2, <4>2, <4>3, <4>4, <4>5 DEF Manners
    <3> QED BY <3>1, <3>2
  <2>11. reply.content = sent /\ reply.status = (IF ignored THEN 200 ELSE 206)
         /\ reply.etag = its[1] /\ sent \in Seq(Nat)
    BY <2>5, <2>7, <2>8, <2>9, <2>10
  <2>12. manner \in {"honest", "changed"} => sent = part /\ ~ignored
    BY <2>10
  <2>13. ASSUME reply.status = 206, reply.etag = 11, Len(sent) = last - first + 1
         PROVE  sent = SubSeq(object, first + 1, last + 1)
    <3>1. of = 1
      BY <2>6, <2>7, <2>11, <2>13
    <3>2. part = SubSeq(object, first + 1, last + 1)
      BY <1>1, <1>3, <2>2, <2>4, <3>1
    <3>3. ~ignored
      BY <2>11, <2>13
    <3>4. sent # Front(part) /\ sent # Append(part, 0)
      BY <1>4, <2>9, <2>13
    <3>5. sent = part
      BY <2>10, <3>3, <3>4
    <3> QED BY <3>2, <3>5
  <2>14. Genuine(reply, first, last, Nat, object, 11)
    BY <2>11, <2>13 DEF Genuine
  <2>15. manner \in {"honest", "changed"} => Len(reply.content) <= last - first + 1
    BY <1>4, <2>8, <2>11, <2>12
  <2>16. ASSUME manner = "honest"
         PROVE  Candid(reply, first, last, object, 11)
    <3>1. of = 1 /\ ~ignored /\ sent = part
      BY <2>6, <2>12, <2>16
    <3>2. its = object /\ part = SubSeq(object, first + 1, last + 1) /\ its[1] = 11
      BY <1>1, <1>3, <2>2, <2>4, <3>1
    <3> QED BY <1>3, <2>1, <2>5, <3>1, <3>2 DEF Candid
  <2> QED BY <2>14, <2>15, <2>16
<1>5. Strong(server, Nat, object, 11)
  BY <1>4, Zenon DEF Strong
<1>6. manner \in {"honest", "changed"} => Modest(server, object)
  BY <1>4 DEF Modest
<1>7. manner = "honest" => Honest(server, object, 11)
  <2>1. ASSUME manner = "honest", NEW first \in Nat, NEW last \in Nat, NEW m \in Nat,
               first <= last, last < Len(object)
        PROVE  Candid(server[<<<<first, last, Len(object)>>, m>>], first, last, object, 11)
    BY <1>4, <2>1, Zenon
  <2> QED BY <2>1, Zenon DEF Honest
<1> QED BY <1>1, <1>5, <1>6, <1>7

LEMMA FirstIsPinned ==
  ASSUME BoundsAreNumbers, NoneIsNoPart(Nat, 11), NEW case \in ReadCases, NEW first,
         first = Pinned(case)
  PROVE  /\ Sound(first, Nat, Bytes(case.length, 1), 11)
         /\ first.http.bytes = 0 /\ first.http.requests = 1 /\ ~first.http.late
         /\ first.http.max_bytes = case.max_bytes
         /\ first.http.max_requests = IF case.max_bytes = 5 THEN 3 ELSE 1 + 2 * MaxRange
<1>1. PICK n, most, many, object, http, reply, head, expected, fetch :
        /\ n = case.length /\ most = case.max_bytes
        /\ many = (IF case.max_bytes = 5 THEN 3 ELSE 1 + 2 * MaxRange)
        /\ object = Bytes(case.length, 1)
        /\ http = [bytes |-> 0, requests |-> 0, late |-> FALSE, max_bytes |-> case.max_bytes,
                   max_requests |-> IF case.max_bytes = 5 THEN 3 ELSE 1 + 2 * MaxRange]
        /\ reply = [status |-> 200, range |-> None, etag |-> 11, content |-> <<>>,
                    announced |-> case.length]
        /\ head = [reply EXCEPT !.content = <<>>, !.announced = 0]
        /\ expected = [status |-> 200, range |-> None, etag |-> None]
        /\ fetch = Http!Fetch(http, 0, head, expected)
  OBVIOUS
<1>2. /\ BlockSize \in Nat /\ MaxRange \in Nat /\ CacheBlocks \in Nat
      /\ MaxRange * BlockSize \in Nat
  BY DEF BoundsAreNumbers
<1>3. n \in Nat /\ n > 0 /\ most \in {5, Ample}
  BY <1>1 DEF ReadCases
<1>4. Ample \in Nat
  <2>1. PICK m : m = 2 * MaxRange
    OBVIOUS
  <2>2. m \in Nat
    BY <1>2, <2>1
  <2>3. m * BlockSize \in Nat
    BY <1>2, <2>2
  <2> QED BY <2>1, <2>3 DEF Ample
<1>5. most \in Nat /\ many \in Nat /\ many >= 1
  BY <1>1, <1>2, <1>3, <1>4
<1>6. object \in Seq(Nat) /\ Len(object) = n
  <2>1. 1 \in Nat /\ object = Bytes(n, 1)
    BY <1>1
  <2> QED BY <1>3, <2>1, BytesAreNumbers
<1>7. http = [bytes |-> 0, requests |-> 0, late |-> FALSE, max_bytes |-> most,
              max_requests |-> many]
  BY <1>1
<1>8. /\ head.status = 200 /\ head.range = None /\ head.etag = 11 /\ head.content = <<>>
      /\ head.announced = 0
  BY <1>1
<1>9. PICK counted, received :
        /\ counted = [http EXCEPT !.requests = @ + 1]
        /\ received = [counted EXCEPT !.bytes = @ + Len(head.content)]
  OBVIOUS
<1>10. received = [bytes |-> 0, requests |-> 1, late |-> FALSE, max_bytes |-> most,
                   max_requests |-> many]
  <2>1. counted = [bytes |-> 0, requests |-> 1, late |-> FALSE, max_bytes |-> most,
                   max_requests |-> many]
    <3>1. PICK one : one = http.requests + 1
      OBVIOUS
    <3>2. one = 1
      BY <1>7, <3>1
    <3>3. counted = [http EXCEPT !.requests = one]
      BY <1>9, <3>1
    <3>4. counted = [bytes |-> 0, requests |-> one, late |-> FALSE, max_bytes |-> most,
                     max_requests |-> many]
      BY <1>7, <3>3, Zenon
    <3> QED BY <3>2, <3>4
  <2>2. PICK none : none = counted.bytes + Len(head.content)
    OBVIOUS
  <2>3. none = 0
    BY <1>8, <2>1, <2>2
  <2>4. received = [counted EXCEPT !.bytes = none]
    BY <1>9, <2>2
  <2>5. received = [bytes |-> none, requests |-> 1, late |-> FALSE, max_bytes |-> most,
                    max_requests |-> many]
    BY <2>1, <2>4
  <2> QED BY <2>3, <2>5
<1>11. fetch = [http |-> received, content |-> head.content]
  <2>1. ~(http.late \/ http.requests >= http.max_requests)
    BY <1>5, <1>7
  <2>2. ~(0 > MaxRange \/ 0 > http.max_bytes - http.bytes)
    BY <1>2, <1>5, <1>7
  <2>3. /\ head.status = expected.status
        /\ expected.range # None => head.range = expected.range
        /\ expected.etag # None => head.etag = expected.etag
    BY <1>1, <1>8
  <2>4. ~(head.announced > 0)
    BY <1>8
  <2>5. ~(Len(head.content) > 0 \/ received.bytes > http.max_bytes)
    BY <1>5, <1>7, <1>8, <1>10
  <2> QED BY <1>1, <1>9, <2>1, <2>2, <2>3, <2>4, <2>5 DEF Http!Fetch
<1>12. fetch.http = received /\ fetch.content = <<>> /\ fetch.content # None
  <2>1. <<>> \in Seq(Nat)
    OBVIOUS
  <2>2. <<>> # None
    BY <2>1 DEF NoneIsNoPart
  <2> QED BY <1>8, <1>11, <2>2
<1>13. reply.announced = n /\ reply.etag = 11 /\ n # 0 /\ 11 # None
  BY <1>1, <1>3 DEF NoneIsNoPart
<1>14. first = [http |-> received, size |-> n, etag |-> 11, cache |-> <<>>, position |-> 0]
  <2>1. first = Http!Opened(http, reply)
    BY <1>1 DEF Pinned
  <2> QED BY <1>1, <1>12, <1>13, <2>1 DEF Http!Opened
<1>15. received \in Budgets
  BY <1>5, <1>10 DEF Budgets
<1>16. first \in Readers(Nat, object, 11)
  BY <1>3, <1>6, <1>14, <1>15 DEF Readers
<1>17. Sound(first, Nat, object, 11)
  BY <1>2, <1>5, <1>10, <1>14, <1>16 DEF Sound
<1> QED BY <1>1, <1>10, <1>14, <1>17

\* The sessions of the run are exact, for all bounds of which a block is no more
\* than may be asked for.
LEMMA ReadCasesAreExact ==
  ASSUME BoundsAreNumbers, BlockSize <= MaxRange, None \notin Nat, NoneIsNoPart(Nat, 11),
         NEW case \in ReadCases
  PROVE  PinnedReadsAreExactIn(case)
<1>1. PICK object, server, first, ops, session :
        /\ object = Bytes(case.length, 1) /\ server = ServerOf(case) /\ first = Pinned(case)
        /\ ops = case.ops /\ session = Session(case)
  OBVIOUS
<1>2. /\ case.of # "first" /\ ops \in [1 .. 2 -> ReadOps] /\ case.length \in Nat
      /\ case.max_bytes \in {5, Ample}
  BY <1>1 DEF ReadCases
<1>3. object \in Seq(Nat) /\ Len(object) = case.length
  <2>1. 1 \in Nat
    OBVIOUS
  <2> QED BY <1>1, <1>2, <2>1, BytesAreNumbers
<1>4. /\ Strong(server, Nat, object, 11)
      /\ case.manner \in {"honest", "changed"} => Modest(server, object)
      /\ case.manner = "honest" => Honest(server, object, 11)
  BY <1>1, RepliesAreGenuine
<1>5. /\ Sound(first, Nat, object, 11)
      /\ first.http.bytes = 0 /\ first.http.requests = 1 /\ ~first.http.late
      /\ first.http.max_bytes = case.max_bytes
      /\ first.http.max_requests = IF case.max_bytes = 5 THEN 3 ELSE 1 + 2 * MaxRange
  BY <1>1, FirstIsPinned
<1>6. ReadInTurn(session, ops, 2, first, server)
  <2>1. session = ReadFold(ops, [readers |-> <<first>>, gots |-> <<>>], server)
    <3>1. Session(case) = ReadFold(case.ops, [readers |-> <<Pinned(case)>>, gots |-> <<>>],
                                   ServerOf(case))
      BY DEF Session, ReadFold
    <3> QED BY <1>1, <3>1
  <2>2. DOMAIN case.ops = 1 .. 2 /\ 2 \in Nat
    BY <1>1, <1>2
  <2> QED BY <1>1, <1>2, <2>1, <2>2, FoldReads
<1>7. \A i \in 1 .. 2 : ops[i] \in ReadRequests
  BY <1>2 DEF ReadOps, ReadRequests
<1>8. ExactSession(session, ops, 2, first, server, Nat, object, 11)
  <2>1. 2 \in Nat
    OBVIOUS
  <2> QED BY <1>3, <1>4, <1>5, <1>6, <1>7, <2>1, SessionsAreExact, Zenon
<1>9. /\ BlockSize \in Nat /\ MaxRange \in Nat /\ MaxRange >= 1
  BY DEF BoundsAreNumbers
<1>10. case.max_bytes = Ample => Room(first, 2 * MaxRange)
  <2>1. PICK m, spent : m = 2 * MaxRange /\ spent = m * BlockSize
    OBVIOUS
  <2>2. PICK half : half = MaxRange * BlockSize
    OBVIOUS
  <2>3. half \in Nat /\ spent = 2 * half /\ m \in Nat
    BY <1>9, <2>1, <2>2
  <2>4. spent # 5 /\ Ample = spent
    BY <2>1, <2>3 DEF Ample
  <2>5. ASSUME case.max_bytes = Ample PROVE Room(first, m)
    <3>1. first.http.max_requests = 1 + m /\ first.http.max_bytes = spent
      BY <1>5, <2>1, <2>4, <2>5
    <3> QED BY <1>5, <2>1, <2>3, <3>1 DEF Room
  <2> QED BY <2>1, <2>5
<1>11. Paid(first)
  BY <1>2, <1>5, <1>9 DEF Paid, Sound, Readers, Budgets
<1>12. ASSUME NEW i \in 1 .. 2
       PROVE  ReadExactly(case, session.gots[i], session.readers[i + 1], Part(case, ops[i]))
  <2>1. PICK got, part : got = session.gots[i] /\ part = Part(case, ops[i])
    OBVIOUS
  <2>2. session.readers[i + 1] = got.reader
    BY <1>6, <2>1 DEF ReadInTurn
  <2>3. part = PartOf(object, ops[i])
    BY <1>1, <1>3, <2>1 DEF Part, PartOf
  <2>4. /\ Exact(got, part)
        /\ (Modest(server, object) /\ Paid(first)) =>
             got.reader.http.bytes <= first.http.max_bytes
        /\ (Honest(server, object, 11) /\ Room(first, 2 * MaxRange)) =>
             (got.failed <=> Len(part) > MaxRange)
    BY <1>8, <2>1, <2>3 DEF ExactSession
  <2> QED BY <1>4, <1>5, <1>10, <1>11, <2>1, <2>2, <2>4 DEF ReadExactly, Exact
<1>13. DOMAIN case.ops = 1 .. 2
  BY <1>1, <1>2
<1> QED BY <1>1, <1>12, <1>13 DEF PinnedReadsAreExactIn, AllExact

-------------------------------------------------------------------------------
(* The runs' cases *)

\* All cases of a set are of one kind.
Kind(S, of) == \A c \in S : c.of = of

LEMMA KindsOfEvaluations ==
  /\ Kind(Evaluations!WorldCoverCases, "evaluation")
  /\ Kind(Evaluations!ChangeCases, "evaluation")
  /\ Kind(Evaluations!MemoryCases, "evaluation")
  /\ Kind(Evaluations!GroundingCases, "evaluation")
  /\ Kind(Evaluations!SelectionCases, "evaluation")
<1>1. \A t, s, a, e, r : Evaluations!Case(t, s, a, e, r).of = "evaluation"
  BY DEF Evaluations!Case
<1>2. Kind(Evaluations!WorldCoverCases, "evaluation")
  BY DEF Kind, Evaluations!WorldCoverCases, Evaluations!Case
<1>3. Kind(Evaluations!ChangeCases, "evaluation")
  BY DEF Kind, Evaluations!ChangeCases, Evaluations!Case
<1>4. Kind(Evaluations!MemoryCases, "evaluation")
  BY DEF Kind, Evaluations!MemoryCases, Evaluations!Case
<1>5. Kind(Evaluations!GroundingCases, "evaluation")
  BY DEF Kind, Evaluations!GroundingCases, Evaluations!Case
<1>6. Kind(Evaluations!SelectionCases, "evaluation")
  BY DEF Kind, Evaluations!SelectionCases, Evaluations!Case
<1> QED BY <1>2, <1>3, <1>4, <1>5, <1>6

LEMMA KindsOfRasters ==
  /\ Kind(ResampleCases, "kernel") /\ Kind(RatioCases, "kernel") /\ Kind(StackCases, "kernel")
  /\ Kind(EpisodeCases, "episode") /\ Kind(SelectCases, "selection")
<1>1. \A o, p, f : KernelCase(o, p, f).of = "kernel"
  BY DEF KernelCase
<1>2. Kind(ResampleCases, "kernel")
  BY DEF Kind, ResampleCases, KernelCase
<1>3. Kind(RatioCases, "kernel")
  BY DEF Kind, RatioCases, KernelCase
<1>4. Kind(StackCases, "kernel")
  BY DEF Kind, StackCases, KernelCase
<1>5. Kind(EpisodeCases, "episode")
  <2>1. \A t, c : EpisodeCase(t, c).of = "episode"
    BY DEF EpisodeCase
  <2> QED BY DEF Kind, EpisodeCases, EpisodeCase
<1>6. Kind(SelectCases, "selection")
  <2>1. \A a, c : SelectCase(a, c).of = "selection"
    BY DEF SelectCase
  <2> QED BY DEF Kind, SelectCases, SelectCase
<1> QED BY <1>2, <1>3, <1>4, <1>5, <1>6

LEMMA KindsOfRecords ==
  /\ Kind(MigrationCases, "migration") /\ Kind(FirstCases, "first") /\ Kind(ReplayCases, "replay")
  /\ \A c \in TraceCases : c.of \in {"pages", "log"}
<1>1. Kind(MigrationCases, "migration")
  BY DEF Kind, MigrationCases
<1>2. Kind(FirstCases, "first")
  BY DEF Kind, FirstCases
<1>3. Kind(ReplayCases, "replay")
  BY DEF Kind, ReplayCases, ReplayCase
<1>4. \A c \in TraceCases : c.of \in {"pages", "log"}
  BY DEF TraceCases, PageCases, LogCases
<1> QED BY <1>1, <1>2, <1>3, <1>4

LEMMA KindsOfData ==
  /\ Kind(ZoneCases, "zone") /\ Kind(RangeCases, "range") /\ Kind(ReadCases, "reads")
  /\ Kind(WindowCases, "windows")
<1>1. Kind(ZoneCases, "zone")
  BY DEF Kind, ZoneCases
<1>2. Kind(RangeCases, "range")
  BY DEF Kind, RangeCases
<1>3. Kind(ReadCases, "reads")
  BY DEF Kind, ReadCases
<1>4. Kind(WindowCases, "windows")
  BY DEF Kind, WindowCases
<1> QED BY <1>1, <1>2, <1>3, <1>4

\* A case is one of those of its kind.
CaseOfKind ==
  /\ current.of = "selection" => current \in SelectCases
  /\ current.of = "migration" => current \in MigrationCases
  /\ current.of = "first" => current \in FirstCases
  /\ current.of = "range" => current \in RangeCases
  /\ current.of = "reads" => current \in ReadCases
  /\ current.of = "windows" => current \in WindowCases

LEMMA CasesAreOfKind == Spec => []CaseOfKind
<1>1. Init => CaseOfKind
  BY DEF Init, CaseOfKind
<1>2. CaseOfKind /\ [Next]_current => CaseOfKind'
  <2> SUFFICES ASSUME CaseOfKind, [Next]_current PROVE CaseOfKind'
    OBVIOUS
  <2>1. CASE UNCHANGED current
    BY <2>1 DEF CaseOfKind
  <2>2. ASSUME NEW kind, NEW cases, Take(kind, cases)
        PROVE  current' \in cases
    BY <2>2, Zenon DEF Take
  <2>3. CASE current'.of \notin {"selection", "migration", "first", "range", "reads", "windows"}
    BY <2>3 DEF CaseOfKind
  <2>4. ASSUME Next
        PROVE  \/ current'.of \notin {"selection", "migration", "first", "range", "reads", "windows"}
               \/ current'.of = "selection" /\ current' \in SelectCases
               \/ current'.of = "migration" /\ current' \in MigrationCases
               \/ current'.of = "first" /\ current' \in FirstCases
               \/ current'.of = "range" /\ current' \in RangeCases
               \/ current'.of = "reads" /\ current' \in ReadCases
               \/ current'.of = "windows" /\ current' \in WindowCases
    <3>1. \/ current' \in Evaluations!WorldCoverCases \/ current' \in Evaluations!ChangeCases
          \/ current' \in Evaluations!MemoryCases \/ current' \in Evaluations!GroundingCases
          \/ current' \in Evaluations!SelectionCases
          \/ current' \in ResampleCases \/ current' \in RatioCases \/ current' \in StackCases
          \/ current' \in EpisodeCases \/ current' \in SelectCases \/ current' \in MigrationCases
          \/ current' \in TraceCases \/ current' \in FirstCases \/ current' \in ReplayCases
          \/ current' \in ZoneCases \/ current' \in RangeCases \/ current' \in ReadCases
          \/ current' \in WindowCases
      BY <2>2, <2>4, Zenon DEF Next
    <3> QED BY <3>1, KindsOfEvaluations, KindsOfRasters, KindsOfRecords, KindsOfData DEF Kind
  <2>5. ASSUME Next PROVE CaseOfKind'
    BY <2>4, <2>5 DEF CaseOfKind
  <2> QED BY <2>1, <2>5
<1> QED BY <1>1, <1>2, PTL DEF Spec

\* The selections of the run.
LEMMA CoverageIsFraction ==
  ASSUME NEW box \in {<<0, 0, 3, 3>>, <<0, 0, 1, 2>>, <<0, 0, 2, 1>>, <<2, 0, 3, 3>>}
  PROVE  Coverage(box, <<0, 0, 2, 2>>) \in Fraction
<1>1. PICK requested, low, left, right, up :
        /\ requested = <<0, 0, 2, 2>>
        /\ left = Max({box[1], 0}) /\ low = Max({box[2], 0})
        /\ right = Min({box[3], 2}) /\ up = Min({box[4], 2})
  OBVIOUS
<1>2. /\ box[1] \in {0, 2} /\ box[2] = 0 /\ box[3] \in 1 .. 3 /\ box[4] \in 1 .. 3
  OBVIOUS
<1>3. left \in 0 .. 2 /\ low = 0 /\ right \in 1 .. 2 /\ up \in 1 .. 2
  <2>1. box[1] \in Int /\ box[2] \in Int /\ box[3] \in Int /\ box[4] \in Int
        /\ 0 \in Int /\ 2 \in Int
    BY <1>2
  <2>2. left \in {box[1], 0} /\ low \in {box[2], 0} /\ right \in {box[3], 2} /\ up \in {box[4], 2}
    BY <1>1, <2>1, LargerOfTwo, SmallerOfTwo, Zenon
  <2>3. right <= 2 /\ up <= 2
    BY <1>1, <2>1, SmallerOfTwo, Zenon
  <2> QED BY <1>2, <2>2, <2>3
<1>4. PICK common : common = <<left, low, right, up>>
  OBVIOUS
<1>5. Coverage(box, requested) =
        IF common[1] >= common[3] \/ common[2] >= common[4]
        THEN Zero ELSE <<Area(common), Area(requested)>>
  <2>1. requested[1] = 0 /\ requested[2] = 0 /\ requested[3] = 2 /\ requested[4] = 2
    BY <1>1
  <2> QED BY <1>1, <1>4, <2>1 DEF Coverage
<1>6. Sine(0) = 0 /\ Sine(1) = 3 /\ Sine(2) = 5
  BY DEF Sine
<1>7. Area(requested) = 10
  BY <1>1, <1>6 DEF Area
<1>8. Area(common) \in Int
  <2>1. common[1] = left /\ common[2] = 0 /\ common[3] = right /\ common[4] = up
    BY <1>3, <1>4
  <2>2. Sine(up) \in Int
    BY <1>3, <1>6
  <2>3. PICK wide, high : wide = right - left /\ high = Sine(up) - Sine(0)
    OBVIOUS
  <2>4. wide \in Int /\ high \in Int
    BY <1>3, <1>6, <2>2, <2>3
  <2>5. wide * high \in Int
    BY <2>4
  <2>6. Area(common) = wide * high
    BY <2>1, <2>3 DEF Area
  <2> QED BY <2>5, <2>6
<1> QED BY <1>1, <1>5, <1>7, <1>8 DEF Fraction, Zero

LEMMA SelectCasesAreStable ==
  ASSUME MaxCandidates \in Nat, NEW c \in SelectCases
  PROVE  SelectionIsStableIn(c)
<1> DEFINE boxes == {<<0, 0, 3, 3>>, <<0, 0, 1, 2>>, <<0, 0, 2, 1>>, <<2, 0, 3, 3>>}
           first == {Proposal(1, 1, "a", b, k) : b \in boxes, k \in {0, 2}}
           second == {Proposal(i, 2, n, b, k) : i \in {1, 2}, n \in {"a", "b"}, b \in boxes,
                                               k \in {0, 1}}
           third == {Proposal(3, d, n, <<0, 0, 3, 3>>, k) : d \in {3, 4, 5}, n \in {"a", "b"},
                                                           k \in {0, 1, 2}}
           fourth == {Proposal(4, 3, "a", <<0, 0, 3, 3>>, 1),
                      Proposal(4, 4, "b", <<0, 0, 3, 3>>, 0)}
           Plain(x) == x.item \in Int /\ x.acquired \in Int /\ x.cloud \in Int /\ x.bbox \in boxes
<1>1. <<0, 0, 3, 3>> \in boxes
  OBVIOUS
<1>2. \A x : x \in first \/ x \in second \/ x \in third \/ x \in fourth => Plain(x)
  <2> HIDE DEF boxes
  <2>1. ASSUME NEW i \in Int, NEW d \in Int, NEW n, NEW b \in boxes, NEW k \in Int
        PROVE  Plain(Proposal(i, d, n, b, k))
    BY DEF Proposal
  <2> HIDE DEF Plain
  <2>2. \A x \in first : Plain(x)
    BY <2>1
  <2>3. \A x \in second : Plain(x)
    BY <2>1
  <2>4. \A x \in third : Plain(x)
    BY <1>1, <2>1
  <2>5. \A x \in fourth : Plain(x)
    BY <1>1, <2>1
  <2> HIDE DEF first, second, third, fourth
  <2> QED BY <2>2, <2>3, <2>4, <2>5
<1>3. PICK p, q, r, s : /\ c = SelectCase(Wanted, <<p, q, r, s>>)
                        /\ Plain(p) /\ Plain(q) /\ Plain(r) /\ Plain(s)
  <2>1. SelectCases = {SelectCase(Wanted, <<x, y, z, w>>) :
                         x \in first, y \in second, z \in third, w \in fourth}
    BY DEF SelectCases
  <2> HIDE DEF first, second, third, fourth, Plain
  <2>2. \E x \in first, y \in second, z \in third, w \in fourth :
          c = SelectCase(Wanted, <<x, y, z, w>>)
    BY <2>1
  <2> QED BY <1>2, <2>2
<1>4. PICK T, A, aoi, candidates :
        /\ T = {p, q, r, s} /\ A = {<<0, 0, 2, 2>>} /\ aoi = <<0, 0, 2, 2>>
        /\ candidates = <<p, q, r, s>>
  OBVIOUS
<1>5. c.arguments = Wanted /\ c.candidates = candidates
  BY <1>3, <1>4 DEF SelectCase
<1>6. candidates \in Seq(T)
  BY <1>4
<1>7. Wanted.aoi = aoi /\ Wanted.maximum_cloud = 1 /\ Wanted.after[2] = 4
      /\ Wanted.minimum_coverage = <<1, 2>>
  BY <1>4 DEF Wanted
<1>8. Wanted \in Limits(A)
  BY <1>4 DEF Wanted, Limits, Fraction
<1>9. Numbered(ToSet(candidates), aoi)
  <2>1. \A x \in ToSet(candidates) : x \in T
    BY <1>6 DEF ToSet
  <2>2. \A x \in T : Plain(x)
    BY <1>3, <1>4
  <2>3. \A b \in boxes : Coverage(b, aoi) \in Fraction
    BY <1>4, CoverageIsFraction
  <2> QED BY <2>1, <2>2, <2>3 DEF Numbered
<1>10. Leq(<<1, 4>>, <<1, 2>>)
  BY DEF Leq
<1>11. /\ c.arguments \in Limits(A) /\ c.candidates \in Seq(T)
       /\ Numbered(ToSet(c.candidates), c.arguments.aoi)
       /\ Leq(<<1, 4>>, c.arguments.minimum_coverage) /\ c.arguments.maximum_cloud <= 2
       /\ c.arguments.after[2] <= 5
  BY <1>5, <1>6, <1>7, <1>8, <1>9, <1>10
<1> QED BY <1>11, SelectionsAreStable, Zenon

LEMMA RangeCasesAreExact ==
  ASSUME NoneIsApart, None \notin Seq(Nat), NEW c \in RangeCases
  PROVE  ServedRangesAreExactIn(c)
<1>1. c.length \in Nat /\ c.header \in Headers
  BY DEF RangeCases
<1>2. c.header \in {None} \cup RangeHeaders
  <2>1. Headers \subseteq {None} \cup RangeHeaders
    BY DEF Headers, RangeHeaders
  <2> QED BY <1>1, <2>1
<1>3. None # Bytes(c.length, 1)
  <2>1. \A i \in 1 .. c.length : 10 * 1 + i \in Nat
    OBVIOUS
  <2>2. Bytes(c.length, 1) \in Seq(Nat)
    BY <1>1, <2>1 DEF Bytes
  <2> QED BY <2>2
<1> QED BY <1>1, <1>2, <1>3, ServedAreExact

\* The choice of two dates keeps to its order in every case of the run: it
\* depends neither on the order of the candidates nor on those that are not
\* chosen, and laxer limits do not lose it (core/temporal.py, select_temporal_pair).
THEOREM RunSelectsStably ==
  ASSUME MaxCandidates \in Nat
  PROVE  Spec => []SelectionIsStable
<1>1. CaseOfKind => SelectionIsStable
  BY SelectCasesAreStable, Zenon DEF CaseOfKind, SelectionIsStable
<1> QED BY <1>1, CasesAreOfKind, PTL

\* Every database of the run keeps, over its migration, the rows that an episode
\* may read (core/store.py, StateStore.initialize).
THEOREM RunKeepsRows == Spec => []MigrationKeepsRows
<1>1. CaseOfKind => MigrationKeepsRows
  BY MigrationsKeepCases, Zenon DEF CaseOfKind, MigrationKeepsRows
<1> QED BY <1>1, CasesAreOfKind, PTL

\* Every history of the run acts once for each id, and repeats the answer
\* (harness_api/app/store.py, EpisodeStore.step).
THEOREM RunRepeatsAnswers ==
  ASSUME ErrorsAreErrors
  PROVE  Spec => []FirstApiRepeats
<1>1. CaseOfKind => FirstApiRepeats
  BY FirstCasesRepeat, Zenon DEF CaseOfKind, FirstApiRepeats
<1> QED BY <1>1, CasesAreOfKind, PTL

\* Every range of the run is served, and every session read, exactly: whatever
\* the length of a block, of the longest read and of the cache
\* (core/artifacts.py, core/api.py, core/data/http_range.py).
THEOREM RunReadsExactly ==
  ASSUME BoundsAreNumbers, BlockSize <= MaxRange, NoneIsApart, NoneIsNoPart(Nat, 11)
  PROVE  Spec => []RangesAreExact
<1>1. None \notin Nat /\ None \notin Seq(Nat)
  BY DEF NoneIsApart, NoneIsNoPart
<1>2. ASSUME NEW c \in RangeCases PROVE ServedRangesAreExactIn(c)
  BY <1>1, RangeCasesAreExact
<1>3. ASSUME NEW c \in ReadCases PROVE PinnedReadsAreExactIn(c)
  BY <1>1, ReadCasesAreExact
<1>4. CaseOfKind => RangesAreExact
  BY <1>2, <1>3, Zenon DEF CaseOfKind, RangesAreExact, ServedRangesAreExact, PinnedReadsAreExact
<1> QED BY <1>4, CasesAreOfKind, PTL

\* Every extraction of the run is well made, and what it wrote is verified if and
\* only if nobody touched it (core/data/raster_windows.py,
\* extract_raster_windows, verify_raster_window_output).
THEOREM RunWindowsVerify ==
  ASSUME CodesAreCodes
  PROVE  Spec => []WindowsVerify
<1>1. CaseOfKind => WindowsVerify
  BY WindowCasesVerify, Zenon DEF CaseOfKind, WindowsVerify
<1> QED BY <1>1, CasesAreOfKind, PTL
===============================================================================
