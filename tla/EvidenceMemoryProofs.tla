-------------------------- MODULE EvidenceMemoryProofs ------------------------
(***************************************************************************)
(* Proofs about the evidence memory, for any operators, records, commands  *)
(* and limits.                                                             *)
(*                                                                         *)
(* publish and invalidate append what an earlier snapshot allowed.  The    *)
(* inductive invariant says why that is still allowed: whoever is about to *)
(* append holds the writer lock, and so the log is the one it looked at.   *)
(***************************************************************************)
EXTENDS EvidenceMemory, FiniteSetTheorems, SequenceTheorems, TLAPS

(* The log as a constant, for the lemmas about an append. *)
PublishedIn(L, n, r) == \E i \in 1 .. n : L[i].op = "publish" /\ L[i].record = r

InvalidatedIn(L, n, r) == \E i \in 1 .. n : L[i].op = "invalidate" /\ L[i].record = r

ActiveIn(L, n) ==
  {r \in Records : PublishedIn(L, n, r) /\ ~InvalidatedIn(L, n, r)}

\* Event i of a log can be folded, and its replacement was active.
GoodAt(L, i) ==
  \/ L[i].op = "publish" /\ ~PublishedIn(L, i - 1, L[i].record)
  \/ /\ L[i].op = "invalidate"
     /\ PublishedIn(L, i - 1, L[i].record) /\ ~InvalidatedIn(L, i - 1, L[i].record)
     /\ L[i].replacement # None
          => L[i].replacement \in ActiveIn(L, i - 1) \ {L[i].record}

WithinLimitIn(L) ==
  IsFiniteSet(ActiveIn(L, Len(L))) /\ Cardinality(ActiveIn(L, Len(L))) <= MaxActive

GoodLog(L) == (\A i \in 1 .. Len(L) : GoodAt(L, i)) /\ WithinLimitIn(L)

\* The checks of publish and invalidate, for an event to append.
LegalIn(L, e) ==
  \/ /\ e.op = "publish" /\ ~PublishedIn(L, Len(L), e.record)
     /\ Cardinality(ActiveIn(L, Len(L))) < MaxActive
  \/ /\ e.op = "invalidate"
     /\ PublishedIn(L, Len(L), e.record) /\ ~InvalidatedIn(L, Len(L), e.record)
     /\ e.replacement # None
          => e.replacement \in ActiveIn(L, Len(L)) \ {e.record}

\* A run of the script that is not idle has the writer lock.
LockHeld == \A w \in Operators : cli[w].pc # "idle" => holder = w

\* What a run is about to append is still legal.
AppendsLegal ==
  \A w \in Operators :
    cli[w].pc = "appending" => LegalIn(log, Event(cli[w].command, cli[w].timestamp))

\* Bindings are prefixes of the log.
PinsArePrefixes ==
  \A pin \in pins : /\ pin.sequence \in 0 .. Latest
                    /\ pin.head = SubSeq(log, 1, pin.sequence)

\* What a binding answers at every later time.
Settled(pin) ==
  [denied |-> FALSE,
   records |-> {r \in ActiveIn(log, pin.sequence) : Valid(r, pin.as_of)}]

SeenIsSettled == \A x \in seen : x[1] \in pins /\ x[2] = Settled(x[1])

IInv == /\ TypeOK /\ LockHeld /\ AppendsLegal /\ GoodLog(log)
        /\ PinsArePrefixes /\ SeenIsSettled

\* The log of this state and its length.
LEMMA LogType ==
  ASSUME TypeOK
  PROVE  /\ log \in Seq(Events) /\ Latest \in Nat
         /\ \A i \in 1 .. Latest : log[i] \in Events
<1>1. log \in Seq(Events)
  BY DEF TypeOK
<1> QED BY <1>1, LenProperties, ElementOfSeq DEF Latest

\* The operators of the model, read from the log of this state.
LEMMA Snapshot ==
  ASSUME NEW n
  PROVE  /\ \A r : Published(n, r) <=> PublishedIn(log, n, r)
         /\ \A r : Invalidated(n, r) <=> InvalidatedIn(log, n, r)
         /\ Active(n) = ActiveIn(log, n)
  BY DEF Published, Invalidated, Active, PublishedIn, InvalidatedIn, ActiveIn

\* Initially the log is empty.
LEMMA InitIInv == ASSUME Init PROVE IInv
<1>1. log \in Seq(Events) /\ Latest = 0
  BY EmptySeq DEF Init, Latest
<1>2. ActiveIn(log, 0) = {} /\ Len(log) = 0
  BY <1>1 DEF ActiveIn, PublishedIn, Latest
<1>3. TypeOK
  BY <1>1, MemoryAssumption DEF Init, TypeOK, Runs, Idle
<1>4. LockHeld /\ AppendsLegal
  BY DEF Init, LockHeld, AppendsLegal, Idle
<1>5. GoodLog(log)
  <2>1. IsFiniteSet({}) /\ Cardinality({}) = 0
    BY FS_EmptySet
  <2>2. ActiveIn(log, Len(log)) = {}
    BY <1>2
  <2>3. 0 <= MaxActive
    BY MemoryAssumption
  <2>4. WithinLimitIn(log)
    BY <2>1, <2>2, <2>3, Zenon DEF WithinLimitIn
  <2> QED BY <1>2, <2>4 DEF GoodLog
<1>6. PinsArePrefixes /\ SeenIsSettled
  BY DEF Init, PinsArePrefixes, SeenIsSettled
<1> QED BY <1>3, <1>4, <1>5, <1>6 DEF IInv

\* Sequences of events that agree up to n have the same prefix of length n.
LEMMA PrefixesAgree ==
  ASSUME NEW s, NEW t, NEW n \in Nat,
         \A i \in 1 .. n : s[i] \in Events /\ t[i] = s[i]
  PROVE  SubSeq(t, 1, n) = SubSeq(s, 1, n)
<1>1. \A i \in 1 .. n : t[i] \in Events
  OBVIOUS
<1>2. /\ SubSeq(s, 1, n) \in Seq(Events)
      /\ Len(SubSeq(s, 1, n)) = n
      /\ \A i \in 1 .. n : SubSeq(s, 1, n)[i] = s[i]
  BY SubSeqProperties
<1>3. /\ SubSeq(t, 1, n) \in Seq(Events)
      /\ Len(SubSeq(t, 1, n)) = n
      /\ \A i \in 1 .. n : SubSeq(t, 1, n)[i] = t[i]
  BY <1>1, SubSeqProperties
<1> QED BY <1>2, <1>3, SeqEqual

\* M is L and one more event; every earlier snapshot is as it was.
Extends(M, L, e, N) ==
  /\ N \in Nat /\ M \in Seq(Events) /\ Len(M) = N + 1 /\ M[N + 1] = e
  /\ \A i \in 1 .. N : M[i] = L[i] /\ L[i] \in Events
  /\ \A n \in 0 .. N :
       /\ \A r : PublishedIn(M, n, r) <=> PublishedIn(L, n, r)
       /\ \A r : InvalidatedIn(M, n, r) <=> InvalidatedIn(L, n, r)
       /\ ActiveIn(M, n) = ActiveIn(L, n)
       /\ SubSeq(M, 1, n) = SubSeq(L, 1, n)

\* An append leaves every earlier snapshot as it was.
LEMMA AppendKeepsSnapshots ==
  ASSUME NEW L \in Seq(Events), NEW e \in Events
  PROVE  Extends(Append(L, e), L, e, Len(L))
<1>0. PICK M, N : M = Append(L, e) /\ N = Len(L)
  OBVIOUS
<1>1. N \in Nat /\ M \in Seq(Events) /\ Len(M) = N + 1 /\ M[N + 1] = e
  BY <1>0
<1>2. \A i \in 1 .. N : M[i] = L[i] /\ L[i] \in Events
  BY <1>0
<1>3. ASSUME NEW n \in 0 .. N
      PROVE  /\ \A r : PublishedIn(M, n, r) <=> PublishedIn(L, n, r)
             /\ \A r : InvalidatedIn(M, n, r) <=> InvalidatedIn(L, n, r)
             /\ ActiveIn(M, n) = ActiveIn(L, n)
             /\ SubSeq(M, 1, n) = SubSeq(L, 1, n)
  <2>1. n \in Nat /\ \A i \in 1 .. n : i \in 1 .. N
    BY <1>1
  <2>2. \A i \in 1 .. n : M[i] = L[i] /\ L[i] \in Events
    BY <1>2, <2>1
  <2>3. \A r : PublishedIn(M, n, r) <=> PublishedIn(L, n, r)
    BY <2>2 DEF PublishedIn
  <2>4. \A r : InvalidatedIn(M, n, r) <=> InvalidatedIn(L, n, r)
    BY <2>2 DEF InvalidatedIn
  <2>5. ActiveIn(M, n) = ActiveIn(L, n)
    BY <2>3, <2>4 DEF ActiveIn
  <2>6. SubSeq(M, 1, n) = SubSeq(L, 1, n)
    BY <2>1, <2>2, PrefixesAgree
  <2> QED BY <2>3, <2>4, <2>5, <2>6
<1>4. Extends(M, L, e, N)
  BY <1>1, <1>2, <1>3 DEF Extends
<1> QED BY <1>0, <1>4

\* Appending a legal event to a good log makes a good log.
LEMMA LegalAppend ==
  ASSUME NEW L \in Seq(Events), GoodLog(L), NEW e \in Events, LegalIn(L, e),
         NEW M, M = Append(L, e)
  PROVE  GoodLog(M)
<1>0. PICK N : N = Len(L)
  OBVIOUS
<1>a. Extends(M, L, e, N)
  BY <1>0, AppendKeepsSnapshots
<1>1. /\ N \in Nat /\ M \in Seq(Events) /\ Len(M) = N + 1 /\ M[N + 1] = e
      /\ \A i \in 1 .. N : M[i] = L[i] /\ L[i] \in Events
      /\ \A n \in 0 .. N :
           /\ \A r : PublishedIn(M, n, r) <=> PublishedIn(L, n, r)
           /\ \A r : InvalidatedIn(M, n, r) <=> InvalidatedIn(L, n, r)
           /\ ActiveIn(M, n) = ActiveIn(L, n)
  BY <1>a DEF Extends
<1>2. e.record \in Records
  BY DEF Events
<1>3. \A i \in 1 .. N + 1 : i - 1 \in 0 .. N /\ (i \in 1 .. N \/ i = N + 1)
  BY <1>1
<1>4. (N + 1) - 1 = N /\ N \in 0 .. N
  BY <1>1
<1>5. ASSUME NEW i \in 1 .. N + 1
      PROVE  GoodAt(M, i)
  <2>1. CASE i \in 1 .. N
    <3>1. GoodAt(L, i)
      BY <1>0, <2>1 DEF GoodLog
    <3>2. M[i] = L[i] /\ i - 1 \in 0 .. N
      BY <2>1, <1>1, <1>3
    <3> QED BY <3>1, <3>2, <1>1 DEF GoodAt
  <2>2. CASE i = N + 1
    <3>1. M[i] = e /\ i - 1 = N
      BY <2>2, <1>1, <1>4
    <3>2. \/ e.op = "publish" /\ ~PublishedIn(L, N, e.record)
          \/ /\ e.op = "invalidate"
             /\ PublishedIn(L, N, e.record) /\ ~InvalidatedIn(L, N, e.record)
             /\ e.replacement # None => e.replacement \in ActiveIn(L, N) \ {e.record}
      BY <1>0 DEF LegalIn
    <3> QED BY <3>1, <3>2, <1>1, <1>4 DEF GoodAt
  <2> QED BY <1>3, <2>1, <2>2
<1>6. WithinLimitIn(M)
  <2>1. /\ \A r : PublishedIn(M, N + 1, r)
                   <=> PublishedIn(L, N, r) \/ (e.op = "publish" /\ r = e.record)
        /\ \A r : InvalidatedIn(L, N, r) => InvalidatedIn(M, N + 1, r)
    <3>1. \A i \in 1 .. N : i \in 1 .. N + 1
      BY <1>1
    <3>2. N + 1 \in 1 .. N + 1
      BY <1>1
    <3> QED BY <3>1, <3>2, <1>1, <1>3 DEF PublishedIn, InvalidatedIn
  <2>2. /\ IsFiniteSet(ActiveIn(L, N)) /\ Cardinality(ActiveIn(L, N)) <= MaxActive
        /\ Cardinality(ActiveIn(L, N)) \in Nat
    BY <1>0, FS_CardinalityType DEF GoodLog, WithinLimitIn
  <2>3. CASE e.op = "publish"
    <3> DEFINE Bigger == ActiveIn(L, N) \cup {e.record}
    <3>1. ActiveIn(M, N + 1) \subseteq Bigger
      BY <2>1 DEF ActiveIn
    <3>2. Cardinality(ActiveIn(L, N)) < MaxActive
      BY <1>0, <2>3 DEF LegalIn
    <3>3. /\ IsFiniteSet(Bigger)
          /\ \/ Cardinality(Bigger) = Cardinality(ActiveIn(L, N))
             \/ Cardinality(Bigger) = Cardinality(ActiveIn(L, N)) + 1
      BY <2>2, FS_AddElement
    <3> HIDE DEF Bigger
    <3>4. /\ IsFiniteSet(ActiveIn(M, N + 1))
          /\ Cardinality(ActiveIn(M, N + 1)) <= Cardinality(Bigger)
      BY <3>1, <3>3, FS_Subset
    <3>5. Cardinality(ActiveIn(M, N + 1)) \in Nat /\ Cardinality(Bigger) \in Nat
      BY <3>3, <3>4, FS_CardinalityType
    <3> QED BY <1>1, <2>2, <3>2, <3>3, <3>4, <3>5, MemoryAssumption DEF WithinLimitIn
  <2>4. CASE e.op = "invalidate"
    <3>1. ActiveIn(M, N + 1) \subseteq ActiveIn(L, N)
      BY <2>4, <2>1 DEF ActiveIn
    <3>2. /\ IsFiniteSet(ActiveIn(M, N + 1))
          /\ Cardinality(ActiveIn(M, N + 1)) <= Cardinality(ActiveIn(L, N))
      BY <2>2, <3>1, FS_Subset
    <3>3. Cardinality(ActiveIn(M, N + 1)) \in Nat
      BY <3>2, FS_CardinalityType
    <3> QED BY <1>1, <2>2, <3>2, <3>3, MemoryAssumption DEF WithinLimitIn
  <2> QED BY <2>3, <2>4 DEF LegalIn
<1> QED BY <1>1, <1>5, <1>6 DEF GoodLog

-------------------------------------------------------------------------------
(* The parts of the invariant that only the log and the bindings matter to *)

\* A step that leaves the log and the bindings alone keeps what is said of
\* them.
LEMMA LogUnchanged ==
  ASSUME IInv, UNCHANGED <<log, pins, seen>>
  PROVE  GoodLog(log)' /\ PinsArePrefixes' /\ SeenIsSettled'
<1>1. GoodLog(log)'
  BY DEF IInv
<1>2. PinsArePrefixes'
  BY DEF IInv, PinsArePrefixes, Latest
<1>3. SeenIsSettled'
  BY DEF IInv, SeenIsSettled, Settled
<1> QED BY <1>1, <1>2, <1>3

\* What publish and invalidate decide to append is legal on the log they saw.
LEMMA AppendVerdictIsLegal ==
  ASSUME NEW c \in Commands, NEW t, Verdict(c, t) = "append"
  PROVE  LegalIn(log, Event(c, t))
<1>1. /\ \A r : Published(Latest, r) <=> PublishedIn(log, Len(log), r)
      /\ \A r : Invalidated(Latest, r) <=> InvalidatedIn(log, Len(log), r)
      /\ Active(Latest) = ActiveIn(log, Len(log))
  BY Snapshot DEF Latest
<1>2. CASE c.op = "publish"
  <2>1. ~OverLimit(c.record) /\ ~Published(Latest, c.record)
    BY <1>2 DEF Verdict
  <2>2. ~Published(Latest, c.record) /\ Room
    BY <2>1 DEF OverLimit
  <2>3. Event(c, t).op = "publish" /\ Event(c, t).record = c.record
    BY <1>2 DEF Event
  <2> QED BY <1>1, <2>2, <2>3 DEF LegalIn, Room
<1>3. CASE c.op = "invalidate"
  <2>1. /\ Published(Latest, c.record) /\ ~Invalidated(Latest, c.record)
        /\ c.record # c.replacement /\ ReplacementActive(c)
    BY <1>3 DEF Verdict
  <2>2. /\ Event(c, t).op = "invalidate" /\ Event(c, t).record = c.record
        /\ Event(c, t).replacement = c.replacement
    BY <1>3 DEF Event
  <2> QED BY <1>1, <2>1, <2>2 DEF LegalIn, ReplacementActive
<1>4. c.op = "publish" \/ c.op = "invalidate"
  BY MemoryAssumption
<1> QED BY <1>2, <1>3, <1>4

\* The answer of a search is settled when its binding is made.
LEMMA ResultIsSettled ==
  ASSUME IInv, NEW pin \in pins
  PROVE  Result(pin) = Settled(pin)
<1>1. pin.sequence \in 0 .. Latest /\ pin.head = SubSeq(log, 1, pin.sequence)
  BY DEF IInv, PinsArePrefixes
<1>2. pin.sequence <= Latest
  BY <1>1, LogType DEF IInv
<1>3. Readable(pin.sequence)
  <2>1. \A i \in 1 .. pin.sequence : i \in 1 .. Len(log)
    BY <1>1, LogType DEF IInv, Latest
  <2>2. \A i \in 1 .. pin.sequence : GoodAt(log, i)
    BY <2>1 DEF IInv, GoodLog
  <2> QED BY <2>2, Snapshot DEF Readable, GoodAt, ActiveIn
<1>4. Active(pin.sequence) = ActiveIn(log, pin.sequence)
  BY Snapshot
<1> QED BY <1>1, <1>2, <1>3, <1>4, Zenon DEF Result, Selected, Settled

-------------------------------------------------------------------------------
(* Every step *)

\* A run that takes the lock: nobody else has it, so nobody else is active.
LEMMA StartKeepsIInv ==
  ASSUME IInv, NEW w \in Operators, NEW c \in Commands, Start(w, c)
  PROVE  IInv'
<1>1. TypeOK /\ LockHeld /\ now \in Nat
  BY DEF IInv, TypeOK
<1>2. UNCHANGED <<log, now, pins, seen>> /\ holder = None /\ holder' = w
  BY DEF Start, LockFree
<1>3. cli' = [cli EXCEPT ![w] = [pc |-> "checking", command |-> c, timestamp |-> now]]
  BY DEF Start
<1>4. /\ cli'[w] = [pc |-> "checking", command |-> c, timestamp |-> now]
      /\ \A v \in Operators \ {w} : cli'[v] = cli[v]
  BY <1>1, <1>3 DEF TypeOK
<1>5. \A v \in Operators : cli[v].pc = "idle"
  BY <1>1, <1>2, MemoryAssumption DEF LockHeld
<1>6. TypeOK'
  <2>1. [pc |-> "checking", command |-> c, timestamp |-> now] \in Runs
    BY <1>1 DEF Runs
  <2>2. cli' \in [Operators -> Runs]
    BY <1>1, <1>3, <2>1 DEF TypeOK
  <2>3. \A v \in Operators : /\ cli'[v].pc # "idle" => cli'[v].command \in Commands
                             /\ cli'[v].timestamp <= now
    BY <1>1, <1>4 DEF TypeOK
  <2> QED BY <1>1, <1>2, <2>2, <2>3 DEF TypeOK, Latest
<1>7. LockHeld' /\ AppendsLegal'
  BY <1>2, <1>4, <1>5 DEF LockHeld, AppendsLegal
<1> QED BY <1>2, <1>6, <1>7, LogUnchanged DEF IInv

\* A run that ends, with an answer or without, and the lock with it.
LEMMA EndKeepsIInv ==
  ASSUME IInv, NEW w \in Operators, cli[w].pc # "idle",
         cli' = [cli EXCEPT ![w] = Idle], holder' = None,
         UNCHANGED <<log, now, pins, seen>>
  PROVE  IInv'
<1>1. TypeOK /\ LockHeld /\ now \in Nat
  BY DEF IInv, TypeOK
<1>2. cli'[w] = Idle /\ \A v \in Operators \ {w} : cli'[v] = cli[v]
  BY <1>1 DEF TypeOK
<1>3. \A v \in Operators \ {w} : cli[v].pc = "idle"
  BY <1>1 DEF LockHeld
<1>4. TypeOK'
  <2>1. Idle \in Runs
    BY DEF Idle, Runs
  <2>2. cli' \in [Operators -> Runs]
    BY <1>1, <2>1 DEF TypeOK
  <2>3. \A v \in Operators : /\ cli'[v].pc # "idle" => cli'[v].command \in Commands
                             /\ cli'[v].timestamp <= now
    BY <1>1, <1>2 DEF TypeOK, Idle
  <2> QED BY <1>1, <2>2, <2>3 DEF TypeOK, Latest
<1>5. LockHeld' /\ AppendsLegal'
  BY <1>2, <1>3 DEF LockHeld, AppendsLegal, Idle
<1> QED BY <1>4, <1>5, LogUnchanged DEF IInv

\* A run that looked at its snapshot and goes on: its event is legal.
LEMMA CheckKeepsIInv ==
  ASSUME IInv, NEW w \in Operators, Check(w)
  PROVE  IInv'
<1>1. TypeOK /\ LockHeld /\ AppendsLegal /\ cli[w] \in Runs
  BY DEF IInv, TypeOK
<1>2. UNCHANGED <<log, now, pins, seen>> /\ cli[w].pc = "checking"
  BY DEF Check
<1>3. CASE Verdict(cli[w].command, cli[w].timestamp) # "append"
  <2>1. cli' = [cli EXCEPT ![w] = Idle] /\ holder' = None
    BY <1>3 DEF Check
  <2> QED BY <1>2, <2>1, EndKeepsIInv
<1>4. CASE Verdict(cli[w].command, cli[w].timestamp) = "append"
  <2>1. cli' = [cli EXCEPT ![w].pc = "appending"] /\ holder' = holder
    BY <1>4 DEF Check
  <2>2. /\ cli'[w].pc = "appending" /\ cli'[w].command = cli[w].command
        /\ cli'[w].timestamp = cli[w].timestamp /\ cli'[w] \in Runs
        /\ \A v \in Operators \ {w} : cli'[v] = cli[v]
    BY <1>1, <2>1 DEF TypeOK, Runs
  <2>3. cli' \in [Operators -> Runs]
    BY <1>1, <2>1, <2>2 DEF TypeOK
  <2>4. cli[w].command \in Commands
    BY <1>1, <1>2 DEF TypeOK
  <2>5. TypeOK'
    <3>1. \A v \in Operators : /\ cli'[v].pc # "idle" => cli'[v].command \in Commands
                               /\ cli'[v].timestamp <= now
      BY <1>1, <2>2, <2>4 DEF TypeOK
    <3> QED BY <1>1, <1>2, <2>1, <2>3, <3>1 DEF TypeOK, Latest
  <2>6. LockHeld'
    BY <1>1, <1>2, <2>1, <2>2 DEF LockHeld
  <2>7. AppendsLegal'
    <3>1. LegalIn(log, Event(cli[w].command, cli[w].timestamp))
      BY <1>4, <2>4, AppendVerdictIsLegal
    <3> QED BY <1>1, <1>2, <2>2, <3>1 DEF AppendsLegal
  <2> QED BY <1>2, <2>5, <2>6, <2>7, LogUnchanged DEF IInv
<1> QED BY <1>3, <1>4

\* The append: the lock kept every other run away since the snapshot.
LEMMA AppendKeepsIInv ==
  ASSUME IInv, NEW w \in Operators, AppendEvent(w)
  PROVE  IInv'
<1>1. TypeOK /\ LockHeld /\ AppendsLegal /\ GoodLog(log) /\ cli[w] \in Runs
  BY DEF IInv, TypeOK
<1>2. /\ UNCHANGED <<holder, now, pins, seen>> /\ cli[w].pc = "appending"
      /\ cli' = [cli EXCEPT ![w].pc = "appended"] /\ RoomInStore
  BY DEF AppendEvent
<1>3. PICK e : e = Event(cli[w].command, cli[w].timestamp)
  OBVIOUS
<1>4. log' = Append(log, e) /\ LegalIn(log, e)
  BY <1>1, <1>2, <1>3 DEF AppendEvent, AppendsLegal
<1>5. e \in Events /\ e.at <= now
  <2>1. cli[w].command \in Commands /\ cli[w].timestamp <= now /\ cli[w].timestamp \in Nat
    BY <1>1, <1>2 DEF TypeOK, Runs
  <2> QED BY <1>3, <2>1, MemoryAssumption DEF Event, Events
<1>6. log \in Seq(Events) /\ Latest \in Nat
  BY <1>1, LogType
<1>7. Extends(log', log, e, Latest)
  BY <1>4, <1>5, <1>6, AppendKeepsSnapshots DEF Latest
<1>8. GoodLog(log)'
  BY <1>1, <1>4, <1>5, <1>6, LegalAppend
<1>9. /\ cli'[w].pc = "appended" /\ cli'[w].command = cli[w].command
      /\ cli'[w].timestamp = cli[w].timestamp /\ cli'[w] \in Runs
      /\ \A v \in Operators \ {w} : cli'[v] = cli[v]
  BY <1>1, <1>2 DEF TypeOK, Runs
<1>10. TypeOK'
  <2>1. cli' \in [Operators -> Runs]
    BY <1>1, <1>2, <1>9 DEF TypeOK
  <2>2. \A v \in Operators : /\ cli'[v].pc # "idle" => cli'[v].command \in Commands
                             /\ cli'[v].timestamp <= now
    BY <1>1, <1>2, <1>9 DEF TypeOK
  <2>3. log' \in Seq(Events) /\ Latest' = Latest + 1
    BY <1>7 DEF Extends, Latest
  <2>4. Latest' <= MaxEvents
    BY <1>2, <1>6, <2>3, MemoryAssumption DEF RoomInStore
  <2>5. ASSUME NEW i \in 1 .. Latest' PROVE log'[i].at <= now
    <3>1. i \in 1 .. Latest \/ i = Latest + 1
      BY <1>6, <2>3
    <3>2. CASE i \in 1 .. Latest
      BY <1>1, <1>7, <3>2 DEF TypeOK, Extends
    <3>3. CASE i = Latest + 1
      BY <1>5, <1>7, <3>3 DEF Extends
    <3> QED BY <3>1, <3>2, <3>3
  <2> QED BY <1>1, <1>2, <2>1, <2>2, <2>3, <2>4, <2>5 DEF TypeOK
<1>11. LockHeld'
  BY <1>1, <1>2, <1>9 DEF LockHeld
<1>12. AppendsLegal'
  <2>1. \A v \in Operators \ {w} : cli[v].pc = "idle"
    BY <1>1, <1>2 DEF LockHeld
  <2> QED BY <1>9, <2>1 DEF AppendsLegal
<1>13. \A n \in 0 .. Latest : /\ ActiveIn(log', n) = ActiveIn(log, n)
                              /\ SubSeq(log', 1, n) = SubSeq(log, 1, n)
  BY <1>7 DEF Extends
<1>14. \A n \in 0 .. Latest : n \in 0 .. Latest'
  BY <1>6, <1>7 DEF Extends, Latest
<1>15. PinsArePrefixes /\ SeenIsSettled
  BY DEF IInv
<1>16. PinsArePrefixes'
  BY <1>2, <1>13, <1>14, <1>15 DEF PinsArePrefixes
<1>17. SeenIsSettled'
  BY <1>2, <1>13, <1>15 DEF SeenIsSettled, Settled, PinsArePrefixes
<1> QED BY <1>8, <1>10, <1>11, <1>12, <1>16, <1>17 DEF IInv

\* A new binding is the whole log.
LEMMA PinKeepsIInv ==
  ASSUME IInv, NEW as_of \in 0 .. MaxTime, Pin(as_of)
  PROVE  IInv'
<1>1. PICK pin : pin = [sequence |-> Latest, head |-> log, as_of |-> as_of]
  OBVIOUS
<1>2. UNCHANGED <<log, holder, cli, now, seen>> /\ pins' = pins \cup {pin}
  BY <1>1 DEF Pin
<1>3. TypeOK /\ log \in Seq(Events) /\ Latest \in Nat
  BY LogType DEF IInv
<1>4. pin.sequence = Len(log) /\ pin.head = log /\ pin.as_of = as_of
  BY <1>1 DEF Latest
<1>5. TypeOK'
  BY <1>2, <1>3, <1>4 DEF TypeOK, Latest
<1>6. LockHeld' /\ AppendsLegal' /\ GoodLog(log)'
  BY <1>2 DEF IInv, LockHeld, AppendsLegal
<1>7. PinsArePrefixes'
  <2>1. log = SubSeq(log, 1, Len(log))
    BY <1>3
  <2>2. pin.sequence \in 0 .. Latest /\ pin.head = SubSeq(log, 1, pin.sequence)
    BY <1>3, <1>4, <2>1 DEF Latest
  <2> QED BY <1>2, <2>2 DEF IInv, PinsArePrefixes, Latest
<1>8. SeenIsSettled'
  BY <1>2 DEF IInv, SeenIsSettled, Settled
<1> QED BY <1>5, <1>6, <1>7, <1>8 DEF IInv

\* A search answers what its binding settled.
LEMMA SearchKeepsIInv ==
  ASSUME IInv, NEW pin \in pins, Search(pin)
  PROVE  IInv'
<1>1. /\ UNCHANGED <<log, holder, cli, now, pins>>
      /\ seen' = seen \cup {<<pin, Result(pin)>>}
  BY DEF Search
<1>2. TypeOK' /\ LockHeld' /\ AppendsLegal' /\ GoodLog(log)' /\ PinsArePrefixes'
  BY <1>1 DEF IInv, TypeOK, LockHeld, AppendsLegal, PinsArePrefixes, Latest
<1>3. Result(pin) = Settled(pin)
  BY ResultIsSettled
<1>4. SeenIsSettled'
  <2>1. \A x \in seen : x[1] \in pins /\ x[2] = Settled(x[1])
    BY DEF IInv, SeenIsSettled
  <2>2. \A x \in seen' : x[1] \in pins /\ x[2] = Settled(x[1])
    <3> HIDE DEF Settled
    <3> DEFINE new == <<pin, Result(pin)>>
    <3>1. new[1] = pin /\ new[2] = Settled(pin)
      BY <1>3
    <3> HIDE DEF new
    <3>2. \A x \in seen' : x \in seen \/ x = new
      BY <1>1 DEF new
    <3> QED BY <2>1, <3>1, <3>2
  <2>3. \A x \in seen' : Settled(x[1])' = Settled(x[1])
    BY <1>1 DEF Settled
  <2> QED BY <1>1, <2>2, <2>3, Zenon DEF SeenIsSettled
<1> QED BY <1>2, <1>4 DEF IInv

\* Time passes.
LEMMA TickKeepsIInv == ASSUME IInv, Tick PROVE IInv'
<1>1. UNCHANGED <<log, holder, cli, pins, seen>> /\ now' = now + 1 /\ now < MaxTime
  BY DEF Tick
<1>2. TypeOK'
  <2>1. TypeOK /\ now \in Nat /\ now' \in 0 .. MaxTime
    BY <1>1, MemoryAssumption DEF IInv, TypeOK
  <2>2. \A i \in 1 .. Latest : log[i].at <= now'
    <3>1. \A i \in 1 .. Latest : log[i].at <= now /\ log[i].at \in Nat
      BY <2>1, LogType DEF TypeOK, Events
    <3> QED BY <1>1, <2>1, <3>1
  <2>3. \A w \in Operators : cli[w].timestamp <= now'
    <3>1. \A w \in Operators : cli[w].timestamp <= now /\ cli[w].timestamp \in Nat
      BY <2>1 DEF TypeOK, Runs
    <3> QED BY <1>1, <2>1, <3>1
  <2> QED BY <1>1, <2>1, <2>2, <2>3 DEF TypeOK, Latest
<1>3. LockHeld' /\ AppendsLegal'
  BY <1>1 DEF IInv, LockHeld, AppendsLegal
<1> QED BY <1>1, <1>2, <1>3, LogUnchanged DEF IInv

\* The invariant, by the actions.
LEMMA NextKeepsIInv == ASSUME IInv, [Next]_vars PROVE IInv'
<1>1. ASSUME NEW w \in Operators, NEW c \in Commands, Start(w, c) PROVE IInv'
  BY <1>1, StartKeepsIInv
<1>2. ASSUME NEW w \in Operators, Check(w) PROVE IInv'
  BY <1>2, CheckKeepsIInv
<1>3. ASSUME NEW w \in Operators, AppendEvent(w) PROVE IInv'
  BY <1>3, AppendKeepsIInv
<1>4. ASSUME NEW w \in Operators, Report(w) \/ Stop(w) PROVE IInv'
  BY <1>4, EndKeepsIInv DEF Report, Stop
<1>5. ASSUME NEW as_of \in 0 .. MaxTime, Pin(as_of) PROVE IInv'
  BY <1>5, PinKeepsIInv
<1>6. ASSUME NEW pin \in pins, Search(pin) PROVE IInv'
  BY <1>6, SearchKeepsIInv
<1>7. CASE Tick
  BY <1>7, TickKeepsIInv
<1>8. CASE UNCHANGED vars
  <2>1. UNCHANGED <<log, holder, cli, now, pins, seen>>
    BY <1>8 DEF vars
  <2>2. TypeOK' /\ LockHeld' /\ AppendsLegal'
    BY <2>1 DEF IInv, TypeOK, LockHeld, AppendsLegal, Latest
  <2> QED BY <2>1, <2>2, LogUnchanged DEF IInv
<1> QED BY <1>1, <1>2, <1>3, <1>4, <1>5, <1>6, <1>7, <1>8 DEF Next

-------------------------------------------------------------------------------
(* Theorems *)

\* The inductive invariant holds in every state of the evidence memory.
THEOREM MemoryInvariant == Spec => []IInv
  BY InitIInv, NextKeepsIInv, PTL DEF Spec

\* Types: a log of events no later than the clock and no longer than
\* MAX_EVENTS allows.
THEOREM MemoryTypeCorrect == Spec => []TypeOK
<1>1. IInv => TypeOK
  BY DEF IInv
<1> QED BY <1>1, MemoryInvariant, PTL

\* However publications and invalidations race, die and are repeated, the
\* scope's log can be folded.
THEOREM LogIsReadable == Spec => []LogReadable
<1>1. IInv => LogReadable
  <2> SUFFICES ASSUME IInv PROVE Readable(Latest)
    BY DEF LogReadable
  <2>1. \A i \in 1 .. Latest : GoodAt(log, i)
    BY DEF IInv, GoodLog, Latest
  <2> QED BY <2>1, Snapshot DEF Readable, GoodAt, ActiveIn
<1> QED BY <1>1, MemoryInvariant, PTL

\* No more records are active than the policy allows.
THEOREM ActiveStaysWithinLimit == Spec => []ActiveWithinLimit
<1>1. IInv => ActiveWithinLimit
  <2>1. Active(Latest) = ActiveIn(log, Len(log))
    BY Snapshot DEF Latest
  <2> QED BY <2>1, Zenon DEF IInv, GoodLog, WithinLimitIn, ActiveWithinLimit
<1> QED BY <1>1, MemoryInvariant, PTL

\* A replacement was active when it became one.
THEOREM ReplacementsWereActive == Spec => []ReplacementWasActive
<1>1. IInv => ReplacementWasActive
  <2>1. IInv => \A i \in 1 .. Latest : GoodAt(log, i)
    BY DEF IInv, GoodLog, Latest
  <2>2. ASSUME IInv, NEW i \in 1 .. Latest,
               log[i].op = "invalidate", log[i].replacement # None
        PROVE  log[i].replacement \in Active(i - 1) \ {log[i].record}
    <3>1. log[i].replacement \in ActiveIn(log, i - 1) \ {log[i].record}
      BY <2>1, <2>2 DEF GoodAt
    <3> QED BY <3>1, Snapshot
  <2> QED BY <2>2 DEF ReplacementWasActive
<1> QED BY <1>1, MemoryInvariant, PTL

\* A pinned snapshot is searched with one answer for ever, and never denied.
THEOREM PinnedSearchesAgree == Spec => []SearchesAgree
<1>1. IInv => SearchesAgree
  <2>1. \A pin : ~Settled(pin).denied
    BY DEF Settled
  <2>2. IInv => \A x \in seen : x[2] = Settled(x[1])
    BY DEF IInv, SeenIsSettled
  <2> QED BY <2>1, <2>2 DEF SearchesAgree
<1> QED BY <1>1, MemoryInvariant, PTL

\* "limit_reached" is answered in one place, from a snapshot without the record,
\* and the answer leaves the log as it was.
LEMMA LimitAnswer ==
  ASSUME NEW w \in Operators, Check(w)
  PROVE  RetriesConfirmed'
<1> DEFINE c == cli[w].command
           verdict == Verdict(c, cli[w].timestamp)
<1>1. log' = log /\ Latest' = Latest
  BY DEF Check, Latest
<1>2. CASE verdict = "append"
  <2>1. reply' = None
    BY <1>2 DEF Check
  <2> QED BY <2>1 DEF RetriesConfirmed
<1>3. CASE verdict # "append"
  <2>1. reply' = [command |-> c, code |-> verdict]
    BY <1>3 DEF Check
  <2>2. verdict = "limit_reached" => ~Published(Latest, c.record)
    BY DEF Verdict, OverLimit
  <2> HIDE DEF c, verdict
  <2>3. reply'.code = verdict /\ reply'.command = c
    BY <2>1
  <2> QED BY <1>1, <2>2, <2>3 DEF RetriesConfirmed, Published
<1> QED BY <1>2, <1>3

\* A command whose publication is already in the log, because its first run died
\* before the report, is never told that the limit is reached.
THEOREM RetriesAreConfirmed == Spec => []RetriesConfirmed
<1>1. Init => RetriesConfirmed
  BY DEF Init, RetriesConfirmed
<1>2. ASSUME RetriesConfirmed, [Next]_vars PROVE RetriesConfirmed'
  <2>1. ASSUME NEW w \in Operators, NEW c \in Commands, Start(w, c)
        PROVE  RetriesConfirmed'
    BY <2>1 DEF Start, RetriesConfirmed
  <2>2. ASSUME NEW w \in Operators, Check(w) PROVE RetriesConfirmed'
    BY <2>2, LimitAnswer
  <2>3. ASSUME NEW w \in Operators, AppendEvent(w) \/ Stop(w) PROVE RetriesConfirmed'
    BY <2>3 DEF AppendEvent, Stop, RetriesConfirmed
  <2>4. ASSUME NEW w \in Operators, Report(w) PROVE RetriesConfirmed'
    <3>1. reply'.code \in {"published", "invalidated"}
      BY <2>4 DEF Report
    <3> QED BY <3>1 DEF RetriesConfirmed
  <2>5. ASSUME NEW as_of \in 0 .. MaxTime, Pin(as_of) PROVE RetriesConfirmed'
    BY <2>5 DEF Pin, RetriesConfirmed
  <2>6. ASSUME NEW pin \in pins, Search(pin) PROVE RetriesConfirmed'
    BY <2>6 DEF Search, RetriesConfirmed
  <2>7. CASE Tick
    BY <2>7 DEF Tick, RetriesConfirmed
  <2>8. CASE UNCHANGED vars
    BY <1>2, <2>8 DEF vars, RetriesConfirmed, Published, Latest
  <2> QED BY <1>2, <2>1, <2>2, <2>3, <2>4, <2>5, <2>6, <2>7, <2>8 DEF Next
<1> QED BY <1>1, <1>2, PTL DEF Spec
===============================================================================
