--------------------------- MODULE AgentRunnerProofs --------------------------
(***************************************************************************)
(* What the model asks for happens once, under one id, and its result      *)
(* arrives, for any number of slots, turns, calls, deaths and deadlines.   *)
(*                                                                         *)
(* A memory (the running process's or its checkpoint's) is judged against  *)
(* what is outside of it: the bodies that were ever sent, the decisions of *)
(* the episode and its version.  The parts of the invariant are operators  *)
(* of all four, so that a lemma about a step of the episode holds for every*)
(* memory, and a lemma about a memory in every state of the episode.       *)
(***************************************************************************)
EXTENDS AgentRunner, TLAPS

\* The bodies that have left the runner.
Sent == {r.body : r \in requests} \cup handlers \cup inflight
          \cup {d.request : d \in decided}

-------------------------------------------------------------------------------
(* Calls and bodies *)

\* The calls of a queue are all different, made, and in no body yet.
Queued(q, S, n) ==
  /\ \A i \in 1 .. Len(q) : q[i].n <= n /\ \A b \in S : b.action # q[i]
  /\ \A i, j \in 1 .. Len(q) : q[i] = q[j] => i = j

OneBody(S, n) ==
  /\ \A b \in S : b.action.n <= n
  /\ \A b, c \in S : b.action = c.action => b = c

Pend(m) == IF m.pending = None THEN {} ELSE {m.pending.body}

\* A memory names its calls as what was sent does.
Names(m, S, n) ==
  OneBody(S \cup Pend(m), n) /\ Queued(m.followups, S \cup Pend(m), n)

\* The answers a memory waits for before nothing is pending.
Rest(m) == IF m.pending = None THEN 0
           ELSE Len(m.followups) + IF m.pending.calls_remaining > 0
                                   THEN m.pending.calls_remaining ELSE 1

Busy == {"acting", "sending", "waiting", "saving"}

RunnerFits ==
  /\ pc \in Busy => mem.active # <<>> /\ ~mem.resume_pending
  /\ pc = "turn" /\ mem.resume_pending => mem.pending # None
  /\ pc \in {"sending", "waiting"} => mem.pending # None
  /\ pc = "acting" /\ mem.pending = None => Queued(mem.active, Sent, asked)
  /\ pc \in {"acting", "sending", "waiting"} /\ mem.pending # None
       => Len(mem.active) <= Rest(mem)
  /\ pc = "saving" => Len(mem.active) <= Rest(mem) + 1

\* The checkpoint has the pending action of the process or none.
Linked ==
  pc \in {"turn", "acting", "sending", "waiting"} =>
    \/ disk = None /\ (pc \in {"turn", "acting"} => mem.pending = None)
    \/ disk # None /\ disk.pending = None /\ disk.followups = <<>>
    \/ disk # None /\ disk.pending = mem.pending /\ disk.followups = mem.followups

WaitsOnce ==
  /\ \A r \in requests : r.awaited =>
       pc = "waiting" /\ mem.pending # None /\ r.body = mem.pending.body
  /\ \A r, s \in requests : r.awaited /\ s.awaited => r = s

DecidedOnce ==
  \A d, e \in decided :
    d.request.client_action_id = e.request.client_action_id => d = e

CallsInv ==
  /\ TypeOK /\ RunnerFits /\ Linked /\ WaitsOnce /\ DecidedOnce
  /\ Names(mem, Sent, asked)
  /\ disk # None => Names(disk, Sent, asked)

-------------------------------------------------------------------------------
(* One call at a time *)

Single(m) ==
  /\ m.followups = <<>>
  /\ m.pending # None => /\ m.pending.calls_remaining = 0
                         /\ m.pending.body.client_action_id = m.tool_calls

Answer(b) == [call |-> b.action, result_of |-> b.action]

\* What was sent before the pending action is decided and known, and so is the
\* version, up to what the pending action does.
Knows(m, S, D, v) ==
  /\ \A b \in S : b \in Pend(m) \/ b.client_action_id < m.tool_calls
  /\ \A b \in S : b.client_action_id < m.tool_calls => \E d \in D : d.request = b
  /\ \A d \in D : d.code = "success" /\ d.request.client_action_id < m.tool_calls
       => Answer(d.request) \in m.answered
  /\ \/ m.version = v
     \/ \E d \in D : d.request \in Pend(m) /\ d.state_version = v
  /\ \A d \in D : d.code = "success" /\ d.request \in Pend(m) => d.state_version = v

OneId(S) == \A b, c \in S : b.client_action_id = c.client_action_id => b = c

SingleInv ==
  ~parallel =>
    /\ OneId(Sent)
    /\ Len(mem.active) <= 1
    /\ pc # "down" => Single(mem) /\ Knows(mem, Sent, decided, version)
    /\ IF disk = None THEN Sent = {}
                      ELSE Single(disk) /\ Knows(disk, Sent, decided, version)
    /\ pc \in {"turn", "acting", "sending", "waiting"} /\ mem.pending # None
         => disk # None /\ disk.pending = mem.pending
    /\ pc = "saving" => mem.pending = None

IInv == CallsInv /\ SingleInv
-------------------------------------------------------------------------------
(* Queues of calls *)

LEMMA HeadAndTail ==
  ASSUME NEW S, NEW q \in Seq(S), q # <<>>
  PROVE  /\ Len(q) \in Nat /\ Len(q) >= 1 /\ Head(q) = q[1] /\ Head(q) \in S
         /\ Tail(q) \in Seq(S) /\ Len(Tail(q)) = Len(q) - 1
         /\ \A i \in 1 .. Len(q) - 1 : Tail(q)[i] = q[i + 1]
OBVIOUS

LEMMA Fewer ==
  ASSUME NEW m, NEW q, NEW S, NEW T, T \subseteq S, NEW n \in Nat, NEW k \in Nat, n <= k,
         m \in Checkpoints, S \subseteq Bodies
  PROVE  /\ OneBody(S, n) => OneBody(T, k)
         /\ q \in Seq(Calls) /\ Queued(q, S, n) => Queued(q, T, k)
         /\ Names(m, S, n) => Names(m, T, k)
<1>1. Pend(m) \subseteq Bodies /\ m.followups \in Seq(Calls)
  BY DEF Pend, Checkpoints, Actions
<1>2. ASSUME NEW U, NEW V, V \subseteq U, U \subseteq Bodies, OneBody(U, n)
      PROVE  OneBody(V, k)
  <2>1. \A b \in V : b.action.n \in Nat
    BY <1>2 DEF Bodies, Calls
  <2> QED BY <1>2, <2>1 DEF OneBody
<1>3. ASSUME NEW U, NEW V, V \subseteq U, NEW p \in Seq(Calls), Queued(p, U, n)
      PROVE  Queued(p, V, k)
  <2>1. \A i \in 1 .. Len(p) : p[i].n \in Nat
    <3>1. \A i \in 1 .. Len(p) : p[i] \in Calls
      OBVIOUS
    <3> QED BY <3>1 DEF Calls
  <2> QED BY <1>3, <2>1 DEF Queued
<1>4. Names(m, S, n) => Names(m, T, k)
  <2>1. T \cup Pend(m) \subseteq S \cup Pend(m) /\ S \cup Pend(m) \subseteq Bodies
    BY <1>1
  <2> QED BY <1>1, <1>2, <1>3, <2>1 DEF Names
<1> QED BY <1>2, <1>3, <1>4

\* The first call of a queue becomes an action; the others follow it.
LEMMA FirstCall ==
  ASSUME NEW S, NEW n \in Nat, NEW q \in Seq(Calls), q # <<>>, NEW b, b.action = Head(q),
         OneBody(S, n), Queued(q, S, n)
  PROVE  OneBody(S \cup {b}, n) /\ Queued(Tail(q), S \cup {b}, n)
<1>1. /\ Len(q) \in Nat /\ Len(q) >= 1 /\ Head(q) = q[1]
      /\ Tail(q) \in Seq(Calls) /\ Len(Tail(q)) = Len(q) - 1
      /\ \A i \in 1 .. Len(q) - 1 : Tail(q)[i] = q[i + 1]
  BY HeadAndTail
<1>2. Head(q).n <= n /\ \A c \in S : c.action # Head(q)
  <2>1. 1 \in 1 .. Len(q)
    BY <1>1
  <2> QED BY <1>1, <2>1 DEF Queued
<1>3. OneBody(S \cup {b}, n)
  BY <1>2 DEF OneBody
<1>4. ASSUME NEW i \in 1 .. Len(Tail(q))
      PROVE  Tail(q)[i].n <= n /\ \A c \in S \cup {b} : c.action # Tail(q)[i]
  <2>1. i + 1 \in 1 .. Len(q) /\ Tail(q)[i] = q[i + 1] /\ i + 1 # 1 /\ 1 \in 1 .. Len(q)
    BY <1>1
  <2>2. q[i + 1] # q[1]
    BY <2>1 DEF Queued
  <2> QED BY <1>1, <2>1, <2>2 DEF Queued
<1>5. ASSUME NEW i \in 1 .. Len(Tail(q)), NEW j \in 1 .. Len(Tail(q)),
             Tail(q)[i] = Tail(q)[j]
      PROVE  i = j
  <2>1. /\ i + 1 \in 1 .. Len(q) /\ Tail(q)[i] = q[i + 1]
        /\ j + 1 \in 1 .. Len(q) /\ Tail(q)[j] = q[j + 1]
    BY <1>1
  <2>2. i + 1 = j + 1
    BY <1>5, <2>1 DEF Queued
  <2> QED BY <2>2
<1> QED BY <1>3, <1>4, <1>5 DEF Queued

LEMMA NothingQueued ==
  ASSUME NEW S, NEW n PROVE Queued(<<>>, S, n)
BY DEF Queued

\* The pending action leaves.
LEMMA ActionSent ==
  ASSUME NEW m, NEW k, NEW S, NEW n, NEW b, Pend(m) = {b}, Names(m, S, n),
         \/ Pend(k) = {} /\ k.followups = <<>>
         \/ Pend(k) = Pend(m) /\ k.followups = m.followups
  PROVE  Names(m, S \cup {b}, n) /\ Names(k, S \cup {b}, n)
<1>1. S \cup {b} \cup Pend(m) = S \cup Pend(m)
  OBVIOUS
<1>2. Names(m, S \cup {b}, n)
  BY <1>1 DEF Names
<1>3. CASE Pend(k) = {} /\ k.followups = <<>>
  <2>1. S \cup {b} \cup Pend(k) = S \cup Pend(m)
    BY <1>3
  <2> QED BY <1>2, <1>3, <2>1, NothingQueued DEF Names
<1>4. CASE Pend(k) = Pend(m) /\ k.followups = m.followups
  BY <1>1, <1>2, <1>4 DEF Names
<1> QED BY <1>2, <1>3, <1>4

-------------------------------------------------------------------------------
(* Memories *)

LEMMA MemoryParts ==
  ASSUME NEW m \in Checkpoints
  PROVE  /\ m # None /\ m.version \in Nat /\ m.tool_calls \in Nat
         /\ m.followups \in Seq(Calls) /\ m.active \in Seq(Calls)
         /\ m.pending # None =>
              /\ m.pending \in Actions /\ m.pending.body \in Bodies
              /\ m.pending.calls_remaining \in Nat /\ Pend(m) = {m.pending.body}
              /\ m.pending.body.action \in Calls
         /\ m.pending = None => Pend(m) = {}
         /\ Pend(m) \subseteq Bodies /\ Rest(m) \in Nat
<1>1. /\ m # None /\ m.version \in Nat /\ m.tool_calls \in Nat
      /\ m.followups \in Seq(Calls) /\ m.active \in Seq(Calls)
      /\ m.pending \in Actions \cup {None}
  BY NoneIsNoCheckpoint DEF Checkpoints
<1>2. m.pending # None =>
        /\ m.pending \in Actions /\ m.pending.body \in Bodies
        /\ m.pending.calls_remaining \in Nat
        /\ m.pending.body.action \in Calls
  BY <1>1 DEF Actions, Bodies
<1>3. Rest(m) \in Nat
  BY <1>1, <1>2 DEF Rest
<1> QED BY <1>1, <1>2, <1>3 DEF Pend

LEMMA PendingParts ==
  ASSUME NEW m \in Checkpoints, NEW call \in Calls, NEW n \in Nat
  PROVE  /\ Pending(m, call, n) \in Actions /\ Pending(m, call, n) # None
         /\ Pending(m, call, n).body.action = call
         /\ Pending(m, call, n).calls_remaining = n
         /\ Pending(m, call, n).body.client_action_id = m.tool_calls
BY NoneIsNoCheckpoint DEF Pending, Actions, Bodies, Checkpoints

\* What an answer makes of a memory.
LEMMA AdvancedParts ==
  ASSUME NEW m \in Checkpoints, m.pending # None, NEW ans,
         ans.state_version \in Nat, ans.terminated \in BOOLEAN
  PROVE  LET a == Advanced(m, ans)
             r == m.pending.calls_remaining
         IN  /\ a \in Checkpoints /\ a.active = m.active
             /\ a.tool_calls = m.tool_calls + 1 /\ a.version = ans.state_version
             /\ a.resume_pending = m.resume_pending
             /\ \/ /\ r > 1 /\ a.pending = [m.pending EXCEPT !.calls_remaining = r - 1]
                   /\ a.followups = m.followups
                \/ /\ r <= 1 /\ m.followups # <<>>
                   /\ a.pending # None /\ a.pending.calls_remaining = 0
                   /\ a.pending.body.action = Head(m.followups)
                   /\ a.followups = Tail(m.followups)
                \/ /\ r <= 1 /\ m.followups = <<>>
                   /\ a.pending = None /\ a.followups = <<>>
                   /\ a.answered = m.answered \cup {Answer(m.pending.body)}
<1> DEFINE r == m.pending.calls_remaining
           left == IF r > 0 THEN r - 1 ELSE 0
           moved == [m EXCEPT !.version = ans.state_version,
                              !.terminated = ans.terminated,
                              !.tool_calls = @ + 1]
           next == left = 0 /\ m.followups # <<>>
           pending == CASE left > 0 -> [m.pending EXCEPT !.calls_remaining = left]
                        [] next -> Pending(moved, Head(m.followups), 0)
                        [] OTHER -> None
           followups == IF next THEN Tail(m.followups) ELSE m.followups
           answered == m.answered \cup
             {[call |-> IF next THEN Head(m.followups) ELSE m.pending.body.action,
               result_of |-> m.pending.body.action]}
<1>1. /\ r \in Nat /\ m.followups \in Seq(Calls) /\ m.pending \in Actions
      /\ m.pending.body.action \in Calls /\ m.answered \in SUBSET Results
      /\ m.pending.body \in Bodies
  BY MemoryParts DEF Checkpoints
<1>2. moved \in Checkpoints
  <2>1. m.tool_calls + 1 \in Nat
    BY MemoryParts
  <2> QED BY <2>1, Zenon DEF Checkpoints
<1>3. /\ left \in Nat /\ (left > 0 <=> r > 1) /\ (left > 0 => left = r - 1)
      /\ (left = 0 <=> r <= 1) /\ (left > 0 \/ left = 0)
  BY <1>1
<1> HIDE DEF left
<1>4. next => /\ Head(m.followups) \in Calls /\ Tail(m.followups) \in Seq(Calls)
  BY <1>1, HeadAndTail
<1>5. followups \in Seq(Calls)
  BY <1>1, <1>4
<1>6. answered \in SUBSET Results
  BY <1>1, <1>4 DEF Results
<1>7. next => /\ Pending(moved, Head(m.followups), 0) \in Actions
              /\ Pending(moved, Head(m.followups), 0) # None
              /\ Pending(moved, Head(m.followups), 0).body.action = Head(m.followups)
              /\ Pending(moved, Head(m.followups), 0).calls_remaining = 0
  BY <1>2, <1>4, PendingParts
<1>8. \/ left > 0 /\ pending = [m.pending EXCEPT !.calls_remaining = left]
      \/ left = 0 /\ next /\ pending = Pending(moved, Head(m.followups), 0)
      \/ left = 0 /\ ~next /\ pending = None
  BY <1>3
<1>9. pending \in Actions \cup {None}
  BY <1>1, <1>3, <1>7, <1>8 DEF Actions
<1>10. Advanced(m, ans) = [moved EXCEPT !.pending = pending, !.followups = followups,
                                        !.answered = answered]
  <2>1. moved.followups = m.followups /\ moved.answered = m.answered
    BY DEF Checkpoints
  <2> QED BY <2>1 DEF Advanced, left
<1>11. next <=> r <= 1 /\ m.followups # <<>>
  BY <1>1, <1>3
<1>12. ~next => answered = m.answered \cup {Answer(m.pending.body)}
  BY DEF Answer
<1> HIDE DEF next, pending, followups, answered
<1>13. LET a == Advanced(m, ans)
       IN  /\ a \in Checkpoints /\ a.active = m.active
           /\ a.tool_calls = m.tool_calls + 1 /\ a.version = ans.state_version
           /\ a.resume_pending = m.resume_pending
           /\ a.pending = pending /\ a.followups = followups /\ a.answered = answered
  BY <1>2, <1>5, <1>6, <1>9, <1>10 DEF Checkpoints
<1> QED BY <1>1, <1>3, <1>7, <1>8, <1>11, <1>12, <1>13 DEF followups


\* An answer takes one from what is waited for, and its call is not asked again.
LEMMA AdvancedNames ==
  ASSUME NEW m \in Checkpoints, m.pending # None, NEW ans,
         ans.state_version \in Nat, ans.terminated \in BOOLEAN,
         NEW S, NEW n \in Nat, Names(m, S, n), S \subseteq Bodies
  PROVE  Names(Advanced(m, ans), S, n) /\ Rest(Advanced(m, ans)) + 1 = Rest(m)
<1> DEFINE r == m.pending.calls_remaining
<1>1. PICK a : a = Advanced(m, ans)
  OBVIOUS
<1>2. /\ a \in Checkpoints
      /\ \/ /\ r > 1 /\ a.pending = [m.pending EXCEPT !.calls_remaining = r - 1]
            /\ a.followups = m.followups
         \/ /\ r <= 1 /\ m.followups # <<>>
            /\ a.pending # None /\ a.pending.calls_remaining = 0
            /\ a.pending.body.action = Head(m.followups)
            /\ a.followups = Tail(m.followups)
         \/ /\ r <= 1 /\ m.followups = <<>>
            /\ a.pending = None /\ a.followups = <<>>
  BY <1>1, AdvancedParts
<1>3. /\ r \in Nat /\ m.followups \in Seq(Calls) /\ m.pending \in Actions
      /\ Pend(m) = {m.pending.body}
  BY MemoryParts
<1>4. OneBody(S \cup Pend(m), n) /\ Queued(m.followups, S \cup Pend(m), n)
  BY DEF Names
<1>5. OneBody(S, n) /\ Queued(m.followups, S, n)
  <2>1. S \cup Pend(m) \subseteq Bodies /\ S \subseteq S \cup Pend(m) /\ n <= n
    BY MemoryParts
  <2> QED BY <1>3, <1>4, <2>1, Fewer
<1>6. CASE /\ r > 1 /\ a.pending = [m.pending EXCEPT !.calls_remaining = r - 1]
           /\ a.followups = m.followups
  <2>1. /\ a.pending.body = m.pending.body /\ a.pending.calls_remaining = r - 1
        /\ a.pending \in Actions
    BY <1>3, <1>6 DEF Actions
  <2>2. a.pending # None
    BY <2>1, NoneIsNoCheckpoint
  <2>3. Names(a, S, n)
    BY <1>3, <1>4, <1>6, <2>1, <2>2 DEF Names, Pend
  <2>4. Len(m.followups) \in Nat /\ Len(a.followups) = Len(m.followups)
    BY <1>3, <1>6
  <2>5. Rest(a) = Len(m.followups) + (r - 1) /\ Rest(m) = Len(m.followups) + r
    BY <1>3, <1>6, <2>1, <2>2, <2>4 DEF Rest
  <2> QED BY <1>1, <1>3, <2>3, <2>4, <2>5
<1>7. CASE /\ r <= 1 /\ m.followups # <<>>
           /\ a.pending # None /\ a.pending.calls_remaining = 0
           /\ a.pending.body.action = Head(m.followups)
           /\ a.followups = Tail(m.followups)
  <2>1. OneBody(S \cup {a.pending.body}, n) /\ Queued(a.followups, S \cup {a.pending.body}, n)
    <3>1. PICK b : b = a.pending.body
      OBVIOUS
    <3>2. b.action = Head(m.followups) /\ m.followups \in Seq(Calls)
      BY <1>3, <1>7, <3>1
    <3>3. OneBody(S \cup {b}, n) /\ Queued(Tail(m.followups), S \cup {b}, n)
      BY <1>5, <1>7, <3>2, FirstCall
    <3> QED BY <1>7, <3>1, <3>3
  <2>2. Names(a, S, n)
    BY <1>7, <2>1 DEF Names, Pend
  <2>3. Len(a.followups) = Len(m.followups) - 1 /\ Len(m.followups) \in Nat
    BY <1>3, <1>7, HeadAndTail
  <2>4. Rest(a) = Len(m.followups) - 1 + 1 /\ Rest(m) = Len(m.followups) + 1
    BY <1>3, <1>7, <2>3 DEF Rest
  <2> QED BY <1>1, <2>2, <2>3, <2>4
<1>8. CASE /\ r <= 1 /\ m.followups = <<>>
           /\ a.pending = None /\ a.followups = <<>>
  <2>1. S \cup Pend(a) = S
    BY <1>8 DEF Pend
  <2>2. Names(a, S, n)
    BY <1>5, <1>8, <2>1, NothingQueued DEF Names
  <2>3. Len(m.followups) = 0
    BY <1>8
  <2>4. Rest(a) = 0 /\ Rest(m) = 1
    BY <1>3, <1>8, <2>3 DEF Rest
  <2> QED BY <1>1, <2>2, <2>4
<1> QED BY <1>2, <1>6, <1>7, <1>8

\* A success makes the run know what the episode did.
LEMMA AdvancedKnows ==
  ASSUME NEW m \in Checkpoints, m.pending # None, NEW ans,
         ans.state_version \in Nat, ans.terminated \in BOOLEAN,
         NEW S, S \subseteq Bodies, NEW D, NEW v, Single(m), Knows(m, S, D, v),
         \A x \in D : x.request \in S,
         NEW d \in D, d.request = m.pending.body, d.code = "success",
         d.state_version = ans.state_version
  PROVE  LET a == Advanced(m, ans)
         IN  a.pending = None /\ Single(a) /\ Knows(a, S, D, v)
<1>1. PICK a : a = Advanced(m, ans)
  OBVIOUS
<1>2. /\ m.followups = <<>> /\ m.pending.calls_remaining = 0
      /\ m.pending.body.client_action_id = m.tool_calls
      /\ Pend(m) = {m.pending.body} /\ m.tool_calls \in Nat
  BY MemoryParts DEF Single
<1>3. /\ a.pending = None /\ a.followups = <<>>
      /\ a.tool_calls = m.tool_calls + 1 /\ a.version = ans.state_version
      /\ a.answered = m.answered \cup {Answer(m.pending.body)}
      /\ Pend(a) = {}
  <2>1. /\ a.tool_calls = m.tool_calls + 1 /\ a.version = ans.state_version
        /\ \/ m.pending.calls_remaining > 1
           \/ m.followups # <<>>
           \/ /\ a.pending = None /\ a.followups = <<>>
              /\ a.answered = m.answered \cup {Answer(m.pending.body)}
    BY <1>1, AdvancedParts
  <2> QED BY <1>2, <2>1 DEF Pend
<1>4. \A b \in S : b.client_action_id \in Nat
  BY DEF Bodies
<1>5. \A b \in S : /\ b.client_action_id < m.tool_calls + 1
                   /\ b = m.pending.body \/ b.client_action_id < m.tool_calls
  BY <1>2, <1>4 DEF Knows
<1>6. v = ans.state_version
  BY <1>2 DEF Knows
<1>7. \A b \in S : \E x \in D : x.request = b
  BY <1>5 DEF Knows
<1>8. \A x \in D : x.code = "success" => Answer(x.request) \in a.answered
  BY <1>3, <1>5 DEF Knows
<1>9. Knows(a, S, D, v)
  BY <1>3, <1>5, <1>6, <1>7, <1>8 DEF Knows
<1> QED BY <1>1, <1>3, <1>9 DEF Single

\* What the episode decides is what is pending, for whoever knows the rest.
LEMMA DecisionKnown ==
  ASSUME NEW m \in Checkpoints, NEW S, NEW T, T \subseteq S, S \subseteq Bodies,
         NEW D, NEW E, NEW v \in Nat, NEW w, Knows(m, S, D, v),
         \/ E = D /\ w = v
         \/ \E x : /\ E = D \cup {x} /\ x.request \in S
                   /\ \A d \in D : d.request.client_action_id # x.request.client_action_id
                   /\ \/ x.code # "success" /\ w = v
                      \/ x.state_version = w /\ w = v + 1
  PROVE  Knows(m, T, E, w)
<1>1. CASE E = D /\ w = v
  BY <1>1 DEF Knows
<1>2. ASSUME NEW x, E = D \cup {x}, x.request \in S,
             \A d \in D : d.request.client_action_id # x.request.client_action_id,
             \/ x.code # "success" /\ w = v
             \/ x.state_version = w /\ w = v + 1
      PROVE  Knows(m, T, E, w)
  <2>1. ~(x.request.client_action_id < m.tool_calls)
    BY <1>2 DEF Knows
  <2>2. x.request \in Pend(m)
    BY <1>2, <2>1 DEF Knows
  <2>3. Pend(m) = {x.request}
    BY <2>2, MemoryParts
  <2>4. \A d \in D : d.request \notin Pend(m)
    BY <1>2, <2>3
  <2>5. \A b \in T : b \in Pend(m) \/ b.client_action_id < m.tool_calls
    BY DEF Knows
  <2>6. \A b \in T : b.client_action_id < m.tool_calls => \E d \in E : d.request = b
    BY <1>2 DEF Knows
  <2>7. \A d \in E : d.code = "success" /\ d.request.client_action_id < m.tool_calls
                     => Answer(d.request) \in m.answered
    BY <1>2, <2>1 DEF Knows
  <2>8. m.version = w \/ \E d \in E : d.request \in Pend(m) /\ d.state_version = w
    BY <1>2, <2>2, <2>4 DEF Knows
  <2>9. \A d \in E : d.code = "success" /\ d.request \in Pend(m) => d.state_version = w
    BY <1>2, <2>4
  <2> QED BY <2>5, <2>6, <2>7, <2>8, <2>9 DEF Knows
<1> QED BY <1>1, <1>2

-------------------------------------------------------------------------------
(* The gateway and the backend *)

LEMMA SentType ==
  ASSUME TypeOK
  PROVE  Sent \subseteq Bodies /\ \A d \in decided : d.request \in Sent
BY DEF TypeOK, Sent

\* What a step may do to the episode: nothing, or one decision about a body
\* that was sent and not decided before.
Settles ==
  \/ decided' = decided /\ version' = version
  \/ \E x : /\ decided' = decided \cup {x} /\ x.request \in Sent
            /\ \A d \in decided : d.request.client_action_id # x.request.client_action_id
            /\ \/ x.code # "success" /\ version' = version
               \/ x.state_version = version' /\ version' = version + 1

\* What it may do to the runner: nothing, its end, or a success it waits for.
Heard ==
  /\ disk' = disk
  /\ \/ pc' = pc /\ mem' = mem
     \/ pc' = "down" /\ mem' = mem
     \/ /\ pc = "waiting" /\ pc' = "saving"
        /\ \E ans, d : /\ mem' = Advanced(mem, ans)
                       /\ ans.state_version \in Nat /\ ans.terminated \in BOOLEAN
                       /\ d \in decided' /\ d.request = mem.pending.body
                       /\ d.code = "success" /\ d.state_version = ans.state_version

LEMMA OutsideNames ==
  ASSUME CallsInv, TypeOK', WaitsOnce', Sent' \subseteq Sent, asked' = asked, Settles, Heard
  PROVE  CallsInv'
<1>1. /\ TypeOK /\ RunnerFits /\ Linked /\ WaitsOnce /\ DecidedOnce
      /\ Names(mem, Sent, asked)
      /\ disk # None => disk \in Checkpoints /\ Names(disk, Sent, asked)
      /\ mem \in Checkpoints /\ asked \in Nat /\ Sent \subseteq Bodies /\ Sent' \subseteq Bodies
      /\ mem.active \in Seq(Calls) /\ asked <= asked
  BY SentType, MemoryParts DEF CallsInv, TypeOK
<1>2. Names(mem, Sent', asked) /\ (disk # None => Names(disk, Sent', asked))
  BY <1>1, Fewer
<1>3. ASSUME pc' = pc, mem' = mem
      PROVE  RunnerFits' /\ Linked' /\ Names(mem, Sent, asked)'
  <2>1. Queued(mem.active, Sent, asked) => Queued(mem.active, Sent', asked)
    BY <1>1, Fewer
  <2>2. RunnerFits'
    BY <1>1, <1>3, <2>1 DEF RunnerFits
  <2>3. Linked'
    BY <1>1, <1>3 DEF Linked, Heard
  <2>4. Names(mem, Sent, asked)'
    BY <1>2, <1>3
  <2> QED BY <2>2, <2>3, <2>4
<1>4. ASSUME pc' = "down", mem' = mem
      PROVE  RunnerFits' /\ Linked' /\ Names(mem, Sent, asked)'
  <2>1. RunnerFits' /\ Linked'
    BY <1>4 DEF RunnerFits, Linked, Busy
  <2>2. Names(mem, Sent, asked)'
    BY <1>2, <1>4
  <2> QED BY <2>1, <2>2
<1>5. ASSUME pc = "waiting", pc' = "saving",
             NEW ans, mem' = Advanced(mem, ans),
             ans.state_version \in Nat, ans.terminated \in BOOLEAN
      PROVE  RunnerFits' /\ Linked' /\ Names(mem, Sent, asked)'
  <2>1. /\ mem.pending # None /\ mem.active # <<>> /\ ~mem.resume_pending
        /\ Len(mem.active) <= Rest(mem)
    BY <1>1, <1>5 DEF RunnerFits, Busy
  <2>2. Names(mem', Sent', asked) /\ Rest(mem') + 1 = Rest(mem)
    BY <1>1, <1>2, <1>5, <2>1, AdvancedNames
  <2>3. mem'.active = mem.active /\ mem'.resume_pending = mem.resume_pending
    BY <1>1, <1>5, <2>1, AdvancedParts
  <2>4. Len(mem'.active) <= Rest(mem') + 1
    BY <2>1, <2>2, <2>3
  <2>5. RunnerFits'
    BY <1>5, <2>1, <2>3, <2>4 DEF RunnerFits, Busy
  <2>6. Linked'
    BY <1>5 DEF Linked
  <2> QED BY <2>2, <2>5, <2>6
<1>6. RunnerFits' /\ Linked' /\ Names(mem, Sent, asked)'
  BY <1>3, <1>4, <1>5 DEF Heard
<1>7. DecidedOnce'
  BY <1>1 DEF DecidedOnce, Settles
<1>8. disk' # None => Names(disk, Sent, asked)'
  BY <1>2 DEF Heard
<1> QED BY <1>6, <1>7, <1>8 DEF CallsInv

LEMMA OutsideSingle ==
  ASSUME CallsInv, SingleInv, TypeOK', Sent' \subseteq Sent, parallel' = parallel,
         Settles, Heard
  PROVE  SingleInv'
<1> SUFFICES ASSUME ~parallel PROVE SingleInv'
  BY DEF SingleInv
<1>1. /\ OneId(Sent) /\ Len(mem.active) <= 1
      /\ pc # "down" => Single(mem) /\ Knows(mem, Sent, decided, version)
      /\ disk = None => Sent = {}
      /\ disk # None => Single(disk) /\ Knows(disk, Sent, decided, version)
      /\ pc \in {"turn", "acting", "sending", "waiting"} /\ mem.pending # None
           => disk # None /\ disk.pending = mem.pending
      /\ pc = "saving" => mem.pending = None
  BY DEF SingleInv
<1>2. /\ mem \in Checkpoints /\ (disk # None => disk \in Checkpoints)
      /\ version \in Nat /\ Sent \subseteq Bodies /\ Sent' \subseteq Bodies
      /\ \A d \in decided' : d.request \in Sent'
  <2>1. Sent' \subseteq Bodies /\ \A d \in decided' : d.request \in Sent'
    BY DEF TypeOK, Sent
  <2> QED BY <2>1, SentType DEF CallsInv, TypeOK
<1>3. ASSUME NEW m \in Checkpoints, Knows(m, Sent, decided, version)
      PROVE  Knows(m, Sent', decided', version')
  BY <1>2, <1>3, DecisionKnown DEF Settles
<1>4. OneId(Sent')
  BY <1>1 DEF OneId
<1>5. disk' # None => Single(disk) /\ Knows(disk, Sent', decided', version')
  BY <1>1, <1>2, <1>3 DEF Heard
<1>6. disk' = None => Sent' = {}
  BY <1>1 DEF Heard
<1>7. CASE (pc' = pc \/ pc' = "down") /\ mem' = mem
  <2>1. pc' # "down" => Single(mem) /\ Knows(mem, Sent', decided', version')
    BY <1>1, <1>2, <1>3, <1>7
  <2> QED BY <1>1, <1>4, <1>5, <1>6, <1>7, <2>1 DEF SingleInv, Heard
<1>8. ASSUME pc = "waiting", pc' = "saving", NEW ans, NEW d,
             mem' = Advanced(mem, ans),
             ans.state_version \in Nat, ans.terminated \in BOOLEAN,
             d \in decided', d.request = mem.pending.body,
             d.code = "success", d.state_version = ans.state_version
      PROVE  SingleInv'
  <2>1. mem.pending # None /\ Single(mem) /\ Knows(mem, Sent', decided', version')
    BY <1>1, <1>2, <1>3, <1>8 DEF CallsInv, RunnerFits
  <2>2. mem'.pending = None /\ Single(mem') /\ Knows(mem', Sent', decided', version')
    BY <1>2, <1>8, <2>1, AdvancedKnows
  <2>3. mem'.active = mem.active
    BY <1>2, <1>8, <2>1, AdvancedParts
  <2> QED BY <1>1, <1>4, <1>5, <1>6, <1>8, <2>2, <2>3 DEF SingleInv, Heard
<1> QED BY <1>7, <1>8 DEF Heard

\* Who leaves the gateway was waited for at most once.
LEMMA LeavingIsHeard ==
  ASSUME TypeOK, WaitsOnce, NEW leaving, leaving \subseteq requests, NEW ans,
         Leave(leaving, ans),
         ans.code = "success" =>
           /\ ans.state_version \in Nat /\ ans.terminated \in BOOLEAN
           /\ \A r \in leaving : \E d : /\ d \in decided' /\ d.request = r.body
                                        /\ d.code = "success"
                                        /\ d.state_version = ans.state_version
  PROVE  /\ Heard /\ WaitsOnce' /\ requests' \subseteq requests
         /\ pc' \in {"down", "turn", "acting", "sending", "waiting", "saving"}
         /\ mem' \in Checkpoints
<1>1. requests' = requests \ leaving /\ mem \in Checkpoints
  BY DEF Leave, TypeOK
<1>2. CASE \E r \in leaving : r.awaited
  <2>1. PICK r \in leaving : r.awaited
    BY <1>2
  <2>2. pc = "waiting" /\ mem.pending # None /\ r.body = mem.pending.body
    BY <2>1 DEF WaitsOnce
  <2>3. \A s \in requests' : ~s.awaited
    BY <1>1, <2>1 DEF WaitsOnce
  <2>4. Receive(ans)
    BY <1>2 DEF Leave
  <2>5. CASE ans.code = "success"
    <3>1. mem' = Advanced(mem, ans) /\ pc' = "saving" /\ disk' = disk
      BY <2>4, <2>5 DEF Receive
    <3>2. mem' \in Checkpoints
      BY <1>1, <2>2, <2>5, <3>1, AdvancedParts
    <3> QED BY <1>1, <2>1, <2>2, <2>3, <2>5, <3>1, <3>2 DEF Heard, WaitsOnce
  <2>6. CASE ans.code # "success"
    <3>1. mem' = mem /\ pc' = "down" /\ disk' = disk
      BY <2>4, <2>6 DEF Receive, Ends
    <3> QED BY <1>1, <2>3, <3>1 DEF Heard, WaitsOnce
  <2> QED BY <2>5, <2>6
<1>3. CASE ~\E r \in leaving : r.awaited
  <2>1. UNCHANGED <<pc, mem, disk>>
    BY <1>3 DEF Leave, runner
  <2> QED BY <1>1, <2>1 DEF Heard, WaitsOnce, TypeOK
<1> QED BY <1>2, <1>3

LEMMA OutsideKeeps ==
  ASSUME IInv, TypeOK', WaitsOnce', Sent' \subseteq Sent, asked' = asked,
         parallel' = parallel, Settles, Heard
  PROVE  IInv'
BY OutsideNames, OutsideSingle DEF IInv

\* A request goes on to its next stage.
LEMMA MovedRequests ==
  ASSUME TypeOK, WaitsOnce, UNCHANGED <<pc, mem>>, NEW r \in requests,
         NEW stage \in {"reading", "posted", "working"}, requests' = Moves(r, stage)
  PROVE  /\ requests' \subseteq [body : Bodies, awaited : BOOLEAN,
                               stage : {"waiting", "reading", "posted", "working"}]
         /\ WaitsOnce' /\ \A s \in requests' : \E t \in requests : s.body = t.body
<1> DEFINE moved == [r EXCEPT !.stage = stage]
<1>1. /\ moved \in [body : Bodies, awaited : BOOLEAN,
                    stage : {"waiting", "reading", "posted", "working"}]
      /\ moved.body = r.body /\ moved.awaited = r.awaited
  BY DEF TypeOK
<1>2. requests' = (requests \ {r}) \cup {moved}
  BY DEF Moves
<1> HIDE DEF moved
<1>3. requests' \subseteq [body : Bodies, awaited : BOOLEAN,
                         stage : {"waiting", "reading", "posted", "working"}]
  BY <1>1, <1>2 DEF TypeOK
<1>4. \A s \in requests' : \E t \in requests : s.body = t.body
  BY <1>1, <1>2
<1>5. ASSUME NEW s \in requests', s.awaited
      PROVE  /\ pc' = "waiting" /\ mem'.pending # None /\ s.body = mem'.pending.body
             /\ r.awaited => s = moved
  <2>1. CASE s = moved
    BY <1>1, <1>5, <2>1 DEF WaitsOnce
  <2>2. CASE s \in requests \ {r}
    BY <1>5, <2>2 DEF WaitsOnce
  <2> QED BY <1>2, <2>1, <2>2
<1>6. ASSUME NEW s \in requests', NEW t \in requests', s.awaited, t.awaited PROVE s = t
  <2>1. CASE r.awaited
    BY <1>5, <1>6, <2>1
  <2>2. CASE ~r.awaited
    BY <1>1, <1>2, <1>6, <2>2 DEF WaitsOnce
  <2> QED BY <2>1, <2>2
<1> QED BY <1>3, <1>4, <1>5, <1>6 DEF WaitsOnce

LEMMA GatewayKeeps ==
  ASSUME IInv, NEW r \in requests, TakeSlot(r) \/ Forward(r) \/ Deadline(r)
  PROVE  IInv'
<1>1. TypeOK /\ WaitsOnce
  BY DEF IInv, CallsInv
<1>2. CASE TakeSlot(r) \/ Forward(r)
  <2>1. PICK stage \in {"reading", "posted", "working"} : requests' = Moves(r, stage)
    BY <1>2 DEF TakeSlot, Forward
  <2>2. /\ UNCHANGED <<runner, episode, counters>>
        /\ handlers' \subseteq handlers \cup {r.body}
    BY <1>2 DEF TakeSlot, Forward
  <2>3. /\ requests' \subseteq [body : Bodies, awaited : BOOLEAN,
                              stage : {"waiting", "reading", "posted", "working"}]
        /\ WaitsOnce' /\ \A s \in requests' : \E t \in requests : s.body = t.body
    BY <1>1, <2>1, <2>2, MovedRequests DEF runner
  <2>4. Sent' \subseteq Sent
    BY <2>2, <2>3 DEF Sent, episode
  <2>5. TypeOK'
    BY <1>1, <2>2, <2>3 DEF TypeOK, runner, episode, counters
  <2>6. Settles /\ Heard /\ asked' = asked /\ parallel' = parallel
    BY <2>2 DEF Settles, Heard, runner, episode, counters
  <2> QED BY <2>3, <2>4, <2>5, <2>6, OutsideKeeps
<1>3. CASE Deadline(r)
  <2>1. /\ Leave({r}, [code |-> "gateway_timeout"])
        /\ UNCHANGED <<handlers, episode>>
        /\ asked' = asked /\ parallel' = parallel /\ faults' = faults + 1
    BY <1>3 DEF Deadline, Fault
  <2>2. /\ Heard /\ WaitsOnce' /\ requests' \subseteq requests
        /\ pc' \in {"down", "turn", "acting", "sending", "waiting", "saving"}
        /\ mem' \in Checkpoints
    <3>1. PICK ans : ans = [code |-> "gateway_timeout"]
      OBVIOUS
    <3>2. Leave({r}, ans) /\ ans.code # "success" /\ {r} \subseteq requests
      BY <2>1, <3>1
    <3> QED BY <1>1, <3>2, LeavingIsHeard
  <2>3. Sent' \subseteq Sent
    BY <2>1, <2>2 DEF Sent, episode
  <2>4. faults' \in Nat
    BY <1>1, <2>1 DEF TypeOK
  <2>5. TypeOK'
    BY <1>1, <2>1, <2>2, <2>4 DEF TypeOK, episode, Heard
  <2>6. Settles
    BY <2>1 DEF Settles, episode
  <2> QED BY <2>1, <2>2, <2>3, <2>5, <2>6, OutsideKeeps
<1> QED BY <1>2, <1>3

LEMMA StoredAnswer ==
  ASSUME TypeOK, NEW b, Stored(b).code = "success"
  PROVE  /\ Stored(b).state_version \in Nat /\ Stored(b).terminated \in BOOLEAN
         /\ \E d : /\ d \in decided /\ d.request = b /\ d.code = "success"
                   /\ d.state_version = Stored(b).state_version
<1> DEFINE d == CHOOSE x \in DecidedFor(b) : TRUE
<1>1. PICK a : a = Stored(b)
  OBVIOUS
<1>2. \/ /\ DecidedFor(b) # {} /\ d.request = b
         /\ a = [code |-> d.code, state_version |-> d.state_version,
                 terminated |-> status = "terminated" /\ d.state_version = version]
      \/ a = [code |-> "idempotency_conflict"]
      \/ a = [code |-> "tool_in_progress"]
      \/ a = [code |-> "state_version_conflict"]
  BY <1>1 DEF Stored
<1>3. a.code = "success"
  BY <1>1
<1>4. /\ DecidedFor(b) # {} /\ d.request = b
      /\ a = [code |-> d.code, state_version |-> d.state_version,
              terminated |-> status = "terminated" /\ d.state_version = version]
  BY <1>2, <1>3
<1>5. d \in DecidedFor(b)
  BY <1>4
<1>6. d \in decided
  BY <1>5 DEF DecidedFor
<1> HIDE DEF d
<1>7. d.state_version \in Nat
  BY <1>6 DEF TypeOK
<1>8. a.code = d.code /\ a.state_version = d.state_version /\ a.terminated \in BOOLEAN
  BY <1>4
<1> QED BY <1>1, <1>3, <1>4, <1>6, <1>7, <1>8

LEMMA RepeatKeeps ==
  ASSUME IInv, NEW b \in handlers, Repeat(b)
  PROVE  IInv'
<1>1. TypeOK /\ WaitsOnce
  BY DEF IInv, CallsInv
<1>2. /\ handlers' \subseteq handlers /\ UNCHANGED <<episode, counters>>
      /\ Leave(Awaiting(b, "posted"), Stored(b))
  BY DEF Repeat
<1>3. /\ Heard /\ WaitsOnce' /\ requests' \subseteq requests
      /\ pc' \in {"down", "turn", "acting", "sending", "waiting", "saving"}
      /\ mem' \in Checkpoints
  <2>1. PICK ans, leaving : ans = Stored(b) /\ leaving = Awaiting(b, "posted")
    OBVIOUS
  <2>2. leaving \subseteq requests /\ \A r \in leaving : r.body = b
    BY <2>1 DEF Awaiting
  <2>3. decided' = decided
    BY <1>2 DEF episode
  <2>4. ans.code = "success" =>
           /\ ans.state_version \in Nat /\ ans.terminated \in BOOLEAN
           /\ \A r \in leaving : \E d : /\ d \in decided' /\ d.request = r.body
                                        /\ d.code = "success"
                                        /\ d.state_version = ans.state_version
    BY <1>1, <2>1, <2>2, <2>3, StoredAnswer
  <2> QED BY <1>1, <1>2, <2>1, <2>2, <2>4, LeavingIsHeard
<1>4. Sent' \subseteq Sent
  BY <1>2, <1>3 DEF Sent, episode
<1>5. TypeOK'
  BY <1>1, <1>2, <1>3 DEF TypeOK, episode, counters, Heard
<1>6. Settles /\ asked' = asked /\ parallel' = parallel
  BY <1>2 DEF Settles, episode, counters
<1> QED BY <1>3, <1>4, <1>5, <1>6, OutsideKeeps

LEMMA TakeUpKeeps ==
  ASSUME IInv, NEW b \in handlers, TakeUp(b)
  PROVE  IInv'
<1>1. TypeOK /\ WaitsOnce
  BY DEF IInv, CallsInv
<1>2. /\ inflight' = {b} /\ decided' = decided /\ version' = version
      /\ UNCHANGED <<runner, handlers, counters>>
      /\ \/ requests' = requests
         \/ \E r \in Awaiting(b, "posted") : requests' = Moves(r, "working")
  BY DEF TakeUp, Backend!Reserve
<1>3. /\ requests' \subseteq [body : Bodies, awaited : BOOLEAN,
                            stage : {"waiting", "reading", "posted", "working"}]
      /\ WaitsOnce' /\ \A s \in requests' : \E t \in requests : s.body = t.body
  <2>1. CASE requests' = requests
    BY <1>1, <1>2, <2>1 DEF TypeOK, WaitsOnce, runner
  <2>2. CASE \E r \in Awaiting(b, "posted") : requests' = Moves(r, "working")
    <3>1. PICK r \in requests : requests' = Moves(r, "working")
      BY <2>2 DEF Awaiting
    <3>2. UNCHANGED <<pc, mem>>
      BY <1>2 DEF runner
    <3> QED BY <1>1, <3>1, <3>2, MovedRequests
  <2> QED BY <1>2, <2>1, <2>2
<1>4. Sent' \subseteq Sent
  BY <1>2, <1>3 DEF Sent
<1>5. TypeOK'
  BY <1>1, <1>2, <1>3 DEF TypeOK, runner, counters
<1>6. Settles /\ Heard /\ asked' = asked /\ parallel' = parallel
  BY <1>2 DEF Settles, Heard, runner, counters
<1> QED BY <1>3, <1>4, <1>5, <1>6, OutsideKeeps

LEMMA DecideKeeps ==
  ASSUME IInv, NEW b \in handlers, Decide(b)
  PROVE  IInv'
<1>1. TypeOK /\ WaitsOnce /\ b \in Bodies /\ b \in Sent /\ version \in Nat
  BY DEF IInv, CallsInv, TypeOK, Sent
<1>2. ASSUME NEW ans, Reply(b, ans), NEW x, x.request = b,
             decided' = decided \cup {x} \/ (decided' = decided /\ ans.code # "success"),
             x \in [request : Bodies, code : Errors \cup {"success"}, state_version : Nat],
             ans.code = "success" => /\ x.code = "success" /\ ans.terminated \in BOOLEAN
                                     /\ x.state_version = ans.state_version,
             inflight' \subseteq inflight, version' \in Nat, Settles
      PROVE  IInv'
  <2>1. PICK leaving : /\ leaving \subseteq requests /\ \A r \in leaving : r.body = b
                       /\ Leave(leaving, ans)
                       /\ handlers' \subseteq handlers /\ UNCHANGED counters
    BY <1>2 DEF Reply, Awaiting
  <2>2. /\ Heard /\ WaitsOnce' /\ requests' \subseteq requests
        /\ pc' \in {"down", "turn", "acting", "sending", "waiting", "saving"}
        /\ mem' \in Checkpoints
    <3>1. ans.code = "success" =>
           /\ ans.state_version \in Nat /\ ans.terminated \in BOOLEAN
           /\ \A r \in leaving : \E d : /\ d \in decided' /\ d.request = r.body
                                        /\ d.code = "success"
                                        /\ d.state_version = ans.state_version
      BY <1>2, <2>1
    <3> QED BY <1>1, <2>1, <3>1, LeavingIsHeard
  <2>3. Sent' \subseteq Sent
    BY <1>1, <1>2, <2>1, <2>2 DEF Sent
  <2>4. TypeOK'
    BY <1>1, <1>2, <2>1, <2>2 DEF TypeOK, counters, Heard
  <2>5. asked' = asked /\ parallel' = parallel
    BY <2>1 DEF counters
  <2> QED BY <1>2, <2>2, <2>3, <2>4, <2>5, OutsideKeeps
<1>3. ASSUME NEW code \in {"success", "tool_failed"}, Backend!Advance(b, code),
             Reply(b, [code |-> code, state_version |-> version + 1,
                       terminated |-> status' = "terminated"])
      PROVE  IInv'
  <2> DEFINE x == [request |-> b, code |-> code, state_version |-> version + 1]
  <2>1. /\ decided' = decided \cup {x} /\ version' = version + 1 /\ inflight' = {}
        /\ \A d \in decided : d.request.client_action_id # b.client_action_id
    BY <1>3 DEF Backend!Advance, Backend!Decision, Backend!Undecided
  <2>2. /\ x \in [request : Bodies, code : Errors \cup {"success"}, state_version : Nat]
        /\ x.request = b /\ x.code = code /\ x.state_version = version + 1
    BY <1>1 DEF Errors
  <2> HIDE DEF x
  <2>3. Settles
    BY <1>1, <2>1, <2>2 DEF Settles
  <2>4. PICK ans : ans = [code |-> code, state_version |-> version + 1,
                          terminated |-> status' = "terminated"]
    OBVIOUS
  <2>5. Reply(b, ans)
    BY <1>3, <2>4
  <2>6. ans.code = "success" => /\ x.code = "success" /\ ans.terminated \in BOOLEAN
                                /\ x.state_version = ans.state_version
    BY <2>2, <2>4
  <2>7. version' \in Nat /\ inflight' \subseteq inflight
    BY <1>1, <2>1
  <2>8. decided' = decided \cup {x} \/ (decided' = decided /\ ans.code # "success")
    BY <2>1
  <2> QED BY <1>2, <2>2, <2>3, <2>5, <2>6, <2>7, <2>8
<1>4. ASSUME \/ UNCHANGED episode
             \/ Backend!Reject(b, "refused"),
             Reply(b, [code |-> "refused"])
      PROVE  IInv'
  <2> DEFINE x == [request |-> b, code |-> "refused", state_version |-> version]
  <2>1. /\ version' = version /\ inflight' = inflight
        /\ \/ decided' = decided
           \/ /\ decided' = decided \cup {x}
              /\ \A d \in decided : d.request.client_action_id # b.client_action_id
    BY <1>4 DEF episode, Backend!Reject, Backend!Decision, Backend!Undecided
  <2>2. /\ x \in [request : Bodies, code : Errors \cup {"success"}, state_version : Nat]
        /\ x.request = b /\ x.code = "refused" /\ x.state_version = version
    BY <1>1 DEF Errors
  <2> HIDE DEF x
  <2>3. Settles
    BY <1>1, <2>1, <2>2 DEF Settles
  <2>4. PICK ans : ans = [code |-> "refused"]
    OBVIOUS
  <2>5. Reply(b, ans) /\ ans.code # "success"
    BY <1>4, <2>4
  <2>6. version' \in Nat /\ inflight' \subseteq inflight
    BY <1>1, <2>1
  <2>7. decided' = decided \cup {x} \/ (decided' = decided /\ ans.code # "success")
    BY <2>1, <2>5
  <2>8. ans.code = "success" => /\ x.code = "success" /\ ans.terminated \in BOOLEAN
                                /\ x.state_version = ans.state_version
    BY <2>5
  <2> QED BY <1>2, <2>2, <2>3, <2>5, <2>6, <2>7, <2>8
<1> QED BY <1>3, <1>4 DEF Decide

-------------------------------------------------------------------------------
(* The runner's own steps *)

\* A run ends, for whatever reason: what it has sent goes on without it.
LEMMA EndKeeps ==
  ASSUME IInv, pc' = "down", UNCHANGED <<mem, disk, handlers, episode>>,
         asked' = asked, parallel' = parallel, faults' \in Nat,
         \/ requests' = requests /\ pc # "waiting"
         \/ requests' = {[r EXCEPT !.awaited = FALSE] : r \in requests}
  PROVE  IInv'
<1>1. TypeOK /\ WaitsOnce
  BY DEF IInv, CallsInv
<1>2. /\ requests' \subseteq [body : Bodies, awaited : BOOLEAN,
                            stage : {"waiting", "reading", "posted", "working"}]
      /\ WaitsOnce' /\ \A s \in requests' : \E t \in requests : s.body = t.body
  <2>1. CASE requests' = requests /\ pc # "waiting"
    BY <1>1, <2>1 DEF TypeOK, WaitsOnce
  <2>2. CASE requests' = {[r EXCEPT !.awaited = FALSE] : r \in requests}
    <3>1. ASSUME NEW s \in requests'
          PROVE  /\ s \in [body : Bodies, awaited : BOOLEAN,
                           stage : {"waiting", "reading", "posted", "working"}]
                 /\ ~s.awaited /\ \E t \in requests : s.body = t.body
      <4>1. PICK t \in requests : s = [t EXCEPT !.awaited = FALSE]
        BY <2>2, <3>1
      <4> QED BY <1>1, <4>1 DEF TypeOK
    <3> QED BY <3>1 DEF WaitsOnce
  <2> QED BY <2>1, <2>2
<1>3. Sent' \subseteq Sent
  BY <1>2 DEF Sent, episode
<1>4. TypeOK'
  BY <1>1, <1>2 DEF TypeOK, episode
<1>5. Settles /\ Heard
  BY DEF Settles, Heard, episode
<1> QED BY <1>2, <1>3, <1>4, <1>5, OutsideKeeps

\* Where nothing outside the runner changes.
LEMMA InsideNames ==
  ASSUME CallsInv, UNCHANGED <<handlers, episode, requests>>, asked <= asked', asked' \in Nat
  PROVE  /\ Sent' = Sent /\ DecidedOnce'
         /\ OneBody(Sent, asked')
         /\ Names(mem, Sent, asked')
         /\ disk # None => Names(disk, Sent, asked')
<1>1. Sent' = Sent
  BY DEF Sent, episode
<1>2. DecidedOnce'
  BY DEF CallsInv, DecidedOnce, episode
<1>3. /\ mem \in Checkpoints /\ (disk # None => disk \in Checkpoints)
      /\ Sent \subseteq Bodies /\ asked \in Nat
  BY SentType DEF CallsInv, TypeOK
<1>4. Names(mem, Sent, asked') /\ (disk # None => Names(disk, Sent, asked'))
  BY <1>3, Fewer DEF CallsInv
<1>5. OneBody(Sent, asked')
  BY <1>4 DEF Names, OneBody
<1> QED BY <1>1, <1>2, <1>4, <1>5

LEMMA RestoredParts ==
  ASSUME NEW m \in Checkpoints
  PROVE  /\ Restored(m) \in Checkpoints /\ Restored(m).active = <<>>
         /\ Restored(m).pending = m.pending /\ Restored(m).followups = m.followups
         /\ Restored(m).tool_calls = m.tool_calls /\ Restored(m).version = m.version
         /\ Restored(m).answered = m.answered
         /\ (Restored(m).resume_pending <=> m.pending # None)
<1> DEFINE waits == m.pending # None
           empty == <<>>
<1>1. waits \in BOOLEAN /\ TRUE \in BOOLEAN /\ 0 \in Nat /\ empty \in Seq(Calls)
  OBVIOUS
<1>2. Restored(m) = [m EXCEPT !.active = empty, !.turn = 0, !.resume = TRUE,
                              !.resume_pending = waits]
  BY DEF Restored
<1> HIDE DEF waits, empty
<1>3. Restored(m) \in Checkpoints
  BY <1>1, <1>2, Zenon DEF Checkpoints
<1>4. /\ Restored(m).active = empty
      /\ Restored(m).pending = m.pending /\ Restored(m).followups = m.followups
      /\ Restored(m).tool_calls = m.tool_calls /\ Restored(m).version = m.version
      /\ Restored(m).answered = m.answered /\ Restored(m).resume_pending = waits
  BY <1>2, Zenon DEF Checkpoints
<1> QED BY <1>3, <1>4 DEF waits, empty

LEMMA StartKeeps == ASSUME IInv, Start PROVE IInv'
<1>1. /\ CallsInv /\ SingleInv /\ TypeOK /\ WaitsOnce /\ mem \in Checkpoints
      /\ (disk # None => disk \in Checkpoints) /\ version \in Nat /\ asked \in Nat
      /\ (disk # None => Names(disk, Sent, asked))
  BY DEF IInv, CallsInv, TypeOK
<1>2. /\ pc = "down" /\ mem' = IF disk = None THEN Fresh ELSE Restored(disk)
      /\ pc' \in {"down", "turn"}
      /\ UNCHANGED <<disk, requests, handlers, episode, counters>>
  BY DEF Start
<1>3. UNCHANGED <<handlers, episode, requests>> /\ asked' = asked
      /\ parallel' = parallel /\ faults' = faults
  BY <1>2 DEF counters
<1>4. /\ Sent' = Sent /\ DecidedOnce' /\ OneBody(Sent, asked)
  <2>1. asked <= asked' /\ asked' \in Nat
    BY <1>1, <1>3
  <2> QED BY <1>1, <1>3, <2>1, InsideNames
<1>5. /\ mem' \in Checkpoints /\ mem'.active = <<>>
      /\ disk = None => /\ mem'.pending = None /\ mem'.followups = <<>>
                        /\ ~mem'.resume_pending /\ mem'.version = version
      /\ disk # None => /\ mem'.pending = disk.pending /\ mem'.followups = disk.followups
                        /\ mem'.tool_calls = disk.tool_calls /\ mem'.version = disk.version
                        /\ mem'.answered = disk.answered
                        /\ (mem'.resume_pending <=> disk.pending # None)
  <2>1. CASE disk = None
    <3>1. mem' = Fresh
      BY <1>2, <2>1
    <3>2. Fresh \in Checkpoints
      BY <1>1 DEF Fresh, Checkpoints, Results
    <3> QED BY <2>1, <3>1, <3>2 DEF Fresh
  <2>2. CASE disk # None
    <3>1. mem' = Restored(disk)
      BY <1>2, <2>2
    <3> QED BY <1>1, <2>2, <3>1, RestoredParts
  <2> QED BY <2>1, <2>2
<1>6. TypeOK'
  BY <1>1, <1>2, <1>3, <1>5 DEF TypeOK, episode
<1>7. WaitsOnce'
  BY <1>1, <1>2 DEF WaitsOnce
<1>8. RunnerFits'
  BY <1>2, <1>5 DEF RunnerFits, Busy
<1>9. Linked'
  BY <1>2, <1>5 DEF Linked
<1>10. Names(mem, Sent, asked)'
  <2>1. CASE disk = None
    <3>1. Sent \cup Pend(mem') = Sent
      BY <1>5, <2>1 DEF Pend
    <3> QED BY <1>3, <1>4, <1>5, <2>1, <3>1, NothingQueued DEF Names
  <2>2. CASE disk # None
    BY <1>1, <1>3, <1>4, <1>5, <2>2 DEF Names, Pend
  <2> QED BY <2>1, <2>2
<1>11. CallsInv'
  BY <1>1, <1>2, <1>3, <1>4, <1>6, <1>7, <1>8, <1>9, <1>10 DEF CallsInv
<1>12. SingleInv'
  <2> SUFFICES ASSUME ~parallel PROVE SingleInv'
    BY <1>3 DEF SingleInv
  <2>1. /\ OneId(Sent)
        /\ disk = None => Sent = {}
        /\ disk # None => Single(disk) /\ Knows(disk, Sent, decided, version)
    BY <1>1 DEF SingleInv
  <2>2. Single(mem') /\ Knows(mem', Sent, decided, version)
    <3>1. CASE disk = None
      <4>1. Sent = {} /\ decided = {}
        BY <1>1, <2>1, <3>1, SentType
      <4> QED BY <1>5, <3>1, <4>1 DEF Single, Knows
    <3>2. CASE disk # None
      BY <1>5, <2>1, <3>2 DEF Single, Knows, Pend
    <3> QED BY <3>1, <3>2
  <2>3. Len(mem'.active) = 0
    BY <1>5
  <2>4. decided' = decided /\ version' = version
    BY <1>3 DEF episode
  <2>5. pc' # "saving" /\ pc' \in {"down", "turn"} /\ disk' = disk
    BY <1>2
  <2>6. mem'.pending # None => disk' # None /\ disk'.pending = mem'.pending
    BY <1>5, <2>5
  <2> QED BY <1>4, <2>1, <2>2, <2>3, <2>4, <2>5, <2>6 DEF SingleInv
<1> QED BY <1>11, <1>12 DEF IInv

LEMMA SameMemory ==
  ASSUME NEW m, NEW k, k.pending = m.pending, k.followups = m.followups,
         k.tool_calls = m.tool_calls, k.version = m.version, k.answered = m.answered
  PROVE  /\ Pend(k) = Pend(m) /\ Rest(k) = Rest(m)
         /\ \A S, n : Names(k, S, n) <=> Names(m, S, n)
         /\ Single(k) <=> Single(m)
         /\ \A S, D, v : Knows(k, S, D, v) <=> Knows(m, S, D, v)
<1>1. Pend(k) = Pend(m)
  BY DEF Pend
<1>2. Rest(k) = Rest(m)
  BY DEF Rest
<1>3. \A S, n : Names(k, S, n) <=> Names(m, S, n)
  BY <1>1 DEF Names
<1>4. Single(k) <=> Single(m)
  BY DEF Single
<1>5. \A S, D, v : Knows(k, S, D, v) <=> Knows(m, S, D, v)
  BY <1>1 DEF Knows
<1> QED BY <1>1, <1>2, <1>3, <1>4, <1>5

\* A turn goes on: what is pending stays, and its calls are to be worked off.
LEMMA TurnKeeps ==
  ASSUME IInv, pc \in {"turn", "acting"}, pc' \in {"acting", "sending"},
         UNCHANGED <<disk, requests, handlers, episode>>,
         mem' \in Checkpoints, mem'.pending = mem.pending,
         mem'.followups = mem.followups, mem'.tool_calls = mem.tool_calls,
         mem'.version = mem.version, mem'.answered = mem.answered,
         mem'.active # <<>>, ~mem'.resume_pending,
         asked <= asked', asked' \in Nat, faults' \in Nat, parallel' \in BOOLEAN,
         parallel => parallel', ~parallel' => Len(mem'.active) <= 1,
         IF mem.pending = None
         THEN pc' = "acting" /\ Queued(mem'.active, Sent, asked')
         ELSE Len(mem'.active) <= Rest(mem)
  PROVE  IInv'
<1>1. /\ CallsInv /\ SingleInv /\ TypeOK /\ RunnerFits /\ Linked /\ WaitsOnce
  BY DEF IInv, CallsInv
<1>2. /\ Sent' = Sent /\ DecidedOnce' /\ Names(mem, Sent, asked')
      /\ disk # None => Names(disk, Sent, asked')
  BY <1>1, InsideNames
<1>3. /\ Rest(mem') = Rest(mem) /\ Pend(mem') = Pend(mem)
      /\ Names(mem', Sent, asked') /\ (Single(mem') <=> Single(mem))
      /\ Knows(mem', Sent, decided, version) <=> Knows(mem, Sent, decided, version)
  BY <1>2, SameMemory
<1>4. TypeOK'
  BY <1>1 DEF TypeOK, episode
<1>5. WaitsOnce'
  BY <1>1 DEF WaitsOnce
<1>6. RunnerFits'
  BY <1>2, <1>3 DEF RunnerFits, Busy
<1>7. Linked'
  BY <1>1 DEF Linked
<1>8. CallsInv'
  BY <1>2, <1>3, <1>4, <1>5, <1>6, <1>7 DEF CallsInv
<1>9. SingleInv'
  <2> SUFFICES ASSUME ~parallel, ~parallel' PROVE SingleInv'
    BY DEF SingleInv
  <2>1. decided' = decided /\ version' = version
    BY DEF episode
  <2>2. /\ OneId(Sent) /\ Single(mem) /\ Knows(mem, Sent, decided, version)
        /\ disk = None => Sent = {}
        /\ disk # None => Single(disk) /\ Knows(disk, Sent, decided, version)
        /\ mem.pending # None => disk # None /\ disk.pending = mem.pending
    BY <1>1 DEF SingleInv
  <2> QED BY <1>2, <1>3, <2>1, <2>2 DEF SingleInv
<1> QED BY <1>8, <1>9 DEF IInv

LEMMA OneCall ==
  ASSUME NEW c \in Calls
  PROVE  <<c>> \in Seq(Calls) /\ <<c>> # <<>> /\ Len(<<c>>) = 1
OBVIOUS

LEMMA RestIsLeft ==
  ASSUME NEW m \in Checkpoints, m.pending # None
  PROVE  Rest(m) >= 1
<1>1. Len(m.followups) \in Nat /\ m.pending.calls_remaining \in Nat
  BY MemoryParts
<1> QED BY <1>1 DEF Rest

LEMMA ResumeKeeps == ASSUME IInv, ResumePending PROVE IInv'
<1> DEFINE active == <<mem.pending.body.action>>
<1>1. /\ TypeOK /\ mem \in Checkpoints /\ mem.pending # None
      /\ asked \in Nat /\ faults \in Nat /\ parallel \in BOOLEAN
  BY DEF IInv, CallsInv, TypeOK, RunnerFits, ResumePending
<1>2. /\ pc = "turn" /\ pc' = "acting"
      /\ mem' = [mem EXCEPT !.active = active, !.resume_pending = FALSE]
      /\ UNCHANGED <<disk, report, requests, handlers, episode, counters>>
  BY DEF ResumePending
<1>3. active \in Seq(Calls) /\ active # <<>> /\ Len(active) = 1
  BY <1>1, MemoryParts, OneCall
<1>4. Rest(mem) >= 1 /\ Rest(mem) \in Nat
  BY <1>1, RestIsLeft, MemoryParts
<1>5. Len(active) <= Rest(mem)
  BY <1>3, <1>4
<1>6. Len(active) <= 1
  BY <1>3
<1> HIDE DEF active
<1>7. /\ mem' \in Checkpoints /\ mem'.pending = mem.pending
      /\ mem'.followups = mem.followups /\ mem'.tool_calls = mem.tool_calls
      /\ mem'.version = mem.version /\ mem'.answered = mem.answered
      /\ mem'.active = active /\ ~mem'.resume_pending
  BY <1>1, <1>2, <1>3 DEF Checkpoints
<1>8. /\ asked' = asked /\ faults' = faults /\ parallel' = parallel /\ asked <= asked
  BY <1>1, <1>2 DEF counters
<1> QED BY <1>1, <1>2, <1>3, <1>5, <1>6, <1>7, <1>8, TurnKeeps

\* The calls a model makes are new.
LEMMA NewCalls ==
  ASSUME NEW n \in Nat, NEW k \in Nat, k >= 1, NEW kinds \in [1 .. k -> Kinds],
         NEW S, S \subseteq Bodies, OneBody(S, n)
  PROVE  LET calls == [i \in 1 .. k |-> [n |-> n + i, kind |-> kinds[i]]]
         IN  /\ calls \in Seq(Calls) /\ calls # <<>> /\ Len(calls) = k
             /\ Queued(calls, S, n + k)
<1> DEFINE calls == [i \in 1 .. k |-> [n |-> n + i, kind |-> kinds[i]]]
<1>1. calls \in Seq(Calls) /\ Len(calls) = k
  BY DEF Calls
<1>2. calls # <<>>
  <2> HIDE DEF calls
  <2>1. Len(<<>>) = 0
    OBVIOUS
  <2> QED BY <1>1, <2>1
<1>3. ASSUME NEW i \in 1 .. k
      PROVE  calls[i].n = n + i
  OBVIOUS
<1>4. ASSUME NEW i \in 1 .. k
      PROVE  calls[i].n <= n + k /\ \A b \in S : b.action # calls[i]
  <2>1. \A b \in S : b.action.n \in Nat /\ b.action.n <= n
    BY DEF OneBody, Bodies, Calls
  <2> QED BY <1>3, <2>1
<1>5. ASSUME NEW i \in 1 .. k, NEW j \in 1 .. k, calls[i] = calls[j]
      PROVE  i = j
  <2>1. n + i = n + j
    BY <1>3, <1>5
  <2> QED BY <2>1
<1> HIDE DEF calls
<1>6. Queued(calls, S, n + k)
  BY <1>1, <1>4, <1>5 DEF Queued
<1> QED BY <1>1, <1>2, <1>6 DEF calls

LEMMA AskKeeps == ASSUME IInv, AskModel PROVE IInv'
<1>1. /\ TypeOK /\ mem \in Checkpoints /\ Sent \subseteq Bodies
      /\ asked \in Nat /\ faults \in Nat /\ parallel \in BOOLEAN /\ MaxCalls \in Nat
      /\ OneBody(Sent \cup Pend(mem), asked)
  BY SentType, BoundsAssumption DEF IInv, CallsInv, TypeOK, Names
<1>2. PICK k \in 0 .. MaxCalls :
        /\ asked' = asked + k /\ parallel' = (parallel \/ k > 1)
        /\ IF k = 0
           THEN Ends("failed")
           ELSE \E kinds \in [1 .. k -> Kinds] :
                  LET calls == [i \in 1 .. k |-> [n |-> asked + i, kind |-> kinds[i]]]
                  IN /\ mem' = [mem EXCEPT !.active =
                                  IF mem.pending = None THEN calls
                                  ELSE <<mem.pending.body.action>>]
                     /\ pc' = "acting"
                     /\ UNCHANGED <<disk, report>>
  BY DEF AskModel
<1>3. /\ pc = "turn" /\ ~mem.resume_pending
      /\ UNCHANGED <<requests, handlers, episode, faults>>
  BY DEF AskModel
<1>4. k \in Nat /\ parallel' \in BOOLEAN /\ (parallel => parallel')
  BY <1>1, <1>2
<1>5. CASE k = 0
  <2>1. asked' = asked /\ parallel' = parallel
    BY <1>1, <1>2, <1>5
  <2>2. pc' = "down" /\ UNCHANGED <<mem, disk>>
    BY <1>2, <1>5 DEF Ends
  <2> QED BY <1>1, <1>3, <2>1, <2>2, EndKeeps
<1>6. CASE k # 0
  <2>1. PICK kinds \in [1 .. k -> Kinds] :
          LET calls == [i \in 1 .. k |-> [n |-> asked + i, kind |-> kinds[i]]]
          IN /\ mem' = [mem EXCEPT !.active =
                          IF mem.pending = None THEN calls
                          ELSE <<mem.pending.body.action>>]
             /\ pc' = "acting"
             /\ UNCHANGED <<disk, report>>
    BY <1>2, <1>6
  <2> DEFINE calls == [i \in 1 .. k |-> [n |-> asked + i, kind |-> kinds[i]]]
             active == IF mem.pending = None THEN calls ELSE <<mem.pending.body.action>>
  <2>2. OneBody(Sent, asked) /\ k >= 1
    BY <1>1, <1>4, <1>6 DEF OneBody
  <2>3. calls \in Seq(Calls) /\ calls # <<>> /\ Len(calls) = k /\ Queued(calls, Sent, asked')
    BY <1>1, <1>2, <1>4, <2>2, NewCalls
  <2> HIDE DEF calls
  <2>4. /\ active \in Seq(Calls) /\ active # <<>>
        /\ ~parallel' => Len(active) <= 1
        /\ IF mem.pending = None THEN Queued(active, Sent, asked')
                                 ELSE Len(active) <= Rest(mem)
    <3>1. CASE mem.pending = None
      <4>1. ~parallel' => k <= 1
        <5>1. ~parallel' => ~(k > 1)
          BY <1>2, Zenon
        <5> QED BY <1>4, <5>1
      <4>2. active = calls
        BY <3>1
      <4> HIDE DEF active
      <4> QED BY <2>3, <3>1, <4>1, <4>2
    <3>2. CASE mem.pending # None
      <4>1. active \in Seq(Calls) /\ active # <<>> /\ Len(active) = 1
        BY <1>1, <3>2, MemoryParts, OneCall
      <4>2. Rest(mem) >= 1 /\ Rest(mem) \in Nat
        BY <1>1, <3>2, RestIsLeft, MemoryParts
      <4> QED BY <3>2, <4>1, <4>2
    <3> QED BY <3>1, <3>2
  <2>5. mem' = [mem EXCEPT !.active = active] /\ pc' = "acting" /\ UNCHANGED <<disk, report>>
    BY <2>1 DEF calls
  <2> HIDE DEF active
  <2>6. /\ mem' \in Checkpoints /\ mem'.pending = mem.pending
        /\ mem'.followups = mem.followups /\ mem'.tool_calls = mem.tool_calls
        /\ mem'.version = mem.version /\ mem'.answered = mem.answered
        /\ mem'.active = active /\ ~mem'.resume_pending
    BY <1>1, <1>3, <2>4, <2>5 DEF Checkpoints
  <2>7. asked' \in Nat /\ asked <= asked'
    BY <1>1, <1>2, <1>4
  <2> QED BY <1>1, <1>3, <1>4, <2>4, <2>5, <2>6, <2>7, TurnKeeps
<1> QED BY <1>5, <1>6

\* Nothing but its post makes a run wait.
LEMMA NobodyWaits ==
  ASSUME WaitsOnce, pc # "waiting", requests' = requests
  PROVE  WaitsOnce' /\ \A r \in requests : ~r.awaited
BY DEF WaitsOnce

LEMMA PrepareKeeps == ASSUME IInv, Prepare PROVE IInv'
<1>1. /\ CallsInv /\ SingleInv /\ TypeOK /\ RunnerFits /\ WaitsOnce
      /\ mem \in Checkpoints /\ Names(mem, Sent, asked)
      /\ asked \in Nat /\ faults \in Nat /\ parallel \in BOOLEAN /\ asked <= asked
  BY DEF IInv, CallsInv, TypeOK
<1>2. /\ pc = "acting" /\ mem.active # <<>> /\ ~mem.resume_pending
      /\ mem.pending = None => Queued(mem.active, Sent, asked)
      /\ mem.pending # None => Len(mem.active) <= Rest(mem)
      /\ ~parallel => Len(mem.active) <= 1
      /\ UNCHANGED <<requests, handlers, episode>>
  BY <1>1 DEF Prepare, RunnerFits, Busy, SingleInv
<1>3. CASE mem.pending # None
  <2>1. pc' = "sending" /\ UNCHANGED <<mem, disk, report, counters>>
    BY <1>3 DEF Prepare
  <2>2. asked' = asked /\ faults' = faults /\ parallel' = parallel
    BY <2>1 DEF counters
  <2> QED BY <1>1, <1>2, <1>3, <2>1, <2>2, TurnKeeps
<1>4. CASE Ends("failed") /\ Fault
  <2>1. /\ pc' = "down" /\ UNCHANGED <<mem, disk>> /\ asked' = asked
        /\ parallel' = parallel /\ faults' = faults + 1
    BY <1>4 DEF Ends, Fault
  <2>2. faults' \in Nat
    BY <1>1, <2>1
  <2> QED BY <1>2, <2>1, <2>2, EndKeeps
<1>5. ASSUME mem.pending = None, pc' = "sending", UNCHANGED counters,
             mem' = [mem EXCEPT !.pending = Pending(mem, Head(mem.active),
                                                    Len(mem.active) - 1),
                                !.followups = Tail(mem.active)],
             disk' = mem'
      PROVE  IInv'
  <2> DEFINE size == Len(mem.active)
             action == Pending(mem, Head(mem.active), size - 1)
             others == Tail(mem.active)
  <2>1. /\ mem.active \in Seq(Calls) /\ size \in Nat /\ size >= 1
        /\ Head(mem.active) \in Calls /\ others \in Seq(Calls) /\ Len(others) = size - 1
        /\ mem.tool_calls \in Nat
    BY <1>1, <1>2, MemoryParts, HeadAndTail
  <2>2. size - 1 \in Nat
    BY <2>1
  <2>3. /\ action \in Actions /\ action # None /\ action.calls_remaining = size - 1
        /\ action.body.action = Head(mem.active)
        /\ action.body.client_action_id = mem.tool_calls
    BY <1>1, <2>1, <2>2, PendingParts
  <2>4. PICK b : b = action.body
    OBVIOUS
  <2>5. OneBody(Sent \cup {b}, asked) /\ Queued(others, Sent \cup {b}, asked)
    <3>1. OneBody(Sent, asked)
      BY <1>1 DEF Names, OneBody
    <3>2. b.action = Head(mem.active)
      BY <2>3, <2>4
    <3> QED BY <1>1, <1>2, <1>5, <2>1, <3>1, <3>2, FirstCall
  <2>6. mem' = [mem EXCEPT !.pending = action, !.followups = others]
    BY <1>5
  <2>7. \A d \in decided : d.request \in Sent
    BY <1>1, SentType
  <2> HIDE DEF action, others
  <2>8. /\ mem' \in Checkpoints /\ mem'.pending = action /\ mem'.followups = others
        /\ mem'.tool_calls = mem.tool_calls /\ mem'.version = mem.version
        /\ mem'.answered = mem.answered /\ mem'.active = mem.active
        /\ ~mem'.resume_pending
    BY <1>1, <1>2, <2>1, <2>3, <2>6 DEF Checkpoints
  <2>9. disk' \in Checkpoints /\ disk' # None
    BY <1>5, <2>8, NoneIsNoCheckpoint
  <2>10. Pend(mem') = {b}
    BY <2>3, <2>4, <2>8 DEF Pend
  <2>11. size <= Rest(mem')
    <3>1. Rest(mem') = (size - 1) + IF size - 1 > 0 THEN size - 1 ELSE 1
      BY <2>1, <2>3, <2>8 DEF Rest
    <3> HIDE DEF size
    <3> QED BY <2>1, <3>1
  <2>12. asked' = asked /\ faults' = faults /\ parallel' = parallel
    BY <1>5 DEF counters
  <2>13. Sent' = Sent /\ DecidedOnce'
    BY <1>1, <1>2, <2>12, InsideNames
  <2>14. Names(mem', Sent, asked)
    BY <2>5, <2>8, <2>10 DEF Names
  <2>15. TypeOK'
    BY <1>1, <1>2, <1>5, <2>8, <2>9, <2>12 DEF TypeOK, episode
  <2>16. WaitsOnce'
    BY <1>1, <1>2, NobodyWaits
  <2>17. RunnerFits'
    BY <1>2, <1>5, <2>3, <2>8, <2>11 DEF RunnerFits, Busy
  <2>18. Linked'
    BY <1>5, <2>9 DEF Linked
  <2>19. CallsInv'
    BY <1>5, <2>12, <2>13, <2>14, <2>15, <2>16, <2>17, <2>18 DEF CallsInv
  <2>20. SingleInv'
    <3> SUFFICES ASSUME ~parallel PROVE SingleInv'
      BY <2>12 DEF SingleInv
    <3>1. OneId(Sent) /\ Single(mem) /\ Knows(mem, Sent, decided, version)
      BY <1>1, <1>2 DEF SingleInv
    <3>2. decided' = decided /\ version' = version
      BY <1>2 DEF episode
    <3>3. size = 1
      <4>1. size <= 1
        BY <1>2, Zenon
      <4> HIDE DEF size
      <4> QED BY <2>1, <4>1
    <3>4. Single(mem')
      <4>1. others = <<>>
        BY <2>1, <3>3
      <4> QED BY <2>3, <2>8, <3>3, <4>1 DEF Single
    <3>5. Pend(mem) = {}
      BY <1>5 DEF Pend
    <3>6. b.client_action_id = mem.tool_calls
      BY <2>3, <2>4
    <3>7. ~(b.client_action_id < mem.tool_calls)
      BY <2>1, <3>6
    <3>8. \A d \in decided : d.request # b
      BY <2>7, <3>1, <3>5, <3>7 DEF Knows
    <3>9. Knows(mem', Sent, decided, version)
      BY <2>8, <2>10, <3>1, <3>5, <3>8 DEF Knows
    <3>10. Len(mem'.active) <= 1
      BY <1>2, <2>8
    <3> QED BY <1>5, <2>9, <2>13, <3>1, <3>2, <3>4, <3>9, <3>10 DEF SingleInv
  <2> QED BY <2>19, <2>20 DEF IInv
<1> QED BY <1>3, <1>4, <1>5 DEF Prepare, BeforeRequest

LEMMA PostKeeps == ASSUME IInv, Post PROVE IInv'
<1> DEFINE b == mem.pending.body
           request == [body |-> b, stage |-> "waiting", awaited |-> TRUE]
<1>1. /\ CallsInv /\ SingleInv /\ TypeOK /\ RunnerFits /\ Linked /\ WaitsOnce /\ DecidedOnce
      /\ mem \in Checkpoints /\ Names(mem, Sent, asked)
      /\ (disk # None => disk \in Checkpoints /\ Names(disk, Sent, asked))
  BY DEF IInv, CallsInv, TypeOK
<1>2. /\ pc = "sending" /\ pc' = "waiting" /\ requests' = requests \cup {request}
      /\ UNCHANGED <<mem, disk, report, handlers, episode, counters>>
  BY DEF Post
<1>3. /\ mem.pending # None /\ b \in Bodies /\ Pend(mem) = {b} /\ mem.tool_calls \in Nat
  BY <1>1, <1>2, MemoryParts DEF RunnerFits
<1>4. \A r \in requests : ~r.awaited
  BY <1>1, <1>2 DEF WaitsOnce
<1>5. /\ request.body = b /\ request.awaited
      /\ request \in [body : Bodies, awaited : BOOLEAN,
                      stage : {"waiting", "reading", "posted", "working"}]
  BY <1>3
<1> HIDE DEF request
<1>6. Sent' = Sent \cup {b}
  BY <1>2, <1>5 DEF Sent, episode
<1>7. TypeOK'
  BY <1>1, <1>2, <1>5 DEF TypeOK, episode, counters
<1>8. WaitsOnce'
  BY <1>2, <1>3, <1>4, <1>5 DEF WaitsOnce
<1>9. RunnerFits' /\ Linked' /\ DecidedOnce'
  <2>1. mem' = mem /\ disk' = disk /\ decided' = decided
    BY <1>2 DEF episode
  <2> QED BY <1>1, <1>2, <2>1 DEF RunnerFits, Linked, DecidedOnce, Busy
<1>10. Names(mem, Sent \cup {b}, asked) /\ (disk # None => Names(disk, Sent \cup {b}, asked))
  <2>1. Names(mem, Sent \cup {b}, asked)
    BY <1>1, <1>3, ActionSent DEF Pend
  <2>2. ASSUME disk # None PROVE Names(disk, Sent \cup {b}, asked)
    <3>1. \/ Pend(disk) = {} /\ disk.followups = <<>>
          \/ Pend(disk) = Pend(mem) /\ disk.followups = mem.followups
      BY <1>1, <1>2, <2>2 DEF Linked, Pend
    <3> QED BY <1>1, <1>3, <3>1, ActionSent
  <2> QED BY <2>1, <2>2
<1>11. CallsInv'
  BY <1>2, <1>6, <1>7, <1>8, <1>9, <1>10 DEF CallsInv, counters
<1>12. SingleInv'
  <2> SUFFICES ASSUME ~parallel PROVE SingleInv'
    BY <1>2 DEF SingleInv, counters
  <2>1. /\ OneId(Sent) /\ Len(mem.active) <= 1
        /\ Single(mem) /\ Knows(mem, Sent, decided, version)
        /\ disk # None /\ disk.pending = mem.pending
        /\ Single(disk) /\ Knows(disk, Sent, decided, version)
    BY <1>1, <1>2, <1>3 DEF SingleInv
  <2>2. ASSUME NEW m \in Checkpoints, Single(m), Knows(m, Sent, decided, version),
               m.pending = mem.pending
        PROVE  Knows(m, Sent \cup {b}, decided, version)
    <3>1. b \in Pend(m) /\ ~(b.client_action_id < m.tool_calls)
      <4>1. b.client_action_id = m.tool_calls /\ m.tool_calls \in Nat
        BY <1>3, <2>2, MemoryParts DEF Single
      <4>2. b \in Pend(m)
        BY <1>3, <2>2 DEF Pend
      <4> QED BY <4>1, <4>2
    <3> QED BY <2>2, <3>1 DEF Knows
  <2>3. Knows(mem, Sent \cup {b}, decided, version) /\ Knows(disk, Sent \cup {b}, decided, version)
    BY <1>1, <2>1, <2>2
  <2>4. OneId(Sent \cup {b})
    <3>1. b.client_action_id = mem.tool_calls
      BY <1>3, <2>1 DEF Single
    <3>2. ~(b.client_action_id < mem.tool_calls)
      BY <1>3, <3>1
    <3>3. \A c \in Sent : c.client_action_id = b.client_action_id => c = b
      BY <1>3, <2>1, <3>1, <3>2 DEF Knows
    <3> QED BY <2>1, <3>3 DEF OneId
  <2>5. UNCHANGED <<mem, disk, decided, version>>
    BY <1>2 DEF episode
  <2> QED BY <1>2, <1>6, <2>1, <2>3, <2>4, <2>5 DEF SingleInv
<1> QED BY <1>11, <1>12 DEF IInv

LEMMA SaveKeeps == ASSUME IInv, Save PROVE IInv'
<1>1. /\ CallsInv /\ SingleInv /\ TypeOK /\ RunnerFits /\ WaitsOnce
      /\ mem \in Checkpoints /\ Names(mem, Sent, asked)
      /\ asked \in Nat /\ faults \in Nat /\ asked <= asked
  BY DEF IInv, CallsInv, TypeOK
<1>2. /\ pc = "saving" /\ mem.active # <<>> /\ ~mem.resume_pending
      /\ Len(mem.active) <= Rest(mem) + 1
      /\ UNCHANGED <<requests, handlers, episode>>
  BY <1>1 DEF Save, RunnerFits, Busy
<1>3. CASE Ends("failed") /\ Fault
  <2>1. /\ pc' = "down" /\ UNCHANGED <<mem, disk>> /\ asked' = asked
        /\ parallel' = parallel /\ faults' = faults + 1
    BY <1>3 DEF Ends, Fault
  <2>2. faults' \in Nat
    BY <1>1, <2>1
  <2> QED BY <1>2, <2>1, <2>2, EndKeeps
<1>4. ASSUME disk' = AfterAnswer(mem),
             mem' = [mem EXCEPT !.active = Tail(@),
                                !.turn = IF Len(mem.active) = 1 THEN @ + 1 ELSE @],
             pc' = IF mem.terminated THEN "down"
                   ELSE IF Len(mem.active) = 1 THEN "turn" ELSE "acting",
             UNCHANGED counters
      PROVE  IInv'
  <2> DEFINE size == Len(mem.active)
             left == Tail(mem.active)
             turn == IF size = 1 THEN mem.turn + 1 ELSE mem.turn
  <2>1. /\ mem.active \in Seq(Calls) /\ size \in Nat /\ size >= 1
        /\ left \in Seq(Calls) /\ Len(left) = size - 1
        /\ Rest(mem) \in Nat
    BY <1>1, <1>2, MemoryParts, HeadAndTail
  <2>2. turn \in Nat
    BY <1>1 DEF Checkpoints
  <2>3. /\ mem' = [mem EXCEPT !.active = left, !.turn = turn]
        /\ disk' = [mem EXCEPT !.pending = None, !.followups = <<>>]
    BY <1>4 DEF AfterAnswer
  <2>4. pc' \in {"down", "turn", "acting"} /\ (pc' = "acting" => size # 1)
    BY <1>4
  <2> HIDE DEF left, turn, size
  <2>5. /\ mem' \in Checkpoints /\ mem'.active = left /\ mem'.pending = mem.pending
        /\ mem'.followups = mem.followups /\ mem'.tool_calls = mem.tool_calls
        /\ mem'.version = mem.version /\ mem'.answered = mem.answered
        /\ ~mem'.resume_pending
    BY <1>1, <1>2, <2>1, <2>2, <2>3 DEF Checkpoints
  <2>6. /\ disk' \in Checkpoints /\ disk'.pending = None /\ disk'.followups = <<>>
        /\ disk'.tool_calls = mem.tool_calls /\ disk'.version = mem.version
        /\ disk'.answered = mem.answered
    <3>1. <<>> \in Seq(Calls)
      OBVIOUS
    <3> QED BY <1>1, <2>3, <3>1 DEF Checkpoints
  <2>7. disk' # None
    BY <2>6, NoneIsNoCheckpoint
  <2>8. asked' = asked /\ faults' = faults /\ parallel' = parallel
    BY <1>4 DEF counters
  <2>9. Sent' = Sent /\ DecidedOnce' /\ OneBody(Sent, asked)
    BY <1>1, <1>2, <2>8, InsideNames
  <2>10. Rest(mem') = Rest(mem) /\ Names(mem', Sent, asked)
    BY <1>1, <2>5, SameMemory
  <2>11. Names(disk', Sent, asked)
    <3>1. Sent \cup Pend(disk') = Sent
      BY <2>6 DEF Pend
    <3> QED BY <2>6, <2>9, <3>1, NothingQueued DEF Names
  <2>12. TypeOK'
    BY <1>1, <1>2, <2>4, <2>5, <2>6, <2>8 DEF TypeOK, episode
  <2>13. WaitsOnce'
    BY <1>1, <1>2, NobodyWaits
  <2>14. RunnerFits'
    <3>1. ASSUME pc' = "acting"
          PROVE  left # <<>> /\ mem.pending # None /\ Len(left) <= Rest(mem)
      <4>1. size >= 2 /\ size <= Rest(mem) + 1
        <5>1. size <= Rest(mem) + 1
          BY <1>2 DEF size
        <5> QED BY <2>1, <2>4, <3>1, <5>1
      <4>2. Len(left) >= 1 /\ Len(left) <= Rest(mem) /\ Rest(mem) # 0
        BY <2>1, <4>1
      <4>3. Len(<<>>) = 0
        OBVIOUS
      <4> QED BY <4>2, <4>3 DEF Rest
    <3> QED BY <2>4, <2>5, <2>10, <3>1 DEF RunnerFits, Busy
  <2>15. Linked'
    BY <2>6, <2>7 DEF Linked
  <2>16. CallsInv'
    BY <2>8, <2>9, <2>10, <2>11, <2>12, <2>13, <2>14, <2>15 DEF CallsInv
  <2>17. SingleInv'
    <3> SUFFICES ASSUME ~parallel PROVE SingleInv'
      BY <2>8 DEF SingleInv
    <3>1. /\ OneId(Sent) /\ size <= 1 /\ mem.pending = None
          /\ Single(mem) /\ Knows(mem, Sent, decided, version)
      BY <1>1, <1>2 DEF SingleInv, size
    <3>2. decided' = decided /\ version' = version
      BY <1>2 DEF episode
    <3>3. Single(mem') /\ Knows(mem', Sent, decided, version)
      BY <2>5, <3>1, SameMemory
    <3>4. Single(disk') /\ Knows(disk', Sent, decided, version)
      <4>1. mem.followups = <<>>
        BY <3>1 DEF Single
      <4> QED BY <2>6, <3>1, <4>1, SameMemory
    <3>5. Len(mem'.active) <= 1
      BY <2>1, <2>5, <3>1
    <3> QED BY <2>4, <2>5, <2>7, <2>9, <3>1, <3>2, <3>3, <3>4, <3>5 DEF SingleInv
  <2> QED BY <2>16, <2>17 DEF IInv
<1> QED BY <1>3, <1>4 DEF Save

LEMMA InitEstablishes == Init => IInv
<1> SUFFICES ASSUME Init PROVE IInv
  OBVIOUS
<1>1. /\ version = 0 /\ inflight = {} /\ decided = {} /\ requests = {} /\ handlers = {}
      /\ pc = "down" /\ mem = Fresh /\ disk = None
      /\ asked = 0 /\ faults = 0 /\ parallel = FALSE
  BY DEF Init, Backend!AtomicInit
<1>2. /\ Fresh \in Checkpoints /\ Fresh.pending = None /\ Fresh.followups = <<>>
      /\ Fresh.active = <<>>
  BY <1>1 DEF Fresh, Checkpoints, Results
<1>3. Sent = {}
  BY <1>1 DEF Sent
<1>4. TypeOK
  BY <1>1, <1>2 DEF TypeOK
<1>5. RunnerFits /\ Linked /\ WaitsOnce /\ DecidedOnce
  BY <1>1 DEF RunnerFits, Linked, WaitsOnce, DecidedOnce, Busy
<1>6. Names(mem, Sent, asked)
  BY <1>1, <1>2, <1>3 DEF Names, Pend, OneBody, Queued
<1>7. SingleInv
  <2>1. Len(mem.active) = 0
    BY <1>1, <1>2
  <2> QED BY <1>1, <1>3, <2>1 DEF SingleInv, OneId
<1> QED BY <1>1, <1>4, <1>5, <1>6, <1>7 DEF IInv, CallsInv

LEMMA NextKeeps == IInv /\ [Next]_vars => IInv'
<1> SUFFICES ASSUME IInv, [Next]_vars PROVE IInv'
  OBVIOUS
<1>1. /\ TypeOK /\ WaitsOnce /\ faults \in Nat
  BY DEF IInv, CallsInv, TypeOK
<1>2. CASE RunStep
  <2>1. CASE OutOfTurns
    <3>1. /\ pc = "turn" /\ pc' = "down" /\ UNCHANGED <<mem, disk, requests, handlers, episode>>
          /\ asked' = asked /\ parallel' = parallel /\ faults' = faults
      BY <2>1 DEF OutOfTurns, Ends, counters
    <3> QED BY <1>1, <3>1, EndKeeps
  <2> QED BY <1>2, <2>1, StartKeeps, ResumeKeeps, AskKeeps, PrepareKeeps, PostKeeps, SaveKeeps
          DEF RunStep
<1>3. CASE Dies
  <2>1. /\ pc' = "down" /\ UNCHANGED <<mem, disk, handlers, episode>>
        /\ asked' = asked /\ parallel' = parallel /\ faults' = faults + 1
        /\ requests' = {[r EXCEPT !.awaited = FALSE] : r \in requests}
    BY <1>3 DEF Dies, Ends, Fault
  <2>2. faults' \in Nat
    BY <1>1, <2>1
  <2> QED BY <2>1, <2>2, EndKeeps
<1>4. CASE Serve
  BY <1>4, GatewayKeeps, RepeatKeeps, TakeUpKeeps, DecideKeeps DEF Serve, Handle
<1>5. CASE \E r \in requests : Deadline(r)
  BY <1>5, GatewayKeeps
<1>6. CASE UNCHANGED vars
  <2>1. UNCHANGED <<runner, requests, handlers, episode, counters>>
    BY <1>6 DEF vars
  <2>2. TypeOK' /\ WaitsOnce' /\ Sent' = Sent
    BY <1>1, <2>1 DEF TypeOK, WaitsOnce, Sent, runner, episode, counters
  <2>3. Settles /\ Heard /\ asked' = asked /\ parallel' = parallel
    BY <2>1 DEF Settles, Heard, runner, episode, counters
  <2> QED BY <2>2, <2>3, OutsideKeeps
<1> QED BY <1>2, <1>3, <1>4, <1>5, <1>6 DEF Next

-------------------------------------------------------------------------------
(* Theorems *)

\* The runner, the gateway and the episode stay of their types, whatever dies
\* or is given up: every pending action, queue of calls, request and decision
\* is one the code can write.
THEOREM RunnerTypes == Spec => []TypeOK
<1>1. IInv => TypeOK
  BY DEF IInv, CallsInv
<1> QED BY <1>1, InitEstablishes, NextKeeps, PTL DEF Spec

\* One call of the model is applied to the episode under one action id only,
\* even if it was the first of several whose followers take its place; nobody
\* but the running process is waited for, and by one request only.
THEOREM CallsHappenOnce == Spec => [](CallsAppliedOnce /\ WaitsOnce)
<1>1. IInv => CallsAppliedOnce /\ WaitsOnce
  <2> SUFFICES ASSUME IInv PROVE CallsAppliedOnce /\ WaitsOnce
    OBVIOUS
  <2>1. WaitsOnce /\ DecidedOnce /\ OneBody(Sent, asked) /\ \A d \in decided : d.request \in Sent
    BY SentType DEF IInv, CallsInv, Names, OneBody
  <2> QED BY <2>1 DEF CallsAppliedOnce, OneBody, DecidedOnce
<1> QED BY <1>1, InitEstablishes, NextKeeps, PTL DEF Spec

\* What the model asks for happens once and its result arrives, whatever dies,
\* is given up or repeated between runner, gateway and episode: the checkpoint
\* is written before a request is sent, so what was sent is decided and known,
\* or still the action that is pending.
THEOREM RunnerActsOnce == Spec => []ExactlyOnce
<1>1. IInv => ExactlyOnce
  <2> SUFFICES ASSUME IInv PROVE ExactlyOnce
    OBVIOUS
  <2>1. /\ DecidedOnce /\ OneBody(Sent, asked) /\ handlers \subseteq Sent
        /\ \A d \in decided : d.request \in Sent
    BY SentType DEF IInv, CallsInv, Names, OneBody, Sent
  <2>2. CallsAppliedOnce
    BY <2>1 DEF CallsAppliedOnce, OneBody, DecidedOnce
  <2>3. IdsNameOneAction
    BY <2>1 DEF IInv, SingleInv, IdsNameOneAction, OneId
  <2>4. NothingLost
    <3> SUFFICES ASSUME ~parallel, pc = "turn", mem.pending = None
                 PROVE  /\ mem.version = version
                        /\ \A d \in decided : d.code = "success" =>
                             Answer(d.request) \in mem.answered
      BY DEF NothingLost, Answer
    <3>1. Knows(mem, Sent, decided, version) /\ Pend(mem) = {}
      BY DEF IInv, SingleInv, Pend
    <3> QED BY <2>1, <3>1 DEF Knows
  <2> QED BY <2>2, <2>3, <2>4 DEF ExactlyOnce
<1> QED BY <1>1, InitEstablishes, NextKeeps, PTL DEF Spec

\* While the model makes one call at a time, what the documents say of every
\* action holds: the checkpoint names it before it is sent.
THEOREM CheckpointNamesFirst == Spec => [](~parallel => PendingBeforeSend)
<1>1. IInv => (~parallel => PendingBeforeSend)
  BY DEF IInv, CallsInv, RunnerFits, SingleInv, PendingBeforeSend
<1> QED BY <1>1, InitEstablishes, NextKeeps, PTL DEF Spec

\* All the runner and the gateway do to an episode, however often they repeat
\* or give up a request, is what AtomicEpisode promises its clients, as
\* EpisodeStore does: the two specifications meet there.
THEOREM RunnerActsOnPromise == Spec => Backend!AtomicSpec
<1>1. Init => Backend!AtomicInit
  BY DEF Init
<1>2. TypeOK /\ [Next]_vars => [Backend!AtomicNext]_(Backend!avars)
  <2> SUFFICES ASSUME TypeOK, [Next]_vars
               PROVE  Backend!AtomicNext \/ UNCHANGED episode
    BY DEF Backend!avars, episode
  <2>1. CASE RunStep \/ Dies \/ UNCHANGED vars
    BY <2>1 DEF RunStep, Start, ResumePending, AskModel, OutOfTurns, Prepare, Post, Save,
                Dies, vars
  <2>2. CASE \E r \in requests : TakeSlot(r) \/ Forward(r) \/ Deadline(r)
    BY <2>2 DEF TakeSlot, Forward, Deadline
  <2>3. ASSUME NEW b \in handlers, Repeat(b) \/ TakeUp(b) \/ Decide(b)
        PROVE  Backend!AtomicNext \/ UNCHANGED episode
    <3>1. b \in Bodies /\ {"success", "tool_failed", "refused"} \subseteq Errors \cup {"success"}
      BY DEF TypeOK, Errors
    <3>2. CASE Repeat(b)
      BY <3>2 DEF Repeat
    <3>3. CASE TakeUp(b)
      BY <3>1, <3>3 DEF TakeUp, Backend!AtomicNext
    <3>4. ASSUME NEW code \in {"success", "tool_failed"}, Backend!Advance(b, code)
          PROVE  Backend!AtomicNext
      BY <3>1, <3>4 DEF Backend!AtomicNext
    <3>5. Backend!Reject(b, "refused") => Backend!AtomicNext
      BY <3>1 DEF Backend!AtomicNext
    <3>6. CASE Decide(b)
      BY <3>4, <3>5, <3>6 DEF Decide
    <3> QED BY <2>3, <3>2, <3>3, <3>6
  <2> QED BY <2>1, <2>2, <2>3 DEF Next, Serve, Handle
<1> QED BY <1>1, <1>2, RunnerTypes, PTL DEF Spec, Backend!AtomicSpec
===============================================================================
