---------------------------- MODULE AtomicEpisode ----------------------------
(***************************************************************************)
(* What an episode promises to its clients, whatever its threads do: every *)
(* action id is decided at most once; a decision that moves the episode    *)
(* uses up the state version its request was sent for; at most one request *)
(* is in flight, and nothing else is decided meanwhile; a closed episode   *)
(* never moves again.                                                      *)
(***************************************************************************)
EXTENDS Integers

CONSTANTS Requests, Codes

VARIABLES
  version,   \* the state version
  status,    \* "active", or how the episode ended
  inflight,  \* the reserved request, if any
  decided    \* [request, code, state_version] of every decided action id

avars == <<version, status, inflight, decided>>

AtomicInit ==
  /\ version = 0
  /\ status = "active"
  /\ inflight = {}
  /\ decided = {}

Undecided(r) ==
  \A d \in decided : d.request.client_action_id # r.client_action_id

Decision(r, code, v) == [request |-> r, code |-> code, state_version |-> v]

\* The request is taken up, to be decided later.
Reserve(r) ==
  /\ status = "active"
  /\ inflight = {}
  /\ Undecided(r)
  /\ r.expected_state_version = version
  /\ inflight' = {r}
  /\ UNCHANGED <<version, status, decided>>

\* The episode moves: a request decided on the spot succeeded; one that was
\* in flight moves the episode whether it succeeded or not.
Advance(r, code) ==
  /\ status = "active"
  /\ \/ inflight = {} /\ code = "success"
     \/ inflight = {r}
  /\ Undecided(r)
  /\ r.expected_state_version = version
  /\ version' = version + 1
  /\ status' \in {"active", "terminated", "truncated"}
  /\ decided' = decided \cup {Decision(r, code, version + 1)}
  /\ inflight' = {}

\* An error decides the id and leaves the episode where it is.
Reject(r, code) ==
  /\ inflight = {}
  /\ code # "success"
  /\ Undecided(r)
  /\ r.expected_state_version = version
  /\ decided' = decided \cup {Decision(r, code, version)}
  /\ UNCHANGED <<version, status, inflight>>

AtomicNext ==
  \E r \in Requests :
    \/ Reserve(r)
    \/ \E code \in Codes : Advance(r, code) \/ Reject(r, code)

AtomicSpec == AtomicInit /\ [][AtomicNext]_avars
=============================================================================
