---- MODULE MCAgentRunner ----
(***************************************************************************)
(* One runner and its successors, one slot of the gateway.  Up to three    *)
(* calls in all, so that one response can carry three, or one run can be   *)
(* followed by two; two faults, so that a death can meet a late answer.    *)
(***************************************************************************)
EXTENDS AgentRunner
====
