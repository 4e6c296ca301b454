---------------------------- MODULE MCEpisodeStore ----------------------------
(***************************************************************************)
(* Small instances of EpisodeStore for TLC.                                *)
(***************************************************************************)
EXTENDS EpisodeStoreProperties, TLC

CONSTANTS
  t1, t2,         \* an artifact tool and a metadata-only tool
  v0, v1,         \* views
  c1, c2,         \* contents; c2 is larger than t1 may return
  e1,             \* an evidence id
  a, b, c, d      \* client action ids

MCLimit ==
  [steps |-> 3, tool_calls |-> 2, wall_time_ms |-> 1, input_bytes |-> 2,
   artifact_bytes |-> 2]

MCToolPlan ==
  [t \in {t1, t2} |->
     IF t = t1
     THEN [input_bytes |-> 1, max_output_bytes |-> 1, metadata_only |-> FALSE]
     ELSE [input_bytes |-> 2, max_output_bytes |-> 0, metadata_only |-> TRUE]]

Output(content, input) ==
  [artifact_id |-> content, content |-> content,
   lineage |-> [tool_id |-> t1, input |-> input], uri_matches |-> TRUE]

\* A chip, the same bytes from another input, and what is a metadata result
\* for one tool and an input count beyond the reservation of the other, and a
\* negative input count.
MCToolOutputs ==
  {[input_bytes |-> 1, artifact |-> Output(c1, 1)],
   [input_bytes |-> 1, artifact |-> Output(c1, 2)],
   [input_bytes |-> 2, artifact |-> None],
   [input_bytes |-> -1, artifact |-> None]}

MCCaptureOf == [v \in {v0, v1} |-> IF v = v0 THEN c1 ELSE c2]

MCContentSize == [x \in {c1, c2} |-> IF x = c1 THEN 1 ELSE 2]

Request(id, version, action) ==
  [client_action_id |-> id, expected_state_version |-> version,
   action |-> action]

Tool(t) == [type |-> "tool.invoke", tool_id |-> t]
SetView(v) == [type |-> "map.set_view", view |-> v]
Save(e) == [type |-> "memory.save_evidence", evidence_id |-> e]
Submit(ids) == [type |-> "answer.submit", evidence_ids |-> ids]

\* Tool calls retried, reused with other arguments while in flight and after,
\* and raced by steps sent for the same and for later versions.
StoreRequests ==
  {Request(a, 0, Tool(t1)), Request(a, 0, Tool(t2)),
   Request(b, 0, SetView(v1)), Request(b, 1, Tool(t1)),
   Request(c, 1, Save(e1)), Request(c, 2, Submit({}))}

\* The same view captured twice, another view that the artifact budget cannot
\* hold beside it, evidence cited before it is saved and saved twice.
RenderedRequests ==
  {Request(a, 0, SetView(v0)), Request(b, 1, SetView(v0)),
   Request(b, 1, SetView(v1)), Request(a, 0, Tool(t1)),
   Request(b, 1, Save(e1)), Request(c, 2, Save(e1)),
   Request(c, 0, [type |-> "inadmissible"]),
   Request(d, 1, Submit({})), Request(d, 2, Submit({e1})),
   Request(d, 2, [type |-> "answer.abstain", evidence_ids |-> {}])}

\* Two tools' bytes whose URI does or does not name their checksum.
RenderedToolOutputs ==
  {[input_bytes |-> 1, artifact |-> Output(c1, 1)],
   [input_bytes |-> 1, artifact |-> [Output(c1, 1) EXCEPT !.uri_matches = FALSE]]}

\* Two tool calls and a step for the version between them.
LivenessRequests ==
  {Request(a, 0, Tool(t1)), Request(b, 1, Tool(t1)),
   Request(c, 1, Save(e1))}

\* One output fits its reservation, the other is too large.
LivenessToolOutputs ==
  {[input_bytes |-> 1, artifact |-> Output(c1, 1)],
   [input_bytes |-> 0, artifact |-> Output(c2, 1)]}

WorkerSymmetry == Permutations(Workers)
=============================================================================
