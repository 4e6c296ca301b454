-------------------------------- MODULE Traces --------------------------------
(***************************************************************************)
(* Reading the trace of a V2 episode (core/store.py): pages behind a       *)
(* cursor, and the structural checks of a replay. An event is a record     *)
(* with its sequence number, id and state version; a cursor is the last    *)
(* sequence number read, None at first.                                    *)
(***************************************************************************)
EXTENDS Integers, Sequences, SequencesExt, FiniteSets

CONSTANT None

\* _parse_cursor: None for a cursor that is refused.
ParsedCursor(cursor) ==
  IF cursor = None THEN -1 ELSE IF cursor < -1 THEN None ELSE cursor

Selected(events, after) == SelectSeq(events, LAMBDA e : e.sequence > after)

\* get_trace: one page, and where the next begins.
Page(events, cursor, limit) ==
  LET selected == Selected(events, ParsedCursor(cursor))
      page == SubSeq(selected, 1, IF limit < Len(selected) THEN limit ELSE Len(selected))
      has_more == Len(selected) > limit
  IN [events |-> page, has_more |-> has_more, total |-> Len(events),
      next_cursor |-> IF has_more /\ page # <<>> THEN Last(page).sequence ELSE None]

(***************************************************************************)
(* structural_replay: rows come by their sequence column, the checks read  *)
(* the event itself.                                                       *)
(***************************************************************************)
Contiguous(events) == \A i \in DOMAIN events : events[i].sequence = i - 1

IdsUnique(events) == IsInjective([i \in DOMAIN events |-> events[i].id])

VersionsMonotonic(events) ==
  \A i, j \in DOMAIN events : i < j => events[i].version =< events[j].version

StructuralReplay(events, manifest) ==
  /\ Contiguous(events)
  /\ IdsUnique(events)
  /\ VersionsMonotonic(events)
  /\ events[1].manifest = manifest
===============================================================================
