------------------------------- MODULE Cursors -------------------------------
(***************************************************************************)
(* Positions in a contract's event stream (src/indexer/model.rs).  A       *)
(* position is the triple by which events are ordered; the persisted       *)
(* cursor is the position of the last event pulled.                        *)
(***************************************************************************)
EXTENDS Integers

Position ==
    [ledger_sequence : Int, operation_index : Int, event_index : Int]

\* Cursor::START, the position before every event (ledger 0 never exists).
START ==
    [ledger_sequence |-> 0, operation_index |-> -1, event_index |-> -1]

\* Cursor::is_after, the strict lexicographic order.
IsAfter(p, q) ==
    \/ p.ledger_sequence > q.ledger_sequence
    \/ /\ p.ledger_sequence = q.ledger_sequence
       /\ \/ p.operation_index > q.operation_index
          \/ /\ p.operation_index = q.operation_index
             /\ p.event_index > q.event_index
==============================================================================
