----------------------------- MODULE IndexerLog -----------------------------
(***************************************************************************)
(* The indexer implements EventLog.  The log is what the raw store holds   *)
(* below the first ledger that a pending rewind will remove: a re-org cuts *)
(* it at once, the DELETE of the rewind only makes the table follow.       *)
(***************************************************************************)
EXTENDS Indexer

Log == INSTANCE EventLog
    WITH Ledgers <- 1..MaxHead,
         log <- {e \in indexed_events : Ledger(e) < fork[e.contract_id]}

\* The database is that of an atomic log: whatever instances overlap, awaits
\* fail, processes die or ledgers are replaced and rewound, a contract's
\* events enter the store one after the other without a gap, and are first
\* applied in the same order, none before it is final (the two halves of
\* ingest: append_events then set_cursor, finalized_events then apply_event).
ImplementsLog == Log!Spec
=============================================================================
