--------------------------- MODULE IndexerReplay ---------------------------
(***************************************************************************)
(* What the projections promise: ingest re-applies every stored final      *)
(* event on each pass and relies on "idempotent upserts" (service.rs), so  *)
(* the tables after a pass must be those a single replay of the same       *)
(* events would build.                                                     *)
(***************************************************************************)
EXTENDS Indexer

Newest(S) == CHOOSE e \in S : IsLast(e, S)

\* The tables after the events of S are applied once each, in order: the
\* newest one to what the others give.
Replay(S) ==
    LET after[T \in SUBSET S] ==
          IF T = {} THEN EmptyTables
          ELSE ApplyEvent(after[T \ {Newest(T)}], Newest(T))
    IN  after[S]

\* The pass of w is at its end: the table of its contract, and what it should
\* be.
AtEnd(w) == pc[w] = "apply" /\ pending[w] = {}
Table(w) == db[ContractName[contract[w]]]
Reference(w) == Replay(finalized[w])[ContractName[contract[w]]]

\* At the end of a pass the table of the contract is exactly what its final
\* events give when each is applied once, however many passes, aborted
\* passes and restarts came before.  (For a single indexer process.)
ReplaySafe == \A w \in Ingesters : AtEnd(w) => Table(w) = Reference(w)

\* A row without what releases add to.
ButReleases(row) ==
    IF row # NoRow /\ "released_amount" \in DOMAIN row
    THEN [c \in DOMAIN row \ {"released_amount", "status"} |-> row[c]]
    ELSE row

\* The pass of w has selected everything applied to its contract before.
Covers(w) == Of(applied, contract[w]) \subseteq finalized[w]

\* The same for everything but the released amount and the status of an
\* escrow, which the upsert of its creation keeps: verifications, financings
\* and farmers entirely, of an escrow the held amount and the ledgers.  A
\* re-org may lower the floor; a pass that covers less than was applied
\* before does not take the rest back.
ReplaySafeButReleases ==
    \A w \in Ingesters :
        AtEnd(w) /\ Sole(contract[w]) /\ (reorgs = 0 \/ Covers(w)) =>
            \A k \in Keys : ButReleases(Table(w)[k]) = ButReleases(Reference(w)[k])

\* Re-application errs on one side only: what an escrow shows as released is
\* never less than its applied events give when each is applied once, at any
\* moment of any pass.  (For a single indexer process.)
ReleasesNotLost ==
    \A c \in Contracts : ContractName[c] = "escrow" /\ Sole(c) =>
        \A k \in Keys :
            LET row == db.escrow[k]
                once == Replay(Of(applied, c)).escrow[k]
            IN  once # NoRow =>
                    row # NoRow /\ row.released_amount >= once.released_amount

\* The verifications are at every moment what the applied events give when
\* each is applied once, although the passes of several instances interleave
\* statement by statement and any of them may have been cut short.
VerificationsReplaySafe ==
    \A c \in Contracts : ContractName[c] = "verification" /\ Sole(c) =>
        db.verification = Replay(Of(applied, c)).verification
=============================================================================
