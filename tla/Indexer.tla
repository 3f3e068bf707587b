------------------------------ MODULE Indexer ------------------------------
(***************************************************************************)
(* The event indexer: the polling loop and ingest (src/indexer/service.rs) *)
(* over the raw event store (src/indexer/store.rs), the projections        *)
(* (module Projections) and an event source (src/indexer/chain.rs, rpc.rs).*)
(*                                                                         *)
(* Every SQL statement and every call to the source is one atomic step;    *)
(* between two of them other ingesters, the chain, the operator who runs   *)
(* the re-org rewind, and crashes may act.  Ingesters is the set of        *)
(* indexer processes that share the database: one in normal operation,     *)
(* two while one instance replaces another.                                *)
(*                                                                         *)
(* The chain publishes events ledger by ledger.  A re-org replaces at most *)
(* the Cutoff newest ledgers.  Nothing in the code detects it: an operator *)
(* calls rewind for each contract (the runbook of                          *)
(* migrations/0005_indexer.sql) before the divergent ledger would become   *)
(* final.                                                                  *)
(***************************************************************************)
EXTENDS Projections, FiniteSets

CONSTANTS
    Ingesters,          \* indexer processes
    Emits,              \* contract_id -> the bodies its events may carry
    Slots,              \* places for an event within a ledger
    Quiet,              \* a slot that stays empty
    FirstContract,      \* first element of contract_ids
    NextContract,       \* the element after, the first one after the last
    Cutoff,             \* TRUSTED_CUTOFF
    RewindWhileRunning, \* may rewind run while the contract is being ingested?
    NoCursor,           \* no row in indexer_cursors
    MaxHead,            \* bound: last ledger that closes
    MaxFaults,          \* bound: failed awaits and crashes
    MaxReorgs           \* bound: re-orgs

ASSUME EmitsAssumption == Emits \in [Contracts -> SUBSET Body]
ASSUME SlotsAssumption ==
    /\ Slots \subseteq [operation_index : Nat, event_index : Nat]
    /\ IsFiniteSet(Slots)
ASSUME ScheduleAssumption ==
    /\ FirstContract \in Contracts
    /\ NextContract \in [Contracts -> Contracts]
ASSUME CutoffAssumption == Cutoff \in Nat
ASSUME RewindAssumption == RewindWhileRunning \in BOOLEAN
ASSUME NoCursorAssumption == NoCursor \notin Position
ASSUME BoundsAssumption ==
    MaxHead \in Nat /\ MaxFaults \in Nat /\ MaxReorgs \in Nat

VARIABLES
    chain,            \* the events on the chain (set of Event)
    head,             \* newest closed ledger
    tip,              \* largest head so far
    indexed_events,   \* table indexer.indexed_events (set of Event)
    indexer_cursors,  \* table indexer.indexer_cursors
    db,               \* the projection tables
    pc,               \* where each ingester is in ingest
    contract,         \* the contract it ingests, or will ingest next
    cursor,           \* local: cursor
    events,           \* local: events, as a set
    unsaved,          \* those of events not yet appended
    floor,            \* local: finality_floor
    finalized,        \* local: finalized, as a set
    pending,          \* those of finalized not yet applied
    fork,             \* per contract: first ledger not rewound since a re-org
    rewinding,        \* per contract: from_ledger of a rewind under way
    applied,          \* history: events applied to the projections
    faults,           \* number of faults so far
    reorgs            \* number of re-orgs so far

chainVars == <<chain, head, tip, reorgs>>
storeVars == <<indexed_events, indexer_cursors>>
projVars == <<db, applied>>
localVars == <<pc, contract, cursor, events, unsaved, floor, finalized, pending>>
rewindVars == <<fork, rewinding>>

vars == <<chainVars, storeVars, projVars, localVars, rewindVars, faults>>

\* No ledger that ever closes lies at or after NoFork.
NoFork == MaxHead + 1

Stages == {"idle", "pull", "head", "append", "set_cursor", "select", "apply"}

TypeOK ==
    /\ chain \subseteq Event
    /\ head \in 0..MaxHead
    /\ tip \in 0..MaxHead
    /\ indexed_events \subseteq Event
    /\ indexer_cursors \in [Contracts -> Position \cup {NoCursor}]
    /\ db \in Tables
    /\ pc \in [Ingesters -> Stages]
    /\ contract \in [Ingesters -> Contracts]
    /\ cursor \in [Ingesters -> Position]
    /\ events \in [Ingesters -> SUBSET Event]
    /\ unsaved \in [Ingesters -> SUBSET Event]
    /\ floor \in [Ingesters -> Int]
    /\ finalized \in [Ingesters -> SUBSET Event]
    /\ pending \in [Ingesters -> SUBSET Event]
    /\ fork \in [Contracts -> 0..NoFork]
    /\ rewinding \in [Contracts -> 0..NoFork]
    /\ applied \subseteq Event
    /\ faults \in 0..MaxFaults
    /\ reorgs \in 0..MaxReorgs

Init ==
    /\ chain = {}
    /\ head = 0
    /\ tip = 0
    /\ indexed_events = {}
    /\ indexer_cursors = [c \in Contracts |-> NoCursor]
    /\ db = EmptyTables
    /\ pc = [w \in Ingesters |-> "idle"]
    /\ contract = [w \in Ingesters |-> FirstContract]
    /\ cursor = [w \in Ingesters |-> START]
    /\ events = [w \in Ingesters |-> {}]
    /\ unsaved = [w \in Ingesters |-> {}]
    /\ floor = [w \in Ingesters |-> 0]
    /\ finalized = [w \in Ingesters |-> {}]
    /\ pending = [w \in Ingesters |-> {}]
    /\ fork = [c \in Contracts |-> NoFork]
    /\ rewinding = [c \in Contracts |-> NoFork]
    /\ applied = {}
    /\ faults = 0
    /\ reorgs = 0

-----------------------------------------------------------------------------
(* Events and their order.                                                 *)

Of(S, c) == {e \in S : e.contract_id = c}

\* The natural key (contract_id, ledger_sequence, operation_index, event_index).
SameKey(e, f) == e.contract_id = f.contract_id /\ e.at = f.at

\* The element of S at the front of ORDER BY position.
IsFirst(e, S) == e \in S /\ \A f \in S \ {e} : ~IsAfter(e.at, f.at)

\* The element of S at the back.
IsLast(e, S) == e \in S /\ \A f \in S \ {e} : ~IsAfter(f.at, e.at)

-----------------------------------------------------------------------------
(* The chain.                                                              *)

Creations ==
    {"VerificationCreated", "EscrowCreated", "FinancingCreated", "FarmerRegistered"}

Closings == {"VerificationRevoked", "EscrowRefunded", "FinancingRefunded"}

\* What the contracts guarantee of their own events: an object is created
\* once, before anything else happens to it, and nothing follows its closing.
Legal(e, S) ==
    LET before == {f \in S : /\ f.contract_id = e.contract_id
                             /\ f.body.key = e.body.key
                             /\ IsAfter(e.at, f.at)}
    IN  IF e.body.event_name \in Creations
        THEN before = {}
        ELSE /\ \E f \in before : f.body.event_name \in Creations
             /\ \A f \in before : f.body.event_name \notin Closings

Emissions == UNION {{c} \X Emits[c] : c \in Contracts}

EventAt(l, s, x) ==
    [contract_id |-> x[1],
     at |-> [ledger_sequence |-> l,
             operation_index |-> s.operation_index,
             event_index |-> s.event_index],
     body |-> x[2]]

\* A ledger closes with an event or none in each of its slots.  The last
\* conjunct of the guard is the promptness of the operator.
CloseLedger ==
    /\ head < MaxHead
    /\ \A c \in Contracts : head + 1 - Cutoff < fork[c]
    /\ \E f \in [Slots -> Emissions \cup {Quiet}] :
         LET new == {EventAt(head + 1, s, f[s]) : s \in {t \in Slots : f[t] # Quiet}}
         IN  /\ \A e \in new : Legal(e, chain \cup new)
             /\ chain' = chain \cup new
    /\ head' = head + 1
    /\ tip' = IF head + 1 > tip THEN head + 1 ELSE tip
    /\ UNCHANGED <<reorgs, storeVars, projVars, localVars, rewindVars, faults>>

\* Ledgers from l on are replaced: their events are gone, and other ledgers
\* with the same numbers will close.
Reorg(l) ==
    /\ reorgs < MaxReorgs
    /\ l \in 1..head
    /\ l > tip - Cutoff
    /\ chain' = {e \in chain : Ledger(e) < l}
    /\ head' = l - 1
    /\ fork' = [c \in Contracts |-> IF l < fork[c] THEN l ELSE fork[c]]
    /\ reorgs' = reorgs + 1
    /\ UNCHANGED <<tip, storeVars, projVars, localVars, rewinding, faults>>

-----------------------------------------------------------------------------
(* The polling loop.                                                       *)

\* ingest returned, Ok or Err: its locals are gone.  The loop of
\* spawn_indexer goes on with the next contract either way.
Return(w, next) ==
    /\ pc' = [pc EXCEPT ![w] = "idle"]
    /\ contract' = [contract EXCEPT ![w] = next]
    /\ cursor' = [cursor EXCEPT ![w] = START]
    /\ events' = [events EXCEPT ![w] = {}]
    /\ unsaved' = [unsaved EXCEPT ![w] = {}]
    /\ floor' = [floor EXCEPT ![w] = 0]
    /\ finalized' = [finalized EXCEPT ![w] = {}]
    /\ pending' = [pending EXCEPT ![w] = {}]

\* Mutant of GetCursor: no row is not turned into START.
GetCursor_NoDefault(w) ==
    /\ pc[w] = "idle"
    /\ RewindWhileRunning \/ rewinding[contract[w]] = NoFork
    /\ cursor' = [cursor EXCEPT ![w] = indexer_cursors[contract[w]]]
    /\ pc' = [pc EXCEPT ![w] = "pull"]
    /\ UNCHANGED <<contract, events, unsaved, floor, finalized, pending>>
    /\ UNCHANGED <<chainVars, storeVars, projVars, rewindVars, faults>>

\* store::get_cursor.
GetCursor(w) ==
    /\ pc[w] = "idle"
    /\ RewindWhileRunning \/ rewinding[contract[w]] = NoFork
    /\ cursor' = [cursor EXCEPT ![w] =
           LET row == indexer_cursors[contract[w]]
           IN  IF row = NoCursor THEN START ELSE row]
    /\ pc' = [pc EXCEPT ![w] = "pull"]
    /\ UNCHANGED <<contract, events, unsaved, floor, finalized, pending>>
    /\ UNCHANGED <<chainVars, storeVars, projVars, rewindVars, faults>>

\* Mutant of EventsAfterCursor: no is_after filter.
EventsAfterCursor_All(c, cur) == Of(chain, c)

EventsAfterCursor(c, cur) == {e \in Of(chain, c) : IsAfter(e.at, cur)}

\* source.events_after, and the early return when it is empty.
EventsAfter(w) ==
    /\ pc[w] = "pull"
    /\ LET new == EventsAfterCursor(contract[w], cursor[w])
       IN  \/ /\ new = {}
              /\ Return(w, NextContract[contract[w]])
           \/ /\ new # {}
              /\ events' = [events EXCEPT ![w] = new]
              /\ unsaved' = [unsaved EXCEPT ![w] = new]
              /\ pc' = [pc EXCEPT ![w] = "head"]
              /\ UNCHANGED <<contract, cursor, floor, finalized, pending>>
    /\ UNCHANGED <<chainVars, storeVars, projVars, rewindVars, faults>>

\* Mutant of HeadLedger: no cutoff.
HeadLedger_NoCutoff(w) ==
    /\ pc[w] = "head"
    /\ floor' = [floor EXCEPT ![w] = head]
    /\ pc' = [pc EXCEPT ![w] = "append"]
    /\ UNCHANGED <<contract, cursor, events, unsaved, finalized, pending>>
    /\ UNCHANGED <<chainVars, storeVars, projVars, rewindVars, faults>>

\* source.head_ledger.
HeadLedger(w) ==
    /\ pc[w] = "head"
    /\ floor' = [floor EXCEPT ![w] = head - Cutoff]
    /\ pc' = [pc EXCEPT ![w] = "append"]
    /\ UNCHANGED <<contract, cursor, events, unsaved, finalized, pending>>
    /\ UNCHANGED <<chainVars, storeVars, projVars, rewindVars, faults>>

\* INSERT ... ON CONFLICT DO NOTHING of one row.
InsertEvent(e) ==
    indexed_events' = IF \E f \in indexed_events : SameKey(e, f)
                      THEN indexed_events
                      ELSE indexed_events \cup {e}

\* One iteration of store::append_events; the last one returns.
AppendEvents(w) ==
    /\ pc[w] = "append"
    /\ \E e \in unsaved[w] :
         /\ IsFirst(e, unsaved[w])
         /\ InsertEvent(e)
         /\ unsaved' = [unsaved EXCEPT ![w] = @ \ {e}]
         /\ pc' = [pc EXCEPT ![w] = IF unsaved[w] = {e} THEN "set_cursor" ELSE @]
    /\ UNCHANGED <<contract, cursor, events, floor, finalized, pending>>
    /\ UNCHANGED <<indexer_cursors, chainVars, projVars, rewindVars, faults>>

\* store::set_cursor, to the last event pulled.
SetCursor(w) ==
    /\ pc[w] = "set_cursor"
    /\ \E e \in events[w] :
         /\ IsLast(e, events[w])
         /\ indexer_cursors' = [indexer_cursors EXCEPT ![contract[w]] = e.at]
    /\ pc' = [pc EXCEPT ![w] = "select"]
    /\ UNCHANGED <<contract, cursor, events, unsaved, floor, finalized, pending>>
    /\ UNCHANGED <<indexed_events, chainVars, projVars, rewindVars, faults>>

\* store::finalized_events.
FinalizedEvents(w) ==
    /\ pc[w] = "select"
    /\ LET rows == {e \in Of(indexed_events, contract[w]) : Ledger(e) =< floor[w]}
       IN  /\ finalized' = [finalized EXCEPT ![w] = rows]
           /\ pending' = [pending EXCEPT ![w] = rows]
    /\ pc' = [pc EXCEPT ![w] = "apply"]
    /\ UNCHANGED <<contract, cursor, events, unsaved, floor>>
    /\ UNCHANGED <<chainVars, storeVars, projVars, rewindVars, faults>>

\* Mutant of Apply: finalized_events without ORDER BY.
Apply_AnyOrder(w) ==
    /\ pc[w] = "apply"
    /\ \E e \in pending[w] :
         /\ Applicable(db, e)
         /\ db' = ApplyEvent(db, e)
         /\ applied' = applied \cup {e}
         /\ pending' = [pending EXCEPT ![w] = @ \ {e}]
    /\ UNCHANGED <<pc, contract, cursor, events, unsaved, floor, finalized>>
    /\ UNCHANGED <<chainVars, storeVars, rewindVars, faults>>

\* One iteration of the loop over finalized: apply_event succeeds.
Apply(w) ==
    /\ pc[w] = "apply"
    /\ \E e \in pending[w] :
         /\ IsFirst(e, pending[w])
         /\ Applicable(db, e)
         /\ db' = ApplyEvent(db, e)
         /\ applied' = applied \cup {e}
         /\ pending' = [pending EXCEPT ![w] = @ \ {e}]
    /\ UNCHANGED <<pc, contract, cursor, events, unsaved, floor, finalized>>
    /\ UNCHANGED <<chainVars, storeVars, rewindVars, faults>>

\* Mutant of ApplyFails: the event is tried again for ever.
ApplyFails_RetryForever(w) ==
    /\ pc[w] = "apply"
    /\ \E e \in pending[w] : IsFirst(e, pending[w]) /\ ~Applicable(db, e)
    /\ UNCHANGED vars

\* apply_event returns an error, which ingest propagates.
ApplyFails(w) ==
    /\ pc[w] = "apply"
    /\ \E e \in pending[w] : IsFirst(e, pending[w]) /\ ~Applicable(db, e)
    /\ Return(w, NextContract[contract[w]])
    /\ UNCHANGED <<chainVars, storeVars, projVars, rewindVars, faults>>

\* ingest returns Ok(events.len()).
IngestDone(w) ==
    /\ pc[w] = "apply"
    /\ pending[w] = {}
    /\ Return(w, NextContract[contract[w]])
    /\ UNCHANGED <<chainVars, storeVars, projVars, rewindVars, faults>>

\* The database or the RPC endpoint fails a call: ingest returns the error.
IngestError(w) ==
    /\ faults < MaxFaults
    /\ pc[w] # "idle"
    /\ Return(w, NextContract[contract[w]])
    /\ faults' = faults + 1
    /\ UNCHANGED <<chainVars, storeVars, projVars, rewindVars>>

\* The process dies and is started again.
Restart(w) ==
    /\ faults < MaxFaults
    /\ Return(w, FirstContract)
    /\ faults' = faults + 1
    /\ UNCHANGED <<chainVars, storeVars, projVars, rewindVars>>

-----------------------------------------------------------------------------
(* store::rewind, two statements without a transaction.                    *)

Busy(c) == \E w \in Ingesters : contract[w] = c /\ pc[w] # "idle"

\* Mutant of RewindEvents: ledger_sequence > from_ledger.
RewindEvents_After(c) ==
    /\ fork[c] # NoFork
    /\ rewinding[c] = NoFork
    /\ RewindWhileRunning \/ ~Busy(c)
    /\ indexed_events' =
         {e \in indexed_events : ~(e.contract_id = c /\ Ledger(e) > fork[c])}
    /\ rewinding' = [rewinding EXCEPT ![c] = fork[c]]
    /\ UNCHANGED <<indexer_cursors, chainVars, projVars, localVars, fork, faults>>

\* DELETE FROM indexed_events ... ledger_sequence >= from_ledger.
RewindEvents(c) ==
    /\ fork[c] # NoFork
    /\ rewinding[c] = NoFork
    /\ RewindWhileRunning \/ ~Busy(c)
    /\ indexed_events' =
         {e \in indexed_events : ~(e.contract_id = c /\ Ledger(e) >= fork[c])}
    /\ rewinding' = [rewinding EXCEPT ![c] = fork[c]]
    /\ UNCHANGED <<indexer_cursors, chainVars, projVars, localVars, fork, faults>>

\* Mutant of RewindCursor: the cursor row stays.
RewindCursor_Keep(c) ==
    /\ rewinding[c] # NoFork
    /\ fork' = [fork EXCEPT ![c] = IF @ < rewinding[c] THEN @ ELSE NoFork]
    /\ rewinding' = [rewinding EXCEPT ![c] = NoFork]
    /\ UNCHANGED <<storeVars, chainVars, projVars, localVars, faults>>

\* DELETE FROM indexer_cursors.
RewindCursor(c) ==
    /\ rewinding[c] # NoFork
    /\ indexer_cursors' = [indexer_cursors EXCEPT ![c] = NoCursor]
    /\ fork' = [fork EXCEPT ![c] = IF @ < rewinding[c] THEN @ ELSE NoFork]
    /\ rewinding' = [rewinding EXCEPT ![c] = NoFork]
    /\ UNCHANGED <<indexed_events, chainVars, projVars, localVars, faults>>

\* The second statement fails: rewind returns the error and is called again.
RewindFails(c) ==
    /\ faults < MaxFaults
    /\ rewinding[c] # NoFork
    /\ rewinding' = [rewinding EXCEPT ![c] = NoFork]
    /\ faults' = faults + 1
    /\ UNCHANGED <<chainVars, storeVars, projVars, localVars, fork>>

-----------------------------------------------------------------------------

\* The steps an ingester takes by itself.
Ingest(w) ==
    \/ GetCursor(w)
    \/ EventsAfter(w)
    \/ HeadLedger(w)
    \/ AppendEvents(w)
    \/ SetCursor(w)
    \/ FinalizedEvents(w)
    \/ Apply(w)
    \/ ApplyFails(w)
    \/ IngestDone(w)

Next ==
    \/ CloseLedger
    \/ \E l \in 1..MaxHead : Reorg(l)
    \/ \E w \in Ingesters : Ingest(w) \/ IngestError(w) \/ Restart(w)
    \/ \E c \in Contracts : RewindEvents(c) \/ RewindCursor(c) \/ RewindFails(c)

Spec == Init /\ [][Next]_vars

\* The loop of spawn_indexer never stops, each await of ingest completes or
\* fails, ledgers keep closing, and the operator rewinds in the end (he waits
\* for a moment when the contract is not being ingested, hence SF).
FairSpec ==
    /\ Spec
    /\ WF_vars(CloseLedger)
    /\ \A w \in Ingesters : WF_vars(Ingest(w))
    /\ \A c \in Contracts : SF_vars(RewindEvents(c)) /\ WF_vars(RewindCursor(c))

-----------------------------------------------------------------------------
(* Properties.                                                             *)

\* The cursor never skips an event: whatever the chain holds at or before a
\* persisted cursor is in indexed_events, so resuming strictly after the
\* cursor (events_after) loses nothing, although rows are appended one
\* statement at a time, ingest may fail or be killed between any two, and
\* several instances may interleave.  Ledgers from a pending re-org on are
\* excepted until the rewind of the contract has completed.
NoGap ==
    \A e \in chain :
        LET cur == indexer_cursors[e.contract_id]
        IN  (/\ cur # NoCursor
             /\ ~IsAfter(e.at, cur)
             /\ Ledger(e) < fork[e.contract_id])
            => e \in indexed_events

\* The raw store, "source of truth" of the projections, holds no event of an
\* abandoned ledger once the rewind of its contract has completed, although
\* ON CONFLICT DO NOTHING keeps the older row of two with the same key.
NoOrphans ==
    \A e \in indexed_events : Ledger(e) < fork[e.contract_id] => e \in chain

\* Projection writes happen only for ledgers at or before head - cutoff, so
\* no re-org of at most Cutoff ledgers ever takes an applied event off the
\* chain, whichever head the floor was computed from.
FinalityGate ==
    \A e \in applied : Ledger(e) =< tip - Cutoff /\ e \in chain

\* The cursor of a contract is monotonic: it only moves to a later position,
\* except that rewind removes it.  (For a single indexer process.)
CursorMonotone ==
    [][\A c \in Contracts :
         \/ indexer_cursors'[c] = indexer_cursors[c]
         \/ indexer_cursors[c] = NoCursor
         \/ indexer_cursors'[c] = NoCursor /\ rewinding[c] # NoFork
         \/ IsAfter(indexer_cursors'[c], indexer_cursors[c])]_vars

\* A revocation is permanent: re-applying the VerificationCreated that came
\* before it never makes a revoked verification valid again, not even in
\* between, where the read API would show it.
RevocationPermanent ==
    [][\A k \in Keys :
         LET row == db.verification[k]
             new == db'.verification[k]
         IN  row # NoRow /\ row.revoked => new # NoRow /\ new.revoked]_vars

\* No other contract is configured under the name of c: the ids of rows are
\* made from the counter alone.
Sole(c) == \A d \in Contracts : ContractName[d] = ContractName[c] => d = c

AppliedTo(c, k, name) ==
    {e \in Of(applied, c) : e.body.key = k /\ e.body.event_name = name}

\* At every moment, in the middle of a pass too, a verification shows exactly
\* what has been applied to it: it is there if its VerificationCreated was
\* applied, and is revoked, with the ledger of the revocation, if its
\* VerificationRevoked was, although every pass of every instance writes the
\* creation again after the revocation.
VerificationsExact ==
    \A c \in Contracts, k \in Keys :
        ContractName[c] = "verification" /\ Sole(c) =>
            LET row == db.verification[k]
                created == AppliedTo(c, k, "VerificationCreated")
                revoked == AppliedTo(c, k, "VerificationRevoked")
            IN  /\ row = NoRow <=> created = {}
                /\ row # NoRow =>
                     /\ row.contract_id = c
                     /\ \A e \in created : row.issued_ledger = Ledger(e)
                     /\ row.revoked <=> revoked # {}
                     /\ revoked = {} => row.revoked_ledger = NULL
                     /\ \A e \in revoked : row.revoked_ledger = Ledger(e)

\* Every event that contract c can ever emit.
EventsOf(c) ==
    {EventAt(l, s, <<c, b>>) : l \in 1..MaxHead, s \in Slots, b \in Emits[c]}

At(S, c, l) == {e \in Of(S, c) : Ledger(e) = l}

\* Every event is eventually in the raw store, unless a re-org takes it off
\* the chain: no early return, failed call, crash, rewind or undecodable
\* payload makes the polling loop pass it over for good.
EventuallyStored ==
    \A c \in Contracts, l \in 1..MaxHead :
        At(chain, c, l) # {} ~> At(chain, c, l) \subseteq indexed_events

\* apply_event never returns an error for e, whatever the tables hold: it
\* decodes, and adds to no column that could overflow.
NeverRejected(e) ==
    Consumed(e) =>
        /\ Decodes(e)
        /\ e.body.event_name \notin {"EscrowDeposited", "EscrowReleased",
                                    "FinancingDeposited", "FinancingReleased"}

\* An event is projected once its contract emits another one at least Cutoff
\* ledgers later, even if the passes of other contracts, and its own pass
\* further on, always fail on an event they cannot apply.  It takes that no
\* event up to it can be rejected, since a pass stops at the first one that
\* is, and that the newer event is still unread when the last failure and
\* re-org are over: one stored by a pass that died triggers no other pass.
AppliedWhenNewer ==
    \A c \in Contracts, l \in 1..MaxHead :
        (/\ faults = MaxFaults /\ reorgs = MaxReorgs
         /\ At(chain, c, l) # {}
         /\ \A e \in Of(chain, c) : Ledger(e) =< l => NeverRejected(e)
         /\ \E f \in Of(chain, c) \ indexed_events : Ledger(f) >= l + Cutoff)
            ~> At(chain, c, l) \subseteq applied

\* Every stored event is applied once it is at or below the finality floor
\* (the comment on ingest in service.rs).
BacklogApplied ==
    \A c \in Contracts : \A e \in EventsOf(c) :
        (e \in indexed_events /\ Ledger(e) =< head - Cutoff) ~> e \in applied
=============================================================================
