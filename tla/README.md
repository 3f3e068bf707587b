# A TLA+ model of verdant-chain-backend

The backend keeps off-chain views of four Soroban contracts (identity,
verification, escrow, financing), signs wallets in, and serves a farmer
directory. This directory holds TLA+ modules for the parts that carry its
correctness, TLC configurations that check them on small instances, and proofs
that TLAPS checks for every instance. Paths such as `src/indexer/store.rs` are
paths in the repository.

## The system

| Component | State | Operations | Interacts with |
|---|---|---|---|
| Indexer service, `src/indexer/service.rs` | none of its own; locals of one `ingest` | `spawn_indexer` (poll every contract, for ever), `ingest` | event source, raw store, projections |
| Raw store, `src/indexer/store.rs` | `indexer.indexed_events`, `indexer.indexer_cursors` | `append_events`, `get_cursor`, `set_cursor`, `finalized_events`, `rewind` | called by `ingest`; `rewind` by an operator |
| Projections, `src/indexer/projections.rs` | `verification_projection`, `escrow_projection`, `financing_projection`, on-chain columns of `farmers` | `apply_event` and thirteen builders | called by `ingest`; read by the routes |
| Event sources, `src/indexer/chain.rs`, `rpc.rs` | the chain (external) | `events_after`, `head_ledger` | called by `ingest` |
| Wallet sign-in, `src/auth`, `src/routes/auth.rs` | `auth_challenges`, `auth_sessions` | `issue_challenge`, `verify`, `session_by_token` | wallets; the `AuthUser` extractor of protected routes |
| Farmers API, `src/farmers`, `src/routes/farmers.rs` | `farmers`; the in-memory `StubChain` | register, update, get, search | sign-in, identity chain, and the identity projection, which writes the same table |
| Read API, `src/routes/projections.rs`, `src/ids.rs` | none | get and list with pagination, identifier normalisation | projection tables |
| Shell, `main.rs`, `lib.rs`, `config.rs`, `state.rs`, `error.rs`, health | configuration | start, restart | all |

What is hard here:

* no operation uses a transaction, so every statement of `ingest`, `rewind`
  and `verify` can be followed by a crash, an error, or another actor;
* `ingest` re-applies all final events on every pass and relies on the
  builders being idempotent;
* the cursor runs ahead of finality, and the two are joined only by the rule
  that a re-org reaches back less far than the cutoff;
* a re-org is repaired by an operator while the loop may be running;
* `verify` checks a challenge on a snapshot and marks it by nonce later;
* a registration is two effects in two systems (chain, then table), and the
  identity projection writes the same table without asking either;
* the chain the API calls lives in memory and is empty after a restart;
* `events_after` reads the chain page by page while the chain moves;
* a list is two statements, and a walk through its pages many requests, over a
  table that replay passes keep rewriting.

What makes each part correct: the cursor never passes an event that is not
stored, and every event is stored in the end; the store agrees with the chain
after a rewind; only final events are projected; a table is what one
application of each final event gives; a session is backed by its wallet's
signature, and a challenge is good for one session; a stored profile is one its
farmer sent, and a farmer once created stays readable; a paged read is as good
as an atomic one; a reader who walks to the last page has passed over nothing.

## Modules

| Module | Models |
|---|---|
| `Cursors` | `Cursor`, `START`, `is_after` (`src/indexer/model.rs`) |
| `Projections` | the builders as operators on rows, `ApplyEvent`, and when `apply_event` fails (`Applicable`) |
| `Indexer` | chain, raw store, cursors, ingesters, operator; one action per await of `ingest` and per statement of `rewind`; safety and liveness properties |
| `IndexerReplay` | the reference result `Replay(S)` (each event of `S` applied once, in order) and the properties that compare the tables with it |
| `EventLog` | abstract: the store as a log that follows the chain, the projections as a reader of the log |
| `IndexerLog` | the refinement mapping from `Indexer` to `EventLog` |
| `MCIndexer` | instances: contracts, what they emit, order of the loop |
| `ProjectionsProofs` | lemmas about the builders: each maps a row to a row of its table, and what each leaves alone |
| `IndexerProofs` | proofs about `Indexer` |
| `IndexerLogProofs` | proof that `Indexer` implements `EventLog`, and what follows for the verification table |
| `IndexerReplayProofs` | proofs that re-application is safe where it is: the properties of `IndexerReplay` |
| `Auth` | challenges, the steps of `verify` in concurrent handlers, sessions, the extractor |
| `MCAuth` | instances and symmetry |
| `AuthProofs` | proofs about `Auth` |
| `EventSource` | abstract: what the trait `ChainEvents` promises of `events_after` |
| `RpcPaging` | the loop over `getEvents` pages of `rpc.rs`, and the mapping to `EventSource` |
| `MCRpcPaging` | instance |
| `RpcPagingProofs` | proof that `RpcPaging` implements `EventSource` |
| `Farmers` | register, update and get in concurrent handlers, `StubChain`, the `farmers` table, next to the identity builders of `Projections` |
| `MCFarmers` | instances |
| `FarmersProofs` | proofs about `Farmers` |
| `ReadApi` | the lists, the search, the gets, and the client that walks through pages, over tables written by the builders of `Projections` |
| `MCReadApi` | instance: all four resources, one per behaviour |
| `ReadApiProofs` | proofs about `ReadApi` |

### Indexer

Each ingester `w` has a stage `pc[w]` and the locals of `ingest`:

| Stage | Action | Code |
|---|---|---|
| idle | `GetCursor` | `store::get_cursor`, START if there is no row |
| pull | `EventsAfter` | `events_after`; an empty result returns at once |
| head | `HeadLedger` | `head_ledger`, `finality_floor = head - TRUSTED_CUTOFF` |
| append | `AppendEvents` | one `INSERT ... ON CONFLICT DO NOTHING` per step, in order |
| set_cursor | `SetCursor` | cursor := position of the last event pulled |
| select | `FinalizedEvents` | stored events of the contract at or below the floor |
| apply | `Apply`, `ApplyFails`, `IngestDone` | one `apply_event` per step; the first error ends the pass |

`IngestError` fails the call a stage is waiting for; `Restart` kills the
process; both lose the locals and keep the database. `RewindEvents` and
`RewindCursor` are the two DELETEs of `rewind`, `RewindFails` is a failure
between them. With `RewindWhileRunning = FALSE` the operator rewinds a contract
only while nobody ingests it; with `TRUE` at any moment. `rewind` has no caller
in the code, so both are asked.

Lists are sets here: events have distinct positions, so `IsFirst` and `IsLast`
recover the order of the lists. `chain`, `head`, `CloseLedger`, `Reorg` and
`Legal` (an object is created once, first, and nothing follows its closing) are
the environment. `fork[c]` is the first ledger that was replaced since contract
`c` was last rewound; `tip`, `applied` and `fork` are history. `CloseLedger`
waits until a replaced ledger has been rewound before that ledger becomes
final: this is the promptness the runbook in `migrations/0005_indexer.sql`
asks of the operator. Deeper re-orgs need a full re-index by the same runbook
and are outside the model. Amounts are over-approximated: the model's contracts
may release more than is held.

Abstractions in `Projections`: columns that are only copied from the creating
event are left out; ledger numbers in a payload are the ledger of the event;
the amount of `FinancingCreated` stands for `drawn_amount`; `MaxBigint` scales
2^63 - 1 down, and an amount above it cannot be decoded, because `i128_json`
renders it as a string. Whether the rest of an event is what its decoder expects
is its `shape`: a `"bad"` one fails `apply_event` (a field or topic is missing or
of another type), an `"odd"` one is stored unseen, as identity markers are, and
is not what the reader of the column expects. A marker is the ledger that set it
and whether it reads as a `FarmerMarkerRow`. An event for which there is no
builder is not decoded at all (`Consumed`).

### Auth

`Receive`, `SelectChallenge`, `Check`, `MarkUsed`, `InsertSession` are the
steps of `verify`; `DatabaseError` fails a statement, `Restart` loses all
handlers and may change the configured domain. Signatures are ideal: a request
carries one some wallet made. The `timestamp` of the signed text comes from the
client and is compared with nothing, so it is left out. The wallet may sign a
text that names another address, which `verify_signature` has to refuse.
Sessions remember, as history, the nonce they came from and the domain served.

### The event log

`EventLog` is the indexer with everything internal removed: `Close` and `Reorg`
are the chain, `Append` stores the next event of a contract, `Project` applies
the next stored event once it is final. `IndexerLog` maps `log` to the stored
events below the first ledger a pending rewind will remove, so that a re-org cuts
the log at once and the later DELETE is a stutter; `applied` is the history of
events projected at least once. `ImplementsLog` says that whatever cursors,
passes and failures do, the database only ever moves like that: no event enters
before an earlier one of its contract, none is projected out of order, before it
is stored or before it is final. It is stated for rewinds that keep out a
running ingest (see `rewind_race`).

### Paging

`EventSource` has `Call`, `Answer` and `Fail`; an answer is the decodable events
strictly after the cursor, in order, as of that moment. If ledgers were replaced
during the call, only the part below the first of them is promised: the operator
rewinds from there, which removes the rest. The cursor of a call is any position,
also one whose event a re-org has removed. `RpcPaging` makes one `getEvents`
per step (`GetEvents`): the first page starts at `max(1, cursor.ledger)`, the
next ones after the last event of the page before; undecodable events and those
not after the cursor are dropped; a page shorter than the limit ends the loop.
`getEvents` itself is external: it returns the first `page_limit` events, in
order, and fewer only if there are no more (`IsPage`). The loop over a page
pushes the elements to be kept in the page's order (`Pushes`, an increasing
sequence of indices). Both are stated, not computed, so that the proofs can
reason about them without a recursion over sequences; each has exactly one
solution in every state. The stub source of the tests
implements `EventSource` in one step.

### Farmers

| Stage | Action | Code |
|---|---|---|
| idle | `Receive` | extractor, identifier, owner, name and hash checks, in the code's order (`Refusal`) |
| chain_register | `ChainRegister` | `chain.register_farmer`; 409 if known |
| insert | `InsertFarmer` | `INSERT INTO farmers`; 500 on the primary key |
| chain_update | `ChainUpdate` | `chain.update_metadata`; 404 if unknown |
| update | `UpdateFarmer` | `UPDATE farmers` |
| read | `ReadFarmer` | `SELECT`; 500 if the profile lacks a name or a marker cannot be decoded (`Decodable`) |

`ApplyNext` and `NextPass` are the replay passes of the identity projection over
the events of the deployed contract, which knows nothing of `StubChain`; they may
be malformed, or carry markers nobody can decode later (`Emits`). The columns
both write are in one row: `ProjectFarmer` applies the builders to the on-chain
columns and keeps the profile. `Interrupt` is a statement that fails or
a handler dropped at its await because the client went away, in both cases with
or without the effect of the statement. `Restart` empties `StubChain`. The hash
of a profile is ideal; blank names, malformed addresses and anonymous callers
are inputs. `Wallets` are the addresses that may have signed in, the farmers
and at least one other, so that requests about somebody else's farmer occur.
`accepted`, `created`, `latest`, `disturbed` and `cut` are history. `disturbed`
holds the farmers whose requests overlapped or were cut short, for which
`LatestStored` and `ReadYourUpdate` promise nothing (two updates may reach chain
and table in opposite orders); `cut` holds only those whose INSERT was cut, the
one exception of `RegisteredIsStored`.

### Read API

`resource` is the table a behaviour is about, chosen at the start. `Begin`,
`SelectRows`, `SelectCount` and `Respond` are a list request; the lists of
projections read rows before they count, `search_farmers` counts first
(`FirstStatement`). `Begin` and `NextPage` are a client that walks through the
pages; it stops at `totalPages` or at the first short page (`StopRule`). The
page of a list is the set of matching rows whose `Rank`, the number of matching
rows that sort before, lies between OFFSET and OFFSET + LIMIT. The lists of
projections sort by a ledger and then by id, a total order. `search_farmers`
sorts by `created_at` alone, which is `now()` and may coincide: the order of
equal rows is chosen anew for every query (`TieBreaks`). The integers of the
arithmetic go up to `MaxI64` and wrap (`Wrap`), as in a release build (a debug
build panics instead). Filters on columns that never change make the table
smaller and are all `"none"`; the others are values of `Filters`. All occur in
the run; the properties are stated for those a row never ceases to match
(`Stable`). The search pattern `q` is left out: it looks into the profile, which
its owner may change at any time, so it is a filter of the other kind. Ids sort
as numbers, which holds up to twelve digits. In `Get` an identifier is a prefix,
a number and the width it is written with; `NormalizeId` is the normalisation
all three handlers share, `CounterId` the rendering of the builders. Response
columns are left out.

## Runs

Deadlock is checked in all of them.

| Run | Checks | Result |
|---|---|---|
| `overlap` | `TypeOK`, `NoGap`, `NoOrphans`, `FinalityGate`, `VerificationsReplaySafe`, `RevocationPermanent`, `ImplementsLog`, `VerificationsExact`; two instances, a re-org, a fault | holds |
| `replay` | `ReplaySafeButReleases`, `ReleasesNotLost`; all four contracts, one instance, a fault, overflow possible | holds |
| `replay_escrow` | `ReplaySafe` for escrow | violated |
| `rewind_race` | `NoGap` with rewind at any moment | violated |
| `progress` | `CursorMonotone`, `EventuallyStored`, `AppliedWhenNewer`; a fault, a re-org, a contract whose amounts and one whose revocations cannot be decoded | holds |
| `backlog` | `BacklogApplied` | violated |
| `auth` | `TypeOK`, `SessionBacked`, `SpentBySigner`, `ActorsSigned`, `SpentAdmitsNobody`; two handlers, two wallets, two domains, a fault | holds |
| `auth_race` | `SingleUse`; two handlers | violated |
| `paging` | `TypeOK`, `ReadsAtomically`; chains of up to six events, two in a page, a re-org between pages | holds |
| `farmers` | `TypeOK`, `OwnProfile`, `LatestStored`, `RegisteredIsStored`, `CreatedReadable`, `CreatedOnce`, `ReadYourUpdate`, `NoInternalError`; two handlers, projection passes with readable and unreadable markers, a fault, a restart | holds |
| `farmers_orphan` | `RegistrationPersisted`; a client that retries, a fault | violated |
| `read_api` | `TypeOK`, `WalkSeesAll`, `TotalCoversPage`, `PromisedPageNonEmpty`, `ExistingIsFound`, `OnlyOverflowRejected`; four tables of up to three rows, rewritten meanwhile | holds |

`VerificationsReplaySafe` and `VerificationsExact` ask different questions of the
verification table, both at every moment, in the middle of any number of
overlapping passes too. The first compares it with the builders themselves, run
once over everything applied. The second says what the table has to show in words
that do not mention the builders (there if created, revoked with the ledger of
the revocation if revoked). The other tables are rebuilt during a pass, so
`ReplaySafeButReleases` looks at them when a pass has reached its end.
`ReleasesNotLost` is what does hold of `released_amount`: whatever the replays add,
it is never below what one application of each event gives. `Sole` restricts these
to contracts whose name no other contract is configured under.

What the violations show:

* **`replay_escrow`**. `release_escrow` adds to `released_amount`, and the
  upsert of the creation keeps it. The second pass over the same events adds
  the release again and turns a half-released escrow `released`. The comment in
  `service.rs` says re-application is safe. Financing is safe because its
  upsert resets what the later events add to, verification because its
  revocation is kept, identity because registration resets the markers.
* **`rewind_race`**. Ingest pulls and appends; the operator's two DELETEs
  remove what it appended and the cursor; ingest writes its cursor. The deleted
  events are now behind the cursor and never pulled again.
* **`backlog`**. An event is pulled before it is final; the contract stays
  quiet; every later `ingest` returns before the projection pass.
  `AppliedWhenNewer` is what does hold.
* **`auth_race`**. Two handlers select the unused challenge before either marks
  it; both create a session. `SpentAdmitsNobody` is what does hold: the window
  closes when the first of them marks the challenge.
* **`farmers_orphan`**. The chain accepts a registration and the INSERT fails or
  its handler is dropped. Every retry ends with 409 at the chain, before the
  INSERT. `RegisteredIsStored` is what does hold: overlapping requests, other
  handlers' failures and the projection do not keep the row away.

Three passing runs show that a document says something else than the code does:

* The re-org runbook of `migrations/0005_indexer.sql` deletes `ledger_sequence >`
  the first divergent ledger and resets the cursor to it; `rewind` deletes
  `>= from_ledger` and the cursor. The code is the one that works: in `overlap`,
  `NoOrphans` holds with its comparison, and the mutant `RewindEvents_After`, which
  has the runbook's, leaves an abandoned event in the store.
* The route of the registration documents 409 for a registered farmer and no 500.
  A farmer the projection met first has a row with the profile `{}`: its
  registration is accepted by the chain, runs into the primary key and is answered
  500. After a restart, which empties `StubChain`, a second registration ends the
  same way. (`NoInternalError` in `farmers` without the condition `created`,
  without the one on `restarts`.)
* The routes of the lists document 500 as an infrastructure failure, and 400 for
  invalid pagination. `(page - 1) * page_size` wraps for pages near the end of
  `i64`; the database rejects the negative OFFSET and the list is answered 500.
  (`OnlyOverflowRejected` in `read_api` without its second case.)

The properties that hold are worded as they are because wider ones do not. Each
of these is a counterexample of TLC, obtained by the change in parentheses; no
document of the repository promises the contrary unless one is named:

* With two instances, financings are not `ReplaySafeButReleases`: one pass resets
  the row between two additions of the other (`Contracts = {cf}`,
  `FirstContract = cf`, no re-org in `overlap.cfg`). Nor is `ReleasesNotLost` true
  of them: a refund copies the held amount into `released_amount`, and if the other
  instance has just reset the held amount, it copies less than was held
  (`Contracts = {ce}`, `FirstContract = ce`, `MaxHead = 4`, no re-org).
* `ReplaySafeButReleases` without `Covers` fails after a re-org that shortens the
  chain: the floor drops with the head, so a later pass covers fewer events than
  were applied, and does not take the rest back (`MaxReorgs = 1` in `replay.cfg`).
* After a failure between `set_cursor` and the end of the pass, nothing triggers
  another pass before the contract emits again. Hence the unread newer event in
  `AppliedWhenNewer`.
* Reading a farmer that only the projection has met is answered 500, since its
  profile `{}` has no name. (`NoInternalError` without `created`.)
* The projection appends the data of a marker event, and stores the markers of a
  registration, as they come. If the contract ever emits anything that is not a
  `FarmerMarkerRow`, the farmer cannot be read (500) from then on, and an update
  is answered 500 although it was carried out. (`CreatedReadable`,
  `NoInternalError` without `OddMarkers`.)
* Two overlapping updates may leave the table with the one the chain accepted
  first. (`LatestStored` without `disturbed`.)
* `list_financings` sorts by `updated_ledger`, so a financing that is updated
  moves to the front, past a reader, and pushes another one back, and a walk may
  show one twice and another never. (`WalkSeesAll` for financings.)
* `search_farmers` counts before it reads, so a client that stops at
  `totalPages` may miss the row a new farmer pushed to the next page.
  (`StopRule` "total_pages" for identity.)
* Two farmers created at the same instant may swap places between two pages of
  `search_farmers`, so a walk may show one twice and the other never, even if
  nothing is written meanwhile. (`WalkSeesAll` without `Tied`.)

One more thing was seen while modelling and has no run: `parse_counter_id` of
`src/ids.rs` rejects a bare counter, which the comment above it (lines 13-15)
says it tolerates. No handler calls it; the handlers have their own
normalisation, which accepts one.

### Bounds

The chain closes 3 or 4 ledgers with a cutoff of 1, one event per contract and
ledger at most, so an event is pulled while un-finalized, becomes final, and is
re-applied in at least two passes; a batch of several events arises when ledgers
close between two polls. One object per contract is enough because builders
touch one row. One fault can strike any step of ingest or fall between the two
statements of a rewind; one re-org can hit ledgers that were pulled, stored, or
both by different instances. `MaxBigint` is 3 or 4 with amounts up to 2, so
additions overflow, and 1 in `progress`, so the larger amount cannot be decoded
at all; there the revocations of the other contract cannot be decoded either, so
its passes fail behind a creation they have to apply.

In `Auth` two handlers give every race of two verifications, and with lifetimes
of 1 in a clock of 0..2 challenges and sessions both live and expire. Handlers,
tokens and nonces are interchangeable, and only those are declared symmetric;
the invariants and the one action property checked with symmetry treat them all
alike. In `RpcPaging` three ledgers of two events and pages of two give calls of
one to four pages, and pages that end within a ledger or with it. In `Farmers`
one address is enough because rows of different addresses never touch (the count
of the stub's ledgers excepted, which no guard reads); two handlers race in
every way, one identity event arrives before, between or after the steps of a
registration and is re-applied in later passes. A second one sets a marker,
readable or not, or is malformed and stops the pass. Handlers, and profiles with
a name, are declared symmetric, which all properties of the run respect.
`farmers_orphan` needs one handler. In `ReadApi` three rows make three pages of
one row and two of two, so a walk has a page in the middle; counters are 1, 2
and 10 with a padding of 1, so one is wider than the padding; `MaxI64` is 3, so
the largest page overflows; `created_at` takes three values, so farmers are all
tied, partly, or not at all.

### Fairness

`FairSpec` of `Indexer` assumes weak fairness of each ingester: `spawn_indexer`
loops for ever, and each await returns or fails. Faults are bounded and not
fair. Ledgers keep closing. The operator completes a rewind he began (weak), and
begins one though the contract is only intermittently idle (strong): he waits
for such a moment. `FairSpec` of `Farmers` assumes weak fairness of each
handler, for the same reason; requests, projection passes, faults and restarts
are not fair. `RetrySpec`, used by `farmers_orphan` alone, adds a client that
sends its registration again and again (strong), the most persistent one there
can be: even it never gets its row. The proofs and the safety runs assume no
fairness.

## Proofs

Every theorem holds for all values of the constants that satisfy the named
assumptions: any number of instances, contracts, handlers, wallets, rows and
pages, any bounds. Each proof module defines an inductive invariant, shows it at
the start, shows one lemma per action that keeps it, and derives the properties.
TLC checked each invariant on the instance of a run before it was proved.

**`IndexerProofs`**

* `TypeCorrect`: `Spec => []TypeOK`.
* `CursorSkipsNothing`, `StoreWithoutOrphans`, `ProjectedStaysOnChain`: `NoGap`,
  `NoOrphans`, `FinalityGate`, if rewind runs only while its contract is not
  being ingested (`~RewindWhileRunning`, without which `rewind_race` refutes the
  first).
* `RevokedForever`: `RevocationPermanent`, with no such condition.
* `CursorNeverMovesBack`: `CursorMonotone` under `~RewindWhileRunning` for a
  single ingester. With two it does not hold: the one that pulled
  first may write last.

The three invariants are not inductive by themselves. `IInv` adds what the code
relies on silently: the chain holds one event per key in ledgers `1..head`
(`ChainInv`); replaced ledgers lie above `tip - Cutoff`, and a contract under
rewind is idle (`ForkInv`); the cursor, and the cursor an ingester read, covers
only events that are stored or still in its batch (`CursorInv`, `Seen`,
`Covered`); what an ingester selected for projection is at or below a floor that
was final when read and stays so (`WorkerInv`). For `CursorMonotone`, `MonoInv`
adds that the cursor an ingester read is still the persisted one, and that its
batch lies after it.

**`IndexerLogProofs`**, both under `~RewindWhileRunning`:

* `IndexerImplementsLog`: `ImplementsLog`. `LInv` adds to `IInv` that the log of a
  contract is a prefix of its chain (`PrefixInv`), and that a pass has applied, or
  still will, whatever comes before an event it holds (`PassInv`). Then an INSERT
  is `Append` or a stutter (the event is there, or a pending rewind will remove
  it), an `apply_event` is `Project` or a stutter (a replay), a re-org cuts the log
  at once, and everything else stutters.
* `VerificationsAreExact`: `VerificationsExact`. The argument needs the order the
  refinement gives (`AppliedInv`: whatever the chain holds before an applied event
  has been applied) and what the contract guarantees (`LegalInv`): when a
  revocation is applied for the first time its row is there, and there is one
  creation and at most one revocation to be applied again.

**`IndexerReplayProofs`**, all under `~RewindWhileRunning`:

* `VerificationsAreReplaySafe`: `VerificationsReplaySafe`, for any number of
  instances.
* `PassesReplaySafe`: `ReplaySafeButReleases`, for a single instance.
* `ReleasesAreNotLost`: `ReleasesNotLost`, for a single instance. The two
  counterexamples above show that two instances break both.

`Replay(S)` is a recursive function over the subsets of a finite set. The
induction theorems of the library cannot be used for it (they take an operator
as a parameter), so the induction is made with the least counterexample: among
the subsets of a finite set that fail, one has no failing proper subset
(`MinimalSubset`, from the well-foundedness of strict inclusion). From it follow
that the recursion has one solution (`ReplayExists`, `ReplaysAgree`) and its
unfolding `ReplayStep`: an event after all others is applied last. The chain is
finite because slots are (`ChainFinite`).

`RInv` adds to the invariant of `IndexerLogProofs`: a pass goes through its events
in the order of the chain without a gap (`OrderInv`), a row exists exactly if the
events applied so far make it (`RowsInv`), a financing that was closed keeps the
status of its closing although every pass upserts it again (`StatusInv`), and a
refund leaves as released what was held when it happened (`RefundInv`). With them
an event applied for the first time extends both sides by the same builder, and
one applied again leaves the compared columns as they are. `SInv` adds, for one
instance, that in the middle of a pass every row whose creation the pass has
reached shows what the events of this pass give, in the columns the creation
resets (`PassRowsInv`): that is where idempotence of the upserts is used, column by
column, and where `released_amount` and `status` of an escrow drop out. `CoversInv`
says that without re-orgs a pass selects whatever was applied before.

**`AuthProofs`**

* `AuthTypeCorrect`, `EverySessionBacked`, `ChallengesSpentBySigner`,
  `ActorsHaveSigned`. The argument: rows keep their address and domain, `used` is
  never cleared, signatures stay made (`StepStable`); so what a handler
  established on its snapshot (`HandlerInv`) still holds when it writes by nonce.
* `SpentChallengeCloses` proves the action property `SpentAdmitsNobody` from the
  types alone, one case per step that changes a handler.

**`FarmersProofs`**: `FarmersTypeCorrect`, `OwnProfileHolds`,
`CreatedReadableHolds`, `LatestStoredHolds`, `RegisteredIsStoredHolds`,
`CreatedOnceHolds`, `ReadYourUpdateHolds`, `NoInternalErrorHolds`. What a
handler is about to write was accepted from the farmer itself (`HandlerInv`). As
long as nothing restarts the stub lets one handler per address reach the INSERT,
and none once a 201 was answered (`OnceInv`); after a restart it is the primary
key that refuses the second. A handler that works alone on an undisturbed farmer
finds in the table what it wrote (`AloneInv`), and between its two effects it is
the only reason why the table is behind the chain (`StoredInv`, `FollowsInv`).
The projection is harmless because its builders keep profile and hash of an
existing row, and markers it makes are readable as long as the contract emitted
no others (`MarkersInv`).

**`ReadApiProofs`**: `ReadApiTypeCorrect`, `WalkSeesAllHolds`,
`TotalCoversPageHolds`, `PromisedPageNonEmptyHolds`, `ExistingIsFoundHolds`,
`OnlyOverflowRejectedHolds`. `WalkInv` is the heart: a row that was there when
the walk began, is not tied with another and was not shown yet has a rank at or
behind the next offset. The rank of such a row is the same under every tie break
(`UntiedRank`), so it does not matter which one each query takes. The invariant
survives writes because an insertion can only raise the rank of another row: the
sort key of a row is the ledger of its creation (`KeyFromCreation`), re-applying
it changes nothing, and a row that matches a stable filter keeps matching it. It
survives a page because the rows shown are those with the ranks skipped next.
`CountCovers` and `CountKept` say that what the first statement of a request saw
is still there at the second. `WalkSeesAll` is stated for `search_farmers` with a
client that stops at a short page, since one that stops at `totalPages` may miss a
row (see Runs).

**`RpcPagingProofs`**: `PagingTypeCorrect`, and `PagingImplementsSource`, the
refinement `ReadsAtomically`. Below the ledgers replaced during the call, what was
decoded is exactly what the chain holds after the argument and up to the page
cursor (`PrefixInv`), in order (`OrderInv`). It survives a ledger that closes
because new events lie behind the page cursor, unless ledgers up to the head were
replaced, and then nothing is promised about them (`CursorInv`). On a short page
the part up to the page cursor is the whole, which is `Answer`; every other page
is a stutter.

Assumptions are those named in the modules, and every run evaluates its own:
amounts are naturals, slots are finitely many and have natural indices; `NoRow`,
`NoCursor`, `NoPage` and `NoReq` are none of the values they stand apart from;
bounds and lifetimes are naturals; the malformed address is not an address
(`Auth`); farmers are wallets and `{}` is not a profile a client can send
(`Farmers`); pages have at least one event (`RpcPaging`); resources have
contracts, counters are `u64`, a table has at most `MaxI64` rows, a list may be
asked for without a filter, and page sizes fit `i64` (`ReadApi`).

Only model-checked: the liveness properties `EventuallyStored` and
`AppliedWhenNewer`, since the prover has no reasoning about fairness. Every safety
property of a passing run, invariant, action property or refinement, is stated by
a theorem.

## Not modelled

* XDR decoding and the JSON of payloads, but for the rendering of amounts and
  whether an event can be decoded; SHA-256 and canonical JSON, taken as an ideal
  hash; ed25519, taken as ideal signatures.
* `uuid7`, `document_id`, `parse_counter_id`, `is_registered` and the `documents`
  table, which no handler uses.
* Response columns, the search pattern, logging. Of the JSON of markers only
  whether it can be decoded.
* Configuration parsing, wiring and route registration, the health route: they
  keep no state.
* Two contracts configured under one name: their row ids would collide, since
  they are made from the counter alone. Every instance has one contract per name,
  as the sample configuration has.
* The overflow panics of a debug build.

## What is left

The parts listed under "The system" are modelled but for the ones above, and the
safety properties are proved. Open questions for later work:

1. What several instances leave in the tables after the last pass, when no pass of
   another one is under way: `ReplaySafeButReleases` under that condition.
2. Two contracts under one name, if the configuration is ever meant to allow it.
