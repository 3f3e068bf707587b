---------------------------- MODULE Projections ----------------------------
(***************************************************************************)
(* The projection builders of src/indexer/projections.rs: what applying    *)
(* one stored event does to the four derived tables.                       *)
(*                                                                         *)
(* A table maps every row id to its row or to NoRow.  Row ids are the      *)
(* on-chain counters (verification, escrow, financing) or the farmer's     *)
(* address (identity); both are drawn from Keys.  Of each row the columns  *)
(* kept are those that a later event can change, and those derived from    *)
(* the ledger; the descriptive columns (subject, issuer, depositor, ...)   *)
(* are copied from the creating event and are left out.                    *)
(*                                                                         *)
(* Every statement is one UPDATE or one INSERT ... ON CONFLICT, hence      *)
(* atomic.  An UPDATE whose WHERE clause matches no row changes nothing    *)
(* and succeeds.                                                           *)
(***************************************************************************)
EXTENDS Cursors, Sequences

CONSTANTS
    Contracts,      \* configured contract ids
    ContractName,   \* contract_id -> the name it is configured under
    Keys,           \* row ids
    Amounts,        \* i128 amounts the contracts emit
    MaxBigint,      \* largest BIGINT (2^63 - 1, scaled down)
    NULL,           \* SQL NULL
    NoRow           \* absence of a row

Names == {"verification", "escrow", "financing", "identity"}

ASSUME ContractNameAssumption == ContractName \in [Contracts -> Names]
ASSUME AmountsAssumption == Amounts \subseteq Nat
ASSUME MaxBigintAssumption == MaxBigint \in Nat

EventNames ==
    { "VerificationCreated", "VerificationRevoked",
      "EscrowCreated", "EscrowDeposited", "EscrowReleased", "EscrowRefunded",
      "FinancingCreated", "FinancingDeposited", "FinancingReleased",
      "FinancingRefunded",
      "FarmerRegistered", "FarmerMetadataUpdated", "VerificationMarkerSet",
      "Unknown" }

\* How the data and the topics of an event fit what the code expects: "good",
\* "bad" if its decoder or identity_topics finds a field missing or of another
\* type, "odd" if the markers in it are stored as they come but are no
\* FarmerMarkerRow.
Shapes == {"good", "odd", "bad"}

\* The payload of an event.  Fields an event does not carry are ignored by
\* its builder; the ledgers in a payload are the ledger of the event itself.
Body ==
    [event_name : EventNames, key : Keys, amount : Amounts, defaulted : BOOLEAN,
     shape : Shapes]

Event == [contract_id : Contracts, at : Position, body : Body]

Ledger(e) == e.at.ledger_sequence

-----------------------------------------------------------------------------
(* Rows.                                                                   *)

VerificationRow ==
    [contract_id : Contracts, issued_ledger : Int,
     revoked : BOOLEAN, revoked_ledger : Int \cup {NULL}]

EscrowRow ==
    [contract_id : Contracts, amount : Int, released_amount : Int,
     created_ledger : Int, updated_ledger : Int,
     status : {"open", "released", "refunded"}]

FinancingRow ==
    [contract_id : Contracts, drawn_amount : Int,
     drawn_ledger : Int \cup {NULL},
     defaulted : BOOLEAN, defaulted_ledger : Int \cup {NULL},
     updated_ledger : Int \cup {NULL},
     status : {"active", "refunded", "defaulted"}]

\* A marker: the ledger that set it, and whether it reads as a FarmerMarkerRow.
Marker == [ledger : Int, readable : BOOLEAN]

FarmerRow ==
    [registered : BOOLEAN, created_ledger : Int, updated_ledger : Int,
     verification_markers : Seq(Marker)]

ASSUME NoRowAssumption ==
    NoRow \notin VerificationRow \cup EscrowRow \cup FinancingRow \cup FarmerRow

\* The derived tables, one per contract name.
Tables ==
    [verification : [Keys -> VerificationRow \cup {NoRow}],
     escrow       : [Keys -> EscrowRow \cup {NoRow}],
     financing    : [Keys -> FinancingRow \cup {NoRow}],
     identity     : [Keys -> FarmerRow \cup {NoRow}]]

EmptyTable == [k \in Keys |-> NoRow]

EmptyTables ==
    [verification |-> EmptyTable, escrow |-> EmptyTable,
     financing |-> EmptyTable, identity |-> EmptyTable]

-----------------------------------------------------------------------------
(* Verification.                                                           *)

\* Mutant of UpsertVerification: on conflict every column is taken over.
UpsertVerification_Overwrite(row, e) ==
    [contract_id |-> e.contract_id, issued_ledger |-> Ledger(e),
     revoked |-> FALSE, revoked_ledger |-> NULL]

\* Mutant of UpsertVerification: on conflict revoked_ledger is taken over.
UpsertVerification_ResetLedger(row, e) ==
    IF row = NoRow
    THEN [contract_id |-> e.contract_id, issued_ledger |-> Ledger(e),
          revoked |-> FALSE, revoked_ledger |-> NULL]
    ELSE [row EXCEPT !.contract_id = e.contract_id,
                     !.issued_ledger = Ledger(e), !.revoked_ledger = NULL]

\* On conflict every column of the INSERT is taken over except revoked and
\* revoked_ledger.
UpsertVerification(row, e) ==
    IF row = NoRow
    THEN [contract_id |-> e.contract_id, issued_ledger |-> Ledger(e),
          revoked |-> FALSE, revoked_ledger |-> NULL]
    ELSE [row EXCEPT !.contract_id = e.contract_id,
                     !.issued_ledger = Ledger(e)]

\* Mutant of RevokeVerification: the ledger of the revocation is not stored.
RevokeVerification_NoLedger(row, e) ==
    IF row = NoRow THEN NoRow ELSE [row EXCEPT !.revoked = TRUE]

RevokeVerification(row, e) ==
    IF row = NoRow THEN NoRow
    ELSE [row EXCEPT !.revoked = TRUE, !.revoked_ledger = Ledger(e)]

-----------------------------------------------------------------------------
(* Escrow.                                                                 *)

\* Mutant of UpsertEscrow: on conflict the amount is kept as well.
UpsertEscrow_KeepAmount(row, e) ==
    IF row = NoRow
    THEN [contract_id |-> e.contract_id,
          amount |-> e.body.amount, released_amount |-> 0,
          created_ledger |-> Ledger(e), updated_ledger |-> Ledger(e),
          status |-> "open"]
    ELSE [row EXCEPT !.created_ledger = Ledger(e), !.updated_ledger = Ledger(e)]

\* On conflict released_amount and status keep what earlier passes left.
UpsertEscrow(row, e) ==
    IF row = NoRow
    THEN [contract_id |-> e.contract_id,
          amount |-> e.body.amount, released_amount |-> 0,
          created_ledger |-> Ledger(e), updated_ledger |-> Ledger(e),
          status |-> "open"]
    ELSE [row EXCEPT !.contract_id = e.contract_id,
                     !.amount = e.body.amount,
                     !.created_ledger = Ledger(e),
                     !.updated_ledger = Ledger(e)]

AddEscrowDeposit(row, e) ==
    IF row = NoRow THEN NoRow
    ELSE [row EXCEPT !.amount = @ + e.body.amount,
                     !.updated_ledger = Ledger(e)]

ReleaseEscrow(row, e) ==
    IF row = NoRow THEN NoRow
    ELSE [row EXCEPT !.released_amount = @ + e.body.amount,
                     !.updated_ledger = Ledger(e),
                     !.status = IF row.released_amount + e.body.amount >= row.amount
                                THEN "released" ELSE "open"]

RefundEscrow(row, e) ==
    IF row = NoRow THEN NoRow
    ELSE [row EXCEPT !.status = "refunded",
                     !.released_amount = row.amount,
                     !.updated_ledger = Ledger(e)]

-----------------------------------------------------------------------------
(* Financing.  The amount of a FinancingCreated is what is drawn at once;  *)
(* total_amount and repaid_amount are written by it alone and left out.    *)

DefaultedLedger(e) == IF e.body.defaulted THEN Ledger(e) ELSE NULL

DrawnLedger(e) == IF e.body.amount = 0 THEN NULL ELSE Ledger(e)

\* On conflict the drawn and the default columns are taken over from the
\* event; status keeps what earlier passes left.  updated_ledger is set from
\* drawn_ledger.
UpsertFinancing(row, e) ==
    [contract_id |-> e.contract_id,
     drawn_amount |-> e.body.amount,
     drawn_ledger |-> DrawnLedger(e),
     defaulted |-> e.body.defaulted,
     defaulted_ledger |-> DefaultedLedger(e),
     updated_ledger |-> DrawnLedger(e),
     status |-> IF row # NoRow THEN row.status
                ELSE IF e.body.defaulted THEN "defaulted" ELSE "active"]

AddFinancingDeposit(row, e) ==
    IF row = NoRow THEN NoRow
    ELSE [row EXCEPT !.drawn_amount = @ + e.body.amount,
                     !.updated_ledger = Ledger(e)]

ReleaseFinancing(row, e) ==
    IF row = NoRow THEN NoRow
    ELSE [row EXCEPT !.drawn_amount = @ + e.body.amount,
                     !.drawn_ledger = Ledger(e),
                     !.updated_ledger = Ledger(e)]

\* defaulted_ledger is COALESCEd (present in the event only on default) and
\* drawn_amount does not go below zero.
RefundFinancing(row, e) ==
    IF row = NoRow THEN NoRow
    ELSE [row EXCEPT !.status = IF e.body.defaulted THEN "defaulted"
                                                   ELSE "refunded",
                     !.defaulted = e.body.defaulted,
                     !.defaulted_ledger = IF DefaultedLedger(e) # NULL
                                          THEN DefaultedLedger(e) ELSE @,
                     !.drawn_amount = IF @ > e.body.amount
                                      THEN @ - e.body.amount ELSE 0]

-----------------------------------------------------------------------------
(* Identity: the on-chain columns of the farmers table.                    *)

MarkerOf(e) == [ledger |-> Ledger(e), readable |-> e.body.shape # "odd"]

\* A registration (re)sets the markers to those in the event: none yet, or
\* something that is no list of markers.
UpsertIdentityFarmer(row, e) ==
    [registered |-> TRUE,
     created_ledger |-> Ledger(e), updated_ledger |-> Ledger(e),
     verification_markers |-> IF e.body.shape = "odd" THEN <<MarkerOf(e)>> ELSE <<>>]

UpdateIdentityMetadata(row, e) ==
    IF row = NoRow THEN NoRow
    ELSE [row EXCEPT !.updated_ledger = Ledger(e)]

\* Mutant of AppendIdentityMarker: the whole event is appended.
AppendIdentityMarker_Event(row, e) ==
    IF row = NoRow THEN NoRow
    ELSE [row EXCEPT !.verification_markers =
             Append(@, [ledger |-> Ledger(e), readable |-> FALSE])]

\* The data of the event is appended as it is, nothing decodes it.
AppendIdentityMarker(row, e) ==
    IF row = NoRow THEN NoRow
    ELSE [row EXCEPT !.verification_markers = Append(@, MarkerOf(e))]

-----------------------------------------------------------------------------
(* apply_event.                                                            *)

Put(db, table, k, row) == [db EXCEPT ![table] = [@ EXCEPT ![k] = row]]

AmountEvents ==
    { "EscrowCreated", "EscrowDeposited", "EscrowReleased",
      "FinancingCreated", "FinancingDeposited", "FinancingReleased",
      "FinancingRefunded" }

\* i128_json: the RPC source renders an i128 as a JSON number only if it fits
\* an i64, otherwise as a string.
IsNumber(amount) == amount =< MaxBigint

\* The decoders, and identity_topics, fail on a field that is missing or of
\* another type; they read amounts with get_i64, which rejects a string.
Decodes(e) ==
    /\ e.body.shape # "bad"
    /\ e.body.event_name \in AmountEvents => IsNumber(e.body.amount)

\* BIGINT addition raises an error when it overflows.
Overflows(db, e) ==
    LET escrow == db.escrow[e.body.key]
        financing == db.financing[e.body.key]
    IN  \/ /\ e.body.event_name = "EscrowDeposited"
           /\ escrow # NoRow
           /\ escrow.amount + e.body.amount > MaxBigint
        \/ /\ e.body.event_name = "EscrowReleased"
           /\ escrow # NoRow
           /\ escrow.released_amount + e.body.amount > MaxBigint
        \/ /\ e.body.event_name \in {"FinancingDeposited", "FinancingReleased"}
           /\ financing # NoRow
           /\ financing.drawn_amount + e.body.amount > MaxBigint

EventNamesOf ==
    [verification |-> {"VerificationCreated", "VerificationRevoked"},
     escrow |-> {"EscrowCreated", "EscrowDeposited", "EscrowReleased",
                 "EscrowRefunded"},
     financing |-> {"FinancingCreated", "FinancingDeposited",
                    "FinancingReleased", "FinancingRefunded"},
     identity |-> {"FarmerRegistered", "FarmerMetadataUpdated",
                   "VerificationMarkerSet"}]

\* There is a builder for the pair of contract name and event name.
Consumed(e) == e.body.event_name \in EventNamesOf[ContractName[e.contract_id]]

\* When this is false apply_event returns an error, even if every statement
\* succeeds; an event no builder consumes is not looked at.
Applicable(db, e) == Consumed(e) => Decodes(e) /\ ~Overflows(db, e)

\* The tables after apply_event returned Ok; OTHER is where nothing consumes
\* the event.
ApplyEvent(db, e) ==
    LET name == ContractName[e.contract_id]
        k == e.body.key
        row == db[name][k]
        Is(n, ev) == name = n /\ e.body.event_name = ev
    IN  CASE Is("verification", "VerificationCreated") ->
                 Put(db, "verification", k, UpsertVerification(row, e))
          [] Is("verification", "VerificationRevoked") ->
                 Put(db, "verification", k, RevokeVerification(row, e))
          [] Is("escrow", "EscrowCreated") ->
                 Put(db, "escrow", k, UpsertEscrow(row, e))
          [] Is("escrow", "EscrowDeposited") ->
                 Put(db, "escrow", k, AddEscrowDeposit(row, e))
          [] Is("escrow", "EscrowReleased") ->
                 Put(db, "escrow", k, ReleaseEscrow(row, e))
          [] Is("escrow", "EscrowRefunded") ->
                 Put(db, "escrow", k, RefundEscrow(row, e))
          [] Is("identity", "FarmerRegistered") ->
                 Put(db, "identity", k, UpsertIdentityFarmer(row, e))
          [] Is("identity", "FarmerMetadataUpdated") ->
                 Put(db, "identity", k, UpdateIdentityMetadata(row, e))
          [] Is("identity", "VerificationMarkerSet") ->
                 Put(db, "identity", k, AppendIdentityMarker(row, e))
          [] Is("financing", "FinancingCreated") ->
                 Put(db, "financing", k, UpsertFinancing(row, e))
          [] Is("financing", "FinancingDeposited") ->
                 Put(db, "financing", k, AddFinancingDeposit(row, e))
          [] Is("financing", "FinancingReleased") ->
                 Put(db, "financing", k, ReleaseFinancing(row, e))
          [] Is("financing", "FinancingRefunded") ->
                 Put(db, "financing", k, RefundFinancing(row, e))
          [] OTHER -> db
=============================================================================
