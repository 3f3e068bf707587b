-------------------------- MODULE ProjectionsProofs --------------------------
(***************************************************************************)
(* Lemmas about the builders of Projections, shared by the proofs of the   *)
(* modules that write the tables.                                          *)
(***************************************************************************)
EXTENDS Projections, TLAPS

\* Writing a well-typed row into a table gives well-typed tables.
LEMMA PutType ==
    ASSUME NEW d \in Tables, NEW k \in Keys, NEW row
    PROVE  /\ row \in VerificationRow \cup {NoRow}
              => Put(d, "verification", k, row) \in Tables
           /\ row \in EscrowRow \cup {NoRow}
              => Put(d, "escrow", k, row) \in Tables
           /\ row \in FinancingRow \cup {NoRow}
              => Put(d, "financing", k, row) \in Tables
           /\ row \in FarmerRow \cup {NoRow}
              => Put(d, "identity", k, row) \in Tables
  BY DEF Put, Tables

\* The types of the fields of an event that the builders use.
LEMMA EventFields ==
    ASSUME NEW e \in Event
    PROVE  /\ e.contract_id \in Contracts
           /\ e.at \in Position
           /\ Ledger(e) \in Int
           /\ e.body.key \in Keys
           /\ e.body.amount \in Int
           /\ e.body.defaulted \in BOOLEAN
  <1>1. e.contract_id \in Contracts /\ e.at \in Position /\ e.body \in Body
    BY DEF Event
  <1>2. e.at.ledger_sequence \in Int
    BY <1>1 DEF Position
  <1>3. e.body.key \in Keys /\ e.body.amount \in Amounts
    BY <1>1 DEF Body
  <1>4. e.body.defaulted \in BOOLEAN
    BY <1>1, Zenon DEF Body
  <1>5. e.body.amount \in Int
    <2>1. Amounts \subseteq Nat
      BY AmountsAssumption DEF AmountsAssumption
    <2>2. e.body.amount \in Nat
      BY <1>3, <2>1
    <2>3. QED
      BY <2>2
  <1>6. QED
    BY <1>1, <1>2, <1>3, <1>4, <1>5 DEF Ledger

\* Each builder of projections.rs turns a row into a row of the same table.
LEMMA VerificationTypes ==
    ASSUME NEW e \in Event, NEW row \in VerificationRow \cup {NoRow}
    PROVE  /\ UpsertVerification(row, e) \in VerificationRow \cup {NoRow}
           /\ RevokeVerification(row, e) \in VerificationRow \cup {NoRow}
  BY EventFields
  DEF UpsertVerification, RevokeVerification, VerificationRow

\* The escrow builders.
LEMMA EscrowTypes ==
    ASSUME NEW e \in Event, NEW row \in EscrowRow \cup {NoRow}
    PROVE  /\ UpsertEscrow(row, e) \in EscrowRow \cup {NoRow}
           /\ AddEscrowDeposit(row, e) \in EscrowRow \cup {NoRow}
           /\ ReleaseEscrow(row, e) \in EscrowRow \cup {NoRow}
           /\ RefundEscrow(row, e) \in EscrowRow \cup {NoRow}
           /\ UpsertEscrow(row, e) \in EscrowRow
           /\ row # NoRow => /\ AddEscrowDeposit(row, e) \in EscrowRow
                             /\ ReleaseEscrow(row, e) \in EscrowRow
                             /\ RefundEscrow(row, e) \in EscrowRow
  <1>1. e.contract_id \in Contracts /\ Ledger(e) \in Int /\ e.body.amount \in Int
    BY EventFields
  <1>2. CASE row = NoRow
    BY <1>1, <1>2
    DEF UpsertEscrow, AddEscrowDeposit, ReleaseEscrow, RefundEscrow, EscrowRow
  <1>3. CASE row # NoRow
    <2>1. row \in EscrowRow
      BY <1>3
    <2>2. row.amount \in Int /\ row.released_amount \in Int
      BY <2>1 DEF EscrowRow
    <2>3. /\ row.amount + e.body.amount \in Int
          /\ row.released_amount + e.body.amount \in Int
      BY <1>1, <2>2
    <2>4. UpsertEscrow(row, e) \in EscrowRow
      BY <1>1, <1>3, <2>1 DEF UpsertEscrow, EscrowRow
    <2>5. AddEscrowDeposit(row, e) \in EscrowRow
      BY <1>1, <1>3, <2>1, <2>3 DEF AddEscrowDeposit, EscrowRow
    <2>6. ReleaseEscrow(row, e) \in EscrowRow
      BY <1>1, <1>3, <2>1, <2>3 DEF ReleaseEscrow, EscrowRow
    <2>7. RefundEscrow(row, e) \in EscrowRow
      BY <1>1, <1>3, <2>1, <2>2 DEF RefundEscrow, EscrowRow
    <2>8. QED
      BY <2>4, <2>5, <2>6, <2>7
  <1>4. QED
    BY <1>2, <1>3

\* The financing builders.
LEMMA FinancingTypes ==
    ASSUME NEW e \in Event, NEW row \in FinancingRow \cup {NoRow}
    PROVE  /\ UpsertFinancing(row, e) \in FinancingRow \cup {NoRow}
           /\ AddFinancingDeposit(row, e) \in FinancingRow \cup {NoRow}
           /\ ReleaseFinancing(row, e) \in FinancingRow \cup {NoRow}
           /\ RefundFinancing(row, e) \in FinancingRow \cup {NoRow}
           /\ UpsertFinancing(row, e) \in FinancingRow
           /\ row # NoRow => /\ AddFinancingDeposit(row, e) \in FinancingRow
                             /\ ReleaseFinancing(row, e) \in FinancingRow
                             /\ RefundFinancing(row, e) \in FinancingRow
  <1>1. e.contract_id \in Contracts /\ Ledger(e) \in Int /\ e.body.amount \in Int
    BY EventFields
  <1>2. e.body.defaulted \in BOOLEAN
    BY EventFields
  <1>3. DrawnLedger(e) \in Int \cup {NULL} /\ DefaultedLedger(e) \in Int \cup {NULL}
    BY <1>1 DEF DrawnLedger, DefaultedLedger
  <1>4. UpsertFinancing(row, e) \in FinancingRow
    BY <1>1, <1>2, <1>3 DEF UpsertFinancing, FinancingRow
  <1>5. CASE row = NoRow
    BY <1>4, <1>5 DEF AddFinancingDeposit, ReleaseFinancing, RefundFinancing
  <1>6. CASE row # NoRow
    <2>1. row \in FinancingRow
      BY <1>6
    <2>2. row.drawn_amount \in Int
      BY <2>1 DEF FinancingRow
    <2>3. /\ row.drawn_amount + e.body.amount \in Int
          /\ (IF row.drawn_amount > e.body.amount
              THEN row.drawn_amount - e.body.amount ELSE 0) \in Int
      BY <1>1, <2>2
    <2>4. AddFinancingDeposit(row, e) \in FinancingRow
      BY <1>1, <1>6, <2>1, <2>3 DEF AddFinancingDeposit, FinancingRow
    <2>5. ReleaseFinancing(row, e) \in FinancingRow
      BY <1>1, <1>6, <2>1, <2>3 DEF ReleaseFinancing, FinancingRow
    <2>6. RefundFinancing(row, e) \in FinancingRow
      BY <1>2, <1>3, <1>6, <2>1, <2>3 DEF RefundFinancing, FinancingRow
    <2>7. QED
      BY <1>4, <2>4, <2>5, <2>6
  <1>7. QED
    BY <1>5, <1>6

\* The marker an event carries, and the markers a registration leaves.
LEMMA MarkerTypes ==
    ASSUME NEW e \in Event
    PROVE  /\ MarkerOf(e) \in Marker
           /\ (IF e.body.shape = "odd" THEN <<MarkerOf(e)>> ELSE <<>>) \in Seq(Marker)
  <1>1. Ledger(e) \in Int
    BY EventFields
  <1>2. MarkerOf(e) \in Marker
    BY <1>1 DEF MarkerOf, Marker
  <1>3. <<MarkerOf(e)>> \in Seq(Marker) /\ <<>> \in Seq(Marker)
    BY <1>2
  <1>4. QED
    BY <1>2, <1>3

\* The identity builders.
LEMMA IdentityTypes ==
    ASSUME NEW e \in Event, NEW row \in FarmerRow \cup {NoRow}
    PROVE  /\ UpsertIdentityFarmer(row, e) \in FarmerRow \cup {NoRow}
           /\ UpdateIdentityMetadata(row, e) \in FarmerRow \cup {NoRow}
           /\ AppendIdentityMarker(row, e) \in FarmerRow \cup {NoRow}
  <1>1. Ledger(e) \in Int
    BY EventFields
  <1>2. UpsertIdentityFarmer(row, e) \in FarmerRow
    BY <1>1, MarkerTypes DEF UpsertIdentityFarmer, FarmerRow
  <1>3. CASE row = NoRow
    BY <1>2, <1>3 DEF UpdateIdentityMetadata, AppendIdentityMarker
  <1>4. CASE row # NoRow
    <2>1. row \in FarmerRow
      BY <1>4
    <2>2. row.verification_markers \in Seq(Marker)
      BY <2>1 DEF FarmerRow
    <2>3. Append(row.verification_markers, MarkerOf(e)) \in Seq(Marker)
      BY <2>2, MarkerTypes
    <2>4. UpdateIdentityMetadata(row, e) \in FarmerRow
      BY <1>1, <1>4, <2>1 DEF UpdateIdentityMetadata, FarmerRow
    <2>5. AppendIdentityMarker(row, e) \in FarmerRow
      BY <1>4, <2>1, <2>3 DEF AppendIdentityMarker, FarmerRow
    <2>6. QED
      BY <1>2, <2>4, <2>5
  <1>5. QED
    BY <1>3, <1>4

\* apply_event keeps the tables well typed, whatever contract it is of.
LEMMA ApplyEventType ==
    ASSUME NEW d \in Tables, NEW e \in Event
    PROVE  ApplyEvent(d, e) \in Tables
  <1> DEFINE name == ContractName[e.contract_id]
             k == e.body.key
  <1>1. e.contract_id \in Contracts /\ k \in Keys /\ name \in Names
    BY EventFields, ContractNameAssumption DEF ContractNameAssumption
  <1>2. /\ d.verification[k] \in VerificationRow \cup {NoRow}
        /\ d.escrow[k] \in EscrowRow \cup {NoRow}
        /\ d.financing[k] \in FinancingRow \cup {NoRow}
        /\ d.identity[k] \in FarmerRow \cup {NoRow}
    BY <1>1 DEF Tables
  <1>3. CASE name = "verification"
    <2>1. /\ Put(d, "verification", k, UpsertVerification(d.verification[k], e)) \in Tables
          /\ Put(d, "verification", k, RevokeVerification(d.verification[k], e)) \in Tables
      BY <1>1, <1>2, VerificationTypes, PutType
    <2>2. QED
      BY <1>3, <2>1 DEF ApplyEvent
  <1>4. CASE name = "escrow"
    <2>1. /\ Put(d, "escrow", k, UpsertEscrow(d.escrow[k], e)) \in Tables
          /\ Put(d, "escrow", k, AddEscrowDeposit(d.escrow[k], e)) \in Tables
          /\ Put(d, "escrow", k, ReleaseEscrow(d.escrow[k], e)) \in Tables
          /\ Put(d, "escrow", k, RefundEscrow(d.escrow[k], e)) \in Tables
      BY <1>1, <1>2, EscrowTypes, PutType
    <2>2. QED
      BY <1>4, <2>1 DEF ApplyEvent
  <1>5. CASE name = "financing"
    <2>1. /\ Put(d, "financing", k, UpsertFinancing(d.financing[k], e)) \in Tables
          /\ Put(d, "financing", k, AddFinancingDeposit(d.financing[k], e)) \in Tables
          /\ Put(d, "financing", k, ReleaseFinancing(d.financing[k], e)) \in Tables
          /\ Put(d, "financing", k, RefundFinancing(d.financing[k], e)) \in Tables
      BY <1>1, <1>2, FinancingTypes, PutType
    <2>2. QED
      BY <1>5, <2>1 DEF ApplyEvent
  <1>6. CASE name = "identity"
    <2>1. /\ Put(d, "identity", k, UpsertIdentityFarmer(d.identity[k], e)) \in Tables
          /\ Put(d, "identity", k, UpdateIdentityMetadata(d.identity[k], e)) \in Tables
          /\ Put(d, "identity", k, AppendIdentityMarker(d.identity[k], e)) \in Tables
      BY <1>1, <1>2, IdentityTypes, PutType
    <2>2. QED
      BY <1>6, <2>1 DEF ApplyEvent
  <1>7. QED
    BY <1>1, <1>3, <1>4, <1>5, <1>6 DEF Names

\* The builders delete no row: what apply_event makes of an existing row of
\* the identity table is a row.
LEMMA IdentityRowStays ==
    ASSUME NEW d \in Tables, NEW e \in Event,
           ContractName[e.contract_id] = "identity",
           d.identity[e.body.key] # NoRow
    PROVE  ApplyEvent(d, e).identity[e.body.key] \in FarmerRow
  <1> DEFINE k == e.body.key
             row == d.identity[k]
  <1>1. k \in Keys /\ row \in FarmerRow
    BY EventFields DEF Tables
  <1>2. /\ UpsertIdentityFarmer(row, e) \in FarmerRow
        /\ UpdateIdentityMetadata(row, e) \in FarmerRow
        /\ AppendIdentityMarker(row, e) \in FarmerRow
    <2>1. Ledger(e) \in Int
      BY EventFields
    <2>2. row.verification_markers \in Seq(Marker)
      BY <1>1 DEF FarmerRow
    <2>3. Append(row.verification_markers, MarkerOf(e)) \in Seq(Marker)
      BY <2>2, MarkerTypes
    <2>4. UpsertIdentityFarmer(row, e) \in FarmerRow
      BY <2>1, MarkerTypes DEF UpsertIdentityFarmer, FarmerRow
    <2>5. UpdateIdentityMetadata(row, e) \in FarmerRow
      BY <1>1, <2>1 DEF UpdateIdentityMetadata, FarmerRow
    <2>6. AppendIdentityMarker(row, e) \in FarmerRow
      BY <1>1, <2>3 DEF AppendIdentityMarker, FarmerRow
    <2> QED
      BY <2>4, <2>5, <2>6
  <1>3. ASSUME NEW new \in FarmerRow
        PROVE  Put(d, "identity", k, new).identity[k] = new
    BY <1>1 DEF Put, Tables
  <1> QED
    BY <1>1, <1>2, <1>3 DEF ApplyEvent

\* What a table holds after a row was put into it.
LEMMA PutRow ==
    ASSUME NEW d \in Tables, NEW n \in Names, NEW k \in Keys, NEW row, NEW j \in Keys
    PROVE  Put(d, n, k, row)[n][j] = IF j = k THEN row ELSE d[n][j]
  <1>1. CASE n = "verification"
    BY <1>1 DEF Put, Tables
  <1>2. CASE n = "escrow"
    BY <1>2 DEF Put, Tables
  <1>3. CASE n = "financing"
    BY <1>3 DEF Put, Tables
  <1>4. CASE n = "identity"
    BY <1>4 DEF Put, Tables
  <1> QED
    BY <1>1, <1>2, <1>3, <1>4 DEF Names

\* apply_event writes the row its event is about and no other of the table.
LEMMA OtherRowsStay ==
    ASSUME NEW d \in Tables, NEW e \in Event, NEW j \in Keys, j # e.body.key
    PROVE  LET n == ContractName[e.contract_id]
           IN  ApplyEvent(d, e)[n][j] = d[n][j]
  <1> DEFINE n == ContractName[e.contract_id]
             k == e.body.key
  <1>1. k \in Keys /\ n \in Names
    BY EventFields, ContractNameAssumption DEF ContractNameAssumption
  <1>2. \/ ApplyEvent(d, e) = d
        \/ \E row : ApplyEvent(d, e) = Put(d, n, k, row)
    BY <1>1, Zenon DEF ApplyEvent
  <1> QED
    BY <1>1, <1>2, PutRow

\* apply_event on a verification: rows stay, a revocation is never undone, and
\* only VerificationCreated makes a row or writes issued_ledger.
LEMMA VerificationApplied ==
    ASSUME NEW d \in Tables, NEW e \in Event,
           ContractName[e.contract_id] = "verification"
    PROVE  LET row == d.verification[e.body.key]
               new == ApplyEvent(d, e).verification[e.body.key]
               written == /\ e.body.event_name = "VerificationCreated"
                          /\ new.issued_ledger = Ledger(e)
           IN  /\ row # NoRow =>
                    /\ new # NoRow
                    /\ row.revoked => new.revoked
                    /\ new.issued_ledger = row.issued_ledger \/ written
               /\ row = NoRow /\ new # NoRow => written
  <1> DEFINE k == e.body.key
             row == d.verification[k]
             new == ApplyEvent(d, e).verification[k]
             up == UpsertVerification(row, e)
             revoked == RevokeVerification(row, e)
  <1>1. k \in Keys /\ row \in VerificationRow \cup {NoRow}
    BY EventFields DEF Tables
  <1>2. NoRow \notin VerificationRow
    BY NoRowAssumption DEF NoRowAssumption
  <1>3. /\ up \in VerificationRow
        /\ up.issued_ledger = Ledger(e)
        /\ row # NoRow => up.revoked = row.revoked
    BY <1>1, EventFields DEF UpsertVerification, VerificationRow
  <1>4. /\ row # NoRow => /\ revoked \in VerificationRow
                          /\ revoked.issued_ledger = row.issued_ledger
                          /\ revoked.revoked = TRUE
        /\ row = NoRow => revoked = NoRow
    BY <1>1, EventFields DEF RevokeVerification, VerificationRow
  <1>5. /\ Put(d, "verification", k, up).verification[k] = up
        /\ Put(d, "verification", k, revoked).verification[k] = revoked
    BY <1>1, PutRow DEF Names
  <1>6. CASE e.body.event_name = "VerificationCreated"
    <2>1. new = up
      BY <1>5, <1>6 DEF ApplyEvent
    <2> HIDE DEF new, up
    <2> QED  BY <1>2, <1>3, <1>6, <2>1 DEF new
  <1>7. CASE e.body.event_name = "VerificationRevoked"
    <2>1. new = revoked
      BY <1>5, <1>7 DEF ApplyEvent
    <2> HIDE DEF new, revoked
    <2> QED  BY <1>2, <1>4, <2>1 DEF new
  <1>8. CASE e.body.event_name \notin {"VerificationCreated", "VerificationRevoked"}
    <2>1. new = row
      BY <1>8 DEF ApplyEvent
    <2> HIDE DEF new
    <2> QED  BY <2>1 DEF new
  <1> QED
    BY <1>6, <1>7, <1>8

\* apply_event on an escrow: rows stay, and only EscrowCreated makes a row or
\* writes created_ledger.
LEMMA EscrowApplied ==
    ASSUME NEW d \in Tables, NEW e \in Event,
           ContractName[e.contract_id] = "escrow"
    PROVE  LET row == d.escrow[e.body.key]
               new == ApplyEvent(d, e).escrow[e.body.key]
               written == /\ e.body.event_name = "EscrowCreated"
                          /\ new.created_ledger = Ledger(e)
           IN  /\ row # NoRow =>
                    /\ new # NoRow
                    /\ new.created_ledger = row.created_ledger \/ written
               /\ row = NoRow /\ new # NoRow => written
  <1> DEFINE k == e.body.key
             row == d.escrow[k]
             new == ApplyEvent(d, e).escrow[k]
             up == UpsertEscrow(row, e)
             add == AddEscrowDeposit(row, e)
             rel == ReleaseEscrow(row, e)
             ref == RefundEscrow(row, e)
  <1>1. k \in Keys /\ row \in EscrowRow \cup {NoRow}
    BY EventFields DEF Tables
  <1>2. NoRow \notin EscrowRow
    BY NoRowAssumption DEF NoRowAssumption
  <1>3. up \in EscrowRow /\ up.created_ledger = Ledger(e)
    <2>1. up.created_ledger = Ledger(e)
      BY <1>1 DEF UpsertEscrow, EscrowRow
    <2> QED  BY <1>1, <2>1, EscrowTypes
  <1>4. row = NoRow => add = NoRow /\ rel = NoRow /\ ref = NoRow
    BY DEF AddEscrowDeposit, ReleaseEscrow, RefundEscrow
  <1>5. row # NoRow => add \in EscrowRow /\ add.created_ledger = row.created_ledger
    <2>1. row # NoRow => add.created_ledger = row.created_ledger
      BY <1>1 DEF AddEscrowDeposit, EscrowRow
    <2> QED  BY <1>1, <2>1, EscrowTypes
  <1>6. row # NoRow => rel \in EscrowRow /\ rel.created_ledger = row.created_ledger
    <2>1. row # NoRow => rel.created_ledger = row.created_ledger
      BY <1>1 DEF ReleaseEscrow, EscrowRow
    <2> QED  BY <1>1, <2>1, EscrowTypes
  <1>7. row # NoRow => ref \in EscrowRow /\ ref.created_ledger = row.created_ledger
    <2>1. row # NoRow => ref.created_ledger = row.created_ledger
      BY <1>1 DEF RefundEscrow, EscrowRow
    <2> QED  BY <1>1, <2>1, EscrowTypes
  <1>8. /\ Put(d, "escrow", k, up).escrow[k] = up
        /\ Put(d, "escrow", k, add).escrow[k] = add
        /\ Put(d, "escrow", k, rel).escrow[k] = rel
        /\ Put(d, "escrow", k, ref).escrow[k] = ref
    BY <1>1, PutRow DEF Names
  <1>9. CASE e.body.event_name = "EscrowCreated"
    <2>1. new = up
      BY <1>8, <1>9 DEF ApplyEvent
    <2> HIDE DEF new, up
    <2> QED  BY <1>2, <1>3, <1>9, <2>1 DEF new
  <1>10. CASE e.body.event_name \in {"EscrowDeposited", "EscrowReleased", "EscrowRefunded"}
    <2>1. new \in {add, rel, ref}
      BY <1>8, <1>10 DEF ApplyEvent
    <2> HIDE DEF new, add, rel, ref
    <2> QED  BY <1>2, <1>4, <1>5, <1>6, <1>7, <2>1 DEF new
  <1>11. CASE e.body.event_name \notin {"EscrowCreated", "EscrowDeposited",
                                        "EscrowReleased", "EscrowRefunded"}
    <2>1. new = row
      BY <1>11 DEF ApplyEvent
    <2> HIDE DEF new
    <2> QED  BY <2>1 DEF new
  <1> QED
    BY <1>9, <1>10, <1>11

\* The builders delete no financing.
LEMMA FinancingRowStays ==
    ASSUME NEW d \in Tables, NEW e \in Event,
           ContractName[e.contract_id] = "financing",
           d.financing[e.body.key] # NoRow
    PROVE  ApplyEvent(d, e).financing[e.body.key] # NoRow
  <1> DEFINE k == e.body.key
             row == d.financing[k]
             new == ApplyEvent(d, e).financing[k]
  <1>1. k \in Keys /\ row \in FinancingRow
    BY EventFields DEF Tables
  <1>2. NoRow \notin FinancingRow
    BY NoRowAssumption DEF NoRowAssumption
  <1>3. /\ UpsertFinancing(row, e) \in FinancingRow
        /\ AddFinancingDeposit(row, e) \in FinancingRow
        /\ ReleaseFinancing(row, e) \in FinancingRow
        /\ RefundFinancing(row, e) \in FinancingRow
    BY <1>1, FinancingTypes
  <1>4. ASSUME NEW r \in FinancingRow
        PROVE  Put(d, "financing", k, r).financing[k] = r
    BY <1>1, PutRow DEF Names
  <1>5. new \in FinancingRow
    BY <1>1, <1>3, <1>4 DEF ApplyEvent
  <1> QED
    BY <1>2, <1>5

\* apply_event on the verification table, row by row.
LEMMA VerificationWritten ==
    ASSUME NEW d \in Tables, NEW e \in Event, NEW k \in Keys
    PROVE  LET row == d.verification[k]
               new == ApplyEvent(d, e).verification[k]
               Is(ev) == /\ ContractName[e.contract_id] = "verification"
                         /\ e.body.key = k /\ e.body.event_name = ev
           IN  /\ Is("VerificationCreated") => new = UpsertVerification(row, e)
               /\ Is("VerificationRevoked") => new = RevokeVerification(row, e)
               /\ ~Is("VerificationCreated") /\ ~Is("VerificationRevoked") => new = row
  <1> DEFINE name == ContractName[e.contract_id]
             j == e.body.key
             up == UpsertVerification(d.verification[j], e)
             rv == RevokeVerification(d.verification[j], e)
  <1>1. name \in Names /\ j \in Keys
    BY EventFields, ContractNameAssumption DEF ContractNameAssumption
  <1>2. CASE name # "verification"
    <2>1. ApplyEvent(d, e).verification = d.verification
      BY <1>1, <1>2 DEF ApplyEvent, Put, Tables, Names
    <2>2. QED
      BY <1>2, <2>1
  <1>3. CASE name = "verification" /\ e.body.event_name = "VerificationCreated"
    <2>1. ApplyEvent(d, e).verification = [d.verification EXCEPT ![j] = up]
      BY <1>3 DEF ApplyEvent, Put, Tables
    <2>2. QED
      BY <1>1, <1>3, <2>1 DEF Tables
  <1>4. CASE name = "verification" /\ e.body.event_name = "VerificationRevoked"
    <2>1. ApplyEvent(d, e).verification = [d.verification EXCEPT ![j] = rv]
      BY <1>4 DEF ApplyEvent, Put, Tables
    <2>2. QED
      BY <1>1, <1>4, <2>1 DEF Tables
  <1>5. CASE /\ name = "verification"
             /\ e.body.event_name \notin {"VerificationCreated", "VerificationRevoked"}
    <2>1. ApplyEvent(d, e) = d
      BY <1>5 DEF ApplyEvent
    <2>2. QED
      BY <1>5, <2>1
  <1>6. QED
    BY <1>2, <1>3, <1>4, <1>5

\* What the two builders of the verification table write.
LEMMA VerificationBuilders ==
    ASSUME NEW row \in VerificationRow \cup {NoRow}, NEW e \in Event
    PROVE  LET up == UpsertVerification(row, e)
               rv == RevokeVerification(row, e)
           IN  /\ up # NoRow /\ up.contract_id = e.contract_id
               /\ up.issued_ledger = Ledger(e)
               /\ row = NoRow => ~up.revoked /\ up.revoked_ledger = NULL
               /\ row # NoRow => /\ up.revoked <=> row.revoked
                                 /\ up.revoked_ledger = row.revoked_ledger
               /\ row = NoRow => rv = NoRow
               /\ row # NoRow => /\ rv # NoRow /\ rv.contract_id = row.contract_id
                                 /\ rv.issued_ledger = row.issued_ledger
                                 /\ rv.revoked /\ rv.revoked_ledger = Ledger(e)
  <1> DEFINE up == UpsertVerification(row, e)
             rv == RevokeVerification(row, e)
  <1>1. NoRow \notin VerificationRow
    BY NoRowAssumption DEF NoRowAssumption
  <1>2. CASE row = NoRow
    <2>1. up = [contract_id |-> e.contract_id, issued_ledger |-> Ledger(e),
                revoked |-> FALSE, revoked_ledger |-> NULL]
      BY <1>2 DEF UpsertVerification
    <2>2. up \in VerificationRow
      BY <2>1, EventFields DEF VerificationRow
    <2>3. rv = NoRow
      BY <1>2 DEF RevokeVerification
    <2>4. /\ up.contract_id = e.contract_id /\ up.issued_ledger = Ledger(e)
          /\ ~up.revoked /\ up.revoked_ledger = NULL
      BY <2>1
    <2> HIDE DEF up, rv
    <2>5. up # NoRow
      BY <1>1, <2>2
    <2>6. QED
      BY <1>2, <2>3, <2>4, <2>5 DEF up, rv
  <1>3. CASE row # NoRow
    <2>1. row \in VerificationRow
      BY <1>3
    <2>2. up = [row EXCEPT !.contract_id = e.contract_id, !.issued_ledger = Ledger(e)]
      BY <1>3 DEF UpsertVerification
    <2>3. rv = [row EXCEPT !.revoked = TRUE, !.revoked_ledger = Ledger(e)]
      BY <1>3 DEF RevokeVerification
    <2>4. up \in VerificationRow /\ rv \in VerificationRow
      BY <2>1, <2>2, <2>3, EventFields DEF VerificationRow
    <2>5. /\ up.contract_id = e.contract_id /\ up.issued_ledger = Ledger(e)
          /\ (up.revoked <=> row.revoked) /\ up.revoked_ledger = row.revoked_ledger
      BY <2>1, <2>2 DEF VerificationRow
    <2>6. /\ rv.contract_id = row.contract_id /\ rv.issued_ledger = row.issued_ledger
          /\ rv.revoked /\ rv.revoked_ledger = Ledger(e)
      BY <2>1, <2>3 DEF VerificationRow
    <2> HIDE DEF up, rv
    <2>7. up # NoRow /\ rv # NoRow
      BY <1>1, <2>4
    <2>8. QED
      BY <1>3, <2>5, <2>6, <2>7 DEF up, rv
  <1>4. QED
    BY <1>2, <1>3

\* apply_event writes the table its contract is named after and no other.
LEMMA OtherTablesStay ==
    ASSUME NEW d \in Tables, NEW e \in Event, NEW n \in Names,
           n # ContractName[e.contract_id]
    PROVE  ApplyEvent(d, e)[n] = d[n]
  <1> DEFINE m == ContractName[e.contract_id]
             k == e.body.key
  <1>1. k \in Keys /\ m \in Names
    BY EventFields, ContractNameAssumption DEF ContractNameAssumption
  <1>2. \/ ApplyEvent(d, e) = d
        \/ \E row : ApplyEvent(d, e) = Put(d, m, k, row)
    BY <1>1, Zenon DEF ApplyEvent
  <1>3. ASSUME NEW row
        PROVE  Put(d, m, k, row)[n] = d[n]
    BY <1>1 DEF Put, Tables, Names
  <1>4. QED
    BY <1>2, <1>3

\* apply_event on the escrow table, row by row.
LEMMA EscrowWritten ==
    ASSUME NEW d \in Tables, NEW e \in Event, NEW k \in Keys
    PROVE  LET row == d.escrow[k]
               new == ApplyEvent(d, e).escrow[k]
               Is(ev) == /\ ContractName[e.contract_id] = "escrow"
                         /\ e.body.key = k /\ e.body.event_name = ev
           IN  /\ Is("EscrowCreated") => new = UpsertEscrow(row, e)
               /\ Is("EscrowDeposited") => new = AddEscrowDeposit(row, e)
               /\ Is("EscrowReleased") => new = ReleaseEscrow(row, e)
               /\ Is("EscrowRefunded") => new = RefundEscrow(row, e)
               /\ ~(\/ Is("EscrowCreated") \/ Is("EscrowDeposited")
                    \/ Is("EscrowReleased") \/ Is("EscrowRefunded")) => new = row
  <1> DEFINE name == ContractName[e.contract_id]
             j == e.body.key
  <1>1. CASE name # "escrow"
    BY <1>1, OtherTablesStay DEF Names
  <1>2. CASE name = "escrow" /\ j # k
    BY <1>2, OtherRowsStay
  <1>3. CASE name = "escrow" /\ j = k
    <2>1. \A row : Put(d, "escrow", k, row).escrow[k] = row
      BY PutRow DEF Names
    <2>2. QED
      BY <1>3, <2>1 DEF ApplyEvent
  <1>4. QED
    BY <1>1, <1>2, <1>3

\* apply_event on the financing table, row by row.
LEMMA FinancingWritten ==
    ASSUME NEW d \in Tables, NEW e \in Event, NEW k \in Keys
    PROVE  LET row == d.financing[k]
               new == ApplyEvent(d, e).financing[k]
               Is(ev) == /\ ContractName[e.contract_id] = "financing"
                         /\ e.body.key = k /\ e.body.event_name = ev
           IN  /\ Is("FinancingCreated") => new = UpsertFinancing(row, e)
               /\ Is("FinancingDeposited") => new = AddFinancingDeposit(row, e)
               /\ Is("FinancingReleased") => new = ReleaseFinancing(row, e)
               /\ Is("FinancingRefunded") => new = RefundFinancing(row, e)
               /\ ~(\/ Is("FinancingCreated") \/ Is("FinancingDeposited")
                    \/ Is("FinancingReleased") \/ Is("FinancingRefunded")) => new = row
  <1> DEFINE name == ContractName[e.contract_id]
             j == e.body.key
  <1>1. CASE name # "financing"
    BY <1>1, OtherTablesStay DEF Names
  <1>2. CASE name = "financing" /\ j # k
    BY <1>2, OtherRowsStay
  <1>3. CASE name = "financing" /\ j = k
    <2>1. \A row : Put(d, "financing", k, row).financing[k] = row
      BY PutRow DEF Names
    <2>2. QED
      BY <1>3, <2>1 DEF ApplyEvent
  <1>4. QED
    BY <1>1, <1>2, <1>3

\* apply_event on the identity table, row by row.
LEMMA IdentityWritten ==
    ASSUME NEW d \in Tables, NEW e \in Event, NEW k \in Keys
    PROVE  LET row == d.identity[k]
               new == ApplyEvent(d, e).identity[k]
               Is(ev) == /\ ContractName[e.contract_id] = "identity"
                         /\ e.body.key = k /\ e.body.event_name = ev
           IN  /\ Is("FarmerRegistered") => new = UpsertIdentityFarmer(row, e)
               /\ Is("FarmerMetadataUpdated") => new = UpdateIdentityMetadata(row, e)
               /\ Is("VerificationMarkerSet") => new = AppendIdentityMarker(row, e)
               /\ ~(\/ Is("FarmerRegistered") \/ Is("FarmerMetadataUpdated")
                    \/ Is("VerificationMarkerSet")) => new = row
  <1> DEFINE name == ContractName[e.contract_id]
             j == e.body.key
  <1>1. CASE name # "identity"
    BY <1>1, OtherTablesStay DEF Names
  <1>2. CASE name = "identity" /\ j # k
    BY <1>2, OtherRowsStay
  <1>3. CASE name = "identity" /\ j = k
    <2>1. \A row : Put(d, "identity", k, row).identity[k] = row
      BY PutRow DEF Names
    <2>2. QED
      BY <1>3, <2>1 DEF ApplyEvent
  <1>4. QED
    BY <1>1, <1>2, <1>3

\* What the builders of the escrow table write.
LEMMA EscrowBuilders ==
    ASSUME NEW row \in EscrowRow \cup {NoRow}, NEW e \in Event
    PROVE  LET up == UpsertEscrow(row, e)
               add == AddEscrowDeposit(row, e)
               rel == ReleaseEscrow(row, e)
               ref == RefundEscrow(row, e)
           IN  /\ /\ up # NoRow /\ up.contract_id = e.contract_id
                  /\ up.amount = e.body.amount
                  /\ up.created_ledger = Ledger(e) /\ up.updated_ledger = Ledger(e)
                  /\ row = NoRow => up.released_amount = 0
                  /\ row # NoRow => up.released_amount = row.released_amount
               /\ row = NoRow => add = NoRow /\ rel = NoRow /\ ref = NoRow
               /\ row # NoRow =>
                    /\ add # NoRow /\ add.contract_id = row.contract_id
                    /\ add.amount = row.amount + e.body.amount
                    /\ add.released_amount = row.released_amount
                    /\ add.created_ledger = row.created_ledger
                    /\ add.updated_ledger = Ledger(e)
               /\ row # NoRow =>
                    /\ rel # NoRow /\ rel.contract_id = row.contract_id
                    /\ rel.amount = row.amount
                    /\ rel.released_amount = row.released_amount + e.body.amount
                    /\ rel.created_ledger = row.created_ledger
                    /\ rel.updated_ledger = Ledger(e)
               /\ row # NoRow =>
                    /\ ref # NoRow /\ ref.contract_id = row.contract_id
                    /\ ref.amount = row.amount
                    /\ ref.released_amount = row.amount
                    /\ ref.created_ledger = row.created_ledger
                    /\ ref.updated_ledger = Ledger(e)
  <1>1. NoRow \notin EscrowRow
    BY NoRowAssumption DEF NoRowAssumption
  <1>2. UpsertEscrow(row, e) \in EscrowRow
    BY EscrowTypes
  <1>3. row # NoRow => /\ AddEscrowDeposit(row, e) \in EscrowRow
                       /\ ReleaseEscrow(row, e) \in EscrowRow
                       /\ RefundEscrow(row, e) \in EscrowRow
    BY EscrowTypes
  <1>4. CASE row = NoRow
    <2>1. UpsertEscrow(row, e) =
            [contract_id |-> e.contract_id,
             amount |-> e.body.amount, released_amount |-> 0,
             created_ledger |-> Ledger(e), updated_ledger |-> Ledger(e),
             status |-> "open"]
      BY <1>4 DEF UpsertEscrow
    <2>2. /\ AddEscrowDeposit(row, e) = NoRow /\ ReleaseEscrow(row, e) = NoRow
          /\ RefundEscrow(row, e) = NoRow
      BY <1>4 DEF AddEscrowDeposit, ReleaseEscrow, RefundEscrow
    <2>3. QED
      BY <1>1, <1>2, <1>4, <2>1, <2>2
  <1>5. CASE row # NoRow
    <2>1. row \in EscrowRow
      BY <1>5
    <2>2. UpsertEscrow(row, e) =
            [row EXCEPT !.contract_id = e.contract_id, !.amount = e.body.amount,
                        !.created_ledger = Ledger(e), !.updated_ledger = Ledger(e)]
      BY <1>5 DEF UpsertEscrow
    <2>3. AddEscrowDeposit(row, e) =
            [row EXCEPT !.amount = @ + e.body.amount, !.updated_ledger = Ledger(e)]
      BY <1>5 DEF AddEscrowDeposit
    <2>4. \E s : ReleaseEscrow(row, e) =
            [row EXCEPT !.released_amount = @ + e.body.amount,
                        !.updated_ledger = Ledger(e), !.status = s]
      BY <1>5 DEF ReleaseEscrow
    <2>5. RefundEscrow(row, e) =
            [row EXCEPT !.status = "refunded", !.released_amount = row.amount,
                        !.updated_ledger = Ledger(e)]
      BY <1>5 DEF RefundEscrow
    <2>6. LET up == UpsertEscrow(row, e)
          IN  /\ up.contract_id = e.contract_id /\ up.amount = e.body.amount
              /\ up.created_ledger = Ledger(e) /\ up.updated_ledger = Ledger(e)
              /\ up.released_amount = row.released_amount
      BY <2>1, <2>2 DEF EscrowRow
    <2>7. LET add == AddEscrowDeposit(row, e)
          IN  /\ add.contract_id = row.contract_id
              /\ add.amount = row.amount + e.body.amount
              /\ add.released_amount = row.released_amount
              /\ add.created_ledger = row.created_ledger
              /\ add.updated_ledger = Ledger(e)
      BY <2>1, <2>3 DEF EscrowRow
    <2>8. LET rel == ReleaseEscrow(row, e)
          IN  /\ rel.contract_id = row.contract_id
              /\ rel.amount = row.amount
              /\ rel.released_amount = row.released_amount + e.body.amount
              /\ rel.created_ledger = row.created_ledger
              /\ rel.updated_ledger = Ledger(e)
      BY <2>1, <2>4 DEF EscrowRow
    <2>9. LET ref == RefundEscrow(row, e)
          IN  /\ ref.contract_id = row.contract_id
              /\ ref.amount = row.amount
              /\ ref.released_amount = row.amount
              /\ ref.created_ledger = row.created_ledger
              /\ ref.updated_ledger = Ledger(e)
      BY <2>1, <2>5 DEF EscrowRow
    <2>10. /\ UpsertEscrow(row, e) # NoRow /\ AddEscrowDeposit(row, e) # NoRow
           /\ ReleaseEscrow(row, e) # NoRow /\ RefundEscrow(row, e) # NoRow
      BY <1>1, <1>2, <1>3, <1>5
    <2>11. QED
      BY <1>5, <2>6, <2>7, <2>8, <2>9, <2>10
  <1>6. QED
    BY <1>4, <1>5

\* What the builders of the financing table write, but for what
\* RefundFinancing makes of the amount and the ledger of the default.
LEMMA FinancingBuilders ==
    ASSUME NEW row \in FinancingRow \cup {NoRow}, NEW e \in Event
    PROVE  LET up == UpsertFinancing(row, e)
               add == AddFinancingDeposit(row, e)
               rel == ReleaseFinancing(row, e)
               ref == RefundFinancing(row, e)
           IN  /\ /\ up # NoRow
                  /\ row # NoRow => up.status = row.status
               /\ row = NoRow => add = NoRow /\ rel = NoRow /\ ref = NoRow
               /\ row # NoRow =>
                    /\ add # NoRow /\ rel # NoRow /\ ref # NoRow
                    /\ add.status = row.status
                    /\ rel.status = row.status
                    /\ ref.status = IF e.body.defaulted THEN "defaulted" ELSE "refunded"
  <1>1. NoRow \notin FinancingRow
    BY NoRowAssumption DEF NoRowAssumption
  <1>2. UpsertFinancing(row, e) # NoRow
    BY <1>1, FinancingTypes
  <1>3. row # NoRow => UpsertFinancing(row, e).status = row.status
    BY DEF UpsertFinancing
  <1>4. CASE row = NoRow
    BY <1>2, <1>4 DEF AddFinancingDeposit, ReleaseFinancing, RefundFinancing
  <1>5. CASE row # NoRow
    <2>1. row \in FinancingRow
      BY <1>5
    <2>2. /\ AddFinancingDeposit(row, e) # NoRow
          /\ ReleaseFinancing(row, e) # NoRow /\ RefundFinancing(row, e) # NoRow
      BY <1>1, <1>5, FinancingTypes
    <2>3. AddFinancingDeposit(row, e).status = row.status
      BY <1>5, <2>1 DEF AddFinancingDeposit, FinancingRow
    <2>4. ReleaseFinancing(row, e).status = row.status
      BY <1>5, <2>1 DEF ReleaseFinancing, FinancingRow
    <2>5. RefundFinancing(row, e).status =
            IF e.body.defaulted THEN "defaulted" ELSE "refunded"
      BY <1>5, <2>1 DEF RefundFinancing, FinancingRow
    <2>6. QED
      BY <1>2, <1>3, <1>5, <2>2, <2>3, <2>4, <2>5
  <1>6. QED
    BY <1>4, <1>5
==============================================================================
