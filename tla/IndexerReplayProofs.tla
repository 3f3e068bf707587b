------------------------ MODULE IndexerReplayProofs ------------------------
(***************************************************************************)
(* Re-application of stored events is safe: the theorems of IndexerReplay, *)
(* for every set of contracts, keys, amounts and slots and every cutoff,   *)
(* when rewind is not run while its contract is being ingested.            *)
(*                                                                         *)
(* Replay(S) is a recursive definition over the finite set S.  What it     *)
(* computes is proved by induction over finite sets in the form of the     *)
(* least counterexample (MinimalSubset).                                   *)
(***************************************************************************)
EXTENDS IndexerReplay, IndexerLogProofs, FiniteSetTheorems, WellFoundedInduction

-----------------------------------------------------------------------------
(* Replay.                                                                 *)

\* Induction over finite sets: what fails for a subset of S fails for one
\* all of whose proper subsets are fine.
LEMMA MinimalSubset ==
    ASSUME NEW S, IsFiniteSet(S), NEW bad \in SUBSET SUBSET S, bad # {}
    PROVE  \E U \in bad : \A V \in SUBSET U : V # U => V \notin bad
  <1>1. bad \subseteq FiniteSubsetsOf(S)
    BY FS_FiniteSubsetsOfFinite
  <1>2. \E U \in bad : \A V \in bad : ~(<<V, U>> \in StrictSubsetOrdering(S))
    BY <1>1, FS_StrictSubsetOrderingWellFounded, WFMin
  <1>3. QED
    BY <1>2 DEF StrictSubsetOrdering

\* is_after is transitive.
LEMMA AfterTransitive ==
    ASSUME NEW p \in Position, NEW q \in Position, NEW r \in Position,
           IsAfter(p, q), IsAfter(q, r)
    PROVE  IsAfter(p, r)
  BY DEF IsAfter, Position

\* A finite set of events has a newest one.
LEMMA LastExists ==
    ASSUME NEW S \in SUBSET Event, IsFiniteSet(S), S # {}
    PROVE  \E e \in S : IsLast(e, S)
  <1> DEFINE bad == {U \in SUBSET S : U # {} /\ ~\E e \in U : IsLast(e, U)}
  <1> SUFFICES ASSUME bad # {}
               PROVE  FALSE
    OBVIOUS
  <1>1. PICK U \in bad : \A V \in SUBSET U : V # U => V \notin bad
    <2>1. bad \in SUBSET SUBSET S
      OBVIOUS
    <2> HIDE DEF bad
    <2>2. QED
      BY <2>1, MinimalSubset
  <1>2. PICK x \in U : TRUE
    OBVIOUS
  <1> DEFINE V == U \ {x}
  <1>3. \A f \in U : f.at \in Position
    BY EventFields
  <1>4. CASE V = {}
    <2>1. IsLast(x, U)
      BY <1>4 DEF IsLast
    <2>2. QED
      BY <2>1
  <1>5. CASE V # {}
    <2>1. PICK y \in V : IsLast(y, V)
      <3>1. V \in SUBSET S /\ V # U /\ V \in SUBSET U
        OBVIOUS
      <3>2. QED
        BY <1>1, <1>5, <3>1
    <2>2. CASE IsAfter(x.at, y.at)
      <3>1. ASSUME NEW f \in U \ {x}
            PROVE  ~IsAfter(f.at, x.at)
        <4>1. CASE f = y
          BY <1>3, <2>2, <4>1, AfterFacts
        <4>2. CASE f # y
          BY <1>3, <2>1, <2>2, <4>2, AfterTransitive DEF IsLast
        <4>3. QED
          BY <4>1, <4>2
      <3>2. QED
        BY <3>1 DEF IsLast
    <2>3. CASE ~IsAfter(x.at, y.at)
      <3>1. IsLast(y, U)
        BY <2>1, <2>3 DEF IsLast
      <3>2. QED
        BY <3>1
    <2>4. QED
      BY <2>2, <2>3
  <1>6. QED
    BY <1>4, <1>5

LEMMA NewestIsIn ==
    ASSUME NEW S \in SUBSET Event, IsFiniteSet(S), S # {}
    PROVE  Newest(S) \in S /\ IsLast(Newest(S), S)
  BY LastExists DEF Newest

\* f is the recursive function behind Replay(S).
IsReplay(f, S) ==
    f = [T \in SUBSET S |->
           IF T = {} THEN EmptyTables
           ELSE ApplyEvent(f[T \ {Newest(T)}], Newest(T))]

LEMMA ReplayChosen ==
    ASSUME NEW S
    PROVE  Replay(S) = (CHOOSE f : IsReplay(f, S))[S]
  BY DEF Replay, IsReplay

\* The value of such a function at a set.
LEMMA IsReplayAt ==
    ASSUME NEW f, NEW S, IsReplay(f, S), NEW T \in SUBSET S
    PROVE  /\ T = {} => f[T] = EmptyTables
           /\ T # {} => f[T] = ApplyEvent(f[T \ {Newest(T)}], Newest(T))
  <1> DEFINE body(U) == IF U = {} THEN EmptyTables
                        ELSE ApplyEvent(f[U \ {Newest(U)}], Newest(U))
  <1>1. f = [U \in SUBSET S |-> body(U)]
    BY DEF IsReplay
  <1> HIDE DEF body
  <1>2. f[T] = body(T)
    BY <1>1
  <1>3. QED
    BY <1>2 DEF body

\* Two of them agree where both are defined.
LEMMA ReplaysAgree ==
    ASSUME NEW S \in SUBSET Event, IsFiniteSet(S), NEW f, IsReplay(f, S),
           NEW T \in SUBSET S, NEW g, IsReplay(g, T), NEW V \in SUBSET T
    PROVE  f[V] = g[V]
  <1> DEFINE bad == {U \in SUBSET T : f[U] # g[U]}
  <1>1. IsFiniteSet(T)
    BY FS_Subset
  <1> SUFFICES ASSUME bad # {}
               PROVE  FALSE
    OBVIOUS
  <1>2. PICK U \in bad : \A W \in SUBSET U : W # U => W \notin bad
    BY <1>1, MinimalSubset
  <1>3. U \in SUBSET S /\ U \in SUBSET T /\ f[U] # g[U] /\ IsFiniteSet(U)
    BY <1>1, FS_Subset
  <1>4. U # {}
    BY <1>3, IsReplayAt
  <1> DEFINE x == Newest(U)
  <1>5. x \in U
    BY <1>3, <1>4, NewestIsIn
  <1>6. f[U \ {x}] = g[U \ {x}]
    BY <1>2, <1>3, <1>5
  <1>7. /\ f[U] = ApplyEvent(f[U \ {x}], x)
        /\ g[U] = ApplyEvent(g[U \ {x}], x)
    BY <1>3, <1>4, IsReplayAt
  <1>8. QED
    BY <1>3, <1>6, <1>7

\* There is one for every finite set.
LEMMA ReplayExists ==
    ASSUME NEW S \in SUBSET Event, IsFiniteSet(S)
    PROVE  \E f : IsReplay(f, S)
  <1> DEFINE bad == {U \in SUBSET S : ~\E f : IsReplay(f, U)}
  <1> SUFFICES ASSUME bad # {}
               PROVE  FALSE
    OBVIOUS
  <1>1. PICK U \in bad : \A V \in SUBSET U : V # U => V \notin bad
    <2>1. bad \in SUBSET SUBSET S
      OBVIOUS
    <2> HIDE DEF bad
    <2>2. QED
      BY <2>1, MinimalSubset
  <1>2. U \in SUBSET Event /\ IsFiniteSet(U)
    BY FS_Subset
  <1> DEFINE r(V) == CHOOSE f : IsReplay(f, V)
             x == Newest(U)
             body(V) == IF V = U THEN IF U = {} THEN EmptyTables
                                      ELSE ApplyEvent(r(U \ {x})[U \ {x}], x)
                        ELSE r(V)[V]
             g == [V \in SUBSET U |-> body(V)]
  <1>3. ASSUME NEW V \in SUBSET U, V # U
        PROVE  IsReplay(r(V), V)
    <2>1. V \in SUBSET S /\ V \notin bad
      BY <1>1, <1>3
    <2>2. \E f : IsReplay(f, V)
      BY <2>1
    <2>3. QED
      BY <2>2
  <1> HIDE DEF r
  <1>4. ASSUME NEW V \in SUBSET U
        PROVE  g[V] = IF V = {} THEN EmptyTables
                      ELSE ApplyEvent(g[V \ {Newest(V)}], Newest(V))
    <2> DEFINE y == Newest(V)
               P == V \ {y}
    <2>1. V # {} => y \in V
      BY <1>2, NewestIsIn, FS_Subset
    <2>2. g[V] = body(V)
      OBVIOUS
    <2>3. V # {} => P \in SUBSET U /\ P # U /\ g[P] = r(P)[P]
      BY <2>1
    <2>4. CASE V = U
      <3>1. V # {} => g[V] = ApplyEvent(r(P)[P], y)
        BY <2>2, <2>4
      <3>2. V = {} => g[V] = EmptyTables
        BY <2>2, <2>4
      <3> HIDE DEF g, y, P
      <3>3. QED
        BY <2>3, <3>1, <3>2 DEF P, y
    <2>5. CASE V # U
      <3>1. g[V] = r(V)[V] /\ IsReplay(r(V), V)
        BY <1>3, <2>2, <2>5
      <3>2. V = {} => g[V] = EmptyTables
        BY <3>1, IsReplayAt
      <3>3. V # {} => g[V] = ApplyEvent(r(V)[P], y)
        BY <3>1, IsReplayAt
      <3>4. V # {} => r(V)[P] = r(P)[P]
        <4> SUFFICES ASSUME V # {}
                     PROVE  r(V)[P] = r(P)[P]
          OBVIOUS
        <4>1. IsReplay(r(P), P) /\ P \in SUBSET V
          BY <1>3, <2>3
        <4>2. V \in SUBSET Event /\ IsFiniteSet(V)
          BY <1>2, FS_Subset
        <4> HIDE DEF g, P
        <4>3. QED
          BY <3>1, <4>1, <4>2, ReplaysAgree
      <3> HIDE DEF g, y, P
      <3>5. QED
        BY <2>3, <3>2, <3>3, <3>4 DEF P, y
    <2>6. QED
      BY <2>4, <2>5
  <1>5. IsReplay(g, U)
    <2>1. g = [V \in SUBSET U |-> g[V]]
      OBVIOUS
    <2> HIDE DEF g
    <2>2. QED
      BY <1>4, <2>1 DEF IsReplay
  <1>6. QED
    BY <1>5

\* Replaying nothing.
LEMMA ReplayEmpty == Replay({}) = EmptyTables
  <1>1. IsFiniteSet({})
    BY FS_EmptySet
  <1>2. PICK f : IsReplay(f, {})
    BY <1>1, ReplayExists
  <1>3. IsReplay(CHOOSE g : IsReplay(g, {}), {})
    BY <1>2
  <1>4. QED
    BY <1>3, ReplayChosen, IsReplayAt

\* Replaying one more event, after all the others.
LEMMA ReplayStep ==
    ASSUME NEW S \in SUBSET Event, IsFiniteSet(S), NEW e \in Event,
           \A f \in S : IsAfter(e.at, f.at)
    PROVE  Replay(S \cup {e}) = ApplyEvent(Replay(S), e)
  <1> DEFINE T == S \cup {e}
             r(V) == CHOOSE f : IsReplay(f, V)
  <1>1. T \in SUBSET Event /\ IsFiniteSet(T) /\ T # {}
    BY FS_AddElement
  <1>2. IsReplay(r(T), T) /\ IsReplay(r(S), S)
    BY <1>1, ReplayExists
  <1>3. Newest(T) \in T /\ IsLast(Newest(T), T)
    BY <1>1, NewestIsIn
  <1>4. Newest(T) = e
    BY <1>3 DEF IsLast
  <1>5. e \notin S
    BY EventFields, AfterFacts
  <1>6. T \ {e} = S
    BY <1>5
  <1>7. Replay(T) = r(T)[T] /\ Replay(S) = r(S)[S]
    BY ReplayChosen
  <1> HIDE DEF r
  <1>8. r(T)[T] = ApplyEvent(r(T)[S], e)
    BY <1>1, <1>2, <1>4, <1>6, IsReplayAt
  <1>9. r(T)[S] = r(S)[S]
    <2>1. S \in SUBSET T
      OBVIOUS
    <2> HIDE DEF T
    <2>2. QED
      BY <1>1, <1>2, <2>1, ReplaysAgree
  <1>10. QED
    BY <1>7, <1>8, <1>9

\* A replay gives tables.
LEMMA ReplayType ==
    ASSUME NEW S \in SUBSET Event, IsFiniteSet(S)
    PROVE  Replay(S) \in Tables
  <1> DEFINE f == CHOOSE g : IsReplay(g, S)
             bad == {U \in SUBSET S : f[U] \notin Tables}
  <1>1. IsReplay(f, S) /\ Replay(S) = f[S]
    BY ReplayExists, ReplayChosen
  <1> HIDE DEF f
  <1>2. CASE bad # {}
    <2>1. PICK U \in bad : \A V \in SUBSET U : V # U => V \notin bad
      <3>1. bad \in SUBSET SUBSET S
        OBVIOUS
      <3> HIDE DEF bad
      <3>2. QED
        BY <1>2, <3>1, MinimalSubset
    <2>2. U \in SUBSET S /\ f[U] \notin Tables /\ IsFiniteSet(U)
      BY FS_Subset
    <2>3. U # {}
      <3>1. EmptyTables \in Tables
        BY DEF EmptyTables, EmptyTable, Tables
      <3>2. QED
        BY <1>1, <2>2, <3>1, IsReplayAt
    <2>4. Newest(U) \in U
      BY <2>2, <2>3, NewestIsIn
    <2>5. f[U \ {Newest(U)}] \in Tables /\ Newest(U) \in Event
      BY <2>1, <2>2, <2>4
    <2>6. f[U] = ApplyEvent(f[U \ {Newest(U)}], Newest(U))
      BY <1>1, <2>2, <2>3, IsReplayAt
    <2>7. QED
      BY <2>2, <2>5, <2>6, ApplyEventType
  <1>3. CASE bad = {}
    BY <1>1, <1>3
  <1>4. QED
    BY <1>2, <1>3

-----------------------------------------------------------------------------
(* The invariants.                                                         *)

\* What the events applied so far give when each is applied once.
Once(c) == Replay(Of(applied, c))

\* What the pass of w has applied.
Done(w) == finalized[w] \ pending[w]

\* The event that makes a row of a table.
CreationOf(n) ==
    CASE n = "verification" -> "VerificationCreated"
      [] n = "escrow" -> "EscrowCreated"
      [] n = "financing" -> "FinancingCreated"
      [] n = "identity" -> "FarmerRegistered"

\* The rows that are there are those the applied events make.
RowsInv ==
    \A c \in Contracts : Sole(c) =>
        \A k \in Keys :
            LET n == ContractName[c]
            IN  /\ db[n][k] = NoRow <=> Once(c)[n][k] = NoRow
                /\ \A e \in Of(applied, c) :
                      e.body.key = k /\ e.body.event_name = CreationOf(n)
                          => Once(c)[n][k] # NoRow

\* The status a FinancingRefunded writes.
Refunded(e) == IF e.body.defaulted THEN "defaulted" ELSE "refunded"

\* The status of a financing, which the upsert of its creation keeps, is that
\* of its closing once it is closed.
StatusInv ==
    \A c \in Contracts : Sole(c) /\ ContractName[c] = "financing" =>
        \A k \in Keys :
            LET once == Once(c).financing[k]
            IN  once # NoRow =>
                  /\ db.financing[k].status = once.status
                  /\ \A e \in AppliedTo(c, k, "FinancingRefunded") :
                        once.status = Refunded(e)

\* A pass goes through the final events in order, without a gap.
OrderInv(w) ==
    pc[w] = "apply" =>
        /\ pending[w] \subseteq finalized[w]
        /\ \A e \in finalized[w] : e.contract_id = contract[w]
        /\ Done(w) \subseteq applied
        /\ \A e \in pending[w], f \in Done(w) : IsAfter(e.at, f.at)
        /\ \A e \in pending[w], f \in chain :
              f.contract_id = e.contract_id /\ IsAfter(e.at, f.at)
                  => f \in finalized[w]

\* What the upsert of a creation takes over.
EscrowAgrees(row, ref) ==
    /\ row.contract_id = ref.contract_id
    /\ row.amount = ref.amount
    /\ row.created_ledger = ref.created_ledger
    /\ row.updated_ledger = ref.updated_ledger

FinancingAgrees(row, ref) ==
    /\ row.contract_id = ref.contract_id
    /\ row.drawn_amount = ref.drawn_amount
    /\ row.drawn_ledger = ref.drawn_ledger
    /\ row.defaulted = ref.defaulted
    /\ row.defaulted_ledger = ref.defaulted_ledger
    /\ row.updated_ledger = ref.updated_ledger

Agrees(n, row, ref) ==
    /\ n = "escrow" => EscrowAgrees(row, ref)
    /\ n = "financing" => FinancingAgrees(row, ref)
    /\ n = "identity" => row = ref

\* In the middle of a pass, the rows whose creation the pass has reached show
\* what the events it has applied give, but for the columns that the creation
\* keeps.
PassRowsInv(w) ==
    pc[w] = "apply" /\ Sole(contract[w]) =>
        \A k \in Keys :
            LET n == ContractName[contract[w]]
                ref == Replay(Done(w))[n][k]
            IN  ref # NoRow => db[n][k] # NoRow /\ Agrees(n, db[n][k], ref)

\* Without re-orgs a pass selects whatever was applied before it.
CoversInv ==
    reorgs = 0 =>
        /\ head = tip
        /\ \A c \in Contracts : fork[c] = NoFork
        /\ applied \subseteq indexed_events
        /\ \A w \in Ingesters :
              /\ pc[w] \in {"append", "set_cursor", "select"} =>
                    \A e \in applied : Ledger(e) =< floor[w]
              /\ pc[w] = "apply" => Covers(w)

\* What is applied to the contract of e and lies before e.
Earlier(e) == {f \in Of(applied, e.contract_id) : IsAfter(e.at, f.at)}

\* A refund leaves as released what was held when it happened.
RefundInv ==
    \A c \in Contracts : Sole(c) /\ ContractName[c] = "escrow" =>
        \A k \in Keys : \A e \in AppliedTo(c, k, "EscrowRefunded") :
            LET once == Once(c).escrow[k]
                held == Replay(Earlier(e)).escrow[k]
            IN  once # NoRow =>
                    held # NoRow /\ once.released_amount = held.amount

-----------------------------------------------------------------------------
(* The builders, row by row.                                               *)

\* apply_event makes a row of its table exactly for a creation, and deletes
\* none.
LEMMA RowMade ==
    ASSUME NEW d \in Tables, NEW e \in Event, NEW k \in Keys
    PROVE  LET n == ContractName[e.contract_id]
               made == e.body.key = k /\ e.body.event_name = CreationOf(n)
           IN  ApplyEvent(d, e)[n][k] = NoRow <=> d[n][k] = NoRow /\ ~made
  <1> DEFINE n == ContractName[e.contract_id]
  <1>1. n \in Names
    BY EventFields, ContractNameAssumption DEF ContractNameAssumption
  <1>2. CASE n = "verification"
    <2>1. d.verification[k] \in VerificationRow \cup {NoRow}
      BY DEF Tables
    <2>2. CreationOf(n) = "VerificationCreated"
      BY <1>2 DEF CreationOf
    <2>3. QED
      BY <1>2, <2>1, <2>2, VerificationWritten, VerificationBuilders
  <1>3. CASE n = "escrow"
    <2>1. d.escrow[k] \in EscrowRow \cup {NoRow}
      BY DEF Tables
    <2>2. CreationOf(n) = "EscrowCreated"
      BY <1>3 DEF CreationOf
    <2>3. QED
      BY <1>3, <2>1, <2>2, EscrowWritten, EscrowBuilders
  <1>4. CASE n = "financing"
    <2>1. d.financing[k] \in FinancingRow \cup {NoRow}
      BY DEF Tables
    <2>2. CreationOf(n) = "FinancingCreated"
      BY <1>4 DEF CreationOf
    <2>3. QED
      BY <1>4, <2>1, <2>2, FinancingWritten, FinancingBuilders
  <1>5. CASE n = "identity"
    <2>1. NoRow \notin FarmerRow
      BY NoRowAssumption DEF NoRowAssumption
    <2>2. CreationOf(n) = "FarmerRegistered"
      BY <1>5 DEF CreationOf
    <2>3. UpsertIdentityFarmer(d.identity[k], e) \in FarmerRow
      BY EventFields, MarkerTypes DEF UpsertIdentityFarmer, FarmerRow
    <2>4. CASE d.identity[k] = NoRow
      <3>1. /\ UpdateIdentityMetadata(d.identity[k], e) = NoRow
            /\ AppendIdentityMarker(d.identity[k], e) = NoRow
        BY <2>4 DEF UpdateIdentityMetadata, AppendIdentityMarker
      <3>2. QED
        BY <1>5, <2>1, <2>2, <2>3, <2>4, <3>1, IdentityWritten
    <2>5. CASE d.identity[k] # NoRow
      <3>1. CASE e.body.key = k
        BY <1>5, <2>1, <2>5, <3>1, IdentityRowStays
      <3>2. CASE e.body.key # k
        BY <1>5, <2>5, <3>2, OtherRowsStay
      <3>3. QED
        BY <3>1, <3>2
    <2>6. QED
      BY <2>4, <2>5
  <1>6. QED
    BY <1>1, <1>2, <1>3, <1>4, <1>5 DEF Names

\* What agrees before apply_event agrees after it, and what a creation writes
\* agrees whatever was there.
LEMMA EscrowAgreement ==
    ASSUME NEW d \in Tables, NEW r \in Tables, NEW e \in Event, NEW k \in Keys,
           r.escrow[k] # NoRow =>
               d.escrow[k] # NoRow /\ EscrowAgrees(d.escrow[k], r.escrow[k]),
           ApplyEvent(r, e).escrow[k] # NoRow
    PROVE  EscrowAgrees(ApplyEvent(d, e).escrow[k], ApplyEvent(r, e).escrow[k])
  <1> DEFINE Is(ev) == /\ ContractName[e.contract_id] = "escrow"
                       /\ e.body.key = k /\ e.body.event_name = ev
  <1>1. /\ d.escrow[k] \in EscrowRow \cup {NoRow}
        /\ r.escrow[k] \in EscrowRow \cup {NoRow}
    BY DEF Tables
  <1>2. CASE Is("EscrowCreated")
    <2>1. /\ ApplyEvent(d, e).escrow[k] = UpsertEscrow(d.escrow[k], e)
          /\ ApplyEvent(r, e).escrow[k] = UpsertEscrow(r.escrow[k], e)
      BY <1>2, EscrowWritten
    <2>2. QED
      BY <1>1, <2>1, EscrowBuilders DEF EscrowAgrees
  <1>3. CASE Is("EscrowDeposited")
    <2>1. /\ ApplyEvent(d, e).escrow[k] = AddEscrowDeposit(d.escrow[k], e)
          /\ ApplyEvent(r, e).escrow[k] = AddEscrowDeposit(r.escrow[k], e)
      BY <1>3, EscrowWritten
    <2>2. QED
      BY <1>1, <2>1, EscrowBuilders DEF EscrowAgrees
  <1>4. CASE Is("EscrowReleased")
    <2>1. /\ ApplyEvent(d, e).escrow[k] = ReleaseEscrow(d.escrow[k], e)
          /\ ApplyEvent(r, e).escrow[k] = ReleaseEscrow(r.escrow[k], e)
      BY <1>4, EscrowWritten
    <2>2. QED
      BY <1>1, <2>1, EscrowBuilders DEF EscrowAgrees
  <1>5. CASE Is("EscrowRefunded")
    <2>1. /\ ApplyEvent(d, e).escrow[k] = RefundEscrow(d.escrow[k], e)
          /\ ApplyEvent(r, e).escrow[k] = RefundEscrow(r.escrow[k], e)
      BY <1>5, EscrowWritten
    <2>2. QED
      BY <1>1, <2>1, EscrowBuilders DEF EscrowAgrees
  <1>6. CASE ~(\/ Is("EscrowCreated") \/ Is("EscrowDeposited")
               \/ Is("EscrowReleased") \/ Is("EscrowRefunded"))
    <2>1. /\ ApplyEvent(d, e).escrow[k] = d.escrow[k]
          /\ ApplyEvent(r, e).escrow[k] = r.escrow[k]
      BY <1>6, EscrowWritten
    <2>2. QED
      BY <2>1
  <1>7. QED
    BY <1>2, <1>3, <1>4, <1>5, <1>6

\* The same for the builders of the financing table.
LEMMA FinancingAgreement ==
    ASSUME NEW d \in Tables, NEW r \in Tables, NEW e \in Event, NEW k \in Keys,
           r.financing[k] # NoRow =>
               d.financing[k] # NoRow /\ FinancingAgrees(d.financing[k], r.financing[k]),
           ApplyEvent(r, e).financing[k] # NoRow
    PROVE  FinancingAgrees(ApplyEvent(d, e).financing[k], ApplyEvent(r, e).financing[k])
  <1> DEFINE Is(ev) == /\ ContractName[e.contract_id] = "financing"
                       /\ e.body.key = k /\ e.body.event_name = ev
             row == d.financing[k]
             ref == r.financing[k]
  <1>1. /\ row \in FinancingRow \cup {NoRow}
        /\ ref \in FinancingRow \cup {NoRow}
    BY DEF Tables
  <1>2. CASE Is("FinancingCreated")
    <2>1. /\ ApplyEvent(d, e).financing[k] = UpsertFinancing(row, e)
          /\ ApplyEvent(r, e).financing[k] = UpsertFinancing(ref, e)
      BY <1>2, FinancingWritten
    <2> HIDE DEF row, ref
    <2>2. FinancingAgrees(UpsertFinancing(row, e), UpsertFinancing(ref, e))
      BY DEF UpsertFinancing, FinancingAgrees
    <2>3. QED
      BY <2>1, <2>2
  <1>3. CASE Is("FinancingDeposited")
    <2>1. /\ ApplyEvent(d, e).financing[k] = AddFinancingDeposit(row, e)
          /\ ApplyEvent(r, e).financing[k] = AddFinancingDeposit(ref, e)
      BY <1>3, FinancingWritten
    <2>2. ref # NoRow
      BY <1>1, <2>1, FinancingBuilders
    <2>3. row # NoRow /\ FinancingAgrees(row, ref)
      BY <2>2
    <2> HIDE DEF row, ref
    <2>4. FinancingAgrees(AddFinancingDeposit(row, e), AddFinancingDeposit(ref, e))
      BY <1>1, <2>2, <2>3 DEF AddFinancingDeposit, FinancingAgrees, FinancingRow
    <2>5. QED
      BY <2>1, <2>4
  <1>4. CASE Is("FinancingReleased")
    <2>1. /\ ApplyEvent(d, e).financing[k] = ReleaseFinancing(row, e)
          /\ ApplyEvent(r, e).financing[k] = ReleaseFinancing(ref, e)
      BY <1>4, FinancingWritten
    <2>2. ref # NoRow
      BY <1>1, <2>1, FinancingBuilders
    <2>3. row # NoRow /\ FinancingAgrees(row, ref)
      BY <2>2
    <2> HIDE DEF row, ref
    <2>4. FinancingAgrees(ReleaseFinancing(row, e), ReleaseFinancing(ref, e))
      BY <1>1, <2>2, <2>3 DEF ReleaseFinancing, FinancingAgrees, FinancingRow
    <2>5. QED
      BY <2>1, <2>4
  <1>5. CASE Is("FinancingRefunded")
    <2>1. /\ ApplyEvent(d, e).financing[k] = RefundFinancing(row, e)
          /\ ApplyEvent(r, e).financing[k] = RefundFinancing(ref, e)
      BY <1>5, FinancingWritten
    <2>2. ref # NoRow
      BY <1>1, <2>1, FinancingBuilders
    <2>3. row # NoRow /\ FinancingAgrees(row, ref)
      BY <2>2
    <2> HIDE DEF row, ref
    <2>4. FinancingAgrees(RefundFinancing(row, e), RefundFinancing(ref, e))
      BY <1>1, <2>2, <2>3 DEF RefundFinancing, FinancingAgrees, FinancingRow
    <2>5. QED
      BY <2>1, <2>4
  <1>6. CASE ~(\/ Is("FinancingCreated") \/ Is("FinancingDeposited")
               \/ Is("FinancingReleased") \/ Is("FinancingRefunded"))
    <2>1. /\ ApplyEvent(d, e).financing[k] = row
          /\ ApplyEvent(r, e).financing[k] = ref
      BY <1>6, FinancingWritten
    <2>2. QED
      BY <2>1
  <1>7. QED
    BY <1>2, <1>3, <1>4, <1>5, <1>6

\* The same for the builders of the identity table, which keep nothing.
LEMMA IdentityAgreement ==
    ASSUME NEW d \in Tables, NEW r \in Tables, NEW e \in Event, NEW k \in Keys,
           r.identity[k] # NoRow => d.identity[k] = r.identity[k],
           ApplyEvent(r, e).identity[k] # NoRow
    PROVE  ApplyEvent(d, e).identity[k] = ApplyEvent(r, e).identity[k]
  <1> DEFINE Is(ev) == /\ ContractName[e.contract_id] = "identity"
                       /\ e.body.key = k /\ e.body.event_name = ev
             row == d.identity[k]
             ref == r.identity[k]
  <1>1. CASE Is("FarmerRegistered")
    <2>1. /\ ApplyEvent(d, e).identity[k] = UpsertIdentityFarmer(row, e)
          /\ ApplyEvent(r, e).identity[k] = UpsertIdentityFarmer(ref, e)
      BY <1>1, IdentityWritten
    <2>2. QED
      BY <2>1 DEF UpsertIdentityFarmer
  <1>2. CASE ref # NoRow
    <2>1. row = ref
      BY <1>2
    <2>2. QED
      BY <2>1, IdentityWritten
  <1>3. CASE ~Is("FarmerRegistered") /\ ref = NoRow
    <2>1. ApplyEvent(r, e).identity[k] = NoRow
      BY <1>3, IdentityWritten DEF UpdateIdentityMetadata, AppendIdentityMarker
    <2>2. QED
      BY <2>1
  <1>4. QED
    BY <1>1, <1>2, <1>3

-----------------------------------------------------------------------------
(* The order of a pass.                                                    *)

\* A pass in its last stage is changed by its own steps only.
LEMMA PassFrame ==
    ASSUME TypeOK, [Next]_vars, NEW v \in Ingesters, pc'[v] = "apply",
           ~FinalizedEvents(v), ~Apply(v)
    PROVE  /\ pc[v] = "apply" /\ contract'[v] = contract[v]
           /\ pending'[v] = pending[v] /\ finalized'[v] = finalized[v]
  <1> DEFINE Kept == /\ pc[v] = "apply" /\ contract'[v] = contract[v]
                     /\ pending'[v] = pending[v] /\ finalized'[v] = finalized[v]
  <1>1. ASSUME UNCHANGED localVars
        PROVE  Kept
    BY <1>1 DEF localVars
  <1>2. ASSUME NEW w \in Ingesters, NEW next, Return(w, next)
        PROVE  Kept
    BY <1>2 DEF Return, TypeOK
  <1>3. ASSUME NEW w \in Ingesters, GetCursor(w)
        PROVE  Kept
    BY <1>3 DEF GetCursor, TypeOK
  <1>4. ASSUME NEW w \in Ingesters, EventsAfter(w)
        PROVE  Kept
    <2>1. CASE pc' = [pc EXCEPT ![w] = "head"] /\ UNCHANGED <<contract, finalized, pending>>
      BY <2>1 DEF TypeOK
    <2>2. QED
      BY <1>2, <1>4, <2>1 DEF EventsAfter
  <1>5. ASSUME NEW w \in Ingesters, HeadLedger(w)
        PROVE  Kept
    BY <1>5 DEF HeadLedger, TypeOK
  <1>6. ASSUME NEW w \in Ingesters, AppendEvents(w)
        PROVE  Kept
    BY <1>6 DEF AppendEvents, TypeOK
  <1>7. ASSUME NEW w \in Ingesters, SetCursor(w)
        PROVE  Kept
    BY <1>7 DEF SetCursor, TypeOK
  <1>8. ASSUME NEW w \in Ingesters, FinalizedEvents(w)
        PROVE  Kept
    <2>1. v # w
      BY <1>8
    <2>2. QED
      BY <1>8, <2>1 DEF FinalizedEvents, TypeOK
  <1>9. ASSUME NEW w \in Ingesters, Apply(w)
        PROVE  Kept
    <2>1. v # w
      BY <1>9
    <2>2. QED
      BY <1>9, <2>1 DEF Apply, TypeOK
  <1>10. ASSUME NEW w \in Ingesters,
                ApplyFails(w) \/ IngestDone(w) \/ IngestError(w) \/ Restart(w)
         PROVE  Kept
    BY <1>2, <1>10 DEF ApplyFails, IngestDone, IngestError, Restart
  <1> HIDE DEF Kept
  <1>11. \/ UNCHANGED localVars
         \/ \E w \in Ingesters : Ingest(w) \/ IngestError(w) \/ Restart(w)
    BY DEF Next, CloseLedger, Reorg, RewindEvents, RewindCursor, RewindFails, vars
  <1>12. Kept
    BY <1>1, <1>3, <1>4, <1>5, <1>6, <1>7, <1>8, <1>9, <1>10, <1>11 DEF Ingest
  <1>13. QED
    BY <1>12 DEF Kept

\* The steps that extend the chain, those that cut it, and the others.
LEMMA ChainSteps ==
    ASSUME [Next]_vars
    PROVE  \/ CloseLedger
           \/ \E l \in 1..MaxHead : Reorg(l)
           \/ chain' = chain /\ head' = head /\ tip' = tip /\ reorgs' = reorgs
  BY DEF Next, Ingest, GetCursor, EventsAfter, HeadLedger, AppendEvents, SetCursor,
         FinalizedEvents, Apply, ApplyFails, IngestDone, IngestError, Restart,
         RewindEvents, RewindCursor, RewindFails, vars, chainVars

\* The projections and their history change in apply_event only.
LEMMA ProjectionSteps ==
    ASSUME [Next]_vars
    PROVE  (\E w \in Ingesters : Apply(w)) \/ (db' = db /\ applied' = applied)
  BY DEF Next, CloseLedger, Reorg, Ingest, GetCursor, EventsAfter, HeadLedger,
         AppendEvents, SetCursor, FinalizedEvents, ApplyFails, IngestDone,
         IngestError, Restart, RewindEvents, RewindCursor, RewindFails,
         vars, projVars

\* Whatever is new on the chain comes after what was there.
LEMMA NothingBefore ==
    ASSUME IInv, TypeOK', [Next]_vars, NEW e \in chain, NEW f \in chain',
           IsAfter(e.at, f.at)
    PROVE  f \in chain
  <1>1. TypeOK
    BY DEF IInv
  <1>2. CASE CloseLedger
    <2>1. PICK g \in [Slots -> Emissions \cup {Quiet}] :
            chain' = chain \cup {EventAt(head + 1, s, g[s]) :
                                  s \in {t \in Slots : g[t] # Quiet}}
      BY <1>2 DEF CloseLedger
    <2>2. head \in Int /\ head + 1 \in Int
      BY <1>1, Facts
    <2>3. f \in chain \/ Ledger(f) = head + 1
      BY <2>1, <2>2, Published
    <2>4. /\ Ledger(e) =< head /\ e.at \in Position /\ Ledger(e) \in Int
          /\ Ledger(e) = e.at.ledger_sequence
      BY StoredFacts DEF IInv, ChainInv
    <2>5. f.at \in Position /\ Ledger(f) = f.at.ledger_sequence
      BY EventFields DEF TypeOK, Ledger
    <2>6. f.at.ledger_sequence =< e.at.ledger_sequence
      BY <2>4, <2>5, AfterFacts
    <2>7. QED
      BY <2>2, <2>3, <2>4, <2>5, <2>6
  <1>3. ASSUME NEW l \in 1..MaxHead, Reorg(l)
        PROVE  f \in chain
    BY <1>3 DEF Reorg
  <1>4. QED
    BY <1>2, <1>3, ChainSteps

\* The chain is finite: a ledger has finitely many slots.
LEMMA ChainFinite ==
    ASSUME IsFiniteSet(chain), [Next]_vars
    PROVE  IsFiniteSet(chain')
  <1>1. CASE CloseLedger
    <2>1. PICK g \in [Slots -> Emissions \cup {Quiet}] :
            chain' = chain \cup {EventAt(head + 1, s, g[s]) :
                                  s \in {t \in Slots : g[t] # Quiet}}
      BY <1>1 DEF CloseLedger
    <2> DEFINE live == {t \in Slots : g[t] # Quiet}
               new == {EventAt(head + 1, s, g[s]) : s \in live}
               f == [s \in live |-> EventAt(head + 1, s, g[s])]
    <2>2. IsFiniteSet(live)
      <3>1. IsFiniteSet(Slots)
        BY SlotsAssumption DEF SlotsAssumption
      <3>2. live \in SUBSET Slots
        OBVIOUS
      <3> HIDE DEF live
      <3>3. QED
        BY <3>1, <3>2, FS_Subset
    <2>3. f \in Surjection(live, new)
      BY DEF Surjection
    <2>4. chain' = chain \cup new
      BY <2>1
    <2> HIDE DEF live, new, f
    <2>5. IsFiniteSet(new)
      BY <2>2, <2>3, FS_Surjection
    <2>6. QED
      BY <2>4, <2>5, FS_Union
  <1>2. ASSUME NEW l \in 1..MaxHead, Reorg(l)
        PROVE  IsFiniteSet(chain')
    <2>1. chain' \in SUBSET chain
      BY <1>2 DEF Reorg
    <2>2. QED
      BY <2>1, FS_Subset
  <1>3. QED
    BY <1>1, <1>2, ChainSteps

\* A pass keeps the order.
LEMMA OrderStep ==
    ASSUME LInv, TypeOK', [Next]_vars, NEW v \in Ingesters, OrderInv(v)
    PROVE  OrderInv(v)'
  <1>1. IInv /\ TypeOK
    BY DEF LInv, IInv
  <1>2. applied \subseteq applied'
    BY ProjectionSteps DEF Apply
  <1>3. CASE FinalizedEvents(v)
    <2> DEFINE rows == {e \in Of(indexed_events, contract[v]) : Ledger(e) =< floor[v]}
    <2>1. /\ pc[v] = "select" /\ contract' = contract /\ chain' = chain
          /\ pending'[v] = rows /\ finalized'[v] = rows
      BY <1>1, <1>3 DEF FinalizedEvents, TypeOK, chainVars
    <2>2. \A e \in rows : e.contract_id = contract[v]
      BY DEF Of
    <2>3. ASSUME NEW e \in rows, NEW f \in chain,
                 f.contract_id = e.contract_id, IsAfter(e.at, f.at)
          PROVE  f \in rows
      BY <2>1, <2>3, SelectedPrefix
    <2> HIDE DEF rows
    <2>4. Done(v)' = {}
      BY <2>1 DEF Done
    <2>5. QED
      BY <2>1, <2>2, <2>3, <2>4 DEF OrderInv
  <1>4. CASE Apply(v)
    <2>1. PICK e \in pending[v] :
            /\ IsFirst(e, pending[v])
            /\ applied' = applied \cup {e}
            /\ pending' = [pending EXCEPT ![v] = @ \ {e}]
      BY <1>4 DEF Apply
    <2>2. /\ pc[v] = "apply" /\ contract' = contract /\ chain' = chain
          /\ finalized' = finalized /\ pending'[v] = pending[v] \ {e}
      BY <1>1, <1>4, <2>1 DEF Apply, TypeOK, chainVars
    <2>3. /\ pending[v] \subseteq finalized[v]
          /\ \A f \in finalized[v] : f.contract_id = contract[v]
          /\ Done(v) \subseteq applied
          /\ \A f \in pending[v], g \in Done(v) : IsAfter(f.at, g.at)
          /\ \A f \in pending[v], g \in chain :
                g.contract_id = f.contract_id /\ IsAfter(f.at, g.at)
                    => g \in finalized[v]
      BY <2>2 DEF OrderInv
    <2>4. Done(v)' = Done(v) \cup {e}
      BY <2>2, <2>3 DEF Done
    <2>5. ASSUME NEW f \in pending[v] \ {e}
          PROVE  IsAfter(f.at, e.at)
      <3>1. f \in chain /\ e \in chain /\ f.contract_id = e.contract_id
        BY <1>1, <2>2, <2>3, StoredFacts
      <3>2. QED
        BY <1>1, <2>1, <3>1, OneAfterOther DEF IsFirst
    <2>6. QED
      BY <2>1, <2>2, <2>3, <2>4, <2>5 DEF OrderInv
  <1>5. CASE ~FinalizedEvents(v) /\ ~Apply(v)
    <2> SUFFICES ASSUME pc'[v] = "apply"
                 PROVE  OrderInv(v)'
      BY DEF OrderInv
    <2>1. /\ pc[v] = "apply" /\ contract'[v] = contract[v]
          /\ pending'[v] = pending[v] /\ finalized'[v] = finalized[v]
      BY <1>1, <1>5, PassFrame
    <2>2. Done(v)' = Done(v)
      BY <2>1 DEF Done
    <2>3. \A e \in pending[v], f \in chain' : IsAfter(e.at, f.at) => f \in chain
      BY <1>1, <2>1, StoredFacts, NothingBefore
    <2>4. QED
      BY <1>2, <2>1, <2>2, <2>3 DEF OrderInv
  <1>6. QED
    BY <1>3, <1>4, <1>5

-----------------------------------------------------------------------------
(* What one iteration of the loop over the final events does.              *)

BaseInv ==
    /\ VInv
    /\ IsFiniteSet(chain)
    /\ \A w \in Ingesters : OrderInv(w)

\* The pass of w applies e: it has applied exactly what lies before e, and if
\* e was never applied then nothing else of the contract was.
Applies(w, e) ==
    /\ e \in pending[w] /\ e \in chain /\ e \in Event
    /\ e.contract_id = contract[w]
    /\ db' = ApplyEvent(db, e)
    /\ applied' = applied \cup {e}
    /\ Done(w) = Earlier(e)
    /\ Done(w)' = Done(w) \cup {e}
    /\ e \notin applied => Earlier(e) = Of(applied, e.contract_id)

LEMMA ApplyFacts ==
    ASSUME BaseInv, NEW w \in Ingesters, Apply(w)
    PROVE  \E e \in pending[w] : Applies(w, e)
  <1>1. IInv /\ TypeOK /\ AppliedInv /\ applied \subseteq chain
    BY DEF BaseInv, VInv, LInv, IInv, FinalityGate
  <1>2. PICK e \in pending[w] :
          /\ IsFirst(e, pending[w])
          /\ db' = ApplyEvent(db, e)
          /\ applied' = applied \cup {e}
          /\ pending' = [pending EXCEPT ![w] = @ \ {e}]
    BY DEF Apply
  <1>3. /\ pc[w] = "apply" /\ finalized' = finalized
        /\ pending'[w] = pending[w] \ {e}
    BY <1>1, <1>2 DEF Apply, TypeOK
  <1>4. /\ pending[w] \subseteq finalized[w]
        /\ \A f \in finalized[w] : f.contract_id = contract[w]
        /\ Done(w) \subseteq applied
        /\ \A f \in pending[w], g \in Done(w) : IsAfter(f.at, g.at)
        /\ \A f \in pending[w], g \in chain :
              g.contract_id = f.contract_id /\ IsAfter(f.at, g.at)
                  => g \in finalized[w]
    BY <1>3 DEF BaseInv, OrderInv
  <1>5. e \in chain /\ e \in Event /\ e.contract_id = contract[w]
    BY <1>1, <1>3, <1>4, StoredFacts DEF TypeOK
  <1>6. Done(w)' = Done(w) \cup {e}
    BY <1>3, <1>4 DEF Done
  <1>7. Done(w) = Earlier(e)
    <2>1. ASSUME NEW f \in Done(w)
          PROVE  f \in Earlier(e)
      BY <1>4, <1>5 DEF Earlier, Of, Done
    <2>2. ASSUME NEW f \in Earlier(e)
          PROVE  f \in Done(w)
      <3>1. /\ f \in applied /\ f \in chain /\ f.contract_id = e.contract_id
            /\ IsAfter(e.at, f.at)
        BY <1>1 DEF Earlier, Of
      <3>2. f \in finalized[w]
        BY <1>4, <3>1
      <3>3. f # e
        BY <1>1, <1>5, <3>1, StoredFacts, AfterFacts
      <3>4. f \notin pending[w]
        BY <1>2, <3>1, <3>3 DEF IsFirst
      <3>5. QED
        BY <3>2, <3>4 DEF Done
    <2>3. QED
      BY <2>1, <2>2
  <1>8. ASSUME e \notin applied
        PROVE  Earlier(e) = Of(applied, e.contract_id)
    <2>1. ASSUME NEW f \in Of(applied, e.contract_id)
          PROVE  IsAfter(e.at, f.at)
      <3>1. f \in applied /\ f \in chain /\ f.contract_id = e.contract_id /\ f # e
        BY <1>1, <1>8 DEF Of
      <3>2. ~IsAfter(f.at, e.at)
        BY <1>1, <1>5, <1>8, <3>1 DEF AppliedInv
      <3>3. QED
        BY <1>1, <1>5, <3>1, <3>2, OneAfterOther
    <2>2. QED
      BY <2>1 DEF Earlier
  <1>9. QED
    BY <1>2, <1>5, <1>6, <1>7, <1>8 DEF Applies

\* The sets that are replayed are finite sets of events.
LEMMA Replayable ==
    ASSUME BaseInv
    PROVE  /\ \A c : Of(applied, c) \in SUBSET Event /\ IsFiniteSet(Of(applied, c))
           /\ \A e : Earlier(e) \in SUBSET Event /\ IsFiniteSet(Earlier(e))
  <1>1. applied \subseteq chain /\ chain \subseteq Event /\ IsFiniteSet(chain)
    BY DEF BaseInv, VInv, LInv, IInv, FinalityGate, TypeOK
  <1>2. ASSUME NEW S \in SUBSET applied
        PROVE  S \in SUBSET Event /\ IsFiniteSet(S)
    BY <1>1, <1>2, FS_Subset
  <1>3. ASSUME NEW c
        PROVE  Of(applied, c) \in SUBSET applied
    BY DEF Of
  <1>4. ASSUME NEW e
        PROVE  Earlier(e) \in SUBSET applied
    BY DEF Earlier, Of
  <1>5. QED
    BY <1>2, <1>3, <1>4

\* The reference follows the first application of an event and no other.
LEMMA OnceStep ==
    ASSUME BaseInv, NEW w \in Ingesters, NEW e, Applies(w, e), NEW c \in Contracts
    PROVE  /\ Once(c) \in Tables
           /\ Once(c)' = IF c = e.contract_id /\ e \notin applied
                         THEN ApplyEvent(Once(c), e) ELSE Once(c)
  <1>1. Of(applied, c) \in SUBSET Event /\ IsFiniteSet(Of(applied, c))
    BY Replayable
  <1>2. e \in Event /\ applied' = applied \cup {e}
    BY DEF Applies
  <1>3. Once(c) \in Tables
    BY <1>1, ReplayType DEF Once
  <1>4. CASE c = e.contract_id /\ e \notin applied
    <2>1. \A f \in Of(applied, c) : IsAfter(e.at, f.at)
      BY <1>4 DEF Applies, Earlier
    <2>2. Of(applied', c) = Of(applied, c) \cup {e}
      BY <1>2, <1>4 DEF Of
    <2>3. Replay(Of(applied', c)) = ApplyEvent(Replay(Of(applied, c)), e)
      BY <1>1, <1>2, <2>1, <2>2, ReplayStep
    <2>4. QED
      BY <1>3, <1>4, <2>3 DEF Once
  <1>5. CASE ~(c = e.contract_id /\ e \notin applied)
    <2>1. Of(applied', c) = Of(applied, c)
      BY <1>2, <1>5 DEF Of
    <2>2. QED
      BY <1>3, <1>5, <2>1 DEF Once
  <1>6. QED
    BY <1>4, <1>5

\* So does what the pass gives.
LEMMA DoneStep ==
    ASSUME BaseInv, NEW w \in Ingesters, NEW e, Applies(w, e)
    PROVE  /\ Replay(Done(w)) \in Tables
           /\ Replay(Done(w))' = ApplyEvent(Replay(Done(w)), e)
  <1>1. Done(w) \in SUBSET Event /\ IsFiniteSet(Done(w)) /\ e \in Event
    BY Replayable DEF Applies
  <1>2. \A f \in Done(w) : IsAfter(e.at, f.at)
    BY DEF Applies, Earlier
  <1>3. Replay(Done(w) \cup {e}) = ApplyEvent(Replay(Done(w)), e)
    BY <1>1, <1>2, ReplayStep
  <1>4. QED
    BY <1>1, <1>3, ReplayType DEF Applies

-----------------------------------------------------------------------------
(* The rows that are there, and the verifications.                         *)

\* The event concerns another contract than c: nothing of c changes.
LEMMA OtherContract ==
    ASSUME BaseInv, NEW w \in Ingesters, NEW e, Applies(w, e),
           NEW c \in Contracts, Sole(c), c # e.contract_id
    PROVE  /\ db'[ContractName[c]] = db[ContractName[c]]
           /\ Once(c)' = Once(c)
           /\ Of(applied', c) = Of(applied, c)
  <1>1. e \in Event /\ db \in Tables /\ e.contract_id \in Contracts
    BY EventFields DEF BaseInv, VInv, LInv, IInv, TypeOK, Applies
  <1>2. ContractName[c] \in Names /\ ContractName[c] # ContractName[e.contract_id]
    BY <1>1, ContractNameAssumption DEF ContractNameAssumption, Sole
  <1>3. db'[ContractName[c]] = db[ContractName[c]]
    BY <1>1, <1>2, OtherTablesStay DEF Applies
  <1>4. QED
    BY <1>3, OnceStep DEF Applies, Of

LEMMA RowsApply ==
    ASSUME BaseInv, RowsInv, NEW w \in Ingesters, NEW e, Applies(w, e)
    PROVE  RowsInv'
  <1> SUFFICES ASSUME NEW c \in Contracts, Sole(c), NEW k \in Keys
               PROVE  /\ db'[ContractName[c]][k] = NoRow
                           <=> Once(c)'[ContractName[c]][k] = NoRow
                      /\ \A f \in Of(applied', c) :
                           f.body.key = k /\ f.body.event_name = CreationOf(ContractName[c])
                               => Once(c)'[ContractName[c]][k] # NoRow
    BY DEF RowsInv, Sole
  <1> DEFINE n == ContractName[c]
             made == e.body.key = k /\ e.body.event_name = CreationOf(n)
             before == db[n][k]
             once == Once(c)[n][k]
  <1>1. /\ before = NoRow <=> once = NoRow
        /\ \A f \in Of(applied, c) :
              f.body.key = k /\ f.body.event_name = CreationOf(n) => once # NoRow
    BY DEF RowsInv
  <1>2. e \in Event /\ db \in Tables /\ Once(c) \in Tables
    BY OnceStep DEF BaseInv, VInv, LInv, IInv, TypeOK, Applies
  <1>3. CASE c # e.contract_id
    BY <1>1, <1>3, OtherContract
  <1>4. CASE c = e.contract_id
    <2>1. db'[n][k] = NoRow <=> before = NoRow /\ ~made
      BY <1>2, <1>4, RowMade DEF Applies
    <2>2. CASE e \notin applied
      <3>1. Once(c)'[n][k] = NoRow <=> once = NoRow /\ ~made
        BY <1>2, <1>4, <2>2, RowMade, OnceStep
      <3>2. Of(applied', c) = Of(applied, c) \cup {e}
        BY <1>4 DEF Applies, Of
      <3> HIDE DEF before, once
      <3>3. QED
        BY <1>1, <2>1, <3>1, <3>2
    <2>3. CASE e \in applied
      <3>1. Once(c)'[n][k] = once /\ Of(applied', c) = Of(applied, c)
        BY <2>3, OnceStep DEF Applies, Of
      <3>2. e \in Of(applied, c)
        BY <1>4, <2>3 DEF Of
      <3> HIDE DEF before, once
      <3>3. QED
        BY <1>1, <2>1, <3>1, <3>2
    <2>4. QED
      BY <2>2, <2>3
  <1>5. QED
    BY <1>3, <1>4

\* Two verifications that show the same history are the same.
LEMMA SameVerification ==
    ASSUME NEW row \in VerificationRow, NEW new \in VerificationRow,
           row.contract_id = new.contract_id,
           row.issued_ledger = new.issued_ledger,
           row.revoked <=> new.revoked,
           row.revoked_ledger = new.revoked_ledger
    PROVE  row = new
  <1>1. row.revoked \in BOOLEAN /\ new.revoked \in BOOLEAN
    BY Zenon DEF VerificationRow
  <1>2. row.revoked = new.revoked
    BY <1>1, Zenon
  <1>3. /\ row = [contract_id |-> row.contract_id, issued_ledger |-> row.issued_ledger,
                  revoked |-> row.revoked, revoked_ledger |-> row.revoked_ledger]
        /\ new = [contract_id |-> new.contract_id, issued_ledger |-> new.issued_ledger,
                  revoked |-> new.revoked, revoked_ledger |-> new.revoked_ledger]
    BY DEF VerificationRow
  <1>4. QED
    BY <1>2, <1>3

\* Applying an event a second time changes no verification.
LEMMA VerificationsAgain ==
    ASSUME BaseInv, NEW w \in Ingesters, Apply(w), NEW e, Applies(w, e), e \in applied,
           NEW c \in Contracts, ContractName[c] = "verification", Sole(c), NEW k \in Keys
    PROVE  db'.verification[k] = db.verification[k]
  <1>1. VerificationsExact /\ VerificationsExact'
    BY ExactApply DEF BaseInv, VInv
  <1>2. db \in Tables /\ db' \in Tables
    BY ApplyEventType DEF BaseInv, VInv, LInv, IInv, TypeOK, Applies
  <1> DEFINE row == db.verification[k]
             new == db'.verification[k]
             created == AppliedTo(c, k, "VerificationCreated")
             revoked == AppliedTo(c, k, "VerificationRevoked")
  <1>3. /\ row = NoRow <=> created = {}
        /\ row # NoRow =>
             /\ row.contract_id = c
             /\ \A f \in created : row.issued_ledger = Ledger(f)
             /\ row.revoked <=> revoked # {}
             /\ revoked = {} => row.revoked_ledger = NULL
             /\ \A f \in revoked : row.revoked_ledger = Ledger(f)
    BY <1>1 DEF VerificationsExact
  <1>4. created' = created /\ revoked' = revoked
    BY DEF Applies, AppliedTo, Of
  <1>5. /\ new = NoRow <=> created = {}
        /\ new # NoRow =>
             /\ new.contract_id = c
             /\ \A f \in created : new.issued_ledger = Ledger(f)
             /\ new.revoked <=> revoked # {}
             /\ revoked = {} => new.revoked_ledger = NULL
             /\ \A f \in revoked : new.revoked_ledger = Ledger(f)
    BY <1>1, <1>4 DEF VerificationsExact, Sole
  <1>6. row \in VerificationRow \cup {NoRow} /\ new \in VerificationRow \cup {NoRow}
    BY <1>2 DEF Tables
  <1> HIDE DEF row, new, created, revoked
  <1>7. CASE created = {}
    BY <1>3, <1>5, <1>7 DEF row, new
  <1>8. CASE created # {}
    <2>1. row \in VerificationRow /\ new \in VerificationRow
      BY <1>3, <1>5, <1>6, <1>8
    <2>2. row.issued_ledger = new.issued_ledger
      BY <1>3, <1>5, <1>8
    <2>3. row.revoked_ledger = new.revoked_ledger
      BY <1>3, <1>5, <1>8
    <2>4. row.contract_id = new.contract_id /\ (row.revoked <=> new.revoked)
      BY <1>3, <1>5, <1>8
    <2>5. QED
      BY <2>1, <2>2, <2>3, <2>4, SameVerification DEF row, new
  <1>9. QED
    BY <1>7, <1>8

LEMMA VerificationsApply ==
    ASSUME BaseInv, VerificationsReplaySafe, NEW w \in Ingesters, Apply(w),
           NEW e, Applies(w, e)
    PROVE  VerificationsReplaySafe'
  <1> SUFFICES ASSUME NEW c \in Contracts, ContractName[c] = "verification", Sole(c)
               PROVE  db'.verification = Once(c)'.verification
    BY DEF VerificationsReplaySafe, Once, Sole
  <1>1. db.verification = Once(c).verification
    BY DEF VerificationsReplaySafe, Once
  <1>2. /\ e \in Event /\ db \in Tables /\ Once(c) \in Tables
        /\ db' = ApplyEvent(db, e)
    BY OnceStep DEF BaseInv, VInv, LInv, IInv, TypeOK, Applies
  <1>3. CASE c # e.contract_id
    BY <1>1, <1>3, OtherContract
  <1>4. CASE c = e.contract_id /\ e \notin applied
    <2>1. Once(c)' = ApplyEvent(Once(c), e)
      BY <1>4, OnceStep
    <2>2. ASSUME NEW k \in Keys
          PROVE  ApplyEvent(db, e).verification[k] = ApplyEvent(Once(c), e).verification[k]
      <3>1. db.verification[k] = Once(c).verification[k]
        BY <1>1
      <3>2. QED
        BY <1>2, <3>1, VerificationWritten
    <2>3. ApplyEvent(db, e) \in Tables /\ ApplyEvent(Once(c), e) \in Tables
      BY <1>2, ApplyEventType
    <2>4. ApplyEvent(db, e).verification = ApplyEvent(Once(c), e).verification
      BY <2>2, <2>3 DEF Tables
    <2>5. QED
      BY <1>2, <2>1, <2>4
  <1>5. CASE e \in applied
    <2>1. \A k \in Keys : db'.verification[k] = db.verification[k]
      BY <1>5, VerificationsAgain
    <2>2. db' \in Tables
      BY <1>2, ApplyEventType
    <2>3. db'.verification = db.verification
      BY <1>2, <2>1, <2>2 DEF Tables
    <2>4. Once(c)' = Once(c)
      BY <1>5, OnceStep
    <2>5. QED
      BY <1>1, <2>3, <2>4
  <1>6. QED
    BY <1>3, <1>4, <1>5

-----------------------------------------------------------------------------
(* What the upsert of a creation keeps: the status of a financing, the     *)
(* released amount of an escrow.                                           *)

\* Nothing happens to an object after its closing.
LEMMA NothingAfterClosing ==
    ASSUME LegalInv, NEW e \in chain, NEW f \in chain,
           e.contract_id = f.contract_id, e.body.key = f.body.key,
           f.body.event_name \in Closings
    PROVE  ~IsAfter(e.at, f.at)
  <1>1. Legal(e, chain)
    BY DEF LegalInv
  <1>2. QED
    BY <1>1 DEF Legal

\* What apply_event does to the status of a financing.
LEMMA FinancingStatus ==
    ASSUME NEW d \in Tables, NEW e \in Event, NEW k \in Keys, d.financing[k] # NoRow
    PROVE  LET Is(ev) == /\ ContractName[e.contract_id] = "financing"
                         /\ e.body.key = k /\ e.body.event_name = ev
           IN  ApplyEvent(d, e).financing[k].status =
                   IF Is("FinancingRefunded") THEN Refunded(e)
                   ELSE d.financing[k].status
  <1>1. d.financing[k] \in FinancingRow \cup {NoRow}
    BY DEF Tables
  <1>2. QED
    BY <1>1, FinancingWritten, FinancingBuilders DEF Refunded

\* What it does to the amounts of an escrow.
LEMMA EscrowAmounts ==
    ASSUME NEW d \in Tables, NEW e \in Event, NEW k \in Keys, d.escrow[k] # NoRow
    PROVE  LET row == d.escrow[k]
               Is(ev) == /\ ContractName[e.contract_id] = "escrow"
                         /\ e.body.key = k /\ e.body.event_name = ev
           IN  ApplyEvent(d, e).escrow[k].released_amount =
                   IF Is("EscrowRefunded") THEN row.amount
                   ELSE IF Is("EscrowReleased") THEN row.released_amount + e.body.amount
                   ELSE row.released_amount
  <1>1. d.escrow[k] \in EscrowRow \cup {NoRow}
    BY DEF Tables
  <1>2. QED
    BY <1>1, EscrowWritten, EscrowBuilders

\* An event applied for the first time follows everything applied before, so
\* nothing was closed that it is about.
LEMMA FirstFollows ==
    ASSUME BaseInv, NEW w \in Ingesters, NEW e, Applies(w, e), e \notin applied,
           NEW f \in Of(applied, e.contract_id)
    PROVE  /\ IsAfter(e.at, f.at)
           /\ f.body.key = e.body.key => f.body.event_name \notin Closings
  <1>1. IsAfter(e.at, f.at)
    BY DEF Applies, Earlier
  <1>2. f \in chain /\ f.contract_id = e.contract_id /\ e \in chain /\ LegalInv
    BY DEF BaseInv, VInv, LInv, IInv, FinalityGate, Of, Applies
  <1>3. QED
    BY <1>1, <1>2, NothingAfterClosing

LEMMA StatusApply ==
    ASSUME BaseInv, RowsInv, StatusInv, NEW w \in Ingesters, NEW e, Applies(w, e)
    PROVE  StatusInv'
  <1> SUFFICES ASSUME NEW c \in Contracts, Sole(c), ContractName[c] = "financing",
                      NEW k \in Keys, Once(c)'.financing[k] # NoRow
               PROVE  /\ db'.financing[k].status = Once(c)'.financing[k].status
                      /\ \A f \in AppliedTo(c, k, "FinancingRefunded")' :
                            Once(c)'.financing[k].status = Refunded(f)
    BY DEF StatusInv, Sole
  <1> DEFINE row == db.financing[k]
             once == Once(c).financing[k]
             Is(ev) == e.body.key = k /\ e.body.event_name = ev
  <1>1. row = NoRow <=> once = NoRow
    BY DEF RowsInv
  <1>2. once # NoRow =>
          /\ row.status = once.status
          /\ \A f \in AppliedTo(c, k, "FinancingRefunded") : once.status = Refunded(f)
    BY DEF StatusInv
  <1>3. /\ e \in Event /\ db \in Tables /\ Once(c) \in Tables
        /\ db' = ApplyEvent(db, e) /\ applied' = applied \cup {e}
    BY OnceStep DEF BaseInv, VInv, LInv, IInv, TypeOK, Applies
  <1>4. CASE c # e.contract_id
    <2>1. db'.financing = db.financing /\ Once(c)' = Once(c) /\ Of(applied', c) = Of(applied, c)
      BY <1>4, OtherContract
    <2>2. AppliedTo(c, k, "FinancingRefunded")' = AppliedTo(c, k, "FinancingRefunded")
      BY <2>1 DEF AppliedTo
    <2>3. QED
      BY <1>2, <2>1, <2>2
  <1>5. CASE c = e.contract_id /\ e \in applied
    <2>1. Once(c)' = Once(c) /\ applied' = applied
      BY <1>3, <1>5, OnceStep
    <2>2. AppliedTo(c, k, "FinancingRefunded")' = AppliedTo(c, k, "FinancingRefunded")
      BY <2>1 DEF AppliedTo, Of
    <2>3. Is("FinancingRefunded") => e \in AppliedTo(c, k, "FinancingRefunded")
      BY <1>5 DEF AppliedTo, Of
    <2>4. db'.financing[k].status =
            IF Is("FinancingRefunded") THEN Refunded(e) ELSE row.status
      BY <1>1, <1>3, <1>5, <2>1, FinancingStatus
    <2>5. QED
      BY <1>2, <2>1, <2>2, <2>3, <2>4
  <1>6. CASE c = e.contract_id /\ e \notin applied
    <2>1. Once(c)' = ApplyEvent(Once(c), e)
      BY <1>6, OnceStep
    <2>2. AppliedTo(c, k, "FinancingRefunded")' =
            IF Is("FinancingRefunded") THEN AppliedTo(c, k, "FinancingRefunded") \cup {e}
            ELSE AppliedTo(c, k, "FinancingRefunded")
      BY <1>3, <1>6 DEF AppliedTo, Of
    <2>3. ASSUME NEW f \in AppliedTo(c, k, "FinancingRefunded"), e.body.key = k
          PROVE  FALSE
      <3>1. /\ f \in Of(applied, e.contract_id) /\ f.body.key = e.body.key
            /\ f.body.event_name \in Closings
        BY <1>6, <2>3 DEF AppliedTo, Closings
      <3>2. QED
        BY <1>6, <3>1, FirstFollows
    <2>4. CASE once # NoRow
      <3>1. Once(c)'.financing[k].status =
              IF Is("FinancingRefunded") THEN Refunded(e) ELSE once.status
        BY <1>3, <1>6, <2>1, <2>4, FinancingStatus
      <3>2. db'.financing[k].status =
              IF Is("FinancingRefunded") THEN Refunded(e) ELSE row.status
        BY <1>1, <1>3, <1>6, <2>4, FinancingStatus
      <3>3. QED
        BY <1>2, <2>2, <2>3, <2>4, <3>1, <3>2
    <2>5. CASE once = NoRow
      <3>1. db'.financing[k] = Once(c)'.financing[k]
        BY <1>1, <1>3, <2>1, <2>5, FinancingWritten
      <3>2. Is("FinancingCreated")
        BY <1>3, <1>6, <2>1, <2>5, RowMade DEF CreationOf
      <3>3. QED
        BY <2>2, <2>3, <3>1, <3>2
    <2>6. QED
      BY <2>4, <2>5
  <1>7. QED
    BY <1>4, <1>5, <1>6

LEMMA RefundApply ==
    ASSUME BaseInv, RefundInv, NEW w \in Ingesters, NEW e, Applies(w, e)
    PROVE  RefundInv'
  <1> SUFFICES ASSUME NEW c \in Contracts, Sole(c), ContractName[c] = "escrow",
                      NEW k \in Keys, NEW f \in AppliedTo(c, k, "EscrowRefunded")',
                      Once(c)'.escrow[k] # NoRow
               PROVE  LET held == Replay(Earlier(f)').escrow[k]
                      IN  held # NoRow /\ Once(c)'.escrow[k].released_amount = held.amount
    BY DEF RefundInv, Sole
  <1> DEFINE once == Once(c).escrow[k]
             held == Replay(Earlier(f)).escrow[k]
  <1>1. /\ e \in Event /\ db \in Tables /\ Once(c) \in Tables
        /\ applied' = applied \cup {e}
    BY OnceStep DEF BaseInv, VInv, LInv, IInv, TypeOK, Applies
  <1>2. /\ f \in applied' /\ f.contract_id = c /\ f.body.key = k
        /\ f.body.event_name = "EscrowRefunded" /\ f.body.event_name \in Closings
    BY DEF AppliedTo, Of, Closings
  <1>3. CASE f \in applied
    <2>1. f \in AppliedTo(c, k, "EscrowRefunded") /\ f \in Of(applied, c)
      BY <1>2, <1>3 DEF AppliedTo, Of
    <2>2. once # NoRow => held # NoRow /\ once.released_amount = held.amount
      BY <2>1 DEF RefundInv
    <2>3. CASE c = e.contract_id /\ e \notin applied
      <3>1. IsAfter(e.at, f.at) /\ e.body.key # k
        BY <1>2, <2>1, <2>3, FirstFollows
      <3>2. e.at \in Position /\ f.at \in Position
        BY <1>1, <2>1, EventFields, Replayable
      <3>3. ~IsAfter(f.at, e.at)
        BY <3>1, <3>2, AfterFacts
      <3>4. Earlier(f)' = Earlier(f)
        BY <1>1, <3>3 DEF Earlier, Of
      <3>5. Once(c)'.escrow[k] = once
        BY <1>1, <2>3, <3>1, OnceStep, EscrowWritten
      <3>6. QED
        BY <2>2, <3>4, <3>5
    <2>4. CASE ~(c = e.contract_id /\ e \notin applied)
      <3>1. Once(c)' = Once(c)
        BY <2>4, OnceStep
      <3>2. Earlier(f)' = Earlier(f)
        BY <1>1, <1>2, <2>4 DEF Earlier, Of
      <3>3. QED
        BY <2>2, <3>1, <3>2
    <2>5. QED
      BY <2>3, <2>4
  <1>4. CASE f \notin applied
    <2>1. f = e /\ c = e.contract_id /\ e \notin applied
      BY <1>1, <1>2, <1>4
    <2>2. Earlier(e) = Of(applied, c)
      BY <2>1 DEF Applies
    <2>3. ~IsAfter(e.at, e.at)
      BY <1>1, EventFields, AfterFacts
    <2>4. Earlier(f)' = Of(applied, c)
      BY <1>1, <2>1, <2>2, <2>3 DEF Earlier, Of
    <2>5. Once(c)' = ApplyEvent(Once(c), e)
      BY <2>1, OnceStep
    <2>6. once # NoRow
      BY <1>1, <1>2, <2>1, <2>5, RowMade DEF CreationOf
    <2>7. Once(c)'.escrow[k].released_amount = once.amount
      BY <1>1, <1>2, <2>1, <2>5, <2>6, EscrowAmounts
    <2>8. QED
      BY <2>4, <2>6, <2>7 DEF Once
  <1>5. QED
    BY <1>3, <1>4

-----------------------------------------------------------------------------
(* Any number of indexer processes.                                        *)

RInv ==
    /\ BaseInv
    /\ RowsInv
    /\ VerificationsReplaySafe
    /\ StatusInv
    /\ RefundInv

LEMMA RInvInit == Init => RInv
  <1> SUFFICES ASSUME Init
               PROVE  RInv
    OBVIOUS
  <1>1. BaseInv
    BY VInvInit, FS_EmptySet DEF BaseInv, Init, OrderInv
  <1>2. applied = {} /\ db = EmptyTables
    BY DEF Init
  <1>3. ASSUME NEW c
        PROVE  Of(applied, c) = {} /\ Once(c) = EmptyTables
    BY <1>2, ReplayEmpty DEF Of, Once
  <1>4. ASSUME NEW n \in Names, NEW k \in Keys
        PROVE  EmptyTables[n][k] = NoRow
    BY DEF EmptyTables, EmptyTable, Names
  <1>5. \A c \in Contracts : ContractName[c] \in Names
    BY ContractNameAssumption DEF ContractNameAssumption
  <1>6. RowsInv
    BY <1>2, <1>3, <1>4, <1>5 DEF RowsInv
  <1>7. VerificationsReplaySafe
    BY <1>2, <1>3 DEF VerificationsReplaySafe, Once
  <1>8. StatusInv
    BY <1>3, <1>4, <1>5 DEF StatusInv
  <1>9. RefundInv
    BY <1>3 DEF RefundInv, AppliedTo
  <1>10. QED
    BY <1>1, <1>6, <1>7, <1>8, <1>9 DEF RInv

LEMMA RInvStep ==
    ASSUME ~RewindWhileRunning
    PROVE  RInv /\ [Next]_vars => RInv'
  <1> SUFFICES ASSUME RInv, [Next]_vars
               PROVE  RInv'
    OBVIOUS
  <1>1. VInv'
    BY VInvStep DEF RInv, BaseInv
  <1>2. BaseInv'
    <2>1. LInv /\ TypeOK'
      BY <1>1 DEF RInv, BaseInv, VInv, LInv, IInv
    <2>2. \A w \in Ingesters : OrderInv(w)'
      BY <2>1, OrderStep DEF RInv, BaseInv
    <2>3. IsFiniteSet(chain')
      BY ChainFinite DEF RInv, BaseInv
    <2>4. QED
      BY <1>1, <2>2, <2>3 DEF BaseInv
  <1>3. CASE db' = db /\ applied' = applied
    <2>1. ASSUME NEW c
          PROVE  Of(applied, c)' = Of(applied, c) /\ Once(c)' = Once(c)
      BY <1>3 DEF Of, Once
    <2>2. RowsInv'
      BY <1>3, <2>1 DEF RInv, RowsInv, Sole
    <2>3. VerificationsReplaySafe'
      BY <1>3, <2>1 DEF RInv, VerificationsReplaySafe, Sole
    <2>4. StatusInv'
      BY <1>3, <2>1 DEF RInv, StatusInv, AppliedTo, Sole
    <2>5. RefundInv'
      BY <1>3, <2>1 DEF RInv, RefundInv, AppliedTo, Earlier, Sole
    <2>6. QED
      BY <1>2, <2>2, <2>3, <2>4, <2>5 DEF RInv
  <1>4. ASSUME NEW w \in Ingesters, Apply(w)
        PROVE  RInv'
    <2>1. PICK e \in pending[w] : Applies(w, e)
      BY <1>4, ApplyFacts DEF RInv
    <2>2. RowsInv' /\ VerificationsReplaySafe' /\ StatusInv' /\ RefundInv'
      BY <1>4, <2>1, RowsApply, VerificationsApply, StatusApply, RefundApply DEF RInv
    <2>3. QED
      BY <1>2, <2>2 DEF RInv
  <1>5. QED
    BY <1>3, <1>4, ProjectionSteps

\* If rewind is only run while its contract is not being ingested, then for
\* any number of indexer processes whose passes interleave, fail and are
\* restarted, the verification table is at every moment what a single replay
\* of the applied events gives: the upserts of projections.rs are idempotent
\* for verifications.
THEOREM VerificationsAreReplaySafe ==
    ASSUME ~RewindWhileRunning
    PROVE  Spec => []VerificationsReplaySafe
  <1>1. Init => RInv
    BY RInvInit
  <1>2. RInv /\ [Next]_vars => RInv'
    BY RInvStep
  <1>3. RInv => VerificationsReplaySafe
    BY DEF RInv
  <1>4. QED
    BY <1>1, <1>2, <1>3, PTL DEF Spec

-----------------------------------------------------------------------------
(* A single indexer process.                                               *)

\* A pass in its last stage reproduces what its events give.
LEMMA PassRowsStep ==
    ASSUME BaseInv, TypeOK', [Next]_vars, \A v, w \in Ingesters : v = w,
           NEW w \in Ingesters, PassRowsInv(w)
    PROVE  PassRowsInv(w)'
  <1>1. TypeOK
    BY DEF BaseInv, VInv, LInv, IInv
  <1> SUFFICES ASSUME pc'[w] = "apply", Sole(contract'[w]), NEW k \in Keys,
                      Replay(Done(w))'[ContractName[contract'[w]]][k] # NoRow
               PROVE  LET n == ContractName[contract'[w]]
                      IN  /\ db'[n][k] # NoRow
                          /\ Agrees(n, db'[n][k], Replay(Done(w))'[n][k])
    BY DEF PassRowsInv, Sole
  <1>2. ContractName[contract'[w]] \in Names
    BY ContractNameAssumption DEF ContractNameAssumption, TypeOK
  <1>3. CASE FinalizedEvents(w)
    <2>1. Done(w)' = {}
      BY <1>1, <1>3 DEF FinalizedEvents, Done, TypeOK
    <2>2. Replay(Done(w))' = EmptyTables
      BY <2>1, ReplayEmpty
    <2>3. QED
      BY <1>2, <2>2 DEF EmptyTables, EmptyTable, Names
  <1>4. CASE Apply(w)
    <2>1. PICK e \in pending[w] : Applies(w, e)
      BY <1>4, ApplyFacts
    <2> DEFINE r == Replay(Done(w))
               n == ContractName[contract[w]]
    <2>2. pc[w] = "apply" /\ contract' = contract
      BY <1>4 DEF Apply
    <2>3. r \in Tables /\ Replay(Done(w))' = ApplyEvent(r, e)
      BY <2>1, DoneStep
    <2>4. /\ e \in Event /\ db \in Tables /\ db' = ApplyEvent(db, e)
          /\ ContractName[e.contract_id] = n /\ n \in Names
      BY <1>1, <1>2, <2>1, <2>2 DEF TypeOK, Applies
    <2>5. r[n][k] # NoRow => db[n][k] # NoRow /\ Agrees(n, db[n][k], r[n][k])
      BY <2>2 DEF PassRowsInv
    <2>6. ApplyEvent(r, e)[n][k] # NoRow
      BY <2>2, <2>3
    <2> HIDE DEF r
    <2>7. ApplyEvent(db, e)[n][k] # NoRow
      BY <2>3, <2>4, <2>5, <2>6, RowMade
    <2>8. Agrees(n, ApplyEvent(db, e)[n][k], ApplyEvent(r, e)[n][k])
      <3>1. CASE n = "verification"
        BY <3>1 DEF Agrees
      <3>2. CASE n = "escrow"
        BY <2>3, <2>4, <2>5, <2>6, <3>2, EscrowAgreement DEF Agrees
      <3>3. CASE n = "financing"
        BY <2>3, <2>4, <2>5, <2>6, <3>3, FinancingAgreement DEF Agrees
      <3>4. CASE n = "identity"
        BY <2>3, <2>4, <2>5, <2>6, <3>4, IdentityAgreement DEF Agrees
      <3>5. QED
        BY <2>4, <3>1, <3>2, <3>3, <3>4 DEF Names
    <2>9. QED
      BY <2>2, <2>3, <2>4, <2>7, <2>8
  <1>5. CASE ~FinalizedEvents(w) /\ ~Apply(w)
    <2>1. /\ pc[w] = "apply" /\ contract'[w] = contract[w]
          /\ pending'[w] = pending[w] /\ finalized'[w] = finalized[w]
      BY <1>1, <1>5, PassFrame
    <2>2. Done(w)' = Done(w)
      BY <2>1 DEF Done
    <2>3. db' = db
      BY <1>5, ProjectionSteps
    <2>4. QED
      BY <2>1, <2>2, <2>3 DEF PassRowsInv
  <1>6. QED
    BY <1>3, <1>4, <1>5

\* The released amount of an escrow is not below the reference.
LEMMA ReleasesApply ==
    ASSUME BaseInv, RowsInv, RowsInv', RefundInv, ReleasesNotLost,
           NEW w \in Ingesters, PassRowsInv(w), pc[w] = "apply",
           NEW e, Applies(w, e)
    PROVE  ReleasesNotLost'
  <1> SUFFICES ASSUME NEW c \in Contracts, Sole(c), ContractName[c] = "escrow",
                      NEW k \in Keys, Once(c)'.escrow[k] # NoRow
               PROVE  /\ db'.escrow[k] # NoRow
                      /\ db'.escrow[k].released_amount
                           >= Once(c)'.escrow[k].released_amount
    BY DEF ReleasesNotLost, Once, Sole
  <1> DEFINE row == db.escrow[k]
             once == Once(c).escrow[k]
             Is(ev) == e.body.key = k /\ e.body.event_name = ev
  <1>1. db'.escrow[k] # NoRow
    BY DEF RowsInv, Sole
  <1>2. row = NoRow <=> once = NoRow
    BY DEF RowsInv
  <1>3. once # NoRow => row.released_amount >= once.released_amount
    BY DEF ReleasesNotLost, Once
  <1>4. /\ e \in Event /\ db \in Tables /\ Once(c) \in Tables
        /\ db' = ApplyEvent(db, e) /\ applied' = applied \cup {e}
        /\ e.contract_id = contract[w]
    BY OnceStep DEF BaseInv, VInv, LInv, IInv, TypeOK, Applies
  <1>5. /\ e.body.amount \in Int /\ e.body.amount >= 0
    <2>1. e.body.amount \in Nat
      BY <1>4, AmountsAssumption DEF Event, Body, AmountsAssumption
    <2>2. QED
      BY <2>1
  <1>6. /\ row # NoRow => row.amount \in Int /\ row.released_amount \in Int
        /\ once # NoRow => once.amount \in Int /\ once.released_amount \in Int
    BY <1>4 DEF Tables, EscrowRow
  <1>7. CASE c # e.contract_id
    <2>1. db'.escrow = db.escrow /\ Once(c)' = Once(c)
      BY <1>7, OtherContract
    <2>2. QED
      BY <1>1, <1>3, <2>1
  <1>8. CASE c = e.contract_id /\ once # NoRow
    <2>1. row # NoRow /\ row.released_amount >= once.released_amount
      BY <1>2, <1>3, <1>8
    <2>2. db'.escrow[k].released_amount =
            IF Is("EscrowRefunded") THEN row.amount
            ELSE IF Is("EscrowReleased") THEN row.released_amount + e.body.amount
            ELSE row.released_amount
      BY <1>4, <1>8, <2>1, EscrowAmounts
    <2>3. Replay(Done(w)).escrow[k] # NoRow
            => row.amount = Replay(Done(w)).escrow[k].amount
      BY <1>4, <1>8 DEF PassRowsInv, Agrees, EscrowAgrees
    <2>4. CASE e \notin applied
      <3>1. Once(c)'.escrow[k].released_amount =
              IF Is("EscrowRefunded") THEN once.amount
              ELSE IF Is("EscrowReleased") THEN once.released_amount + e.body.amount
              ELSE once.released_amount
        BY <1>4, <1>8, <2>4, OnceStep, EscrowAmounts
      <3>2. Done(w) = Of(applied, c)
        BY <1>8, <2>4 DEF Applies
      <3>3. row.amount = once.amount
        BY <1>8, <2>3, <3>2 DEF Once
      <3> HIDE DEF row, once
      <3>4. QED
        BY <1>1, <1>5, <1>6, <1>8, <2>1, <2>2, <3>1, <3>3
    <2>5. CASE e \in applied
      <3>1. Once(c)'.escrow[k] = once
        BY <2>5, OnceStep
      <3>2. Is("EscrowRefunded") => row.amount = once.released_amount
        <4> SUFFICES ASSUME Is("EscrowRefunded")
                     PROVE  row.amount = once.released_amount
          OBVIOUS
        <4>1. e \in AppliedTo(c, k, "EscrowRefunded")
          BY <1>8, <2>5 DEF AppliedTo, Of
        <4>2. /\ Replay(Earlier(e)).escrow[k] # NoRow
              /\ once.released_amount = Replay(Earlier(e)).escrow[k].amount
          BY <1>8, <4>1 DEF RefundInv
        <4>3. Done(w) = Earlier(e)
          BY DEF Applies
        <4>4. QED
          BY <2>3, <4>2, <4>3
      <3> HIDE DEF row, once
      <3>3. QED
        BY <1>1, <1>5, <1>6, <1>8, <2>1, <2>2, <3>1, <3>2
    <2>6. QED
      BY <2>4, <2>5
  <1>9. CASE c = e.contract_id /\ once = NoRow
    <2>1. Once(c)' = ApplyEvent(Once(c), e)
      BY <1>9, OnceStep
    <2>2. db'.escrow[k] = Once(c)'.escrow[k]
      BY <1>2, <1>4, <1>9, <2>1, EscrowWritten
    <2>3. Once(c)'.escrow[k] \in EscrowRow
      BY <1>4, <2>1, ApplyEventType DEF Tables
    <2>4. db'.escrow[k].released_amount \in Int
      BY <2>2, <2>3 DEF EscrowRow
    <2>5. QED
      BY <1>1, <2>2, <2>4
  <1>10. QED
    BY <1>7, <1>8, <1>9

\* Without re-orgs a pass covers what was applied before it.
LEMMA CoversStep ==
    ASSUME BaseInv, TypeOK', CoversInv, [Next]_vars, \A v, w \in Ingesters : v = w
    PROVE  CoversInv'
  <1>1. IInv /\ TypeOK /\ LInv
    BY DEF BaseInv, VInv, LInv, IInv
  <1> SUFFICES ASSUME reorgs' = 0
               PROVE  CoversInv'
    BY DEF CoversInv
  <1>2. reorgs = 0 /\ ~\E l \in 1..MaxHead : Reorg(l)
    <2>1. reorgs \in Nat
      BY <1>1, BoundsAssumption DEF TypeOK, BoundsAssumption
    <2>2. ASSUME NEW l \in 1..MaxHead, Reorg(l)
          PROVE  FALSE
      BY <2>1, <2>2 DEF Reorg
    <2>3. reorgs' = reorgs
      BY <2>2, ChainSteps DEF CloseLedger
    <2>4. QED
      BY <2>2, <2>3
  <1>3. /\ head = tip
        /\ \A c \in Contracts : fork[c] = NoFork
        /\ applied \subseteq indexed_events
        /\ \A w \in Ingesters :
              /\ pc[w] \in {"append", "set_cursor", "select"} =>
                    \A e \in applied : Ledger(e) =< floor[w]
              /\ pc[w] = "apply" => Covers(w)
    BY <1>2 DEF CoversInv
  <1> DEFINE Floors(v) == pc[v] \in {"append", "set_cursor", "select"} =>
                             \A e \in applied : Ledger(e) =< floor[v]
             Selected(v) == pc[v] = "apply" => Covers(v)
  <1>4. CASE CloseLedger
    <2>1. head' = tip'
      BY <1>1, <1>3, <1>4, Facts DEF CloseLedger
    <2>2. UNCHANGED <<fork, applied, indexed_events, pc, floor, contract, finalized>>
      BY <1>4 DEF CloseLedger, storeVars, projVars, localVars, rewindVars
    <2>3. QED
      BY <1>3, <2>1, <2>2 DEF CoversInv, Covers, Of
  <1>5. CASE UNCHANGED vars
    BY <1>3, <1>5 DEF vars, chainVars, storeVars, projVars, localVars, rewindVars,
                      CoversInv, Covers, Of
  <1>6. ASSUME NEW c \in Contracts, RewindEvents(c) \/ RewindCursor(c) \/ RewindFails(c)
        PROVE  CoversInv'
    <2>1. ~RewindEvents(c)
      BY <1>3 DEF RewindEvents
    <2>2. UNCHANGED <<head, tip, applied, indexed_events, pc, floor, contract, finalized>>
      BY <1>6, <2>1 DEF RewindCursor, RewindFails, chainVars, storeVars, projVars, localVars
    <2>3. \A d \in Contracts : fork'[d] = NoFork
      BY <1>1, <1>3, <1>6, <2>1 DEF RewindCursor, RewindFails, TypeOK
    <2>4. QED
      BY <1>3, <2>2, <2>3 DEF CoversInv, Covers, Of
  <1>7. ASSUME NEW w \in Ingesters, Ingest(w) \/ IngestError(w) \/ Restart(w)
        PROVE  CoversInv'
    <2>1. UNCHANGED <<head, tip, fork>>
      BY <1>7 DEF Ingest, GetCursor, EventsAfter, HeadLedger, AppendEvents, SetCursor,
                  FinalizedEvents, Apply, ApplyFails, IngestDone, IngestError, Restart,
                  chainVars, rewindVars
    <2>2. \A v \in Ingesters : v = w
      BY <1>7
    <2>3. ASSUME applied' \subseteq indexed_events', Floors(w)', Selected(w)'
          PROVE  CoversInv'
      BY <1>3, <2>1, <2>2, <2>3 DEF CoversInv
    <2>4. CASE Apply(w)
      <3>1. PICK e \in pending[w] : Applies(w, e)
        BY <2>4, ApplyFacts
      <3>2. /\ pc[w] = "apply"
            /\ UNCHANGED <<pc, contract, finalized, floor, indexed_events>>
        BY <2>4 DEF Apply, storeVars
      <3>3. e \in indexed_events /\ e \in finalized[w] /\ applied' = applied \cup {e}
        BY <1>1, <3>1, <3>2 DEF LInv, PassInv, BaseInv, OrderInv, Applies
      <3>4. Covers(w)'
        BY <1>3, <3>2, <3>3 DEF Covers, Of
      <3>5. QED
        BY <1>3, <2>3, <3>2, <3>3, <3>4
    <2>5. CASE HeadLedger(w)
      <3>1. /\ applied' = applied /\ indexed_events' = indexed_events
            /\ pc'[w] = "append" /\ floor'[w] = head - Cutoff
        BY <1>1, <2>5 DEF HeadLedger, projVars, storeVars, TypeOK
      <3>2. \A e \in applied : Ledger(e) =< floor'[w]
        BY <1>1, <1>3, <3>1 DEF IInv, FinalityGate
      <3>3. QED
        BY <1>3, <2>3, <3>1, <3>2
    <2>6. CASE AppendEvents(w)
      <3>1. /\ applied' = applied /\ floor' = floor
            /\ pc[w] = "append" /\ pc'[w] \in {"append", "set_cursor"}
            /\ indexed_events \subseteq indexed_events'
        BY <1>1, <2>6 DEF AppendEvents, InsertEvent, projVars, TypeOK
      <3>2. QED
        BY <1>3, <2>3, <3>1
    <2>7. CASE SetCursor(w)
      <3>1. /\ applied' = applied /\ floor' = floor /\ indexed_events' = indexed_events
            /\ pc[w] = "set_cursor" /\ pc'[w] = "select"
        BY <1>1, <2>7 DEF SetCursor, projVars, TypeOK
      <3>2. QED
        BY <1>3, <2>3, <3>1
    <2>8. CASE FinalizedEvents(w)
      <3>1. /\ applied' = applied /\ indexed_events' = indexed_events
            /\ contract' = contract /\ pc[w] = "select" /\ pc'[w] = "apply"
            /\ finalized'[w] =
                 {e \in Of(indexed_events, contract[w]) : Ledger(e) =< floor[w]}
        BY <1>1, <2>8 DEF FinalizedEvents, projVars, storeVars, TypeOK
      <3>2. Covers(w)'
        BY <1>3, <3>1 DEF Covers, Of
      <3>3. QED
        BY <1>3, <2>3, <3>1, <3>2
    <2>9. CASE \/ GetCursor(w) \/ EventsAfter(w) \/ ApplyFails(w) \/ IngestDone(w)
               \/ IngestError(w) \/ Restart(w)
      <3>1. applied' = applied /\ indexed_events' = indexed_events
        BY <2>9 DEF GetCursor, EventsAfter, ApplyFails, IngestDone, IngestError, Restart,
                    projVars, storeVars
      <3>2. ASSUME NEW next, Return(w, next)
            PROVE  pc'[w] = "idle"
        BY <1>1, <3>2 DEF Return, TypeOK
      <3>3. pc'[w] \in {"idle", "pull", "head"}
        <4>1. CASE GetCursor(w)
          BY <1>1, <4>1 DEF GetCursor, TypeOK
        <4>2. CASE EventsAfter(w)
          BY <1>1, <3>2, <4>2 DEF EventsAfter, TypeOK
        <4>3. CASE ApplyFails(w) \/ IngestDone(w) \/ IngestError(w) \/ Restart(w)
          BY <3>2, <4>3 DEF ApplyFails, IngestDone, IngestError, Restart
        <4>4. QED
          BY <2>9, <4>1, <4>2, <4>3
      <3>4. QED
        BY <1>3, <2>3, <3>1, <3>3
    <2>10. QED
      BY <1>7, <2>4, <2>5, <2>6, <2>7, <2>8, <2>9 DEF Ingest
  <1>8. QED
    BY <1>2, <1>4, <1>5, <1>6, <1>7 DEF Next

SInv ==
    /\ RInv
    /\ \A w \in Ingesters : PassRowsInv(w)
    /\ CoversInv
    /\ ReleasesNotLost

LEMMA SInvInit == Init => SInv
  <1> SUFFICES ASSUME Init
               PROVE  SInv
    OBVIOUS
  <1>1. RInv
    BY RInvInit
  <1>2. (\A w \in Ingesters : PassRowsInv(w)) /\ CoversInv
    BY DEF Init, PassRowsInv, CoversInv
  <1>3. ASSUME NEW c \in Contracts, NEW k \in Keys
        PROVE  Replay(Of(applied, c)).escrow[k] = NoRow
    <2>1. Of(applied, c) = {}
      BY DEF Init, Of
    <2>2. QED
      BY <2>1, ReplayEmpty DEF EmptyTables, EmptyTable
  <1>4. ReleasesNotLost
    BY <1>3 DEF ReleasesNotLost
  <1>5. QED
    BY <1>1, <1>2, <1>4 DEF SInv

LEMMA SInvStep ==
    ASSUME ~RewindWhileRunning, \A v, w \in Ingesters : v = w
    PROVE  SInv /\ [Next]_vars => SInv'
  <1> SUFFICES ASSUME SInv, [Next]_vars
               PROVE  SInv'
    OBVIOUS
  <1>1. RInv'
    BY RInvStep DEF SInv
  <1>2. BaseInv /\ TypeOK'
    BY <1>1 DEF SInv, RInv, BaseInv, VInv, LInv, IInv
  <1>3. \A w \in Ingesters : PassRowsInv(w)'
    BY <1>2, PassRowsStep DEF SInv
  <1>4. CoversInv'
    BY <1>2, CoversStep DEF SInv
  <1>5. CASE db' = db /\ applied' = applied
    <2>1. \A c : Of(applied, c)' = Of(applied, c)
      BY <1>5 DEF Of
    <2>2. ReleasesNotLost'
      BY <1>5, <2>1 DEF SInv, ReleasesNotLost, Sole
    <2>3. QED
      BY <1>1, <1>3, <1>4, <2>2 DEF SInv
  <1>6. ASSUME NEW w \in Ingesters, Apply(w)
        PROVE  SInv'
    <2>1. PICK e \in pending[w] : Applies(w, e)
      BY <1>2, <1>6, ApplyFacts
    <2>2. pc[w] = "apply"
      BY <1>6 DEF Apply
    <2>3. ReleasesNotLost'
      BY <1>1, <2>1, <2>2, ReleasesApply DEF SInv, RInv
    <2>4. QED
      BY <1>1, <1>3, <1>4, <2>3 DEF SInv
  <1>7. QED
    BY <1>5, <1>6, ProjectionSteps

\* Two escrow rows that agree are equal but for what releases add to.
LEMMA SameButReleases ==
    ASSUME NEW row \in EscrowRow, NEW ref \in EscrowRow, EscrowAgrees(row, ref)
    PROVE  ButReleases(row) = ButReleases(ref)
  <1> DEFINE cols == {"contract_id", "amount", "created_ledger", "updated_ledger"}
  <1>1. row # NoRow /\ ref # NoRow
    BY NoRowAssumption DEF NoRowAssumption
  <1>2. /\ DOMAIN row = cols \cup {"released_amount", "status"}
        /\ DOMAIN ref = cols \cup {"released_amount", "status"}
    BY DEF EscrowRow
  <1>3. /\ ButReleases(row) = [c \in cols |-> row[c]]
        /\ ButReleases(ref) = [c \in cols |-> ref[c]]
    <2>1. (cols \cup {"released_amount", "status"}) \ {"released_amount", "status"} = cols
      OBVIOUS
    <2>2. "released_amount" \in cols \cup {"released_amount", "status"}
      OBVIOUS
    <2> HIDE DEF cols
    <2>3. QED
      BY <1>1, <1>2, <2>1, <2>2 DEF ButReleases
  <1>4. \A c \in cols : row[c] = ref[c]
    BY DEF EscrowAgrees
  <1> HIDE DEF cols
  <1>5. QED
    BY <1>3, <1>4

\* Two financings that agree and have the same status are equal.
LEMMA SameFinancing ==
    ASSUME NEW row \in FinancingRow, NEW ref \in FinancingRow,
           FinancingAgrees(row, ref), row.status = ref.status
    PROVE  row = ref
  BY DEF FinancingAgrees, FinancingRow

LEMMA ReplaySafeAtEnd ==
    ASSUME SInv
    PROVE  ReplaySafeButReleases
  <1> SUFFICES ASSUME NEW w \in Ingesters, AtEnd(w), Sole(contract[w]),
                      reorgs = 0 \/ Covers(w), NEW k \in Keys
               PROVE  ButReleases(Table(w)[k]) = ButReleases(Reference(w)[k])
    BY DEF ReplaySafeButReleases
  <1> DEFINE c == contract[w]
             n == ContractName[c]
             row == db[n][k]
             ref == Once(c)[n][k]
  <1>1. BaseInv /\ TypeOK /\ RowsInv /\ StatusInv /\ VerificationsReplaySafe
    BY DEF SInv, RInv, BaseInv, VInv, LInv, IInv
  <1>2. c \in Contracts /\ n \in Names
    BY <1>1, ContractNameAssumption DEF TypeOK, ContractNameAssumption
  <1>3. Covers(w)
    BY DEF SInv, CoversInv, AtEnd
  <1>4. Done(w) = finalized[w] /\ pc[w] = "apply"
    BY DEF Done, AtEnd
  <1>5. finalized[w] = Of(applied, c)
    BY <1>1, <1>3, <1>4 DEF BaseInv, OrderInv, Covers, Of
  <1>6. Table(w)[k] = row /\ Reference(w)[k] = ref
    BY <1>5 DEF Table, Reference, Once
  <1>7. row = NoRow <=> ref = NoRow
    BY <1>1, <1>2 DEF RowsInv
  <1>8. ref # NoRow => Agrees(n, row, ref)
    BY <1>4, <1>5 DEF SInv, PassRowsInv, Once
  <1>9. db \in Tables /\ Once(c) \in Tables
    BY <1>1, Replayable, ReplayType DEF TypeOK, Once
  <1>10. CASE ref = NoRow
    BY <1>6, <1>7, <1>10
  <1>11. CASE ref # NoRow /\ n = "verification"
    <2>1. row = ref
      BY <1>1, <1>2, <1>11 DEF VerificationsReplaySafe, Once
    <2>2. QED
      BY <1>6, <2>1
  <1>12. CASE ref # NoRow /\ n = "escrow"
    <2>1. row \in EscrowRow /\ ref \in EscrowRow
      BY <1>7, <1>9, <1>12 DEF Tables
    <2>2. EscrowAgrees(row, ref)
      BY <1>8, <1>12 DEF Agrees
    <2> HIDE DEF row, ref
    <2>3. QED
      BY <1>6, <2>1, <2>2, SameButReleases
  <1>13. CASE ref # NoRow /\ n = "financing"
    <2>1. row \in FinancingRow /\ ref \in FinancingRow
      BY <1>7, <1>9, <1>13 DEF Tables
    <2>2. FinancingAgrees(row, ref)
      BY <1>8, <1>13 DEF Agrees
    <2>3. row.status = ref.status
      BY <1>1, <1>2, <1>13 DEF StatusInv
    <2> HIDE DEF row, ref
    <2>4. QED
      BY <1>6, <2>1, <2>2, <2>3, SameFinancing
  <1>14. CASE ref # NoRow /\ n = "identity"
    <2>1. row = ref
      BY <1>8, <1>14 DEF Agrees
    <2>2. QED
      BY <1>6, <2>1
  <1>15. QED
    BY <1>2, <1>10, <1>11, <1>12, <1>13, <1>14 DEF Names

\* If rewind is only run while its contract is not being ingested, then for a
\* single indexer process, after any number of passes, aborted passes and
\* restarts, a pass that covers what was applied before leaves in the table
\* of its contract exactly what its final events give when each is applied
\* once, but for the released amount and the status of escrows.
THEOREM PassesReplaySafe ==
    ASSUME ~RewindWhileRunning, \A v, w \in Ingesters : v = w
    PROVE  Spec => []ReplaySafeButReleases
  <1>1. Init => SInv
    BY SInvInit
  <1>2. SInv /\ [Next]_vars => SInv'
    BY SInvStep
  <1>3. SInv => ReplaySafeButReleases
    BY ReplaySafeAtEnd
  <1>4. QED
    BY <1>1, <1>2, <1>3, PTL DEF Spec

\* Under the same conditions, what an escrow shows as released is at no
\* moment less than a single replay of its applied events gives: the
\* re-application of releases errs upwards only.
THEOREM ReleasesAreNotLost ==
    ASSUME ~RewindWhileRunning, \A v, w \in Ingesters : v = w
    PROVE  Spec => []ReleasesNotLost
  <1>1. Init => SInv
    BY SInvInit
  <1>2. SInv /\ [Next]_vars => SInv'
    BY SInvStep
  <1>3. SInv => ReleasesNotLost
    BY DEF SInv
  <1>4. QED
    BY <1>1, <1>2, <1>3, PTL DEF Spec
=============================================================================
