--------------------------- MODULE ReadApiProofs ---------------------------
(***************************************************************************)
(* Proofs about ReadApi for every table, page size and filter, and every   *)
(* interleaving of a walk through the pages with the passes of the         *)
(* indexer.                                                                *)
(***************************************************************************)
EXTENDS ReadApi, ProjectionsProofs, FiniteSetTheorems, TLAPS

-----------------------------------------------------------------------------
(* Arithmetic of pages.                                                    *)

\* The bounds of the integers.
LEMMA Widths ==
    /\ MaxI64 \in Nat /\ MaxI64 >= 1
    /\ MaxPageSize \in Nat /\ MaxPageSize >= 1 /\ MaxPageSize =< MaxI64
    /\ IsFiniteSet(Keys) /\ Cardinality(Keys) \in Nat /\ Cardinality(Keys) =< MaxI64
BY PagesAssumption, CountersAssumption, FS_CardinalityType
DEF PagesAssumption, CountersAssumption

\* A product of naturals is a natural.
LEMMA ProductNat == ASSUME NEW a \in Nat, NEW b \in Nat PROVE a * b \in Nat
OBVIOUS

\* An offset that fits an i64 is itself.
LEMMA WrapSmall ==
    ASSUME NEW n \in 0..MaxI64
    PROVE  Wrap(n) = n
<1>1. MaxI64 \in Nat
  BY Widths
<1>2. ASSUME NEW m \in Nat, NEW x \in Nat, x < m
      PROVE  x % m = x
  BY <1>2
<1>3. (n + MaxI64 + 1) % (2 * (MaxI64 + 1)) = n + MaxI64 + 1
  BY <1>1, <1>2
<1> QED  BY <1>1, <1>3 DEF Wrap

\* One that does not is some other i64.
LEMMA WrapInt ==
    ASSUME NEW n \in Int
    PROVE  Wrap(n) \in Int
<1>1. MaxI64 \in Nat
  BY Widths
<1>2. ASSUME NEW m \in Nat \ {0}, NEW x \in Int
      PROVE  x % m \in Int
  BY <1>2
<1> QED  BY <1>1, <1>2 DEF Wrap

\* total_pages and the pages before it, for total n, page p and page size s.
LEMMA Ceiling ==
    ASSUME NEW n \in Nat, NEW p \in Nat \ {0}, NEW s \in Nat \ {0}
    PROVE  /\ (n + s - 1) \div s \in Nat
           /\ p =< (n + s - 1) \div s <=> (p - 1) * s < n
<1> DEFINE q == (n + s - 1) \div s
           r == (n + s - 1) % s
<1>1. q \in Int /\ r \in 0..s - 1 /\ n + s - 1 = s * q + r
  OBVIOUS
<1> HIDE DEF q, r
<1>2. q >= 0
  <2>1. SUFFICES ASSUME q =< -1
                 PROVE  FALSE
    BY <1>1
  <2>2. s * q =< s * (-1)
    BY <1>1, <2>1
  <2> QED  BY <1>1, <2>2
<1>3. ASSUME p =< q
      PROVE  (p - 1) * s < n
  <2>1. p * s =< q * s
    BY <1>1, <1>3
  <2>2. (p - 1) * s = p * s - s /\ s * q = q * s
    BY <1>1
  <2> QED  BY <1>1, <2>1, <2>2
<1>4. ASSUME q =< p - 1
      PROVE  (p - 1) * s >= n
  <2>1. q * s =< (p - 1) * s
    BY <1>1, <1>4
  <2>2. s * q = q * s
    BY <1>1
  <2> QED  BY <1>1, <2>1, <2>2
<1>5. p =< q <=> (p - 1) * s < n
  BY <1>1, <1>3, <1>4
<1> QED  BY <1>1, <1>2, <1>5 DEF q

-----------------------------------------------------------------------------
(* The inductive invariant.                                                *)

\* Every event of the feed is one of the contract the table belongs to.
FeedOfSource == \A i \in DOMAIN feed : feed[i].contract_id = Source

\* The contracts create an object once.
CreatedOnce ==
    \A i, j \in DOMAIN feed :
        (/\ feed[i].body.event_name \in Creations
         /\ feed[j].body.event_name \in Creations
         /\ feed[i].body.key = feed[j].body.key) => i = j

CreatedBy == [verification |-> "VerificationCreated", escrow |-> "EscrowCreated"]

\* The sort key of a verification or an escrow is the ledger of the event that
\* created it: replays write it again and again, but never anew.
KeyFromCreation ==
    resource \in DOMAIN CreatedBy =>
        \A k \in Existing : \E i \in DOMAIN feed :
            /\ feed[i].body.event_name = CreatedBy[resource]
            /\ feed[i].body.key = k
            /\ SortKey(k) = Ledger(feed[i])

\* What the handler was asked to skip, before arithmetic wraps.
Skipped == (req.page - 1) * req.page_size

\* The table still holds what the rows statement saw.
CountCovers ==
    (/\ pc = "count" /\ resource # "identity" /\ req.filter \in Stable
     /\ Skipped =< MaxI64 /\ rows # {}) =>
        Cardinality(Matching(req.filter)) >= Skipped + Cardinality(rows)

\* The table still holds what search_farmers counted.
CountKept ==
    (pc = "rows" /\ resource = "identity" /\ req.filter \in Stable) =>
        total =< Cardinality(Matching(req.filter))

\* A row the walk has not shown is still there and, unless ORDER BY cannot
\* tell it from another one, lies behind what the walk has read.
Behind(k) ==
    LET rank == Rank(ById, req.filter, k)
    IN  /\ pc = "idle" => rank >= Skipped + req.page_size
        /\ (pc = "rows" \/ resource = "identity") => rank >= Skipped
        /\ (pc = "count" /\ resource # "identity") =>
             \/ k \in rows
             \/ rank >= Skipped + req.page_size /\ Cardinality(rows) >= req.page_size

Ahead(k) == k \in Matching(req.filter) /\ (Tied(k) \/ Behind(k))

Walkable ==
    /\ req.filter \in Stable /\ resource # "financing"
    /\ resource = "identity" => StopRule[resource] = "short_page"

WalkInv == Walkable => \A k \in present \ seen : Ahead(k)

IInv ==
    /\ TypeOK
    /\ FeedOfSource
    /\ CreatedOnce
    /\ KeyFromCreation
    /\ CountCovers
    /\ CountKept
    /\ WalkInv
    /\ WalkSeesAll
    /\ TotalCoversPage
    /\ PromisedPageNonEmpty
    /\ ExistingIsFound
    /\ OnlyOverflowRejected

-----------------------------------------------------------------------------
(* The result of a query and its order.                                    *)

\* The table a behaviour is about is one of the four.
LEMMA ResourceNames ==
    ASSUME TypeOK
    PROVE  resource \in Names /\ Source \in Contracts /\ ContractName[Source] = resource
<1>1. \E c \in Contracts : ContractName[c] = resource
  BY ResourceAssumption DEF ResourceAssumption, TypeOK
<1>2. Source \in Contracts /\ ContractName[Source] = resource
  BY <1>1 DEF Source
<1> QED  BY <1>2, ContractNameAssumption DEF ContractNameAssumption

\* The rows of the table.
LEMMA TableType ==
    ASSUME TypeOK
    PROVE  /\ resource = "verification" => Table \in [Keys -> VerificationRow \cup {NoRow}]
           /\ resource = "escrow" => Table \in [Keys -> EscrowRow \cup {NoRow}]
           /\ resource = "financing" => Table \in [Keys -> FinancingRow \cup {NoRow}]
           /\ resource = "identity" => Table \in [Keys -> FarmerRow \cup {NoRow}]
BY DEF TypeOK, Tables, Table

\* A result is a finite part of the table.
LEMMA MatchingFinite ==
    ASSUME NEW f
    PROVE  /\ Matching(f) \subseteq Existing /\ Existing \subseteq Keys
           /\ IsFiniteSet(Matching(f))
           /\ Cardinality(Matching(f)) \in Nat
           /\ Cardinality(Matching(f)) =< Cardinality(Keys)
<1>1. Matching(f) \subseteq Existing /\ Existing \subseteq Keys
  BY DEF Matching, Existing
<1>2. Matching(f) \in SUBSET Keys
  BY <1>1
<1>3. IsFiniteSet(Matching(f)) /\ Cardinality(Matching(f)) =< Cardinality(Keys)
  BY <1>2, Widths, FS_Subset
<1> QED  BY <1>1, <1>3, FS_CardinalityType

\* Every row can be compared.
LEMMA SortKeyType ==
    ASSUME TypeOK, NEW k \in Existing
    PROVE  SortKey(k) \in Int /\ k \in Int
<1>1. k \in Keys /\ Table[k] # NoRow /\ k \in Int
  BY CountersAssumption DEF Existing, CountersAssumption
<1>2. CASE resource = "verification"
  <2>1. Table[k] \in VerificationRow
    BY <1>1, <1>2, TableType
  <2> QED  BY <1>1, <1>2, <2>1 DEF SortKey, VerificationOrder, VerificationRow
<1>3. CASE resource = "escrow"
  <2>1. Table[k] \in EscrowRow
    BY <1>1, <1>3, TableType
  <2> QED  BY <1>1, <1>3, <2>1 DEF SortKey, EscrowOrder, EscrowRow
<1>4. CASE resource = "financing"
  <2>1. Table[k] \in FinancingRow
    BY <1>1, <1>4, TableType
  <2> QED  BY <1>1, <1>4, <2>1 DEF SortKey, FinancingOrder, FinancingRow
<1>5. CASE resource = "identity"
  <2>1. created_at[k] \in 0..Cardinality(Keys) /\ Cardinality(Keys) \in Nat
    BY <1>1, Widths DEF TypeOK
  <2> QED  BY <1>1, <1>5, <2>1 DEF SortKey, FarmerOrder
<1> QED  BY <1>2, <1>3, <1>4, <1>5, ResourceNames DEF Names

\* A tie break numbers the rows; the id is one.
LEMMA TieBreakType ==
    /\ \A tie \in TieBreaks : /\ \A k \in Keys : tie[k] \in Int
                              /\ \A j, k \in Keys : tie[j] = tie[k] => j = k
    /\ ById \in TieBreaks
<1>1. Keys \subseteq Int
  BY CountersAssumption DEF CountersAssumption
<1>2. /\ ById \in [Keys -> Keys]
      /\ \A j, k \in Keys : ById[j] = ById[k] => j = k
  BY DEF ById
<1>3. ASSUME NEW tie \in TieBreaks
      PROVE  /\ tie \in [Keys -> Keys]
             /\ \A j, k \in Keys : tie[j] = tie[k] => j = k
  BY <1>2 DEF TieBreaks
<1> QED  BY <1>1, <1>2, <1>3 DEF TieBreaks

\* ORDER BY is a strict total order of the rows, whatever the tie break.
LEMMA BeforeOrders ==
    ASSUME TypeOK, NEW tie \in TieBreaks, NEW i \in Existing, NEW j \in Existing, NEW k \in Existing
    PROVE  /\ ~Before(tie, j, j)
           /\ Before(tie, i, j) /\ Before(tie, j, k) => Before(tie, i, k)
           /\ j # k => Before(tie, j, k) \/ Before(tie, k, j)
<1>1. /\ SortKey(i) \in Int /\ SortKey(j) \in Int /\ SortKey(k) \in Int
  BY SortKeyType
<1>2. /\ tie[i] \in Int /\ tie[j] \in Int /\ tie[k] \in Int
      /\ tie[j] = tie[k] => j = k
  BY TieBreakType DEF Existing
<1> QED  BY <1>1, <1>2 DEF Before

\* A rank counts rows of the result before the row.
LEMMA RankType ==
    ASSUME TypeOK, NEW tie \in TieBreaks, NEW f, NEW k \in Matching(f)
    PROVE  Rank(tie, f, k) \in 0..Cardinality(Matching(f)) - 1
<1> DEFINE S == {j \in Matching(f) : Before(tie, j, k)}
           M == Matching(f)
<1>1. IsFiniteSet(M) /\ Cardinality(M) \in Nat /\ k \in Existing
  BY MatchingFinite
<1>2. S \in SUBSET (M \ {k})
  BY <1>1, BeforeOrders
<1>3. IsFiniteSet(M \ {k}) /\ Cardinality(M \ {k}) = Cardinality(M) - 1
  BY <1>1, FS_RemoveElement
<1>4. IsFiniteSet(S) /\ Cardinality(S) =< Cardinality(M) - 1
  BY <1>2, <1>3, FS_Subset
<1>5. Cardinality(S) \in Nat
  BY <1>4, FS_CardinalityType
<1> QED  BY <1>1, <1>4, <1>5 DEF Rank

\* A row before another has a smaller rank.
LEMMA RankOrders ==
    ASSUME TypeOK, NEW tie \in TieBreaks, NEW f, NEW j \in Matching(f), NEW k \in Matching(f), Before(tie, j, k)
    PROVE  Rank(tie, f, j) < Rank(tie, f, k)
<1> DEFINE S == {i \in Matching(f) : Before(tie, i, j)}
           T == {i \in Matching(f) : Before(tie, i, k)}
<1>1. IsFiniteSet(Matching(f)) /\ Matching(f) \subseteq Existing
  BY MatchingFinite
<1>2. S \in SUBSET Matching(f) /\ T \in SUBSET Matching(f)
  OBVIOUS
<1>3. IsFiniteSet(S) /\ IsFiniteSet(T)
  BY <1>1, <1>2, FS_Subset
<1>4. S \cup {j} \in SUBSET T
  BY <1>1, BeforeOrders
<1>5. j \notin S
  BY <1>1, BeforeOrders
<1>6. Cardinality(S \cup {j}) = Cardinality(S) + 1
  BY <1>3, <1>5, FS_AddElement
<1>7. Cardinality(S \cup {j}) =< Cardinality(T)
  BY <1>3, <1>4, FS_Subset
<1>8. Cardinality(S) \in Nat /\ Cardinality(T) \in Nat
  BY <1>3, FS_CardinalityType
<1> QED  BY <1>6, <1>7, <1>8 DEF Rank

\* The tie break does not concern a row that is tied to no other.
LEMMA UntiedRank ==
    ASSUME NEW tie \in TieBreaks, NEW f, NEW k \in Matching(f), ~Tied(k)
    PROVE  Rank(tie, f, k) = Rank(ById, f, k)
<1>1. CASE resource # "identity"
  BY <1>1 DEF TieBreaks
<1>2. CASE resource = "identity"
  <2>1. Matching(f) \subseteq Existing /\ Existing \subseteq Keys
    BY MatchingFinite
  <2>2. \A j \in Matching(f) : Before(tie, j, k) <=> Before(ById, j, k)
    <3> SUFFICES ASSUME NEW j \in Matching(f)
                 PROVE  Before(tie, j, k) <=> Before(ById, j, k)
      OBVIOUS
    <3>1. CASE j # k
      <4>1. SortKey(j) # SortKey(k)
        BY <1>2, <2>1, <3>1 DEF Tied, SortKey, FarmerOrder
      <4> QED  BY <4>1 DEF Before
    <3>2. CASE j = k
      <4>1. tie[k] \in Int /\ ById[k] \in Int
        BY <2>1, TieBreakType
      <4> QED  BY <3>2, <4>1 DEF Before
    <3> QED  BY <3>1, <3>2
  <2>3. {j \in Matching(f) : Before(tie, j, k)} = {j \in Matching(f) : Before(ById, j, k)}
    BY <2>2
  <2> QED  BY <2>3 DEF Rank
<1> QED  BY <1>1, <1>2

\* Ranks number the rows of the result from 0, without a gap.
LEMMA RankNumbers ==
    ASSUME TypeOK, NEW tie \in TieBreaks, NEW f
    PROVE  LET n == Cardinality(Matching(f))
               rank == [k \in Matching(f) |-> Rank(tie, f, k)]
           IN  /\ rank \in Injection(Matching(f), 0..n - 1)
               /\ \A i \in 0..n - 1 : \E k \in Matching(f) : Rank(tie, f, k) = i
<1> DEFINE M == Matching(f)
           n == Cardinality(M)
           rank == [k \in M |-> Rank(tie, f, k)]
<1>1. n \in Nat /\ IsFiniteSet(M) /\ M \subseteq Existing
  BY MatchingFinite
<1>2. \A k \in M : Rank(tie, f, k) \in 0..n - 1
  BY RankType
<1>3. ASSUME NEW j \in M, NEW k \in M, j # k
      PROVE  Rank(tie, f, j) # Rank(tie, f, k)
  <2>1. Before(tie, j, k) \/ Before(tie, k, j)
    BY <1>1, <1>3, BeforeOrders
  <2>2. Rank(tie, f, j) \in Int /\ Rank(tie, f, k) \in Int
    BY <1>1, <1>2
  <2> QED  BY <2>1, <2>2, RankOrders
<1>4. rank \in [M -> 0..n - 1]
  BY <1>2
<1>5. rank \in Injection(M, 0..n - 1)
  BY <1>3, <1>4 DEF Injection, IsInjective
<1>6. IsFiniteSet(0..n - 1) /\ Cardinality(0..n - 1) = n
  BY <1>1, FS_Interval
<1>7. rank \in Surjection(M, 0..n - 1)
  BY <1>5, <1>6, FS_Injection
<1>8. \A i \in 0..n - 1 : \E k \in M : rank[k] = i
  BY <1>7 DEF Surjection
<1> QED  BY <1>5, <1>8

-----------------------------------------------------------------------------
(* A page.                                                                 *)

\* The request in its types.
LEMMA RequestType ==
    ASSUME TypeOK
    PROVE  /\ req.page \in Nat \ {0} /\ req.page =< MaxI64
           /\ req.page_size \in Nat \ {0} /\ req.page_size =< MaxPageSize
           /\ Skipped \in Nat
           /\ Offset \in Int
           /\ Skipped =< MaxI64 => Offset = Skipped
           /\ Skipped + req.page_size = req.page * req.page_size
<1>1. req.page \in 1..MaxI64 /\ req.page_size \in 1..MaxPageSize
  BY DEF TypeOK, Requests
<1>2. MaxI64 \in Nat /\ MaxPageSize \in Nat
  BY Widths
<1>3. /\ req.page \in Nat \ {0} /\ req.page =< MaxI64
      /\ req.page_size \in Nat \ {0} /\ req.page_size =< MaxPageSize
  BY <1>1, <1>2
<1>4. Skipped \in Nat
  BY <1>3, ProductNat DEF Skipped
<1>5. Offset = Wrap(Skipped)
  BY DEF Offset, Skipped
<1>6. Skipped + req.page_size = req.page * req.page_size
  BY <1>3 DEF Skipped
<1> QED  BY <1>2, <1>3, <1>4, <1>5, <1>6, WrapSmall, WrapInt

\* A page that is not empty lies within the result.
LEMMA PageWithin ==
    ASSUME TypeOK, NEW tie \in TieBreaks, Offset \in Nat
    PROVE  /\ PageOfRows(tie) \subseteq Matching(req.filter)
           /\ PageOfRows(tie) \subseteq Keys
           /\ IsFiniteSet(PageOfRows(tie)) /\ Cardinality(PageOfRows(tie)) \in Nat
           /\ PageOfRows(tie) # {} =>
                Offset + Cardinality(PageOfRows(tie)) =< Cardinality(Matching(req.filter))
<1> DEFINE f == req.filter
           M == Matching(f)
           n == Cardinality(M)
           P == PageOfRows(tie)
           rank == [k \in M |-> Rank(tie, f, k)]
           part == [k \in P |-> Rank(tie, f, k)]
<1>1. IsFiniteSet(M) /\ n \in Nat /\ M \subseteq Keys
  BY MatchingFinite
<1>2. P \in SUBSET M
  BY DEF PageOfRows
<1>3. IsFiniteSet(P) /\ Cardinality(P) \in Nat
  BY <1>1, <1>2, FS_Subset, FS_CardinalityType
<1>4. rank \in Injection(M, 0..n - 1)
  BY RankNumbers
<1>5. \A k \in P : Rank(tie, f, k) \in 0..n - 1 /\ Offset =< Rank(tie, f, k)
  BY <1>2, RankType DEF PageOfRows
<1>6. part \in [P -> Offset..n - 1]
  BY <1>1, <1>5
<1>7. \A j, k \in P : rank[j] = rank[k] => j = k
  BY <1>2, <1>4 DEF Injection, IsInjective
<1>8. part \in Injection(P, Offset..n - 1)
  BY <1>2, <1>6, <1>7 DEF Injection, IsInjective
<1>9. n - 1 \in Int
  BY <1>1
<1>10. IsFiniteSet(Offset..n - 1)
       /\ Cardinality(Offset..n - 1) = IF Offset > n - 1 THEN 0 ELSE n - 1 - Offset + 1
  BY <1>9, FS_Interval
<1>11. Cardinality(P) =< Cardinality(Offset..n - 1)
  BY <1>8, <1>10, FS_Injection
<1>12. P # {} => Offset =< n - 1
  BY <1>1, <1>5
<1>13. P # {} => Offset + Cardinality(P) =< n
  BY <1>1, <1>3, <1>10, <1>11, <1>12
<1> QED  BY <1>1, <1>2, <1>3, <1>13

\* A page has a row if the result reaches it.
LEMMA PageHit ==
    ASSUME TypeOK, NEW tie \in TieBreaks, Offset \in Nat, Offset < Cardinality(Matching(req.filter))
    PROVE  PageOfRows(tie) # {}
<1>1. Cardinality(Matching(req.filter)) \in Nat
  BY MatchingFinite
<1>2. Offset \in 0..Cardinality(Matching(req.filter)) - 1
  BY <1>1
<1>3. PICK k \in Matching(req.filter) : Rank(tie, req.filter, k) = Offset
  BY <1>2, RankNumbers
<1>4. req.page_size \in Nat \ {0}
  BY RequestType
<1> QED  BY <1>3, <1>4 DEF PageOfRows

\* A page is full if the result goes on behind it.
LEMMA PageFull ==
    ASSUME TypeOK, NEW tie \in TieBreaks, Offset \in Nat, NEW k \in Matching(req.filter),
           Rank(tie, req.filter, k) >= Offset + req.page_size
    PROVE  Cardinality(PageOfRows(tie)) >= req.page_size
<1> DEFINE f == req.filter
           s == req.page_size
           n == Cardinality(Matching(f))
           at == [i \in Offset..Offset + s - 1 |->
                    CHOOSE j \in Matching(f) : Rank(tie, f, j) = i]
<1>1. s \in Nat \ {0} /\ n \in Nat
  BY RequestType, MatchingFinite
<1>2. Offset + s =< n - 1
  BY <1>1, RankType
<1>3. ASSUME NEW i \in Offset..Offset + s - 1
      PROVE  at[i] \in Matching(f) /\ Rank(tie, f, at[i]) = i
  <2>1. i \in 0..n - 1
    BY <1>1, <1>2
  <2>2. \E j \in Matching(f) : Rank(tie, f, j) = i
    BY <2>1, RankNumbers
  <2> QED  BY <2>2
<1>4. \A i \in Offset..Offset + s - 1 : at[i] \in PageOfRows(tie)
  <2> SUFFICES ASSUME NEW i \in Offset..Offset + s - 1
               PROVE  at[i] \in PageOfRows(tie)
    OBVIOUS
  <2>1. at[i] \in Matching(f) /\ Rank(tie, f, at[i]) = i
    BY <1>3
  <2>2. Offset =< i /\ i < Offset + s
    BY <1>1
  <2> HIDE DEF at
  <2> QED  BY <2>1, <2>2 DEF PageOfRows
<1>5. at \in [Offset..Offset + s - 1 -> PageOfRows(tie)]
  BY <1>4
<1>6. \A i, j \in Offset..Offset + s - 1 : at[i] = at[j] => i = j
  <2> HIDE DEF at
  <2> QED  BY <1>3
<1>7. at \in Injection(Offset..Offset + s - 1, PageOfRows(tie))
  <2> HIDE DEF at
  <2> QED  BY <1>5, <1>6 DEF Injection, IsInjective
<1>8. IsFiniteSet(PageOfRows(tie))
  BY PageWithin
<1>9. Cardinality(Offset..Offset + s - 1) =< Cardinality(PageOfRows(tie))
  BY <1>7, <1>8, FS_Injection
<1>10. PICK b \in Int : b = Offset + s - 1
  BY <1>1
<1>11. Cardinality(Offset..b) = s
  <2>1. Cardinality(Offset..b) = IF Offset > b THEN 0 ELSE b - Offset + 1
    BY FS_Interval
  <2> QED  BY <1>1, <1>10, <2>1
<1>12. Cardinality(PageOfRows(tie)) \in Nat
  BY PageWithin
<1> QED  BY <1>1, <1>9, <1>10, <1>11, <1>12

-----------------------------------------------------------------------------
(* The steps of the writers.                                               *)

\* Without a write to the table, results and order are as they were.
LEMMA TableQuiet ==
    ASSUME UNCHANGED <<resource, db, created_at>>
    PROVE  /\ Table' = Table /\ Existing' = Existing /\ Source' = Source
           /\ \A f : Matching(f)' = Matching(f)
           /\ \A k : SortKey(k)' = SortKey(k)
           /\ \A f, k : Rank(ById, f, k)' = Rank(ById, f, k)
           /\ \A k : Tied(k)' = Tied(k)
<1>1. Table' = Table /\ Existing' = Existing /\ Source' = Source
  BY DEF Table, Existing, Source
<1>2. \A f : Matching(f)' = Matching(f)
  BY <1>1 DEF Matching, VerificationMatches, EscrowMatches, FinancingMatches
<1>3. \A k : SortKey(k)' = SortKey(k)
  BY <1>1 DEF SortKey, VerificationOrder, EscrowOrder, FinancingOrder, FarmerOrder
<1>4. \A j, k : Before(ById, j, k)' = Before(ById, j, k)
  BY <1>3 DEF Before
<1>5. \A f, k : Rank(ById, f, k)' = Rank(ById, f, k)
  BY <1>2, <1>4 DEF Rank
<1>6. \A k : Tied(k)' = Tied(k)
  BY <1>1 DEF Tied
<1> QED  BY <1>1, <1>2, <1>3, <1>5, <1>6

\* Nothing is claimed of a step that answers no request.
LEMMA Unanswered ==
    ASSUME answer' = NoAnswer
    PROVE  /\ WalkSeesAll' /\ TotalCoversPage' /\ PromisedPageNonEmpty'
           /\ ExistingIsFound' /\ OnlyOverflowRejected'
BY DEF NoAnswer, Listed200, WalkSeesAll, TotalCoversPage, PromisedPageNonEmpty,
       ExistingIsFound, OnlyOverflowRejected

\* For a stable filter a writer adds to the result and, where the order does
\* not depend on updates, moves no row forward.
Grows(f) ==
    /\ Matching(f) \subseteq Matching(f)'
    /\ \A k \in Matching(f) : Tied(k) => Tied(k)'
    /\ resource # "financing" => \A k \in Matching(f) : Rank(ById, f, k)' >= Rank(ById, f, k)

\* A writer that only adds leaves what a reader knows.
LEMMA WriterStep ==
    ASSUME IInv, TypeOK', FeedOfSource', CreatedOnce', KeyFromCreation',
           answer' = NoAnswer, UNCHANGED <<resource, handlerVars, walkVars>>,
           \A f \in Stable : Grows(f)
    PROVE  IInv'
<1>0. PICK f : f = req.filter
  OBVIOUS
<1>1. /\ TypeOK /\ CountCovers /\ CountKept /\ WalkInv
      /\ UNCHANGED <<pc, req, rows, total, walking, present, seen, resource>>
      /\ req'.filter = f
  BY <1>0 DEF IInv, handlerVars, walkVars
<1>2. UNCHANGED Skipped
  BY <1>1 DEF Skipped
<1>3. ASSUME f \in Stable
      PROVE  /\ Cardinality(Matching(f)) \in Nat /\ Cardinality(Matching(f))' \in Nat
             /\ Cardinality(Matching(f)) =< Cardinality(Matching(f))'
  <2>1. Matching(f) \in SUBSET Matching(f)'
    BY <1>3 DEF Grows
  <2>2. IsFiniteSet(Matching(f)) /\ IsFiniteSet(Matching(f)')
    <3>1. IsFiniteSet(Matching(f)) /\ Matching(f)' \in SUBSET Keys
      BY MatchingFinite DEF Matching, Existing
    <3> QED  BY <3>1, Widths, FS_Subset
  <2> QED  BY <2>1, <2>2, FS_Subset, FS_CardinalityType
<1>4. Skipped \in Nat
  BY <1>1, RequestType
<1>5. CountCovers'
  <2> SUFFICES ASSUME pc = "count", resource # "identity", f \in Stable,
                      Skipped =< MaxI64, rows # {}
               PROVE  Cardinality(Matching(f))' >= Skipped + Cardinality(rows)
    BY <1>0, <1>1, <1>2 DEF CountCovers
  <2>1. Cardinality(Matching(f)) >= Skipped + Cardinality(rows)
    BY <1>0, <1>1 DEF CountCovers
  <2>2. rows \in SUBSET Keys
    BY <1>1 DEF TypeOK
  <2>3. Cardinality(rows) \in Nat
    BY <2>2, Widths, FS_Subset, FS_CardinalityType
  <2> QED  BY <1>3, <1>4, <2>1, <2>3
<1>6. CountKept'
  <2> SUFFICES ASSUME pc = "rows", resource = "identity", f \in Stable
               PROVE  total =< Cardinality(Matching(f))'
    BY <1>0, <1>1 DEF CountKept
  <2>1. total =< Cardinality(Matching(f)) /\ total \in Nat
    BY <1>0, <1>1 DEF CountKept, TypeOK
  <2> QED  BY <1>3, <2>1
<1>7. WalkInv'
  <2> SUFFICES ASSUME Walkable, NEW k \in present \ seen
               PROVE  Ahead(k)'
    BY <1>1 DEF WalkInv, Walkable
  <2>1. Ahead(k) /\ k \in Matching(f)
    BY <1>0, <1>1 DEF WalkInv, Ahead
  <2>2. /\ Matching(f) \subseteq Matching(f)' /\ Rank(ById, f, k)' >= Rank(ById, f, k)
        /\ Tied(k) => Tied(k)'
    BY <1>0, <2>1 DEF Walkable, Grows
  <2>3. /\ Rank(ById, f, k) \in Int /\ Rank(ById, f, k)' \in Int
        /\ Skipped \in Int /\ req.page_size \in Int
    <3>1. Rank(ById, f, k) \in 0..Cardinality(Matching(f)) - 1 /\ Cardinality(Matching(f)) \in Nat
      BY <1>1, <2>1, MatchingFinite, RankType, TieBreakType
    <3>2. Rank(ById, f, k)' \in Nat
      <4>1. {j \in Matching(f)' : Before(ById, j, k)'} \in SUBSET Keys
        BY DEF Matching, Existing
      <4>2. Cardinality({j \in Matching(f)' : Before(ById, j, k)'}) \in Nat
        BY <4>1, Widths, FS_Subset, FS_CardinalityType
      <4> QED  BY <1>1, <4>2 DEF Rank
    <3> QED  BY <1>1, <3>1, <3>2, RequestType
  <2>4. CASE Tied(k)
    BY <1>1, <2>1, <2>2, <2>4 DEF Ahead
  <2>5. CASE Behind(k)
    <3>1. Behind(k)'
      BY <1>0, <1>1, <1>2, <2>2, <2>3, <2>5 DEF Behind
    <3> QED  BY <1>1, <2>1, <2>2, <3>1 DEF Ahead
  <2> QED  BY <2>1, <2>4, <2>5 DEF Ahead
<1> QED  BY <1>5, <1>6, <1>7, Unanswered DEF IInv

\* What apply_event does to the table: rows stay, revoked verifications stay
\* revoked, sort keys that do not depend on updates stay.
LEMMA Applied ==
    ASSUME IInv, ApplyNext, UNCHANGED resource
    PROVE  /\ feed[next] \in Event /\ feed[next].body.key \in Keys
           /\ \A j \in Keys \ {feed[next].body.key} : Table'[j] = Table[j]
           /\ Existing \subseteq Existing'
           /\ \A j \in Existing : resource # "financing" => SortKey(j)' = SortKey(j)
           /\ \A f \in Stable : Matching(f) \subseteq Matching(f)'
           /\ KeyFromCreation'
<1> DEFINE e == feed[next]
           k == e.body.key
<1>1. /\ TypeOK /\ FeedOfSource /\ CreatedOnce /\ KeyFromCreation
      /\ db' = ApplyEvent(db, e) /\ feed' = feed
  BY DEF IInv, ApplyNext
<1>2. next \in DOMAIN feed /\ e \in Event /\ e.contract_id = Source
  <2>1. next \in Nat /\ next >= 1 /\ Len(feed) \in Nat /\ next =< Len(feed)
    <3>1. MaxFeed[resource] \in Nat
      BY <1>1, EmitsAssumption DEF TypeOK, EmitsAssumption
    <3> QED  BY <1>1, <3>1 DEF TypeOK, ApplyNext
  <2>2. next \in 1..Len(feed) /\ feed \in Seq(Event)
    BY <1>1, <2>1 DEF TypeOK
  <2> QED  BY <1>1, <2>2 DEF FeedOfSource
<1>3. /\ k \in Keys /\ db \in Tables
      /\ ContractName[e.contract_id] = resource /\ resource \in Names
  BY <1>1, <1>2, EventFields, ResourceNames DEF TypeOK
<1> HIDE DEF e
<1>4. \A j \in Keys \ {k} : Table'[j] = Table[j]
  BY <1>1, <1>2, <1>3, OtherRowsStay DEF Table
<1> HIDE DEF k
<1>5. Table'[k] = ApplyEvent(db, e)[resource][k] /\ Table[k] = db[resource][k]
  BY <1>1 DEF Table
<1>6. CASE resource = "verification"
  <2>1. /\ Table[k] # NoRow =>
             /\ Table'[k] # NoRow
             /\ Table[k].revoked => Table'[k].revoked
             /\ \/ Table'[k].issued_ledger = Table[k].issued_ledger
                \/ /\ e.body.event_name = "VerificationCreated"
                   /\ Table'[k].issued_ledger = Ledger(e)
        /\ Table[k] = NoRow /\ Table'[k] # NoRow =>
             /\ e.body.event_name = "VerificationCreated"
             /\ Table'[k].issued_ledger = Ledger(e)
    BY <1>2, <1>3, <1>5, <1>6, VerificationApplied DEF k
  <2>2. \A j \in Keys : SortKey(j) = Table[j].issued_ledger /\ SortKey(j)' = Table'[j].issued_ledger
    BY <1>6 DEF SortKey, VerificationOrder
  <2>3. \A j \in Existing : \E i \in DOMAIN feed :
          /\ feed[i].body.event_name = "VerificationCreated"
          /\ feed[i].body.key = j /\ SortKey(j) = Ledger(feed[i])
    BY <1>1, <1>6 DEF KeyFromCreation, CreatedBy
  <2>4. Existing \subseteq Existing' /\ Existing \subseteq Keys /\ Existing' \subseteq Keys
    BY <1>4, <2>1 DEF Existing
  <2>5. ASSUME NEW j \in Existing
        PROVE  SortKey(j)' = SortKey(j)
    <3>1. CASE j # k
      BY <1>4, <2>2, <2>4, <3>1
    <3>2. CASE j = k /\ e.body.event_name = "VerificationCreated"
               /\ Table'[k].issued_ledger = Ledger(e)
      <4>1. PICK i \in DOMAIN feed :
              /\ feed[i].body.event_name = "VerificationCreated"
              /\ feed[i].body.key = j /\ SortKey(j) = Ledger(feed[i])
        BY <2>3
      <4>2. i = next
        BY <1>1, <1>2, <3>2, <4>1 DEF CreatedOnce, Creations, e, k
      <4> QED  BY <2>2, <2>4, <3>2, <4>1, <4>2 DEF e
    <3>3. CASE j = k /\ Table'[k].issued_ledger = Table[k].issued_ledger
      BY <2>2, <2>4, <3>3
    <3> QED  BY <2>1, <3>1, <3>2, <3>3 DEF Existing
  <2>6. ASSUME NEW f \in Stable
        PROVE  Matching(f) \subseteq Matching(f)'
    BY <1>4, <1>6, <2>1, <2>4 DEF Matching, Stable, VerificationMatches, Existing
  <2>7. KeyFromCreation'
    <3> SUFFICES ASSUME NEW j \in Existing'
                 PROVE  \E i \in DOMAIN feed :
                          /\ feed[i].body.event_name = "VerificationCreated"
                          /\ feed[i].body.key = j
                          /\ SortKey(j)' = Ledger(feed[i])
      BY <1>1, <1>6 DEF KeyFromCreation, CreatedBy
    <3>1. CASE j \in Existing
      BY <2>3, <2>5, <3>1
    <3>2. CASE j \notin Existing
      <4>1. j = k /\ Table[k] = NoRow /\ Table'[k] # NoRow
        BY <1>4, <2>4, <3>2 DEF Existing
      <4>2. SortKey(j)' = Ledger(e)
        BY <1>3, <2>1, <2>2, <4>1
      <4> QED  BY <1>2, <2>1, <4>1, <4>2 DEF e, k
    <3> QED  BY <3>1, <3>2
  <2> QED  BY <1>2, <1>3, <1>4, <2>4, <2>5, <2>6, <2>7 DEF e, k
<1>7. CASE resource = "escrow"
  <2>1. /\ Table[k] # NoRow =>
             /\ Table'[k] # NoRow
             /\ \/ Table'[k].created_ledger = Table[k].created_ledger
                \/ /\ e.body.event_name = "EscrowCreated"
                   /\ Table'[k].created_ledger = Ledger(e)
        /\ Table[k] = NoRow /\ Table'[k] # NoRow =>
             /\ e.body.event_name = "EscrowCreated"
             /\ Table'[k].created_ledger = Ledger(e)
    BY <1>2, <1>3, <1>5, <1>7, EscrowApplied DEF k
  <2>2. \A j \in Keys : SortKey(j) = Table[j].created_ledger /\ SortKey(j)' = Table'[j].created_ledger
    BY <1>7 DEF SortKey, EscrowOrder
  <2>3. \A j \in Existing : \E i \in DOMAIN feed :
          /\ feed[i].body.event_name = "EscrowCreated"
          /\ feed[i].body.key = j /\ SortKey(j) = Ledger(feed[i])
    BY <1>1, <1>7 DEF KeyFromCreation, CreatedBy
  <2>4. Existing \subseteq Existing' /\ Existing \subseteq Keys /\ Existing' \subseteq Keys
    BY <1>4, <2>1 DEF Existing
  <2>5. ASSUME NEW j \in Existing
        PROVE  SortKey(j)' = SortKey(j)
    <3>1. CASE j # k
      BY <1>4, <2>2, <2>4, <3>1
    <3>2. CASE j = k /\ e.body.event_name = "EscrowCreated"
               /\ Table'[k].created_ledger = Ledger(e)
      <4>1. PICK i \in DOMAIN feed :
              /\ feed[i].body.event_name = "EscrowCreated"
              /\ feed[i].body.key = j /\ SortKey(j) = Ledger(feed[i])
        BY <2>3
      <4>2. i = next
        BY <1>1, <1>2, <3>2, <4>1 DEF CreatedOnce, Creations, e, k
      <4> QED  BY <2>2, <2>4, <3>2, <4>1, <4>2 DEF e
    <3>3. CASE j = k /\ Table'[k].created_ledger = Table[k].created_ledger
      BY <2>2, <2>4, <3>3
    <3> QED  BY <2>1, <3>1, <3>2, <3>3 DEF Existing
  <2>6. ASSUME NEW f \in Stable
        PROVE  Matching(f) \subseteq Matching(f)'
    BY <1>7, <2>4 DEF Matching, Stable, EscrowMatches
  <2>7. KeyFromCreation'
    <3> SUFFICES ASSUME NEW j \in Existing'
                 PROVE  \E i \in DOMAIN feed :
                          /\ feed[i].body.event_name = "EscrowCreated"
                          /\ feed[i].body.key = j
                          /\ SortKey(j)' = Ledger(feed[i])
      BY <1>1, <1>7 DEF KeyFromCreation, CreatedBy
    <3>1. CASE j \in Existing
      BY <2>3, <2>5, <3>1
    <3>2. CASE j \notin Existing
      <4>1. j = k /\ Table[k] = NoRow /\ Table'[k] # NoRow
        BY <1>4, <2>4, <3>2 DEF Existing
      <4>2. SortKey(j)' = Ledger(e)
        BY <1>3, <2>1, <2>2, <4>1
      <4> QED  BY <1>2, <2>1, <4>1, <4>2 DEF e, k
    <3> QED  BY <3>1, <3>2
  <2> QED  BY <1>2, <1>3, <1>4, <2>4, <2>5, <2>6, <2>7 DEF e, k
<1>8. CASE resource = "financing"
  <2>1. Table[k] # NoRow => Table'[k] # NoRow
    BY <1>2, <1>3, <1>5, <1>8, FinancingRowStays DEF k
  <2>2. Existing \subseteq Existing'
    BY <1>4, <2>1 DEF Existing
  <2>3. ASSUME NEW f \in Stable
        PROVE  Matching(f) \subseteq Matching(f)'
    BY <1>8, <2>2 DEF Matching, Stable, FinancingMatches
  <2>4. KeyFromCreation'
    BY <1>8 DEF KeyFromCreation, CreatedBy
  <2> QED  BY <1>2, <1>3, <1>4, <1>8, <2>2, <2>3, <2>4 DEF e, k
<1>9. CASE resource = "identity"
  <2>1. Table[k] # NoRow => Table'[k] # NoRow
    <3>1. NoRow \notin FarmerRow
      BY NoRowAssumption DEF NoRowAssumption
    <3> QED  BY <1>2, <1>3, <1>5, <1>9, <3>1, IdentityRowStays DEF k
  <2>2. Existing \subseteq Existing' /\ Existing \subseteq Keys
    BY <1>4, <2>1 DEF Existing
  <2>3. ASSUME NEW j \in Existing
        PROVE  SortKey(j)' = SortKey(j)
    <3>1. created_at'[j] = created_at[j]
      <4>1. j \in Keys /\ Table[j] # NoRow /\ created_at \in [Keys -> 0..Cardinality(Keys)]
        BY <1>1 DEF Existing, TypeOK
      <4>2. \/ UNCHANGED created_at
            \/ Table[k] = NoRow /\ \E t : created_at' = [created_at EXCEPT ![k] = t]
        BY DEF ApplyNext, e, k
      <4> QED  BY <4>1, <4>2
    <3> QED  BY <1>9, <3>1 DEF SortKey, FarmerOrder
  <2>4. ASSUME NEW f \in Stable
        PROVE  Matching(f) \subseteq Matching(f)'
    BY <1>9, <2>2 DEF Matching
  <2>5. KeyFromCreation'
    BY <1>9 DEF KeyFromCreation, CreatedBy
  <2> QED  BY <1>2, <1>3, <1>4, <2>2, <2>3, <2>4, <2>5 DEF e, k
<1> QED  BY <1>3, <1>6, <1>7, <1>8, <1>9 DEF Names

\* One iteration of the loop of ingest.
LEMMA ApplyNextStep ==
    ASSUME IInv, ApplyNext, UNCHANGED resource
    PROVE  IInv'
<1>1. TypeOK /\ FeedOfSource /\ CreatedOnce
  BY DEF IInv
<1>2. TypeOK'
  <2>1. db' \in Tables
    BY <1>1, Applied, ApplyEventType DEF ApplyNext, TypeOK
  <2>2. next' \in 1..MaxFeed[resource] + 1
    <3>1. MaxFeed[resource] \in Nat
      BY <1>1, EmitsAssumption DEF TypeOK, EmitsAssumption
    <3> QED  BY <1>1, <3>1 DEF TypeOK, ApplyNext
  <2>3. created_at' \in [Keys -> 0..Cardinality(Keys)]
    <3>1. \/ UNCHANGED created_at
          \/ \E t \in 1..Cardinality(Keys) :
               created_at' = [created_at EXCEPT ![feed[next].body.key] = t]
      BY DEF ApplyNext
    <3> QED  BY <1>1, <3>1, Widths DEF TypeOK
  <2>4. answer' \in Answers \cup {NoAnswer}
    BY DEF ApplyNext
  <2> QED
    BY <1>1, <2>1, <2>2, <2>3, <2>4 DEF TypeOK, ApplyNext, handlerVars, walkVars
<1>3. FeedOfSource' /\ CreatedOnce'
  BY <1>1 DEF ApplyNext, FeedOfSource, CreatedOnce, Source
<1>4. ASSUME NEW f \in Stable
      PROVE  Grows(f)
  <2>1. Matching(f) \subseteq Matching(f)'
    BY Applied
  <2>2. ASSUME resource # "financing", NEW k \in Matching(f)
        PROVE  Rank(ById, f, k)' >= Rank(ById, f, k)
    <3> DEFINE S == {j \in Matching(f) : Before(ById, j, k)}
               T == {j \in Matching(f)' : Before(ById, j, k)'}
    <3>1. Matching(f) \subseteq Existing
      BY MatchingFinite
    <3>2. \A j \in Existing : SortKey(j)' = SortKey(j)
      BY <2>2, Applied
    <3>3. \A j \in Matching(f) : Before(ById, j, k)' = Before(ById, j, k)
      BY <3>1, <3>2 DEF Before
    <3>4. S \in SUBSET T
      BY <2>1, <3>3
    <3>5. T \in SUBSET Keys
      BY DEF Matching, Existing
    <3>6. IsFiniteSet(T) /\ IsFiniteSet(S)
      BY <3>4, <3>5, Widths, FS_Subset
    <3>7. /\ Cardinality(S) =< Cardinality(T)
          /\ Cardinality(S) \in Nat /\ Cardinality(T) \in Nat
      BY <3>4, <3>6, FS_Subset, FS_CardinalityType
    <3> QED  BY <3>7 DEF Rank
  <2>3. ASSUME NEW k \in Matching(f), Tied(k)
        PROVE  Tied(k)'
    <3>1. resource = "identity" /\ k \in Existing
      BY <2>3, MatchingFinite DEF Tied
    <3>2. PICK j \in Existing \ {k} : created_at[j] = created_at[k]
      BY <2>3 DEF Tied
    <3>3. j \in Existing' /\ created_at'[j] = created_at[j] /\ created_at'[k] = created_at[k]
      BY <3>1, <3>2, Applied DEF SortKey, FarmerOrder
    <3> QED  BY <3>1, <3>2, <3>3 DEF Tied
  <2> QED  BY <2>1, <2>2, <2>3 DEF Grows
<1> QED
  BY <1>2, <1>3, <1>4, Applied, WriterStep DEF ApplyNext

\* A write that leaves the table alone moves nothing.
LEMMA GrowsQuiet ==
    ASSUME TypeOK, UNCHANGED <<resource, db, created_at>>, NEW f
    PROVE  Grows(f)
<1>1. \A k \in Matching(f) : Rank(ById, f, k) \in Int
  BY MatchingFinite, RankType, TieBreakType
<1> QED  BY <1>1, TableQuiet DEF Grows

\* A pass ends.
LEMMA NextPassStep ==
    ASSUME IInv, NextPass, UNCHANGED resource
    PROVE  IInv'
<1>1. UNCHANGED <<resource, db, created_at, feed>>
  BY DEF NextPass, tableVars
<1>2. TypeOK'
  <2>1. MaxFeed[resource] \in Nat
    BY EmitsAssumption DEF IInv, TypeOK, EmitsAssumption
  <2> QED
    BY <1>1, <2>1 DEF IInv, TypeOK, NextPass, handlerVars, walkVars
<1>3. FeedOfSource' /\ CreatedOnce' /\ KeyFromCreation'
  BY <1>1, TableQuiet DEF IInv, FeedOfSource, CreatedOnce, KeyFromCreation
<1> QED
  BY <1>1, <1>2, <1>3, GrowsQuiet, WriterStep DEF IInv, NextPass

\* The contract emits an event.
LEMMA EmitStep ==
    ASSUME IInv, NEW b \in Emits[resource], Emit(b), UNCHANGED resource
    PROVE  IInv'
<1>1. TypeOK /\ FeedOfSource /\ CreatedOnce /\ KeyFromCreation
  BY DEF IInv
<1>2. UNCHANGED <<resource, db, created_at>>
  BY DEF Emit, tableVars
<1>3. PICK step \in {0, 1} :
        feed' = Append(feed,
                 [contract_id |-> Source, body |-> b,
                  at |-> [ledger_sequence |->
                              IF feed = <<>> THEN 1 ELSE Ledger(feed[Len(feed)]) + step,
                          operation_index |-> Len(feed), event_index |-> 0]])
  BY DEF Emit
<1> DEFINE e == [contract_id |-> Source, body |-> b,
                 at |-> [ledger_sequence |->
                             IF feed = <<>> THEN 1 ELSE Ledger(feed[Len(feed)]) + step,
                         operation_index |-> Len(feed), event_index |-> 0]]
<1>4. /\ feed \in Seq(Event) /\ Len(feed) \in Nat
      /\ MaxFeed[resource] \in Nat /\ Len(feed) < MaxFeed[resource] /\ b \in Body
  BY <1>1, EmitsAssumption DEF TypeOK, EmitsAssumption, Emit
<1>5. e \in Event
  <2>1. Source \in Contracts
    BY <1>1, ResourceNames
  <2>2. feed # <<>> => Ledger(feed[Len(feed)]) \in Int
    <3>1. feed # <<>> => feed[Len(feed)] \in Event
      BY <1>4
    <3> QED  BY <3>1 DEF Event, Position, Ledger
  <2>3. e.at \in Position
    BY <1>4, <2>2 DEF Position
  <2> QED  BY <1>4, <2>1, <2>3 DEF Event
<1>6. e.contract_id = Source /\ e.body = b
  OBVIOUS
<1>7. feed' = Append(feed, e)
  BY <1>3
<1> HIDE DEF e
<1>8. /\ feed' \in Seq(Event) /\ Len(feed') = Len(feed) + 1
      /\ DOMAIN feed' = 1..Len(feed) + 1 /\ DOMAIN feed = 1..Len(feed)
      /\ feed'[Len(feed) + 1] = e
      /\ \A i \in DOMAIN feed : feed'[i] = feed[i]
  BY <1>4, <1>5, <1>7
<1>9. TypeOK'
  BY <1>1, <1>4, <1>8 DEF TypeOK, Emit, tableVars, handlerVars, walkVars
<1>10. FeedOfSource'
  <2>1. Source' = Source
    BY <1>2, TableQuiet
  <2> QED  BY <1>1, <1>4, <1>6, <1>8, <2>1 DEF FeedOfSource
<1>11. b.event_name \in Creations => \A i \in DOMAIN feed : feed[i].body.key # b.key
  <2> SUFFICES ASSUME b.event_name \in Creations, NEW i \in DOMAIN feed,
                      feed[i].body.key = b.key
               PROVE  FALSE
    OBVIOUS
  <2>1. {feed[m].body.event_name : m \in {j \in DOMAIN feed : feed[j].body.key = b.key}} = {}
    BY DEF Emit
  <2> QED  BY <2>1
<1>12. CreatedOnce'
  <2> SUFFICES ASSUME NEW i \in DOMAIN feed', NEW j \in DOMAIN feed',
                      feed'[i].body.event_name \in Creations,
                      feed'[j].body.event_name \in Creations,
                      feed'[i].body.key = feed'[j].body.key
               PROVE  i = j
    BY DEF CreatedOnce
  <2>1. CASE i \in DOMAIN feed /\ j \in DOMAIN feed
    BY <1>1, <1>8, <2>1 DEF CreatedOnce
  <2>2. CASE i \in DOMAIN feed /\ j = Len(feed) + 1
    BY <1>6, <1>8, <1>11, <2>2
  <2>3. CASE j \in DOMAIN feed /\ i = Len(feed) + 1
    BY <1>6, <1>8, <1>11, <2>3
  <2> QED  BY <1>4, <1>8, <2>1, <2>2, <2>3
<1>13. KeyFromCreation'
  <2> SUFFICES ASSUME resource \in DOMAIN CreatedBy, NEW k \in Existing
               PROVE  \E i \in DOMAIN feed' :
                        /\ feed'[i].body.event_name = CreatedBy[resource]
                        /\ feed'[i].body.key = k
                        /\ SortKey(k) = Ledger(feed'[i])
    BY <1>2, TableQuiet DEF KeyFromCreation
  <2>1. PICK i \in DOMAIN feed :
          /\ feed[i].body.event_name = CreatedBy[resource]
          /\ feed[i].body.key = k
          /\ SortKey(k) = Ledger(feed[i])
    BY <1>1 DEF KeyFromCreation
  <2>2. i \in DOMAIN feed' /\ feed'[i] = feed[i]
    BY <1>4, <1>8
  <2> QED  BY <2>1, <2>2
<1> QED
  BY <1>1, <1>2, <1>9, <1>10, <1>12, <1>13, GrowsQuiet, WriterStep DEF Emit

-----------------------------------------------------------------------------
(* The steps of the readers.                                               *)

\* A reader leaves table and feed alone.
LEMMA ReaderQuiet ==
    ASSUME IInv, UNCHANGED <<resource, db, created_at, feed, next>>
    PROVE  FeedOfSource' /\ CreatedOnce' /\ KeyFromCreation'
BY TableQuiet DEF IInv, FeedOfSource, CreatedOnce, KeyFromCreation

\* The request between two walks.
LEMMA NoRequestType ==
    ASSUME TypeOK
    PROVE  NoRequest \in Requests
<1>1. "none" \in UNION {Filters[r] : r \in Resources}
  BY FiltersAssumption DEF FiltersAssumption, TypeOK
<1> QED  BY <1>1, Widths DEF NoRequest, Requests

\* The normalisation of page and page size.
LEMMA NormalizeType ==
    ASSUME NEW page \in StartPages, NEW size \in PageSizes
    PROVE  /\ NormalizePage(page) \in 1..MaxI64
           /\ NormalizePageSize(size) \in 1..MaxPageSize
<1>1. page \in -(MaxI64 + 1)..MaxI64 /\ size \in Int
  BY PagesAssumption DEF PagesAssumption
<1> QED  BY <1>1, Widths DEF NormalizePage, NormalizePageSize

\* A walk begins.
LEMMA BeginStep ==
    ASSUME IInv, NEW page \in StartPages, NEW size \in PageSizes,
           NEW f \in Filters[resource], Begin(page, size, f), UNCHANGED resource
    PROVE  IInv'
<1>1. /\ TypeOK
      /\ UNCHANGED <<resource, db, created_at, feed, next, rows, total, seen>>
      /\ req' = [page |-> NormalizePage(page),
                 page_size |-> NormalizePageSize(size), filter |-> f]
      /\ pc' = FirstStatement
      /\ walking' = TRUE
      /\ present' = IF NormalizePage(page) = 1 THEN Matching(f) ELSE {}
      /\ answer' = NoAnswer
  BY DEF IInv, Begin, tableVars, feedVars
<1>2. /\ req'.page = NormalizePage(page) /\ req'.filter = f
      /\ req'.page_size = NormalizePageSize(size)
  BY <1>1
<1>3. TypeOK'
  <2>1. req' \in Requests
    BY <1>1, NormalizeType DEF Requests, TypeOK
  <2>2. pc' \in {"idle", "rows", "count"} /\ present' \subseteq Keys
    BY <1>1, MatchingFinite DEF FirstStatement
  <2> QED  BY <1>1, <2>1, <2>2 DEF TypeOK
<1>4. pc' = "rows" <=> resource # "identity"
  BY <1>1 DEF FirstStatement
<1>5. pc' = "count" <=> resource = "identity"
  BY <1>1 DEF FirstStatement
<1>6. CountCovers' /\ CountKept'
  BY <1>1, <1>4, <1>5 DEF CountCovers, CountKept
<1>7. WalkInv'
  <2> SUFFICES ASSUME NEW k \in present'
               PROVE  Ahead(k)'
    BY DEF WalkInv
  <2>1. NormalizePage(page) = 1 /\ k \in Matching(f)
    BY <1>1
  <2>2. Skipped' = 0
    <3>1. req'.page - 1 = 0 /\ req'.page_size \in Int
      BY <1>2, <1>3, <2>1, RequestType DEF TypeOK, Requests
    <3> QED  BY <3>1 DEF Skipped
  <2>3. k \in Matching(f)' /\ Rank(ById, f, k)' >= 0
    BY <1>1, <2>1, TableQuiet, RankType, TieBreakType, MatchingFinite
  <2> QED  BY <1>1, <1>2, <1>4, <1>5, <2>2, <2>3 DEF Ahead, Behind
<1> QED
  BY <1>1, <1>3, <1>6, <1>7, ReaderQuiet, Unanswered DEF IInv

\* The client asks for the next page.
LEMMA NextPageStep ==
    ASSUME IInv, NextPage, UNCHANGED resource
    PROVE  IInv'
<1>1. /\ TypeOK /\ WalkInv
      /\ UNCHANGED <<resource, db, created_at, feed, next, rows, total,
                     walking, present, seen>>
      /\ req' = [req EXCEPT !.page = @ + 1] /\ req.page < MaxI64
      /\ pc = "idle" /\ pc' = FirstStatement
      /\ answer' = NoAnswer
  BY DEF IInv, NextPage, tableVars, feedVars, walkVars
<1>2. /\ req'.page = req.page + 1 /\ req'.filter = req.filter
      /\ req'.page_size = req.page_size
  BY <1>1 DEF TypeOK, Requests
<1>3. TypeOK'
  <2>1. req.page + 1 \in 1..MaxI64
    BY <1>1, RequestType, Widths
  <2>2. req' \in Requests
    BY <1>1, <2>1 DEF TypeOK, Requests
  <2>3. pc' \in {"idle", "rows", "count"}
    BY <1>1 DEF FirstStatement
  <2> QED  BY <1>1, <2>2, <2>3 DEF TypeOK
<1>4. pc' # "idle" /\ (pc' = "rows" <=> resource # "identity")
  BY <1>1 DEF FirstStatement
<1>5. pc' = "count" <=> resource = "identity"
  BY <1>1 DEF FirstStatement
<1>6. CountCovers' /\ CountKept'
  BY <1>1, <1>4, <1>5 DEF CountCovers, CountKept
<1>7. Skipped' = Skipped + req.page_size
  <2>1. req.page \in Int /\ req.page_size \in Int
    BY <1>1, RequestType
  <2> QED  BY <1>2, <2>1 DEF Skipped
<1>8. WalkInv'
  <2>0. PICK f : f = req.filter
    OBVIOUS
  <2> SUFFICES ASSUME Walkable, NEW k \in present \ seen
               PROVE  Ahead(k)'
    BY <1>1, <1>2 DEF WalkInv, Walkable
  <2>1. k \in Matching(f) /\ (Tied(k) \/ Rank(ById, f, k) >= Skipped + req.page_size)
    BY <1>1, <2>0 DEF WalkInv, Ahead, Behind
  <2>2. k \in Matching(f)' /\ Rank(ById, f, k)' = Rank(ById, f, k) /\ Tied(k)' = Tied(k)
    BY <1>1, <2>1, TableQuiet
  <2> QED  BY <1>1, <1>2, <1>4, <1>5, <1>7, <2>0, <2>1, <2>2 DEF Ahead, Behind
<1> QED
  BY <1>1, <1>3, <1>6, <1>8, ReaderQuiet, Unanswered DEF IInv

\* A list is refused: the walk is over.
LEMMA RefuseStep ==
    ASSUME IInv, NEW failed \in BOOLEAN, Refuse(failed),
           Skipped =< MaxI64 => failed,
           UNCHANGED <<resource, db, created_at, feed, next>>
    PROVE  IInv'
<1>1. /\ TypeOK /\ req \in Requests
      /\ answer' = [kind |-> "list", status |-> 500, failed |-> failed, req |-> req,
                    items |-> {}, total |-> 0, total_pages |-> 0, missed |-> {}]
      /\ walking' = FALSE /\ req' = NoRequest /\ present' = {} /\ seen' = {}
      /\ pc' = "idle" /\ rows' = {} /\ total' = 0
  BY DEF IInv, TypeOK, Refuse, EndWalk
<1>2. TypeOK'
  <2>1. answer' \in Answers
    BY <1>1 DEF Answers
  <2>2. req' \in Requests
    BY <1>1, NoRequestType
  <2> QED  BY <1>1, <2>1, <2>2 DEF TypeOK
<1>3. CountCovers' /\ CountKept' /\ WalkInv'
  BY <1>1 DEF CountCovers, CountKept, WalkInv
<1>4. answer'.kind = "list" /\ answer'.status = 500 /\ answer'.req = req
      /\ answer'.failed = failed
  BY <1>1
<1>5. OnlyOverflowRejected'
  <2>1. failed \/ Skipped > MaxI64
    BY <1>1, RequestType, Widths
  <2> QED  BY <1>4, <2>1 DEF OnlyOverflowRejected, Skipped
<1>6. WalkSeesAll' /\ TotalCoversPage' /\ PromisedPageNonEmpty' /\ ExistingIsFound'
  BY <1>4 DEF WalkSeesAll, TotalCoversPage, PromisedPageNonEmpty, ExistingIsFound, Listed200
<1> QED
  BY <1>2, <1>3, <1>5, <1>6, ReaderQuiet DEF IInv

\* total_pages counts pages.
LEMMA TotalPagesType ==
    ASSUME TypeOK, NEW n \in Nat
    PROVE  /\ TotalPages(n) \in Nat
           /\ Skipped < n => req.page =< TotalPages(n)
           /\ n > 0 /\ req.page =< TotalPages(n) => Skipped < n
           /\ req.page >= TotalPages(n) => n =< Skipped + req.page_size
<1> DEFINE p == req.page
           s == req.page_size
           q == (n + s - 1) \div s
<1>1. p \in Nat \ {0} /\ s \in Nat \ {0} /\ Skipped \in Nat /\ Skipped + s = p * s
  BY RequestType
<1>2. q \in Nat /\ (p =< q <=> Skipped < n)
  BY <1>1, Ceiling DEF Skipped
<1>3. p + 1 =< q <=> p * s < n
  <2>1. PICK r \in Nat \ {0} : r = p + 1
    BY <1>1
  <2>2. r =< q <=> (r - 1) * s < n
    BY <1>1, Ceiling
  <2>3. r - 1 = p
    BY <1>1, <2>1
  <2> QED  BY <2>1, <2>2, <2>3
<1>4. 1 =< q <=> 0 < n
  <2>1. 1 \in Nat \ {0} /\ (1 - 1) * s = 0
    BY <1>1
  <2> QED  BY <1>1, <2>1, Ceiling
<1>5. TotalPages(n) = IF q < 1 THEN 1 ELSE q
  BY DEF TotalPages
<1>6. p * s \in Nat
  BY <1>1, ProductNat
<1> HIDE DEF q
<1>7. TotalPages(n) \in Nat /\ (Skipped < n => p =< TotalPages(n))
  BY <1>1, <1>2, <1>5
<1>8. n > 0 /\ p =< TotalPages(n) => Skipped < n
  BY <1>1, <1>2, <1>4, <1>5
<1>9. p >= TotalPages(n) => n =< Skipped + s
  BY <1>1, <1>2, <1>3, <1>5, <1>6
<1> QED  BY <1>7, <1>8, <1>9

\* A list is answered 200.
LEMMA RespondStep ==
    ASSUME IInv, NEW items \in SUBSET Keys, NEW n \in Nat, Respond(items, n),
           UNCHANGED <<resource, db, created_at, feed, next>>,
           Walkable => \A k \in present \ (seen \cup items) :
               /\ k \in Matching(req.filter)
               /\ \/ Tied(k)
                  \/ /\ Rank(ById, req.filter, k) >= Skipped + req.page_size
                     /\ ~LastPage(items, n),
           (/\ req.filter \in Stable /\ resource # "identity"
            /\ Skipped =< MaxI64 /\ items # {}) => n >= Skipped + Cardinality(items),
           (/\ req.filter \in Stable /\ resource = "identity"
            /\ n > 0 /\ Skipped < n) => items # {}
    PROVE  IInv'
<1> DEFINE last == LastPage(items, n)
           left == present \ (seen \cup items)
<1>0. PICK f : f = req.filter
  OBVIOUS
<1>1. TypeOK /\ req \in Requests
  BY DEF IInv, TypeOK
<1>2. answer' = [kind |-> "list", status |-> 200, failed |-> FALSE, req |-> req,
                 items |-> items, total |-> n, total_pages |-> TotalPages(n),
                 missed |-> IF last THEN left ELSE {}]
  BY DEF Respond
<1>3. /\ answer'.kind = "list" /\ answer'.status = 200 /\ answer'.req = req
      /\ answer'.items = items /\ answer'.total = n
      /\ answer'.total_pages = TotalPages(n)
      /\ answer'.missed = IF last THEN left ELSE {}
  BY <1>2
<1>4. pc' = "idle" /\ rows' = {} /\ total' = 0
  BY DEF Respond
<1>5. \/ /\ last /\ walking' = FALSE /\ req' = NoRequest
         /\ present' = {} /\ seen' = {}
      \/ /\ ~last /\ seen' = seen \cup items
         /\ UNCHANGED <<req, walking, present>>
  BY DEF Respond, EndWalk
<1> HIDE DEF last
<1>6. TypeOK'
  <2>1. answer' \in Answers
    <3>1. TotalPages(n) \in Nat
      BY <1>1, TotalPagesType
    <3>2. (IF last THEN left ELSE {}) \in SUBSET Keys
      BY <1>1 DEF TypeOK
    <3> HIDE DEF left
    <3> QED  BY <1>1, <1>2, <3>1, <3>2 DEF Answers
  <2>2. /\ req' \in Requests /\ walking' \in BOOLEAN
        /\ present' \subseteq Keys /\ seen' \subseteq Keys
    BY <1>1, <1>5, NoRequestType DEF TypeOK
  <2> QED  BY <1>1, <1>4, <2>1, <2>2 DEF TypeOK
<1>7. CountCovers' /\ CountKept'
  BY <1>4 DEF CountCovers, CountKept
<1>8. WalkInv'
  <2>1. CASE present' = {}
    BY <2>1 DEF WalkInv
  <2>2. CASE ~last /\ seen' = seen \cup items /\ UNCHANGED <<req, walking, present>>
    <3> SUFFICES ASSUME Walkable, NEW k \in left
                 PROVE  Ahead(k)'
      BY <2>2 DEF WalkInv, Walkable
    <3>1. k \in Matching(f) /\ (Tied(k) \/ Rank(ById, f, k) >= Skipped + req.page_size)
      BY <1>0
    <3>2. k \in Matching(f)' /\ Rank(ById, f, k)' = Rank(ById, f, k) /\ Tied(k)' = Tied(k)
      BY <3>1, TableQuiet
    <3>3. UNCHANGED Skipped
      BY <2>2 DEF Skipped
    <3>4. Skipped \in Nat /\ req.page_size \in Nat /\ Rank(ById, f, k) \in Int
      BY <1>1, <3>1, RequestType, RankType, TieBreakType, MatchingFinite
    <3> QED  BY <1>0, <1>4, <2>2, <3>1, <3>2, <3>3, <3>4 DEF Ahead, Behind
  <2> QED  BY <1>5, <2>1, <2>2
<1>9. WalkSeesAll'
  <2> SUFFICES ASSUME Walkable
               PROVE  \A k \in answer'.missed : Tied(k)'
    BY <1>3 DEF WalkSeesAll, Walkable
  <2>1. last => \A k \in left : Tied(k)
    BY DEF last
  <2>2. \A k : Tied(k)' = Tied(k)
    BY TableQuiet
  <2> QED  BY <1>3, <2>1, <2>2
<1>10. TotalCoversPage'
  <2> SUFFICES ASSUME req.filter \in Stable, resource # "identity",
                      Skipped =< MaxI64, items # {}
               PROVE  n >= Skipped + Cardinality(items) /\ req.page =< TotalPages(n)
    BY <1>3 DEF TotalCoversPage, Skipped
  <2>1. n >= Skipped + Cardinality(items)
    OBVIOUS
  <2>2. Cardinality(items) \in Nat /\ Cardinality(items) # 0
    BY Widths, FS_Subset, FS_EmptySet, FS_CardinalityType
  <2>3. Skipped < n
    BY <1>1, <2>1, <2>2, RequestType
  <2> QED  BY <1>1, <2>1, <2>3, TotalPagesType
<1>11. PromisedPageNonEmpty'
  <2> SUFFICES ASSUME req.filter \in Stable, resource = "identity",
                      n > 0, req.page =< TotalPages(n)
               PROVE  items # {}
    BY <1>3 DEF PromisedPageNonEmpty
  <2> QED  BY <1>1, TotalPagesType
<1>12. ExistingIsFound' /\ OnlyOverflowRejected'
  BY <1>3 DEF ExistingIsFound, OnlyOverflowRejected
<1> QED
  BY <1>6, <1>7, <1>8, <1>9, <1>10, <1>11, <1>12, ReaderQuiet DEF IInv

\* SELECT ... LIMIT ... OFFSET.
LEMMA SelectRowsStep ==
    ASSUME IInv, SelectRows, UNCHANGED resource
    PROVE  IInv'
<1> DEFINE s == req.page_size
<1>0. PICK f : f = req.filter
  OBVIOUS
<1>1. /\ TypeOK /\ CountKept /\ WalkInv /\ pc = "rows"
      /\ UNCHANGED <<resource, db, created_at, feed, next>>
  BY DEF IInv, SelectRows, tableVars, feedVars
<1>2. /\ Skipped \in Nat /\ Offset \in Int /\ s \in Nat \ {0}
      /\ Skipped =< MaxI64 => Offset = Skipped
  BY <1>1, RequestType
<1>3. MaxI64 \in Nat /\ Cardinality(Matching(f)) \in Nat /\ Cardinality(Matching(f)) =< MaxI64
  BY Widths, MatchingFinite
<1>4. FirstStatement \in {"rows", "count"} /\ (FirstStatement = "rows" <=> resource # "identity")
  BY DEF FirstStatement
<1>5. ASSUME Offset >= 0, Walkable, NEW tie \in TieBreaks,
             NEW k \in present \ seen, k \notin PageOfRows(tie)
      PROVE  /\ k \in Matching(f)
             /\ \/ Tied(k)
                \/ /\ Rank(ById, f, k) >= Skipped + s
                   /\ Cardinality(PageOfRows(tie)) >= s
  <2>1. k \in Matching(f) /\ (Tied(k) \/ Rank(ById, f, k) >= Skipped)
    BY <1>0, <1>1, <1>5 DEF WalkInv, Ahead, Behind
  <2>2. SUFFICES ASSUME ~Tied(k)
                 PROVE  /\ Rank(ById, f, k) >= Skipped + s
                        /\ Cardinality(PageOfRows(tie)) >= s
    BY <2>1
  <2>3. Rank(tie, f, k) = Rank(ById, f, k)
    BY <2>1, <2>2, UntiedRank
  <2>4. Rank(tie, f, k) \in 0..Cardinality(Matching(f)) - 1
    BY <1>1, <2>1, RankType
  <2>5. Offset = Skipped
    BY <1>2, <1>3, <2>1, <2>2, <2>3, <2>4
  <2>6. Rank(tie, f, k) >= Offset + s
    BY <1>0, <1>2, <1>5, <2>1, <2>2, <2>3, <2>4, <2>5 DEF PageOfRows
  <2>7. Cardinality(PageOfRows(tie)) >= s
    BY <1>0, <1>1, <1>2, <2>1, <2>5, <2>6, PageFull
  <2> QED  BY <2>3, <2>5, <2>6, <2>7
<1>6. CASE Offset < 0 /\ Refuse(FALSE)
  <2>1. ~(Skipped =< MaxI64)
    BY <1>2, <1>6
  <2> QED  BY <1>1, <1>6, <2>1, RefuseStep
<1>7. ASSUME NEW tie \in TieBreaks, Offset >= 0, FirstStatement = "rows",
             rows' = PageOfRows(tie), pc' = "count", answer' = NoAnswer,
             UNCHANGED <<req, total, walkVars>>
      PROVE  IInv'
  <2>1. /\ PageOfRows(tie) \subseteq Keys /\ Cardinality(PageOfRows(tie)) \in Nat
        /\ PageOfRows(tie) # {} =>
             Offset + Cardinality(PageOfRows(tie)) =< Cardinality(Matching(f))
    BY <1>0, <1>1, <1>2, <1>7, PageWithin
  <2>2. UNCHANGED <<req, total, walking, present, seen, Skipped>>
    BY <1>7 DEF walkVars, Skipped
  <2>3. TypeOK'
    BY <1>1, <1>7, <2>1, <2>2 DEF TypeOK
  <2>4. /\ Matching(f)' = Matching(f) /\ \A k : Rank(ById, f, k)' = Rank(ById, f, k)
        /\ \A k : Tied(k)' = Tied(k)
    BY <1>1, TableQuiet
  <2>5. CountCovers'
    BY <1>0, <1>2, <1>7, <2>1, <2>2, <2>4 DEF CountCovers
  <2>6. CountKept'
    BY <1>7 DEF CountKept
  <2>7. WalkInv'
    <3> SUFFICES ASSUME Walkable, NEW k \in present \ seen
                 PROVE  Ahead(k)'
      BY <1>1, <2>2 DEF WalkInv, Walkable
    <3>1. k \in Matching(f)
      BY <1>0, <1>1 DEF WalkInv, Ahead
    <3> QED
      BY <1>0, <1>1, <1>4, <1>5, <1>7, <2>2, <2>4, <3>1 DEF Ahead, Behind
  <2> QED
    BY <1>1, <1>7, <2>3, <2>5, <2>6, <2>7, ReaderQuiet, Unanswered DEF IInv
<1>8. ASSUME NEW tie \in TieBreaks, Offset >= 0, FirstStatement = "count",
             Respond(PageOfRows(tie), total)
      PROVE  IInv'
  <2>1. PageOfRows(tie) \in SUBSET Keys /\ total \in Nat /\ resource = "identity"
    BY <1>1, <1>2, <1>4, <1>8, PageWithin DEF TypeOK
  <2>2. ASSUME Walkable, NEW k \in present \ (seen \cup PageOfRows(tie))
        PROVE  /\ k \in Matching(f)
               /\ \/ Tied(k)
                  \/ /\ Rank(ById, f, k) >= Skipped + s
                     /\ ~LastPage(PageOfRows(tie), total)
    <3>1. /\ k \in Matching(f)
          /\ \/ Tied(k)
             \/ /\ Rank(ById, f, k) >= Skipped + s
                /\ Cardinality(PageOfRows(tie)) >= s
      BY <1>5, <1>8, <2>2
    <3>2. StopRule[resource] = "short_page" /\ Cardinality(PageOfRows(tie)) \in Nat
      BY <1>1, <1>2, <1>8, <2>1, <2>2, PageWithin DEF Walkable
    <3> QED  BY <1>2, <3>1, <3>2 DEF LastPage
  <2>3. ASSUME f \in Stable, Skipped < total
        PROVE  PageOfRows(tie) # {}
    <3>1. total =< Cardinality(Matching(f))
      BY <1>0, <1>1, <2>1, <2>3 DEF CountKept
    <3>2. Offset = Skipped /\ Offset < Cardinality(Matching(f))
      BY <1>2, <1>3, <2>1, <2>3, <3>1
    <3> QED  BY <1>0, <1>1, <1>2, <3>2, PageHit
  <2> QED  BY <1>0, <1>1, <1>8, <2>1, <2>2, <2>3, RespondStep
<1> QED  BY <1>6, <1>7, <1>8 DEF SelectRows

\* SELECT COUNT(*).
LEMMA SelectCountStep ==
    ASSUME IInv, SelectCount, UNCHANGED resource
    PROVE  IInv'
<1> DEFINE s == req.page_size
<1>0. PICK f : f = req.filter
  OBVIOUS
<1> DEFINE n == Cardinality(Matching(f))
<1>1. /\ TypeOK /\ CountCovers /\ WalkInv /\ pc = "count"
      /\ UNCHANGED <<resource, db, created_at, feed, next>>
  BY DEF IInv, SelectCount, tableVars, feedVars
<1>2. Skipped \in Nat /\ s \in Nat \ {0} /\ n \in Nat
  BY <1>1, RequestType, MatchingFinite
<1>3. FirstStatement = "rows" <=> resource # "identity"
  BY DEF FirstStatement
<1>4. CASE /\ FirstStatement = "count"
           /\ total' = n /\ pc' = "rows" /\ answer' = NoAnswer
           /\ UNCHANGED <<req, rows, walkVars>>
  <2>1. UNCHANGED <<req, rows, walking, present, seen, Skipped>> /\ resource = "identity"
    BY <1>3, <1>4 DEF walkVars, Skipped
  <2>2. TypeOK'
    BY <1>1, <1>2, <1>4, <2>1 DEF TypeOK
  <2>3. /\ Matching(f)' = Matching(f) /\ \A k : Rank(ById, f, k)' = Rank(ById, f, k)
        /\ \A k : Tied(k)' = Tied(k)
    BY <1>1, TableQuiet
  <2>4. CountCovers'
    BY <1>4 DEF CountCovers
  <2>5. CountKept'
    BY <1>0, <1>2, <1>4, <2>1, <2>3 DEF CountKept
  <2>6. WalkInv'
    <3> SUFFICES ASSUME Walkable, NEW k \in present \ seen
                 PROVE  Ahead(k)'
      BY <1>1, <2>1 DEF WalkInv, Walkable
    <3>1. k \in Matching(f) /\ (Tied(k) \/ Rank(ById, f, k) >= Skipped)
      BY <1>0, <1>1, <2>1 DEF WalkInv, Ahead, Behind
    <3> QED  BY <1>0, <1>1, <1>4, <2>1, <2>3, <3>1 DEF Ahead, Behind
  <2> QED
    BY <1>1, <1>4, <2>2, <2>4, <2>5, <2>6, ReaderQuiet, Unanswered DEF IInv
<1>5. CASE FirstStatement = "rows" /\ Respond(rows, n)
  <2>1. rows \in SUBSET Keys /\ resource # "identity"
    BY <1>1, <1>3, <1>5 DEF TypeOK
  <2>2. Cardinality(rows) \in Nat
    BY <2>1, Widths, FS_Subset, FS_CardinalityType
  <2>3. ASSUME Walkable, NEW k \in present \ (seen \cup rows)
        PROVE  /\ k \in Matching(f)
               /\ \/ Tied(k)
                  \/ /\ Rank(ById, f, k) >= Skipped + s
                     /\ ~LastPage(rows, n)
    <3>1. /\ k \in Matching(f) /\ Rank(ById, f, k) >= Skipped + s
          /\ Cardinality(rows) >= s
      BY <1>0, <1>1, <2>1, <2>3 DEF WalkInv, Ahead, Behind, Tied
    <3>2. Rank(ById, f, k) \in 0..n - 1
      BY <1>1, <3>1, RankType, TieBreakType
    <3>3. StopRule[resource] \in {"total_pages", "short_page"}
      BY <1>1, PagesAssumption DEF PagesAssumption, TypeOK
    <3>4. ~(req.page >= TotalPages(n))
      BY <1>1, <1>2, <3>1, <3>2, TotalPagesType
    <3>5. ~(Cardinality(rows) < s)
      BY <1>2, <2>2, <3>1
    <3>6. ~LastPage(rows, n)
      <4> HIDE DEF n
      <4>1. CASE StopRule[resource] = "total_pages"
        BY <3>4, <4>1 DEF LastPage
      <4>2. CASE StopRule[resource] = "short_page"
        BY <3>5, <4>2 DEF LastPage
      <4> QED  BY <3>3, <4>1, <4>2
    <3> QED  BY <3>1, <3>6
  <2>4. (req.filter \in Stable /\ Skipped =< MaxI64 /\ rows # {})
          => n >= Skipped + Cardinality(rows)
    BY <1>0, <1>1, <2>1 DEF CountCovers
  <2> HIDE DEF n
  <2> QED  BY <1>0, <1>1, <1>2, <1>5, <2>1, <2>3, <2>4, RespondStep
<1> QED  BY <1>0, <1>4, <1>5 DEF SelectCount

\* A statement fails.
LEMMA StatementFailsStep ==
    ASSUME IInv, StatementFails, UNCHANGED resource
    PROVE  IInv'
<1>1. UNCHANGED <<resource, db, created_at, feed, next>> /\ Refuse(TRUE)
  BY DEF StatementFails, tableVars, feedVars
<1> QED  BY <1>1, RefuseStep

\* An object is looked up.
LEMMA GetStep ==
    ASSUME IInv, NEW t \in Texts, Get(t), UNCHANGED resource
    PROVE  IInv'
<1> DEFINE id == NormalizeId(t)
           status == IF id = Invalid THEN 400
                     ELSE IF \E k \in Existing : CounterId(k) = id THEN 200 ELSE 404
<1>1. /\ TypeOK /\ CountCovers /\ CountKept /\ WalkInv
      /\ UNCHANGED <<resource, db, created_at, feed, next, pc, req, rows, total,
                     walking, present, seen>>
      /\ answer' = [kind |-> "get", text |-> t, status |-> status]
  BY DEF IInv, Get, tableVars, feedVars, handlerVars, walkVars
<1>2. answer'.kind = "get" /\ answer'.text = t /\ answer'.status = status
  BY <1>1
<1>3. TypeOK'
  <2>1. status \in {200, 400, 404}
    OBVIOUS
  <2> HIDE DEF status
  <2>2. answer' \in Answers
    BY <1>1, <2>1 DEF Answers
  <2> QED  BY <1>1, <2>2 DEF TypeOK
<1>4. ExistingIsFound'
  <2>1. Existing' = Existing /\ Existing \subseteq Keys
    BY <1>1, TableQuiet DEF Existing
  <2> SUFFICES ASSUME t.value \in Existing,
                      t.prefix = "bare" \/ t = CounterId(t.value)
               PROVE  status = 200
    BY <1>2, <2>1 DEF ExistingIsFound
  <2>2. ~(t.value > MaxU64)
    <3>1. t.value \in Keys /\ Keys \subseteq 0..MaxU64 /\ MaxU64 \in Nat
      BY <2>1, CountersAssumption DEF CountersAssumption
    <3>2. t.value \in 0..MaxU64
      BY <3>1
    <3> QED  BY <3>1, <3>2
  <2>3. CounterId(t.value).prefix = "own"
    BY DEF CounterId
  <2>4. id = CounterId(t.value)
    BY <2>2, <2>3 DEF NormalizeId
  <2>5. id # Invalid
    BY <2>3, <2>4 DEF Invalid
  <2> QED  BY <2>4, <2>5
<1>5. CountCovers' /\ CountKept' /\ WalkInv'
  <2>1. PICK f : f = req.filter
    OBVIOUS
  <2>2. /\ UNCHANGED Skipped /\ Matching(f)' = Matching(f)
        /\ \A k : Rank(ById, f, k)' = Rank(ById, f, k)
        /\ \A k : Tied(k)' = Tied(k)
    BY <1>1, TableQuiet DEF Skipped
  <2>3. CountCovers' /\ CountKept'
    BY <1>1, <2>1, <2>2 DEF CountCovers, CountKept
  <2>4. WalkInv'
    BY <1>1, <2>1, <2>2 DEF WalkInv, Walkable, Ahead, Behind
  <2> QED  BY <2>3, <2>4
<1>6. WalkSeesAll' /\ TotalCoversPage' /\ PromisedPageNonEmpty' /\ OnlyOverflowRejected'
  BY <1>2 DEF WalkSeesAll, TotalCoversPage, PromisedPageNonEmpty,
              OnlyOverflowRejected, Listed200
<1> QED
  BY <1>1, <1>3, <1>4, <1>5, <1>6, ReaderQuiet DEF IInv

-----------------------------------------------------------------------------
(* The invariant.                                                          *)

\* It holds at the start.
LEMMA IInvInit == Init => IInv
<1> SUFFICES ASSUME Init
             PROVE  IInv
  OBVIOUS
<1>1. TypeOK
  <2>1. resource \in Resources /\ MaxFeed[resource] \in Nat
    BY EmitsAssumption DEF Init, EmitsAssumption
  <2>2. db \in Tables
    BY DEF Init, EmptyTables, EmptyTable, Tables
  <2>3. created_at \in [Keys -> 0..Cardinality(Keys)]
    BY Widths DEF Init
  <2>4. req \in Requests
    <3>1. "none" \in UNION {Filters[r] : r \in Resources}
      BY <2>1, FiltersAssumption DEF FiltersAssumption
    <3> QED  BY <3>1, Widths DEF Init, NoRequest, Requests
  <2>5. /\ feed \in Seq(Event) /\ Len(feed) =< MaxFeed[resource]
        /\ next \in 1..MaxFeed[resource] + 1
    BY <2>1 DEF Init
  <2> QED  BY <2>1, <2>2, <2>3, <2>4, <2>5 DEF Init, TypeOK
<1>2. FeedOfSource /\ CreatedOnce
  BY DEF Init, FeedOfSource, CreatedOnce
<1>3. KeyFromCreation
  <2>1. Existing = {}
    BY <1>1, ResourceNames DEF Init, EmptyTables, EmptyTable, Existing, Table, Names
  <2> QED  BY <2>1 DEF KeyFromCreation
<1>4. CountCovers /\ CountKept /\ WalkInv
  BY DEF Init, CountCovers, CountKept, WalkInv
<1>5. /\ WalkSeesAll /\ TotalCoversPage /\ PromisedPageNonEmpty
      /\ ExistingIsFound /\ OnlyOverflowRejected
  BY DEF Init, NoAnswer, Listed200, WalkSeesAll, TotalCoversPage,
         PromisedPageNonEmpty, ExistingIsFound, OnlyOverflowRejected
<1> QED  BY <1>1, <1>2, <1>3, <1>4, <1>5 DEF IInv

\* A step that changes nothing keeps it.
LEMMA StutterStep ==
    ASSUME IInv, UNCHANGED vars
    PROVE  IInv'
<1>1. UNCHANGED <<resource, db, created_at, feed, next, pc, req, rows, total,
                  walking, present, seen, answer>>
  BY DEF vars, tableVars, feedVars, handlerVars, walkVars
<1>2. TypeOK'
  BY <1>1 DEF IInv, TypeOK
<1>3. PICK f : f = req.filter
  OBVIOUS
<1>4. /\ UNCHANGED Skipped /\ Existing' = Existing
      /\ Matching(f)' = Matching(f) /\ \A k : Rank(ById, f, k)' = Rank(ById, f, k)
      /\ \A k : Tied(k)' = Tied(k)
  BY <1>1, TableQuiet DEF Skipped
<1>5. CountCovers' /\ CountKept'
  BY <1>1, <1>3, <1>4 DEF IInv, CountCovers, CountKept
<1>6. WalkInv'
  BY <1>1, <1>3, <1>4 DEF IInv, WalkInv, Walkable, Ahead, Behind
<1>7. /\ WalkSeesAll' /\ TotalCoversPage' /\ PromisedPageNonEmpty'
      /\ ExistingIsFound' /\ OnlyOverflowRejected'
  BY <1>1, <1>4 DEF IInv, Listed200, WalkSeesAll, TotalCoversPage,
                    PromisedPageNonEmpty, ExistingIsFound, OnlyOverflowRejected
<1> QED  BY <1>1, <1>2, <1>5, <1>6, <1>7, ReaderQuiet DEF IInv

\* Every step keeps it.
LEMMA IInvStep == IInv /\ [Next]_vars => IInv'
<1> SUFFICES ASSUME IInv, [Next]_vars
             PROVE  IInv'
  OBVIOUS
<1>1. CASE UNCHANGED vars
  BY <1>1, StutterStep
<1>2. CASE Next
  <2> USE <1>2
  <2>1. UNCHANGED resource
    BY DEF Next
  <2>2. ASSUME NEW b \in Emits[resource], Emit(b)
        PROVE  IInv'
    BY <2>1, <2>2, EmitStep
  <2>3. CASE ApplyNext \/ NextPass
    BY <2>1, <2>3, ApplyNextStep, NextPassStep
  <2>4. ASSUME NEW page \in StartPages, NEW size \in PageSizes,
               NEW f \in Filters[resource], Begin(page, size, f)
        PROVE  IInv'
    BY <2>1, <2>4, BeginStep
  <2>5. CASE NextPage
    BY <2>1, <2>5, NextPageStep
  <2>6. CASE SelectRows \/ SelectCount
    BY <2>1, <2>6, SelectRowsStep, SelectCountStep
  <2>7. CASE StatementFails
    BY <2>1, <2>7, StatementFailsStep
  <2>8. ASSUME NEW t \in Texts, GetVerification(t) \/ GetEscrow(t) \/ GetFinancing(t)
        PROVE  IInv'
    <3>1. Get(t)
      BY <2>8 DEF GetVerification, GetEscrow, GetFinancing
    <3> QED  BY <2>1, <3>1, GetStep
  <2> QED
    BY <2>2, <2>3, <2>4, <2>5, <2>6, <2>7, <2>8 DEF Next
<1> QED  BY <1>1, <1>2

LEMMA IInvAlways == Spec => []IInv
BY IInvInit, IInvStep, PTL DEF Spec

-----------------------------------------------------------------------------
(* The theorems.                                                           *)

\* Every variable keeps its type; requests stay within the bounds that
\* normalize_page and normalize_page_size promise.
THEOREM ReadApiTypeCorrect == Spec => []TypeOK
<1>1. IInv => TypeOK
  BY DEF IInv
<1> QED  BY <1>1, IInvAlways, PTL

\* A walk through the pages to the last one shows every row that was there
\* when it began, for every page size and whatever the indexer applies
\* meanwhile, however PostgreSQL orders rows of the same created_at; only such
\* rows can be missed.
THEOREM WalkSeesAllHolds == Spec => []WalkSeesAll
<1>1. IInv => WalkSeesAll
  BY DEF IInv
<1> QED  BY <1>1, IInvAlways, PTL

\* The COUNT after the rows covers the page.
THEOREM TotalCoversPageHolds == Spec => []TotalCoversPage
<1>1. IInv => TotalCoversPage
  BY DEF IInv
<1> QED  BY <1>1, IInvAlways, PTL

\* The COUNT before the rows promises no empty page.
THEOREM PromisedPageNonEmptyHolds == Spec => []PromisedPageNonEmpty
<1>1. IInv => PromisedPageNonEmpty
  BY DEF IInv
<1> QED  BY <1>1, IInvAlways, PTL

\* A get finds an existing object by its id and by its bare counter, for every
\* counter a u64 holds and every padding.
THEOREM ExistingIsFoundHolds == Spec => []ExistingIsFound
<1>1. IInv => ExistingIsFound
  BY DEF IInv
<1> QED  BY <1>1, IInvAlways, PTL

\* A list answers 500 for failed statements and overflowing offsets only.
THEOREM OnlyOverflowRejectedHolds == Spec => []OnlyOverflowRejected
<1>1. IInv => OnlyOverflowRejected
  BY DEF IInv
<1> QED  BY <1>1, IInvAlways, PTL
=============================================================================
