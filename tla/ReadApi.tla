------------------------------ MODULE ReadApi ------------------------------
(***************************************************************************)
(* The read side: the list and get handlers of routes/projections.rs and   *)
(* search_farmers (farmers/service.rs), over the table of one contract     *)
(* while the indexer keeps applying events to it, pass after pass.         *)
(*                                                                         *)
(* A list takes two statements, the page of rows and the COUNT, and a      *)
(* client takes many requests to walk through the pages; the table changes *)
(* between any two of them.  The handlers share nothing, so one client     *)
(* stands for all.                                                         *)
(***************************************************************************)
EXTENDS Projections, FiniteSets

CONSTANTS
    Resources,      \* the tables, by contract name
    Emits,          \* the bodies of the events, per resource
    Filters,        \* the filters clients use, per resource
    StartPages,     \* the pages clients ask for first
    PageSizes,      \* the page sizes clients ask for
    MaxPageSize,    \* 100
    StopRule,       \* how a client knows the last page, per resource
    MaxI64,         \* largest i64, scaled down
    PadWidth,       \* 12, scaled down
    MaxU64,         \* largest u64, scaled down
    MaxFeed         \* bound: events, per resource

ASSUME ResourceAssumption ==
    \A r \in Resources : \E c \in Contracts : ContractName[c] = r
ASSUME CountersAssumption ==
    /\ MaxU64 \in Nat /\ PadWidth \in Nat
    /\ Keys \subseteq 0..MaxU64
    /\ IsFiniteSet(Keys) /\ Cardinality(Keys) =< MaxI64
ASSUME EmitsAssumption ==
    \A r \in Resources : Emits[r] \subseteq Body /\ MaxFeed[r] \in Nat
ASSUME FiltersAssumption == \A r \in Resources : "none" \in Filters[r]
ASSUME PagesAssumption ==
    /\ MaxI64 \in Nat \ {0} /\ MaxPageSize \in 1..MaxI64
    /\ StartPages \subseteq -(MaxI64 + 1)..MaxI64 /\ PageSizes \subseteq Int
    /\ \A r \in Resources : StopRule[r] \in {"total_pages", "short_page"}

VARIABLES
    resource,   \* the table a behaviour is about
    db,         \* the projection tables
    created_at, \* column created_at of the farmers table
    feed,       \* final events of the contract, in order
    next,       \* the event the projection pass applies next
    pc,         \* the statement the list handler runs next, or "idle"
    req,        \* its request, normalised
    rows,       \* local: rows, as their ids
    total,      \* local: total
    answer,     \* the answer given in this step, NoAnswer if none is
    walking,    \* a client is in the middle of a walk through the pages
    present,    \* history: rows that matched when a walk from page 1 began
    seen        \* history: rows the walk has shown

tableVars == <<db, created_at>>
feedVars == <<feed, next>>
handlerVars == <<pc, req, rows, total>>
walkVars == <<walking, present, seen>>
vars == <<resource, tableVars, feedVars, handlerVars, walkVars, answer>>

Table == db[resource]

Source == CHOOSE c \in Contracts : ContractName[c] = resource

Existing == {k \in Keys : Table[k] # NoRow}

-----------------------------------------------------------------------------
(* Identifiers (src/ids.rs).  A text is an optional prefix and a number    *)
(* written with some width; one above MaxU64 also stands for what is no    *)
(* number at all.                                                          *)

\* Decimal digits of n.
Digits(n) == CHOOSE w \in 1..n + 1 : n < 10^w /\ (w = 1 \/ n >= 10^(w - 1))

Texts ==
    {t \in [prefix : {"own", "other", "bare"},
            value : Keys \cup {MaxU64 + 1}, width : 1..PadWidth + 1] :
        t.width >= Digits(t.value)}

\* counter_id: {prefix}:{counter:012}.
CounterId(n) ==
    [prefix |-> "own", value |-> n,
     width |-> IF Digits(n) < PadWidth THEN PadWidth ELSE Digits(n)]

Invalid == [prefix |-> "bare", value |-> MaxU64 + 1, width |-> 0]

\* Mutant of NormalizeId: a bare counter is taken as it is written.
NormalizeId_AsWritten(t) ==
    IF t.value > MaxU64 \/ t.prefix = "other" THEN Invalid
    ELSE [t EXCEPT !.prefix = "own"]

\* normalize_verification_id and its two copies: a prefixed number is taken
\* as it is written, a bare one is rendered.
NormalizeId(t) ==
    IF t.value > MaxU64 \/ t.prefix = "other" THEN Invalid
    ELSE IF t.prefix = "own" THEN t
    ELSE CounterId(t.value)

-----------------------------------------------------------------------------
(* Pages.                                                                  *)

\* Two's complement arithmetic of a release build.
Wrap(n) == ((n + MaxI64 + 1) % (2 * (MaxI64 + 1))) - (MaxI64 + 1)

\* Mutant of NormalizePage: no max(1).
NormalizePage_Raw(page) == page

NormalizePage(page) == IF page < 1 THEN 1 ELSE page

NormalizePageSize(size) ==
    IF size < 1 THEN 1 ELSE IF size > MaxPageSize THEN MaxPageSize ELSE size

\* Mutant of Offset: the page before.
Offset_Previous == Wrap((req.page - 2) * req.page_size)

Offset == Wrap((req.page - 1) * req.page_size)

TotalPages(n) ==
    LET full == (n + req.page_size - 1) \div req.page_size
    IN  IF full < 1 THEN 1 ELSE full

\* The WHERE clauses.  Filters on columns that never change (subject, issuer,
\* depositor, ...) only make the table smaller: "none" stands for them.  The
\* filters of search_farmers are on the profile, which its owner may change.
VerificationMatches(row, f) ==
    \/ f = "none"
    \/ f = "revoked" /\ row.revoked
    \/ f = "valid" /\ ~row.revoked

EscrowMatches(row, f) == f = "none" \/ (f = "open" /\ row.status = "open")

FinancingMatches(row, f) == f = "none" \/ (f = "active" /\ row.status = "active")

Matching(f) ==
    {k \in Existing :
        CASE resource = "verification" -> VerificationMatches(Table[k], f)
          [] resource = "escrow" -> EscrowMatches(Table[k], f)
          [] resource = "financing" -> FinancingMatches(Table[k], f)
          [] resource = "identity" -> f = "none"}

\* The columns of ORDER BY ... DESC.
VerificationOrder(k) == Table[k].issued_ledger

EscrowOrder(k) == Table[k].created_ledger

\* NULLS LAST.
FinancingOrder(k) == IF Table[k].updated_ledger = NULL THEN -1 ELSE Table[k].updated_ledger

FarmerOrder(k) == created_at[k]

\* Mutant of SortKey: the lists are ordered by the last update.
SortKey_Updated(k) ==
    CASE resource = "verification" ->
             IF Table[k].revoked THEN Table[k].revoked_ledger ELSE Table[k].issued_ledger
      [] resource \in {"escrow", "identity"} -> Table[k].updated_ledger
      [] resource = "financing" -> FinancingOrder(k)

SortKey(k) ==
    CASE resource = "verification" -> VerificationOrder(k)
      [] resource = "escrow" -> EscrowOrder(k)
      [] resource = "financing" -> FinancingOrder(k)
      [] resource = "identity" -> FarmerOrder(k)

\* The second column of ORDER BY, the id.
ById == [k \in Keys |-> k]

\* search_farmers has no second column: PostgreSQL orders rows of the same
\* created_at as it likes, and anew for every query.
TieBreaks ==
    IF resource = "identity"
    THEN {tie \in [Keys -> Keys] : \A j, k \in Keys : tie[j] = tie[k] => j = k}
    ELSE {ById}

\* ORDER BY: descending, then by the tie break.
Before(tie, j, k) ==
    SortKey(j) > SortKey(k) \/ (SortKey(j) = SortKey(k) /\ tie[j] < tie[k])

\* The number of rows of the result before row k.
Rank(tie, f, k) == Cardinality({j \in Matching(f) : Before(tie, j, k)})

\* LIMIT page_size OFFSET offset, as a set.
PageOfRows(tie) ==
    {k \in Matching(req.filter) :
        LET rank == Rank(tie, req.filter, k)
        IN  Offset =< rank /\ rank < Offset + req.page_size}

-----------------------------------------------------------------------------

Requests ==
    [page : 1..MaxI64, page_size : 1..MaxPageSize, filter : UNION {Filters[r] : r \in Resources}]

Answers ==
    [kind : {"list"}, status : {200, 500}, failed : BOOLEAN, req : Requests,
     items : SUBSET Keys, total : Nat, total_pages : Nat, missed : SUBSET Keys]
    \cup
    [kind : {"get"}, status : {200, 400, 404}, text : Texts]

NoAnswer == [kind |-> "none"]

NoRequest == [page |-> 1, page_size |-> 1, filter |-> "none"]

TypeOK ==
    /\ resource \in Resources
    /\ db \in Tables
    /\ created_at \in [Keys -> 0..Cardinality(Keys)]
    /\ feed \in Seq(Event) /\ Len(feed) =< MaxFeed[resource]
    /\ next \in 1..MaxFeed[resource] + 1
    /\ pc \in {"idle", "rows", "count"}
    /\ req \in Requests
    /\ rows \subseteq Keys
    /\ total \in Nat
    /\ answer \in Answers \cup {NoAnswer}
    /\ walking \in BOOLEAN
    /\ present \subseteq Keys /\ seen \subseteq Keys

Init ==
    /\ resource \in Resources
    /\ db = EmptyTables
    /\ created_at = [k \in Keys |-> 0]
    /\ feed = <<>>
    /\ next = 1
    /\ pc = "idle"
    /\ req = NoRequest
    /\ rows = {}
    /\ total = 0
    /\ answer = NoAnswer
    /\ walking = FALSE
    /\ present = {} /\ seen = {}

-----------------------------------------------------------------------------
(* The writers.                                                            *)

Creations ==
    {"VerificationCreated", "EscrowCreated", "FinancingCreated", "FarmerRegistered"}

Closings == {"VerificationRevoked", "EscrowRefunded", "FinancingRefunded"}

\* The contract emits an event in the ledger of the last one or in the next.
\* An object is created once and first, and nothing follows its closing.
Emit(b) ==
    /\ Len(feed) < MaxFeed[resource]
    /\ LET before == {feed[i].body.event_name :
                         i \in {j \in DOMAIN feed : feed[j].body.key = b.key}}
       IN  IF b.event_name \in Creations THEN before = {}
           ELSE before \cap Creations # {} /\ before \cap Closings = {}
    /\ \E step \in {0, 1} :
         LET l == IF feed = <<>> THEN 1 ELSE Ledger(feed[Len(feed)]) + step
         IN  feed' = Append(feed,
                 [contract_id |-> Source, body |-> b,
                  at |-> [ledger_sequence |-> l, operation_index |-> Len(feed),
                          event_index |-> 0]])
    /\ answer' = NoAnswer
    /\ UNCHANGED <<tableVars, next, handlerVars, walkVars>>

\* One iteration of the loop of ingest.  A new farmer's created_at is now():
\* it may become visible after a younger row, and two may be equal.
\* (register_farmer of the API inserts the same way.)
ApplyNext ==
    /\ next =< Len(feed)
    /\ Applicable(db, feed[next])
    /\ db' = ApplyEvent(db, feed[next])
    /\ next' = next + 1
    /\ LET k == feed[next].body.key
       IN  IF resource = "identity" /\ Table[k] = NoRow /\ db'[resource][k] # NoRow
           THEN \E t \in 1..Cardinality(Keys) : created_at' = [created_at EXCEPT ![k] = t]
           ELSE UNCHANGED created_at
    /\ answer' = NoAnswer
    /\ UNCHANGED <<feed, handlerVars, walkVars>>

\* A pass ends or is aborted, and the next one begins with the first event.
NextPass ==
    /\ next > 1
    /\ next' = 1
    /\ answer' = NoAnswer
    /\ UNCHANGED <<tableVars, feed, handlerVars, walkVars>>

-----------------------------------------------------------------------------
(* The list handlers.                                                      *)

\* Mutants of FirstStatement: one order for all.
FirstStatement_Count == "count"
FirstStatement_Rows == "rows"

\* search_farmers counts first, the lists of projections read rows first.
FirstStatement == IF resource = "identity" THEN "count" ELSE "rows"

\* A client begins a walk; the handler normalises the request.
Begin(page, size, f) ==
    /\ pc = "idle" /\ ~walking
    /\ pc' = FirstStatement
    /\ req' = [page |-> NormalizePage(page),
               page_size |-> NormalizePageSize(size), filter |-> f]
    /\ walking' = TRUE
    /\ present' = IF NormalizePage(page) = 1 THEN Matching(f) ELSE {}
    /\ answer' = NoAnswer
    /\ UNCHANGED <<tableVars, feedVars, rows, total, seen>>

\* The client asks for the next page.
NextPage ==
    /\ pc = "idle" /\ walking
    /\ req.page < MaxI64
    /\ pc' = FirstStatement
    /\ req' = [req EXCEPT !.page = @ + 1]
    /\ answer' = NoAnswer
    /\ UNCHANGED <<tableVars, feedVars, rows, total, walkVars>>

\* What the client takes for the last page.
LastPage(items, n) ==
    CASE StopRule[resource] = "total_pages" -> req.page >= TotalPages(n)
      [] StopRule[resource] = "short_page" -> Cardinality(items) < req.page_size

\* The walk is over.
EndWalk ==
    /\ walking' = FALSE
    /\ req' = NoRequest
    /\ present' = {} /\ seen' = {}

\* The handler answers 200.
Respond(items, n) ==
    LET last == LastPage(items, n)
    IN  /\ answer' = [kind |-> "list", status |-> 200, failed |-> FALSE, req |-> req,
                      items |-> items, total |-> n, total_pages |-> TotalPages(n),
                      missed |-> IF last THEN present \ (seen \cup items) ELSE {}]
        /\ \/ last /\ EndWalk
           \/ /\ ~last
              /\ seen' = seen \cup items
              /\ UNCHANGED <<req, walking, present>>
        /\ pc' = "idle" /\ rows' = {} /\ total' = 0

\* The handler answers 500: a statement failed.
Refuse(failed) ==
    /\ answer' = [kind |-> "list", status |-> 500, failed |-> failed, req |-> req,
                  items |-> {}, total |-> 0, total_pages |-> 0, missed |-> {}]
    /\ EndWalk
    /\ pc' = "idle" /\ rows' = {} /\ total' = 0

\* SELECT ... LIMIT ... OFFSET; PostgreSQL rejects a negative OFFSET.
SelectRows ==
    /\ pc = "rows"
    /\ \/ Offset < 0 /\ Refuse(FALSE)
       \/ /\ Offset >= 0 /\ FirstStatement = "rows"
          /\ \E tie \in TieBreaks : rows' = PageOfRows(tie)
          /\ pc' = "count"
          /\ answer' = NoAnswer
          /\ UNCHANGED <<req, total, walkVars>>
       \/ /\ Offset >= 0 /\ FirstStatement = "count"
          /\ \E tie \in TieBreaks : Respond(PageOfRows(tie), total)
    /\ UNCHANGED <<tableVars, feedVars>>

\* SELECT COUNT(*).
SelectCount ==
    /\ pc = "count"
    /\ LET n == Cardinality(Matching(req.filter))
       IN  \/ /\ FirstStatement = "count"
              /\ total' = n
              /\ pc' = "rows"
              /\ answer' = NoAnswer
              /\ UNCHANGED <<req, rows, walkVars>>
           \/ /\ FirstStatement = "rows"
              /\ Respond(rows, n)
    /\ UNCHANGED <<tableVars, feedVars>>

\* The database fails a statement.
StatementFails ==
    /\ pc # "idle"
    /\ Refuse(TRUE)
    /\ UNCHANGED <<tableVars, feedVars>>

-----------------------------------------------------------------------------
(* The get handlers.                                                       *)

\* 400, or what SELECT ... WHERE id finds.
Get(t) ==
    /\ pc = "idle" /\ ~walking
    /\ LET id == NormalizeId(t)
       IN  answer' = [kind |-> "get", text |-> t,
                      status |-> IF id = Invalid THEN 400
                                 ELSE IF \E k \in Existing : CounterId(k) = id
                                 THEN 200 ELSE 404]
    /\ UNCHANGED <<tableVars, feedVars, handlerVars, walkVars>>

GetVerification(t) == resource = "verification" /\ Get(t)

GetEscrow(t) == resource = "escrow" /\ Get(t)

GetFinancing(t) == resource = "financing" /\ Get(t)

Next ==
    /\ \/ \E b \in Emits[resource] : Emit(b)
       \/ ApplyNext
       \/ NextPass
       \/ \E page \in StartPages, size \in PageSizes, f \in Filters[resource] :
            Begin(page, size, f)
       \/ NextPage
       \/ SelectRows
       \/ SelectCount
       \/ StatementFails
       \/ \E t \in Texts : GetVerification(t) \/ GetEscrow(t) \/ GetFinancing(t)
    /\ UNCHANGED resource

Spec == Init /\ [][Next]_vars

-----------------------------------------------------------------------------
(* Properties.                                                             *)

\* Filters that a row, once it matches, matches for ever.
Stable == {"none", "revoked"}

Listed200 == answer.kind = "list" /\ answer.status = 200

\* ORDER BY does not tell the row from another one.
Tied(k) ==
    resource = "identity" /\ \E j \in Existing \ {k} : created_at[j] = created_at[k]

\* A client that walks through the pages to the last one has seen every row
\* that was there when it began: rows inserted meanwhile push others to later
\* pages but never past the reader, although each page and each COUNT is
\* taken from another state of the table.  Only farmers created at the same
\* instant as another one can be missed, for want of a second column in
\* ORDER BY.  (Not so for financings, whose order changes with every update,
\* and for a client of search_farmers that goes by totalPages, which is older
\* than the page.)
WalkSeesAll ==
    (/\ Listed200 /\ answer.req.filter \in Stable /\ resource # "financing"
     /\ resource = "identity" => StopRule[resource] = "short_page")
        => \A k \in answer.missed : Tied(k)

\* Lists read rows before they count, so the pagination of a list never
\* contradicts its items: total covers the page it comes with, and the page
\* is one of total_pages, however the sort key of a row changes meanwhile.
\* (For pages whose offset fits an i64.)
TotalCoversPage ==
    LET offset == (answer.req.page - 1) * answer.req.page_size
    IN  (/\ Listed200 /\ answer.req.filter \in Stable /\ resource # "identity"
         /\ offset =< MaxI64 /\ answer.items # {}) =>
            /\ answer.total >= offset + Cardinality(answer.items)
            /\ answer.req.page =< answer.total_pages

\* search_farmers counts before it reads: a page within the total_pages it
\* answers is never empty, unless there is nothing at all.
PromisedPageNonEmpty ==
    (/\ Listed200 /\ answer.req.filter \in Stable /\ resource = "identity"
     /\ answer.total > 0 /\ answer.req.page =< answer.total_pages)
        => answer.items # {}

\* A get finds every row there is, by the id the lists show and by the bare
\* counter: the builders render with counter_id what the handlers normalise,
\* also when the counter is wider than the padding.
ExistingIsFound ==
    (answer.kind = "get" /\ answer.text.value \in Existing
        /\ (answer.text.prefix = "bare" \/ answer.text = CounterId(answer.text.value)))
        => answer.status = 200

\* A list answers 500 for a failed statement or for a page whose offset does
\* not fit an i64, and for nothing else: page 0, page sizes out of range and
\* pages far beyond the end are normalised or empty.  (The routes document
\* 500 as an infrastructure failure and 400 for invalid pagination, so the
\* second case is one they do not allow.)
OnlyOverflowRejected ==
    (answer.kind = "list" /\ answer.status = 500) =>
        \/ answer.failed
        \/ (answer.req.page - 1) * answer.req.page_size > MaxI64
=============================================================================
