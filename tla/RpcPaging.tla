----------------------------- MODULE RpcPaging -----------------------------
(***************************************************************************)
(* events_after of the Soroban RPC source (src/indexer/rpc.rs): getEvents  *)
(* is called page by page, and the chain moves on, or is re-organised,     *)
(* between two calls.  One contract, as in the filter of the request.      *)
(***************************************************************************)
EXTENDS Cursors, Sequences, FiniteSets

CONSTANTS
    PageLimit,      \* page_limit
    PerLedger,      \* bound: events in a ledger
    MaxLedger,      \* bound: last ledger that closes
    MaxReorgs,      \* bound: re-orgs
    NoPage          \* page_cursor is None

ASSUME PagingAssumption ==
    /\ PageLimit \in Nat \ {0} /\ PerLedger \in Nat \ {0}
    /\ MaxLedger \in Nat /\ MaxReorgs \in Nat
    /\ NoPage \notin Position

VARIABLES
    chain,          \* the events of the contract on the chain
    head,           \* newest closed ledger
    reorgs,         \* number of re-orgs so far
    calling,        \* events_after is running
    cursor,         \* its argument, START when there is no call
    page_cursor,    \* local: page_cursor
    decoded,        \* local: decoded
    fork,           \* history: first ledger replaced during the call
    result          \* history: what the last call returned

vars == <<chain, head, reorgs, calling, cursor, page_cursor, decoded, fork, result>>
chainVars == <<chain, head, reorgs>>

NoFork == MaxLedger + 1

Positions ==
    [ledger_sequence : 1..MaxLedger, operation_index : {0}, event_index : 0..PerLedger - 1]

\* An event, decodable or not by decode_rpc_event; version tells it from one
\* that a re-org puts in its place.
Events == [at : Positions, decodable : BOOLEAN, version : 0..MaxReorgs]

TypeOK ==
    /\ chain \subseteq Events
    /\ head \in 0..MaxLedger
    /\ reorgs \in 0..MaxReorgs
    /\ calling \in BOOLEAN
    /\ cursor \in {START} \cup Positions
    /\ page_cursor \in Positions \cup {NoPage}
    /\ decoded \in Seq(Events)
    /\ fork \in 1..NoFork
    /\ result \in Seq(Events)

Init ==
    /\ chain = {}
    /\ head = 0
    /\ reorgs = 0
    /\ calling = FALSE
    /\ cursor = START
    /\ page_cursor = NoPage
    /\ decoded = <<>>
    /\ fork = NoFork
    /\ result = <<>>

-----------------------------------------------------------------------------
(* The chain.                                                              *)

\* The next ledger closes with n events, some of which cannot be decoded.
CloseLedger ==
    /\ head < MaxLedger
    /\ head' = head + 1
    /\ \E n \in 0..PerLedger : \E ok \in [0..n - 1 -> BOOLEAN] :
         chain' = chain \cup
             {[at |-> [ledger_sequence |-> head + 1, operation_index |-> 0,
                       event_index |-> i],
               decodable |-> ok[i], version |-> reorgs] : i \in 0..n - 1}
    /\ UNCHANGED <<reorgs, calling, cursor, page_cursor, decoded, fork, result>>

Reorg(l) ==
    /\ reorgs < MaxReorgs
    /\ l =< head
    /\ chain' = {e \in chain : e.at.ledger_sequence < l}
    /\ head' = l - 1
    /\ reorgs' = reorgs + 1
    /\ fork' = IF calling /\ l < fork THEN l ELSE fork
    /\ UNCHANGED <<calling, cursor, page_cursor, decoded, result>>

-----------------------------------------------------------------------------
(* events_after.                                                           *)

\* ingest resumes from START or from its cursor, the place of an event that a
\* re-org may have taken off the chain: any cursor will do.
Call(cur) ==
    /\ ~calling
    /\ calling' = TRUE
    /\ cursor' = cur
    /\ result' = <<>>
    /\ UNCHANGED <<chainVars, page_cursor, decoded, fork>>

\* What getEvents may return: everything from the start ledger on
\* (EventStart::Ledger), later everything after the cursor of the last page.
Start ==
    IF page_cursor = NoPage
    THEN LET first == IF cursor.ledger_sequence > 1 THEN cursor.ledger_sequence ELSE 1
         IN  {e \in chain : e.at.ledger_sequence >= first}
    ELSE {e \in chain : IsAfter(e.at, page_cursor)}

\* One page of getEvents: the first PageLimit events, in order.
IsPage(page) ==
    /\ \A i, j \in DOMAIN page : i < j => IsAfter(page[j].at, page[i].at)
    /\ \A e \in Start \ {page[i] : i \in DOMAIN page} :
         Len(page) = PageLimit /\ \A i \in DOMAIN page : IsAfter(e.at, page[i].at)

\* The event decodes and lies strictly after the cursor.
Keep(e) == e.decodable /\ IsAfter(e.at, cursor)

\* The loop over resp.events pushes the elements number at[1], at[2], ... of
\* the page: those to be kept, in the page's order.
Pushes(page, at) ==
    /\ \A i, j \in DOMAIN at : i < j => at[i] < at[j]
    /\ {at[i] : i \in DOMAIN at} = {i \in DOMAIN page : Keep(page[i])}

\* Mutant of Exhausted: the events kept are counted instead of the page.
Exhausted_CountKept(page) ==
    Cardinality({i \in DOMAIN page : Keep(page[i])}) < PageLimit

\* The page is the last one.
Exhausted(page) == Len(page) < PageLimit

\* events_after returns: its locals are gone.
Return ==
    /\ calling' = FALSE
    /\ cursor' = START
    /\ page_cursor' = NoPage
    /\ decoded' = <<>>
    /\ fork' = NoFork

\* Mutant of GetEvents: the next page begins after the argument again, not
\* after the page.
GetEvents_SameCursor ==
    /\ calling
    /\ \E page \in UNION {[1..n -> Start] : n \in 0..PageLimit} :
         /\ IsPage(page)
         /\ \E at \in UNION {[1..n -> DOMAIN page] : n \in 0..Len(page)} :
              /\ Pushes(page, at)
              /\ LET all == decoded \o [k \in DOMAIN at |-> page[at[k]]]
                 IN  \/ /\ Exhausted(page)
                        /\ result' = all
                        /\ Return
                     \/ /\ ~Exhausted(page)
                        /\ page_cursor' = cursor
                        /\ decoded' = all
                        /\ UNCHANGED <<calling, cursor, fork, result>>
    /\ UNCHANGED chainVars

\* One iteration of the loop.
GetEvents ==
    /\ calling
    /\ \E page \in UNION {[1..n -> Start] : n \in 0..PageLimit} :
         /\ IsPage(page)
         /\ \E at \in UNION {[1..n -> DOMAIN page] : n \in 0..Len(page)} :
              /\ Pushes(page, at)
              /\ LET all == decoded \o [k \in DOMAIN at |-> page[at[k]]]
                 IN  \/ /\ Exhausted(page)
                        /\ result' = all
                        /\ Return
                     \/ /\ ~Exhausted(page)
                        /\ page_cursor' = page[Len(page)].at
                        /\ decoded' = all
                        /\ UNCHANGED <<calling, cursor, fork, result>>
    /\ UNCHANGED chainVars

\* getEvents fails: events_after returns the error and drops what it has.
RpcError ==
    /\ calling
    /\ Return
    /\ UNCHANGED <<chainVars, result>>

Next ==
    \/ CloseLedger
    \/ \E l \in 1..MaxLedger : Reorg(l)
    \/ \E cur \in {START} \cup Positions : Call(cur)
    \/ GetEvents
    \/ RpcError

Spec == Init /\ [][Next]_vars

-----------------------------------------------------------------------------

Source == INSTANCE EventSource

\* The paged read is as good as an atomic one: whatever is published between
\* two pages, the list returned is, in order and without gap or repetition,
\* the decodable events after the cursor at the moment of the last getEvents,
\* and after a re-org in between this still holds below the replaced ledgers.
ReadsAtomically == Source!Spec
=============================================================================
