---------------------------- MODULE EventSource ----------------------------
(***************************************************************************)
(* What the trait ChainEvents (src/indexer/chain.rs) promises of           *)
(* events_after for one contract: the decodable events strictly after the  *)
(* cursor, in order, as they were at one moment of the call.  The stub of  *)
(* the tests holds its lock during the call and keeps the promise by       *)
(* construction; the RPC source takes many calls (module RpcPaging).       *)
(*                                                                         *)
(* A re-org during the call weakens the promise: only what lies below the  *)
(* first replaced ledger is right.  The rest is removed by rewind, which   *)
(* the operator runs from that ledger.                                     *)
(***************************************************************************)
EXTENDS Cursors, Sequences

CONSTANTS
    Events,     \* the events that may be on the chain
    NoFork      \* a ledger that never closes

VARIABLES
    chain,      \* the events of the contract on the chain
    calling,    \* a call is under way
    cursor,     \* its argument, START when there is no call
    fork,       \* first ledger replaced during the call, or NoFork
    result      \* what the last call returned, empty from the next call on

vars == <<chain, calling, cursor, fork, result>>

Below(S, l) == {e \in S : e.at.ledger_sequence < l}

After(S, cur) == {e \in S : e.decodable /\ IsAfter(e.at, cur)}

Elements(s) == {s[i] : i \in DOMAIN s}

\* Strictly ordered by position, and strictly after the cursor.
Ordered(s, cur) ==
    /\ \A i \in DOMAIN s : IsAfter(s[i].at, cur)
    /\ \A i, j \in DOMAIN s : i < j => IsAfter(s[j].at, s[i].at)

Init ==
    /\ chain = {}
    /\ calling = FALSE
    /\ cursor = START
    /\ fork = NoFork
    /\ result = <<>>

\* A ledger closes: its events come after all others.
Publish ==
    /\ chain \subseteq chain'
    /\ \A e \in chain, f \in chain' \ chain : IsAfter(f.at, e.at)
    /\ UNCHANGED <<calling, cursor, fork, result>>

\* Ledgers from l on are replaced.
Reorg(l) ==
    /\ chain' = Below(chain, l)
    /\ fork' = IF calling /\ l < fork THEN l ELSE fork
    /\ UNCHANGED <<calling, cursor, result>>

Call(cur) ==
    /\ ~calling
    /\ calling' = TRUE
    /\ cursor' = cur
    /\ result' = <<>>
    /\ UNCHANGED <<chain, fork>>

\* events_after returns Ok.
Answer ==
    /\ calling
    /\ calling' = FALSE
    /\ Ordered(result', cursor)
    /\ Below(Elements(result'), fork) = Below(After(chain, cursor), fork)
    /\ cursor' = START
    /\ fork' = NoFork
    /\ UNCHANGED chain

\* events_after returns an error.
Fail ==
    /\ calling
    /\ calling' = FALSE
    /\ cursor' = START
    /\ fork' = NoFork
    /\ UNCHANGED <<chain, result>>

Next ==
    \/ Publish
    \/ \E l \in {e.at.ledger_sequence : e \in Events} : Reorg(l)
    \/ \E cur \in {START} \cup {e.at : e \in Events} : Call(cur)
    \/ Answer
    \/ Fail

Spec == Init /\ [][Next]_vars
=============================================================================
