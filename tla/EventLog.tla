------------------------------ MODULE EventLog ------------------------------
(***************************************************************************)
(* What the indexer promises to the readers of its database, without       *)
(* cursors, passes, processes or failures: per contract, the raw store is  *)
(* a log that follows the chain event by event, and the projections follow *)
(* the log, event by event, behind the finality cutoff.                    *)
(***************************************************************************)
EXTENDS Cursors

CONSTANTS
    Contracts,  \* contract ids
    Ledgers,    \* ledger numbers
    Cutoff      \* TRUSTED_CUTOFF

VARIABLES
    chain,      \* the events on the chain
    tip,        \* largest ledger that has closed
    log,        \* the events stored
    applied     \* the events projected

vars == <<chain, tip, log, applied>>

Below(S, l) == {e \in S : e.at.ledger_sequence < l}

\* e comes next: it is the first event of its contract in S but not in T.
IsNext(e, S, T) ==
    /\ e \in S \ T
    /\ \A f \in S \ T : f.contract_id = e.contract_id => ~IsAfter(e.at, f.at)

Init ==
    /\ chain = {}
    /\ tip = 0
    /\ log = {}
    /\ applied = {}

\* A ledger closes: its events come after all others.
Close ==
    /\ chain \subseteq chain'
    /\ \A e \in chain, f \in chain' \ chain : IsAfter(f.at, e.at)
    /\ tip' \in {tip, tip + 1}
    /\ UNCHANGED <<log, applied>>

\* Ledgers from l on are replaced, on the chain and in the log at once.
Reorg(l) ==
    /\ l > tip - Cutoff
    /\ chain' = Below(chain, l)
    /\ log' = Below(log, l)
    /\ UNCHANGED <<tip, applied>>

\* The next event of a contract is stored.
Append ==
    /\ \E e \in chain : IsNext(e, chain, log) /\ log' = log \cup {e}
    /\ UNCHANGED <<chain, tip, applied>>

\* The next event of a contract is projected, once it is final.
Project ==
    /\ \E e \in log :
         /\ IsNext(e, log, applied)
         /\ e.at.ledger_sequence =< tip - Cutoff
         /\ applied' = applied \cup {e}
    /\ UNCHANGED <<chain, tip, log>>

Next == Close \/ (\E l \in Ledgers : Reorg(l)) \/ Append \/ Project

Spec == Init /\ [][Next]_vars
=============================================================================
