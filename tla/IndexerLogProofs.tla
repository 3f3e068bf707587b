-------------------------- MODULE IndexerLogProofs --------------------------
(***************************************************************************)
(* The indexer implements EventLog, for every set of ingesters, contracts  *)
(* and slots and every cutoff, when rewind is not run while its contract   *)
(* is being ingested.                                                      *)
(***************************************************************************)
EXTENDS IndexerLog, IndexerProofs

\* What the refinement maps to the log.
Stored == {e \in indexed_events : Ledger(e) < fork[e.contract_id]}

\* The log of a contract is a prefix of its chain: whatever the chain holds
\* before a stored event is stored.
PrefixInv ==
    \A e \in Stored, f \in chain :
        f.contract_id = e.contract_id /\ IsAfter(e.at, f.at) => f \in indexed_events

\* A pass applies stored events, and has applied, or still will, whatever
\* comes before one of them.
PassInv(w) ==
    pc[w] = "apply" =>
        \A e \in pending[w] :
            /\ e \in indexed_events
            /\ \A f \in chain :
                 f.contract_id = e.contract_id /\ IsAfter(e.at, f.at)
                     => f \in applied \cup pending[w]

LInv ==
    /\ IInv
    /\ PrefixInv
    /\ \A w \in Ingesters : PassInv(w)

\* is_after on events of the chain: irreflexive, asymmetric, and along it the
\* ledgers do not decrease.
LEMMA AfterFacts ==
    ASSUME NEW p \in Position, NEW q \in Position
    PROVE  /\ IsAfter(p, q) => ~IsAfter(q, p) /\ p # q
           /\ IsAfter(p, q) => q.ledger_sequence =< p.ledger_sequence
           /\ p.ledger_sequence > q.ledger_sequence => IsAfter(p, q)
  BY DEF IsAfter, Position

\* What is in the log, and what a pass applies, is on the chain.
LEMMA StoredFacts ==
    ASSUME IInv
    PROVE  /\ Stored \subseteq chain
           /\ \A e \in chain \cup indexed_events :
                /\ e.contract_id \in Contracts /\ e.at \in Position
                /\ Ledger(e) \in Int /\ fork[e.contract_id] \in Int
                /\ e.at.ledger_sequence = Ledger(e)
           /\ \A w \in Ingesters : \A e \in pending[w] :
                pc[w] = "apply" => /\ Ledger(e) =< tip - Cutoff
                                   /\ e \in chain
                                   /\ Ledger(e) < fork[e.contract_id]
  <1>1. TypeOK
    BY DEF IInv
  <1>2. \A e \in chain \cup indexed_events :
           /\ e.contract_id \in Contracts /\ e.at \in Position
           /\ Ledger(e) \in Int /\ fork[e.contract_id] \in Int
           /\ e.at.ledger_sequence = Ledger(e)
    BY <1>1, Facts DEF Ledger
  <1>3. Stored \subseteq chain
    BY DEF IInv, NoOrphans, Stored
  <1>4. ASSUME NEW w \in Ingesters, NEW e \in pending[w], pc[w] = "apply"
        PROVE  /\ Ledger(e) =< tip - Cutoff
               /\ e \in chain
               /\ Ledger(e) < fork[e.contract_id]
    <2>1. Ledger(e) =< tip - Cutoff /\ e \in chain
      BY <1>4 DEF IInv, WorkerInv
    <2>2. tip - Cutoff < fork[e.contract_id]
      BY <1>2, <2>1 DEF IInv, ForkInv
    <2>3. tip \in Int /\ Cutoff \in Int
      BY <1>1, Facts
    <2>4. QED
      BY <1>2, <2>1, <2>2, <2>3
  <1>5. QED
    BY <1>2, <1>3, <1>4

\* The event that append_events is about to insert comes next: everything
\* before it is stored.
LEMMA AppendedNext ==
    ASSUME IInv, NEW w \in Ingesters, pc[w] = "append",
           NEW e \in unsaved[w], IsFirst(e, unsaved[w]),
           Ledger(e) < fork[e.contract_id]
    PROVE  /\ e \in chain
           /\ \A f \in chain :
                f.contract_id = e.contract_id /\ IsAfter(e.at, f.at)
                    => f \in Stored
  <1>1. /\ e \in events[w] /\ e.contract_id = contract[w]
        /\ e \in chain /\ Covered(contract[w], e.at, unsaved[w])
    BY DEF IInv, WorkerInv
  <1>2. ASSUME NEW f \in chain, f.contract_id = e.contract_id, IsAfter(e.at, f.at)
        PROVE  f \in Stored
    <2>1. /\ ~IsAfter(f.at, e.at) /\ f.at # e.at
          /\ f.at.ledger_sequence =< e.at.ledger_sequence
      BY <1>1, <1>2, StoredFacts, AfterFacts
    <2>2. Ledger(f) < fork[f.contract_id]
      BY <1>1, <1>2, <2>1, StoredFacts
    <2>3. f \in indexed_events \/ f \in unsaved[w]
      BY <1>1, <1>2, <2>1, <2>2 DEF Covered
    <2>4. f \notin unsaved[w]
      BY <1>2, <2>1 DEF IsFirst
    <2>5. QED
      BY <2>2, <2>3, <2>4 DEF Stored
  <1>3. QED
    BY <1>1, <1>2

-----------------------------------------------------------------------------
(* LInv is inductive.                                                      *)

\* Steps that leave the chain, the store, the forks and the passes alone.
LEMMA FrameStep ==
    ASSUME LInv, IInv',
           UNCHANGED <<chain, indexed_events, fork>>,
           applied \subseteq applied',
           \A w \in Ingesters :
               pc'[w] = "apply" => pc[w] = "apply" /\ pending'[w] = pending[w]
    PROVE  LInv'
  <1>1. PrefixInv'
    BY DEF LInv, PrefixInv, Stored
  <1>2. ASSUME NEW w \in Ingesters
        PROVE  PassInv(w)'
    BY <1>2 DEF LInv, PassInv
  <1>3. QED
    BY <1>1, <1>2 DEF LInv

LEMMA LogCloseLedgerStep ==
    ASSUME LInv, IInv', CloseLedger
    PROVE  LInv'
  <1>1. IInv /\ TypeOK
    BY DEF LInv, IInv
  <1>2. PICK f \in [Slots -> Emissions \cup {Quiet}] :
            chain' = chain \cup {EventAt(head + 1, s, f[s]) :
                                  s \in {t \in Slots : f[t] # Quiet}}
    BY DEF CloseLedger
  <1>3. head \in Int /\ head + 1 \in Int
    BY <1>1, Facts
  <1>4. /\ chain \subseteq chain'
        /\ \A g \in chain' : g \in chain \/ Ledger(g) = head + 1
    BY <1>2, <1>3, Published
  <1>5. /\ UNCHANGED <<indexed_events, fork, applied, pc, pending>>
    BY DEF CloseLedger, storeVars, rewindVars, projVars, localVars
  <1>6. ASSUME NEW e \in chain, NEW g \in chain', IsAfter(e.at, g.at)
        PROVE  g \in chain
    <2>1. Ledger(e) =< head /\ e.at \in Position /\ Ledger(e) = e.at.ledger_sequence
      BY <1>1, StoredFacts DEF IInv, ChainInv
    <2>2. TypeOK'
      BY DEF IInv
    <2>3. g.at \in Position /\ Ledger(g) = g.at.ledger_sequence
      BY <2>2, EventFields DEF TypeOK, Ledger
    <2>4. g.at.ledger_sequence =< e.at.ledger_sequence
      BY <1>6, <2>1, <2>3, AfterFacts
    <2>5. Ledger(e) \in Int
      BY <1>1, StoredFacts
    <2>6. QED
      BY <1>3, <1>4, <2>1, <2>3, <2>4, <2>5
  <1>7. PrefixInv'
    <2>1. Stored' = Stored
      BY <1>5 DEF Stored
    <2>2. QED
      BY <1>1, <1>5, <1>6, <2>1, StoredFacts DEF LInv, PrefixInv
  <1>8. ASSUME NEW w \in Ingesters
        PROVE  PassInv(w)'
    BY <1>1, <1>5, <1>6, StoredFacts DEF LInv, PassInv
  <1>9. QED
    BY <1>7, <1>8 DEF LInv

LEMMA LogReorgStep ==
    ASSUME LInv, IInv', NEW l \in 1..MaxHead, Reorg(l)
    PROVE  /\ LInv'
           /\ Stored' = {e \in Stored : Ledger(e) < l}
  <1>1. IInv /\ TypeOK
    BY DEF LInv, IInv
  <1>2. /\ chain' = {e \in chain : Ledger(e) < l}
        /\ fork' = [c \in Contracts |-> IF l < fork[c] THEN l ELSE fork[c]]
        /\ UNCHANGED <<indexed_events, applied, pc, pending>>
    BY DEF Reorg, storeVars, projVars, localVars
  <1>3. l \in Int
    BY <1>1, Facts
  <1>4. ASSUME NEW e \in indexed_events
        PROVE  Ledger(e) < fork'[e.contract_id]
                 <=> Ledger(e) < fork[e.contract_id] /\ Ledger(e) < l
    <2>1. /\ e.contract_id \in Contracts /\ Ledger(e) \in Int
          /\ fork[e.contract_id] \in Int
      BY <1>1, StoredFacts
    <2>2. QED
      BY <1>2, <1>3, <2>1
  <1>5. Stored' = {e \in Stored : Ledger(e) < l}
    BY <1>2, <1>4 DEF Stored
  <1>6. PrefixInv'
    BY <1>2, <1>5 DEF LInv, PrefixInv
  <1>7. ASSUME NEW w \in Ingesters
        PROVE  PassInv(w)'
    BY <1>2 DEF LInv, PassInv
  <1>8. QED
    BY <1>5, <1>6, <1>7 DEF LInv

\* An INSERT changes nothing below the fork, or appends the next event.
LEMMA LogAppendEventsStep ==
    ASSUME LInv, IInv', NEW w \in Ingesters, AppendEvents(w)
    PROVE  /\ LInv'
           /\ \/ Stored' = Stored
              \/ \E e \in chain :
                   /\ e \notin Stored
                   /\ \A f \in chain :
                        f.contract_id = e.contract_id /\ IsAfter(e.at, f.at)
                            => f \in Stored
                   /\ Stored' = Stored \cup {e}
  <1>1. IInv /\ TypeOK
    BY DEF LInv, IInv
  <1>2. PICK e \in unsaved[w] :
          /\ IsFirst(e, unsaved[w])
          /\ InsertEvent(e)
    BY DEF AppendEvents
  <1>3. pc[w] = "append" /\ UNCHANGED <<chain, fork, applied, pending>>
    BY DEF AppendEvents, chainVars, projVars, rewindVars
  <1>4. \/ indexed_events' = indexed_events
        \/ indexed_events' = indexed_events \cup {e} /\ e \notin indexed_events
    BY <1>2 DEF InsertEvent, SameKey
  <1>5. \A v \in Ingesters : pc'[v] = "apply" => pc[v] = "apply"
    BY <1>1 DEF AppendEvents, TypeOK
  <1>6. indexed_events \subseteq indexed_events'
    BY <1>4
  <1>7. \A v \in Ingesters : PassInv(v)'
    BY <1>3, <1>5, <1>6 DEF LInv, PassInv
  <1>8. CASE Stored' = Stored
    <2>1. PrefixInv'
      BY <1>3, <1>6, <1>8 DEF LInv, PrefixInv
    <2>2. QED
      BY <1>7, <1>8, <2>1 DEF LInv
  <1>9. CASE Stored' # Stored
    <2>1. /\ Stored' = Stored \cup {e} /\ e \notin Stored
          /\ Ledger(e) < fork[e.contract_id]
      BY <1>3, <1>4, <1>9 DEF Stored
    <2>2. /\ e \in chain
          /\ \A f \in chain :
                f.contract_id = e.contract_id /\ IsAfter(e.at, f.at)
                    => f \in Stored
      BY <1>1, <1>2, <1>3, <2>1, AppendedNext
    <2>3. Stored \subseteq indexed_events
      BY DEF Stored
    <2>4. PrefixInv'
      BY <1>3, <1>6, <2>1, <2>2, <2>3 DEF LInv, PrefixInv
    <2>5. QED
      BY <1>7, <2>1, <2>2, <2>4 DEF LInv
  <1>10. QED
    BY <1>8, <1>9

\* finalized_events selects, with an event, whatever the chain holds before it.
LEMMA SelectedPrefix ==
    ASSUME LInv, NEW w \in Ingesters, pc[w] = "select",
           NEW e \in Of(indexed_events, contract[w]), Ledger(e) =< floor[w],
           NEW f \in chain, f.contract_id = e.contract_id, IsAfter(e.at, f.at)
    PROVE  f \in Of(indexed_events, contract[w]) /\ Ledger(f) =< floor[w]
  <1>1. IInv /\ TypeOK
    BY DEF LInv, IInv
  <1>2. floor[w] \in Int /\ tip \in Int /\ Cutoff \in Int /\ floor[w] =< tip - Cutoff
    BY <1>1, Facts DEF IInv, WorkerInv
  <1>3. e \in indexed_events /\ e.contract_id = contract[w]
    BY DEF Of
  <1>4. /\ e.contract_id \in Contracts /\ e.at \in Position /\ f.at \in Position
        /\ Ledger(e) \in Int /\ fork[e.contract_id] \in Int /\ Ledger(f) \in Int
        /\ e.at.ledger_sequence = Ledger(e) /\ f.at.ledger_sequence = Ledger(f)
    BY <1>1, <1>3, StoredFacts
  <1>5. tip - Cutoff < fork[e.contract_id]
    BY <1>1, <1>4 DEF IInv, ForkInv
  <1>6. e \in Stored
    BY <1>2, <1>3, <1>4, <1>5 DEF Stored
  <1>7. f \in indexed_events
    BY <1>6 DEF LInv, PrefixInv
  <1>8. Ledger(f) =< Ledger(e)
    BY <1>4, AfterFacts
  <1>9. Ledger(f) =< floor[w]
    BY <1>2, <1>4, <1>8
  <1>10. QED
    BY <1>3, <1>7, <1>9 DEF Of

LEMMA LogFinalizedEventsStep ==
    ASSUME LInv, IInv', NEW w \in Ingesters, FinalizedEvents(w)
    PROVE  LInv'
  <1>1. IInv /\ TypeOK
    BY DEF LInv, IInv
  <1> DEFINE rows == {e \in Of(indexed_events, contract[w]) : Ledger(e) =< floor[w]}
  <1>2. /\ pc[w] = "select"
        /\ pending' = [pending EXCEPT ![w] = rows]
        /\ pc' = [pc EXCEPT ![w] = "apply"]
        /\ UNCHANGED <<chain, indexed_events, fork, applied>>
    BY DEF FinalizedEvents, chainVars, storeVars, projVars, rewindVars
  <1>3. PrefixInv'
    BY <1>2 DEF LInv, PrefixInv, Stored
  <1>4. ASSUME NEW v \in Ingesters, v # w
        PROVE  PassInv(v)'
    <2>1. pc'[v] = pc[v] /\ pending'[v] = pending[v]
      BY <1>1, <1>2, <1>4 DEF TypeOK
    <2>2. QED
      BY <1>2, <2>1 DEF LInv, PassInv
  <1>5. PassInv(w)'
    <2>1. pending'[w] = rows
      BY <1>1, <1>2 DEF TypeOK
    <2>2. ASSUME NEW e \in rows, NEW f \in chain,
                 f.contract_id = e.contract_id, IsAfter(e.at, f.at)
          PROVE  f \in rows
      BY <1>2, <2>2, SelectedPrefix
    <2>3. \A e \in rows : e \in indexed_events
      BY DEF Of
    <2> HIDE DEF rows
    <2>4. QED
      BY <1>2, <2>1, <2>2, <2>3 DEF PassInv
  <1>6. QED
    BY <1>3, <1>4, <1>5 DEF LInv

\* apply_event applies the next event of the log, or one applied before.
LEMMA LogApplyStep ==
    ASSUME LInv, IInv', NEW w \in Ingesters, Apply(w)
    PROVE  /\ LInv'
           /\ \/ applied' = applied
              \/ \E e \in Stored :
                   /\ e \notin applied
                   /\ \A f \in Stored :
                        f.contract_id = e.contract_id /\ IsAfter(e.at, f.at)
                            => f \in applied
                   /\ Ledger(e) =< tip - Cutoff
                   /\ applied' = applied \cup {e}
  <1>1. IInv /\ TypeOK
    BY DEF LInv, IInv
  <1>2. PICK e \in pending[w] :
          /\ IsFirst(e, pending[w])
          /\ applied' = applied \cup {e}
          /\ pending' = [pending EXCEPT ![w] = @ \ {e}]
    BY DEF Apply
  <1>3. pc[w] = "apply" /\ UNCHANGED <<pc, chain, indexed_events, fork>>
    BY DEF Apply, chainVars, storeVars, rewindVars
  <1>4. PrefixInv'
    BY <1>3 DEF LInv, PrefixInv, Stored
  <1>5. ASSUME NEW v \in Ingesters
        PROVE  PassInv(v)'
    <2>1. pending'[v] = IF v = w THEN pending[w] \ {e} ELSE pending[v]
      BY <1>1, <1>2 DEF TypeOK
    <2>2. pending'[v] \subseteq pending[v]
      BY <2>1
    <2>3. applied \cup pending[v] \subseteq applied' \cup pending'[v]
      BY <1>2, <2>1
    <2>4. QED
      BY <1>3, <2>2, <2>3 DEF LInv, PassInv
  <1>6. /\ e \in indexed_events /\ Ledger(e) < fork[e.contract_id]
        /\ Ledger(e) =< tip - Cutoff /\ e \in chain
    BY <1>1, <1>3, StoredFacts DEF LInv, PassInv
  <1>7. ASSUME NEW f \in Stored, f.contract_id = e.contract_id, IsAfter(e.at, f.at)
        PROVE  f \in applied
    <2>1. f \in chain
      BY <1>1, StoredFacts
    <2>2. f \in applied \cup pending[w]
      BY <1>3, <1>7, <2>1 DEF LInv, PassInv
    <2>3. f # e
      BY <1>1, <1>6, <1>7, StoredFacts, AfterFacts
    <2>4. f \notin pending[w]
      BY <1>2, <1>7, <2>3 DEF IsFirst
    <2>5. QED
      BY <2>2, <2>4
  <1>8. \/ applied' = applied
        \/ /\ e \in Stored /\ e \notin applied /\ Ledger(e) =< tip - Cutoff
           /\ applied' = applied \cup {e}
    BY <1>2, <1>6 DEF Stored
  <1>9. QED
    BY <1>4, <1>5, <1>7, <1>8 DEF LInv

\* A rewind does not touch the log: the re-org cut it before.
LEMMA LogRewindStep ==
    ASSUME LInv, IInv', NEW c \in Contracts,
           RewindEvents(c) \/ RewindCursor(c) \/ RewindFails(c)
    PROVE  LInv' /\ Stored' = Stored
  <1>1. IInv /\ TypeOK
    BY DEF LInv, IInv
  <1>2. UNCHANGED <<chain, applied, pc, pending>>
    BY DEF RewindEvents, RewindCursor, RewindFails, chainVars, projVars, localVars
  <1>3. /\ indexed_events' \subseteq indexed_events
        /\ Stored \subseteq indexed_events'
        /\ Stored' = Stored
    <2>1. CASE RewindEvents(c)
      <3>1. /\ indexed_events' =
                 {e \in indexed_events : ~(e.contract_id = c /\ Ledger(e) >= fork[c])}
            /\ fork' = fork
        BY <2>1 DEF RewindEvents
      <3>2. \A e \in Stored : ~(e.contract_id = c /\ Ledger(e) >= fork[c])
        BY <1>1, StoredFacts DEF Stored
      <3>3. QED
        BY <3>1, <3>2 DEF Stored
    <2>2. CASE RewindCursor(c)
      <3>1. /\ rewinding[c] # NoFork
            /\ fork' = [fork EXCEPT ![c] = IF @ < rewinding[c] THEN @ ELSE NoFork]
            /\ indexed_events' = indexed_events
        BY <2>2 DEF RewindCursor
      <3>2. /\ \A e \in indexed_events : e.contract_id = c => Ledger(e) < rewinding[c]
        BY <1>1, <3>1 DEF IInv, ForkInv
      <3>3. /\ fork[c] \in 0..NoFork /\ rewinding[c] \in 0..NoFork
            /\ NoFork \in Int /\ fork \in [Contracts -> 0..NoFork]
        BY <1>1, Facts DEF TypeOK, NoFork
      <3>4. ASSUME NEW e \in indexed_events
            PROVE  Ledger(e) < fork'[e.contract_id] <=> Ledger(e) < fork[e.contract_id]
        <4>1. e.contract_id \in Contracts /\ Ledger(e) \in Int
          BY <1>1, StoredFacts
        <4>2. CASE e.contract_id # c
          BY <3>1, <3>3, <4>1, <4>2
        <4>3. CASE e.contract_id = c
          <5>1. fork'[c] = IF fork[c] < rewinding[c] THEN fork[c] ELSE NoFork
            BY <3>1, <3>3
          <5>2. Ledger(e) < rewinding[c]
            BY <3>2, <4>3
          <5>3. QED
            BY <3>3, <4>1, <4>3, <5>1, <5>2
        <4>4. QED
          BY <4>2, <4>3
      <3>5. QED
        BY <3>1, <3>4 DEF Stored
    <2>3. CASE RewindFails(c)
      BY <2>3 DEF RewindFails, storeVars, Stored
    <2>4. QED
      BY <2>1, <2>2, <2>3
  <1>4. PrefixInv'
    <2> SUFFICES ASSUME NEW e \in Stored, NEW f \in chain,
                        f.contract_id = e.contract_id, IsAfter(e.at, f.at)
                 PROVE  f \in indexed_events'
      BY <1>2, <1>3 DEF PrefixInv
    <2>1. f \in indexed_events
      BY DEF LInv, PrefixInv
    <2>2. Ledger(e) < fork[e.contract_id] /\ e \in chain
      BY <1>1, StoredFacts DEF Stored
    <2>3. Ledger(f) =< Ledger(e)
      BY <1>1, <2>2, StoredFacts, AfterFacts
    <2>4. f \in Stored
      BY <1>1, <2>1, <2>2, <2>3, StoredFacts DEF Stored
    <2>5. QED
      BY <1>3, <2>4
  <1>5. ASSUME NEW w \in Ingesters
        PROVE  PassInv(w)'
    <2> SUFFICES ASSUME pc[w] = "apply", NEW e \in pending[w]
                 PROVE  e \in indexed_events'
      BY <1>2 DEF LInv, PassInv
    <2>1. e \in indexed_events /\ Ledger(e) < fork[e.contract_id]
      BY <1>1, StoredFacts DEF LInv, PassInv
    <2>2. QED
      BY <1>3, <2>1 DEF Stored
  <1>6. QED
    BY <1>3, <1>4, <1>5 DEF LInv

\* The steps of an ingester that move neither the log nor the projections.
LEMMA LogLocalStep ==
    ASSUME LInv, IInv', NEW w \in Ingesters,
           \/ GetCursor(w) \/ EventsAfter(w) \/ HeadLedger(w) \/ SetCursor(w)
           \/ ApplyFails(w) \/ IngestDone(w) \/ IngestError(w) \/ Restart(w)
    PROVE  /\ LInv'
           /\ UNCHANGED <<chain, tip, indexed_events, fork, applied>>
  <1>1. TypeOK
    BY DEF LInv, IInv
  <1>2. UNCHANGED <<chain, tip, indexed_events, fork, applied>>
    BY DEF GetCursor, EventsAfter, HeadLedger, SetCursor, ApplyFails, IngestDone,
           IngestError, Restart, chainVars, storeVars, projVars, rewindVars
  <1>3. ASSUME NEW v \in Ingesters, NEW next, Return(w, next), pc'[v] = "apply"
        PROVE  pc[v] = "apply" /\ pending'[v] = pending[v]
    BY <1>1, <1>3 DEF Return, TypeOK
  <1>4. ASSUME NEW v \in Ingesters, pc'[v] = "apply"
        PROVE  pc[v] = "apply" /\ pending'[v] = pending[v]
    <2>1. CASE GetCursor(w)
      BY <1>1, <1>4, <2>1 DEF GetCursor, TypeOK
    <2>2. CASE EventsAfter(w)
      BY <1>1, <1>3, <1>4, <2>2 DEF EventsAfter, TypeOK
    <2>3. CASE HeadLedger(w)
      BY <1>1, <1>4, <2>3 DEF HeadLedger, TypeOK
    <2>4. CASE SetCursor(w)
      BY <1>1, <1>4, <2>4 DEF SetCursor, TypeOK
    <2>5. CASE ApplyFails(w) \/ IngestDone(w) \/ IngestError(w) \/ Restart(w)
      BY <1>3, <1>4, <2>5 DEF ApplyFails, IngestDone, IngestError, Restart
    <2>6. QED
      BY <2>1, <2>2, <2>3, <2>4, <2>5
  <1>5. QED
    BY <1>2, <1>4, FrameStep

LEMMA LInvInit == Init => LInv
  BY IInvInit DEF Init, LInv, PrefixInv, Stored, PassInv

LEMMA LInvStep ==
    ASSUME ~RewindWhileRunning
    PROVE  LInv /\ [Next]_vars => LInv'
  <1> SUFFICES ASSUME LInv, [Next]_vars
               PROVE  LInv'
    OBVIOUS
  <1>1. IInv'
    BY IInvStep DEF LInv
  <1>2. CASE CloseLedger
    BY <1>1, <1>2, LogCloseLedgerStep
  <1>3. CASE \E l \in 1..MaxHead : Reorg(l)
    BY <1>1, <1>3, LogReorgStep
  <1>4. ASSUME NEW w \in Ingesters, Ingest(w) \/ IngestError(w) \/ Restart(w)
        PROVE  LInv'
    BY <1>1, <1>4, LogLocalStep, LogAppendEventsStep, LogFinalizedEventsStep,
       LogApplyStep DEF Ingest
  <1>5. ASSUME NEW c \in Contracts, RewindEvents(c) \/ RewindCursor(c) \/ RewindFails(c)
        PROVE  LInv'
    BY <1>1, <1>5, LogRewindStep
  <1>6. CASE UNCHANGED vars
    <2>1. UNCHANGED <<chain, indexed_events, fork, applied, pc, pending>>
      BY <1>6 DEF vars, chainVars, storeVars, projVars, localVars, rewindVars
    <2>2. QED
      BY <1>1, <2>1, FrameStep
  <1>7. QED
    BY <1>2, <1>3, <1>4, <1>5, <1>6 DEF Next

LEMMA LInvAlways ==
    ASSUME ~RewindWhileRunning
    PROVE  Spec => []LInv
  <1>1. Init => LInv
    BY LInvInit
  <1>2. LInv /\ [Next]_vars => LInv'
    BY LInvStep
  <1>3. QED
    BY <1>1, <1>2, PTL DEF Spec

-----------------------------------------------------------------------------
(* The refinement.                                                         *)

\* EventLog has the same order of positions.
LEMMA LogOrder ==
    ASSUME NEW p, NEW q
    PROVE  Log!IsAfter(p, q) <=> IsAfter(p, q)
  BY DEF Log!IsAfter, IsAfter

\* What is before everything of its contract that is missing comes next.
LEMMA LogNext ==
    ASSUME NEW S, NEW T, NEW e \in S, e \notin T,
           \A f \in S : f.contract_id = e.contract_id /\ IsAfter(e.at, f.at)
                            => f \in T
    PROVE  Log!IsNext(e, S, T)
  BY LogOrder DEF Log!IsNext

\* Every step of the indexer is a step of the log, or none.
LEMMA LogRefineStep ==
    ASSUME ~RewindWhileRunning
    PROVE  LInv /\ [Next]_vars => [Log!Next]_(Log!vars)
  <1> SUFFICES ASSUME LInv, [Next]_vars
               PROVE  Log!Next \/ UNCHANGED Log!vars
    OBVIOUS
  <1>1. IInv /\ IInv' /\ TypeOK
    BY IInvStep DEF LInv, IInv
  <1>2. ASSUME UNCHANGED <<chain, tip, applied>>, Stored' = Stored
        PROVE  UNCHANGED Log!vars
    BY <1>2 DEF Log!vars, Stored
  <1>3. CASE CloseLedger
    <2>1. PICK g \in [Slots -> Emissions \cup {Quiet}] :
            chain' = chain \cup {EventAt(head + 1, s, g[s]) :
                                  s \in {t \in Slots : g[t] # Quiet}}
      BY <1>3 DEF CloseLedger
    <2>2. /\ head \in Int /\ tip \in Int /\ head + 1 \in Int /\ head =< tip
      BY <1>1, Facts DEF IInv, ChainInv
    <2>3. /\ chain \subseteq chain'
          /\ \A f \in chain' \ chain : Ledger(f) = head + 1
      BY <2>1, <2>2, Published
    <2>4. ASSUME NEW e \in chain, NEW f \in chain' \ chain
          PROVE  Log!IsAfter(f.at, e.at)
      <3>1. /\ Ledger(e) =< head /\ Ledger(e) \in Int /\ e.at \in Position
            /\ Ledger(e) = e.at.ledger_sequence
        BY <1>1, StoredFacts DEF IInv, ChainInv
      <3>2. f.at \in Position /\ Ledger(f) = f.at.ledger_sequence
        BY <1>1, EventFields DEF IInv, TypeOK, Ledger
      <3>3. f.at.ledger_sequence > e.at.ledger_sequence
        BY <2>2, <2>3, <3>1, <3>2
      <3>4. QED
        BY <3>1, <3>2, <3>3, AfterFacts, LogOrder
    <2>5. tip' \in {tip, tip + 1}
      BY <1>3, <2>2 DEF CloseLedger
    <2>6. UNCHANGED <<indexed_events, fork, applied>>
      BY <1>3 DEF CloseLedger, storeVars, projVars, rewindVars
    <2>7. Log!Close
      BY <2>3, <2>4, <2>5, <2>6 DEF Log!Close
    <2>8. QED
      BY <2>7 DEF Log!Next
  <1>4. ASSUME NEW l \in 1..MaxHead, Reorg(l)
        PROVE  Log!Next
    <2>1. Stored' = {e \in Stored : Ledger(e) < l}
      BY <1>1, <1>4, LogReorgStep
    <2>2. /\ l > tip - Cutoff /\ chain' = {e \in chain : Ledger(e) < l}
          /\ UNCHANGED <<tip, applied>>
      BY <1>4 DEF Reorg, projVars
    <2>3. Log!Reorg(l)
      BY <2>1, <2>2 DEF Log!Reorg, Log!Below, Stored, Ledger
    <2>4. QED
      BY <2>3 DEF Log!Next
  <1>5. ASSUME NEW w \in Ingesters, AppendEvents(w)
        PROVE  Log!Next \/ UNCHANGED Log!vars
    <2>1. UNCHANGED <<chain, tip, applied>>
      BY <1>5 DEF AppendEvents, chainVars, projVars
    <2>2. CASE Stored' = Stored
      BY <1>2, <2>1, <2>2
    <2>3. CASE \E e \in chain :
                   /\ e \notin Stored
                   /\ \A f \in chain :
                        f.contract_id = e.contract_id /\ IsAfter(e.at, f.at)
                            => f \in Stored
                   /\ Stored' = Stored \cup {e}
      <3>1. PICK e \in chain :
                   /\ e \notin Stored
                   /\ \A f \in chain :
                        f.contract_id = e.contract_id /\ IsAfter(e.at, f.at)
                            => f \in Stored
                   /\ Stored' = Stored \cup {e}
        BY <2>3
      <3>2. Log!IsNext(e, chain, Stored)
        BY <3>1, LogNext
      <3>3. Log!Append
        BY <2>1, <3>1, <3>2 DEF Log!Append, Stored
      <3>4. QED
        BY <3>3 DEF Log!Next
    <2>4. QED
      BY <1>1, <1>5, <2>2, <2>3, LogAppendEventsStep
  <1>6. ASSUME NEW w \in Ingesters, Apply(w)
        PROVE  Log!Next \/ UNCHANGED Log!vars
    <2>1. UNCHANGED <<chain, tip, indexed_events, fork>> /\ Stored' = Stored
      BY <1>6 DEF Apply, chainVars, storeVars, rewindVars, Stored
    <2>2. CASE applied' = applied
      BY <1>2, <2>1, <2>2
    <2>3. CASE \E e \in Stored :
                   /\ e \notin applied
                   /\ \A f \in Stored :
                        f.contract_id = e.contract_id /\ IsAfter(e.at, f.at)
                            => f \in applied
                   /\ Ledger(e) =< tip - Cutoff
                   /\ applied' = applied \cup {e}
      <3>1. PICK e \in Stored :
                   /\ e \notin applied
                   /\ \A f \in Stored :
                        f.contract_id = e.contract_id /\ IsAfter(e.at, f.at)
                            => f \in applied
                   /\ Ledger(e) =< tip - Cutoff
                   /\ applied' = applied \cup {e}
        BY <2>3
      <3>2. Log!IsNext(e, Stored, applied)
        BY <3>1, LogNext
      <3>3. Log!Project
        BY <2>1, <3>1, <3>2 DEF Log!Project, Stored, Ledger
      <3>4. QED
        BY <3>3 DEF Log!Next
    <2>4. QED
      BY <1>1, <1>6, <2>2, <2>3, LogApplyStep
  <1>7. ASSUME NEW w \in Ingesters, FinalizedEvents(w)
        PROVE  UNCHANGED Log!vars
    BY <1>2, <1>7
    DEF FinalizedEvents, chainVars, storeVars, projVars, rewindVars, Stored
  <1>8. ASSUME NEW w \in Ingesters,
               \/ GetCursor(w) \/ EventsAfter(w) \/ HeadLedger(w) \/ SetCursor(w)
               \/ ApplyFails(w) \/ IngestDone(w) \/ IngestError(w) \/ Restart(w)
        PROVE  UNCHANGED Log!vars
    <2>1. UNCHANGED <<chain, tip, indexed_events, fork, applied>>
      BY <1>1, <1>8, LogLocalStep
    <2>2. Stored' = Stored
      BY <2>1 DEF Stored
    <2>3. QED
      BY <1>2, <2>1, <2>2
  <1>9. ASSUME NEW c \in Contracts, RewindEvents(c) \/ RewindCursor(c) \/ RewindFails(c)
        PROVE  UNCHANGED Log!vars
    <2>1. UNCHANGED <<chain, tip, applied>>
      BY <1>9 DEF RewindEvents, RewindCursor, RewindFails, chainVars, projVars
    <2>2. QED
      BY <1>1, <1>2, <1>9, <2>1, LogRewindStep
  <1>10. CASE UNCHANGED vars
    BY <1>2, <1>10
    DEF vars, chainVars, storeVars, projVars, rewindVars, Stored
  <1>11. QED
    BY <1>3, <1>4, <1>5, <1>6, <1>7, <1>8, <1>9, <1>10 DEF Next, Ingest

LEMMA LogRefineInit == Init => Log!Init
  BY DEF Init, Log!Init

\* If rewind is only run while its contract is not being ingested, the
\* database of any number of overlapping, failing and restarted indexers is
\* that of one atomic log: a contract's events enter the store in chain order
\* without a gap, and are first projected in the same order, none before it
\* is final.
THEOREM IndexerImplementsLog ==
    ASSUME ~RewindWhileRunning
    PROVE  Spec => ImplementsLog
  <1>1. LInv /\ [Next]_vars => [Log!Next]_(Log!vars)
    BY LogRefineStep
  <1>2. QED
    BY <1>1, LogRefineInit, LInvAlways, PTL DEF Spec, ImplementsLog, Log!Spec

-----------------------------------------------------------------------------
(* The verification table.                                                 *)

\* The events on the chain are legal.
LegalInv == \A e \in chain : Legal(e, chain)

\* Events are first applied in order: whatever the chain holds before an
\* applied event has been applied.
AppliedInv ==
    \A e \in applied, f \in chain :
        f.contract_id = e.contract_id /\ IsAfter(e.at, f.at) => f \in applied

VInv ==
    /\ LInv
    /\ LegalInv
    /\ AppliedInv
    /\ VerificationsExact

\* Two different events of a contract lie one after the other.
LEMMA OneAfterOther ==
    ASSUME IInv, NEW e \in chain, NEW f \in chain,
           e.contract_id = f.contract_id, e # f
    PROVE  IsAfter(e.at, f.at) \/ IsAfter(f.at, e.at)
  <1>1. e.at \in Position /\ f.at \in Position
    BY StoredFacts
  <1>2. e.at # f.at
    BY DEF IInv, ChainInv, SameKey
  <1>3. \/ e.at.ledger_sequence # f.at.ledger_sequence
        \/ e.at.operation_index # f.at.operation_index
        \/ e.at.event_index # f.at.event_index
    BY <1>1, <1>2 DEF Position
  <1>4. QED
    BY <1>1, <1>3 DEF IsAfter, Position

\* A verification is created once and revoked at most once, in this order.
LEMMA LegalOnce ==
    ASSUME IInv, LegalInv, NEW e \in chain, NEW f \in chain,
           e.contract_id = f.contract_id, e.body.key = f.body.key
    PROVE  /\ (/\ e.body.event_name = "VerificationCreated"
               /\ f.body.event_name = "VerificationCreated") => e = f
           /\ (/\ e.body.event_name = "VerificationRevoked"
               /\ f.body.event_name = "VerificationRevoked") => e = f
           /\ (/\ e.body.event_name = "VerificationCreated"
               /\ f.body.event_name = "VerificationRevoked") => IsAfter(f.at, e.at)
  <1>1. ASSUME NEW g \in chain, NEW h \in chain,
               g.contract_id = h.contract_id, g.body.key = h.body.key,
               g.body.event_name = "VerificationCreated"
        PROVE  ~IsAfter(g.at, h.at)
    <2>1. Legal(g, chain)
      BY DEF LegalInv
    <2>2. QED
      BY <1>1, <2>1 DEF Legal, Creations
  <1>2. ASSUME NEW g \in chain, NEW h \in chain,
               g.contract_id = h.contract_id, g.body.key = h.body.key,
               g.body.event_name = "VerificationRevoked",
               h.body.event_name = "VerificationRevoked"
        PROVE  ~IsAfter(g.at, h.at)
    <2>1. Legal(g, chain)
      BY DEF LegalInv
    <2>2. QED
      BY <1>2, <2>1 DEF Legal, Creations, Closings
  <1>3. e # f => IsAfter(e.at, f.at) \/ IsAfter(f.at, e.at)
    BY OneAfterOther
  <1>4. QED
    BY <1>1, <1>2, <1>3

\* Removing later events, or adding them, keeps an event legal.
LEMMA LegalFrame ==
    ASSUME NEW S, NEW T, NEW e,
           \A f \in S \cup T : IsAfter(e.at, f.at) => (f \in S <=> f \in T),
           Legal(e, S)
    PROVE  Legal(e, T)
  <1> DEFINE before(U) == {f \in U : /\ f.contract_id = e.contract_id
                                     /\ f.body.key = e.body.key
                                     /\ IsAfter(e.at, f.at)}
  <1>1. before(S) = before(T)
    OBVIOUS
  <1>2. QED
    BY <1>1 DEF Legal

LEMMA LegalStep ==
    ASSUME LInv, IInv', LegalInv, [Next]_vars
    PROVE  LegalInv'
  <1>1. IInv /\ TypeOK
    BY DEF LInv, IInv
  <1>2. CASE CloseLedger
    <2>1. PICK g \in [Slots -> Emissions \cup {Quiet}] :
            LET new == {EventAt(head + 1, s, g[s]) : s \in {t \in Slots : g[t] # Quiet}}
            IN  /\ \A e \in new : Legal(e, chain \cup new)
                /\ chain' = chain \cup new
      BY <1>2 DEF CloseLedger
    <2> DEFINE new == {EventAt(head + 1, s, g[s]) : s \in {t \in Slots : g[t] # Quiet}}
    <2>2. head \in Int /\ head + 1 \in Int
      BY <1>1, Facts
    <2>3. new \subseteq Event /\ \A e \in new : Ledger(e) = head + 1
      BY <2>2, Published
    <2>4. (\A e \in new : Legal(e, chain \cup new)) /\ chain' = chain \cup new
      BY <2>1
    <2> HIDE DEF new
    <2>5. ASSUME NEW e \in chain, NEW f \in new
          PROVE  ~IsAfter(e.at, f.at)
      <3>1. /\ Ledger(e) =< head /\ Ledger(e) \in Int /\ e.at \in Position
            /\ Ledger(e) = e.at.ledger_sequence
        BY <1>1, StoredFacts DEF IInv, ChainInv
      <3>2. f.at \in Position /\ f.at.ledger_sequence = head + 1
        BY <2>3, EventFields DEF Ledger
      <3>3. f.at.ledger_sequence > e.at.ledger_sequence
        BY <2>2, <3>1, <3>2
      <3>4. QED
        BY <3>1, <3>2, <3>3, AfterFacts
    <2>6. ASSUME NEW e \in chain
          PROVE  Legal(e, chain \cup new)
      <3>1. Legal(e, chain)
        BY DEF LegalInv
      <3>2. QED
        BY <2>5, <3>1, LegalFrame
    <2>7. QED
      BY <2>4, <2>6 DEF LegalInv
  <1>3. ASSUME NEW l \in 1..MaxHead, Reorg(l)
        PROVE  LegalInv'
    <2>1. chain' = {e \in chain : Ledger(e) < l} /\ l \in Int
      BY <1>1, <1>3, Facts DEF Reorg
    <2>2. ASSUME NEW e \in chain', NEW f \in chain, IsAfter(e.at, f.at)
          PROVE  f \in chain'
      <3>1. /\ e.at \in Position /\ f.at \in Position
            /\ Ledger(e) \in Int /\ Ledger(f) \in Int
            /\ e.at.ledger_sequence = Ledger(e) /\ f.at.ledger_sequence = Ledger(f)
        BY <1>1, <2>1, StoredFacts
      <3>2. Ledger(f) =< Ledger(e)
        BY <2>2, <3>1, AfterFacts
      <3>3. QED
        BY <2>1, <3>1, <3>2
    <2>3. ASSUME NEW e \in chain'
          PROVE  Legal(e, chain')
      <3>1. e \in chain /\ chain' \subseteq chain
        BY <2>1
      <3>2. Legal(e, chain)
        BY <3>1 DEF LegalInv
      <3>3. QED
        BY <2>2, <3>1, <3>2, LegalFrame
    <2>4. QED
      BY <2>3 DEF LegalInv
  <1>4. CASE chain' = chain
    BY <1>4 DEF LegalInv
  <1>5. CloseLedger \/ (\E l \in 1..MaxHead : Reorg(l)) \/ chain' = chain
    BY DEF Next, Ingest, GetCursor, EventsAfter, HeadLedger, AppendEvents, SetCursor,
           FinalizedEvents, Apply, ApplyFails, IngestDone, IngestError, Restart,
           RewindEvents, RewindCursor, RewindFails, vars, chainVars
  <1>6. QED
    BY <1>2, <1>3, <1>4, <1>5

LEMMA AppliedStep ==
    ASSUME LInv, IInv', LInv', AppliedInv, [Next]_vars
    PROVE  AppliedInv'
  <1>1. IInv /\ TypeOK
    BY DEF LInv, IInv
  <1>2. CASE CloseLedger
    <2>1. PICK g \in [Slots -> Emissions \cup {Quiet}] :
            chain' = chain \cup {EventAt(head + 1, s, g[s]) :
                                  s \in {t \in Slots : g[t] # Quiet}}
      BY <1>2 DEF CloseLedger
    <2>2. head \in Int /\ head + 1 \in Int
      BY <1>1, Facts
    <2>3. \A f \in chain' : f \in chain \/ Ledger(f) = head + 1
      BY <2>1, <2>2, Published
    <2>4. ASSUME NEW e \in applied, NEW f \in chain', f \notin chain
          PROVE  ~IsAfter(e.at, f.at)
      <3>1. e \in chain
        BY <1>1 DEF IInv, FinalityGate
      <3>2. /\ Ledger(e) =< head /\ Ledger(e) \in Int /\ e.at \in Position
            /\ Ledger(e) = e.at.ledger_sequence
        BY <1>1, <3>1, StoredFacts DEF IInv, ChainInv
      <3>3. f.at \in Position /\ Ledger(f) = f.at.ledger_sequence
        BY EventFields DEF IInv, TypeOK, Ledger
      <3>4. f.at.ledger_sequence > e.at.ledger_sequence
        BY <2>2, <2>3, <2>4, <3>2, <3>3
      <3>5. QED
        BY <3>2, <3>3, <3>4, AfterFacts
    <2>5. applied' = applied
      BY <1>2 DEF CloseLedger, projVars
    <2>6. QED
      BY <2>4, <2>5 DEF AppliedInv
  <1>3. CASE chain' \subseteq chain /\ applied' = applied
    BY <1>3 DEF AppliedInv
  <1>4. ASSUME NEW w \in Ingesters, Apply(w)
        PROVE  AppliedInv'
    <2>1. chain' = chain
      BY <1>4 DEF Apply, chainVars
    <2>2. CASE applied' = applied
      BY <2>1, <2>2 DEF AppliedInv
    <2>3. CASE \E e \in Stored :
                   /\ e \notin applied
                   /\ \A f \in Stored :
                        f.contract_id = e.contract_id /\ IsAfter(e.at, f.at)
                            => f \in applied
                   /\ Ledger(e) =< tip - Cutoff
                   /\ applied' = applied \cup {e}
      <3>1. PICK e \in Stored :
                   /\ \A f \in Stored :
                        f.contract_id = e.contract_id /\ IsAfter(e.at, f.at)
                            => f \in applied
                   /\ applied' = applied \cup {e}
        BY <2>3
      <3>2. ASSUME NEW f \in chain, f.contract_id = e.contract_id, IsAfter(e.at, f.at)
            PROVE  f \in applied
        <4>1. f \in indexed_events
          BY <3>2 DEF LInv, PrefixInv
        <4>2. /\ e.at \in Position /\ f.at \in Position
              /\ Ledger(e) \in Int /\ Ledger(f) \in Int /\ fork[e.contract_id] \in Int
              /\ e.at.ledger_sequence = Ledger(e) /\ f.at.ledger_sequence = Ledger(f)
          BY <1>1, StoredFacts DEF Stored
        <4>3. Ledger(f) =< Ledger(e)
          BY <3>2, <4>2, AfterFacts
        <4>4. f \in Stored
          BY <3>2, <4>1, <4>2, <4>3 DEF Stored
        <4>5. QED
          BY <3>1, <3>2, <4>4
      <3>3. QED
        BY <2>1, <3>1, <3>2 DEF AppliedInv
    <2>4. QED
      BY <1>4, <2>2, <2>3, LogApplyStep
  <1>5. ASSUME NEW l \in 1..MaxHead, Reorg(l)
        PROVE  chain' \subseteq chain /\ applied' = applied
    BY <1>5 DEF Reorg, projVars
  <1>6. \/ CloseLedger \/ (\E l \in 1..MaxHead : Reorg(l))
        \/ (\E w \in Ingesters : Apply(w))
        \/ chain' = chain /\ applied' = applied
    BY DEF Next, Ingest, GetCursor, EventsAfter, HeadLedger, AppendEvents, SetCursor,
           FinalizedEvents, ApplyFails, IngestDone, IngestError, Restart,
           RewindEvents, RewindCursor, RewindFails, vars, chainVars, projVars
  <1>7. QED
    BY <1>2, <1>3, <1>4, <1>5, <1>6

\* What apply_event does to a verification that shows what was applied to it.
LEMMA ExactApply ==
    ASSUME VInv, NEW w \in Ingesters, Apply(w)
    PROVE  VerificationsExact'
  <1>1. IInv /\ TypeOK /\ applied \subseteq chain
    BY DEF VInv, LInv, IInv, FinalityGate
  <1>2. PICK e \in pending[w] : db' = ApplyEvent(db, e) /\ applied' = applied \cup {e}
    BY DEF Apply
  <1>3. pc[w] = "apply"
    BY DEF Apply
  <1>4. e \in chain /\ e \in Event /\ db \in Tables
    BY <1>1, <1>2, <1>3, StoredFacts DEF TypeOK
  <1> SUFFICES ASSUME NEW c \in Contracts, NEW k \in Keys,
                      ContractName[c] = "verification", Sole(c)
               PROVE  LET row == db'.verification[k]
                          created == AppliedTo(c, k, "VerificationCreated")'
                          revoked == AppliedTo(c, k, "VerificationRevoked")'
                      IN  /\ row = NoRow <=> created = {}
                          /\ row # NoRow =>
                               /\ row.contract_id = c
                               /\ \A f \in created : row.issued_ledger = Ledger(f)
                               /\ row.revoked <=> revoked # {}
                               /\ revoked = {} => row.revoked_ledger = NULL
                               /\ \A f \in revoked : row.revoked_ledger = Ledger(f)
    BY DEF VerificationsExact
  <1> DEFINE row == db.verification[k]
             created == AppliedTo(c, k, "VerificationCreated")
             revoked == AppliedTo(c, k, "VerificationRevoked")
             new == ApplyEvent(db, e).verification[k]
             Is(ev) == /\ ContractName[e.contract_id] = "verification"
                       /\ e.body.key = k /\ e.body.event_name = ev
  <1>5. /\ row = NoRow <=> created = {}
        /\ row # NoRow =>
             /\ row.contract_id = c
             /\ \A f \in created : row.issued_ledger = Ledger(f)
             /\ row.revoked <=> revoked # {}
             /\ revoked = {} => row.revoked_ledger = NULL
             /\ \A f \in revoked : row.revoked_ledger = Ledger(f)
    BY DEF VInv, VerificationsExact
  <1>6. row \in VerificationRow \cup {NoRow} /\ db'.verification[k] = new
    BY <1>2, <1>4 DEF Tables
  <1>7. ContractName[e.contract_id] = "verification" <=> e.contract_id = c
    BY <1>4, EventFields DEF Sole
  <1>8. ASSUME NEW ev
        PROVE  AppliedTo(c, k, ev)' =
                 IF Is(ev) THEN AppliedTo(c, k, ev) \cup {e} ELSE AppliedTo(c, k, ev)
    <2>1. AppliedTo(c, k, ev)' =
            {f \in applied \cup {e} : /\ f.contract_id = c
                                      /\ f.body.key = k /\ f.body.event_name = ev}
      BY <1>2 DEF AppliedTo, Of
    <2>2. QED
      BY <1>7, <2>1 DEF AppliedTo, Of
  <1>9. /\ \A f \in created : /\ f \in applied /\ f \in chain /\ f.contract_id = c
                              /\ f.body.key = k
                              /\ f.body.event_name = "VerificationCreated"
        /\ \A f \in revoked : /\ f \in applied /\ f \in chain /\ f.contract_id = c
                              /\ f.body.key = k
                              /\ f.body.event_name = "VerificationRevoked"
    BY <1>1 DEF AppliedTo, Of
  <1>10. IInv /\ LegalInv /\ AppliedInv
    BY <1>1 DEF VInv
  <1> HIDE DEF row, created, revoked, new
  <1>11. CASE ~Is("VerificationCreated") /\ ~Is("VerificationRevoked")
    <2>1. new = row
      BY <1>4, <1>11, VerificationWritten DEF new, row
    <2>2. /\ AppliedTo(c, k, "VerificationCreated")' = created
          /\ AppliedTo(c, k, "VerificationRevoked")' = revoked
      BY <1>8, <1>11 DEF created, revoked
    <2>3. QED
      BY <1>5, <1>6, <2>1, <2>2
  <1>12. CASE Is("VerificationCreated")
    <2>1. new = UpsertVerification(row, e)
      BY <1>4, <1>12, VerificationWritten DEF new, row
    <2>2. /\ AppliedTo(c, k, "VerificationCreated")' = created \cup {e}
          /\ AppliedTo(c, k, "VerificationRevoked")' = revoked
      BY <1>8, <1>12 DEF created, revoked
    <2>3. \A f \in created : f = e
      BY <1>4, <1>7, <1>9, <1>10, <1>12, LegalOnce
    <2>4. row = NoRow => revoked = {}
      <3> SUFFICES ASSUME row = NoRow, NEW f \in revoked
                   PROVE  FALSE
        OBVIOUS
      <3>1. IsAfter(f.at, e.at)
        BY <1>4, <1>7, <1>9, <1>10, <1>12, LegalOnce
      <3>2. e \in applied
        BY <1>4, <1>7, <1>9, <1>10, <1>12, <3>1 DEF AppliedInv
      <3>3. e \in created
        BY <1>7, <1>12, <3>2 DEF created, AppliedTo, Of
      <3>4. QED
        BY <1>5, <3>3
    <2>5. /\ new # NoRow /\ new.contract_id = c
          /\ new.issued_ledger = Ledger(e)
          /\ row = NoRow => ~new.revoked /\ new.revoked_ledger = NULL
          /\ row # NoRow => /\ new.revoked <=> row.revoked
                            /\ new.revoked_ledger = row.revoked_ledger
      BY <1>4, <1>6, <1>7, <1>12, <2>1, VerificationBuilders
    <2>6. \A f \in created \cup {e} : new.issued_ledger = Ledger(f)
      BY <2>3, <2>5
    <2>7. /\ new.revoked <=> revoked # {}
          /\ revoked = {} => new.revoked_ledger = NULL
          /\ \A f \in revoked : new.revoked_ledger = Ledger(f)
      BY <1>5, <2>4, <2>5
    <2>8. QED
      BY <1>6, <2>2, <2>5, <2>6, <2>7
  <1>13. CASE Is("VerificationRevoked")
    <2>1. new = RevokeVerification(row, e)
      BY <1>4, <1>13, VerificationWritten DEF new, row
    <2>2. /\ AppliedTo(c, k, "VerificationCreated")' = created
          /\ AppliedTo(c, k, "VerificationRevoked")' = revoked \cup {e}
      BY <1>8, <1>13 DEF created, revoked
    <2>3. \A f \in revoked : f = e
      BY <1>4, <1>7, <1>9, <1>10, <1>13, LegalOnce
    <2>4. /\ row = NoRow => new = NoRow
          /\ row # NoRow => /\ new # NoRow /\ new.contract_id = row.contract_id
                            /\ new.issued_ledger = row.issued_ledger
                            /\ new.revoked /\ new.revoked_ledger = Ledger(e)
      BY <1>4, <1>6, <2>1, VerificationBuilders
    <2>5. \A f \in revoked \cup {e} : row # NoRow => new.revoked_ledger = Ledger(f)
      BY <2>3, <2>4
    <2>6. QED
      BY <1>5, <1>6, <2>2, <2>4, <2>5
  <1>14. QED
    BY <1>11, <1>12, <1>13

LEMMA VInvInit == Init => VInv
  <1> SUFFICES ASSUME Init
               PROVE  VInv
    OBVIOUS
  <1>1. LInv
    BY LInvInit
  <1>2. LegalInv /\ AppliedInv
    BY DEF Init, LegalInv, AppliedInv
  <1>3. \A k \in Keys : db.verification[k] = NoRow
    BY DEF Init, EmptyTables, EmptyTable
  <1>4. \A c \in Contracts, k \in Keys : AppliedTo(c, k, "VerificationCreated") = {}
    BY DEF Init, AppliedTo, Of
  <1>5. VerificationsExact
    BY <1>3, <1>4 DEF VerificationsExact
  <1>6. QED
    BY <1>1, <1>2, <1>5 DEF VInv

LEMMA VInvStep ==
    ASSUME ~RewindWhileRunning
    PROVE  VInv /\ [Next]_vars => VInv'
  <1> SUFFICES ASSUME VInv, [Next]_vars
               PROVE  VInv'
    OBVIOUS
  <1>1. LInv' /\ IInv'
    BY LInvStep DEF VInv, LInv
  <1>2. LegalInv' /\ AppliedInv'
    BY <1>1, LegalStep, AppliedStep DEF VInv
  <1>3. CASE db' = db /\ applied' = applied
    <2>1. VerificationsExact'
      BY <1>3 DEF VInv, VerificationsExact, AppliedTo, Of
    <2>2. QED
      BY <1>1, <1>2, <2>1 DEF VInv
  <1>4. ASSUME NEW w \in Ingesters, Apply(w)
        PROVE  VInv'
    BY <1>1, <1>2, <1>4, ExactApply DEF VInv
  <1>5. (\E w \in Ingesters : Apply(w)) \/ (db' = db /\ applied' = applied)
    BY DEF Next, CloseLedger, Reorg, Ingest, GetCursor, EventsAfter, HeadLedger,
           AppendEvents, SetCursor, FinalizedEvents, ApplyFails, IngestDone,
           IngestError, Restart, RewindEvents, RewindCursor, RewindFails,
           vars, projVars
  <1>6. QED
    BY <1>3, <1>4, <1>5

\* Under the same condition the verification table is at every moment what
\* the applied events say, although every pass writes the creations again.
THEOREM VerificationsAreExact ==
    ASSUME ~RewindWhileRunning
    PROVE  Spec => []VerificationsExact
  <1>1. Init => VInv
    BY VInvInit
  <1>2. VInv /\ [Next]_vars => VInv'
    BY VInvStep
  <1>3. VInv => VerificationsExact
    BY DEF VInv
  <1>4. QED
    BY <1>1, <1>2, <1>3, PTL DEF Spec
=============================================================================
