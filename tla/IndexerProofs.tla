--------------------------- MODULE IndexerProofs ---------------------------
(***************************************************************************)
(* Proofs about Indexer for every set of ingesters, contracts, keys and    *)
(* slots, and every value of the cutoff and of the bounds.                 *)
(***************************************************************************)
EXTENDS Indexer, ProjectionsProofs, TLAPS

-----------------------------------------------------------------------------
(* Type correctness.                                                       *)

\* START is a position.
LEMMA StartType == START \in Position
  BY DEF START, Position

\* What a ledger publishes is a set of events, all of that ledger, with
\* distinct natural keys.
LEMMA Published ==
    ASSUME NEW l \in Int, NEW f \in [Slots -> Emissions \cup {Quiet}]
    PROVE  LET new == {EventAt(l, s, f[s]) : s \in {t \in Slots : f[t] # Quiet}}
           IN  /\ new \subseteq Event
               /\ \A e \in new : Ledger(e) = l
               /\ \A e, g \in new : SameKey(e, g) => e = g
  <1> DEFINE live == {t \in Slots : f[t] # Quiet}
  <1>1. ASSUME NEW s \in live
        PROVE  EventAt(l, s, f[s]) \in Event /\ Ledger(EventAt(l, s, f[s])) = l
    <2>1. f[s] \in Emissions
      OBVIOUS
    <2>2. PICK c \in Contracts : f[s] \in {c} \X Emits[c]
      BY <2>1 DEF Emissions
    <2>3. f[s][1] \in Contracts /\ f[s][2] \in Emits[c]
      BY <2>2
    <2>4. f[s][2] \in Body
      BY <2>3, EmitsAssumption DEF EmitsAssumption
    <2>5. s.operation_index \in Int /\ s.event_index \in Int
      BY SlotsAssumption DEF SlotsAssumption
    <2>6. [ledger_sequence |-> l, operation_index |-> s.operation_index,
           event_index |-> s.event_index] \in Position
      BY <2>5 DEF Position
    <2>7. QED
      BY <2>3, <2>4, <2>6 DEF EventAt, Event, Ledger
  <1>2. ASSUME NEW s \in live, NEW t \in live,
               SameKey(EventAt(l, s, f[s]), EventAt(l, t, f[t]))
        PROVE  s = t
    <2>1. s.operation_index = t.operation_index /\ s.event_index = t.event_index
      BY <1>2 DEF SameKey, EventAt
    <2>2. /\ s \in [operation_index : Nat, event_index : Nat]
          /\ t \in [operation_index : Nat, event_index : Nat]
      BY SlotsAssumption DEF SlotsAssumption
    <2>3. QED
      BY <2>1, <2>2
  <1>3. QED
    BY <1>1, <1>2

\* Every step keeps the state well typed.
LEMMA TypeStep == TypeOK /\ [Next]_vars => TypeOK'
  <1> SUFFICES ASSUME TypeOK, [Next]_vars
               PROVE  TypeOK'
    OBVIOUS
  <1>a. /\ MaxHead \in Nat /\ MaxFaults \in Nat /\ MaxReorgs \in Nat
        /\ Cutoff \in Nat
    BY BoundsAssumption, CutoffAssumption DEF BoundsAssumption, CutoffAssumption
  <1>b. /\ FirstContract \in Contracts
        /\ \A c \in Contracts : NextContract[c] \in Contracts
    BY ScheduleAssumption DEF ScheduleAssumption
  <1>1. CASE CloseLedger
    <2>1. PICK f \in [Slots -> Emissions \cup {Quiet}] :
            chain' = chain \cup {EventAt(head + 1, s, f[s]) :
                                  s \in {t \in Slots : f[t] # Quiet}}
      BY <1>1 DEF CloseLedger
    <2>2. head + 1 \in Int
      BY DEF TypeOK
    <2>3. chain' \subseteq Event
      BY <2>1, <2>2, Published DEF TypeOK
    <2>4. head' \in 0..MaxHead /\ tip' \in 0..MaxHead
      BY <1>1, <1>a DEF CloseLedger, TypeOK
    <2>5. QED
      BY <1>1, <2>3, <2>4
      DEF CloseLedger, TypeOK, storeVars, projVars, localVars, rewindVars
  <1>2. ASSUME NEW l \in 1..MaxHead, Reorg(l)
        PROVE  TypeOK'
    <2>1. head' \in 0..MaxHead /\ reorgs' \in 0..MaxReorgs
      BY <1>2, <1>a DEF Reorg, TypeOK
    <2>2. fork' \in [Contracts -> 0..NoFork]
      BY <1>2, <1>a DEF Reorg, TypeOK, NoFork
    <2>3. QED
      BY <1>2, <2>1, <2>2
      DEF Reorg, TypeOK, storeVars, projVars, localVars
  <1>3. ASSUME NEW w \in Ingesters, NEW next \in Contracts, Return(w, next)
        PROVE  /\ pc' \in [Ingesters -> Stages]
               /\ contract' \in [Ingesters -> Contracts]
               /\ cursor' \in [Ingesters -> Position]
               /\ events' \in [Ingesters -> SUBSET Event]
               /\ unsaved' \in [Ingesters -> SUBSET Event]
               /\ floor' \in [Ingesters -> Int]
               /\ finalized' \in [Ingesters -> SUBSET Event]
               /\ pending' \in [Ingesters -> SUBSET Event]
    BY <1>3, StartType DEF Return, TypeOK, Stages
  <1>4. ASSUME NEW w \in Ingesters, GetCursor(w)
        PROVE  TypeOK'
    <2>1. cursor' \in [Ingesters -> Position]
      BY <1>4, StartType DEF GetCursor, TypeOK
    <2>2. QED
      BY <1>4, <2>1
      DEF GetCursor, TypeOK, Stages, chainVars, storeVars, projVars, rewindVars
  <1>5. ASSUME NEW w \in Ingesters, EventsAfter(w)
        PROVE  TypeOK'
    <2> DEFINE new == EventsAfterCursor(contract[w], cursor[w])
    <2>1. CASE new = {} /\ Return(w, NextContract[contract[w]])
      BY <1>5, <2>1, <1>3, <1>b
      DEF EventsAfter, TypeOK, chainVars, storeVars, projVars, rewindVars
    <2>2. CASE new # {} /\ pc' = [pc EXCEPT ![w] = "head"]
      <3>1. new \in SUBSET Event
        BY DEF EventsAfterCursor, Of, TypeOK
      <3>2. QED
        BY <1>5, <2>2, <3>1
        DEF EventsAfter, TypeOK, Stages, chainVars, storeVars, projVars, rewindVars
    <2>3. QED
      BY <1>5, <2>1, <2>2 DEF EventsAfter
  <1>6. ASSUME NEW w \in Ingesters, HeadLedger(w)
        PROVE  TypeOK'
    <2>1. head - Cutoff \in Int
      BY <1>a DEF TypeOK
    <2>2. QED
      BY <1>6, <2>1
      DEF HeadLedger, TypeOK, Stages, chainVars, storeVars, projVars, rewindVars
  <1>7. ASSUME NEW w \in Ingesters, AppendEvents(w)
        PROVE  TypeOK'
    BY <1>7
    DEF AppendEvents, InsertEvent, TypeOK, Stages, chainVars, projVars, rewindVars
  <1>8. ASSUME NEW w \in Ingesters, SetCursor(w)
        PROVE  TypeOK'
    <2>1. indexer_cursors' \in [Contracts -> Position \cup {NoCursor}]
      BY <1>8, EventFields DEF SetCursor, TypeOK
    <2>2. QED
      BY <1>8, <2>1
      DEF SetCursor, TypeOK, Stages, chainVars, projVars, rewindVars
  <1>9. ASSUME NEW w \in Ingesters, FinalizedEvents(w)
        PROVE  TypeOK'
    BY <1>9
    DEF FinalizedEvents, Of, TypeOK, Stages, chainVars, storeVars, projVars, rewindVars
  <1>10. ASSUME NEW w \in Ingesters, Apply(w)
         PROVE  TypeOK'
    <2>1. PICK e \in pending[w] : /\ db' = ApplyEvent(db, e)
                                  /\ applied' = applied \cup {e}
                                  /\ pending' = [pending EXCEPT ![w] = @ \ {e}]
      BY <1>10 DEF Apply
    <2>2. e \in Event
      BY DEF TypeOK
    <2>3. db' \in Tables
      BY <2>1, <2>2, ApplyEventType DEF TypeOK
    <2>4. QED
      BY <1>10, <2>1, <2>2, <2>3
      DEF Apply, TypeOK, chainVars, storeVars, rewindVars
  <1>11. ASSUME NEW w \in Ingesters, ApplyFails(w) \/ IngestDone(w)
         PROVE  TypeOK'
    BY <1>11, <1>3, <1>b
    DEF ApplyFails, IngestDone, TypeOK, chainVars, storeVars, projVars, rewindVars
  <1>12. ASSUME NEW w \in Ingesters, IngestError(w) \/ Restart(w)
         PROVE  TypeOK'
    <2>1. faults' \in 0..MaxFaults
      BY <1>12, <1>a DEF IngestError, Restart, TypeOK
    <2>2. QED
      BY <1>12, <2>1, <1>3, <1>b
      DEF IngestError, Restart, TypeOK, chainVars, storeVars, projVars, rewindVars
  <1>13. ASSUME NEW c \in Contracts, RewindEvents(c)
         PROVE  TypeOK'
    BY <1>13
    DEF RewindEvents, TypeOK, chainVars, projVars, localVars
  <1>14. ASSUME NEW c \in Contracts, RewindCursor(c)
         PROVE  TypeOK'
    <2>1. NoFork \in 0..NoFork
      BY <1>a DEF NoFork
    <2>2. QED
      BY <1>14, <2>1
      DEF RewindCursor, TypeOK, chainVars, projVars, localVars
  <1>15. ASSUME NEW c \in Contracts, RewindFails(c)
         PROVE  TypeOK'
    <2>1. NoFork \in 0..NoFork
      BY <1>a DEF NoFork
    <2>2. faults' \in 0..MaxFaults
      BY <1>15, <1>a DEF RewindFails, TypeOK
    <2>3. QED
      BY <1>15, <2>1, <2>2
      DEF RewindFails, TypeOK, chainVars, storeVars, projVars, localVars
  <1>16. CASE UNCHANGED vars
    BY <1>16 DEF vars, TypeOK, chainVars, storeVars, projVars, localVars, rewindVars
  <1>17. QED
    BY <1>1, <1>2, <1>4, <1>5, <1>6, <1>7, <1>8, <1>9, <1>10, <1>11, <1>12,
       <1>13, <1>14, <1>15, <1>16
    DEF Next, Ingest

\* The initial state is well typed.
LEMMA TypeInit == Init => TypeOK
  <1>1. NoFork \in 0..NoFork /\ 0 \in 0..MaxHead /\ 0 \in 0..MaxFaults
        /\ 0 \in 0..MaxReorgs
    BY BoundsAssumption DEF BoundsAssumption, NoFork
  <1>2. EmptyTables \in Tables
    BY DEF EmptyTables, EmptyTable, Tables
  <1>3. FirstContract \in Contracts
    BY ScheduleAssumption DEF ScheduleAssumption
  <1>4. QED
    BY <1>1, <1>2, <1>3, StartType DEF Init, TypeOK, Stages

\* Type correctness of the indexer: in every reachable state the tables, the
\* cursors and the locals of ingest hold values of their types.
THEOREM TypeCorrect == Spec => []TypeOK
  <1>1. TypeOK /\ [Next]_vars => TypeOK'
    BY TypeStep
  <1>2. QED
    BY TypeInit, <1>1, PTL DEF Spec

-----------------------------------------------------------------------------
(* The inductive invariant behind NoGap, NoOrphans and FinalityGate, when  *)
(* rewind is not run while its contract is being ingested.                 *)

\* The chain: ledgers 1..head, one event per natural key.
ChainInv ==
    /\ head =< tip
    /\ \A e \in chain : 0 < Ledger(e) /\ Ledger(e) =< head
    /\ \A e, f \in chain : SameKey(e, f) => e = f

\* Position p lies on the present chain, or on ledgers a pending re-org of
\* contract c has abandoned.
Seen(c, p) == p.ledger_sequence =< head \/ fork[c] =< head + 1

\* Forks stay within the cutoff; a rewind under way has the contract for
\* itself and has removed what lies at or after its from_ledger.
ForkInv ==
    \A c \in Contracts :
        /\ tip - Cutoff < fork[c]
        /\ rewinding[c] # NoFork =>
             /\ ~Busy(c)
             /\ \A e \in indexed_events :
                    e.contract_id = c => Ledger(e) < rewinding[c]

CursorInv ==
    \A c \in Contracts :
        indexer_cursors[c] # NoCursor => Seen(c, indexer_cursors[c])

\* Everything of contract c at or before p is stored, or in S.
Covered(c, p, S) ==
    \A e \in chain :
        (e.contract_id = c /\ ~IsAfter(e.at, p) /\ Ledger(e) < fork[c])
            => e \in indexed_events \/ e \in S

\* The locals of ingest, stage by stage.
WorkerInv(w) ==
    LET c == contract[w]
    IN  /\ pc[w] = "pull" => Seen(c, cursor[w]) /\ Covered(c, cursor[w], {})
        /\ pc[w] \in {"head", "append", "set_cursor"} =>
             /\ unsaved[w] \subseteq events[w]
             /\ \A e \in events[w] :
                  /\ e.contract_id = c
                  /\ Seen(c, e.at)
                  /\ Ledger(e) < fork[c] => e \in chain
                  /\ Covered(c, e.at, unsaved[w])
        /\ pc[w] = "set_cursor" => unsaved[w] = {}
        /\ pc[w] \in {"append", "set_cursor", "select", "apply"} =>
             floor[w] =< tip - Cutoff
        /\ pc[w] = "apply" =>
             \A e \in pending[w] : Ledger(e) =< tip - Cutoff /\ e \in chain

IInv ==
    /\ TypeOK
    /\ ChainInv
    /\ ForkInv
    /\ CursorInv
    /\ NoGap
    /\ NoOrphans
    /\ FinalityGate
    /\ \A w \in Ingesters : WorkerInv(w)

\* The facts about constants and types that every step below uses.
LEMMA Facts ==
    ASSUME TypeOK
    PROVE  /\ MaxHead \in Nat /\ Cutoff \in Nat
           /\ head \in Int /\ tip \in Int /\ tip =< MaxHead /\ head =< MaxHead
           /\ \A c \in Contracts : fork[c] \in Int /\ rewinding[c] \in Int
           /\ \A e \in chain \cup indexed_events \cup applied :
                  /\ e \in Event /\ e.contract_id \in Contracts
                  /\ e.at \in Position /\ Ledger(e) \in Int
           /\ \A w \in Ingesters :
                  /\ contract[w] \in Contracts /\ cursor[w] \in Position
                  /\ floor[w] \in Int
                  /\ \A e \in events[w] \cup unsaved[w] \cup pending[w] :
                        /\ e \in Event /\ e.contract_id \in Contracts
                        /\ e.at \in Position /\ Ledger(e) \in Int
           /\ \A p \in Position : p.ledger_sequence \in Int
  <1>1. MaxHead \in Nat /\ Cutoff \in Nat
    BY BoundsAssumption, CutoffAssumption DEF BoundsAssumption, CutoffAssumption
  <1>2. /\ head \in Int /\ tip \in Int /\ tip =< MaxHead /\ head =< MaxHead
        /\ \A c \in Contracts : fork[c] \in Int /\ rewinding[c] \in Int
    BY <1>1 DEF TypeOK, NoFork
  <1>3. \A e \in chain \cup indexed_events \cup applied :
            /\ e \in Event /\ e.contract_id \in Contracts
            /\ e.at \in Position /\ Ledger(e) \in Int
    BY EventFields DEF TypeOK
  <1>4. \A w \in Ingesters :
            \A e \in events[w] \cup unsaved[w] \cup pending[w] :
                /\ e \in Event /\ e.contract_id \in Contracts
                /\ e.at \in Position /\ Ledger(e) \in Int
    BY EventFields DEF TypeOK
  <1>5. \A w \in Ingesters :
            contract[w] \in Contracts /\ cursor[w] \in Position /\ floor[w] \in Int
    BY DEF TypeOK
  <1>6. \A p \in Position : p.ledger_sequence \in Int
    BY DEF Position
  <1>7. QED
    BY <1>1, <1>2, <1>3, <1>4, <1>5, <1>6

\* An ingester that does not move keeps its invariant whenever the rest of
\* the system, seen from its contract, only
\*   - lowers the fork and raises the tip,
\*   - publishes events above head,
\*   - drops or forgets events at or after the fork and not final.
LEMMA WorkerFrame ==
    ASSUME TypeOK, TypeOK', NEW v \in Ingesters, WorkerInv(v),
           pc'[v] = pc[v], contract'[v] = contract[v], cursor'[v] = cursor[v],
           events'[v] = events[v], unsaved'[v] = unsaved[v],
           floor'[v] = floor[v], pending'[v] = pending[v],
           fork'[contract[v]] =< fork[contract[v]],
           tip =< tip',
           \A e \in chain' : e \in chain \/ Ledger(e) = head + 1,
           \A e \in chain :
              Ledger(e) < fork'[contract[v]] \/ Ledger(e) =< tip - Cutoff => e \in chain',
           \A e \in indexed_events :
              (e.contract_id = contract[v] /\ Ledger(e) < fork'[contract[v]])
                  => e \in indexed_events',
           \A p \in Position : Seen(contract[v], p) => Seen(contract[v], p)'
    PROVE  WorkerInv(v)'
  <1> DEFINE c == contract[v]
  <1>1. ASSUME NEW p \in Position, NEW S, Seen(c, p), Covered(c, p, S)
        PROVE  Covered(c, p, S)'
    <2> SUFFICES ASSUME NEW e \in chain', e.contract_id = c,
                        ~IsAfter(e.at, p), Ledger(e) < fork'[c]
                 PROVE  e \in indexed_events' \/ e \in S
      BY DEF Covered
    <2>1. e \in Event /\ Ledger(e) \in Int /\ c \in Contracts
      BY EventFields DEF TypeOK
    <2>2. CASE e \in chain
      BY <1>1, <2>1, <2>2, Facts DEF Covered, TypeOK, NoFork
    <2>3. CASE Ledger(e) = head + 1
      <3>1. head + 1 =< p.ledger_sequence
        BY <2>3, Facts DEF IsAfter, Ledger
      <3>2. fork[c] =< head + 1
        BY <1>1, <3>1, Facts DEF Seen
      <3>3. QED
        BY <2>1, <2>3, <3>2, Facts DEF TypeOK
    <2>4. QED
      BY <2>2, <2>3
  <1>2. pc[v] = "pull" => Seen(c, cursor[v])' /\ Covered(c, cursor[v], {})'
    BY <1>1, Facts DEF WorkerInv
  <1>3. pc[v] \in {"head", "append", "set_cursor"} =>
             /\ unsaved[v] \subseteq events[v]
             /\ \A e \in events[v] :
                  /\ e.contract_id = c
                  /\ Seen(c, e.at)'
                  /\ Ledger(e) < fork'[c] => e \in chain'
                  /\ Covered(c, e.at, unsaved[v])'
    <2> SUFFICES ASSUME pc[v] \in {"head", "append", "set_cursor"}
                 PROVE  /\ unsaved[v] \subseteq events[v]
                        /\ \A e \in events[v] :
                             /\ e.contract_id = c
                             /\ Seen(c, e.at)'
                             /\ Ledger(e) < fork'[c] => e \in chain'
                             /\ Covered(c, e.at, unsaved[v])'
      OBVIOUS
    <2>1. /\ unsaved[v] \subseteq events[v]
          /\ \A e \in events[v] :
               /\ e.contract_id = c
               /\ Seen(c, e.at)
               /\ Ledger(e) < fork[c] => e \in chain
               /\ Covered(c, e.at, unsaved[v])
      BY DEF WorkerInv
    <2>2. c \in Contracts /\ fork[c] \in Int /\ fork'[c] \in Int
      BY DEF TypeOK, NoFork
    <2>3. ASSUME NEW e \in events[v]
          PROVE  /\ e.contract_id = c
                 /\ Seen(c, e.at)'
                 /\ Ledger(e) < fork'[c] => e \in chain'
                 /\ Covered(c, e.at, unsaved[v])'
      BY <1>1, <2>1, <2>2, <2>3, Facts
    <2>4. QED
      BY <2>1, <2>3
  <1>4. pc[v] = "set_cursor" => unsaved[v] = {}
    BY DEF WorkerInv
  <1>5. pc[v] \in {"append", "set_cursor", "select", "apply"} =>
             floor[v] =< tip' - Cutoff
    BY Facts DEF WorkerInv, TypeOK
  <1>6. pc[v] = "apply" =>
             \A e \in pending[v] : Ledger(e) =< tip' - Cutoff /\ e \in chain'
    BY Facts DEF WorkerInv, TypeOK
  <1>7. QED
    BY <1>2, <1>3, <1>4, <1>5, <1>6 DEF WorkerInv, Seen, Covered

\* The locals of the other ingesters, which a step of w leaves alone.
OthersUnchanged(w) ==
    \A v \in Ingesters \ {w} :
        /\ pc'[v] = pc[v] /\ contract'[v] = contract[v] /\ cursor'[v] = cursor[v]
        /\ events'[v] = events[v] /\ unsaved'[v] = unsaved[v]
        /\ floor'[v] = floor[v] /\ pending'[v] = pending[v]

\* A step of w that writes only its own locals preserves IInv if it
\* establishes the invariant of w.
LEMMA LocalStep ==
    ASSUME IInv, TypeOK', NEW w \in Ingesters, OthersUnchanged(w),
           UNCHANGED <<chainVars, storeVars, rewindVars, applied>>,
           pc'[w] # "idle" =>
              /\ contract'[w] = contract[w]
              /\ pc[w] # "idle" \/ rewinding[contract[w]] = NoFork,
           WorkerInv(w)'
    PROVE  IInv'
  <1>1. /\ chain' = chain /\ head' = head /\ tip' = tip
        /\ indexed_events' = indexed_events
        /\ indexer_cursors' = indexer_cursors
        /\ fork' = fork /\ rewinding' = rewinding /\ applied' = applied
    BY DEF chainVars, storeVars, rewindVars
  <1>2. ChainInv' /\ CursorInv' /\ NoGap' /\ NoOrphans' /\ FinalityGate'
    BY <1>1 DEF IInv, ChainInv, CursorInv, Seen, NoGap, NoOrphans, FinalityGate
  <1>3. ForkInv'
    <2> SUFFICES ASSUME NEW c \in Contracts, rewinding[c] # NoFork
                 PROVE  ~Busy(c)'
      BY <1>1 DEF ForkInv, IInv
    <2>1. ~Busy(c)
      BY DEF ForkInv, IInv
    <2>2. QED
      BY <2>1 DEF Busy, OthersUnchanged
  <1>4. ASSUME NEW v \in Ingesters \ {w}
        PROVE  WorkerInv(v)'
    <2>1. \A p \in Position : Seen(contract[v], p) => Seen(contract[v], p)'
      BY <1>1 DEF Seen, OthersUnchanged
    <2>2. fork'[contract[v]] =< fork[contract[v]] /\ tip =< tip'
      BY <1>1, Facts DEF IInv
    <2>3. QED
      BY <1>1, <2>1, <2>2, WorkerFrame DEF IInv, OthersUnchanged
  <1>5. QED
    BY <1>2, <1>3, <1>4 DEF IInv

\* The conditions of LocalStep hold of every return from ingest.
LEMMA ReturnStep ==
    ASSUME IInv, TypeOK', NEW w \in Ingesters, NEW next \in Contracts,
           Return(w, next),
           UNCHANGED <<chainVars, storeVars, rewindVars, applied>>
    PROVE  IInv'
  <1>1. OthersUnchanged(w) /\ pc'[w] = "idle"
    BY DEF Return, OthersUnchanged, IInv, TypeOK
  <1>2. WorkerInv(w)'
    BY <1>1 DEF WorkerInv
  <1>3. QED
    BY <1>1, <1>2, LocalStep

\* get_cursor: what lies at or before the persisted cursor is stored.
LEMMA GetCursorStep ==
    ASSUME IInv, TypeOK', NEW w \in Ingesters, GetCursor(w), ~RewindWhileRunning
    PROVE  IInv'
  <1>1. /\ OthersUnchanged(w)
        /\ UNCHANGED <<chainVars, storeVars, rewindVars, applied>>
        /\ pc'[w] = "pull" /\ contract'[w] = contract[w]
        /\ rewinding[contract[w]] = NoFork
    BY DEF GetCursor, OthersUnchanged, IInv, TypeOK, projVars
  <1>2. /\ chain' = chain /\ head' = head /\ fork' = fork
        /\ indexed_events' = indexed_events
    BY <1>1 DEF chainVars, storeVars, rewindVars
  <1> DEFINE c == contract[w]
             row == indexer_cursors[c]
  <1>3. c \in Contracts
    BY DEF IInv, TypeOK
  <1>4. ASSUME row = NoCursor
        PROVE  WorkerInv(w)'
    <2>1. cursor'[w] = START
      BY <1>4 DEF GetCursor, IInv, TypeOK
    <2>2. START.ledger_sequence = 0
      BY DEF START
    <2>3. Seen(c, START)
      BY <2>2 DEF Seen, IInv, TypeOK
    <2>4. \A e \in chain : IsAfter(e.at, START)
      BY <2>2, Facts DEF IInv, ChainInv, IsAfter, Ledger
    <2>5. QED
      BY <1>1, <1>2, <2>1, <2>3, <2>4 DEF WorkerInv, Seen, Covered
  <1>5. ASSUME row # NoCursor
        PROVE  WorkerInv(w)'
    <2>1. cursor'[w] = row
      BY <1>5 DEF GetCursor, IInv, TypeOK
    <2>2. Seen(c, row) /\ Covered(c, row, {})
      BY <1>3, <1>5 DEF IInv, CursorInv, NoGap, Covered
    <2>3. QED
      BY <1>1, <1>2, <2>1, <2>2 DEF WorkerInv, Seen, Covered
  <1>6. WorkerInv(w)'
    BY <1>4, <1>5
  <1>7. QED
    BY <1>1, <1>6, LocalStep

\* events_after: the batch and the store together cover every position up to
\* any event of the batch.
LEMMA EventsAfterStep ==
    ASSUME IInv, TypeOK', NEW w \in Ingesters, EventsAfter(w)
    PROVE  IInv'
  <1> DEFINE c == contract[w]
             new == EventsAfterCursor(c, cursor[w])
  <1>1. UNCHANGED <<chainVars, storeVars, rewindVars, applied>> /\ pc[w] = "pull"
    BY DEF EventsAfter, projVars
  <1>2. CASE Return(w, NextContract[c])
    <2>1. NextContract[c] \in Contracts
      BY ScheduleAssumption DEF ScheduleAssumption, IInv, TypeOK
    <2>2. QED
      BY <1>1, <1>2, <2>1, ReturnStep
  <1>3. CASE /\ events' = [events EXCEPT ![w] = new]
             /\ unsaved' = [unsaved EXCEPT ![w] = new]
             /\ pc' = [pc EXCEPT ![w] = "head"]
             /\ UNCHANGED <<contract, cursor, floor, finalized, pending>>
    <2>1. /\ OthersUnchanged(w)
          /\ pc'[w] = "head" /\ contract'[w] = c
          /\ events'[w] = new /\ unsaved'[w] = new
      BY <1>3 DEF OthersUnchanged, IInv, TypeOK
    <2>2. /\ chain' = chain /\ head' = head /\ fork' = fork
          /\ indexed_events' = indexed_events
      BY <1>1 DEF chainVars, storeVars, rewindVars
    <2>3. Covered(c, cursor[w], {})
      BY <1>1 DEF IInv, WorkerInv
    <2>4. ASSUME NEW e \in new
          PROVE  /\ e.contract_id = c
                 /\ Seen(c, e.at)
                 /\ e \in chain
                 /\ Covered(c, e.at, new)
      BY <2>3 DEF EventsAfterCursor, Of, Covered, Seen, IInv, ChainInv, Ledger
    <2>5. WorkerInv(w)'
      BY <2>1, <2>2, <2>4 DEF WorkerInv, Seen, Covered
    <2>6. QED
      BY <1>1, <2>1, <2>5, LocalStep
  <1>4. QED
    BY <1>2, <1>3 DEF EventsAfter

\* head_ledger: the floor is at least Cutoff ledgers below the tip.
LEMMA HeadLedgerStep ==
    ASSUME IInv, TypeOK', NEW w \in Ingesters, HeadLedger(w)
    PROVE  IInv'
  <1>1. /\ OthersUnchanged(w)
        /\ UNCHANGED <<chainVars, storeVars, rewindVars, applied>>
        /\ pc[w] = "head" /\ pc'[w] = "append" /\ contract'[w] = contract[w]
        /\ events'[w] = events[w] /\ unsaved'[w] = unsaved[w]
        /\ floor'[w] = head - Cutoff
    BY DEF HeadLedger, OthersUnchanged, IInv, TypeOK, projVars
  <1>2. /\ chain' = chain /\ head' = head /\ fork' = fork /\ tip' = tip
        /\ indexed_events' = indexed_events
    BY <1>1 DEF chainVars, storeVars, rewindVars
  <1>3. floor'[w] =< tip - Cutoff
    BY <1>1, Facts DEF IInv, ChainInv
  <1>4. WorkerInv(w)
    BY DEF IInv
  <1>5. WorkerInv(w)'
    BY <1>1, <1>2, <1>3, <1>4 DEF WorkerInv, Seen, Covered
  <1>6. QED
    BY <1>1, <1>5, LocalStep

\* finalized_events: stored events at or below the floor lie before every
\* fork, hence on the chain.
LEMMA FinalizedEventsStep ==
    ASSUME IInv, TypeOK', NEW w \in Ingesters, FinalizedEvents(w)
    PROVE  IInv'
  <1> DEFINE rows == {e \in Of(indexed_events, contract[w]) : Ledger(e) =< floor[w]}
  <1>1. /\ OthersUnchanged(w)
        /\ UNCHANGED <<chainVars, storeVars, rewindVars, applied>>
        /\ pc[w] = "select" /\ pc'[w] = "apply" /\ contract'[w] = contract[w]
        /\ floor'[w] = floor[w] /\ pending'[w] = rows
    BY DEF FinalizedEvents, OthersUnchanged, IInv, TypeOK, projVars
  <1>2. chain' = chain /\ tip' = tip
    BY <1>1 DEF chainVars
  <1>3. floor[w] =< tip - Cutoff
    BY <1>1 DEF IInv, WorkerInv
  <1>4. ASSUME NEW e \in rows
        PROVE  Ledger(e) =< tip - Cutoff /\ e \in chain
    <2>1. e \in indexed_events /\ Ledger(e) \in Int /\ e.contract_id \in Contracts
      BY Facts DEF IInv, Of
    <2>2. Ledger(e) =< tip - Cutoff
      BY <1>3, <2>1, Facts DEF IInv
    <2>3. Ledger(e) < fork[e.contract_id]
      BY <2>1, <2>2, Facts DEF IInv, ForkInv
    <2>4. QED
      BY <2>1, <2>2, <2>3 DEF IInv, NoOrphans
  <1>5. WorkerInv(w)'
    BY <1>1, <1>2, <1>3, <1>4 DEF WorkerInv
  <1>6. QED
    BY <1>1, <1>5, LocalStep

\* One row of append_events.  A row with the same key that lies before the
\* fork is the same event, because it is on the chain.
LEMMA AppendEventsStep ==
    ASSUME IInv, TypeOK', NEW w \in Ingesters, AppendEvents(w)
    PROVE  IInv'
  <1> DEFINE c == contract[w]
  <1>1. PICK e \in unsaved[w] :
          /\ InsertEvent(e)
          /\ unsaved' = [unsaved EXCEPT ![w] = @ \ {e}]
          /\ pc' = [pc EXCEPT ![w] = IF unsaved[w] = {e} THEN "set_cursor" ELSE @]
    BY DEF AppendEvents
  <1>2. /\ OthersUnchanged(w)
        /\ pc[w] = "append" /\ pc'[w] \in {"append", "set_cursor"}
        /\ pc'[w] = "set_cursor" => unsaved'[w] = {}
        /\ contract' = contract /\ events'[w] = events[w] /\ floor'[w] = floor[w]
        /\ unsaved'[w] = unsaved[w] \ {e}
    BY <1>1 DEF AppendEvents, OthersUnchanged, IInv, TypeOK
  <1>3. /\ chain' = chain /\ head' = head /\ tip' = tip
        /\ indexer_cursors' = indexer_cursors
        /\ fork' = fork /\ rewinding' = rewinding /\ applied' = applied
        /\ indexed_events \subseteq indexed_events'
        /\ indexed_events' \subseteq indexed_events \cup {e}
    BY <1>1 DEF AppendEvents, InsertEvent, chainVars, rewindVars, projVars
  <1>4. /\ e \in events[w] /\ e.contract_id = c /\ c \in Contracts
        /\ Ledger(e) < fork[c] => e \in chain
    BY <1>2, Facts DEF IInv, WorkerInv
  <1>5. (Ledger(e) < fork[c] /\ e \in chain) => e \in indexed_events'
    <2> SUFFICES ASSUME Ledger(e) < fork[c], e \in chain,
                        NEW f \in indexed_events, SameKey(e, f)
                 PROVE  e = f
      BY <1>1 DEF InsertEvent
    <2>1. f.contract_id = c /\ Ledger(f) < fork[c]
      BY <1>4 DEF SameKey, Ledger
    <2>2. f \in chain
      BY <2>1 DEF IInv, NoOrphans
    <2>3. QED
      BY <2>2 DEF IInv, ChainInv
  <1>6. ChainInv' /\ CursorInv' /\ NoGap' /\ FinalityGate'
    BY <1>3 DEF IInv, ChainInv, CursorInv, Seen, NoGap, FinalityGate
  <1>7. NoOrphans'
    BY <1>3, <1>4 DEF IInv, NoOrphans
  <1>8. ForkInv'
    <2>1. Busy(c)
      BY <1>2 DEF Busy
    <2>2. rewinding[c] = NoFork
      BY <1>4, <2>1 DEF IInv, ForkInv
    <2>3. ASSUME NEW d \in Contracts, rewinding[d] # NoFork
          PROVE  /\ ~Busy(d)'
                 /\ \A f \in indexed_events' :
                        f.contract_id = d => Ledger(f) < rewinding[d]
      <3>1. d # c /\ ~Busy(d)
        BY <2>2, <2>3 DEF IInv, ForkInv
      <3>2. ~Busy(d)'
        BY <1>2, <3>1 DEF Busy, OthersUnchanged
      <3>3. QED
        BY <1>3, <1>4, <2>3, <3>1, <3>2 DEF IInv, ForkInv
    <2>4. QED
      BY <1>3, <2>3 DEF IInv, ForkInv
  <1>9. WorkerInv(w)'
    <2>1. ASSUME NEW f \in events[w]
          PROVE  Covered(c, f.at, unsaved[w])'
      <3>1. Covered(c, f.at, unsaved[w])
        BY <1>2 DEF IInv, WorkerInv
      <3>2. QED
        BY <1>2, <1>3, <1>5, <3>1 DEF Covered
    <2>2. WorkerInv(w)
      BY DEF IInv
    <2>3. QED
      BY <1>2, <1>3, <2>1, <2>2 DEF WorkerInv, Seen, Covered
  <1>10. ASSUME NEW v \in Ingesters \ {w}
         PROVE  WorkerInv(v)'
    <2>1. \A p \in Position : Seen(contract[v], p) => Seen(contract[v], p)'
      BY <1>2, <1>3 DEF Seen
    <2>2. fork'[contract[v]] =< fork[contract[v]] /\ tip =< tip'
      BY <1>3, Facts DEF IInv
    <2>3. QED
      BY <1>2, <1>3, <2>1, <2>2, WorkerFrame DEF IInv, OthersUnchanged
  <1>11. QED
    BY <1>6, <1>7, <1>8, <1>9, <1>10 DEF IInv

\* set_cursor: the whole batch is stored, so the new cursor skips nothing.
LEMMA SetCursorStep ==
    ASSUME IInv, TypeOK', NEW w \in Ingesters, SetCursor(w)
    PROVE  IInv'
  <1> DEFINE c == contract[w]
  <1>1. PICK e \in events[w] :
          indexer_cursors' = [indexer_cursors EXCEPT ![c] = e.at]
    BY DEF SetCursor
  <1>2. /\ OthersUnchanged(w) /\ contract' = contract
        /\ pc[w] = "set_cursor" /\ pc'[w] = "select" /\ floor'[w] = floor[w]
    BY DEF SetCursor, OthersUnchanged, IInv, TypeOK
  <1>3. /\ chain' = chain /\ head' = head /\ tip' = tip
        /\ indexed_events' = indexed_events
        /\ fork' = fork /\ rewinding' = rewinding /\ applied' = applied
    BY DEF SetCursor, chainVars, rewindVars, projVars
  <1>4. Seen(c, e.at) /\ Covered(c, e.at, {}) /\ c \in Contracts
    BY <1>2, Facts DEF IInv, WorkerInv
  <1>5. ChainInv' /\ NoOrphans' /\ FinalityGate'
    BY <1>3 DEF IInv, ChainInv, NoOrphans, FinalityGate
  <1>6. indexer_cursors \in [Contracts -> Position \cup {NoCursor}]
    BY DEF IInv, TypeOK
  <1>7. CursorInv'
    BY <1>1, <1>3, <1>4, <1>6 DEF IInv, CursorInv, Seen
  <1>8. NoGap'
    <2> SUFFICES ASSUME NEW f \in chain,
                        indexer_cursors'[f.contract_id] # NoCursor,
                        ~IsAfter(f.at, indexer_cursors'[f.contract_id]),
                        Ledger(f) < fork[f.contract_id]
                 PROVE  f \in indexed_events
      BY <1>3 DEF NoGap
    <2>1. f.contract_id \in Contracts
      BY Facts DEF IInv
    <2>2. CASE f.contract_id = c
      BY <1>1, <1>4, <1>6, <2>1, <2>2 DEF Covered
    <2>3. CASE f.contract_id # c
      BY <1>1, <1>6, <2>1, <2>3 DEF IInv, NoGap
    <2>4. QED
      BY <2>2, <2>3
  <1>9. ForkInv'
    <2> SUFFICES ASSUME NEW d \in Contracts, rewinding[d] # NoFork
                 PROVE  ~Busy(d)'
      BY <1>3 DEF IInv, ForkInv
    <2>1. ~Busy(d)
      BY DEF IInv, ForkInv
    <2>2. QED
      BY <1>2, <2>1 DEF Busy, OthersUnchanged
  <1>10. WorkerInv(w)'
    BY <1>2, <1>3 DEF IInv, WorkerInv
  <1>11. ASSUME NEW v \in Ingesters \ {w}
         PROVE  WorkerInv(v)'
    <2>1. \A p \in Position : Seen(contract[v], p) => Seen(contract[v], p)'
      BY <1>2, <1>3 DEF Seen
    <2>2. fork'[contract[v]] =< fork[contract[v]] /\ tip =< tip'
      BY <1>3, Facts DEF IInv
    <2>3. QED
      BY <1>2, <1>3, <2>1, <2>2, WorkerFrame DEF IInv, OthersUnchanged
  <1>12. QED
    BY <1>5, <1>7, <1>8, <1>9, <1>10, <1>11 DEF IInv

\* One iteration of the apply loop: what is applied is final.
LEMMA ApplyStep ==
    ASSUME IInv, TypeOK', NEW w \in Ingesters, Apply(w)
    PROVE  IInv'
  <1>1. PICK e \in pending[w] :
          applied' = applied \cup {e} /\ pending' = [pending EXCEPT ![w] = @ \ {e}]
    BY DEF Apply
  <1>2. /\ OthersUnchanged(w) /\ contract' = contract /\ pc' = pc
        /\ pc[w] = "apply" /\ floor'[w] = floor[w]
        /\ pending'[w] = pending[w] \ {e}
    BY <1>1 DEF Apply, OthersUnchanged, IInv, TypeOK
  <1>3. /\ chain' = chain /\ head' = head /\ tip' = tip
        /\ indexed_events' = indexed_events
        /\ indexer_cursors' = indexer_cursors
        /\ fork' = fork /\ rewinding' = rewinding
    BY DEF Apply, chainVars, storeVars, rewindVars
  <1>4. ChainInv' /\ CursorInv' /\ NoGap' /\ NoOrphans'
    BY <1>3 DEF IInv, ChainInv, CursorInv, Seen, NoGap, NoOrphans
  <1>5. ForkInv'
    BY <1>2, <1>3 DEF IInv, ForkInv, Busy
  <1>6. FinalityGate'
    BY <1>1, <1>2, <1>3 DEF IInv, FinalityGate, WorkerInv
  <1>7. WorkerInv(w)'
    BY <1>2, <1>3 DEF IInv, WorkerInv
  <1>8. ASSUME NEW v \in Ingesters \ {w}
        PROVE  WorkerInv(v)'
    <2>1. \A p \in Position : Seen(contract[v], p) => Seen(contract[v], p)'
      BY <1>2, <1>3 DEF Seen
    <2>2. fork'[contract[v]] =< fork[contract[v]] /\ tip =< tip'
      BY <1>3, Facts DEF IInv
    <2>3. QED
      BY <1>2, <1>3, <2>1, <2>2, WorkerFrame DEF IInv, OthersUnchanged
  <1>9. QED
    BY <1>4, <1>5, <1>6, <1>7, <1>8 DEF IInv

\* A ledger closes: its events lie after everything anyone has seen, except
\* on contracts that still have to be rewound.
LEMMA CloseLedgerStep ==
    ASSUME IInv, TypeOK', CloseLedger
    PROVE  IInv'
  <1>1. PICK f \in [Slots -> Emissions \cup {Quiet}] :
          chain' = chain \cup {EventAt(head + 1, s, f[s]) :
                                s \in {t \in Slots : f[t] # Quiet}}
    BY DEF CloseLedger
  <1> DEFINE new == {EventAt(head + 1, s, f[s]) : s \in {t \in Slots : f[t] # Quiet}}
  <1>2. /\ head \in Int /\ tip \in Int /\ Cutoff \in Int /\ head =< tip
        /\ \A c \in Contracts : fork[c] \in Int
    BY Facts DEF IInv, ChainInv
  <1>3. /\ \A e \in new : Ledger(e) = head + 1
        /\ \A e, g \in new : SameKey(e, g) => e = g
    BY <1>2, Published
  <1>4. /\ head' = head + 1
        /\ tip' = IF head + 1 > tip THEN head + 1 ELSE tip
        /\ indexed_events' = indexed_events
        /\ indexer_cursors' = indexer_cursors
        /\ applied' = applied /\ fork' = fork /\ rewinding' = rewinding
        /\ contract' = contract /\ pc' = pc /\ cursor' = cursor
        /\ events' = events /\ unsaved' = unsaved /\ floor' = floor
        /\ pending' = pending
    BY DEF CloseLedger, storeVars, projVars, localVars, rewindVars
  <1>5. tip =< tip' /\ head' =< tip'
    BY <1>2, <1>4
  <1>6. \A c \in Contracts, p \in Position : Seen(c, p) => Seen(c, p)'
    BY <1>2, <1>4, Facts DEF Seen, IInv
  <1>7. ChainInv'
    <2>1. \A e \in chain : 0 < Ledger(e) /\ Ledger(e) =< head /\ Ledger(e) \in Int
      BY Facts DEF IInv, ChainInv
    <2>2. 0 < head + 1
      BY DEF IInv, TypeOK
    <2>3. \A e \in chain' : 0 < Ledger(e) /\ Ledger(e) =< head'
      BY <1>1, <1>2, <1>3, <1>4, <2>1, <2>2
    <2>4. \A e \in chain, g \in new : ~SameKey(e, g) /\ ~SameKey(g, e)
      BY <1>2, <1>3, <2>1 DEF SameKey, Ledger
    <2>5. \A e, g \in chain' : SameKey(e, g) => e = g
      BY <1>1, <1>3, <2>4 DEF IInv, ChainInv
    <2>6. QED
      BY <1>5, <2>3, <2>5 DEF ChainInv
  <1>8. ForkInv'
    <2>1. \A c \in Contracts : tip' - Cutoff < fork[c]
      BY <1>2, <1>4 DEF CloseLedger, IInv, ForkInv
    <2>2. QED
      BY <1>4, <2>1 DEF IInv, ForkInv, Busy
  <1>9. CursorInv'
    BY <1>4, <1>6 DEF IInv, CursorInv, TypeOK
  <1>10. NoGap'
    <2> SUFFICES ASSUME NEW e \in chain',
                        indexer_cursors[e.contract_id] # NoCursor,
                        ~IsAfter(e.at, indexer_cursors[e.contract_id]),
                        Ledger(e) < fork[e.contract_id]
                 PROVE  e \in indexed_events
      BY <1>4 DEF NoGap
    <2>1. CASE e \in chain
      BY <2>1 DEF IInv, NoGap
    <2>2. CASE e \in new
      <3> DEFINE c == e.contract_id
                 cur == indexer_cursors[c]
      <3>1. Ledger(e) = head + 1
        BY <1>3, <2>2
      <3>2. e \in Event /\ c \in Contracts
        BY EventFields DEF TypeOK
      <3>3. cur \in Position /\ cur.ledger_sequence \in Int /\ Seen(c, cur)
        BY <3>2, Facts DEF IInv, TypeOK, CursorInv
      <3>4. head + 1 =< cur.ledger_sequence
        BY <1>2, <3>1, <3>3 DEF IsAfter, Ledger
      <3>5. fork[c] =< head + 1
        BY <1>2, <3>2, <3>3, <3>4 DEF Seen
      <3>6. QED
        BY <1>2, <3>1, <3>2, <3>5
    <2>3. QED
      BY <1>1, <2>1, <2>2
  <1>11. NoOrphans' /\ FinalityGate'
    BY <1>1, <1>2, <1>4, <1>5, Facts DEF IInv, NoOrphans, FinalityGate, TypeOK
  <1>12. ASSUME NEW v \in Ingesters
         PROVE  WorkerInv(v)'
    <2>1. contract[v] \in Contracts
      BY DEF IInv, TypeOK
    <2>2. \A p \in Position : Seen(contract[v], p) => Seen(contract[v], p)'
      BY <1>4, <1>6, <2>1 DEF Seen
    <2>3. fork'[contract[v]] =< fork[contract[v]]
      BY <1>2, <1>4, <2>1
    <2>4. \A e \in chain' : e \in chain \/ Ledger(e) = head + 1
      BY <1>1, <1>3
    <2>5. QED
      BY <1>1, <1>4, <1>5, <2>2, <2>3, <2>4, WorkerFrame DEF IInv
  <1>13. QED
    BY <1>7, <1>8, <1>9, <1>10, <1>11, <1>12 DEF IInv

\* A re-org: whatever it abandons lies at or after the fork and above every
\* floor.
LEMMA ReorgStep ==
    ASSUME IInv, TypeOK', NEW l \in 1..MaxHead, Reorg(l)
    PROVE  IInv'
  <1>1. /\ chain' = {e \in chain : Ledger(e) < l}
        /\ head' = l - 1 /\ tip' = tip
        /\ fork' = [c \in Contracts |-> IF l < fork[c] THEN l ELSE fork[c]]
        /\ indexed_events' = indexed_events
        /\ indexer_cursors' = indexer_cursors
        /\ applied' = applied /\ rewinding' = rewinding
        /\ contract' = contract /\ pc' = pc /\ cursor' = cursor
        /\ events' = events /\ unsaved' = unsaved /\ floor' = floor
        /\ pending' = pending
    BY DEF Reorg, storeVars, projVars, localVars
  <1>2. /\ l \in Int /\ 0 < l /\ l =< head /\ tip - Cutoff < l
        /\ head \in Int /\ tip \in Int /\ Cutoff \in Int
        /\ \A c \in Contracts : fork[c] \in Int
    BY Facts DEF Reorg, IInv
  <1>3. \A c \in Contracts : fork'[c] =< l /\ fork'[c] =< fork[c] /\ fork'[c] \in Int
    BY <1>1, <1>2
  <1>4. \A c \in Contracts : fork'[c] =< head' + 1
    BY <1>1, <1>2, <1>3
  <1>5. ChainInv'
    <2>1. head' =< tip'
      BY <1>1, <1>2 DEF IInv, ChainInv
    <2>2. \A e \in chain' : 0 < Ledger(e) /\ Ledger(e) =< head'
      BY <1>1, <1>2, Facts DEF IInv, ChainInv
    <2>3. \A e, f \in chain' : SameKey(e, f) => e = f
      BY <1>1 DEF IInv, ChainInv
    <2>4. QED
      BY <2>1, <2>2, <2>3 DEF ChainInv
  <1>6. ForkInv'
    <2>1. \A c \in Contracts : tip' - Cutoff < fork'[c]
      BY <1>1, <1>2 DEF IInv, ForkInv
    <2>2. QED
      BY <1>1, <2>1 DEF IInv, ForkInv, Busy
  <1>7. CursorInv'
    BY <1>4 DEF CursorInv, Seen, TypeOK
  <1>8. NoGap'
    BY <1>1, <1>3, Facts DEF IInv, NoGap
  <1>9. NoOrphans'
    <2> SUFFICES ASSUME NEW e \in indexed_events,
                        Ledger(e) < fork'[e.contract_id]
                 PROVE  e \in chain'
      BY <1>1 DEF NoOrphans
    <2>1. e.contract_id \in Contracts /\ Ledger(e) \in Int
      BY Facts DEF IInv
    <2>2. Ledger(e) < fork[e.contract_id] /\ Ledger(e) < l
      BY <1>2, <1>3, <2>1
    <2>3. QED
      BY <1>1, <2>2 DEF IInv, NoOrphans
  <1>10. FinalityGate'
    BY <1>1, <1>2, Facts DEF IInv, FinalityGate
  <1>11. ASSUME NEW v \in Ingesters
         PROVE  WorkerInv(v)'
    <2>1. contract[v] \in Contracts
      BY DEF IInv, TypeOK
    <2>2. \A p \in Position : Seen(contract[v], p) => Seen(contract[v], p)'
      BY <1>1, <1>4, <2>1 DEF Seen
    <2>3. fork'[contract[v]] =< fork[contract[v]] /\ tip =< tip'
      BY <1>1, <1>2, <1>3, <2>1
    <2>4. \A e \in chain :
            Ledger(e) < fork'[contract[v]] \/ Ledger(e) =< tip - Cutoff => e \in chain'
      BY <1>1, <1>2, <1>3, <2>1, Facts DEF IInv
    <2>5. QED
      BY <1>1, <2>2, <2>3, <2>4, WorkerFrame DEF IInv
  <1>12. QED
    BY <1>5, <1>6, <1>7, <1>8, <1>9, <1>10, <1>11 DEF IInv

\* A step that leaves the chain and the locals alone, and changes the store
\* and the fork of contract c only while c is not being ingested, preserves
\* the invariant of every ingester.
LEMMA RewindFrame ==
    ASSUME IInv, TypeOK', NEW c \in Contracts, ~Busy(c),
           UNCHANGED <<chainVars, localVars>>,
           \A d \in Contracts \ {c} : fork'[d] = fork[d],
           \A e \in indexed_events : e.contract_id # c => e \in indexed_events'
    PROVE  \A v \in Ingesters : WorkerInv(v)'
  <1> SUFFICES ASSUME NEW v \in Ingesters
               PROVE  WorkerInv(v)'
    OBVIOUS
  <1>1. /\ chain' = chain /\ head' = head /\ tip' = tip
        /\ contract' = contract /\ pc' = pc /\ cursor' = cursor
        /\ events' = events /\ unsaved' = unsaved /\ floor' = floor
        /\ pending' = pending
    BY DEF chainVars, localVars
  <1>2. CASE contract[v] = c
    <2>1. pc'[v] = "idle"
      BY <1>1, <1>2 DEF Busy
    <2>2. QED
      BY <2>1 DEF WorkerInv
  <1>3. CASE contract[v] # c
    <2>1. fork'[contract[v]] = fork[contract[v]] /\ contract[v] \in Contracts
      BY <1>3 DEF IInv, TypeOK
    <2>2. \A p \in Position : Seen(contract[v], p) => Seen(contract[v], p)'
      BY <1>1, <2>1 DEF Seen
    <2>3. fork'[contract[v]] =< fork[contract[v]] /\ tip =< tip'
      BY <1>1, <2>1, Facts DEF IInv
    <2>4. QED
      BY <1>1, <1>3, <2>2, <2>3, WorkerFrame DEF IInv
  <1>4. QED
    BY <1>2, <1>3

\* The first statement of rewind removes nothing before the fork.
LEMMA RewindEventsStep ==
    ASSUME IInv, TypeOK', NEW c \in Contracts, RewindEvents(c), ~RewindWhileRunning
    PROVE  IInv'
  <1>1. /\ chain' = chain /\ head' = head /\ tip' = tip
        /\ indexed_events' =
             {e \in indexed_events : ~(e.contract_id = c /\ Ledger(e) >= fork[c])}
        /\ indexer_cursors' = indexer_cursors
        /\ applied' = applied /\ fork' = fork
        /\ rewinding' = [rewinding EXCEPT ![c] = fork[c]]
        /\ contract' = contract /\ pc' = pc
    BY DEF RewindEvents, chainVars, projVars, localVars
  <1>2. ~Busy(c)
    BY DEF RewindEvents
  <1>3. ChainInv' /\ CursorInv' /\ NoOrphans' /\ FinalityGate'
    BY <1>1 DEF IInv, ChainInv, CursorInv, Seen, NoOrphans, FinalityGate
  <1>4. NoGap'
    BY <1>1, Facts DEF IInv, NoGap
  <1>5. ForkInv'
    <2>1. \A d \in Contracts : tip' - Cutoff < fork'[d]
      BY <1>1 DEF IInv, ForkInv
    <2>2. \A d \in Contracts : Busy(d)' <=> Busy(d)
      BY <1>1 DEF Busy
    <2>3. ASSUME NEW d \in Contracts, rewinding'[d] # NoFork
          PROVE  /\ ~Busy(d)
                 /\ \A e \in indexed_events' :
                        e.contract_id = d => Ledger(e) < rewinding'[d]
      <3>1. rewinding \in [Contracts -> 0..NoFork]
        BY DEF IInv, TypeOK
      <3>2. CASE d = c
        BY <1>1, <1>2, <3>1, <3>2, Facts DEF IInv
      <3>3. CASE d # c
        BY <1>1, <2>3, <3>1, <3>3 DEF IInv, ForkInv
      <3>4. QED
        BY <3>2, <3>3
    <2>4. QED
      BY <2>1, <2>2, <2>3 DEF ForkInv
  <1>6. \A v \in Ingesters : WorkerInv(v)'
    BY <1>1, <1>2, RewindFrame DEF RewindEvents
  <1>7. QED
    BY <1>3, <1>4, <1>5, <1>6 DEF IInv

\* The second statement ends the exception for the abandoned ledgers: none of
\* their events is stored and the cursor is back at the start.
LEMMA RewindCursorStep ==
    ASSUME IInv, TypeOK', NEW c \in Contracts, RewindCursor(c)
    PROVE  IInv'
  <1>1. /\ chain' = chain /\ head' = head /\ tip' = tip
        /\ indexed_events' = indexed_events
        /\ indexer_cursors' = [indexer_cursors EXCEPT ![c] = NoCursor]
        /\ applied' = applied
        /\ fork' = [fork EXCEPT ![c] = IF @ < rewinding[c] THEN @ ELSE NoFork]
        /\ rewinding' = [rewinding EXCEPT ![c] = NoFork]
        /\ contract' = contract /\ pc' = pc
        /\ rewinding[c] # NoFork
    BY DEF RewindCursor, chainVars, projVars, localVars
  <1>2. /\ ~Busy(c)
        /\ \A e \in indexed_events : e.contract_id = c => Ledger(e) < rewinding[c]
    BY <1>1 DEF IInv, ForkInv
  <1>3. /\ fork \in [Contracts -> 0..NoFork]
        /\ rewinding \in [Contracts -> 0..NoFork]
        /\ indexer_cursors \in [Contracts -> Position \cup {NoCursor}]
    BY DEF IInv, TypeOK
  <1>4. /\ \A d \in Contracts \ {c} :
              /\ fork'[d] = fork[d] /\ rewinding'[d] = rewinding[d]
              /\ indexer_cursors'[d] = indexer_cursors[d]
        /\ fork'[c] = fork[c] \/ (fork'[c] = NoFork /\ rewinding[c] =< fork[c])
        /\ rewinding'[c] = NoFork /\ indexer_cursors'[c] = NoCursor
    BY <1>1, <1>3, Facts DEF IInv
  <1>5. ChainInv' /\ FinalityGate'
    BY <1>1 DEF IInv, ChainInv, FinalityGate
  <1>6. CursorInv'
    BY <1>1, <1>4 DEF IInv, CursorInv, Seen
  <1>7. NoGap'
    BY <1>1, <1>4, Facts DEF IInv, NoGap
  <1>8. NoOrphans'
    <2> SUFFICES ASSUME NEW e \in indexed_events,
                        Ledger(e) < fork'[e.contract_id]
                 PROVE  Ledger(e) < fork[e.contract_id]
      BY <1>1 DEF IInv, NoOrphans
    <2>1. e.contract_id \in Contracts /\ Ledger(e) \in Int
      BY Facts DEF IInv
    <2>2. QED
      BY <1>2, <1>4, <2>1, Facts DEF IInv
  <1>9. ForkInv'
    <2>1. tip - Cutoff < NoFork
      BY Facts DEF IInv, NoFork
    <2>2. \A d \in Contracts : tip' - Cutoff < fork'[d]
      BY <1>1, <1>4, <2>1 DEF IInv, ForkInv
    <2>3. \A d \in Contracts : Busy(d)' <=> Busy(d)
      BY <1>1 DEF Busy
    <2>4. QED
      BY <1>1, <1>4, <2>2, <2>3 DEF IInv, ForkInv
  <1>10. \A v \in Ingesters : WorkerInv(v)'
    BY <1>1, <1>2, <1>4, RewindFrame DEF RewindCursor
  <1>11. QED
    BY <1>5, <1>6, <1>7, <1>8, <1>9, <1>10 DEF IInv

\* A rewind whose second statement failed leaves the contract to be rewound.
LEMMA RewindFailsStep ==
    ASSUME IInv, TypeOK', NEW c \in Contracts, RewindFails(c)
    PROVE  IInv'
  <1>1. /\ chain' = chain /\ head' = head /\ tip' = tip
        /\ indexed_events' = indexed_events
        /\ indexer_cursors' = indexer_cursors
        /\ applied' = applied /\ fork' = fork
        /\ rewinding' = [rewinding EXCEPT ![c] = NoFork]
        /\ contract' = contract /\ pc' = pc
        /\ rewinding[c] # NoFork
    BY DEF RewindFails, chainVars, storeVars, projVars, localVars
  <1>2. ~Busy(c)
    BY <1>1 DEF IInv, ForkInv
  <1>3. ChainInv' /\ CursorInv' /\ NoGap' /\ NoOrphans' /\ FinalityGate'
    BY <1>1 DEF IInv, ChainInv, CursorInv, Seen, NoGap, NoOrphans, FinalityGate
  <1>4. ForkInv'
    <2>1. rewinding \in [Contracts -> 0..NoFork]
      BY DEF IInv, TypeOK
    <2>2. \A d \in Contracts : rewinding'[d] # NoFork => rewinding'[d] = rewinding[d]
      BY <1>1, <2>1
    <2>3. \A d \in Contracts : Busy(d)' <=> Busy(d)
      BY <1>1 DEF Busy
    <2>4. QED
      BY <1>1, <2>2, <2>3 DEF IInv, ForkInv
  <1>5. \A v \in Ingesters : WorkerInv(v)'
    BY <1>1, <1>2, RewindFrame DEF RewindFails
  <1>6. QED
    BY <1>3, <1>4, <1>5 DEF IInv

\* IInv holds initially.
LEMMA IInvInit == Init => IInv
  <1> SUFFICES ASSUME Init
               PROVE  IInv
    OBVIOUS
  <1>1. TypeOK
    BY TypeInit
  <1>2. ForkInv
    BY <1>1, Facts DEF Init, ForkInv, NoFork
  <1>3. ChainInv /\ CursorInv /\ NoGap /\ NoOrphans /\ FinalityGate
    BY DEF Init, ChainInv, CursorInv, NoGap, NoOrphans, FinalityGate
  <1>4. \A w \in Ingesters : WorkerInv(w)
    BY DEF Init, WorkerInv
  <1>5. QED
    BY <1>1, <1>2, <1>3, <1>4 DEF IInv

\* IInv is inductive.
LEMMA IInvStep ==
    ASSUME ~RewindWhileRunning
    PROVE  IInv /\ [Next]_vars => IInv'
  <1> SUFFICES ASSUME IInv, [Next]_vars
               PROVE  IInv'
    OBVIOUS
  <1>1. TypeOK'
    BY TypeStep DEF IInv
  <1>2. \A w \in Ingesters : NextContract[contract[w]] \in Contracts
    BY ScheduleAssumption DEF ScheduleAssumption, IInv, TypeOK
  <1>3. FirstContract \in Contracts
    BY ScheduleAssumption DEF ScheduleAssumption
  <1>4. CASE CloseLedger
    BY <1>1, <1>4, CloseLedgerStep
  <1>5. CASE \E l \in 1..MaxHead : Reorg(l)
    BY <1>1, <1>5, ReorgStep
  <1>6. ASSUME NEW w \in Ingesters, Ingest(w)
        PROVE  IInv'
    <2>1. CASE GetCursor(w)
      BY <1>1, <2>1, GetCursorStep
    <2>2. CASE EventsAfter(w)
      BY <1>1, <2>2, EventsAfterStep
    <2>3. CASE HeadLedger(w)
      BY <1>1, <2>3, HeadLedgerStep
    <2>4. CASE AppendEvents(w)
      BY <1>1, <2>4, AppendEventsStep
    <2>5. CASE SetCursor(w)
      BY <1>1, <2>5, SetCursorStep
    <2>6. CASE FinalizedEvents(w)
      BY <1>1, <2>6, FinalizedEventsStep
    <2>7. CASE Apply(w)
      BY <1>1, <2>7, ApplyStep
    <2>8. CASE ApplyFails(w) \/ IngestDone(w)
      BY <1>1, <1>2, <2>8, ReturnStep DEF ApplyFails, IngestDone, projVars
    <2>9. QED
      BY <1>6, <2>1, <2>2, <2>3, <2>4, <2>5, <2>6, <2>7, <2>8 DEF Ingest
  <1>7. ASSUME NEW w \in Ingesters, IngestError(w) \/ Restart(w)
        PROVE  IInv'
    BY <1>1, <1>2, <1>3, <1>7, ReturnStep DEF IngestError, Restart, projVars
  <1>8. ASSUME NEW c \in Contracts, RewindEvents(c) \/ RewindCursor(c) \/ RewindFails(c)
        PROVE  IInv'
    BY <1>1, <1>8, RewindEventsStep, RewindCursorStep, RewindFailsStep
  <1>9. CASE UNCHANGED vars
    BY <1>9
    DEF vars, chainVars, storeVars, projVars, localVars, rewindVars, IInv, TypeOK,
        ChainInv, ForkInv, Busy, CursorInv, Seen, NoGap, NoOrphans, FinalityGate,
        WorkerInv, Covered
  <1>10. QED
    BY <1>4, <1>5, <1>6, <1>7, <1>8, <1>9 DEF Next

\* The invariant holds in every reachable state.
LEMMA IInvAlways ==
    ASSUME ~RewindWhileRunning
    PROVE  Spec => []IInv
  <1>1. Init => IInv
    BY IInvInit
  <1>2. IInv /\ [Next]_vars => IInv'
    BY IInvStep
  <1>3. QED
    BY <1>1, <1>2, PTL DEF Spec

\* If rewind is only run while its contract is not being ingested, then for
\* any number of indexer processes, any cutoff and any interleaving of failed
\* calls, crashes, re-orgs and rewinds, the persisted cursor skips no event:
\* resuming strictly after it loses nothing.
THEOREM CursorSkipsNothing ==
    ASSUME ~RewindWhileRunning
    PROVE  Spec => []NoGap
  <1>1. IInv => NoGap
    BY DEF IInv
  <1>2. QED
    BY <1>1, IInvAlways, PTL

\* Under the same condition the raw store keeps no event of an abandoned
\* ledger once the contract has been rewound, in spite of DO NOTHING.
THEOREM StoreWithoutOrphans ==
    ASSUME ~RewindWhileRunning
    PROVE  Spec => []NoOrphans
  <1>1. IInv => NoOrphans
    BY DEF IInv
  <1>2. QED
    BY <1>1, IInvAlways, PTL

\* Under the same condition what has been projected was final by the floor of
\* its pass and never leaves the chain, however stale that floor was.
THEOREM ProjectedStaysOnChain ==
    ASSUME ~RewindWhileRunning
    PROVE  Spec => []FinalityGate
  <1>1. IInv => FinalityGate
    BY DEF IInv
  <1>2. QED
    BY <1>1, IInvAlways, PTL

-----------------------------------------------------------------------------
(* Revocations.                                                            *)

\* Re-applying a creation, or a revocation, keeps a row revoked.
LEMMA BuildersKeepRevoked ==
    ASSUME NEW e \in Event, NEW row \in VerificationRow, row.revoked
    PROVE  /\ UpsertVerification(row, e) # NoRow
           /\ UpsertVerification(row, e).revoked
           /\ RevokeVerification(row, e) # NoRow
           /\ RevokeVerification(row, e).revoked
  <1>1. row # NoRow
    BY NoRowAssumption DEF NoRowAssumption
  <1>2. /\ UpsertVerification(row, e) \in VerificationRow
        /\ RevokeVerification(row, e) \in VerificationRow
    BY <1>1, EventFields DEF UpsertVerification, RevokeVerification, VerificationRow
  <1>3. UpsertVerification(row, e) # NoRow /\ RevokeVerification(row, e) # NoRow
    BY <1>2, NoRowAssumption DEF NoRowAssumption
  <1>4. UpsertVerification(row, e).revoked /\ RevokeVerification(row, e).revoked
    BY <1>1 DEF UpsertVerification, RevokeVerification, VerificationRow
  <1>5. QED
    BY <1>3, <1>4

\* No builder makes a revoked verification valid.
LEMMA ApplyKeepsRevoked ==
    ASSUME NEW d \in Tables, NEW e \in Event, NEW k \in Keys,
           d.verification[k] # NoRow, d.verification[k].revoked
    PROVE  LET new == ApplyEvent(d, e).verification[k]
           IN  new # NoRow /\ new.revoked
  <1> DEFINE row == d.verification[k]
             name == ContractName[e.contract_id]
             up == UpsertVerification(d.verification[e.body.key], e)
             rv == RevokeVerification(d.verification[e.body.key], e)
  <1>1. row \in VerificationRow
    BY DEF Tables
  <1>2. e.body.key \in Keys /\ e.contract_id \in Contracts
    BY EventFields
  <1>3. name \in Names
    BY <1>2, ContractNameAssumption DEF ContractNameAssumption
  <1>4. CASE name # "verification"
    <2>1. ApplyEvent(d, e).verification = d.verification
      BY <1>3, <1>4 DEF ApplyEvent, Put, Tables, Names
    <2>2. QED
      BY <2>1
  <1>5. CASE name = "verification"
    <2>1. CASE e.body.event_name = "VerificationCreated"
      <3>1. ApplyEvent(d, e).verification = [d.verification EXCEPT ![e.body.key] = up]
        BY <1>5, <2>1 DEF ApplyEvent, Put, Tables
      <3>2. k = e.body.key => up # NoRow /\ up.revoked
        BY <1>1, BuildersKeepRevoked
      <3>3. QED
        BY <1>2, <3>1, <3>2 DEF Tables
    <2>2. CASE e.body.event_name = "VerificationRevoked"
      <3>1. ApplyEvent(d, e).verification = [d.verification EXCEPT ![e.body.key] = rv]
        BY <1>5, <2>2 DEF ApplyEvent, Put, Tables
      <3>2. k = e.body.key => rv # NoRow /\ rv.revoked
        BY <1>1, BuildersKeepRevoked
      <3>3. QED
        BY <1>2, <3>1, <3>2 DEF Tables
    <2>3. CASE e.body.event_name \notin {"VerificationCreated", "VerificationRevoked"}
      BY <1>5, <2>3 DEF ApplyEvent
    <2>4. QED
      BY <2>1, <2>2, <2>3
  <1>6. QED
    BY <1>4, <1>5

\* A revocation is permanent, for any number of processes that replay the
\* same events: between no two statements does a reader see a revoked
\* verification as valid again.
THEOREM RevokedForever == Spec => RevocationPermanent
  <1> DEFINE Kept ==
               \A k \in Keys :
                 LET row == db.verification[k]
                     new == db'.verification[k]
                 IN  row # NoRow /\ row.revoked => new # NoRow /\ new.revoked
  <1>1. ASSUME TypeOK, [Next]_vars
        PROVE  Kept
    <2>1. CASE db' = db
      BY <2>1
    <2>2. ASSUME NEW w \in Ingesters, Apply(w)
          PROVE  Kept
      <3>1. PICK e \in pending[w] : db' = ApplyEvent(db, e)
        BY <2>2 DEF Apply
      <3>2. e \in Event /\ db \in Tables
        BY <1>1, <3>1 DEF TypeOK
      <3>3. QED
        BY <3>1, <3>2, ApplyKeepsRevoked
    <2>3. db' = db \/ \E w \in Ingesters : Apply(w)
      BY <1>1
      DEF Next, CloseLedger, Reorg, Ingest, GetCursor, EventsAfter, HeadLedger,
          AppendEvents, SetCursor, FinalizedEvents, ApplyFails, IngestDone,
          IngestError, Restart, RewindEvents, RewindCursor, RewindFails,
          vars, projVars
    <2>4. QED
      BY <2>1, <2>2, <2>3
  <1>2. TypeOK /\ [Next]_vars => [Kept]_vars
    BY <1>1
  <1>3. QED
    BY <1>2, TypeCorrect, PTL DEF Spec, RevocationPermanent

-----------------------------------------------------------------------------
(* Cursors, for one indexer process.                                       *)

\* Until set_cursor the row still holds what get_cursor read, and what was
\* pulled lies after it.
MonoInv ==
    \A w \in Ingesters :
        LET row == indexer_cursors[contract[w]]
        IN  /\ pc[w] \in {"pull", "head", "append", "set_cursor"} =>
                 cursor[w] = IF row = NoCursor THEN START ELSE row
            /\ pc[w] \in {"head", "append", "set_cursor"} =>
                 \A e \in events[w] : IsAfter(e.at, cursor[w])

LEMMA MonoInit == Init => MonoInv
  BY DEF Init, MonoInv

LEMMA MonoStep ==
    ASSUME IInv, MonoInv, [Next]_vars, \A v, w \in Ingesters : v = w
    PROVE  MonoInv'
  <1> SUFFICES ASSUME NEW v \in Ingesters
               PROVE  LET row == indexer_cursors'[contract'[v]]
                      IN  /\ pc'[v] \in {"pull", "head", "append", "set_cursor"} =>
                               cursor'[v] = IF row = NoCursor THEN START ELSE row
                          /\ pc'[v] \in {"head", "append", "set_cursor"} =>
                               \A e \in events'[v] : IsAfter(e.at, cursor'[v])
    BY DEF MonoInv
  <1>1. TypeOK
    BY DEF IInv
  <1>2. ASSUME NEW next, Return(v, next)
        PROVE  pc'[v] = "idle"
    BY <1>1, <1>2 DEF Return, TypeOK
  <1>3. CASE GetCursor(v)
    <2>1. pc'[v] = "pull" /\ contract' = contract /\ indexer_cursors' = indexer_cursors
      BY <1>1, <1>3 DEF GetCursor, TypeOK, storeVars
    <2>2. cursor'[v] = LET row == indexer_cursors[contract[v]]
                       IN  IF row = NoCursor THEN START ELSE row
      BY <1>1, <1>3 DEF GetCursor, TypeOK
    <2>3. QED
      BY <2>1, <2>2
  <1>4. CASE EventsAfter(v)
    <2> DEFINE new == EventsAfterCursor(contract[v], cursor[v])
    <2>1. CASE Return(v, NextContract[contract[v]])
      BY <1>2, <2>1
    <2>2. CASE /\ events' = [events EXCEPT ![v] = new]
               /\ pc' = [pc EXCEPT ![v] = "head"]
               /\ UNCHANGED <<contract, cursor>>
      <3>1. pc[v] = "pull" /\ indexer_cursors' = indexer_cursors /\ events'[v] = new
        BY <1>1, <1>4, <2>2 DEF EventsAfter, storeVars, TypeOK
      <3>2. \A e \in new : IsAfter(e.at, cursor[v])
        BY DEF EventsAfterCursor
      <3>3. QED
        BY <2>2, <3>1, <3>2 DEF MonoInv
    <2>3. QED
      BY <1>4, <2>1, <2>2 DEF EventsAfter
  <1>5. CASE HeadLedger(v)
    <2>1. pc[v] = "head" /\ UNCHANGED <<contract, cursor, events, indexer_cursors>>
      BY <1>5 DEF HeadLedger, storeVars
    <2>2. QED
      BY <2>1 DEF MonoInv
  <1>6. CASE AppendEvents(v)
    <2>1. pc[v] = "append" /\ UNCHANGED <<contract, cursor, events, indexer_cursors>>
      BY <1>6 DEF AppendEvents
    <2>2. QED
      BY <2>1 DEF MonoInv
  <1>7. CASE SetCursor(v) \/ FinalizedEvents(v) \/ Apply(v)
    <2>1. pc'[v] \in {"select", "apply"}
      BY <1>1, <1>7 DEF SetCursor, FinalizedEvents, Apply, TypeOK
    <2>2. QED
      BY <2>1
  <1>8. CASE ApplyFails(v) \/ IngestDone(v) \/ IngestError(v) \/ Restart(v)
    BY <1>2, <1>8 DEF ApplyFails, IngestDone, IngestError, Restart
  <1>9. ASSUME NEW c \in Contracts, RewindCursor(c)
        PROVE  pc'[v] = "idle" \/ UNCHANGED <<pc, contract, cursor, events,
                                             indexer_cursors[contract[v]]>>
    <2>1. rewinding[c] # NoFork /\ UNCHANGED <<pc, contract, cursor, events>>
      BY <1>9 DEF RewindCursor, localVars
    <2>2. ~Busy(c)
      BY <2>1 DEF IInv, ForkInv
    <2>3. CASE contract[v] = c
      BY <2>1, <2>2, <2>3 DEF Busy
    <2>4. CASE contract[v] # c
      <3>1. indexer_cursors'[contract[v]] = indexer_cursors[contract[v]]
        BY <1>1, <1>9, <2>4 DEF RewindCursor, TypeOK
      <3>2. QED
        BY <2>1, <3>1
    <2>5. QED
      BY <2>3, <2>4
  <1>10. CASE UNCHANGED <<pc, contract, cursor, events, indexer_cursors>>
    BY <1>10 DEF MonoInv
  <1>11. ASSUME NEW c \in Contracts, RewindCursor(c)
         PROVE  LET row == indexer_cursors'[contract'[v]]
                IN  /\ pc'[v] \in {"pull", "head", "append", "set_cursor"} =>
                         cursor'[v] = IF row = NoCursor THEN START ELSE row
                    /\ pc'[v] \in {"head", "append", "set_cursor"} =>
                         \A e \in events'[v] : IsAfter(e.at, cursor'[v])
    <2>1. CASE pc'[v] = "idle"
      BY <2>1
    <2>2. CASE UNCHANGED <<pc, contract, cursor, events, indexer_cursors[contract[v]]>>
      <3>1. indexer_cursors'[contract'[v]] = indexer_cursors[contract[v]]
        BY <1>11, <2>2, <1>1 DEF RewindCursor, TypeOK
      <3>2. QED
        BY <2>2, <3>1 DEF MonoInv
    <2>3. QED
      BY <1>9, <1>11, <2>1, <2>2
  <1>12. ASSUME NEW w \in Ingesters, Ingest(w) \/ IngestError(w) \/ Restart(w)
         PROVE  \/ GetCursor(v) \/ EventsAfter(v) \/ HeadLedger(v) \/ AppendEvents(v)
                \/ SetCursor(v) \/ FinalizedEvents(v) \/ Apply(v) \/ ApplyFails(v)
                \/ IngestDone(v) \/ IngestError(v) \/ Restart(v)
    <2>1. v = w
      OBVIOUS
    <2>2. QED
      BY <1>12, <2>1 DEF Ingest
  <1>13. ASSUME NEW c \in Contracts, RewindEvents(c) \/ RewindFails(c)
         PROVE  UNCHANGED <<pc, contract, cursor, events, indexer_cursors>>
    BY <1>13 DEF RewindEvents, RewindFails, storeVars, localVars
  <1>14. CASE CloseLedger \/ (\E l \in 1..MaxHead : Reorg(l)) \/ UNCHANGED vars
    BY <1>10, <1>14 DEF CloseLedger, Reorg, vars, storeVars, localVars
  <1>15. QED
    BY <1>3, <1>4, <1>5, <1>6, <1>7, <1>8, <1>10, <1>11, <1>12, <1>13, <1>14 DEF Next

\* With a single indexer process, and rewind only run while its contract is
\* not being ingested, a persisted cursor never moves back but for a rewind,
\* whatever is re-read, fails or is restarted in between.
THEOREM CursorNeverMovesBack ==
    ASSUME ~RewindWhileRunning, \A v, w \in Ingesters : v = w
    PROVE  Spec => CursorMonotone
  <1> DEFINE Forward ==
               \A c \in Contracts :
                 \/ indexer_cursors'[c] = indexer_cursors[c]
                 \/ indexer_cursors[c] = NoCursor
                 \/ indexer_cursors'[c] = NoCursor /\ rewinding[c] # NoFork
                 \/ IsAfter(indexer_cursors'[c], indexer_cursors[c])
  <1>1. ASSUME IInv, MonoInv, [Next]_vars
        PROVE  Forward
    <2>1. TypeOK
      BY <1>1 DEF IInv
    <2>2. CASE indexer_cursors' = indexer_cursors
      BY <2>2
    <2>3. ASSUME NEW w \in Ingesters, SetCursor(w)
          PROVE  Forward
      <3>1. PICK e \in events[w] :
              indexer_cursors' = [indexer_cursors EXCEPT ![contract[w]] = e.at]
        BY <2>3 DEF SetCursor
      <3>2. /\ IsAfter(e.at, cursor[w])
            /\ cursor[w] = IF indexer_cursors[contract[w]] = NoCursor THEN START
                           ELSE indexer_cursors[contract[w]]
        BY <1>1, <2>3 DEF SetCursor, MonoInv
      <3>3. ASSUME NEW c \in Contracts
            PROVE  indexer_cursors'[c] = IF c = contract[w] THEN e.at
                                         ELSE indexer_cursors[c]
        BY <2>1, <3>1 DEF TypeOK
      <3>4. QED
        BY <3>2, <3>3
    <2>4. ASSUME NEW d \in Contracts, RewindCursor(d)
          PROVE  Forward
      BY <2>1, <2>4 DEF RewindCursor, TypeOK
    <2>5. \/ indexer_cursors' = indexer_cursors
          \/ \E w \in Ingesters : SetCursor(w)
          \/ \E d \in Contracts : RewindCursor(d)
      BY <1>1
      DEF Next, CloseLedger, Reorg, Ingest, GetCursor, EventsAfter, HeadLedger,
          AppendEvents, FinalizedEvents, Apply, ApplyFails, IngestDone,
          IngestError, Restart, RewindEvents, RewindFails, vars, storeVars
    <2>6. QED
      BY <2>2, <2>3, <2>4, <2>5
  <1>2. IInv /\ MonoInv /\ [Next]_vars => MonoInv' /\ [Forward]_vars
    BY <1>1, MonoStep
  <1>3. Init => MonoInv
    BY MonoInit
  <1>4. Spec => []IInv
    BY IInvAlways
  <1>5. QED
    BY <1>2, <1>3, <1>4, PTL DEF Spec, CursorMonotone
=============================================================================
