--------------------------- MODULE FarmersProofs ---------------------------
(***************************************************************************)
(* Proofs about Farmers for every set of handlers, addresses and profiles, *)
(* and every bound on events, interruptions and restarts.                  *)
(***************************************************************************)
EXTENDS Farmers, ProjectionsProofs, FiniteSetTheorems, TLAPS

-----------------------------------------------------------------------------
(* The inductive invariant.                                                *)

\* Every event of the feed is one of the deployed identity contract.
FeedInv == \A i \in DOMAIN feed : feed[i].contract_id = IdentityContract

\* StubChain holds finitely many farmers.
StubInv == IsFiniteSet(Registered)

\* The operations that may be at a stage.
StageOps ==
    [chain_register |-> {"register"}, insert |-> {"register"},
     chain_update |-> {"update"}, update |-> {"update"},
     read |-> {"get", "update"}]

Writes(h) == pc[h] # "idle" /\ req[h].op # "get"

\* A handler works on a request that passed the early returns, and what it is
\* about to write was accepted by the chain.
HandlerOK(h) ==
    pc[h] # "idle" =>
        /\ req[h].id \in Keys
        /\ req[h].op \in StageOps[pc[h]]
        /\ req[h].op # "get" => req[h].actor = req[h].id /\ req[h].metadata \in Metadata
        /\ pc[h] \in {"insert", "update"} =>
             [key |-> req[h].id, actor |-> req[h].id, metadata |-> req[h].metadata]
                 \in accepted

HandlerInv == \A h \in Handlers : HandlerOK(h)

\* A farmer that was answered 201 keeps a row with a profile.
CreatedProfile ==
    \A k \in created : farmers[k] # NoRow /\ farmers[k].metadata # EmptyObject

\* As long as StubChain forgets nothing it lets one handler per address reach
\* the INSERT, and none once the registration was answered 201.
OnceInv ==
    restarts = 0 =>
        /\ created \subseteq Registered
        /\ \A h \in Handlers : pc[h] = "insert" =>
             /\ req[h].id \in Registered /\ req[h].id \notin created
             /\ \A g \in Handlers : pc[g] = "insert" /\ req[g].id = req[h].id => g = h

\* An undisturbed farmer has one handler writing it, whose profile is the last
\* the chain accepted, and which finds its own UPDATE when it reads.
AloneOK(h) ==
    (Writes(h) /\ req[h].id \notin disturbed) =>
        /\ \A g \in Handlers : Writes(g) /\ req[g].id = req[h].id => g = h
        /\ pc[h] \in {"insert", "update"} =>
             latest[req[h].id] = req[h].metadata /\ req[h].id \in Registered
        /\ pc[h] = "insert" => req[h].id \notin created
        /\ pc[h] = "read" =>
             /\ farmers[req[h].id] # NoRow
             /\ farmers[req[h].id].metadata = req[h].metadata

AloneInv == \A h \in Handlers : AloneOK(h)

\* What makes RegisteredIsStored available for an undisturbed farmer.
StoredInv == cut \subseteq disturbed /\ RegisteredIsStored

\* The table shows the last profile of an undisturbed farmer, or an UPDATE is
\* about to make it so.
FollowsOK(k) ==
    /\ k \in Registered
    /\ \/ farmers[k].metadata = latest[k]
       \/ \E h \in Handlers : pc[h] = "update" /\ req[h].id = k

FollowsInv == \A k \in created \ disturbed : FollowsOK(k)

IInv ==
    /\ TypeOK
    /\ FeedInv
    /\ StubInv
    /\ HandlerInv
    /\ OwnProfile
    /\ CreatedProfile
    /\ OnceInv
    /\ AloneInv
    /\ StoredInv
    /\ FollowsInv

-----------------------------------------------------------------------------
(* Requests, rows and the projection.                                      *)

\* The fields of a request.
LEMMA RequestFields ==
    ASSUME NEW r \in Requests
    PROVE  /\ r.op \in Operations
           /\ r.id \in Keys \cup {Malformed}
           /\ r.actor \in Wallets \cup {Anonymous}
           /\ r.metadata \in Profiles
           /\ r.op # "get" => r.metadata \in Metadata
BY DEF Requests, Operations, Profiles

\* A request that passes the early returns names a farmer, and one that writes
\* comes from that farmer.
LEMMA Passed ==
    ASSUME NEW r \in Requests, Refusal(r) = 0
    PROVE  /\ r.id \in Keys
           /\ r.op # "get" => r.actor = r.id /\ r.metadata \in Metadata
<1>1. r.id # Malformed
  BY DEF Refusal
<1>2. r.op # "get" => r.actor = r.id
  BY DEF Refusal
<1> QED  BY <1>1, <1>2, RequestFields

\* The request of an idle handler is a request.
LEMMA NoRequestType == NoRequest \in Requests
BY DEF NoRequest, Requests

\* No answer is an answer.
LEMMA NoAnswerType == NoAnswer \in Answers
BY DEF NoAnswer, Answers, Operations, Profiles

\* A row made by the API is a row with a profile.
LEMMA NewRowType ==
    ASSUME NEW r \in Requests, r.metadata \in Metadata, NEW l \in Int
    PROVE  /\ NewRow(r, l) \in Row
           /\ NewRow(r, l) # NoRow
           /\ NewRow(r, l).metadata = r.metadata
           /\ NewRow(r, l).metadata_hash = MetadataHash(r.metadata)
<1>1. NewRow(r, l) \in Row
  BY DEF NewRow, Row, Hashes, Profiles
<1>2. NewRow(r, l) # NoRow
  BY <1>1, NoFarmerAssumption DEF NoFarmerAssumption
<1> QED  BY <1>1, <1>2 DEF NewRow

\* UPDATE farmers changes an existing row's profile and makes no row.
LEMMA UpdatedRowType ==
    ASSUME NEW r \in Requests, r.metadata \in Metadata, NEW l \in Int,
           NEW row \in Row \cup {NoRow}
    PROVE  LET new == UpdatedRow(row, r, l)
           IN  /\ new \in Row \cup {NoRow}
               /\ new # NoRow <=> row # NoRow
               /\ row # NoRow =>
                    /\ new.metadata = r.metadata
                    /\ new.metadata_hash = MetadataHash(r.metadata)
<1>1. CASE row = NoRow
  BY <1>1 DEF UpdatedRow
<1>2. CASE row # NoRow
  <2> DEFINE new == [row EXCEPT !.metadata = r.metadata,
                                !.metadata_hash = MetadataHash(r.metadata),
                                !.updated_ledger = l]
  <2>1. row \in Row
    BY <1>2
  <2>2. /\ new \in Row
        /\ new.metadata = r.metadata
        /\ new.metadata_hash = MetadataHash(r.metadata)
    BY <2>1 DEF Row, Hashes, Profiles
  <2>3. new # NoRow
    BY <2>2, NoFarmerAssumption DEF NoFarmerAssumption
  <2> QED  BY <1>2, <2>2, <2>3 DEF UpdatedRow
<1> QED  BY <1>1, <1>2

\* The projection keeps the profile of an existing row, and gives a row it
\* makes the empty one.
LEMMA ProjectFarmerKeeps ==
    ASSUME NEW e \in Event, e.contract_id = IdentityContract,
           NEW row \in Row \cup {NoRow}
    PROVE  LET new == ProjectFarmer(row, e)
           IN  /\ new \in Row \cup {NoRow}
               /\ row # NoRow =>
                    /\ new # NoRow
                    /\ new.metadata = row.metadata
                    /\ new.metadata_hash = row.metadata_hash
               /\ row = NoRow /\ new # NoRow => new.metadata = EmptyObject
<1> DEFINE k == e.body.key
           before == [EmptyTables EXCEPT !.identity = [@ EXCEPT ![k] = OnChain(row)]]
           after == ApplyEvent(before, e).identity[k]
           new == ProjectFarmer(row, e)
<1>1. k \in Keys
  BY EventFields
<1>2. OnChain(row) \in FarmerRow \cup {NoRow} /\ (row # NoRow => OnChain(row) \in FarmerRow)
  BY DEF OnChain, Row, FarmerRow
<1>3. before \in Tables /\ before.identity[k] = OnChain(row)
  <2>1. EmptyTable \in [Keys -> {NoRow}]
    BY DEF EmptyTable
  <2>2. [EmptyTable EXCEPT ![k] = OnChain(row)] \in [Keys -> FarmerRow \cup {NoRow}]
    BY <1>1, <1>2, <2>1
  <2> QED  BY <1>1, <2>1, <2>2 DEF EmptyTables, Tables
<1>4. after \in FarmerRow \cup {NoRow}
  <2> HIDE DEF before
  <2>1. ApplyEvent(before, e) \in Tables
    BY <1>3, ApplyEventType
  <2> QED  BY <1>1, <2>1 DEF Tables
<1>5. row # NoRow => after # NoRow
  <2> SUFFICES ASSUME row # NoRow
               PROVE  after # NoRow
    OBVIOUS
  <2>1. NoRow \notin FarmerRow
    BY NoRowAssumption DEF NoRowAssumption
  <2>2. before.identity[k] # NoRow
    BY <1>2, <1>3, <2>1
  <2>3. ContractName[e.contract_id] = "identity"
    BY IdentityAssumption DEF IdentityAssumption
  <2>4. after \in FarmerRow
    BY <1>3, <2>2, <2>3, IdentityRowStays
  <2> QED  BY <2>1, <2>4
<1>6. CASE after = NoRow
  <2>1. new = NoRow
    BY <1>6 DEF ProjectFarmer
  <2> QED  BY <1>5, <1>6, <2>1
<1>7. CASE after # NoRow
  <2>1. new = [registered |-> after.registered,
               created_ledger |-> after.created_ledger,
               updated_ledger |-> after.updated_ledger,
               verification_markers |-> after.verification_markers,
               metadata |-> Profile(row).metadata,
               metadata_hash |-> Profile(row).metadata_hash]
    BY <1>7 DEF ProjectFarmer
  <2>2. /\ Profile(row).metadata \in Profiles /\ Profile(row).metadata_hash \in Hashes
        /\ row # NoRow => /\ Profile(row).metadata = row.metadata
                          /\ Profile(row).metadata_hash = row.metadata_hash
        /\ row = NoRow => Profile(row).metadata = EmptyObject
    BY DEF Profile, Row, Profiles, Hashes
  <2>3. after \in FarmerRow
    BY <1>4, <1>7
  <2>4. new \in Row
    BY <2>1, <2>2, <2>3 DEF FarmerRow, Row
  <2>5. new # NoRow
    BY <2>4, NoFarmerAssumption DEF NoFarmerAssumption
  <2> QED  BY <2>1, <2>2, <2>4, <2>5
<1> QED  BY <1>6, <1>7

-----------------------------------------------------------------------------
(* The steps.                                                              *)

\* The types of a handler that answers.
LEMMA ReturnTypes ==
    ASSUME TypeOK, NEW h \in Handlers, NEW s \in Statuses \cup {0},
           NEW m \in Profiles, NEW b \in BOOLEAN, Return(h, s, m, b)
    PROVE  /\ pc' \in [Handlers -> Stages]
           /\ req' \in [Handlers -> Requests]
           /\ ledger' \in [Handlers -> Int]
           /\ answer' \in Answers
<1>1. req[h].op \in Operations
  BY RequestFields DEF TypeOK
<1> QED
  BY <1>1, NoRequestType DEF Return, TypeOK, Stages, Answers

\* Nothing the invariant speaks of changes.
LEMMA QuietStep ==
    ASSUME IInv, TypeOK', FeedInv',
           UNCHANGED <<store, farmers, pc, req, accepted, created, latest,
                       disturbed, cut, restarts>>
    PROVE  IInv'
<1> USE DEF IInv
<1>1. StubInv' /\ Registered' = Registered
  BY DEF StubInv, Registered
<1>2. HandlerInv'
  BY DEF HandlerInv, HandlerOK
<1>3. OwnProfile' /\ CreatedProfile'
  BY DEF OwnProfile, CreatedProfile
<1>4. OnceInv'
  BY <1>1 DEF OnceInv
<1>5. AloneInv'
  BY <1>1 DEF AloneInv, AloneOK, Writes
<1>6. StoredInv' /\ FollowsInv'
  BY <1>1 DEF StoredInv, RegisteredIsStored, FollowsInv, FollowsOK
<1> QED  BY <1>1, <1>2, <1>3, <1>4, <1>5, <1>6

\* A handler that is not about to UPDATE, nor to INSERT a missing row, leaves.
LEMMA LeaveStep ==
    ASSUME IInv, NEW h \in Handlers, TypeOK',
           pc' = [pc EXCEPT ![h] = "idle"], req' = [req EXCEPT ![h] = NoRequest],
           pc[h] # "update", pc[h] = "insert" => farmers[req[h].id] # NoRow,
           UNCHANGED <<store, farmers, feedVars, accepted, created, latest,
                       disturbed, cut, restarts>>
    PROVE  IInv'
<1> USE DEF IInv
<1>1. StubInv' /\ Registered' = Registered /\ FeedInv'
  BY DEF StubInv, Registered, FeedInv, feedVars
<1>2. /\ pc'[h] = "idle"
      /\ \A g \in Handlers \ {h} : pc'[g] = pc[g] /\ req'[g] = req[g]
  BY DEF TypeOK
<1>3. HandlerInv'
  BY <1>2 DEF HandlerInv, HandlerOK
<1>4. OwnProfile' /\ CreatedProfile'
  BY DEF OwnProfile, CreatedProfile
<1>5. OnceInv'
  BY <1>1, <1>2 DEF OnceInv
<1>6. AloneInv'
  BY <1>1, <1>2 DEF AloneInv, AloneOK, Writes
<1>7. StoredInv'
  BY <1>1, <1>2 DEF StoredInv, RegisteredIsStored
<1>8. FollowsInv'
  BY <1>1, <1>2 DEF FollowsInv, FollowsOK
<1> QED  BY <1>1, <1>3, <1>4, <1>5, <1>6, <1>7, <1>8

\* The contract emits an event.
LEMMA EmitStep ==
    ASSUME IInv, NEW b \in Emits, Emit(b)
    PROVE  IInv'
<1> USE DEF IInv
<1> DEFINE e == [contract_id |-> IdentityContract,
                 at |-> [ledger_sequence |-> Len(feed) + 1,
                         operation_index |-> 0, event_index |-> 0],
                 body |-> b]
<1>1. feed' = Append(feed, e)
  BY DEF Emit
<1>2. /\ feed \in Seq(Event) /\ Len(feed) \in Nat /\ Len(feed) < MaxFeed
      /\ MaxFeed \in Nat
  BY FarmersBoundsAssumption DEF Emit, TypeOK, FarmersBoundsAssumption
<1>3. e \in Event
  <2>1. IdentityContract \in Contracts
    BY IdentityAssumption DEF IdentityAssumption
  <2>2. e.at \in Position
    BY <1>2 DEF Position
  <2>3. e.body \in Body
    BY FarmersEmitsAssumption DEF FarmersEmitsAssumption
  <2> QED  BY <2>1, <2>2, <2>3 DEF Event
<1> HIDE DEF e
<1>4. feed' \in Seq(Event) /\ Len(feed') = Len(feed) + 1
  BY <1>1, <1>2, <1>3
<1>5. FeedInv'
  <2>1. e.contract_id = IdentityContract
    BY DEF e
  <2> QED  BY <1>1, <1>2, <1>3, <2>1 DEF FeedInv
<1>6. TypeOK'
  <2>1. answer' \in Answers
    BY DEF Emit, NoAnswer, Answers, Operations, Profiles
  <2> QED
    BY <1>2, <1>4, <2>1 DEF Emit, TypeOK, tables, handlerVars, history
<1> QED
  BY <1>5, <1>6, QuietStep DEF Emit, tables, handlerVars, history

\* Rows keep what the invariant speaks of: no row goes, and a row that had a
\* profile keeps it; a new row has none.
LEMMA ProfilesKept ==
    ASSUME IInv, TypeOK',
           \A k \in Keys :
               /\ farmers[k] # NoRow =>
                    /\ farmers'[k] # NoRow
                    /\ farmers'[k].metadata = farmers[k].metadata
                    /\ farmers'[k].metadata_hash = farmers[k].metadata_hash
               /\ farmers[k] = NoRow /\ farmers'[k] # NoRow =>
                    farmers'[k].metadata = EmptyObject,
           UNCHANGED <<store, feed, pc, req, accepted, created, latest,
                       disturbed, cut, restarts>>
    PROVE  IInv'
<1> USE DEF IInv
<1>1. StubInv' /\ Registered' = Registered /\ FeedInv'
  BY DEF StubInv, Registered, FeedInv
<1>2. HandlerInv'
  BY DEF HandlerInv, HandlerOK
<1>3. OwnProfile'
  BY DEF OwnProfile
<1>4. CreatedProfile'
  BY DEF CreatedProfile, TypeOK
<1>5. OnceInv'
  BY <1>1 DEF OnceInv
<1>6. AloneInv'
  BY <1>1 DEF AloneInv, AloneOK, Writes, HandlerInv, HandlerOK
<1>7. StoredInv'
  BY <1>1 DEF StoredInv, RegisteredIsStored, Registered
<1>8. FollowsInv'
  BY <1>1 DEF FollowsInv, FollowsOK, CreatedProfile, TypeOK
<1> QED  BY <1>1, <1>2, <1>3, <1>4, <1>5, <1>6, <1>7, <1>8

\* The projection applies an event.
LEMMA ApplyNextStep ==
    ASSUME IInv, ApplyNext
    PROVE  IInv'
<1> USE DEF IInv
<1> DEFINE e == feed[next]
           k == e.body.key
<1>1. next \in 1..Len(feed) /\ Len(feed) =< MaxFeed /\ MaxFeed \in Nat /\ Len(feed) \in Nat
  BY FarmersBoundsAssumption DEF ApplyNext, TypeOK, FarmersBoundsAssumption
<1>2. e \in Event /\ e.contract_id = IdentityContract
  BY <1>1 DEF TypeOK, FeedInv
<1>3. k \in Keys
  BY <1>2, EventFields
<1> HIDE DEF e
<1>4. farmers' = [farmers EXCEPT ![k] = ProjectFarmer(farmers[k], e)]
  BY DEF ApplyNext, e
<1>5. farmers[k] \in Row \cup {NoRow}
  BY <1>3 DEF TypeOK
<1> HIDE DEF k
<1>6. /\ ProjectFarmer(farmers[k], e) \in Row \cup {NoRow}
      /\ farmers[k] # NoRow =>
           /\ ProjectFarmer(farmers[k], e) # NoRow
           /\ ProjectFarmer(farmers[k], e).metadata = farmers[k].metadata
           /\ ProjectFarmer(farmers[k], e).metadata_hash = farmers[k].metadata_hash
      /\ farmers[k] = NoRow /\ ProjectFarmer(farmers[k], e) # NoRow =>
           ProjectFarmer(farmers[k], e).metadata = EmptyObject
  BY <1>2, <1>5, ProjectFarmerKeeps
<1>7. TypeOK'
  <2>1. farmers' \in [Keys -> Row \cup {NoRow}]
    BY <1>3, <1>4, <1>6 DEF TypeOK
  <2>2. next' \in 1..MaxFeed + 1
    BY <1>1 DEF ApplyNext
  <2>3. answer' \in Answers
    BY DEF ApplyNext, NoAnswer, Answers, Operations, Profiles
  <2> QED  BY <2>1, <2>2, <2>3 DEF ApplyNext, TypeOK, handlerVars, history
<1>8. UNCHANGED <<store, feed, pc, req, accepted, created, latest, disturbed, cut, restarts>>
  BY DEF ApplyNext, handlerVars, history
<1>9. ASSUME NEW j \in Keys
      PROVE  /\ farmers[j] # NoRow =>
                  /\ farmers'[j] # NoRow
                  /\ farmers'[j].metadata = farmers[j].metadata
                  /\ farmers'[j].metadata_hash = farmers[j].metadata_hash
             /\ farmers[j] = NoRow /\ farmers'[j] # NoRow =>
                  farmers'[j].metadata = EmptyObject
  <2>1. CASE j = k
    BY <1>3, <1>4, <1>6, <2>1 DEF TypeOK
  <2>2. CASE j # k
    <3>1. farmers'[j] = farmers[j]
      BY <1>3, <1>4, <2>2 DEF TypeOK
    <3> QED  BY <3>1
  <2> QED  BY <2>1, <2>2
<1> QED  BY <1>7, <1>8, <1>9, ProfilesKept

\* A pass ends.
LEMMA NextPassStep ==
    ASSUME IInv, NextPass
    PROVE  IInv'
<1>1. TypeOK'
  <2>1. answer' \in Answers /\ next' \in 1..MaxFeed + 1
    BY FarmersBoundsAssumption
    DEF NextPass, NoAnswer, Answers, Operations, Profiles, FarmersBoundsAssumption
  <2> QED  BY <2>1 DEF IInv, NextPass, TypeOK, tables, handlerVars, history
<1> QED
  BY <1>1, QuietStep DEF IInv, FeedInv, NextPass, tables, handlerVars, history

\* A request arrives.
LEMMA ReceiveStep ==
    ASSUME IInv, NEW h \in Handlers, NEW r \in Requests, Receive(h, r)
    PROVE  IInv'
<1> USE DEF IInv
<1>1. CASE Refusal(r) # 0
  <2>1. Refusal(r) \in Statuses
    BY <1>1 DEF Refusal, Statuses
  <2>2. answer' \in Answers
    <3>1. r.op \in Operations
      BY RequestFields
    <3>2. answer' = [op |-> r.op, status |-> Refusal(r),
                     metadata |-> EmptyObject, interrupted |-> FALSE]
      BY <1>1 DEF Receive
    <3> QED  BY <2>1, <3>1, <3>2 DEF Answers, Profiles
  <2>3. UNCHANGED <<store, farmers, feed, next, pc, req, ledger, accepted, created,
                    latest, disturbed, cut, faults, restarts>>
    BY <1>1 DEF Receive, tables, feedVars
  <2>4. TypeOK' /\ FeedInv'
    BY <2>2, <2>3 DEF TypeOK, FeedInv
  <2> QED  BY <2>3, <2>4, QuietStep
<1>2. CASE Refusal(r) = 0
  <2>1. /\ r.id \in Keys
        /\ r.op # "get" => r.actor = r.id /\ r.metadata \in Metadata
        /\ r.op \in Operations
    BY <1>2, Passed, RequestFields
  <2>2. /\ pc[h] = "idle"
        /\ pc'[h] = FirstStage[r.op] /\ req'[h] = r
        /\ \A g \in Handlers \ {h} : pc'[g] = pc[g] /\ req'[g] = req[g]
        /\ disturbed \subseteq disturbed'
        /\ Overlaps(h, r) => r.id \in disturbed'
        /\ disturbed' \subseteq Keys
        /\ UNCHANGED <<store, farmers, feed, next, ledger, accepted, created,
                       latest, cut, faults, restarts>>
    BY <1>2, <2>1 DEF Receive, TypeOK, tables, feedVars
  <2>3. FirstStage[r.op] \in Stages /\ r.op \in StageOps[FirstStage[r.op]]
        /\ FirstStage[r.op] \notin {"idle", "insert", "update"}
        /\ (FirstStage[r.op] = "read" => r.op = "get")
    BY <2>1 DEF FirstStage, Stages, StageOps, Operations
  <2>4. TypeOK'
    <3>1. pc' \in [Handlers -> Stages] /\ req' \in [Handlers -> Requests]
      BY <1>2, <2>3 DEF Receive, TypeOK
    <3>2. answer' = NoAnswer
      BY <1>2 DEF Receive
    <3>3. answer' \in Answers
      BY <3>2, NoAnswerType
    <3> QED  BY <2>2, <3>1, <3>3 DEF TypeOK
  <2>5. StubInv' /\ Registered' = Registered /\ FeedInv'
    BY <2>2 DEF StubInv, Registered, FeedInv
  <2>6. HandlerInv'
    BY <2>1, <2>2, <2>3 DEF HandlerInv, HandlerOK
  <2>7. OwnProfile' /\ CreatedProfile'
    BY <2>2 DEF OwnProfile, CreatedProfile
  <2>8. OnceInv'
    BY <2>2, <2>3, <2>5 DEF OnceInv
  <2>9. ASSUME NEW g \in Handlers, g # h, Writes(g), r.op # "get", req[g].id = r.id
        PROVE  r.id \in disturbed'
    <3>1. req[g].op \in Operations /\ req[g].op # "get"
      BY <2>9, RequestFields DEF Writes, TypeOK
    <3> QED  BY <2>1, <2>2, <2>9, <3>1 DEF Overlaps, Writes, Operations
  <2>10. ASSUME NEW g \in Handlers
         PROVE  AloneOK(g)'
    <3>1. CASE g = h
      BY <2>2, <2>3, <2>9, <3>1 DEF AloneOK, Writes
    <3>2. CASE g # h
      BY <2>2, <2>3, <2>5, <2>9, <3>2 DEF AloneInv, AloneOK, Writes
    <3> QED  BY <3>1, <3>2
  <2>11. StoredInv' /\ FollowsInv'
    BY <2>2, <2>5 DEF StoredInv, RegisteredIsStored, FollowsInv, FollowsOK
  <2> QED  BY <2>4, <2>5, <2>6, <2>7, <2>8, <2>10, <2>11 DEF AloneInv
<1> QED  BY <1>1, <1>2

\* What a handler at a writing stage works with.
LEMMA WorkerFacts ==
    ASSUME IInv, NEW h \in Handlers, pc[h] # "idle"
    PROVE  /\ req[h] \in Requests /\ req[h].id \in Keys /\ ledger[h] \in Int
           /\ req[h].op \in StageOps[pc[h]]
           /\ req[h].op # "get" =>
                /\ Writes(h)
                /\ req[h].metadata \in Metadata /\ req[h].metadata \in Profiles
                /\ req[h].metadata # EmptyObject
                /\ [key |-> req[h].id, actor |-> req[h].actor, metadata |-> req[h].metadata]
                     \in [key : Keys, actor : Wallets, metadata : Metadata]
                /\ req[h].actor = req[h].id
           /\ pc[h] \in {"insert", "update"} =>
                /\ req[h].op # "get"
                /\ [key |-> req[h].id, actor |-> req[h].id, metadata |-> req[h].metadata]
                     \in accepted
<1>1. HandlerOK(h) /\ req[h] \in Requests /\ ledger[h] \in Int
  BY DEF IInv, HandlerInv, TypeOK
<1>2. Keys \subseteq Wallets /\ EmptyObject \notin Metadata
  BY CallersAssumption, ProfilesAssumption DEF CallersAssumption, ProfilesAssumption
<1>3. pc[h] \in {"insert", "update"} => req[h].op # "get"
  BY <1>1 DEF HandlerOK, StageOps
<1> QED  BY <1>1, <1>2, <1>3 DEF HandlerOK, Writes, Profiles

\* The ledgers StubChain hands out.
LEMMA NowType ==
    ASSUME StubInv
    PROVE  StubLedger + Cardinality(Registered) \in Int
BY FS_CardinalityType, FarmersBoundsAssumption DEF StubInv, FarmersBoundsAssumption

\* What Return leaves of the handler, for the lemma on leaving.
LEMMA ReturnLeaves ==
    ASSUME IInv, NEW h \in Handlers, NEW s \in Statuses \cup {0},
           NEW b \in BOOLEAN, NEW m \in Profiles, Return(h, s, m, b),
           pc[h] # "update", pc[h] = "insert" => farmers[req[h].id] # NoRow,
           UNCHANGED <<store, farmers, feed, next, accepted, created, latest,
                       disturbed, cut, faults, restarts>>
    PROVE  IInv'
<1>1. TypeOK'
  <2>1. TypeOK
    BY DEF IInv
  <2>2. /\ pc' \in [Handlers -> Stages]
        /\ req' \in [Handlers -> Requests]
        /\ ledger' \in [Handlers -> Int]
        /\ answer' \in Answers
    BY <2>1, ReturnTypes
  <2> QED  BY <2>1, <2>2 DEF TypeOK
<1>2. pc' = [pc EXCEPT ![h] = "idle"] /\ req' = [req EXCEPT ![h] = NoRequest]
  BY DEF Return
<1> QED  BY <1>1, <1>2, LeaveStep DEF feedVars

\* chain.register_farmer.
LEMMA ChainRegisterStep ==
    ASSUME IInv, NEW h \in Handlers, ChainRegister(h)
    PROVE  IInv'
<1> USE DEF IInv
<1> DEFINE r == req[h]
           now == StubLedger + Cardinality(Registered)
<1>1. pc[h] = "chain_register"
  BY DEF ChainRegister
<1>2. CASE r.id \in Registered
  <2>1. Return(h, 409, EmptyObject, FALSE)
    BY <1>2 DEF ChainRegister
  <2>2. UNCHANGED <<store, farmers, feed, next, accepted, created, latest,
                    disturbed, cut, faults, restarts>>
    BY <1>2 DEF ChainRegister, feedVars
  <2>3. 409 \in Statuses \cup {0} /\ EmptyObject \in Profiles /\ FALSE \in BOOLEAN
    BY DEF Statuses, Profiles
  <2> QED  BY <1>1, <2>1, <2>2, <2>3, ReturnLeaves
<1>3. CASE r.id \notin Registered
  <2>1. /\ r \in Requests /\ r.id \in Keys /\ r.op = "register"
        /\ Writes(h) /\ r.metadata \in Metadata /\ r.metadata \in Profiles
        /\ r.actor = r.id
        /\ [key |-> r.id, actor |-> r.actor, metadata |-> r.metadata]
             \in [key : Keys, actor : Wallets, metadata : Metadata]
    <3>1. r.op = "register"
      <4>1. r.op \in StageOps[pc[h]]
        BY <1>1, WorkerFacts
      <4> QED  BY <1>1, <4>1 DEF StageOps
    <3> QED  BY <1>1, <3>1, WorkerFacts
  <2>2. /\ store' = [store EXCEPT ![r.id] =
                       [created_ledger |-> now, updated_ledger |-> now]]
        /\ accepted' = accepted \cup {[key |-> r.id, actor |-> r.actor,
                                       metadata |-> r.metadata]}
        /\ latest' = [latest EXCEPT ![r.id] = r.metadata]
        /\ ledger' = [ledger EXCEPT ![h] = now]
        /\ pc' = [pc EXCEPT ![h] = "insert"]
        /\ answer' = NoAnswer
        /\ UNCHANGED <<req, farmers, feed, next, created, disturbed, cut, faults, restarts>>
    BY <1>3 DEF ChainRegister, Accept, Goto, feedVars
  <2>3. now \in Int
    BY NowType
  <2> HIDE DEF now
  <2>4. [created_ledger |-> now, updated_ledger |-> now] \in ChainFarmer
    BY <2>3 DEF ChainFarmer
  <2>5. [created_ledger |-> now, updated_ledger |-> now] # NoRow
    BY <2>4, NoFarmerAssumption DEF NoFarmerAssumption
  <2>6. TypeOK'
    <3>1. store' \in [Keys -> ChainFarmer \cup {NoRow}]
      BY <2>1, <2>2, <2>4 DEF TypeOK
    <3>2. pc' \in [Handlers -> Stages] /\ ledger' \in [Handlers -> Int]
      BY <2>2, <2>3 DEF TypeOK, Stages
    <3>3. accepted' \subseteq [key : Keys, actor : Wallets, metadata : Metadata]
      BY <2>1, <2>2 DEF TypeOK
    <3>4. latest' \in [Keys -> Profiles] /\ answer' \in Answers
      BY <2>1, <2>2, NoAnswerType DEF TypeOK
    <3> QED  BY <2>2, <3>1, <3>2, <3>3, <3>4 DEF TypeOK
  <2>7. Registered' = Registered \cup {r.id}
    BY <2>1, <2>2, <2>5 DEF Registered, TypeOK
  <2>8. StubInv' /\ FeedInv'
    BY <2>2, <2>7, FS_AddElement DEF StubInv, FeedInv
  <2>9. /\ pc'[h] = "insert" /\ req' = req
        /\ \A g \in Handlers \ {h} : pc'[g] = pc[g]
        /\ latest'[r.id] = r.metadata
        /\ \A k \in Keys \ {r.id} : latest'[k] = latest[k]
        /\ [key |-> r.id, actor |-> r.id, metadata |-> r.metadata] \in accepted'
        /\ accepted \subseteq accepted'
    BY <2>1, <2>2 DEF TypeOK
  <2>10. HandlerInv'
    BY <1>1, <2>1, <2>9 DEF HandlerInv, HandlerOK, StageOps
  <2>11. OwnProfile' /\ CreatedProfile'
    BY <2>2, <2>9 DEF OwnProfile, CreatedProfile
  <2>12. OnceInv'
    BY <1>1, <1>3, <2>2, <2>7, <2>9 DEF OnceInv
  <2>13. ASSUME NEW k \in created \ disturbed
         PROVE  k # r.id
    BY <1>3 DEF FollowsInv, FollowsOK
  <2>14. ASSUME NEW g \in Handlers
         PROVE  AloneOK(g)'
    <3>1. CASE g = h
      BY <1>1, <2>1, <2>2, <2>7, <2>9, <2>13, <3>1 DEF AloneInv, AloneOK, Writes
    <3>2. CASE g # h
      <4>1. Writes(g) /\ r.id = req[g].id => r.id \in disturbed
        BY <2>1, <3>2 DEF AloneInv, AloneOK
      <4>2. pc'[g] = pc[g] /\ req'[g] = req[g]
        BY <2>9, <3>2
      <4>3. HandlerOK(g) /\ AloneOK(g)
        BY DEF HandlerInv, AloneInv
      <4> QED
        BY <1>1, <2>1, <2>2, <2>7, <2>9, <4>1, <4>2, <4>3 DEF AloneOK, Writes, HandlerOK
    <3> QED  BY <3>1, <3>2
  <2>15. StoredInv'
    BY <1>1, <2>2, <2>7, <2>9 DEF StoredInv, RegisteredIsStored
  <2>16. FollowsInv'
    BY <1>1, <2>2, <2>7, <2>9, <2>13 DEF FollowsInv, FollowsOK, TypeOK
  <2> QED
    BY <2>6, <2>8, <2>10, <2>11, <2>12, <2>14, <2>15, <2>16 DEF AloneInv
<1> QED  BY <1>2, <1>3

\* INSERT INTO farmers.
LEMMA InsertFarmerStep ==
    ASSUME IInv, NEW h \in Handlers, InsertFarmer(h)
    PROVE  IInv'
<1> USE DEF IInv
<1> DEFINE r == req[h]
<1>1. pc[h] = "insert"
  BY DEF InsertFarmer
<1>2. CASE farmers[r.id] # NoRow
  <2>1. Return(h, 500, EmptyObject, FALSE)
    BY <1>2 DEF InsertFarmer
  <2>2. UNCHANGED <<store, farmers, feed, next, accepted, created, latest,
                    disturbed, cut, faults, restarts>>
    BY <1>2 DEF InsertFarmer, feedVars
  <2>3. 500 \in Statuses \cup {0} /\ EmptyObject \in Profiles /\ FALSE \in BOOLEAN
    BY DEF Statuses, Profiles
  <2> QED  BY <1>1, <1>2, <2>1, <2>2, <2>3, ReturnLeaves
<1>3. CASE farmers[r.id] = NoRow
  <2>1. /\ r \in Requests /\ r.id \in Keys /\ r.op # "get" /\ ledger[h] \in Int
        /\ Writes(h) /\ r.metadata \in Metadata /\ r.metadata \in Profiles
        /\ r.metadata # EmptyObject
        /\ [key |-> r.id, actor |-> r.id, metadata |-> r.metadata] \in accepted
    BY <1>1, WorkerFacts
  <2> DEFINE new == NewRow(r, ledger[h])
  <2>2. /\ farmers' = [farmers EXCEPT ![r.id] = new]
        /\ created' = created \cup {r.id}
        /\ Return(h, 201, r.metadata, FALSE)
        /\ UNCHANGED <<store, feed, next, accepted, latest, disturbed, cut, faults, restarts>>
    BY <1>3 DEF InsertFarmer, feedVars
  <2>3. /\ new \in Row /\ new # NoRow
        /\ new.metadata = r.metadata
        /\ new.metadata_hash = MetadataHash(r.metadata)
    BY <2>1, NewRowType
  <2> HIDE DEF new
  <2>4. TypeOK'
    <3>1. farmers' \in [Keys -> Row \cup {NoRow}] /\ created' \subseteq Keys
      BY <2>1, <2>2, <2>3 DEF TypeOK
    <3>2. 201 \in Statuses \cup {0} /\ FALSE \in BOOLEAN
      BY DEF Statuses
    <3>3. /\ pc' \in [Handlers -> Stages]
          /\ req' \in [Handlers -> Requests]
          /\ ledger' \in [Handlers -> Int]
          /\ answer' \in Answers
      BY <2>1, <2>2, <3>2, ReturnTypes
    <3> QED  BY <2>2, <3>1, <3>3 DEF TypeOK
  <2>5. /\ pc'[h] = "idle"
        /\ \A g \in Handlers \ {h} : pc'[g] = pc[g] /\ req'[g] = req[g]
        /\ farmers'[r.id] = new
        /\ \A k \in Keys \ {r.id} : farmers'[k] = farmers[k]
        /\ created' = created \cup {r.id}
        /\ UNCHANGED <<store, accepted, latest, disturbed, cut, restarts>>
    BY <2>1, <2>2 DEF Return, TypeOK
  <2>6. StubInv' /\ FeedInv' /\ Registered' = Registered
    BY <2>2 DEF StubInv, Registered, FeedInv
  <2>7. HandlerInv'
    BY <2>5 DEF HandlerInv, HandlerOK
  <2>8. OwnProfile'
    BY <2>1, <2>3, <2>5 DEF OwnProfile
  <2>9. CreatedProfile'
    BY <2>1, <2>3, <2>5 DEF CreatedProfile, TypeOK
  <2>10. OnceInv'
    BY <1>1, <2>5, <2>6 DEF OnceInv
  <2>11. ASSUME NEW g \in Handlers
         PROVE  AloneOK(g)'
    <3>1. CASE g = h
      BY <2>5, <3>1 DEF AloneOK, Writes
    <3>2. CASE g # h
      <4>1. Writes(g) /\ r.id = req[g].id => r.id \in disturbed
        BY <2>1, <3>2 DEF AloneInv, AloneOK
      <4>2. HandlerOK(g) /\ AloneOK(g)
        BY DEF HandlerInv, AloneInv
      <4> QED
        BY <2>5, <2>6, <3>2, <4>1, <4>2 DEF AloneOK, Writes, HandlerOK
    <3> QED  BY <3>1, <3>2
  <2>12. StoredInv'
    BY <2>3, <2>5, <2>6 DEF StoredInv, RegisteredIsStored, Registered
  <2>13. ASSUME NEW k \in created' \ disturbed
         PROVE  FollowsOK(k)'
    <3>1. CASE k = r.id
      <4>1. latest[r.id] = r.metadata /\ r.id \in Registered
        BY <1>1, <2>1, <2>13, <3>1 DEF AloneInv, AloneOK
      <4> QED  BY <2>3, <2>5, <2>6, <3>1, <4>1 DEF FollowsOK
    <3>2. CASE k # r.id
      <4>1. FollowsOK(k) /\ k \in Keys
        BY <2>5, <2>13, <3>2 DEF FollowsInv, TypeOK
      <4> QED  BY <1>1, <2>5, <2>6, <3>2, <4>1 DEF FollowsOK
    <3> QED  BY <3>1, <3>2
  <2> QED
    BY <2>4, <2>5, <2>6, <2>7, <2>8, <2>9, <2>10, <2>11, <2>12, <2>13
    DEF AloneInv, FollowsInv
<1> QED  BY <1>2, <1>3

\* chain.update_metadata.
LEMMA ChainUpdateStep ==
    ASSUME IInv, NEW h \in Handlers, ChainUpdate(h)
    PROVE  IInv'
<1> USE DEF IInv
<1> DEFINE r == req[h]
           now == StubLedger + Cardinality(Registered)
<1>1. pc[h] = "chain_update"
  BY DEF ChainUpdate
<1>2. CASE r.id \notin Registered
  <2>1. Return(h, 404, EmptyObject, FALSE)
    BY <1>2 DEF ChainUpdate
  <2>2. UNCHANGED <<store, farmers, feed, next, accepted, created, latest,
                    disturbed, cut, faults, restarts>>
    BY <1>2 DEF ChainUpdate, feedVars
  <2>3. 404 \in Statuses \cup {0} /\ EmptyObject \in Profiles /\ FALSE \in BOOLEAN
    BY DEF Statuses, Profiles
  <2> QED  BY <1>1, <2>1, <2>2, <2>3, ReturnLeaves
<1>3. CASE r.id \in Registered
  <2>1. /\ r \in Requests /\ r.id \in Keys /\ r.op = "update"
        /\ Writes(h) /\ r.metadata \in Metadata /\ r.metadata \in Profiles
        /\ r.actor = r.id
        /\ [key |-> r.id, actor |-> r.actor, metadata |-> r.metadata]
             \in [key : Keys, actor : Wallets, metadata : Metadata]
    <3>1. r.op = "update"
      <4>1. r.op \in StageOps[pc[h]]
        BY <1>1, WorkerFacts
      <4> QED  BY <1>1, <4>1 DEF StageOps
    <3> QED  BY <1>1, <3>1, WorkerFacts
  <2>2. /\ store' = [store EXCEPT ![r.id].updated_ledger = now]
        /\ accepted' = accepted \cup {[key |-> r.id, actor |-> r.actor,
                                       metadata |-> r.metadata]}
        /\ latest' = [latest EXCEPT ![r.id] = r.metadata]
        /\ ledger' = [ledger EXCEPT ![h] = now]
        /\ pc' = [pc EXCEPT ![h] = "update"]
        /\ answer' = NoAnswer
        /\ UNCHANGED <<req, farmers, feed, next, created, disturbed, cut, faults, restarts>>
    BY <1>3 DEF ChainUpdate, Accept, Goto, feedVars
  <2>3. now \in Int
    BY NowType
  <2> HIDE DEF now
  <2> DEFINE entry == [store[r.id] EXCEPT !.updated_ledger = now]
  <2>4. entry \in ChainFarmer
    <3>1. store[r.id] \in ChainFarmer
      BY <1>3, <2>1 DEF Registered, TypeOK
    <3> QED  BY <2>3, <3>1 DEF ChainFarmer
  <2>5. entry # NoRow
    BY <2>4, NoFarmerAssumption DEF NoFarmerAssumption
  <2>6. store' = [store EXCEPT ![r.id] = entry]
    BY <2>1, <2>2 DEF TypeOK
  <2> HIDE DEF entry
  <2>7. TypeOK'
    <3>1. store' \in [Keys -> ChainFarmer \cup {NoRow}]
      BY <2>1, <2>4, <2>6 DEF TypeOK
    <3>2. pc' \in [Handlers -> Stages] /\ ledger' \in [Handlers -> Int]
      BY <2>2, <2>3 DEF TypeOK, Stages
    <3>3. accepted' \subseteq [key : Keys, actor : Wallets, metadata : Metadata]
      BY <2>1, <2>2 DEF TypeOK
    <3>4. latest' \in [Keys -> Profiles] /\ answer' \in Answers
      BY <2>1, <2>2, NoAnswerType DEF TypeOK
    <3> QED  BY <2>2, <3>1, <3>2, <3>3, <3>4 DEF TypeOK
  <2>8. Registered' = Registered
    BY <1>3, <2>1, <2>5, <2>6 DEF Registered, TypeOK
  <2>9. StubInv' /\ FeedInv'
    BY <2>2, <2>8 DEF StubInv, FeedInv
  <2>10. /\ pc'[h] = "update" /\ req' = req
         /\ \A g \in Handlers \ {h} : pc'[g] = pc[g]
         /\ latest'[r.id] = r.metadata
         /\ \A k \in Keys \ {r.id} : latest'[k] = latest[k]
         /\ [key |-> r.id, actor |-> r.id, metadata |-> r.metadata] \in accepted'
         /\ accepted \subseteq accepted'
    BY <2>1, <2>2 DEF TypeOK
  <2>11. HandlerInv'
    BY <1>1, <2>1, <2>10 DEF HandlerInv, HandlerOK, StageOps
  <2>12. OwnProfile' /\ CreatedProfile'
    BY <2>2, <2>10 DEF OwnProfile, CreatedProfile
  <2>13. OnceInv'
    BY <2>2, <2>8, <2>10 DEF OnceInv
  <2>14. ASSUME NEW g \in Handlers
         PROVE  AloneOK(g)'
    <3>1. CASE g = h
      BY <1>1, <1>3, <2>1, <2>2, <2>8, <2>10, <3>1 DEF AloneInv, AloneOK, Writes
    <3>2. CASE g # h
      <4>1. Writes(g) /\ r.id = req[g].id => r.id \in disturbed
        BY <2>1, <3>2 DEF AloneInv, AloneOK
      <4>2. pc'[g] = pc[g] /\ req'[g] = req[g]
        BY <2>10, <3>2
      <4>3. HandlerOK(g) /\ AloneOK(g)
        BY DEF HandlerInv, AloneInv
      <4> QED
        BY <1>1, <2>1, <2>2, <2>8, <2>10, <4>1, <4>2, <4>3 DEF AloneOK, Writes, HandlerOK
    <3> QED  BY <3>1, <3>2
  <2>15. StoredInv'
    BY <1>1, <2>2, <2>8, <2>10 DEF StoredInv, RegisteredIsStored
  <2>16. ASSUME NEW k \in created \ disturbed
         PROVE  FollowsOK(k)'
    <3>1. FollowsOK(k) /\ k \in Keys
      BY DEF FollowsInv, TypeOK
    <3>2. CASE k = r.id
      BY <1>3, <2>8, <2>10, <3>2 DEF FollowsOK
    <3>3. CASE k # r.id
      BY <1>1, <2>2, <2>8, <2>10, <3>1, <3>3 DEF FollowsOK
    <3> QED  BY <3>2, <3>3
  <2> QED
    BY <2>2, <2>7, <2>9, <2>11, <2>12, <2>13, <2>14, <2>15, <2>16
    DEF AloneInv, FollowsInv
<1> QED  BY <1>2, <1>3

\* UPDATE farmers.
LEMMA UpdateFarmerStep ==
    ASSUME IInv, NEW h \in Handlers, UpdateFarmer(h)
    PROVE  IInv'
<1> USE DEF IInv
<1> DEFINE r == req[h]
           new == UpdatedRow(farmers[r.id], r, ledger[h])
<1>1. pc[h] = "update"
  BY DEF UpdateFarmer
<1>2. /\ r \in Requests /\ r.id \in Keys /\ r.op = "update" /\ ledger[h] \in Int
      /\ Writes(h) /\ r.metadata \in Metadata /\ r.metadata # EmptyObject
      /\ r.actor = r.id
      /\ [key |-> r.id, actor |-> r.id, metadata |-> r.metadata] \in accepted
  <2>1. r.op = "update"
    <3>1. r.op \in StageOps[pc[h]]
      BY <1>1, WorkerFacts
    <3> QED  BY <1>1, <3>1 DEF StageOps
  <2> QED  BY <1>1, <2>1, WorkerFacts
<1>3. /\ farmers' = [farmers EXCEPT ![r.id] = new]
      /\ pc' = [pc EXCEPT ![h] = "read"]
      /\ answer' = NoAnswer
      /\ UNCHANGED <<req, ledger, store, feed, next, accepted, created, latest,
                     disturbed, cut, faults, restarts>>
  BY DEF UpdateFarmer, Goto, feedVars, history
<1>4. /\ new \in Row \cup {NoRow}
      /\ new # NoRow <=> farmers[r.id] # NoRow
      /\ farmers[r.id] # NoRow =>
           /\ new.metadata = r.metadata
           /\ new.metadata_hash = MetadataHash(r.metadata)
  <2>1. farmers[r.id] \in Row \cup {NoRow}
    BY <1>2 DEF TypeOK
  <2> QED  BY <1>2, <2>1, UpdatedRowType
<1> HIDE DEF new
<1>5. TypeOK'
  <2>1. farmers' \in [Keys -> Row \cup {NoRow}] /\ pc' \in [Handlers -> Stages]
    BY <1>2, <1>3, <1>4 DEF TypeOK, Stages
  <2> QED  BY <1>3, <2>1, NoAnswerType DEF TypeOK
<1>6. /\ pc'[h] = "read" /\ req' = req
      /\ \A g \in Handlers \ {h} : pc'[g] = pc[g]
      /\ farmers'[r.id] = new
      /\ \A k \in Keys \ {r.id} : farmers'[k] = farmers[k]
  BY <1>2, <1>3 DEF TypeOK
<1>7. StubInv' /\ FeedInv' /\ Registered' = Registered
  BY <1>3 DEF StubInv, Registered, FeedInv
<1>8. HandlerInv'
  BY <1>1, <1>2, <1>3, <1>6 DEF HandlerInv, HandlerOK, StageOps
<1>9. OwnProfile'
  BY <1>2, <1>3, <1>4, <1>6 DEF OwnProfile
<1>10. CreatedProfile'
  BY <1>2, <1>3, <1>4, <1>6 DEF CreatedProfile, TypeOK
<1>11. OnceInv'
  BY <1>3, <1>6, <1>7 DEF OnceInv
<1>12. r.id \notin disturbed =>
         farmers[r.id] # NoRow /\ latest[r.id] = r.metadata /\ r.id \in Registered
  <2>1. SUFFICES ASSUME r.id \notin disturbed
                 PROVE  farmers[r.id] # NoRow /\ latest[r.id] = r.metadata
                        /\ r.id \in Registered
    OBVIOUS
  <2>2. AloneOK(h)
    BY DEF AloneInv
  <2>3. r.id \in Registered /\ latest[r.id] = r.metadata
    BY <1>1, <1>2, <2>1, <2>2 DEF AloneOK
  <2>4. ASSUME NEW g \in Handlers, pc[g] = "insert", req[g].id = r.id
        PROVE  FALSE
    <3>1. Writes(g)
      BY <2>4, WorkerFacts
    <3> QED  BY <1>1, <1>2, <2>1, <2>2, <2>4, <3>1 DEF AloneOK
  <2> QED  BY <2>1, <2>3, <2>4 DEF StoredInv, RegisteredIsStored
<1>13. ASSUME NEW g \in Handlers
       PROVE  AloneOK(g)'
  <2>1. CASE g = h
    BY <1>1, <1>2, <1>3, <1>4, <1>6, <1>7, <1>12, <2>1 DEF AloneInv, AloneOK, Writes
  <2>2. CASE g # h
    <3>1. Writes(g) /\ r.id = req[g].id => r.id \in disturbed
      BY <1>2, <2>2 DEF AloneInv, AloneOK
    <3>2. pc'[g] = pc[g] /\ req'[g] = req[g]
      BY <1>6, <2>2
    <3>3. HandlerOK(g) /\ AloneOK(g)
      BY DEF HandlerInv, AloneInv
    <3> QED
      BY <1>1, <1>2, <1>3, <1>6, <1>7, <3>1, <3>2, <3>3 DEF AloneOK, Writes, HandlerOK
  <2> QED  BY <2>1, <2>2
<1>14. StoredInv'
  BY <1>1, <1>3, <1>4, <1>6, <1>7 DEF StoredInv, RegisteredIsStored, Registered
<1>15. ASSUME NEW k \in created \ disturbed
       PROVE  FollowsOK(k)'
  <2>1. FollowsOK(k) /\ k \in Keys
    BY DEF FollowsInv, TypeOK
  <2>2. CASE k = r.id
    BY <1>3, <1>4, <1>6, <1>7, <1>12, <1>15, <2>2 DEF FollowsOK
  <2>3. CASE k # r.id
    BY <1>3, <1>6, <1>7, <2>1, <2>3 DEF FollowsOK
  <2> QED  BY <2>2, <2>3
<1> QED
  BY <1>3, <1>5, <1>7, <1>8, <1>9, <1>10, <1>11, <1>13, <1>14, <1>15
  DEF AloneInv, FollowsInv

\* get_farmer.
LEMMA ReadFarmerStep ==
    ASSUME IInv, NEW h \in Handlers, ReadFarmer(h)
    PROVE  IInv'
<1> DEFINE row == farmers[req[h].id]
<1>1. pc[h] = "read"
  BY DEF ReadFarmer
<1>2. req[h].id \in Keys /\ row \in Row \cup {NoRow}
  BY <1>1, WorkerFacts DEF IInv, TypeOK
<1>3. UNCHANGED <<store, farmers, feed, next, accepted, created, latest,
                  disturbed, cut, faults, restarts>>
  BY DEF ReadFarmer, tables, feedVars, history
<1>4. EmptyObject \in Profiles /\ (row # NoRow => row.metadata \in Profiles)
  BY <1>2 DEF Profiles, Row
<1>5. CASE Return(h, 404, EmptyObject, FALSE)
  <2>1. 404 \in Statuses \cup {0} /\ EmptyObject \in Profiles /\ FALSE \in BOOLEAN
    BY <1>4 DEF Statuses
  <2> QED  BY <1>1, <1>3, <1>5, <2>1, ReturnLeaves
<1>6. CASE row # NoRow /\ Return(h, 200, row.metadata, FALSE)
  <2>1. 200 \in Statuses \cup {0} /\ row.metadata \in Profiles /\ FALSE \in BOOLEAN
    BY <1>4, <1>6 DEF Statuses
  <2> QED  BY <1>1, <1>3, <1>6, <2>1, ReturnLeaves
<1>7. CASE Return(h, 500, EmptyObject, FALSE)
  <2>1. 500 \in Statuses \cup {0} /\ EmptyObject \in Profiles /\ FALSE \in BOOLEAN
    BY <1>4 DEF Statuses
  <2> QED  BY <1>1, <1>3, <1>7, <2>1, ReturnLeaves
<1> QED  BY <1>5, <1>6, <1>7 DEF ReadFarmer

\* A handler is cut short, its statement executed or not.
LEMMA InterruptStep ==
    ASSUME IInv, NEW h \in Handlers, Interrupt(h)
    PROVE  IInv'
<1> USE DEF IInv
<1> DEFINE r == req[h]
           new == farmers'[r.id]
<1>1. pc[h] \in {"insert", "update", "read"} /\ pc[h] # "idle"
  BY DEF Interrupt
<1>2. /\ r \in Requests /\ r.id \in Keys /\ ledger[h] \in Int
      /\ pc[h] \in {"insert", "update"} =>
           /\ r.metadata \in Metadata /\ r.metadata # EmptyObject
           /\ [key |-> r.id, actor |-> r.id, metadata |-> r.metadata] \in accepted
  BY <1>1, WorkerFacts
<1>3. PICK status \in {0, 500} : Return(h, status, EmptyObject, TRUE)
  BY DEF Interrupt
<1>4. /\ faults < MaxFaults /\ faults' = faults + 1
      /\ disturbed' = disturbed \cup {r.id}
      /\ cut' = IF pc[h] = "insert" THEN cut \cup {r.id} ELSE cut
      /\ UNCHANGED <<store, feed, next, accepted, created, latest, restarts>>
  BY DEF Interrupt, feedVars
<1>5. /\ farmers' \in [Keys -> Row \cup {NoRow}]
      /\ \A k \in Keys \ {r.id} : farmers'[k] = farmers[k]
      /\ farmers[r.id] # NoRow => new # NoRow
      /\ \/ new = farmers[r.id]
         \/ new = NoRow
         \/ /\ r.metadata \in Metadata /\ r.metadata # EmptyObject
            /\ [key |-> r.id, actor |-> r.id, metadata |-> r.metadata] \in accepted
            /\ new.metadata = r.metadata
            /\ new.metadata_hash = MetadataHash(r.metadata)
  <2>1. CASE UNCHANGED farmers
    BY <2>1 DEF TypeOK
  <2>2. CASE /\ pc[h] = "insert" /\ farmers[r.id] = NoRow
             /\ farmers' = [farmers EXCEPT ![r.id] = NewRow(r, ledger[h])]
    <3>1. /\ NewRow(r, ledger[h]) \in Row
          /\ NewRow(r, ledger[h]).metadata = r.metadata
          /\ NewRow(r, ledger[h]).metadata_hash = MetadataHash(r.metadata)
      BY <1>2, <2>2, NewRowType
    <3>2. /\ farmers' \in [Keys -> Row \cup {NoRow}]
          /\ new = NewRow(r, ledger[h])
          /\ \A k \in Keys \ {r.id} : farmers'[k] = farmers[k]
      BY <1>2, <2>2, <3>1 DEF TypeOK
    <3> HIDE DEF new
    <3> QED  BY <1>2, <2>2, <3>1, <3>2
  <2>3. CASE /\ pc[h] = "update"
             /\ farmers' = [farmers EXCEPT ![r.id] = UpdatedRow(@, r, ledger[h])]
    <3> DEFINE up == UpdatedRow(farmers[r.id], r, ledger[h])
    <3>1. farmers[r.id] \in Row \cup {NoRow}
      BY <1>2 DEF TypeOK
    <3>2. /\ up \in Row \cup {NoRow}
          /\ up # NoRow <=> farmers[r.id] # NoRow
          /\ farmers[r.id] # NoRow =>
               /\ up.metadata = r.metadata
               /\ up.metadata_hash = MetadataHash(r.metadata)
      BY <1>2, <2>3, <3>1, UpdatedRowType
    <3>3. farmers' = [farmers EXCEPT ![r.id] = up]
      BY <2>3
    <3> HIDE DEF up
    <3>4. /\ farmers' \in [Keys -> Row \cup {NoRow}]
          /\ new = up
          /\ \A k \in Keys \ {r.id} : farmers'[k] = farmers[k]
      BY <1>2, <3>2, <3>3 DEF TypeOK
    <3> HIDE DEF new
    <3> QED  BY <1>2, <2>3, <3>2, <3>4
  <2> QED  BY <2>1, <2>2, <2>3 DEF Interrupt
<1> HIDE DEF new
<1>6. TypeOK'
  <2>1. status \in Statuses \cup {0} /\ EmptyObject \in Profiles /\ TRUE \in BOOLEAN
    BY <1>3 DEF Statuses, Profiles
  <2>2. /\ pc' \in [Handlers -> Stages]
        /\ req' \in [Handlers -> Requests]
        /\ ledger' \in [Handlers -> Int]
        /\ answer' \in Answers
    BY <1>3, <2>1, ReturnTypes
  <2>3. faults' \in 0..MaxFaults /\ disturbed' \subseteq Keys /\ cut' \subseteq Keys
    BY <1>2, <1>4, FarmersBoundsAssumption DEF TypeOK, FarmersBoundsAssumption
  <2> QED  BY <1>4, <1>5, <2>2, <2>3 DEF TypeOK
<1>7. /\ pc'[h] = "idle"
      /\ \A g \in Handlers \ {h} : pc'[g] = pc[g] /\ req'[g] = req[g]
  BY <1>3 DEF Return, TypeOK
<1>8. StubInv' /\ FeedInv' /\ Registered' = Registered
  BY <1>4 DEF StubInv, Registered, FeedInv
<1>9. HandlerInv'
  BY <1>4, <1>7 DEF HandlerInv, HandlerOK
<1>10. OwnProfile'
  BY <1>4, <1>5 DEF OwnProfile, new
<1>11. CreatedProfile'
  BY <1>4, <1>5 DEF CreatedProfile, new, TypeOK
<1>12. OnceInv'
  BY <1>4, <1>7, <1>8 DEF OnceInv
<1>13. ASSUME NEW g \in Handlers
       PROVE  AloneOK(g)'
  <2>1. CASE g = h
    BY <1>7, <2>1 DEF AloneOK, Writes
  <2>2. CASE g # h
    <3>1. pc'[g] = pc[g] /\ req'[g] = req[g] /\ HandlerOK(g) /\ AloneOK(g)
      BY <1>7, <2>2 DEF HandlerInv, AloneInv
    <3>2. CASE req[g].id = r.id
      BY <1>4, <3>1, <3>2 DEF AloneOK
    <3>3. CASE req[g].id # r.id
      BY <1>4, <1>5, <1>7, <1>8, <3>1, <3>3 DEF AloneOK, Writes, HandlerOK
    <3> QED  BY <3>2, <3>3
  <2> QED  BY <2>1, <2>2
<1>14. StoredInv'
  <2>1. cut' \subseteq disturbed'
    BY <1>4 DEF StoredInv
  <2>2. ASSUME NEW k \in Registered' \ cut', farmers'[k] = NoRow
        PROVE  \E g \in Handlers : pc'[g] = "insert" /\ req'[g].id = k
    <3>1. k \in Registered \ cut /\ k \in Keys
      BY <1>4, <1>8, <2>2 DEF Registered
    <3>2. farmers[k] = NoRow
      BY <1>5, <2>2, <3>1 DEF new
    <3>3. PICK g \in Handlers : pc[g] = "insert" /\ req[g].id = k
      BY <3>1, <3>2 DEF StoredInv, RegisteredIsStored
    <3>4. g # h
      BY <1>4, <2>2, <3>3
    <3> QED  BY <1>7, <3>3, <3>4
  <2> QED  BY <2>1, <2>2 DEF StoredInv, RegisteredIsStored
<1>15. ASSUME NEW k \in created \ disturbed'
       PROVE  FollowsOK(k)'
  <2>1. FollowsOK(k) /\ k \in Keys /\ k # r.id
    BY <1>4 DEF FollowsInv, TypeOK
  <2> QED  BY <1>4, <1>5, <1>7, <1>8, <2>1 DEF FollowsOK
<1> QED
  BY <1>4, <1>6, <1>8, <1>9, <1>10, <1>11, <1>12, <1>13, <1>14, <1>15
  DEF AloneInv, FollowsInv

\* The process is restarted.
LEMMA RestartStep ==
    ASSUME IInv, Restart
    PROVE  IInv'
<1> USE DEF IInv
<1>1. TypeOK'
  <2>1. /\ store' \in [Keys -> ChainFarmer \cup {NoRow}]
        /\ latest' \in [Keys -> Profiles]
        /\ pc' \in [Handlers -> Stages]
        /\ ledger' \in [Handlers -> Int]
        /\ disturbed' \subseteq Keys /\ cut' \subseteq Keys
    BY DEF Restart, NoFarmers, Profiles, Stages
  <2>2. req' \in [Handlers -> Requests] /\ answer' \in Answers
    BY NoRequestType, NoAnswerType DEF Restart
  <2>3. next' \in 1..MaxFeed + 1 /\ restarts' \in 0..MaxRestarts
    BY FarmersBoundsAssumption DEF Restart, TypeOK, FarmersBoundsAssumption
  <2> QED  BY <2>1, <2>2, <2>3 DEF Restart, TypeOK
<1>2. Registered' = {}
  BY DEF Restart, NoFarmers, Registered
<1>3. StubInv' /\ FeedInv'
  BY <1>2, FS_EmptySet DEF StubInv, FeedInv, Restart
<1>4. \A h \in Handlers : pc'[h] = "idle"
  BY DEF Restart
<1>5. HandlerInv'
  BY <1>4 DEF HandlerInv, HandlerOK
<1>6. OwnProfile' /\ CreatedProfile'
  BY DEF OwnProfile, CreatedProfile, Restart
<1>7. OnceInv'
  <2>1. restarts' # 0
    BY DEF Restart, TypeOK
  <2> QED  BY <2>1 DEF OnceInv
<1>8. AloneInv'
  BY <1>4 DEF AloneInv, AloneOK, Writes
<1>9. StoredInv' /\ FollowsInv'
  BY <1>2 DEF StoredInv, RegisteredIsStored, FollowsInv, Restart, TypeOK
<1> QED  BY <1>1, <1>3, <1>5, <1>6, <1>7, <1>8, <1>9

-----------------------------------------------------------------------------
(* The invariant.                                                          *)

\* It holds at the start.
LEMMA IInvInit == Init => IInv
<1> SUFFICES ASSUME Init
             PROVE  IInv
  OBVIOUS
<1>1. TypeOK
  <2>1. /\ store \in [Keys -> ChainFarmer \cup {NoRow}]
        /\ farmers \in [Keys -> Row \cup {NoRow}]
        /\ latest \in [Keys -> Profiles]
        /\ pc \in [Handlers -> Stages] /\ ledger \in [Handlers -> Int]
    BY DEF Init, NoFarmers, Profiles, Stages
  <2>2. req \in [Handlers -> Requests] /\ answer \in Answers
    BY NoRequestType, NoAnswerType DEF Init
  <2>3. /\ feed \in Seq(Event) /\ Len(feed) =< MaxFeed
        /\ next \in 1..MaxFeed + 1
        /\ faults \in 0..MaxFaults /\ restarts \in 0..MaxRestarts
    BY FarmersBoundsAssumption DEF Init, FarmersBoundsAssumption
  <2> QED  BY <2>1, <2>2, <2>3 DEF Init, TypeOK
<1>2. Registered = {}
  BY DEF Init, NoFarmers, Registered
<1>3. StubInv
  BY <1>2, FS_EmptySet DEF StubInv
<1>4. FeedInv /\ OwnProfile /\ CreatedProfile
  BY DEF Init, NoFarmers, FeedInv, OwnProfile, CreatedProfile
<1>5. HandlerInv /\ OnceInv /\ AloneInv
  BY DEF Init, HandlerInv, HandlerOK, OnceInv, AloneInv, AloneOK, Writes
<1>6. StoredInv /\ FollowsInv
  BY <1>2 DEF Init, StoredInv, RegisteredIsStored, FollowsInv
<1> QED  BY <1>1, <1>3, <1>4, <1>5, <1>6 DEF IInv

\* Every step keeps it.
LEMMA IInvStep == IInv /\ [Next]_vars => IInv'
<1> SUFFICES ASSUME IInv, [Next]_vars
             PROVE  IInv'
  OBVIOUS
<1>1. ASSUME NEW b \in Emits, Emit(b)
      PROVE  IInv'
  BY <1>1, EmitStep
<1>2. CASE ApplyNext
  BY <1>2, ApplyNextStep
<1>3. CASE NextPass
  BY <1>3, NextPassStep
<1>4. ASSUME NEW h \in Handlers, NEW r \in Requests, Receive(h, r)
      PROVE  IInv'
  BY <1>4, ReceiveStep
<1>5. ASSUME NEW h \in Handlers, Handle(h)
      PROVE  IInv'
  BY <1>5, ChainRegisterStep, InsertFarmerStep, ChainUpdateStep, UpdateFarmerStep,
     ReadFarmerStep DEF Handle
<1>6. ASSUME NEW h \in Handlers, Interrupt(h)
      PROVE  IInv'
  BY <1>6, InterruptStep
<1>7. CASE Restart
  BY <1>7, RestartStep
<1>8. CASE UNCHANGED vars
  <2>1. UNCHANGED <<store, farmers, feed, next, pc, req, ledger, answer, accepted,
                    created, latest, disturbed, cut, faults, restarts>>
    BY <1>8 DEF vars, tables, feedVars, handlerVars, history
  <2>2. TypeOK' /\ FeedInv'
    BY <2>1 DEF IInv, TypeOK, FeedInv
  <2> QED  BY <2>1, <2>2, QuietStep
<1> QED
  BY <1>1, <1>2, <1>3, <1>4, <1>5, <1>6, <1>7, <1>8 DEF Next, Project

LEMMA IInvAlways == Spec => []IInv
BY IInvInit, IInvStep, PTL DEF Spec

-----------------------------------------------------------------------------
(* The theorems.                                                           *)

\* Every variable keeps its type, whatever handlers, the projection, failures
\* and restarts do.
THEOREM FarmersTypeCorrect == Spec => []TypeOK
<1>1. IInv => TypeOK
  BY DEF IInv
<1> QED  BY <1>1, IInvAlways, PTL

\* A profile in the table was sent by the farmer itself and accepted by the
\* chain, and is stored with its own hash.
THEOREM OwnProfileHolds == Spec => []OwnProfile
<1>1. IInv => OwnProfile
  BY DEF IInv
<1> QED  BY <1>1, IInvAlways, PTL

\* A farmer the chain knows has its row, or its INSERT is under way, or that
\* INSERT was cut, however many requests overlap.
THEOREM RegisteredIsStoredHolds == Spec => []RegisteredIsStored
<1>1. IInv => RegisteredIsStored
  BY DEF IInv, StoredInv
<1> QED  BY <1>1, IInvAlways, PTL

-----------------------------------------------------------------------------
(* Markers.  Only the projection writes them, and it stores one that cannot *)
(* be decoded only if it comes from the contract.                           *)

Readable(row) ==
    \A i \in DOMAIN row.verification_markers : row.verification_markers[i].readable

MarkersInv ==
    \A k \in Keys : farmers[k] # NoRow /\ ~OddMarkers(k) => Readable(farmers[k])

\* A builder makes a readable row of a readable one, if the event is not odd.
LEMMA ProjectFarmerReadable ==
    ASSUME NEW e \in Event, e.contract_id = IdentityContract,
           e.body.shape # "odd", NEW row \in Row \cup {NoRow},
           row # NoRow => Readable(row), ProjectFarmer(row, e) # NoRow
    PROVE  Readable(ProjectFarmer(row, e))
<1> DEFINE k == e.body.key
           before == [EmptyTables EXCEPT !.identity = [@ EXCEPT ![k] = OnChain(row)]]
           after == ApplyEvent(before, e).identity[k]
           on == OnChain(row)
<1>1. k \in Keys /\ ContractName[e.contract_id] = "identity"
  BY EventFields, IdentityAssumption DEF IdentityAssumption
<1>2. on \in FarmerRow \cup {NoRow} /\ (on # NoRow => Readable(on))
  BY DEF OnChain, Row, FarmerRow, Readable
<1>3. before \in Tables /\ before.identity[k] = on
  <2>1. EmptyTable \in [Keys -> {NoRow}]
    BY DEF EmptyTable
  <2>2. [EmptyTable EXCEPT ![k] = OnChain(row)] \in [Keys -> FarmerRow \cup {NoRow}]
    BY <1>1, <1>2, <2>1
  <2> QED  BY <1>1, <2>1, <2>2 DEF EmptyTables, Tables
<1> HIDE DEF before, on
<1>4. after # NoRow => Readable(after)
  <2>1. \/ after = UpsertIdentityFarmer(on, e)
        \/ after = UpdateIdentityMetadata(on, e)
        \/ after = AppendIdentityMarker(on, e)
        \/ after = on
    BY <1>1, <1>3, IdentityWritten
  <2>2. CASE after = UpsertIdentityFarmer(on, e)
    BY <2>2 DEF UpsertIdentityFarmer, Readable
  <2>3. CASE after = UpdateIdentityMetadata(on, e) \/ after = on
    <3>1. CASE on = NoRow
      BY <2>3, <3>1 DEF UpdateIdentityMetadata
    <3>2. CASE on # NoRow
      <4>1. on \in FarmerRow /\ Readable(on)
        BY <1>2, <3>2
      <4>2. after.verification_markers = on.verification_markers
        BY <2>3, <3>2, <4>1 DEF UpdateIdentityMetadata, FarmerRow
      <4> QED  BY <4>1, <4>2 DEF Readable
    <3> QED  BY <3>1, <3>2
  <2>4. CASE after = AppendIdentityMarker(on, e)
    <3>1. CASE on = NoRow
      BY <2>4, <3>1 DEF AppendIdentityMarker
    <3>2. CASE on # NoRow
      <4> DEFINE old == on.verification_markers
      <4>1. on \in FarmerRow /\ Readable(on) /\ old \in Seq(Marker)
        BY <1>2, <3>2 DEF FarmerRow
      <4>2. after.verification_markers = Append(old, MarkerOf(e))
        BY <2>4, <3>2, <4>1 DEF AppendIdentityMarker, FarmerRow
      <4>3. MarkerOf(e).readable
        BY DEF MarkerOf
      <4>4. MarkerOf(e) \in Marker
        BY MarkerTypes
      <4>5. \A i \in DOMAIN old : old[i].readable
        BY <4>1 DEF Readable
      <4> HIDE DEF old
      <4>6. ASSUME NEW i \in DOMAIN Append(old, MarkerOf(e))
            PROVE  Append(old, MarkerOf(e))[i].readable
        BY <4>1, <4>3, <4>4, <4>5, <4>6
      <4> QED  BY <4>2, <4>6 DEF Readable
    <3> QED  BY <3>1, <3>2
  <2> QED  BY <2>1, <2>2, <2>3, <2>4
<1>5. /\ after # NoRow
      /\ ProjectFarmer(row, e).verification_markers = after.verification_markers
  BY DEF ProjectFarmer, before
<1> QED  BY <1>4, <1>5 DEF Readable

\* The step keeps the markers of j, or replaces them by readable ones.
LEMMA MarkersKept ==
    ASSUME MarkersInv, NEW j \in Keys, farmers'[j] # NoRow, ~OddMarkers(j),
           \/ farmers[j] # NoRow
              /\ farmers'[j].verification_markers = farmers[j].verification_markers
           \/ farmers'[j].verification_markers = <<>>
    PROVE  Readable(farmers'[j])
BY DEF MarkersInv, Readable

\* Every step of the specification keeps it.
LEMMA MarkersStep == IInv /\ MarkersInv /\ [Next]_vars => MarkersInv'
<1> SUFFICES ASSUME IInv, MarkersInv, [Next]_vars,
                    NEW j \in Keys, farmers'[j] # NoRow, ~OddMarkers(j)'
             PROVE  Readable(farmers'[j])
  BY DEF MarkersInv, Readable
<1>1. feed \in Seq(Event) /\ farmers \in [Keys -> Row \cup {NoRow}]
  BY DEF IInv, TypeOK
<1>2. CASE UNCHANGED <<farmers, feed>>
  BY <1>2 DEF MarkersInv, OddMarkers, Readable
<1>3. ASSUME NEW b \in Emits, Emit(b)
      PROVE  Readable(farmers'[j])
  <2>1. farmers' = farmers
    BY <1>3 DEF Emit, tables
  <2>2. \A i \in DOMAIN feed : i \in DOMAIN feed' /\ feed'[i] = feed[i]
    BY <1>1, <1>3 DEF Emit
  <2>3. ~OddMarkers(j)
    BY <2>2 DEF OddMarkers
  <2> QED  BY <2>1, <2>3 DEF MarkersInv, Readable
<1>4. CASE ApplyNext
  <2> DEFINE e == feed[next]
             k == e.body.key
  <2>1. next \in 1..Len(feed) /\ Len(feed) \in Nat
    BY <1>4, FarmersBoundsAssumption DEF ApplyNext, IInv, TypeOK, FarmersBoundsAssumption
  <2>2. e \in Event /\ e.contract_id = IdentityContract /\ next \in DOMAIN feed
    BY <1>1, <2>1 DEF IInv, FeedInv
  <2>3. k \in Keys
    BY <2>2, EventFields
  <2>4. farmers' = [farmers EXCEPT ![k] = ProjectFarmer(farmers[k], e)] /\ feed' = feed
    BY <1>4 DEF ApplyNext
  <2>5. ~OddMarkers(j)
    BY <2>4 DEF OddMarkers
  <2>6. CASE j = k
    <3>1. e.body.shape # "odd"
      BY <2>2, <2>5, <2>6 DEF OddMarkers
    <3>2. farmers[k] \in Row \cup {NoRow} /\ (farmers[k] # NoRow => Readable(farmers[k]))
      BY <1>1, <2>3, <2>5, <2>6 DEF MarkersInv
    <3> HIDE DEF e, k
    <3>3. farmers'[j] = ProjectFarmer(farmers[k], e)
      BY <1>1, <2>3, <2>4, <2>6
    <3> QED  BY <2>2, <3>1, <3>2, <3>3, ProjectFarmerReadable
  <2>7. CASE j # k
    BY <1>1, <2>3, <2>4, <2>5, <2>7, MarkersKept
  <2> QED  BY <2>6, <2>7
<1>5. ASSUME NEW h \in Handlers, NEW new, feed' = feed, req[h].id \in Keys,
             farmers' = [farmers EXCEPT ![req[h].id] = new],
             new # NoRow =>
                \/ /\ farmers[req[h].id] # NoRow
                   /\ new.verification_markers = farmers[req[h].id].verification_markers
                \/ new.verification_markers = <<>>
      PROVE  Readable(farmers'[j])
  <2>1. ~OddMarkers(j)
    BY <1>5 DEF OddMarkers
  <2>2. CASE j = req[h].id
    <3>1. farmers'[j] = new
      BY <1>1, <1>5, <2>2
    <3> QED  BY <1>5, <2>1, <2>2, <3>1, MarkersKept
  <2>3. CASE j # req[h].id
    <3>1. farmers'[j] = farmers[j]
      BY <1>1, <1>5, <2>3
    <3> QED  BY <2>1, <3>1, MarkersKept
  <2> QED  BY <2>2, <2>3
<1>6. ASSUME NEW h \in Handlers
      PROVE  NewRow(req[h], ledger[h]).verification_markers = <<>>
  BY DEF NewRow
<1>7. ASSUME NEW h \in Handlers, req[h].id \in Keys,
             UpdatedRow(farmers[req[h].id], req[h], ledger[h]) # NoRow
      PROVE  /\ farmers[req[h].id] # NoRow
             /\ UpdatedRow(farmers[req[h].id], req[h], ledger[h]).verification_markers
                  = farmers[req[h].id].verification_markers
  <2>1. farmers[req[h].id] \in Row
    BY <1>1, <1>7 DEF UpdatedRow
  <2> QED  BY <1>7, <2>1 DEF UpdatedRow, Row
<1>8. ASSUME NEW h \in Handlers, Handle(h) \/ Interrupt(h)
      PROVE  Readable(farmers'[j])
  <2>1. pc[h] # "idle"
    BY <1>8 DEF Handle, ChainRegister, InsertFarmer, ChainUpdate, UpdateFarmer,
                ReadFarmer, Interrupt
  <2>2. req[h].id \in Keys
    BY <2>1, WorkerFacts
  <2>3. /\ feed' = feed
        /\ \/ farmers' = farmers
           \/ farmers' = [farmers EXCEPT ![req[h].id] = NewRow(req[h], ledger[h])]
           \/ farmers' = [farmers EXCEPT ![req[h].id] =
                  UpdatedRow(farmers[req[h].id], req[h], ledger[h])]
    BY <1>8 DEF Handle, ChainRegister, InsertFarmer, ChainUpdate, UpdateFarmer,
                ReadFarmer, Interrupt, feedVars, tables
  <2>4. CASE farmers' = [farmers EXCEPT ![req[h].id] = NewRow(req[h], ledger[h])]
    BY <1>5, <1>6, <2>2, <2>3, <2>4
  <2>5. CASE farmers' = [farmers EXCEPT ![req[h].id] =
                 UpdatedRow(farmers[req[h].id], req[h], ledger[h])]
    BY <1>5, <1>7, <2>2, <2>3, <2>5
  <2> QED  BY <1>2, <2>3, <2>4, <2>5
<1>9. CASE NextPass \/ Restart \/ UNCHANGED vars
  BY <1>2, <1>9 DEF NextPass, Restart, vars, tables, feedVars
<1>10. ASSUME NEW h \in Handlers, NEW q \in Requests, Receive(h, q)
       PROVE  Readable(farmers'[j])
  BY <1>2, <1>10 DEF Receive, tables, feedVars
<1> QED
  BY <1>3, <1>4, <1>8, <1>9, <1>10 DEF Next, Project

\* It holds throughout.
LEMMA MarkersAlways == Spec => []MarkersInv
<1>1. Init => MarkersInv
  BY DEF Init, NoFarmers, MarkersInv
<1> QED  BY <1>1, IInvAlways, MarkersStep, PTL DEF Spec

\* With it a farmer answered 201 is readable.
LEMMA ReadableUnlessOdd == IInv /\ MarkersInv => CreatedReadable
BY DEF IInv, TypeOK, CreatedProfile, MarkersInv, Readable, CreatedReadable, Decodable

\* A farmer answered 201 stays readable: the upserts and the markers of the
\* projection, updates, failures and restarts leave the row a profile and
\* markers get_farmer can decode, unless the contract emits one it cannot.
THEOREM CreatedReadableHolds == Spec => []CreatedReadable
BY ReadableUnlessOdd, IInvAlways, MarkersAlways, PTL

-----------------------------------------------------------------------------
\* When nobody works on an undisturbed farmer that was answered 201, the table
\* shows the profile the chain accepted last.
THEOREM LatestStoredHolds == Spec => []LatestStored
<1>1. IInv => LatestStored
  BY DEF IInv, LatestStored, FollowsInv, FollowsOK
<1> QED  BY <1>1, IInvAlways, PTL

\* The step in which a handler answers is one of its own.
LEMMA AnsweringStep ==
    ASSUME IInv, [Next]_vars, NEW h \in Handlers, Answering(h)
    PROVE  Handle(h) \/ Interrupt(h)
<1>1. pc[h] # "idle" /\ pc'[h] = "idle" /\ answer'.status # 0
  BY DEF Answering
<1>2. pc' # pc
  BY <1>1
<1>3. answer' # NoAnswer
  BY <1>1 DEF NoAnswer
<1>4. ASSUME NEW b \in Emits, Emit(b)
      PROVE  FALSE
  BY <1>2, <1>4 DEF Emit, handlerVars
<1>5. ~ApplyNext /\ ~NextPass /\ ~UNCHANGED vars
  BY <1>2 DEF ApplyNext, NextPass, handlerVars, vars
<1>6. ~Restart
  BY <1>3 DEF Restart
<1>7. ASSUME NEW g \in Handlers, NEW r \in Requests, Receive(g, r)
      PROVE  FALSE
  BY <1>2, <1>3, <1>7 DEF Receive
<1>8. ASSUME NEW g \in Handlers, g # h
      PROVE  ~Handle(g) /\ ~Interrupt(g)
  <2>1. \A s \in Stages : pc' # [pc EXCEPT ![g] = s]
    BY <1>1, <1>8 DEF IInv, TypeOK
  <2>2. {"idle", "insert", "update", "read"} \subseteq Stages
    BY DEF Stages
  <2>3. \A s, m, b : ~Return(g, s, m, b)
    BY <2>1, <2>2 DEF Return
  <2>4. ~Goto(g, "insert") /\ ~Goto(g, "update") /\ ~Goto(g, "read")
    BY <2>1, <2>2 DEF Goto
  <2>5. ~ChainRegister(g) /\ ~InsertFarmer(g) /\ ~ChainUpdate(g)
    BY <2>3, <2>4 DEF ChainRegister, InsertFarmer, ChainUpdate
  <2>6. ~UpdateFarmer(g)
    BY <2>4 DEF UpdateFarmer
  <2>7. ~ReadFarmer(g)
    BY <2>3, Zenon DEF ReadFarmer
  <2>8. ~Interrupt(g)
    <3>1. Interrupt(g) => \E s \in {0, 500} : Return(g, s, EmptyObject, TRUE)
      BY DEF Interrupt
    <3> QED  BY <2>3, <3>1
  <2> QED  BY <2>5, <2>6, <2>7, <2>8 DEF Handle
<1> QED  BY <1>4, <1>5, <1>6, <1>7, <1>8 DEF Next, Project

\* The answers of the handlers.
LEMMA Answered ==
    ASSUME IInv, [Next]_vars, NEW h \in Handlers, Answering(h)
    PROVE  LET row == farmers[req[h].id]
           IN  \/ /\ pc[h] = "chain_register" /\ answer'.status = 409
               \/ /\ pc[h] = "insert" /\ row # NoRow /\ answer'.status = 500
               \/ /\ pc[h] = "insert" /\ row = NoRow /\ answer'.status = 201
               \/ /\ pc[h] = "chain_update" /\ answer'.status = 404
               \/ /\ pc[h] = "read" /\ row = NoRow /\ answer'.status = 404
               \/ /\ pc[h] = "read" /\ row # NoRow /\ Decodable(row)
                  /\ answer'.status = 200 /\ answer'.metadata = row.metadata
               \/ /\ pc[h] = "read" /\ row # NoRow /\ ~Decodable(row)
                  /\ answer'.status = 500
               \/ answer'.interrupted /\ answer'.status = 500
<1>1. pc'[h] = "idle" /\ answer'.status # 0
  BY DEF Answering
<1>2. Handle(h) \/ Interrupt(h)
  BY AnsweringStep
<1>3. \A s \in {"insert", "update", "read"} : ~Goto(h, s)
  BY <1>1 DEF Goto, IInv, TypeOK
<1>4. CASE ChainRegister(h)
  <2>1. pc[h] = "chain_register" /\ Return(h, 409, EmptyObject, FALSE)
    BY <1>3, <1>4 DEF ChainRegister
  <2> QED  BY <2>1 DEF Return
<1>5. CASE InsertFarmer(h)
  <2>1. CASE farmers[req[h].id] # NoRow
    <3>1. pc[h] = "insert" /\ Return(h, 500, EmptyObject, FALSE)
      BY <1>5, <2>1 DEF InsertFarmer
    <3> QED  BY <2>1, <3>1 DEF Return
  <2>2. CASE farmers[req[h].id] = NoRow
    <3>1. pc[h] = "insert" /\ Return(h, 201, req[h].metadata, FALSE)
      BY <1>5, <2>2 DEF InsertFarmer
    <3> QED  BY <2>2, <3>1 DEF Return
  <2> QED  BY <2>1, <2>2
<1>6. CASE ChainUpdate(h)
  <2>1. pc[h] = "chain_update" /\ Return(h, 404, EmptyObject, FALSE)
    BY <1>3, <1>6 DEF ChainUpdate
  <2> QED  BY <2>1 DEF Return
<1>7. CASE UpdateFarmer(h)
  BY <1>3, <1>7 DEF UpdateFarmer
<1>8. CASE ReadFarmer(h)
  <2> DEFINE row == farmers[req[h].id]
  <2>1. pc[h] = "read"
    BY <1>8 DEF ReadFarmer
  <2>2. CASE row = NoRow
    <3>1. Return(h, 404, EmptyObject, FALSE)
      BY <1>8, <2>2 DEF ReadFarmer
    <3> QED  BY <2>1, <2>2, <3>1 DEF Return
  <2>3. CASE row # NoRow /\ Decodable(row)
    <3>1. Return(h, 200, row.metadata, FALSE)
      BY <1>8, <2>3 DEF ReadFarmer
    <3> QED  BY <2>1, <2>3, <3>1 DEF Return
  <2>4. CASE row # NoRow /\ ~Decodable(row)
    <3>1. Return(h, 500, EmptyObject, FALSE)
      BY <1>8, <2>4 DEF ReadFarmer
    <3> QED  BY <2>1, <2>4, <3>1 DEF Return
  <2> QED  BY <2>2, <2>3, <2>4
<1>9. CASE Interrupt(h)
  <2>1. PICK s \in {0, 500} : Return(h, s, EmptyObject, TRUE)
    BY <1>9 DEF Interrupt
  <2>2. answer'.status = s /\ answer'.interrupted = TRUE
    BY <2>1 DEF Return
  <2> QED  BY <1>1, <2>2
<1> QED  BY <1>2, <1>4, <1>5, <1>6, <1>7, <1>8, <1>9 DEF Handle

\* An address is answered 201 at most once: the primary key of the table
\* outlives StubChain's memory.
THEOREM CreatedOnceHolds == Spec => CreatedOnce
<1>1. ASSUME IInv, [Next]_vars, NEW h \in Handlers, Answering(h), answer'.status = 201
      PROVE  req[h].id \notin created
  <2>1. farmers[req[h].id] = NoRow
    BY <1>1, Answered
  <2> QED  BY <1>1, <2>1 DEF IInv, CreatedProfile
<1>2. IInv /\ [Next]_vars =>
        [\A h \in Handlers :
           Answering(h) /\ answer'.status = 201 => req[h].id \notin created]_vars
  BY <1>1
<1> QED  BY <1>2, IInvAlways, PTL DEF Spec, CreatedOnce

\* An undisturbed update is answered with its own profile: the projection
\* between UPDATE and SELECT does not touch it.
THEOREM ReadYourUpdateHolds == Spec => ReadYourUpdate
<1>1. ASSUME IInv, [Next]_vars, NEW h \in Handlers, Answering(h),
             req[h].op = "update", answer'.status = 200, req[h].id \notin disturbed
      PROVE  answer'.metadata = req[h].metadata
  <2>1. pc[h] = "read" /\ answer'.metadata = farmers[req[h].id].metadata
    BY <1>1, Answered
  <2>2. AloneOK(h) /\ Writes(h)
    BY <1>1, <2>1 DEF IInv, AloneInv, Writes
  <2> QED  BY <1>1, <2>1, <2>2 DEF AloneOK
<1>2. IInv /\ [Next]_vars =>
        [\A h \in Handlers :
           /\ Answering(h) /\ req[h].op = "update" /\ answer'.status = 200
           /\ req[h].id \notin disturbed
           => answer'.metadata = req[h].metadata]_vars
  BY <1>1
<1> QED  BY <1>2, IInvAlways, PTL DEF Spec, ReadYourUpdate

\* Before a restart, a farmer answered 201 meets no 500 but that of a failed
\* statement and that of a marker that cannot be decoded.
THEOREM NoInternalErrorHolds == Spec => NoInternalError
<1>1. ASSUME IInv, MarkersInv, [Next]_vars, NEW h \in Handlers, Answering(h),
             ~answer'.interrupted, req[h].id \in created, restarts = 0,
             ~OddMarkers(req[h].id)
      PROVE  answer'.status # 500
  <2>1. pc[h] # "insert"
    BY <1>1 DEF IInv, OnceInv
  <2>2. farmers[req[h].id] # NoRow /\ Decodable(farmers[req[h].id])
    BY <1>1, ReadableUnlessOdd DEF CreatedReadable
  <2> QED  BY <1>1, <2>1, <2>2, Answered
<1>2. IInv /\ MarkersInv /\ [Next]_vars =>
        [\A h \in Handlers :
           /\ Answering(h) /\ ~answer'.interrupted
           /\ req[h].id \in created /\ restarts = 0 /\ ~OddMarkers(req[h].id)
           => answer'.status # 500]_vars
  BY <1>1
<1> QED  BY <1>2, IInvAlways, MarkersAlways, PTL DEF Spec, NoInternalError
=============================================================================
