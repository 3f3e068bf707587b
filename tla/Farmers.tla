------------------------------ MODULE Farmers ------------------------------
(***************************************************************************)
(* The farmers API (src/farmers/service.rs, src/routes/farmers.rs) over    *)
(* the identity chain and the farmers table, next to the projection passes *)
(* of the indexer, whose identity builders write the same table.           *)
(*                                                                         *)
(* Keys are the farmers' addresses.  The chain the API calls is StubChain  *)
(* (src/farmers/chain.rs), the only implementation build_chain knows: a    *)
(* map in the memory of the process.  The events the indexer projects come *)
(* from the deployed identity contract, which knows nothing of StubChain.  *)
(* Every call to the chain and every SQL statement is one atomic step;     *)
(* handlers run concurrently, and the process may be restarted.            *)
(***************************************************************************)
EXTENDS Projections, FiniteSets

CONSTANTS
    Handlers,       \* request handlers
    Wallets,        \* addresses that may have signed in, Keys among them
    Metadata,       \* profiles a client may send
    Blank,          \* those of Metadata whose name is blank
    EmptyObject,    \* '{}', the profile of a row made by the projection
    Malformed,      \* an identifier that is no Stellar address
    Anonymous,      \* no valid bearer token
    IdentityContract,
    Emits,          \* the bodies of the events of IdentityContract
    StubLedger,     \* 100_000, where the ledgers of StubChain start
    MaxFeed,        \* bound: identity events
    MaxFaults,      \* bound: interrupted handlers
    MaxRestarts     \* bound: restarts

ASSUME ProfilesAssumption ==
    Blank \subseteq Metadata /\ EmptyObject \notin Metadata
ASSUME CallersAssumption ==
    /\ Keys \subseteq Wallets
    /\ Malformed \notin Wallets /\ Anonymous \notin Wallets \cup {Malformed}
ASSUME IdentityAssumption ==
    IdentityContract \in Contracts /\ ContractName[IdentityContract] = "identity"
ASSUME FarmersEmitsAssumption == Emits \subseteq Body
ASSUME FarmersBoundsAssumption ==
    /\ StubLedger \in Nat /\ MaxFeed \in Nat
    /\ MaxFaults \in Nat /\ MaxRestarts \in Nat

VARIABLES
    store,      \* StubChain.inner
    farmers,    \* table farmers
    feed,       \* final identity events, in order
    next,       \* the event the projection pass applies next
    pc,         \* where each handler is
    req,        \* its request
    ledger,     \* local: chain_farmer.updated_ledger
    answer,     \* the answer given in this step, NoAnswer if none is
    accepted,   \* history: [key, metadata] the chain accepted, with the actor
    created,    \* history: addresses that were answered 201
    latest,     \* history: profile the chain accepted last, per address
    disturbed,  \* history: addresses with overlapping requests, a failure, a restart
    cut,        \* history: addresses whose INSERT was cut since the last restart
    faults,     \* number of interrupted handlers
    restarts    \* number of restarts

tables == <<farmers, store>>
feedVars == <<feed, next>>
handlerVars == <<pc, req, ledger>>
history == <<accepted, created, latest, disturbed, cut>>
vars == <<tables, feedVars, handlerVars, answer, history, faults, restarts>>

-----------------------------------------------------------------------------
(* Profiles, requests and rows.                                            *)

\* metadata_hash: SHA-256 of the canonical JSON, ideal (no collisions).  The
\* column is '' in a row made by the projection.
MetadataHash(m) == <<m>>
EmptyHash == <<>>
Hashes == {MetadataHash(m) : m \in Metadata} \cup {EmptyHash}

Profiles == Metadata \cup {EmptyObject}

Operations == {"register", "update", "get"}

\* hash is the optional metadataHash of a registration, EmptyHash stands for
\* every wrong one; get_farmer needs no caller and has no body.
Requests ==
    {r \in [op : {"register"}, id : Keys \cup {Malformed},
            actor : Wallets \cup {Anonymous}, metadata : Metadata,
            hash : Hashes \cup {NULL}] :
        r.hash \in {NULL, EmptyHash, MetadataHash(r.metadata)}}
    \cup
    [op : {"update"}, id : Keys \cup {Malformed},
     actor : Wallets \cup {Anonymous}, metadata : Metadata, hash : {NULL}]
    \cup
    [op : {"get"}, id : Keys \cup {Malformed},
     actor : {Anonymous}, metadata : {EmptyObject}, hash : {NULL}]

\* The request of an idle handler.
NoRequest == [op |-> "get", id |-> Malformed, actor |-> Anonymous,
              metadata |-> EmptyObject, hash |-> NULL]

\* A row: the columns of the identity projection and the profile.
Row ==
    [registered : BOOLEAN, created_ledger : Int, updated_ledger : Int,
     verification_markers : Seq(Marker),
     metadata : Profiles, metadata_hash : Hashes]

ChainFarmer == [created_ledger : Int, updated_ledger : Int]

ASSUME NoFarmerAssumption == NoRow \notin Row \cup ChainFarmer

Statuses == {200, 201, 400, 401, 404, 409, 500}

\* An answer: its status (0 for none), the profile of a 200 or 201, and
\* whether a failure was injected.
Answers ==
    [op : Operations, status : Statuses \cup {0}, metadata : Profiles,
     interrupted : BOOLEAN]

NoAnswer == [op |-> "get", status |-> 0, metadata |-> EmptyObject,
             interrupted |-> FALSE]

Stages == {"idle", "chain_register", "insert", "chain_update", "update", "read"}

TypeOK ==
    /\ store \in [Keys -> ChainFarmer \cup {NoRow}]
    /\ farmers \in [Keys -> Row \cup {NoRow}]
    /\ feed \in Seq(Event) /\ Len(feed) =< MaxFeed
    /\ next \in 1..MaxFeed + 1
    /\ pc \in [Handlers -> Stages]
    /\ req \in [Handlers -> Requests]
    /\ ledger \in [Handlers -> Int]
    /\ answer \in Answers
    /\ accepted \subseteq [key : Keys, actor : Wallets, metadata : Metadata]
    /\ created \subseteq Keys
    /\ latest \in [Keys -> Profiles]
    /\ disturbed \subseteq Keys
    /\ cut \subseteq Keys
    /\ faults \in 0..MaxFaults
    /\ restarts \in 0..MaxRestarts

NoFarmers == [k \in Keys |-> NoRow]

Init ==
    /\ store = NoFarmers
    /\ farmers = NoFarmers
    /\ feed = <<>>
    /\ next = 1
    /\ pc = [h \in Handlers |-> "idle"]
    /\ req = [h \in Handlers |-> NoRequest]
    /\ ledger = [h \in Handlers |-> 0]
    /\ answer = NoAnswer
    /\ accepted = {}
    /\ created = {}
    /\ latest = [k \in Keys |-> EmptyObject]
    /\ disturbed = {}
    /\ cut = {}
    /\ faults = 0
    /\ restarts = 0

-----------------------------------------------------------------------------
(* Identity events and the projection pass.                                *)

\* The contract emits another event: a registration first, once.
Emit(b) ==
    /\ Len(feed) < MaxFeed
    /\ (b.event_name = "FarmerRegistered") <=>
          (\A i \in DOMAIN feed : feed[i].body.key # b.key)
    /\ feed' = Append(feed,
           [contract_id |-> IdentityContract,
            at |-> [ledger_sequence |-> Len(feed) + 1,
                    operation_index |-> 0, event_index |-> 0],
            body |-> b])
    /\ answer' = NoAnswer
    /\ UNCHANGED <<tables, next, handlerVars, history, faults, restarts>>

\* The columns the identity projection maintains.
OnChain(row) ==
    IF row = NoRow THEN NoRow
    ELSE [registered |-> row.registered, created_ledger |-> row.created_ledger,
          updated_ledger |-> row.updated_ledger,
          verification_markers |-> row.verification_markers]

\* The profile columns after a builder: '{}' and '' in a new row, otherwise
\* not in the SET list.
Profile(row) ==
    IF row = NoRow
    THEN [metadata |-> EmptyObject, metadata_hash |-> EmptyHash]
    ELSE [metadata |-> row.metadata, metadata_hash |-> row.metadata_hash]

\* apply_event on the farmers table.
ProjectFarmer(row, e) ==
    LET k == e.body.key
        before == [EmptyTables EXCEPT !.identity = [@ EXCEPT ![k] = OnChain(row)]]
        after == ApplyEvent(before, e).identity[k]
    IN  IF after = NoRow THEN NoRow
        ELSE [registered |-> after.registered,
              created_ledger |-> after.created_ledger,
              updated_ledger |-> after.updated_ledger,
              verification_markers |-> after.verification_markers,
              metadata |-> Profile(row).metadata,
              metadata_hash |-> Profile(row).metadata_hash]

\* One iteration of the loop of ingest, if apply_event returns Ok.
ApplyNext ==
    /\ next =< Len(feed)
    /\ Applicable(EmptyTables, feed[next])
    /\ LET e == feed[next]
       IN  farmers' = [farmers EXCEPT ![e.body.key] = ProjectFarmer(@, e)]
    /\ next' = next + 1
    /\ answer' = NoAnswer
    /\ UNCHANGED <<store, feed, handlerVars, history, faults, restarts>>

\* A pass ends or is aborted, and the next one begins with the first event.
NextPass ==
    /\ next > 1
    /\ next' = 1
    /\ answer' = NoAnswer
    /\ UNCHANGED <<tables, feed, handlerVars, history, faults, restarts>>

-----------------------------------------------------------------------------
(* The handlers.                                                           *)

\* The handler answers and is gone.
Return(h, status, metadata, interrupted) ==
    /\ pc' = [pc EXCEPT ![h] = "idle"]
    /\ answer' = [op |-> req[h].op, status |-> status, metadata |-> metadata,
                  interrupted |-> interrupted]
    /\ req' = [req EXCEPT ![h] = NoRequest]
    /\ ledger' = [ledger EXCEPT ![h] = 0]

Goto(h, stage) ==
    /\ pc' = [pc EXCEPT ![h] = stage]
    /\ answer' = NoAnswer
    /\ UNCHANGED req

\* Mutant of Refusal: the caller is not compared with the address.
Refusal_AnyActor(r) ==
    IF r.op # "get" /\ r.actor = Anonymous THEN 401
    ELSE IF r.id = Malformed THEN 400
    ELSE IF r.op = "get" THEN 0
    ELSE IF r.metadata \in Blank THEN 400
    ELSE IF r.hash \notin {NULL, MetadataHash(r.metadata)} THEN 400
    ELSE 0

\* The early returns before the first await, in order: the AuthUser extractor,
\* the identifier, the owner, the name, the hash; 0 if there is none.
Refusal(r) ==
    IF r.op # "get" /\ r.actor = Anonymous THEN 401
    ELSE IF r.id = Malformed THEN 400
    ELSE IF r.op = "get" THEN 0
    ELSE IF r.actor # r.id THEN 401
    ELSE IF r.metadata \in Blank THEN 400
    ELSE IF r.hash \notin {NULL, MetadataHash(r.metadata)} THEN 400
    ELSE 0

FirstStage == [register |-> "chain_register", update |-> "chain_update", get |-> "read"]

\* Another handler is writing the same farmer.
Overlaps(h, r) ==
    \E g \in Handlers \ {h} :
        pc[g] # "idle" /\ req[g].id = r.id /\ {r.op, req[g].op} \subseteq {"register", "update"}

\* A request arrives; it is refused at once or goes on to its first await.
Receive(h, r) ==
    /\ pc[h] = "idle"
    /\ \/ /\ Refusal(r) # 0
          /\ answer' = [op |-> r.op, status |-> Refusal(r),
                        metadata |-> EmptyObject, interrupted |-> FALSE]
          /\ UNCHANGED <<pc, req, disturbed>>
       \/ /\ Refusal(r) = 0
          /\ disturbed' = disturbed \cup {k \in {r.id} : Overlaps(h, r)}
          /\ req' = [req EXCEPT ![h] = r]
          /\ pc' = [pc EXCEPT ![h] = FirstStage[r.op]]
          /\ answer' = NoAnswer
    /\ UNCHANGED <<tables, feedVars, ledger, accepted, created, latest, cut, faults, restarts>>

Registered == {k \in Keys : store[k] # NoRow}

\* What the chain accepted, for the history.
Accept(k, r) ==
    /\ accepted' = accepted \cup {[key |-> k, actor |-> r.actor, metadata |-> r.metadata]}
    /\ latest' = [latest EXCEPT ![k] = r.metadata]

\* Mutant of ChainRegister: no check for AlreadyRegistered.
ChainRegister_Again(h) ==
    LET r == req[h]
        now == StubLedger + Cardinality(Registered)
    IN  /\ pc[h] = "chain_register"
        /\ store' = [store EXCEPT ![r.id] =
               [created_ledger |-> now, updated_ledger |-> now]]
        /\ Accept(r.id, r)
        /\ ledger' = [ledger EXCEPT ![h] = now]
        /\ Goto(h, "insert")
        /\ UNCHANGED <<farmers, feedVars, created, disturbed, cut, faults, restarts>>

\* Mutant of ChainRegister: on to the answer without the INSERT.
ChainRegister_NoInsert(h) ==
    LET r == req[h]
        now == StubLedger + Cardinality(Registered)
    IN  /\ pc[h] = "chain_register"
        /\ \/ /\ r.id \in Registered
              /\ Return(h, 409, EmptyObject, FALSE)
              /\ UNCHANGED <<store, accepted, latest>>
           \/ /\ r.id \notin Registered
              /\ store' = [store EXCEPT ![r.id] =
                     [created_ledger |-> now, updated_ledger |-> now]]
              /\ Accept(r.id, r)
              /\ ledger' = [ledger EXCEPT ![h] = now]
              /\ Goto(h, "read")
        /\ UNCHANGED <<farmers, feedVars, created, disturbed, cut, faults, restarts>>

\* chain.register_farmer; AlreadyRegistered is answered 409.
ChainRegister(h) ==
    LET r == req[h]
        now == StubLedger + Cardinality(Registered)
    IN  /\ pc[h] = "chain_register"
        /\ \/ /\ r.id \in Registered
              /\ Return(h, 409, EmptyObject, FALSE)
              /\ UNCHANGED <<store, accepted, latest>>
           \/ /\ r.id \notin Registered
              /\ store' = [store EXCEPT ![r.id] =
                     [created_ledger |-> now, updated_ledger |-> now]]
              /\ Accept(r.id, r)
              /\ ledger' = [ledger EXCEPT ![h] = now]
              /\ Goto(h, "insert")
        /\ UNCHANGED <<farmers, feedVars, created, disturbed, cut, faults, restarts>>

\* Mutant of NewRow: the client's metadataHash is stored.
NewRow_ProvidedHash(r, l) ==
    [registered |-> TRUE, created_ledger |-> l, updated_ledger |-> l,
     verification_markers |-> <<>>,
     metadata |-> r.metadata, metadata_hash |-> r.hash]

\* The row of a registration.
NewRow(r, l) ==
    [registered |-> TRUE, created_ledger |-> l, updated_ledger |-> l,
     verification_markers |-> <<>>,
     metadata |-> r.metadata, metadata_hash |-> MetadataHash(r.metadata)]

\* Mutant of InsertFarmer: the INSERT overwrites an existing row.
InsertFarmer_Upsert(h) ==
    LET r == req[h]
    IN  /\ pc[h] = "insert"
        /\ farmers' = [farmers EXCEPT ![r.id] = NewRow(r, ledger[h])]
        /\ created' = created \cup {r.id}
        /\ Return(h, 201, r.metadata, FALSE)
        /\ UNCHANGED <<store, feedVars, accepted, latest, disturbed, cut, faults, restarts>>

\* INSERT INTO farmers; a violation of the primary key is a database error.
InsertFarmer(h) ==
    LET r == req[h]
    IN  /\ pc[h] = "insert"
        /\ \/ /\ farmers[r.id] # NoRow
              /\ Return(h, 500, EmptyObject, FALSE)
              /\ UNCHANGED <<farmers, created>>
           \/ /\ farmers[r.id] = NoRow
              /\ farmers' = [farmers EXCEPT ![r.id] = NewRow(r, ledger[h])]
              /\ created' = created \cup {r.id}
              /\ Return(h, 201, r.metadata, FALSE)
        /\ UNCHANGED <<store, feedVars, accepted, latest, disturbed, cut, faults, restarts>>

\* chain.update_metadata; NotFound is answered 404.
ChainUpdate(h) ==
    LET r == req[h]
        now == StubLedger + Cardinality(Registered)
    IN  /\ pc[h] = "chain_update"
        /\ \/ /\ r.id \notin Registered
              /\ Return(h, 404, EmptyObject, FALSE)
              /\ UNCHANGED <<store, accepted, latest>>
           \/ /\ r.id \in Registered
              /\ store' = [store EXCEPT ![r.id].updated_ledger = now]
              /\ Accept(r.id, r)
              /\ ledger' = [ledger EXCEPT ![h] = now]
              /\ Goto(h, "update")
        /\ UNCHANGED <<farmers, feedVars, created, disturbed, cut, faults, restarts>>

\* Mutant of UpdatedRow: AND updated_ledger < $4.
UpdatedRow_IfNewer(row, r, l) ==
    IF row = NoRow \/ (row # NoRow /\ row.updated_ledger >= l) THEN row
    ELSE [row EXCEPT !.metadata = r.metadata,
                     !.metadata_hash = MetadataHash(r.metadata),
                     !.updated_ledger = l]

\* The row after UPDATE farmers SET metadata, metadata_hash, updated_ledger.
UpdatedRow(row, r, l) ==
    IF row = NoRow THEN NoRow
    ELSE [row EXCEPT !.metadata = r.metadata,
                     !.metadata_hash = MetadataHash(r.metadata),
                     !.updated_ledger = l]

\* Mutant of UpdateFarmer: the row is read before it is written.
UpdateFarmer_ReadFirst(h) ==
    LET r == req[h]
    IN  /\ pc[h] = "update"
        /\ farmers' = [farmers EXCEPT ![r.id] = UpdatedRow(@, r, ledger[h])]
        /\ IF farmers[r.id] # NoRow /\ farmers[r.id].metadata # EmptyObject
           THEN Return(h, 200, farmers[r.id].metadata, FALSE)
           ELSE Return(h, 500, EmptyObject, TRUE)
        /\ UNCHANGED <<store, feedVars, history, faults, restarts>>

UpdateFarmer(h) ==
    LET r == req[h]
    IN  /\ pc[h] = "update"
        /\ farmers' = [farmers EXCEPT ![r.id] = UpdatedRow(@, r, ledger[h])]
        /\ Goto(h, "read")
        /\ UNCHANGED <<store, feedVars, ledger, history, faults, restarts>>

\* Whether serde can decode the profile, where name is a required field, and
\* then every marker.
Decodable(row) ==
    /\ row.metadata # EmptyObject
    /\ \A i \in DOMAIN row.verification_markers : row.verification_markers[i].readable

\* get_farmer, by itself and at the end of update_metadata.
ReadFarmer(h) ==
    LET row == farmers[req[h].id]
    IN  /\ pc[h] = "read"
        /\ \/ row = NoRow /\ Return(h, 404, EmptyObject, FALSE)
           \/ /\ row # NoRow
              /\ IF Decodable(row) THEN Return(h, 200, row.metadata, FALSE)
                                   ELSE Return(h, 500, EmptyObject, FALSE)
        /\ UNCHANGED <<tables, feedVars, history, faults, restarts>>

\* The statement of the handler fails, or the client goes away and the handler
\* is dropped at its await.  The statement may have been executed.
Interrupt(h) ==
    LET r == req[h]
    IN  /\ faults < MaxFaults
        /\ pc[h] \in {"insert", "update", "read"}
        /\ \/ UNCHANGED farmers
           \/ /\ pc[h] = "insert" /\ farmers[r.id] = NoRow
              /\ farmers' = [farmers EXCEPT ![r.id] = NewRow(r, ledger[h])]
           \/ /\ pc[h] = "update"
              /\ farmers' = [farmers EXCEPT ![r.id] = UpdatedRow(@, r, ledger[h])]
        /\ \E status \in {0, 500} : Return(h, status, EmptyObject, TRUE)
        /\ faults' = faults + 1
        /\ disturbed' = disturbed \cup {r.id}
        /\ cut' = IF pc[h] = "insert" THEN cut \cup {r.id} ELSE cut
        /\ UNCHANGED <<store, feedVars, accepted, created, latest, restarts>>

\* The process is restarted: the handlers and StubChain are gone.
Restart ==
    /\ restarts < MaxRestarts
    /\ store' = NoFarmers
    /\ latest' = [k \in Keys |-> EmptyObject]
    /\ pc' = [h \in Handlers |-> "idle"]
    /\ req' = [h \in Handlers |-> NoRequest]
    /\ ledger' = [h \in Handlers |-> 0]
    /\ answer' = NoAnswer
    /\ next' = 1
    /\ restarts' = restarts + 1
    /\ disturbed' = Keys
    /\ cut' = {}
    /\ UNCHANGED <<farmers, feed, accepted, created, faults>>

-----------------------------------------------------------------------------

Handle(h) ==
    \/ ChainRegister(h)
    \/ InsertFarmer(h)
    \/ ChainUpdate(h)
    \/ UpdateFarmer(h)
    \/ ReadFarmer(h)

Project == ApplyNext \/ NextPass

Next ==
    \/ \E b \in Emits : Emit(b)
    \/ Project
    \/ \E h \in Handlers :
         (\E r \in Requests : Receive(h, r)) \/ Handle(h) \/ Interrupt(h)
    \/ Restart

Spec == Init /\ [][Next]_vars

\* Each await of a handler completes or fails.
FairSpec == Spec /\ \A h \in Handlers : WF_vars(Handle(h))

\* Moreover a client whose registration did not come through sends it again.
RetrySpec ==
    /\ FairSpec
    /\ \A k \in Keys, h \in Handlers :
         SF_vars(\E m \in Metadata \ Blank :
                   Receive(h, [op |-> "register", id |-> k, actor |-> k,
                               metadata |-> m, hash |-> NULL]))

-----------------------------------------------------------------------------
(* Properties.                                                             *)

\* The profile in a row is one that the farmer itself sent and that the chain
\* accepted before, with the hash of that very profile, whatever the
\* projection, concurrent handlers, failures and restarts do in between.
OwnProfile ==
    \A k \in Keys :
        LET row == farmers[k]
        IN  row # NoRow /\ row.metadata # EmptyObject =>
                /\ [key |-> k, actor |-> k, metadata |-> row.metadata] \in accepted
                /\ row.metadata_hash = MetadataHash(row.metadata)

\* The contract has emitted something about k that is no list of markers.
OddMarkers(k) ==
    \E i \in DOMAIN feed : feed[i].body.key = k /\ feed[i].body.shape = "odd"

\* A farmer whose registration was answered 201 can be read (200) from then
\* on: no replay pass of the projection, no update, failure or restart takes
\* the row, its profile or the form of its markers away; unless the contract
\* emits a marker get_farmer cannot decode, which the projection stores
\* unseen.
CreatedReadable ==
    \A k \in created :
        farmers[k] # NoRow /\ (Decodable(farmers[k]) \/ OddMarkers(k))

\* The step in which handler h answers its request.
Answering(h) == pc[h] # "idle" /\ pc'[h] = "idle" /\ answer'.status # 0

\* An address is registered at most once: a registration is answered 201 for
\* an address only if none was before, although StubChain forgets at a restart.
CreatedOnce ==
    [][\A h \in Handlers :
         Answering(h) /\ answer'.status = 201 => req[h].id \notin created]_vars

\* An update that is answered 200 shows the profile it carried, although
\* the projection may write the row between UPDATE and SELECT; unless two
\* requests for the farmer overlap or one was cut short.
ReadYourUpdate ==
    [][\A h \in Handlers :
         /\ Answering(h) /\ req[h].op = "update" /\ answer'.status = 200
         /\ req[h].id \notin disturbed
         => answer'.metadata = req[h].metadata]_vars

\* Once its registration was answered 201 and nobody works on the farmer, the
\* table shows the profile the chain accepted last, however the projection
\* passes fall; unless requests for the farmer overlapped, one was cut short,
\* or the chain forgot.
LatestStored ==
    \A k \in (Registered \cap created) \ disturbed :
        (\A h \in Handlers : pc[h] = "idle" \/ req[h].id # k) =>
            farmers[k].metadata = latest[k]

\* As long as the process runs, no request about a farmer whose registration
\* was answered 201 is answered 500, unless a statement fails or the contract
\* has emitted a marker that cannot be decoded.  (The registration of a farmer
\* the projection met first, or StubChain forgot, is: the chain accepts it and
\* the INSERT runs into the primary key.)
NoInternalError ==
    [][\A h \in Handlers :
         /\ Answering(h) /\ ~answer'.interrupted
         /\ req[h].id \in created /\ restarts = 0 /\ ~OddMarkers(req[h].id)
         => answer'.status # 500]_vars

\* A registration the chain accepted is persisted as a row of the table
\* (README, "Data flow"), unless a restart makes the chain forget it.
RegistrationPersisted ==
    \A k \in Keys : store[k] # NoRow ~> (farmers[k] # NoRow \/ store[k] = NoRow)

\* A farmer the chain knows has a row, or a handler is about to insert it, or
\* that INSERT itself was cut: however many requests for the farmer overlap,
\* whatever the projection writes and whichever other handler fails, nothing
\* else separates the two effects of register_farmer.
RegisteredIsStored ==
    \A k \in Registered \ cut :
        \/ farmers[k] # NoRow
        \/ \E h \in Handlers : pc[h] = "insert" /\ req[h].id = k
=============================================================================
