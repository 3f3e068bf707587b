-------------------------------- MODULE Auth --------------------------------
(***************************************************************************)
(* Wallet sign-in (src/auth): challenges, their verification by concurrent *)
(* request handlers, sessions, and the AuthUser extractor of the protected *)
(* routes.                                                                 *)
(*                                                                         *)
(* Each SQL statement is atomic; verify is four steps (select the          *)
(* challenge, check it, mark it used, insert the session) between which    *)
(* other handlers run, time passes, a statement may fail, and the process  *)
(* may die.  The timestamp that is part of the signed text is chosen by    *)
(* the client and compared with nothing, so it is left out; hashing the    *)
(* bearer token is injective, so a session is named by its token.          *)
(***************************************************************************)
EXTENDS Integers, FiniteSets

CONSTANTS
    Handlers,       \* concurrent requests to /auth/verify
    Addresses,      \* Stellar addresses, well formed
    Malformed,      \* an address validate_address rejects
    Domains,        \* app domains the service is or was configured with
    Nonces,         \* random nonces, each issued at most once
    Tokens,         \* random bearer tokens, each issued at most once
    ChallengeTTL,   \* CHALLENGE_TTL_MINUTES
    SessionTTL,     \* session_ttl
    NoRow,          \* absence of a row
    NoReq,          \* a handler without a request
    MaxTime,        \* bound: the clock
    MaxFaults       \* bound: failed statements and crashes

ASSUME TTLAssumption == ChallengeTTL \in Nat /\ SessionTTL \in Nat
ASSUME AuthBoundsAssumption == MaxTime \in Nat /\ MaxFaults \in Nat
ASSUME MalformedAssumption == Malformed \notin Addresses

VARIABLES
    now,               \* Utc::now()
    domain,            \* AppState.domain
    auth_challenges,   \* table auth_challenges, by nonce
    auth_sessions,     \* table auth_sessions, by token
    signed,            \* what wallets have signed
    pc,                \* stage of each handler in verify
    req,               \* its VerifyRequest
    nonce_row,         \* its local nonce_row
    actors,            \* addresses protected handlers have acted for
    faults             \* number of faults so far

handlerVars == <<pc, req, nonce_row>>
tableVars == <<auth_challenges, auth_sessions>>
vars == <<now, domain, tableVars, signed, handlerVars, actors, faults>>

\* The text the wallet signs (sep40_message), with the key that signs it.
Message == [domain : Domains, address : Addresses, nonce : Nonces]
Signature == [by : Addresses, msg : Message]

VerifyRequest ==
    [address : Addresses \cup {Malformed}, domain : Domains, nonce : Nonces,
     signature : Signature]

ASSUME NoReqAssumption == NoReq \notin VerifyRequest

\* A request that passed validate_address.
ValidRequest == {r \in VerifyRequest : r.address \in Addresses}

ChallengeRow ==
    [domain : Domains, address : Addresses, expires_at : Int, used : BOOLEAN]

\* nonce and domain are history: the challenge that the session was created
\* for, and the domain the service was serving.
SessionRow ==
    [address : Addresses, expires_at : Int, nonce : Nonces, domain : Domains]

ASSUME NoRowAssumption == NoRow \notin ChallengeRow \cup SessionRow

TypeOK ==
    /\ now \in 0..MaxTime
    /\ domain \in Domains
    /\ auth_challenges \in [Nonces -> ChallengeRow \cup {NoRow}]
    /\ auth_sessions \in [Tokens -> SessionRow \cup {NoRow}]
    /\ signed \subseteq Signature
    /\ pc \in [Handlers -> {"idle", "select", "check", "mark", "insert"}]
    /\ req \in [Handlers -> ValidRequest \cup {NoReq}]
    /\ nonce_row \in [Handlers -> ChallengeRow \cup {NoRow}]
    /\ actors \subseteq Addresses
    /\ faults \in 0..MaxFaults

Init ==
    /\ now = 0
    /\ domain \in Domains
    /\ auth_challenges = [n \in Nonces |-> NoRow]
    /\ auth_sessions = [t \in Tokens |-> NoRow]
    /\ signed = {}
    /\ pc = [h \in Handlers |-> "idle"]
    /\ req = [h \in Handlers |-> NoReq]
    /\ nonce_row = [h \in Handlers |-> NoRow]
    /\ actors = {}
    /\ faults = 0

-----------------------------------------------------------------------------
(* The environment.                                                        *)

Tick ==
    /\ now < MaxTime
    /\ now' = now + 1
    /\ UNCHANGED <<domain, tableVars, signed, handlerVars, actors, faults>>

\* A wallet signs, with its own key, the text of a challenge shown to it; the
\* text may name another address than the wallet's.
Sign(a, n) ==
    /\ auth_challenges[n] # NoRow
    /\ \E b \in Addresses :
         signed' = signed \cup
             {[by |-> a,
               msg |-> [domain |-> auth_challenges[n].domain,
                        address |-> b, nonce |-> n]]}
    /\ UNCHANGED <<now, domain, tableVars, handlerVars, actors, faults>>

-----------------------------------------------------------------------------
(* issue_challenge.  A malformed address (400) or a failed INSERT (500)     *)
(* leaves nothing behind.                                                  *)

IssueChallenge(a, n) ==
    /\ auth_challenges[n] = NoRow
    /\ auth_challenges' = [auth_challenges EXCEPT ![n] =
           [domain |-> domain, address |-> a,
            expires_at |-> now + ChallengeTTL, used |-> FALSE]]
    /\ UNCHANGED <<now, domain, auth_sessions, signed, handlerVars, actors, faults>>

-----------------------------------------------------------------------------
(* verify.                                                                 *)

\* verify returns, with a session or an error: its locals are gone.
Respond(h) ==
    /\ pc' = [pc EXCEPT ![h] = "idle"]
    /\ req' = [req EXCEPT ![h] = NoReq]
    /\ nonce_row' = [nonce_row EXCEPT ![h] = NoRow]

\* Mutant of Receive: no validate_address.
Receive_NoValidation(h, r) ==
    /\ pc[h] = "idle"
    /\ r.signature \in signed
    /\ pc' = [pc EXCEPT ![h] = "select"]
    /\ req' = [req EXCEPT ![h] = r]
    /\ UNCHANGED <<nonce_row, now, domain, tableVars, signed, actors, faults>>

\* A request arrives, with a signature some wallet has made; an address that
\* validate_address rejects is answered at once (400).
Receive(h, r) ==
    /\ pc[h] = "idle"
    /\ r.signature \in signed
    /\ \/ /\ r.address = Malformed
          /\ Respond(h)
       \/ /\ r.address # Malformed
          /\ pc' = [pc EXCEPT ![h] = "select"]
          /\ req' = [req EXCEPT ![h] = r]
          /\ UNCHANGED nonce_row
    /\ UNCHANGED <<now, domain, tableVars, signed, actors, faults>>

\* The row matches all three columns of the WHERE clause.
Matches(row, r) ==
    /\ row # NoRow
    /\ row.address = r.address
    /\ row.domain = r.domain

\* SELECT ... FROM auth_challenges; no row is a conflict (409).
SelectChallenge(h) ==
    /\ pc[h] = "select"
    /\ LET row == auth_challenges[req[h].nonce]
       IN  \/ /\ ~Matches(row, req[h])
              /\ Respond(h)
           \/ /\ Matches(row, req[h])
              /\ nonce_row' = [nonce_row EXCEPT ![h] = row]
              /\ pc' = [pc EXCEPT ![h] = "check"]
              /\ UNCHANGED req
    /\ UNCHANGED <<now, domain, tableVars, signed, actors, faults>>

\* Mutant of VerifySignature: any key.
VerifySignature_AnyKey(r) ==
    r.signature.msg =
        [domain |-> r.domain, address |-> r.address, nonce |-> r.nonce]

\* verify_signature: the signature is the address's own, over this request.
VerifySignature(r) ==
    /\ r.signature.by = r.address
    /\ r.signature.msg =
         [domain |-> r.domain, address |-> r.address, nonce |-> r.nonce]

\* Mutant of Check: the domain served now is not compared.
Check_AnyDomain(h) ==
    /\ pc[h] = "check"
    /\ LET row == nonce_row[h]
           spent == row.used \/ row.expires_at =< now
       IN  \/ spent /\ Respond(h)
           \/ ~spent /\ ~VerifySignature(req[h]) /\ Respond(h)
           \/ /\ ~spent /\ VerifySignature(req[h])
              /\ pc' = [pc EXCEPT ![h] = "mark"]
              /\ UNCHANGED <<req, nonce_row>>
    /\ UNCHANGED <<now, domain, tableVars, signed, actors, faults>>

\* Mutant of Check: only the expiry is looked at.
Check_Used(h) ==
    /\ pc[h] = "check"
    /\ LET row == nonce_row[h]
           spent == row.expires_at =< now
       IN  \/ spent /\ Respond(h)
           \/ ~spent /\ row.domain # domain /\ Respond(h)
           \/ /\ ~spent /\ row.domain = domain
              /\ ~VerifySignature(req[h])
              /\ Respond(h)
           \/ /\ ~spent /\ row.domain = domain
              /\ VerifySignature(req[h])
              /\ pc' = [pc EXCEPT ![h] = "mark"]
              /\ UNCHANGED <<req, nonce_row>>
    /\ UNCHANGED <<now, domain, tableVars, signed, actors, faults>>

\* The checks between the SELECT and the UPDATE, on the row as selected: spent
\* (409), other domain (400), bad signature (401).
Check(h) ==
    /\ pc[h] = "check"
    /\ LET row == nonce_row[h]
           spent == row.used \/ row.expires_at =< now
       IN  \/ spent /\ Respond(h)
           \/ ~spent /\ row.domain # domain /\ Respond(h)
           \/ /\ ~spent /\ row.domain = domain
              /\ ~VerifySignature(req[h])
              /\ Respond(h)
           \/ /\ ~spent /\ row.domain = domain
              /\ VerifySignature(req[h])
              /\ pc' = [pc EXCEPT ![h] = "mark"]
              /\ UNCHANGED <<req, nonce_row>>
    /\ UNCHANGED <<now, domain, tableVars, signed, actors, faults>>

\* UPDATE auth_challenges SET used = TRUE WHERE nonce = $1: whether the row
\* was still unused is not asked.
MarkUsed(h) ==
    /\ pc[h] = "mark"
    /\ auth_challenges' = [auth_challenges EXCEPT ![req[h].nonce].used = TRUE]
    /\ pc' = [pc EXCEPT ![h] = "insert"]
    /\ UNCHANGED <<now, domain, auth_sessions, signed, req, nonce_row, actors, faults>>

\* INSERT INTO auth_sessions, with a new token.
InsertSession(h, t) ==
    /\ pc[h] = "insert"
    /\ auth_sessions[t] = NoRow
    /\ auth_sessions' = [auth_sessions EXCEPT ![t] =
           [address |-> req[h].address, expires_at |-> now + SessionTTL,
            nonce |-> req[h].nonce, domain |-> domain]]
    /\ Respond(h)
    /\ UNCHANGED <<now, domain, auth_challenges, signed, actors, faults>>

\* A statement fails: 500, whatever was written before stays.
DatabaseError(h) ==
    /\ faults < MaxFaults
    /\ pc[h] \in {"select", "mark", "insert"}
    /\ Respond(h)
    /\ faults' = faults + 1
    /\ UNCHANGED <<now, domain, tableVars, signed, actors>>

\* The process dies and is started again, perhaps with another domain.
Restart ==
    /\ faults < MaxFaults
    /\ domain' \in Domains
    /\ pc' = [h \in Handlers |-> "idle"]
    /\ req' = [h \in Handlers |-> NoReq]
    /\ nonce_row' = [h \in Handlers |-> NoRow]
    /\ faults' = faults + 1
    /\ UNCHANGED <<now, tableVars, signed, actors>>

-----------------------------------------------------------------------------
(* session_by_token, as the AuthUser extractor uses it.                    *)

SessionValid(t) ==
    /\ auth_sessions[t] # NoRow
    /\ ~(auth_sessions[t].expires_at =< now)

\* Mutant of Authenticate: the handler runs for the address its request names.
Authenticate_Claimed(t) ==
    /\ SessionValid(t)
    /\ \E a \in Addresses : actors' = actors \cup {a}
    /\ UNCHANGED <<now, domain, tableVars, signed, handlerVars, faults>>

\* A protected handler runs for the address of a valid session.
Authenticate(t) ==
    /\ SessionValid(t)
    /\ actors' = actors \cup {auth_sessions[t].address}
    /\ UNCHANGED <<now, domain, tableVars, signed, handlerVars, faults>>

-----------------------------------------------------------------------------

Verify(h) ==
    \/ SelectChallenge(h)
    \/ Check(h)
    \/ MarkUsed(h)
    \/ \E t \in Tokens : InsertSession(h, t)

Next ==
    \/ Tick
    \/ \E a \in Addresses, n \in Nonces : IssueChallenge(a, n) \/ Sign(a, n)
    \/ \E h \in Handlers, r \in VerifyRequest : Receive(h, r)
    \/ \E h \in Handlers : Verify(h) \/ DatabaseError(h)
    \/ Restart
    \/ \E t \in Tokens : Authenticate(t)

Spec == Init /\ [][Next]_vars

-----------------------------------------------------------------------------
(* Properties.                                                             *)

\* s was created for a challenge issued to its own address under the domain
\* then served, signed by that address, and spent.
Backed(s) ==
    LET row == auth_challenges[s.nonce]
    IN  /\ row # NoRow
        /\ row.used
        /\ row.address = s.address
        /\ row.domain = s.domain
        /\ \E x \in signed :
             /\ x.by = s.address
             /\ x.msg = [domain |-> s.domain, address |-> s.address, nonce |-> s.nonce]

\* Every session is backed, although the row is checked on a snapshot and
\* written by nonce alone, and the process may be restarted under another
\* domain between the challenge and the verification.
SessionBacked ==
    \A t \in Tokens : auth_sessions[t] # NoRow => Backed(auth_sessions[t])

\* A challenge is spent only after the wallet it was issued to has signed a
\* text with its nonce: a request that shows no such signature burns nothing.
SpentBySigner ==
    \A n \in Nonces :
        LET row == auth_challenges[n]
        IN  row # NoRow /\ row.used =>
                \E x \in signed : x.by = row.address /\ x.msg.nonce = n

\* Protected handlers act only for addresses that have signed a challenge
\* issued to them.
ActorsSigned ==
    \A a \in actors : \E x \in signed :
        /\ x.by = a
        /\ auth_challenges[x.msg.nonce] # NoRow
        /\ auth_challenges[x.msg.nonce].address = a

\* The verifications that may still create a session for n: those past the
\* checks, and those about to make them on a row selected while it was unused.
Contenders(n) ==
    {h \in Handlers :
        /\ req[h] # NoReq /\ req[h].nonce = n
        /\ \/ pc[h] \in {"mark", "insert"}
           \/ pc[h] = "check" /\ ~nonce_row[h].used}

\* Once a challenge is spent nobody joins those who may create a session for
\* it: only verifications that selected it before it was marked are left.
SpentAdmitsNobody ==
    [][\A n \in Nonces :
         (auth_challenges[n] # NoRow /\ auth_challenges[n].used)
             => Contenders(n)' \subseteq Contenders(n)]_vars

\* A challenge is single-use: it yields at most one session.
SingleUse ==
    \A t, u \in Tokens :
        (/\ auth_sessions[t] # NoRow
         /\ auth_sessions[u] # NoRow
         /\ auth_sessions[t].nonce = auth_sessions[u].nonce) => t = u
=============================================================================
