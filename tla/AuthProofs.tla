----------------------------- MODULE AuthProofs -----------------------------
(***************************************************************************)
(* Proofs about Auth, for every set of handlers, wallets, domains, nonces  *)
(* and tokens, and every time to live.                                     *)
(*                                                                         *)
(* verify checks a snapshot of the challenge and then writes by nonce      *)
(* alone.  The argument is that what it checked cannot change: rows keep   *)
(* their address and domain, used is never cleared, and what was signed    *)
(* stays signed (Stable).  HandlerInv says what a handler has established  *)
(* at each stage; the sessions and the actors inherit it.                  *)
(***************************************************************************)
EXTENDS Auth, TLAPS

\* What a handler in verify has established so far.
HandlerOK(h) ==
    /\ pc[h] # "idle" =>
         /\ req[h] \in ValidRequest
         /\ req[h].signature \in signed
    /\ pc[h] \in {"check", "mark", "insert"} =>
         /\ Matches(auth_challenges[req[h].nonce], req[h])
         /\ nonce_row[h].domain = req[h].domain
    /\ pc[h] \in {"mark", "insert"} =>
         /\ req[h].domain = domain
         /\ VerifySignature(req[h])
    /\ pc[h] = "insert" => auth_challenges[req[h].nonce].used

HandlerInv == \A h \in Handlers : HandlerOK(h)

\* The inductive invariant.
IInv == TypeOK /\ HandlerInv /\ SessionBacked /\ SpentBySigner /\ ActorsSigned

\* What no step takes back: rows, their owner and domain, used, signatures.
Stable ==
    /\ \A n \in Nonces : auth_challenges[n] # NoRow =>
         /\ auth_challenges'[n] # NoRow
         /\ auth_challenges'[n].address = auth_challenges[n].address
         /\ auth_challenges'[n].domain = auth_challenges[n].domain
         /\ auth_challenges[n].used => auth_challenges'[n].used
    /\ signed \subseteq signed'

-----------------------------------------------------------------------------
(* Rows and signatures are stable.                                         *)

\* Marking a challenge used changes nothing else in its row.
LEMMA MarkUsedRow ==
    ASSUME NEW row \in ChallengeRow
    PROVE  LET r == [row EXCEPT !.used = TRUE]
           IN  /\ r \in ChallengeRow
               /\ r # NoRow
               /\ r.address = row.address
               /\ r.domain = row.domain
               /\ r.used
<1>1. [row EXCEPT !.used = TRUE] \in ChallengeRow
  BY DEF ChallengeRow
<1>2. [row EXCEPT !.used = TRUE] # NoRow
  BY <1>1, NoRowAssumption DEF NoRowAssumption
<1> QED  BY <1>1, <1>2 DEF ChallengeRow

\* The UPDATE of verify: the row of the request's nonce is used, and is
\* otherwise what it was; the other rows are untouched.
LEMMA MarkUsedEffect ==
    ASSUME TypeOK, HandlerInv, NEW h \in Handlers, MarkUsed(h)
    PROVE  LET n == req[h].nonce
               r == [auth_challenges[n] EXCEPT !.used = TRUE]
           IN  /\ n \in Nonces
               /\ auth_challenges[n] \in ChallengeRow
               /\ auth_challenges[n].address = req[h].address
               /\ auth_challenges' = [auth_challenges EXCEPT ![n] = r]
<1>1. /\ req[h] \in ValidRequest
      /\ Matches(auth_challenges[req[h].nonce], req[h])
  BY DEF HandlerInv, HandlerOK, MarkUsed
<1>2. req[h].nonce \in Nonces
  BY <1>1 DEF ValidRequest, VerifyRequest
<1>3. auth_challenges[req[h].nonce] \in ChallengeRow
  BY <1>1, <1>2 DEF TypeOK, Matches
<1> QED  BY <1>1, <1>2, <1>3 DEF MarkUsed, Matches

\* Every step is stable.
LEMMA StepStable ==
    ASSUME TypeOK, HandlerInv, [Next]_vars
    PROVE  Stable
<1>1. CASE /\ UNCHANGED auth_challenges
           /\ signed \subseteq signed'
  BY <1>1 DEF Stable
<1>2. ASSUME NEW a \in Addresses, NEW n \in Nonces, IssueChallenge(a, n)
      PROVE  Stable
  BY <1>2 DEF IssueChallenge, Stable, TypeOK
<1>3. ASSUME NEW h \in Handlers, MarkUsed(h)
      PROVE  Stable
  <2> DEFINE n == req[h].nonce
             r == [auth_challenges[n] EXCEPT !.used = TRUE]
  <2>1. /\ n \in Nonces
        /\ auth_challenges[n] \in ChallengeRow
        /\ auth_challenges' = [auth_challenges EXCEPT ![n] = r]
    BY <1>3, MarkUsedEffect
  <2>2. /\ r # NoRow
        /\ r.address = auth_challenges[n].address
        /\ r.domain = auth_challenges[n].domain
        /\ r.used
    BY <2>1, MarkUsedRow
  <2>3. auth_challenges \in [Nonces -> ChallengeRow \cup {NoRow}]
    BY DEF TypeOK
  <2>4. signed' = signed
    BY <1>3 DEF MarkUsed
  <2> HIDE DEF n, r
  <2> QED  BY <2>1, <2>2, <2>3, <2>4 DEF Stable
<1>4. CASE Tick
  BY <1>4, <1>1 DEF Tick, tableVars
<1>5. ASSUME NEW a \in Addresses, NEW n \in Nonces, Sign(a, n)
      PROVE  Stable
  BY <1>5, <1>1 DEF Sign, tableVars
<1>6. ASSUME NEW h \in Handlers, NEW q \in VerifyRequest, Receive(h, q)
      PROVE  Stable
  BY <1>6, <1>1 DEF Receive, tableVars
<1>7. ASSUME NEW h \in Handlers, SelectChallenge(h) \/ Check(h) \/ DatabaseError(h)
      PROVE  Stable
  BY <1>7, <1>1 DEF SelectChallenge, Check, DatabaseError, tableVars
<1>8. ASSUME NEW h \in Handlers, NEW t \in Tokens, InsertSession(h, t)
      PROVE  Stable
  BY <1>8, <1>1 DEF InsertSession
<1>9. CASE Restart
  BY <1>9, <1>1 DEF Restart, tableVars
<1>10. ASSUME NEW t \in Tokens, Authenticate(t)
       PROVE  Stable
  BY <1>10, <1>1 DEF Authenticate, tableVars
<1>11. CASE UNCHANGED vars
  BY <1>11, <1>1 DEF vars, tableVars
<1> QED
  BY <1>2, <1>3, <1>4, <1>5, <1>6, <1>7, <1>8, <1>9, <1>10, <1>11 DEF Next, Verify

-----------------------------------------------------------------------------
(* What follows from stability.                                            *)

\* A handler whose locals, and the domain, do not change keeps what it has
\* established.
LEMMA HandlerKept ==
    ASSUME Stable, NEW h \in Handlers, HandlerOK(h),
           pc'[h] = pc[h], req'[h] = req[h], nonce_row'[h] = nonce_row[h],
           pc[h] \in {"mark", "insert"} => domain' = domain
    PROVE  HandlerOK(h)'
<1>1. pc[h] # "idle" => req[h].nonce \in Nonces
  BY DEF HandlerOK, ValidRequest, VerifyRequest
<1>2. pc[h] \in {"check", "mark", "insert"} =>
        /\ Matches(auth_challenges[req[h].nonce], req[h])'
        /\ nonce_row'[h].domain = req'[h].domain
  BY <1>1 DEF HandlerOK, Stable, Matches
<1>3. pc[h] # "idle" =>
        /\ req'[h] \in ValidRequest
        /\ req'[h].signature \in signed'
  BY DEF HandlerOK, Stable
<1>4. pc[h] \in {"mark", "insert"} =>
        /\ req'[h].domain = domain'
        /\ VerifySignature(req[h])'
  BY DEF HandlerOK, VerifySignature
<1>5. pc[h] = "insert" => auth_challenges'[req'[h].nonce].used
  BY <1>1 DEF HandlerOK, Stable, Matches
<1> QED  BY <1>2, <1>3, <1>4, <1>5 DEF HandlerOK

\* An idle handler has established nothing.
LEMMA HandlerIdle ==
    ASSUME NEW h \in Handlers, pc'[h] = "idle"
    PROVE  HandlerOK(h)'
BY DEF HandlerOK

\* A backed session stays backed.
LEMMA BackedKept ==
    ASSUME Stable, NEW s \in SessionRow, Backed(s)
    PROVE  Backed(s)'
<1> DEFINE n == s.nonce
<1>1. n \in Nonces
  BY DEF SessionRow
<1>2. /\ auth_challenges'[n] # NoRow
      /\ auth_challenges'[n].used
      /\ auth_challenges'[n].address = s.address
      /\ auth_challenges'[n].domain = s.domain
  BY <1>1 DEF Stable, Backed
<1>3. \E x \in signed' :
        /\ x.by = s.address
        /\ x.msg = [domain |-> s.domain, address |-> s.address, nonce |-> s.nonce]
  BY DEF Stable, Backed
<1> QED  BY <1>2, <1>3 DEF Backed

\* If no session is created, every session stays backed.
LEMMA SessionsKept ==
    ASSUME Stable, TypeOK, SessionBacked, UNCHANGED auth_sessions
    PROVE  SessionBacked'
<1> SUFFICES ASSUME NEW t \in Tokens, auth_sessions[t] # NoRow
             PROVE  Backed(auth_sessions[t])'
  BY DEF SessionBacked
<1>1. auth_sessions[t] \in SessionRow /\ Backed(auth_sessions[t])
  BY DEF TypeOK, SessionBacked
<1>2. PICK s \in SessionRow : s = auth_sessions[t]
  BY <1>1
<1>3. Backed(s)'
  BY <1>1, <1>2, BackedKept
<1> QED  BY <1>2, <1>3 DEF Backed

\* If no challenge becomes used, spent challenges stay accounted for.
LEMMA SpentKept ==
    ASSUME Stable, SpentBySigner,
           \A n \in Nonces :
               auth_challenges'[n] # NoRow /\ auth_challenges'[n].used =>
                   auth_challenges[n] # NoRow /\ auth_challenges[n].used
    PROVE  SpentBySigner'
<1> SUFFICES ASSUME NEW n \in Nonces,
                    auth_challenges'[n] # NoRow, auth_challenges'[n].used
             PROVE  \E x \in signed' :
                      x.by = auth_challenges'[n].address /\ x.msg.nonce = n
  BY DEF SpentBySigner
<1>1. auth_challenges[n] # NoRow /\ auth_challenges[n].used
  OBVIOUS
<1>2. PICK x \in signed : x.by = auth_challenges[n].address /\ x.msg.nonce = n
  BY <1>1 DEF SpentBySigner
<1> QED  BY <1>1, <1>2 DEF Stable

\* If nobody new is acted for, actors stay accounted for.
LEMMA ActorsKept ==
    ASSUME Stable, TypeOK, ActorsSigned, UNCHANGED actors
    PROVE  ActorsSigned'
<1> SUFFICES ASSUME NEW a \in actors
             PROVE  \E x \in signed' :
                      /\ x.by = a
                      /\ auth_challenges'[x.msg.nonce] # NoRow
                      /\ auth_challenges'[x.msg.nonce].address = a
  BY DEF ActorsSigned
<1>1. PICK x \in signed :
        /\ x.by = a
        /\ auth_challenges[x.msg.nonce] # NoRow
        /\ auth_challenges[x.msg.nonce].address = a
  BY DEF ActorsSigned
<1>2. x.msg.nonce \in Nonces
  BY DEF TypeOK, Signature, Message
<1> QED  BY <1>1, <1>2 DEF Stable

-----------------------------------------------------------------------------
(* The steps.  First those that write no table: they disturb at most the   *)
(* handler that takes them.                                                *)

\* Responding makes one handler idle and leaves the others alone.
LEMMA RespondHandlers ==
    ASSUME Stable, TypeOK, HandlerInv, NEW h \in Handlers, Respond(h),
           UNCHANGED domain
    PROVE  /\ HandlerInv'
           /\ pc' \in [Handlers -> {"idle", "select", "check", "mark", "insert"}]
           /\ req' \in [Handlers -> ValidRequest \cup {NoReq}]
           /\ nonce_row' \in [Handlers -> ChallengeRow \cup {NoRow}]
<1>1. ASSUME NEW g \in Handlers
      PROVE  HandlerOK(g)'
  <2>1. CASE g = h
    <3>1. pc'[g] = "idle"
      BY <2>1 DEF Respond, TypeOK
    <3> QED  BY <3>1, HandlerIdle
  <2>2. CASE g # h
    <3>1. pc'[g] = pc[g] /\ req'[g] = req[g] /\ nonce_row'[g] = nonce_row[g]
      BY <2>2 DEF Respond, TypeOK
    <3>2. HandlerOK(g)
      BY DEF HandlerInv
    <3> QED  BY <3>1, <3>2, HandlerKept
  <2> QED  BY <2>1, <2>2
<1>2. /\ pc' \in [Handlers -> {"idle", "select", "check", "mark", "insert"}]
      /\ req' \in [Handlers -> ValidRequest \cup {NoReq}]
      /\ nonce_row' \in [Handlers -> ChallengeRow \cup {NoRow}]
  BY DEF Respond, TypeOK
<1> QED  BY <1>1, <1>2 DEF HandlerInv

\* One handler advances; if it keeps HandlerOK, so do all.
LEMMA OneHandler ==
    ASSUME Stable, HandlerInv, NEW h \in Handlers, HandlerOK(h)', UNCHANGED domain,
           \A g \in Handlers \ {h} :
               pc'[g] = pc[g] /\ req'[g] = req[g] /\ nonce_row'[g] = nonce_row[g]
    PROVE  HandlerInv'
<1>1. ASSUME NEW g \in Handlers, g # h
      PROVE  HandlerOK(g)'
  BY <1>1, HandlerKept DEF HandlerInv
<1> QED  BY <1>1 DEF HandlerInv

\* If handlers' locals and the domain are untouched, HandlerInv is kept.
LEMMA AllHandlers ==
    ASSUME Stable, HandlerInv, UNCHANGED <<handlerVars, domain>>
    PROVE  HandlerInv'
BY HandlerKept DEF HandlerInv, handlerVars

\* A request is received.
LEMMA ReceiveStep ==
    ASSUME Stable, IInv, NEW h \in Handlers, NEW q \in VerifyRequest, Receive(h, q)
    PROVE  TypeOK' /\ HandlerInv'
<1> USE DEF IInv
<1>1. UNCHANGED <<now, domain, auth_challenges, auth_sessions, signed, actors, faults>>
  BY DEF Receive, tableVars
<1>2. CASE Respond(h)
  BY <1>1, <1>2, RespondHandlers DEF TypeOK
<1>3. CASE /\ q.address # Malformed
           /\ pc' = [pc EXCEPT ![h] = "select"]
           /\ req' = [req EXCEPT ![h] = q]
           /\ UNCHANGED nonce_row
  <2>1. q \in ValidRequest
    BY <1>3 DEF ValidRequest, VerifyRequest
  <2>2. TypeOK'
    BY <1>1, <1>3, <2>1 DEF TypeOK
  <2>3. pc'[h] = "select" /\ req'[h] = q
    BY <1>3 DEF TypeOK
  <2>4. q.signature \in signed'
    BY <1>1 DEF Receive
  <2>5. HandlerOK(h)'
    BY <2>1, <2>3, <2>4 DEF HandlerOK
  <2>6. \A g \in Handlers \ {h} :
          pc'[g] = pc[g] /\ req'[g] = req[g] /\ nonce_row'[g] = nonce_row[g]
    BY <1>3 DEF TypeOK
  <2> QED  BY <1>1, <2>2, <2>5, <2>6, OneHandler
<1> QED  BY <1>2, <1>3 DEF Receive

\* The SELECT of verify.
LEMMA SelectStep ==
    ASSUME Stable, IInv, NEW h \in Handlers, SelectChallenge(h)
    PROVE  TypeOK' /\ HandlerInv'
<1> USE DEF IInv
<1> DEFINE row == auth_challenges[req[h].nonce]
<1>1. UNCHANGED <<now, domain, auth_challenges, auth_sessions, signed, actors, faults>>
  BY DEF SelectChallenge, tableVars
<1>2. CASE Respond(h)
  BY <1>1, <1>2, RespondHandlers DEF TypeOK
<1>3. CASE /\ Matches(row, req[h])
           /\ nonce_row' = [nonce_row EXCEPT ![h] = row]
           /\ pc' = [pc EXCEPT ![h] = "check"]
           /\ UNCHANGED req
  <2>1. req[h] \in ValidRequest /\ req[h].signature \in signed
    BY DEF SelectChallenge, HandlerInv, HandlerOK
  <2>2. req[h].nonce \in Nonces
    BY <2>1 DEF ValidRequest, VerifyRequest
  <2>3. row \in ChallengeRow \cup {NoRow}
    BY <2>2 DEF TypeOK
  <2>4. TypeOK'
    BY <1>1, <1>3, <2>3 DEF TypeOK
  <2>5. pc'[h] = "check" /\ nonce_row'[h] = row /\ req'[h] = req[h]
    BY <1>3 DEF TypeOK
  <2>6. Matches(auth_challenges[req[h].nonce], req[h])'
    BY <1>1, <1>3 DEF Matches
  <2>7. nonce_row'[h].domain = req'[h].domain
    BY <1>3, <2>5 DEF Matches
  <2>8. HandlerOK(h)'
    BY <1>1, <2>1, <2>5, <2>6, <2>7 DEF HandlerOK
  <2>9. \A g \in Handlers \ {h} :
          pc'[g] = pc[g] /\ req'[g] = req[g] /\ nonce_row'[g] = nonce_row[g]
    BY <1>3 DEF TypeOK
  <2> QED  BY <1>1, <2>4, <2>8, <2>9, OneHandler
<1> QED  BY <1>2, <1>3 DEF SelectChallenge

\* The checks of verify.
LEMMA CheckStep ==
    ASSUME Stable, IInv, NEW h \in Handlers, Check(h)
    PROVE  TypeOK' /\ HandlerInv'
<1> USE DEF IInv
<1>1. UNCHANGED <<now, domain, auth_challenges, auth_sessions, signed, actors, faults>>
  BY DEF Check, tableVars
<1>2. CASE Respond(h)
  BY <1>1, <1>2, RespondHandlers DEF TypeOK
<1>3. CASE /\ nonce_row[h].domain = domain
           /\ VerifySignature(req[h])
           /\ pc' = [pc EXCEPT ![h] = "mark"]
           /\ UNCHANGED <<req, nonce_row>>
  <2>1. TypeOK'
    BY <1>1, <1>3 DEF TypeOK
  <2>2. pc[h] = "check" /\ pc'[h] = "mark"
    BY <1>3 DEF TypeOK, Check
  <2>3. /\ req[h] \in ValidRequest
        /\ req[h].signature \in signed
        /\ Matches(auth_challenges[req[h].nonce], req[h])
        /\ nonce_row[h].domain = req[h].domain
    BY <2>2 DEF HandlerInv, HandlerOK
  <2>4. /\ Matches(auth_challenges[req[h].nonce], req[h])'
        /\ VerifySignature(req[h])'
    BY <1>1, <1>3, <2>3 DEF Matches, VerifySignature
  <2>5. HandlerOK(h)'
    BY <1>1, <1>3, <2>2, <2>3, <2>4 DEF HandlerOK
  <2>6. \A g \in Handlers \ {h} :
          pc'[g] = pc[g] /\ req'[g] = req[g] /\ nonce_row'[g] = nonce_row[g]
    BY <1>3 DEF TypeOK
  <2> QED  BY <1>1, <2>1, <2>5, <2>6, OneHandler
<1> QED  BY <1>2, <1>3 DEF Check

-----------------------------------------------------------------------------
(* The steps that write a table.                                           *)

\* A challenge is issued.
LEMMA IssueStep ==
    ASSUME Stable, IInv, NEW a \in Addresses, NEW n \in Nonces, IssueChallenge(a, n)
    PROVE  IInv'
<1> USE DEF IInv
<1> DEFINE row == [domain |-> domain, address |-> a,
                   expires_at |-> now + ChallengeTTL, used |-> FALSE]
<1>1. /\ UNCHANGED <<now, domain, auth_sessions, signed, handlerVars, actors, faults>>
      /\ auth_challenges' = [auth_challenges EXCEPT ![n] = row]
  BY DEF IssueChallenge
<1>2. now + ChallengeTTL \in Int
  BY TTLAssumption, AuthBoundsAssumption
  DEF TypeOK, TTLAssumption, AuthBoundsAssumption
<1>3. row \in ChallengeRow
  BY <1>2 DEF ChallengeRow, TypeOK
<1>4. ~row.used
  OBVIOUS
<1>5. TypeOK'
  <2> HIDE DEF row
  <2> QED  BY <1>1, <1>3 DEF TypeOK, handlerVars
<1>6. \A m \in Nonces :
        auth_challenges'[m] # NoRow /\ auth_challenges'[m].used =>
            auth_challenges[m] # NoRow /\ auth_challenges[m].used
  <2> HIDE DEF row
  <2> QED  BY <1>1, <1>4 DEF TypeOK
<1>7. HandlerInv' /\ SessionBacked' /\ ActorsSigned'
  BY <1>1, AllHandlers, SessionsKept, ActorsKept
<1> QED  BY <1>5, <1>6, <1>7, SpentKept

\* The challenge is marked used.
LEMMA MarkUsedStep ==
    ASSUME Stable, IInv, NEW h \in Handlers, MarkUsed(h)
    PROVE  IInv'
<1> USE DEF IInv
<1> DEFINE n == req[h].nonce
           row == [auth_challenges[n] EXCEPT !.used = TRUE]
<1>1. /\ UNCHANGED <<now, domain, auth_sessions, signed, req, nonce_row, actors, faults>>
      /\ pc[h] = "mark"
      /\ pc' = [pc EXCEPT ![h] = "insert"]
  BY DEF MarkUsed
<1>2. /\ n \in Nonces
      /\ auth_challenges[n] \in ChallengeRow
      /\ auth_challenges[n].address = req[h].address
      /\ auth_challenges' = [auth_challenges EXCEPT ![n] = row]
  BY MarkUsedEffect
<1>3. /\ row \in ChallengeRow
      /\ row # NoRow
      /\ row.address = auth_challenges[n].address
      /\ row.domain = auth_challenges[n].domain
      /\ row.used
  BY <1>2, MarkUsedRow
<1>4. /\ req[h] \in ValidRequest
      /\ req[h].signature \in signed
      /\ Matches(auth_challenges[n], req[h])
      /\ nonce_row[h].domain = req[h].domain
      /\ req[h].domain = domain
      /\ VerifySignature(req[h])
  BY <1>1 DEF HandlerInv, HandlerOK
<1>5. auth_challenges'[n] = row
  <2> HIDE DEF n, row
  <2> QED  BY <1>2 DEF TypeOK
<1>6. TypeOK'
  <2> HIDE DEF n, row
  <2> QED  BY <1>1, <1>2, <1>3 DEF TypeOK
<1>7. HandlerInv'
  <2>1. pc'[h] = "insert" /\ req'[h] = req[h] /\ nonce_row'[h] = nonce_row[h]
    BY <1>1 DEF TypeOK
  <2>2. Matches(auth_challenges[req[h].nonce], req[h])'
    <3> HIDE DEF row
    <3> QED  BY <1>3, <1>4, <1>5, <2>1 DEF Matches
  <2>3. VerifySignature(req[h])'
    BY <1>4, <2>1 DEF VerifySignature
  <2>4. auth_challenges'[req'[h].nonce].used
    <3> HIDE DEF row
    <3> QED  BY <1>3, <1>5, <2>1
  <2>5. HandlerOK(h)'
    BY <1>1, <1>4, <2>1, <2>2, <2>3, <2>4 DEF HandlerOK
  <2>6. \A g \in Handlers \ {h} :
          pc'[g] = pc[g] /\ req'[g] = req[g] /\ nonce_row'[g] = nonce_row[g]
    BY <1>1 DEF TypeOK
  <2> QED  BY <1>1, <2>5, <2>6, OneHandler
<1>8. SpentBySigner'
  <2> SUFFICES ASSUME NEW m \in Nonces,
                      auth_challenges'[m] # NoRow, auth_challenges'[m].used
               PROVE  \E x \in signed' :
                        x.by = auth_challenges'[m].address /\ x.msg.nonce = m
    BY DEF SpentBySigner
  <2>1. CASE m = n
    <3>1. /\ req[h].signature.by = req[h].address
          /\ req[h].signature.msg.nonce = n
      BY <1>4 DEF VerifySignature
    <3>2. auth_challenges'[m].address = req[h].address
      <4> HIDE DEF n, row
      <4> QED  BY <1>2, <1>3, <1>5, <2>1
    <3> QED  BY <1>1, <1>4, <2>1, <3>1, <3>2
  <2>2. CASE m # n
    <3>1. auth_challenges'[m] = auth_challenges[m]
      <4> HIDE DEF n, row
      <4> QED  BY <1>2, <2>2 DEF TypeOK
    <3> QED  BY <1>1, <3>1 DEF SpentBySigner
  <2> QED  BY <2>1, <2>2
<1>9. SessionBacked' /\ ActorsSigned'
  BY <1>1, SessionsKept, ActorsKept
<1> QED  BY <1>6, <1>7, <1>8, <1>9

\* The session is inserted.
LEMMA InsertSessionStep ==
    ASSUME Stable, IInv, NEW h \in Handlers, NEW t \in Tokens, InsertSession(h, t)
    PROVE  IInv'
<1> USE DEF IInv
<1> DEFINE s == [address |-> req[h].address, expires_at |-> now + SessionTTL,
                 nonce |-> req[h].nonce, domain |-> domain]
<1>1. /\ UNCHANGED <<now, domain, auth_challenges, signed, actors, faults>>
      /\ pc[h] = "insert"
      /\ auth_sessions' = [auth_sessions EXCEPT ![t] = s]
      /\ Respond(h)
  BY DEF InsertSession
<1>2. /\ req[h] \in ValidRequest
      /\ req[h].signature \in signed
      /\ Matches(auth_challenges[req[h].nonce], req[h])
      /\ req[h].domain = domain
      /\ VerifySignature(req[h])
      /\ auth_challenges[req[h].nonce].used
  BY <1>1 DEF HandlerInv, HandlerOK
<1>3. now + SessionTTL \in Int
  BY TTLAssumption, AuthBoundsAssumption
  DEF TypeOK, TTLAssumption, AuthBoundsAssumption
<1>4. s \in SessionRow
  BY <1>2, <1>3 DEF SessionRow, ValidRequest, VerifyRequest, TypeOK
<1>5. Backed(s)
  BY <1>2 DEF Backed, Matches, VerifySignature
<1>6. PICK u \in SessionRow : u = s
  BY <1>4
<1>7. Backed(u)'
  BY <1>5, <1>6, BackedKept
<1>8. auth_sessions' = [auth_sessions EXCEPT ![t] = u]
  BY <1>1, <1>6
<1>9. SessionBacked'
  <2> SUFFICES ASSUME NEW v \in Tokens, auth_sessions'[v] # NoRow
               PROVE  Backed(auth_sessions[v])'
    BY DEF SessionBacked
  <2>1. CASE v = t
    <3>1. auth_sessions'[v] = u
      BY <1>8, <2>1 DEF TypeOK
    <3> QED  BY <1>7, <3>1 DEF Backed
  <2>2. CASE v # t
    <3>1. auth_sessions'[v] = auth_sessions[v]
      BY <1>8, <2>2 DEF TypeOK
    <3>2. PICK w \in SessionRow : w = auth_sessions[v] /\ Backed(w)
      BY <3>1 DEF TypeOK, SessionBacked
    <3>3. Backed(w)'
      BY <3>2, BackedKept
    <3> QED  BY <3>1, <3>2, <3>3 DEF Backed
  <2> QED  BY <2>1, <2>2
<1>10. HandlerInv' /\ TypeOK'
  BY <1>1, <1>6, <1>8, RespondHandlers DEF TypeOK
<1>11. SpentBySigner' /\ ActorsSigned'
  BY <1>1, SpentKept, ActorsKept
<1> QED  BY <1>9, <1>10, <1>11

-----------------------------------------------------------------------------
(* The invariant.                                                          *)

\* A protected handler acts for the address of a backed session.
LEMMA AuthenticateStep ==
    ASSUME Stable, IInv, NEW t \in Tokens, Authenticate(t)
    PROVE  IInv'
<1> USE DEF IInv
<1>1. UNCHANGED <<now, domain, auth_challenges, auth_sessions, signed, handlerVars, faults>>
  BY DEF Authenticate, tableVars
<1>2. PICK s \in SessionRow : s = auth_sessions[t] /\ Backed(s)
  BY DEF Authenticate, SessionValid, TypeOK, SessionBacked
<1>3. actors' = actors \cup {s.address}
  BY <1>2 DEF Authenticate
<1>4. TypeOK'
  BY <1>1, <1>3 DEF TypeOK, handlerVars, SessionRow
<1>5. PICK x \in signed :
        /\ x.by = s.address
        /\ x.msg = [domain |-> s.domain, address |-> s.address, nonce |-> s.nonce]
  BY <1>2 DEF Backed
<1>6. /\ auth_challenges[x.msg.nonce] # NoRow
      /\ auth_challenges[x.msg.nonce].address = s.address
  BY <1>2, <1>5 DEF Backed
<1>7. ActorsSigned'
  <2> SUFFICES ASSUME NEW a \in actors'
               PROVE  \E y \in signed :
                        /\ y.by = a
                        /\ auth_challenges[y.msg.nonce] # NoRow
                        /\ auth_challenges[y.msg.nonce].address = a
    BY <1>1 DEF ActorsSigned
  <2>1. CASE a \in actors
    BY <2>1 DEF ActorsSigned
  <2>2. CASE a = s.address
    BY <1>5, <1>6, <2>2
  <2> QED  BY <1>3, <2>1, <2>2
<1>8. HandlerInv' /\ SessionBacked' /\ SpentBySigner'
  BY <1>1, AllHandlers, SessionsKept, SpentKept
<1> QED  BY <1>4, <1>7, <1>8

\* No step breaks the invariant.
LEMMA StepIInv ==
    ASSUME IInv, [Next]_vars
    PROVE  IInv'
<1> USE DEF IInv
<1>1. Stable
  BY StepStable
<1>2. ASSUME UNCHANGED <<auth_challenges, auth_sessions, actors>>, TypeOK', HandlerInv'
      PROVE  IInv'
  BY <1>1, <1>2, SessionsKept, SpentKept, ActorsKept
<1>3. CASE Tick
  <2>1. UNCHANGED <<domain, auth_challenges, auth_sessions, signed, handlerVars, actors, faults>>
    BY <1>3 DEF Tick, tableVars
  <2>2. TypeOK'
    BY <1>3, <2>1, AuthBoundsAssumption DEF Tick, TypeOK, handlerVars, AuthBoundsAssumption
  <2> QED  BY <1>1, <1>2, <2>1, <2>2, AllHandlers
<1>4. ASSUME NEW a \in Addresses, NEW n \in Nonces, Sign(a, n)
      PROVE  IInv'
  <2>1. UNCHANGED <<now, domain, auth_challenges, auth_sessions, handlerVars, actors, faults>>
    BY <1>4 DEF Sign, tableVars
  <2>2. auth_challenges[n] \in ChallengeRow
    BY <1>4 DEF Sign, TypeOK
  <2>3. signed' \subseteq Signature
    <3>1. PICK b \in Addresses :
            signed' = signed \cup
              {[by |-> a, msg |-> [domain |-> auth_challenges[n].domain,
                                   address |-> b, nonce |-> n]]}
      BY <1>4 DEF Sign
    <3>2. auth_challenges[n].domain \in Domains
      BY <2>2 DEF ChallengeRow
    <3> QED  BY <3>1, <3>2 DEF Signature, Message, TypeOK
  <2>4. TypeOK'
    BY <2>1, <2>3 DEF TypeOK, handlerVars
  <2> QED  BY <1>1, <1>2, <2>1, <2>4, AllHandlers
<1>5. ASSUME NEW h \in Handlers, NEW q \in VerifyRequest, Receive(h, q)
      PROVE  IInv'
  BY <1>1, <1>2, <1>5, ReceiveStep DEF Receive, tableVars
<1>6. ASSUME NEW h \in Handlers, SelectChallenge(h)
      PROVE  IInv'
  BY <1>1, <1>2, <1>6, SelectStep DEF SelectChallenge, tableVars
<1>7. ASSUME NEW h \in Handlers, Check(h)
      PROVE  IInv'
  BY <1>1, <1>2, <1>7, CheckStep DEF Check, tableVars
<1>8. ASSUME NEW h \in Handlers, DatabaseError(h)
      PROVE  IInv'
  <2>1. /\ UNCHANGED <<now, domain, auth_challenges, auth_sessions, signed, actors>>
        /\ Respond(h)
    BY <1>8 DEF DatabaseError, tableVars
  <2>2. faults' \in 0..MaxFaults
    BY <1>8, AuthBoundsAssumption DEF DatabaseError, TypeOK, AuthBoundsAssumption
  <2>3. HandlerInv' /\ TypeOK'
    BY <1>1, <2>1, <2>2, RespondHandlers DEF TypeOK
  <2> QED  BY <1>2, <2>1, <2>3
<1>9. CASE Restart
  <2>1. /\ UNCHANGED <<now, auth_challenges, auth_sessions, signed, actors>>
        /\ \A h \in Handlers : pc'[h] = "idle"
    BY <1>9 DEF Restart, tableVars
  <2>2. faults' \in 0..MaxFaults
    BY <1>9, AuthBoundsAssumption DEF Restart, TypeOK, AuthBoundsAssumption
  <2>3. TypeOK'
    BY <1>9, <2>1, <2>2 DEF Restart, TypeOK
  <2> QED  BY <1>2, <2>1, <2>3, HandlerIdle DEF HandlerInv
<1>10. CASE UNCHANGED vars
  <2>1. UNCHANGED <<now, domain, auth_challenges, auth_sessions, signed, handlerVars, actors, faults>>
    BY <1>10 DEF vars, tableVars
  <2>2. TypeOK'
    BY <2>1 DEF TypeOK, handlerVars
  <2> QED  BY <1>1, <1>2, <2>1, <2>2, AllHandlers
<1> HIDE DEF IInv
<1>11. ASSUME NEW h \in Handlers, Verify(h)
       PROVE  IInv'
  BY <1>1, <1>6, <1>7, <1>11, MarkUsedStep, InsertSessionStep DEF Verify
<1> QED
  BY <1>1, <1>3, <1>4, <1>5, <1>8, <1>9, <1>10, <1>11, IssueStep, AuthenticateStep
  DEF Next

\* The invariant holds initially.
LEMMA InitIInv ==
    ASSUME Init
    PROVE  IInv
<1>1. TypeOK
  BY AuthBoundsAssumption DEF Init, TypeOK, AuthBoundsAssumption
<1>2. HandlerInv
  BY DEF Init, HandlerInv, HandlerOK
<1>3. SessionBacked /\ SpentBySigner /\ ActorsSigned
  BY DEF Init, SessionBacked, SpentBySigner, ActorsSigned
<1> QED  BY <1>1, <1>2, <1>3 DEF IInv

\* The invariant holds in every reachable state.
LEMMA IInvAlways == Spec => []IInv
BY InitIInv, StepIInv, PTL DEF Spec

\* Tables, handlers and history keep their types: in particular a handler
\* past the SELECT has a row to mark.
THEOREM AuthTypeCorrect == Spec => []TypeOK
<1>1. IInv => TypeOK
  BY DEF IInv
<1> QED  BY <1>1, IInvAlways, PTL

\* Whatever the interleaving of verifications, faults and restarts, verify
\* creates a session only for a challenge issued to its address under the
\* domain served, signed by that address, and spent.
THEOREM EverySessionBacked == Spec => []SessionBacked
<1>1. IInv => SessionBacked
  BY DEF IInv
<1> QED  BY <1>1, IInvAlways, PTL

\* verify marks a challenge used only for the wallet it was issued to.
THEOREM ChallengesSpentBySigner == Spec => []SpentBySigner
<1>1. IInv => SpentBySigner
  BY DEF IInv
<1> QED  BY <1>1, IInvAlways, PTL

\* The AuthUser extractor lets protected handlers act only for wallets that
\* have signed a challenge issued to them.
THEOREM ActorsHaveSigned == Spec => []ActorsSigned
<1>1. IInv => ActorsSigned
  BY DEF IInv
<1> QED  BY <1>1, IInvAlways, PTL

\* What a step does to the stage and the locals of one handler, given that n
\* is spent: it does not make a contender of one that was none.
LEMMA NoNewContender ==
    ASSUME TypeOK, NEW n \in Nonces, auth_challenges[n].used, [Next]_vars,
           NEW h \in Handlers, h \in Contenders(n)'
    PROVE  h \in Contenders(n)
<1>1. /\ req'[h] # NoReq /\ req'[h].nonce = n
      /\ \/ pc'[h] \in {"mark", "insert"}
         \/ pc'[h] = "check" /\ ~nonce_row'[h].used
  BY DEF Contenders
<1>2. CASE UNCHANGED handlerVars
  BY <1>1, <1>2 DEF handlerVars, Contenders
<1>3. ASSUME NEW g \in Handlers, Respond(g)
      PROVE  h \in Contenders(n)
  <2>1. h # g
    BY <1>1, <1>3 DEF Respond, TypeOK
  <2> QED  BY <1>1, <1>3, <2>1 DEF Respond, Contenders, TypeOK
<1>4. ASSUME NEW g \in Handlers, NEW r \in VerifyRequest, Receive(g, r)
      PROVE  h \in Contenders(n)
  <2>1. CASE Respond(g)
    BY <1>3, <2>1
  <2>2. CASE /\ pc' = [pc EXCEPT ![g] = "select"]
             /\ req' = [req EXCEPT ![g] = r]
             /\ UNCHANGED nonce_row
    <3>1. h # g
      BY <1>1, <2>2 DEF TypeOK
    <3> QED  BY <1>1, <2>2, <3>1 DEF Contenders, TypeOK
  <2> QED  BY <1>4, <2>1, <2>2 DEF Receive
<1>5. ASSUME NEW g \in Handlers, SelectChallenge(g)
      PROVE  h \in Contenders(n)
  <2>1. CASE Respond(g)
    BY <1>3, <2>1
  <2>2. CASE /\ nonce_row' = [nonce_row EXCEPT ![g] = auth_challenges[req[g].nonce]]
             /\ pc' = [pc EXCEPT ![g] = "check"]
             /\ UNCHANGED req
    <3>1. h # g
      BY <1>1, <2>2 DEF TypeOK
    <3> QED  BY <1>1, <2>2, <3>1 DEF Contenders, TypeOK
  <2> QED  BY <1>5, <2>1, <2>2 DEF SelectChallenge
<1>6. ASSUME NEW g \in Handlers, Check(g)
      PROVE  h \in Contenders(n)
  <2>1. CASE Respond(g)
    BY <1>3, <2>1
  <2>2. CASE /\ pc[g] = "check" /\ ~nonce_row[g].used
             /\ pc' = [pc EXCEPT ![g] = "mark"]
             /\ UNCHANGED <<req, nonce_row>>
    BY <1>1, <2>2 DEF Contenders, TypeOK
  <2> QED  BY <1>6, <2>1, <2>2 DEF Check
<1>7. ASSUME NEW g \in Handlers, MarkUsed(g)
      PROVE  h \in Contenders(n)
  BY <1>1, <1>7 DEF MarkUsed, Contenders, TypeOK
<1>8. CASE Restart
  BY <1>1, <1>8 DEF Restart
<1>9. ASSUME NEW g \in Handlers, Verify(g) \/ DatabaseError(g)
      PROVE  h \in Contenders(n)
  BY <1>3, <1>5, <1>6, <1>7, <1>9 DEF Verify, InsertSession, DatabaseError
<1>10. CASE \/ Tick
            \/ \E a \in Addresses, m \in Nonces : IssueChallenge(a, m) \/ Sign(a, m)
            \/ \E t \in Tokens : Authenticate(t)
            \/ UNCHANGED vars
  BY <1>2, <1>10 DEF Tick, IssueChallenge, Sign, Authenticate, vars
<1> QED
  BY <1>4, <1>8, <1>9, <1>10 DEF Next

\* A spent challenge admits nobody: whatever else happens, a verification that
\* has not selected the challenge before it was marked never gets past the
\* checks, so the window for a second session closes with the first UPDATE.
THEOREM SpentChallengeCloses == Spec => SpentAdmitsNobody
<1>1. ASSUME TypeOK, [Next]_vars, NEW n \in Nonces, auth_challenges[n].used
      PROVE  Contenders(n)' \subseteq Contenders(n)
  <2>1. Contenders(n)' \subseteq Handlers
    BY DEF Contenders
  <2> QED  BY <1>1, <2>1, NoNewContender
<1>2. TypeOK /\ [Next]_vars =>
        [\A n \in Nonces :
            (auth_challenges[n] # NoRow /\ auth_challenges[n].used)
                => Contenders(n)' \subseteq Contenders(n)]_vars
  BY <1>1
<1> QED  BY <1>2, AuthTypeCorrect, PTL DEF Spec, SpentAdmitsNobody
=============================================================================
