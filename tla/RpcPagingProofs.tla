-------------------------- MODULE RpcPagingProofs --------------------------
(***************************************************************************)
(* Proofs about RpcPaging for every page limit, every number of events in  *)
(* a ledger, and every number of ledgers and re-orgs: the paged read       *)
(* implements the atomic one of module EventSource.                        *)
(***************************************************************************)
EXTENDS RpcPaging, TLAPS

-----------------------------------------------------------------------------
(* The inductive invariant.                                                *)

\* No event lies after the newest closed ledger.
ChainInv == \A e \in chain : e.at.ledger_sequence =< head

\* Between two calls events_after has no locals; before the first page is
\* read nothing is decoded.
LocalsInv ==
    /\ ~calling => page_cursor = NoPage /\ cursor = START /\ fork = NoFork
    /\ page_cursor = NoPage => decoded = <<>>

\* The next ledger to close lies after the page cursor, or was replaced
\* during the call.
CursorInv ==
    page_cursor # NoPage =>
        page_cursor.ledger_sequence =< head \/ fork =< head + 1

\* What is decoded lies after the argument and not after the page cursor,
\* in order.
OrderInv ==
    /\ Source!Ordered(decoded, cursor)
    /\ page_cursor # NoPage =>
         \A i \in DOMAIN decoded : ~IsAfter(decoded[i].at, page_cursor)

\* Below the ledgers replaced during the call, what is decoded is what the
\* chain holds after the argument and not after the page cursor.
PrefixInv ==
    page_cursor # NoPage =>
        Source!Below(Source!Elements(decoded), fork)
          = {e \in Source!Below(Source!After(chain, cursor), fork) :
               ~IsAfter(e.at, page_cursor)}

IInv ==
    /\ TypeOK
    /\ ChainInv
    /\ LocalsInv
    /\ CursorInv
    /\ OrderInv
    /\ PrefixInv

-----------------------------------------------------------------------------
(* Positions.                                                              *)

\* Positions are positions of the cursor's type, and START is one.
LEMMA PositionTypes ==
    /\ Positions \subseteq Position
    /\ START \in Position
    /\ NoPage \notin Positions
    /\ \A e \in Events : e.at \in Positions
  BY PagingAssumption DEF PagingAssumption, Positions, Position, START, Events

\* is_after is transitive, and total but for equality.
LEMMA AfterOrder ==
    ASSUME NEW p \in Position, NEW q \in Position, NEW r \in Position
    PROVE  /\ IsAfter(p, q) /\ IsAfter(q, r) => IsAfter(p, r)
           /\ IsAfter(p, q) => ~IsAfter(q, p)
           /\ ~IsAfter(p, q) /\ IsAfter(r, q) => IsAfter(r, p)
  BY DEF IsAfter, Position

\* EventSource has the same order of positions.
LEMMA SameOrder ==
    ASSUME NEW p, NEW q
    PROVE  Source!IsAfter(p, q) <=> IsAfter(p, q)
  BY DEF Source!IsAfter, IsAfter

\* Ordered and After of EventSource, in terms of is_after.
LEMMA OrderedDef ==
    ASSUME NEW s, NEW cur
    PROVE  Source!Ordered(s, cur)
             <=> /\ \A i \in DOMAIN s : IsAfter(s[i].at, cur)
                 /\ \A i, j \in DOMAIN s : i < j => IsAfter(s[j].at, s[i].at)
  BY SameOrder DEF Source!Ordered

LEMMA AfterDef ==
    ASSUME NEW S, NEW cur
    PROVE  Source!After(S, cur) = {e \in S : e.decodable /\ IsAfter(e.at, cur)}
  BY SameOrder DEF Source!After

-----------------------------------------------------------------------------
(* One getEvents call.                                                     *)

\* What a page, and the elements of it that are pushed, are made of.
LEMMA PageTypes ==
    ASSUME TypeOK,
           NEW page \in UNION {[1..n -> Start] : n \in 0..PageLimit},
           NEW at \in UNION {[1..n -> DOMAIN page] : n \in 0..Len(page)}
    PROVE  /\ page \in Seq(Events)
           /\ Len(page) =< PageLimit
           /\ \A i \in 1..Len(page) : page[i] \in Start
           /\ DOMAIN page = 1..Len(page)
           /\ [k \in DOMAIN at |-> page[at[k]]] \in Seq(Events)
           /\ \E m \in Nat : DOMAIN at = 1..m
           /\ Len([k \in DOMAIN at |-> page[at[k]]]) \in Nat
           /\ DOMAIN at = 1..Len([k \in DOMAIN at |-> page[at[k]]])
           /\ \A i \in DOMAIN at : at[i] \in DOMAIN page
  <1>1. Start \subseteq Events
    BY DEF Start, TypeOK
  <1>2. PICK n \in 0..PageLimit : page \in [1..n -> Start]
    OBVIOUS
  <1>3. n \in Nat /\ n =< PageLimit /\ PageLimit \in Nat
    BY <1>2, PagingAssumption DEF PagingAssumption
  <1>4. page \in Seq(Events) /\ Len(page) = n /\ DOMAIN page = 1..n
    BY <1>1, <1>2, <1>3
  <1>5. PICK m \in 0..n : at \in [1..m -> 1..n]
    BY <1>4
  <1>6. m \in Nat
    BY <1>3, <1>5
  <1> DEFINE kept == [k \in DOMAIN at |-> page[at[k]]]
  <1>7. kept \in [1..m -> Events]
    BY <1>1, <1>2, <1>5
  <1>8. kept \in Seq(Events) /\ Len(kept) = m
    BY <1>6, <1>7
  <1>9. QED
    BY <1>2, <1>3, <1>4, <1>5, <1>6, <1>8

\* The elements of a concatenation are those of its parts, at the places
\* where one expects them.
LEMMA Concatenated ==
    ASSUME NEW s \in Seq(Events), NEW t \in Seq(Events)
    PROVE  /\ s \o t \in Seq(Events)
           /\ Len(s \o t) = Len(s) + Len(t)
           /\ DOMAIN (s \o t) = 1..(Len(s) + Len(t))
           /\ \A i \in 1..(Len(s) + Len(t)) :
                (s \o t)[i] = IF i =< Len(s) THEN s[i] ELSE t[i - Len(s)]
  OBVIOUS

\* A sequence whose parts are ordered, and each element of the second part
\* lies after each of the first, is ordered.
LEMMA ConcatOrdered ==
    ASSUME NEW s \in Seq(Events), NEW t \in Seq(Events), NEW cur,
           Source!Ordered(s, cur), Source!Ordered(t, cur),
           \A i \in DOMAIN s, j \in DOMAIN t : IsAfter(t[j].at, s[i].at)
    PROVE  Source!Ordered(s \o t, cur)
  <1> DEFINE n == Len(s)
             m == Len(t)
             all == s \o t
  <1>1. n \in Nat /\ m \in Nat /\ DOMAIN s = 1..n /\ DOMAIN t = 1..m
    OBVIOUS
  <1>2. /\ DOMAIN all = 1..(n + m)
        /\ \A i \in 1..n : all[i] = s[i]
        /\ \A i \in 1..(n + m) : ~(i =< n) => i - n \in 1..m /\ all[i] = t[i - n]
    BY <1>1, Concatenated
  <1>3. ASSUME NEW i \in 1..(n + m)
        PROVE  IsAfter(all[i].at, cur)
    <2>1. CASE i =< n
      <3>1. i \in 1..n /\ all[i] = s[i]
        BY <1>1, <1>2, <2>1
      <3>2. QED
        BY <1>1, <3>1, OrderedDef
    <2>2. CASE ~(i =< n)
      BY <1>1, <1>2, <2>2, OrderedDef
    <2>3. QED
      BY <2>1, <2>2
  <1>4. ASSUME NEW i \in 1..(n + m), NEW j \in 1..(n + m), i < j
        PROVE  IsAfter(all[j].at, all[i].at)
    <2>1. CASE j =< n
      <3>1. i \in 1..n /\ j \in 1..n
        BY <1>1, <1>4, <2>1
      <3>2. QED
        BY <1>1, <1>2, <1>4, <3>1, OrderedDef
    <2>2. CASE i =< n /\ ~(j =< n)
      <3>1. i \in 1..n
        BY <1>1, <2>2
      <3>2. QED
        BY <1>1, <1>2, <2>2, <3>1
    <2>3. CASE ~(i =< n)
      <3>1. ~(j =< n) /\ i - n < j - n
        BY <1>1, <1>4, <2>3
      <3>2. /\ i - n \in 1..m /\ j - n \in 1..m
            /\ all[i] = t[i - n] /\ all[j] = t[j - n]
        BY <1>2, <2>3, <3>1
      <3>3. QED
        BY <1>1, <3>1, <3>2, OrderedDef
    <2>4. QED
      BY <2>1, <2>2, <2>3
  <1>5. QED
    BY <1>2, <1>3, <1>4, OrderedDef

\* The elements of a concatenation.
LEMMA ConcatElements ==
    ASSUME NEW s \in Seq(Events), NEW t \in Seq(Events)
    PROVE  Source!Elements(s \o t) = Source!Elements(s) \cup Source!Elements(t)
  <1> DEFINE n == Len(s)
             m == Len(t)
             all == s \o t
  <1>1. n \in Nat /\ m \in Nat /\ DOMAIN s = 1..n /\ DOMAIN t = 1..m
    OBVIOUS
  <1>2. /\ DOMAIN all = 1..(n + m)
        /\ \A i \in 1..(n + m) : all[i] = IF i =< n THEN s[i] ELSE t[i - n]
    BY Concatenated
  <1>3. ASSUME NEW i \in 1..(n + m)
        PROVE  \/ \E k \in 1..n : all[i] = s[k]
               \/ \E k \in 1..m : all[i] = t[k]
    <2>1. CASE i =< n
      BY <1>1, <1>2, <2>1
    <2>2. CASE ~(i =< n)
      <3>1. i - n \in 1..m /\ all[i] = t[i - n]
        BY <1>1, <1>2, <2>2
      <3>2. QED
        BY <3>1
    <2>3. QED
      BY <2>1, <2>2
  <1>4. ASSUME NEW k \in 1..n
        PROVE  k \in 1..(n + m) /\ all[k] = s[k]
    BY <1>1, <1>2
  <1>5. ASSUME NEW k \in 1..m
        PROVE  n + k \in 1..(n + m) /\ all[n + k] = t[k]
    <2>1. n + k \in 1..(n + m) /\ ~(n + k =< n) /\ (n + k) - n = k
      BY <1>1
    <2>2. QED
      BY <1>2, <2>1
  <1> HIDE DEF n, m, all
  <1>a. ASSUME NEW e \in Source!Elements(all)
        PROVE  e \in Source!Elements(s) \cup Source!Elements(t)
    <2>1. PICK i \in 1..(n + m) : e = all[i]
      BY <1>2 DEF Source!Elements
    <2>2. QED
      BY <1>1, <1>3, <2>1 DEF Source!Elements
  <1>b. ASSUME NEW e \in Source!Elements(s)
        PROVE  e \in Source!Elements(all)
    <2>1. PICK k \in 1..n : e = s[k]
      BY <1>1 DEF Source!Elements
    <2>2. QED
      BY <1>2, <1>4, <2>1 DEF Source!Elements
  <1>c. ASSUME NEW e \in Source!Elements(t)
        PROVE  e \in Source!Elements(all)
    <2>1. PICK k \in 1..m : e = t[k]
      BY <1>1 DEF Source!Elements
    <2>2. QED
      BY <1>2, <1>5, <2>1 DEF Source!Elements
  <1>6. Source!Elements(all) = Source!Elements(s) \cup Source!Elements(t)
    BY <1>a, <1>b, <1>c
  <1>7. QED
    BY <1>6 DEF all

\* What the loop pushes is ordered, lies after the argument, and consists of
\* the elements of the page that are to be kept.
LEMMA Pushed ==
    ASSUME TypeOK,
           NEW page \in UNION {[1..n -> Start] : n \in 0..PageLimit},
           NEW at \in UNION {[1..n -> DOMAIN page] : n \in 0..Len(page)},
           IsPage(page), Pushes(page, at)
    PROVE  LET kept == [k \in DOMAIN at |-> page[at[k]]]
           IN  /\ Source!Ordered(kept, cursor)
               /\ Source!Elements(kept)
                    = {e \in Source!Elements(page) : Keep(e)}
  <1> DEFINE kept == [k \in DOMAIN at |-> page[at[k]]]
  <1>1. PICK m \in Nat : DOMAIN at = 1..m
    BY PageTypes
  <1>2. /\ DOMAIN kept = 1..m
        /\ \A i \in 1..m : at[i] \in DOMAIN page /\ kept[i] = page[at[i]]
    BY <1>1, PageTypes
  <1>3. DOMAIN page \subseteq Int
    BY PageTypes
  <1>4. \A i \in 1..m : Keep(page[at[i]])
    BY <1>1, <1>2 DEF Pushes
  <1>5. \A i, j \in 1..m : i < j => IsAfter(kept[j].at, kept[i].at)
    <2> SUFFICES ASSUME NEW i \in 1..m, NEW j \in 1..m, i < j
                 PROVE  IsAfter(kept[j].at, kept[i].at)
      OBVIOUS
    <2>1. at[i] < at[j]
      BY <1>1 DEF Pushes
    <2>2. QED
      BY <1>2, <2>1 DEF IsPage
  <1>6. Source!Ordered(kept, cursor)
    BY <1>2, <1>4, <1>5, OrderedDef DEF Keep
  <1>7. ASSUME NEW e
        PROVE  e \in Source!Elements(kept)
                 <=> e \in Source!Elements(page) /\ Keep(e)
    <2>1. ASSUME NEW i \in DOMAIN page, Keep(page[i])
          PROVE  \E k \in 1..m : kept[k] = page[i]
      <3>1. PICK k \in 1..m : at[k] = i
        BY <1>1, <2>1 DEF Pushes
      <3>2. QED
        BY <1>2, <3>1
    <2>2. ASSUME e \in Source!Elements(kept)
          PROVE  e \in Source!Elements(page) /\ Keep(e)
      <3>1. PICK k \in 1..m : e = kept[k]
        BY <1>2, <2>2 DEF Source!Elements
      <3>2. QED
        BY <1>2, <1>4, <3>1 DEF Source!Elements
    <2>3. ASSUME e \in Source!Elements(page), Keep(e)
          PROVE  e \in Source!Elements(kept)
      <3>1. PICK i \in DOMAIN page : e = page[i]
        BY <2>3 DEF Source!Elements
      <3>2. QED
        BY <1>2, <2>1, <2>3, <3>1 DEF Source!Elements
    <2>4. QED
      BY <2>2, <2>3
  <1>8. QED
    BY <1>6, <1>7

\* One iteration of the loop: decoded stays ordered, and afterwards it agrees
\* with the chain up to the new page cursor or, after the last page, to the
\* end.
LEMMA PageRead ==
    ASSUME IInv, calling,
           NEW page \in UNION {[1..n -> Start] : n \in 0..PageLimit},
           NEW at \in UNION {[1..n -> DOMAIN page] : n \in 0..Len(page)},
           IsPage(page), Pushes(page, at)
    PROVE  LET all == decoded \o [k \in DOMAIN at |-> page[at[k]]]
               last == page[Len(page)].at
               wanted == Source!Below(Source!After(chain, cursor), fork)
           IN  /\ all \in Seq(Events)
               /\ Source!Ordered(all, cursor)
               /\ Exhausted(page) =>
                    Source!Below(Source!Elements(all), fork) = wanted
               /\ ~Exhausted(page) =>
                    /\ last \in Positions /\ last.ledger_sequence =< head
                    /\ \A i \in DOMAIN all : ~IsAfter(all[i].at, last)
                    /\ Source!Below(Source!Elements(all), fork)
                         = {e \in wanted : ~IsAfter(e.at, last)}
  <1> DEFINE kept == [k \in DOMAIN at |-> page[at[k]]]
             all == decoded \o kept
             last == page[Len(page)].at
             wanted == Source!Below(Source!After(chain, cursor), fork)
  <1>1. /\ decoded \in Seq(Events) /\ chain \subseteq Events
        /\ cursor \in Position
        /\ page_cursor # NoPage => page_cursor \in Position
    BY PositionTypes DEF IInv, TypeOK
  <1>2. kept \in Seq(Events) /\ page \in Seq(Events)
    BY PageTypes DEF IInv
  <1>3. /\ Start \subseteq chain
        /\ \A e \in Source!Elements(page) : e \in Start
        /\ \A e \in chain : e.at \in Positions /\ e.at \in Position
        /\ \A e \in Source!Elements(decoded) : e \in Events /\ e.at \in Position
    <2>1. Start \subseteq chain
      BY DEF Start
    <2>2. \A e \in Source!Elements(page) : e \in Start
      BY PageTypes DEF Source!Elements, IInv
    <2>3. \A e \in Source!Elements(decoded) : e \in Events
      BY <1>1 DEF Source!Elements
    <2>4. QED
      BY <1>1, <2>1, <2>2, <2>3, PositionTypes
  <1>4. /\ Source!Ordered(kept, cursor)
        /\ Source!Elements(kept) = {e \in Source!Elements(page) : Keep(e)}
    BY Pushed DEF IInv
  <1>5. Source!Elements(all) = Source!Elements(decoded) \cup Source!Elements(kept)
    BY <1>1, <1>2, ConcatElements
  <1>6. ASSUME NEW e \in Start, NEW d \in Source!Elements(decoded)
        PROVE  IsAfter(e.at, d.at)
    <2>1. PICK i \in DOMAIN decoded : d = decoded[i]
      BY DEF Source!Elements
    <2>2. page_cursor # NoPage
      BY <2>1 DEF IInv, LocalsInv
    <2>3. ~IsAfter(d.at, page_cursor)
      BY <2>1, <2>2 DEF IInv, OrderInv
    <2>4. IsAfter(e.at, page_cursor)
      BY <2>2 DEF Start
    <2>5. QED
      BY <1>1, <1>3, <2>2, <2>3, <2>4, AfterOrder
  <1>7. ASSUME NEW e \in wanted, e \notin Start
        PROVE  e \in Source!Elements(decoded)
    <2>1. e \in chain /\ IsAfter(e.at, cursor)
      BY AfterDef DEF Source!Below
    <2>2. CASE page_cursor = NoPage
      <3>1. /\ e.at.ledger_sequence \in Int /\ e.at.ledger_sequence >= 1
            /\ cursor.ledger_sequence \in Int
        BY <1>1, <1>3, <2>1, PagingAssumption
        DEF Positions, Position, PagingAssumption
      <3>2. e.at.ledger_sequence >= cursor.ledger_sequence
        BY <2>1, <3>1 DEF IsAfter
      <3>3. e \in Start
        BY <2>1, <2>2, <3>1, <3>2 DEF Start
      <3>4. QED
        BY <1>7, <3>3
    <2>3. CASE page_cursor # NoPage
      <3>1. ~IsAfter(e.at, page_cursor)
        BY <1>7, <2>1, <2>3 DEF Start
      <3>2. e \in Source!Below(Source!Elements(decoded), fork)
        BY <2>3, <3>1 DEF IInv, PrefixInv
      <3>3. QED
        BY <3>2 DEF Source!Below
    <2>4. QED
      BY <2>2, <2>3
  <1>8. ASSUME NEW e \in Source!Below(Source!Elements(all), fork)
        PROVE  e \in wanted
    <2>1. e \in Source!Elements(all) /\ e.at.ledger_sequence < fork
      BY DEF Source!Below
    <2>2. CASE e \in Source!Elements(decoded)
      <3>1. PICK i \in DOMAIN decoded : e = decoded[i]
        BY <2>2 DEF Source!Elements
      <3>2. page_cursor # NoPage
        BY <3>1 DEF IInv, LocalsInv
      <3>3. e \in Source!Below(Source!Elements(decoded), fork)
        BY <2>1, <2>2 DEF Source!Below
      <3>4. QED
        BY <3>2, <3>3 DEF IInv, PrefixInv
    <2>3. CASE e \in Source!Elements(kept)
      <3>1. e \in chain /\ Keep(e)
        BY <1>3, <1>4, <2>3
      <3>2. QED
        BY <2>1, <3>1, AfterDef DEF Source!Below, Keep
    <2>4. QED
      BY <1>5, <2>1, <2>2, <2>3
  <1>9. ASSUME NEW e \in wanted, e \in Start => e \in Source!Elements(page)
        PROVE  e \in Source!Below(Source!Elements(all), fork)
    <2>1. e.at.ledger_sequence < fork /\ Keep(e)
      BY AfterDef DEF Source!Below, Keep
    <2>2. CASE e \in Start
      BY <1>4, <1>5, <1>9, <2>1, <2>2 DEF Source!Below
    <2>3. CASE e \notin Start
      BY <1>5, <1>7, <2>1, <2>3 DEF Source!Below
    <2>4. QED
      BY <2>2, <2>3
  <1>10. all \in Seq(Events)
    BY <1>1, <1>2, Concatenated
  <1>11. Source!Ordered(all, cursor)
    <2>1. \A i \in DOMAIN decoded, j \in DOMAIN kept :
            IsAfter(kept[j].at, decoded[i].at)
      <3> SUFFICES ASSUME NEW i \in DOMAIN decoded, NEW j \in DOMAIN kept
                   PROVE  IsAfter(kept[j].at, decoded[i].at)
        OBVIOUS
      <3>1. decoded[i] \in Source!Elements(decoded)
        BY DEF Source!Elements
      <3>2. kept[j] \in Source!Elements(kept)
        BY DEF Source!Elements
      <3>3. kept[j] \in Start
        BY <1>3, <1>4, <3>2
      <3>4. QED
        BY <1>6, <3>1, <3>3
    <2>2. Source!Ordered(decoded, cursor)
      BY DEF IInv, OrderInv
    <2>3. QED
      BY <1>1, <1>2, <1>4, <2>1, <2>2, ConcatOrdered
  <1>12. ASSUME Exhausted(page)
         PROVE  Source!Below(Source!Elements(all), fork) = wanted
    <2>1. Len(page) # PageLimit
      BY <1>2, <1>12, PagingAssumption DEF Exhausted, PagingAssumption
    <2>2. \A e \in Start : e \in Source!Elements(page)
      BY <2>1 DEF IsPage, Source!Elements
    <2>3. QED
      BY <1>8, <1>9, <2>2
  <1>13. ASSUME ~Exhausted(page)
         PROVE  /\ last \in Positions /\ last.ledger_sequence =< head
                /\ \A i \in DOMAIN all : ~IsAfter(all[i].at, last)
                /\ Source!Below(Source!Elements(all), fork)
                     = {e \in wanted : ~IsAfter(e.at, last)}
    <2>1. Len(page) = PageLimit /\ Len(page) \in Nat /\ Len(page) >= 1
      BY <1>2, <1>13, PageTypes, PagingAssumption
      DEF Exhausted, PagingAssumption, IInv
    <2>2. Len(page) \in 1..Len(page) /\ DOMAIN page = 1..Len(page)
      BY <1>2, <2>1
    <2>3. page[Len(page)] \in Source!Elements(page)
      BY <2>2 DEF Source!Elements
    <2>4. page[Len(page)] \in Start
      BY <1>3, <2>3
    <2>5. last \in Positions /\ last \in Position /\ last.ledger_sequence =< head
      BY <1>3, <2>4 DEF IInv, ChainInv
    <2>6. ASSUME NEW e \in Source!Elements(page)
          PROVE  ~IsAfter(e.at, last)
      <3>1. PICK i \in 1..Len(page) : e = page[i]
        BY <2>2 DEF Source!Elements
      <3>2. CASE i = Len(page)
        <4>1. e.at = last
          BY <3>1, <3>2
        <4>2. QED
          BY <2>5, <4>1, AfterOrder
      <3>3. CASE i # Len(page)
        <4>1. i < Len(page)
          BY <2>1, <3>3
        <4>2. IsAfter(last, e.at)
          BY <2>2, <3>1, <4>1 DEF IsPage
        <4>3. e.at \in Position
          BY <1>3
        <4>4. QED
          BY <2>5, <4>2, <4>3, AfterOrder
      <3>4. QED
        BY <3>2, <3>3
    <2>7. ASSUME NEW e \in Source!Elements(all)
          PROVE  ~IsAfter(e.at, last)
      <3>1. CASE e \in Source!Elements(decoded)
        <4>1. IsAfter(last, e.at)
          BY <1>6, <2>4, <3>1
        <4>2. QED
          BY <1>3, <2>5, <3>1, <4>1, AfterOrder
      <3>2. CASE e \in Source!Elements(kept)
        BY <1>4, <2>6, <3>2
      <3>3. QED
        BY <1>5, <3>1, <3>2
    <2>8. ASSUME NEW e \in wanted, ~IsAfter(e.at, last)
          PROVE  e \in Source!Below(Source!Elements(all), fork)
      <3>1. e \in Start => e \in Source!Elements(page)
        BY <2>2, <2>8 DEF IsPage, Source!Elements
      <3>2. QED
        BY <1>9, <3>1
    <2>9. \A i \in DOMAIN all : ~IsAfter(all[i].at, last)
      <3> SUFFICES ASSUME NEW i \in DOMAIN all
                   PROVE  ~IsAfter(all[i].at, last)
        OBVIOUS
      <3>1. all[i] \in Source!Elements(all)
        BY DEF Source!Elements
      <3>2. QED
        BY <2>7, <3>1
    <2>10. Source!Below(Source!Elements(all), fork)
             = {e \in wanted : ~IsAfter(e.at, last)}
      <3>1. \A e \in Source!Below(Source!Elements(all), fork) :
              e \in Source!Elements(all)
        BY DEF Source!Below
      <3> HIDE DEF all, wanted, last
      <3>2. QED
        BY <1>8, <2>7, <2>8, <3>1
    <2>11. QED
      BY <2>5, <2>9, <2>10
  <1>14. QED
    BY <1>10, <1>11, <1>12, <1>13

-----------------------------------------------------------------------------
(* The steps.                                                              *)

\* The events of a closing ledger are of that ledger.
LEMMA CloseLedgerTypes ==
    ASSUME IInv, CloseLedger
    PROVE  /\ chain \subseteq chain' /\ chain' \subseteq Events
           /\ \A e \in chain' \ chain : e.at.ledger_sequence = head + 1
           /\ head \in 0..MaxLedger /\ head + 1 \in 1..MaxLedger
           /\ head' = head + 1
  <1>1. /\ MaxLedger \in Nat /\ PerLedger \in Nat
        /\ head \in 0..MaxLedger /\ head + 1 \in 1..MaxLedger
        /\ reorgs \in 0..MaxReorgs /\ chain \subseteq Events
    BY PagingAssumption DEF PagingAssumption, IInv, TypeOK, CloseLedger
  <1>a. PICK n \in 0..PerLedger : \E ok \in [0..n - 1 -> BOOLEAN] :
          chain' = chain \cup
             {[at |-> [ledger_sequence |-> head + 1, operation_index |-> 0,
                       event_index |-> i],
               decodable |-> ok[i], version |-> reorgs] : i \in 0..n - 1}
    BY DEF CloseLedger
  <1>2. PICK ok \in [0..n - 1 -> BOOLEAN] :
          chain' = chain \cup
             {[at |-> [ledger_sequence |-> head + 1, operation_index |-> 0,
                       event_index |-> i],
               decodable |-> ok[i], version |-> reorgs] : i \in 0..n - 1}
    BY <1>a
  <1>3. ASSUME NEW i \in 0..n - 1
        PROVE  [at |-> [ledger_sequence |-> head + 1, operation_index |-> 0,
                        event_index |-> i],
                decodable |-> ok[i], version |-> reorgs] \in Events
    <2>1. i \in 0..PerLedger - 1
      BY <1>1
    <2>2. ok[i] \in BOOLEAN
      OBVIOUS
    <2>3. [ledger_sequence |-> head + 1, operation_index |-> 0,
           event_index |-> i] \in Positions
      BY <1>1, <2>1 DEF Positions
    <2>4. QED
      BY <1>1, <2>2, <2>3 DEF Events
  <1>4. chain' \subseteq Events
    BY <1>1, <1>2, <1>3
  <1>5. \A e \in chain' \ chain : e.at.ledger_sequence = head + 1
    BY <1>2
  <1>6. QED
    BY <1>1, <1>2, <1>4, <1>5 DEF CloseLedger

LEMMA IInvInit == Init => IInv
  <1> SUFFICES ASSUME Init
               PROVE  IInv
    OBVIOUS
  <1>1. MaxLedger \in Nat /\ MaxReorgs \in Nat
    BY PagingAssumption DEF PagingAssumption
  <1>2. TypeOK
    <2>1. decoded \in Seq(Events) /\ result \in Seq(Events)
      BY DEF Init
    <2>2. /\ head \in 0..MaxLedger /\ reorgs \in 0..MaxReorgs /\ fork \in 1..NoFork
          /\ chain \subseteq Events
      BY <1>1 DEF Init, NoFork
    <2>3. /\ calling \in BOOLEAN /\ cursor \in {START} \cup Positions
          /\ page_cursor \in Positions \cup {NoPage}
      BY DEF Init
    <2>4. QED
      BY <2>1, <2>2, <2>3 DEF TypeOK
  <1>3. Source!Ordered(decoded, cursor)
    BY OrderedDef DEF Init
  <1>4. page_cursor = NoPage /\ chain = {}
    BY DEF Init
  <1>5. ChainInv /\ CursorInv /\ OrderInv /\ PrefixInv
    BY <1>3, <1>4 DEF ChainInv, CursorInv, OrderInv, PrefixInv
  <1>6. LocalsInv
    BY DEF Init, LocalsInv
  <1>7. QED
    BY <1>2, <1>5, <1>6 DEF IInv

\* A closing ledger adds nothing at or before the page cursor, or only what
\* lies at or above the first ledger replaced.
LEMMA CloseLedgerStep == IInv /\ CloseLedger => IInv'
  <1> SUFFICES ASSUME IInv, CloseLedger
               PROVE  IInv'
    OBVIOUS
  <1>1. /\ chain \subseteq chain' /\ chain' \subseteq Events
        /\ \A e \in chain' \ chain : e.at.ledger_sequence = head + 1
        /\ head \in 0..MaxLedger /\ head + 1 \in 1..MaxLedger
        /\ head' = head + 1
    BY CloseLedgerTypes
  <1>2. UNCHANGED <<reorgs, calling, cursor, page_cursor, decoded, fork, result>>
    BY DEF CloseLedger
  <1>3. /\ MaxLedger \in Nat /\ fork \in Int
        /\ page_cursor # NoPage => /\ page_cursor \in Position
                                   /\ page_cursor.ledger_sequence \in Int
        /\ \A e \in chain' : e.at.ledger_sequence \in Int
    BY <1>1, PagingAssumption, PositionTypes
    DEF PagingAssumption, IInv, TypeOK, NoFork, Position
  <1>4. TypeOK'
    BY <1>1, <1>2, <1>3 DEF IInv, TypeOK
  <1>5. ChainInv'
    BY <1>1, <1>3 DEF IInv, ChainInv
  <1>6. LocalsInv' /\ OrderInv'
    BY <1>2 DEF IInv, LocalsInv, OrderInv
  <1>7. CursorInv'
    BY <1>1, <1>2, <1>3 DEF IInv, CursorInv
  <1>8. PrefixInv'
    <2> SUFFICES ASSUME page_cursor # NoPage
                 PROVE  Source!Below(Source!Elements(decoded), fork)
                          = {e \in Source!Below(Source!After(chain', cursor), fork) :
                               ~IsAfter(e.at, page_cursor)}
      BY <1>2 DEF PrefixInv
    <2>1. ASSUME NEW e \in chain', e \notin chain, e.at.ledger_sequence < fork
          PROVE  IsAfter(e.at, page_cursor)
      <3>1. e.at.ledger_sequence = head + 1
        BY <1>1, <2>1
      <3>2. page_cursor.ledger_sequence =< head
        BY <1>1, <1>3, <2>1, <3>1 DEF IInv, CursorInv
      <3>3. QED
        BY <1>1, <1>3, <3>1, <3>2 DEF IsAfter
    <2>2. {e \in Source!Below(Source!After(chain', cursor), fork) :
             ~IsAfter(e.at, page_cursor)}
            = {e \in Source!Below(Source!After(chain, cursor), fork) :
                 ~IsAfter(e.at, page_cursor)}
      BY <1>1, <2>1, AfterDef DEF Source!Below
    <2>3. QED
      BY <2>2 DEF IInv, PrefixInv
  <1>9. QED
    BY <1>4, <1>5, <1>6, <1>7, <1>8 DEF IInv

\* A re-org takes events off the chain, and lowers fork to the first of them.
LEMMA ReorgStep ==
    ASSUME IInv, NEW l \in 1..MaxLedger, Reorg(l)
    PROVE  IInv'
  <1>1. /\ MaxLedger \in Nat /\ MaxReorgs \in Nat
        /\ head \in 0..MaxLedger /\ fork \in 1..NoFork
        /\ reorgs \in 0..MaxReorgs
        /\ l \in Int /\ NoFork \in Int
    BY PagingAssumption DEF PagingAssumption, IInv, TypeOK, NoFork
  <1>2. /\ chain' = {e \in chain : e.at.ledger_sequence < l}
        /\ l =< head /\ head' = l - 1
        /\ fork' = IF calling /\ l < fork THEN l ELSE fork
        /\ reorgs' = reorgs + 1 /\ reorgs < MaxReorgs
        /\ UNCHANGED <<calling, cursor, page_cursor, decoded, result>>
    BY DEF Reorg
  <1>3. /\ \A e \in chain : e.at.ledger_sequence \in Int
        /\ \A e \in Source!Elements(decoded) : e.at.ledger_sequence \in Int
    BY <1>1, PositionTypes DEF IInv, TypeOK, Position, Source!Elements
  <1>4. head' \in 0..MaxLedger /\ reorgs' \in 0..MaxReorgs /\ fork' \in 1..NoFork
    BY <1>1, <1>2 DEF NoFork
  <1>5. TypeOK'
    BY <1>2, <1>4 DEF IInv, TypeOK
  <1>6. ChainInv'
    BY <1>1, <1>2, <1>3 DEF ChainInv
  <1>7. LocalsInv' /\ OrderInv'
    BY <1>2 DEF IInv, LocalsInv, OrderInv
  <1>8. page_cursor # NoPage => /\ fork' =< l /\ fork' =< fork
                                /\ fork' =< head' + 1
    <2>1. page_cursor # NoPage => calling
      BY DEF IInv, LocalsInv
    <2>2. QED
      BY <1>1, <1>2, <2>1
  <1>9. CursorInv'
    BY <1>2, <1>8 DEF CursorInv
  <1>10. PrefixInv'
    <2> SUFFICES ASSUME page_cursor # NoPage
                 PROVE  Source!Below(Source!Elements(decoded), fork')
                          = {e \in Source!Below(Source!After(chain', cursor), fork') :
                               ~IsAfter(e.at, page_cursor)}
      BY <1>2 DEF PrefixInv
    <2>1. fork' \in Int /\ fork \in Int /\ fork' =< l /\ fork' =< fork
      BY <1>1, <1>4, <1>8
    <2>2. \A e : e \in Source!Elements(decoded) /\ e.at.ledger_sequence < fork
                  <=> /\ e \in chain /\ e.decodable /\ IsAfter(e.at, cursor)
                      /\ e.at.ledger_sequence < fork /\ ~IsAfter(e.at, page_cursor)
      <3>1. Source!Below(Source!Elements(decoded), fork)
              = {e \in Source!Below(Source!After(chain, cursor), fork) :
                   ~IsAfter(e.at, page_cursor)}
        BY DEF IInv, PrefixInv
      <3>2. QED
        BY <3>1, AfterDef DEF Source!Below
    <2>3. ASSUME NEW e
          PROVE  e \in Source!Elements(decoded) /\ e.at.ledger_sequence < fork'
                  <=> /\ e \in chain' /\ e.decodable /\ IsAfter(e.at, cursor)
                      /\ e.at.ledger_sequence < fork' /\ ~IsAfter(e.at, page_cursor)
      <3>1. CASE e \in Source!Elements(decoded) \cup chain
        <4>1. e.at.ledger_sequence \in Int
          BY <1>3, <3>1
        <4>2. e.at.ledger_sequence < fork' => e.at.ledger_sequence < fork
                                              /\ e.at.ledger_sequence < l
          BY <1>1, <2>1, <4>1
        <4>3. QED
          BY <1>2, <2>2, <4>2
      <3>2. CASE e \notin Source!Elements(decoded) \cup chain
        BY <1>2, <3>2
      <3>3. QED
        BY <3>1, <3>2
    <2>4. QED
      BY <2>3, AfterDef DEF Source!Below
  <1>11. QED
    BY <1>5, <1>6, <1>7, <1>9, <1>10 DEF IInv

\* When a call returns, nothing of it is left.
LEMMA ReturnStep ==
    ASSUME IInv, Return, UNCHANGED chainVars, result' \in Seq(Events)
    PROVE  IInv'
  <1>1. /\ ~calling' /\ cursor' = START /\ page_cursor' = NoPage
        /\ decoded' = <<>> /\ fork' = NoFork
        /\ chain' = chain /\ head' = head /\ reorgs' = reorgs
    BY DEF Return, chainVars
  <1>2. fork' \in 1..NoFork
    BY <1>1, PagingAssumption DEF PagingAssumption, NoFork
  <1>3. calling' \in BOOLEAN
    BY DEF Return
  <1>4. TypeOK'
    BY <1>1, <1>2, <1>3 DEF IInv, TypeOK
  <1>5. Source!Ordered(decoded', cursor')
    BY <1>1, OrderedDef
  <1>6. ChainInv' /\ CursorInv' /\ OrderInv' /\ PrefixInv'
    BY <1>1, <1>5 DEF IInv, ChainInv, CursorInv, OrderInv, PrefixInv
  <1>7. LocalsInv'
    BY <1>1 DEF LocalsInv
  <1>8. QED
    BY <1>4, <1>6, <1>7 DEF IInv

LEMMA CallStep ==
    ASSUME IInv, NEW cur \in {START} \cup Positions, Call(cur)
    PROVE  IInv'
  <1>1. /\ calling' = TRUE /\ cursor' = cur /\ result' = <<>> /\ ~calling
        /\ chain' = chain /\ head' = head /\ reorgs' = reorgs
        /\ page_cursor' = page_cursor /\ decoded' = decoded /\ fork' = fork
    BY DEF Call, chainVars
  <1>2. page_cursor = NoPage /\ decoded = <<>>
    BY <1>1 DEF IInv, LocalsInv
  <1>3. TypeOK'
    BY <1>1 DEF IInv, TypeOK
  <1>4. Source!Ordered(decoded', cursor')
    BY <1>1, <1>2, OrderedDef
  <1>5. ChainInv' /\ CursorInv' /\ OrderInv' /\ PrefixInv'
    BY <1>1, <1>2, <1>4 DEF IInv, ChainInv, CursorInv, OrderInv, PrefixInv
  <1>6. LocalsInv'
    BY <1>1, <1>2 DEF LocalsInv
  <1>7. QED
    BY <1>3, <1>5, <1>6 DEF IInv

LEMMA GetEventsStep == IInv /\ GetEvents => IInv'
  <1> SUFFICES ASSUME IInv, GetEvents
               PROVE  IInv'
    OBVIOUS
  <1>1. calling /\ UNCHANGED chainVars
    BY DEF GetEvents
  <1>2. PICK page \in UNION {[1..n -> Start] : n \in 0..PageLimit} :
          /\ IsPage(page)
          /\ \E at \in UNION {[1..n -> DOMAIN page] : n \in 0..Len(page)} :
              /\ Pushes(page, at)
              /\ LET all == decoded \o [k \in DOMAIN at |-> page[at[k]]]
                 IN  \/ /\ Exhausted(page)
                        /\ result' = all
                        /\ Return
                     \/ /\ ~Exhausted(page)
                        /\ page_cursor' = page[Len(page)].at
                        /\ decoded' = all
                        /\ UNCHANGED <<calling, cursor, fork, result>>
    BY DEF GetEvents
  <1>3. PICK at \in UNION {[1..n -> DOMAIN page] : n \in 0..Len(page)} :
              /\ Pushes(page, at)
              /\ LET all == decoded \o [k \in DOMAIN at |-> page[at[k]]]
                 IN  \/ /\ Exhausted(page)
                        /\ result' = all
                        /\ Return
                     \/ /\ ~Exhausted(page)
                        /\ page_cursor' = page[Len(page)].at
                        /\ decoded' = all
                        /\ UNCHANGED <<calling, cursor, fork, result>>
    BY <1>2
  <1> DEFINE all == decoded \o [k \in DOMAIN at |-> page[at[k]]]
             last == page[Len(page)].at
             wanted == Source!Below(Source!After(chain, cursor), fork)
  <1>4. /\ all \in Seq(Events)
        /\ Source!Ordered(all, cursor)
        /\ ~Exhausted(page) =>
             /\ last \in Positions /\ last.ledger_sequence =< head
             /\ \A i \in DOMAIN all : ~IsAfter(all[i].at, last)
             /\ Source!Below(Source!Elements(all), fork)
                  = {e \in wanted : ~IsAfter(e.at, last)}
    BY <1>1, <1>2, <1>3, PageRead
  <1>5. CASE Exhausted(page) /\ result' = all /\ Return
    BY <1>1, <1>4, <1>5, ReturnStep
  <1>6. CASE /\ ~Exhausted(page) /\ page_cursor' = last /\ decoded' = all
             /\ UNCHANGED <<calling, cursor, fork, result>>
    <2> HIDE DEF all, last
    <2>1. /\ chain' = chain /\ head' = head /\ reorgs' = reorgs
          /\ last \in Positions /\ last # NoPage
      BY <1>1, <1>4, <1>6, PositionTypes DEF chainVars
    <2>2. TypeOK'
      BY <1>4, <1>6, <2>1 DEF IInv, TypeOK
    <2>3. ChainInv' /\ CursorInv'
      BY <1>4, <1>6, <2>1 DEF IInv, ChainInv, CursorInv
    <2>4. LocalsInv'
      BY <1>1, <1>6, <2>1 DEF LocalsInv
    <2>5. OrderInv'
      BY <1>4, <1>6 DEF OrderInv
    <2>6. PrefixInv'
      BY <1>4, <1>6, <2>1 DEF PrefixInv
    <2>7. QED
      BY <2>2, <2>3, <2>4, <2>5, <2>6 DEF IInv
  <1>7. QED
    BY <1>3, <1>5, <1>6

LEMMA IInvStep == IInv /\ [Next]_vars => IInv'
  <1> SUFFICES ASSUME IInv, [Next]_vars
               PROVE  IInv'
    OBVIOUS
  <1>1. CASE RpcError
    <2>1. Return /\ UNCHANGED chainVars /\ result' \in Seq(Events)
      BY <1>1 DEF RpcError, IInv, TypeOK
    <2>2. QED
      BY <2>1, ReturnStep
  <1>2. CASE UNCHANGED vars
    BY <1>2
    DEF vars, IInv, TypeOK, ChainInv, LocalsInv, CursorInv, OrderInv, PrefixInv
  <1>3. QED
    BY <1>1, <1>2, CloseLedgerStep, ReorgStep, CallStep, GetEventsStep DEF Next

LEMMA IInvAlways == Spec => []IInv
  BY IInvInit, IInvStep, PTL DEF Spec

\* The state of the RPC source is well typed, whatever the chain does between
\* two pages: page_cursor is always a position that getEvents returned.
THEOREM PagingTypeCorrect == Spec => []TypeOK
  <1>1. IInv => TypeOK
    BY DEF IInv
  <1>2. QED
    BY <1>1, IInvAlways, PTL

-----------------------------------------------------------------------------
(* The refinement.                                                         *)

LEMMA RefineInit == Init => Source!Init
  BY DEF Init, Source!Init, START, Source!START

\* Every step of the paged read is a step of the atomic one, or none.
LEMMA RefineStep == IInv /\ [Next]_vars => [Source!Next]_(Source!vars)
  <1> SUFFICES ASSUME IInv, [Next]_vars
               PROVE  Source!Next \/ UNCHANGED Source!vars
    OBVIOUS
  <1>1. \A l \in 1..MaxLedger : l \in {e.at.ledger_sequence : e \in Events}
    <2> SUFFICES ASSUME NEW l \in 1..MaxLedger
                 PROVE  l \in {e.at.ledger_sequence : e \in Events}
      OBVIOUS
    <2> DEFINE p == [ledger_sequence |-> l, operation_index |-> 0, event_index |-> 0]
               e == [at |-> p, decodable |-> TRUE, version |-> 0]
    <2>1. p \in Positions
      BY PagingAssumption DEF PagingAssumption, Positions
    <2>2. e \in Events /\ e.at.ledger_sequence = l
      BY <2>1, PagingAssumption DEF PagingAssumption, Events
    <2>3. QED
      BY <2>2
  <1>2. CASE CloseLedger
    <2>1. /\ chain \subseteq chain' /\ chain' \subseteq Events
          /\ \A e \in chain' \ chain : e.at.ledger_sequence = head + 1
          /\ head \in 0..MaxLedger
      BY <1>2, CloseLedgerTypes
    <2>2. \A e \in chain, f \in chain' \ chain : Source!IsAfter(f.at, e.at)
      <3> SUFFICES ASSUME NEW e \in chain, NEW f \in chain' \ chain
                   PROVE  Source!IsAfter(f.at, e.at)
        OBVIOUS
      <3>1. e.at.ledger_sequence =< head /\ f.at.ledger_sequence = head + 1
        BY <2>1 DEF IInv, ChainInv
      <3>2. e.at.ledger_sequence \in Int /\ head \in Int
        BY <2>1, PositionTypes DEF IInv, TypeOK, Position
      <3>3. QED
        BY <3>1, <3>2 DEF Source!IsAfter
    <2>3. Source!Publish
      BY <1>2, <2>1, <2>2 DEF CloseLedger, Source!Publish
    <2>4. QED
      BY <2>3 DEF Source!Next
  <1>3. ASSUME NEW l \in 1..MaxLedger, Reorg(l)
        PROVE  Source!Next
    <2>1. Source!Reorg(l)
      BY <1>3 DEF Reorg, Source!Reorg, Source!Below
    <2>2. QED
      BY <1>1, <2>1 DEF Source!Next
  <1>4. ASSUME NEW cur \in {START} \cup Positions, Call(cur)
        PROVE  Source!Next
    <2>1. Source!Call(cur)
      BY <1>4 DEF Call, Source!Call, chainVars
    <2>2. cur \in {Source!START} \cup {e.at : e \in Events}
      <3>1. CASE cur = START
        BY <3>1 DEF START, Source!START
      <3>2. CASE cur \in Positions
        <4> DEFINE e == [at |-> cur, decodable |-> TRUE, version |-> 0]
        <4>1. e \in Events /\ e.at = cur
          BY <3>2, PagingAssumption DEF PagingAssumption, Events
        <4>2. QED
          BY <4>1
      <3>3. QED
        BY <1>4, <3>1, <3>2
    <2>3. QED
      BY <2>1, <2>2 DEF Source!Next
  <1>5. CASE GetEvents
    <2>1. calling /\ UNCHANGED chainVars
      BY <1>5 DEF GetEvents
    <2>2. PICK page \in UNION {[1..n -> Start] : n \in 0..PageLimit} :
            /\ IsPage(page)
            /\ \E at \in UNION {[1..n -> DOMAIN page] : n \in 0..Len(page)} :
                /\ Pushes(page, at)
                /\ LET all == decoded \o [k \in DOMAIN at |-> page[at[k]]]
                   IN  \/ /\ Exhausted(page)
                          /\ result' = all
                          /\ Return
                       \/ UNCHANGED <<calling, cursor, fork, result>>
      BY <1>5 DEF GetEvents
    <2>3. PICK at \in UNION {[1..n -> DOMAIN page] : n \in 0..Len(page)} :
                /\ Pushes(page, at)
                /\ LET all == decoded \o [k \in DOMAIN at |-> page[at[k]]]
                   IN  \/ /\ Exhausted(page)
                          /\ result' = all
                          /\ Return
                       \/ UNCHANGED <<calling, cursor, fork, result>>
      BY <2>2
    <2> DEFINE all == decoded \o [k \in DOMAIN at |-> page[at[k]]]
    <2>4. /\ Source!Ordered(all, cursor)
          /\ Exhausted(page) =>
               Source!Below(Source!Elements(all), fork)
                 = Source!Below(Source!After(chain, cursor), fork)
      BY <2>1, <2>2, <2>3, PageRead
    <2> HIDE DEF all
    <2>5. CASE Exhausted(page) /\ result' = all /\ Return
      <3>1. Source!Answer
        BY <2>1, <2>4, <2>5
        DEF Source!Answer, Return, chainVars, START, Source!START
      <3>2. QED
        BY <3>1 DEF Source!Next
    <2>6. CASE UNCHANGED <<calling, cursor, fork, result>>
      BY <2>1, <2>6 DEF chainVars, Source!vars
    <2>7. QED
      BY <2>3, <2>5, <2>6 DEF all
  <1>6. CASE RpcError
    <2>1. Source!Fail
      BY <1>6 DEF RpcError, Return, Source!Fail, chainVars, START, Source!START
    <2>2. QED
      BY <2>1 DEF Source!Next
  <1>7. CASE UNCHANGED vars
    BY <1>7 DEF vars, Source!vars
  <1>8. QED
    BY <1>2, <1>3, <1>4, <1>5, <1>6, <1>7 DEF Next

\* events_after of the RPC source keeps the promise of the trait although it
\* reads page by page while ledgers close and are replaced: the paged
\* specification implements the atomic read of EventSource.
THEOREM PagingImplementsSource == Spec => ReadsAtomically
  BY RefineInit, RefineStep, IInvAlways, PTL DEF Spec, ReadsAtomically, Source!Spec
=============================================================================
