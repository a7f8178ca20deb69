---------------------------- MODULE QueriesProofs ----------------------------
(***************************************************************************)
(* Proofs about Queries, for any number of rows, readers and pagers: type  *)
(* correctness, that a read through the decision cache is current, and     *)
(* that a listing covers what was there when it started.                   *)
(***************************************************************************)
EXTENDS Queries, TLAPS, FiniteSetTheorems

\* A page holds rows of the table.
LEMMA PagesOfTable ==
    ASSUME NEW lim, NEW off, NEW page \in Pages(lim, off)
    PROVE  page \subseteq table
<1>1. PICK s \in Orders : page = {s[i] : i \in DOMAIN s \cap (off + 1)..(off + lim)}
  BY DEF Pages
<1>2. \A i \in DOMAIN s : s[i] \in table
  BY DEF Orders, SetToSeqs
<1> QED
  BY <1>1, <1>2

\* What the handlers make of the limit and the offset is an integer.
LEMMA PagingInts ==
    ASSUME NEW listing \in Listings, NEW v \in Int
    PROVE  /\ Limit(listing, v) \in Int
           /\ Offset(listing, v) \in Int
           /\ Echo(listing, v) \in Int
  BY QueriesAssumption DEF Limit, Offset, Echo, Clamp, Max0, Listings

LEMMA TypeInit == Init => TypeOK
  BY DEF Init, TypeOK

\* A step of a reader: the new request is a Request.
LEMMA AnswerType ==
    ASSUME TypeOK, NEW r \in Readers, request[r] # None,
           NEW a \in Answers, Answer(r, a)
    PROVE  request' \in [Readers -> Request \cup {None}]
<1>1. request[r] \in Request
  BY DEF TypeOK
<1>2. [request[r] EXCEPT !.stage = "done", !.answer = a] \in Request
  BY <1>1 DEF Request
<1>3. request' = [request EXCEPT ![r] = [request[r] EXCEPT !.stage = "done", !.answer = a]]
  BY DEF Answer, TypeOK
<1> QED
  BY <1>2, <1>3 DEF TypeOK

LEMMA GotoType ==
    ASSUME TypeOK, NEW r \in Readers, request[r] # None,
           NEW s \in {"lookup", "query", "fill", "done"}, Goto(r, s)
    PROVE  request' \in [Readers -> Request \cup {None}]
  BY DEF TypeOK, Goto, Request

LEMMA ReaderType ==
    ASSUME TypeOK, ReaderNext
    PROVE  TypeOK'
<1>1. ASSUME NEW r \in Readers, NEW api \in Apis, NEW id \in Wanted, Ask(r, api, id)
      PROVE  TypeOK'
  <2>1. [stage |-> IF api = "gql_event" THEN "query" ELSE "lookup", api |-> api,
         id |-> id, early |-> id \in table, answer |-> None] \in Request
    BY DEF Request
  <2> QED
    BY <1>1, <2>1 DEF Ask, TypeOK
<1>2. ASSUME NEW r \in Readers, Lookup(r)
      PROVE  TypeOK'
  <2>1. request[r] # None /\ request[r] \in Request
    BY <1>2 DEF Lookup, Stage, TypeOK
  <2>2. request' \in [Readers -> Request \cup {None}]
    <3>1. CASE Goto(r, "query")
      BY <2>1, <3>1, GotoType
    <3>2. CASE /\ cached[request[r].id] # None
               /\ Answer(r, Served(request[r].api, cached[request[r].id]))
      <4>1. cached[request[r].id] \in Encodings
        BY <2>1, <3>2, QueriesAssumption DEF TypeOK, Request
      <4>2. Served(request[r].api, cached[request[r].id]) \in Answers
        BY <4>1 DEF Served, Encodings, Answers
      <4> QED
        BY <2>1, <3>2, <4>2, AnswerType
    <3> QED
      BY <1>2, <3>1, <3>2 DEF Lookup
  <2> QED
    BY <1>2, <2>2 DEF Lookup, TypeOK
<1>3. ASSUME NEW r \in Readers, Query(r)
      PROVE  TypeOK'
  <2>1. request[r] # None
    BY <1>3 DEF Query, Stage
  <2>2. \/ Goto(r, "fill") \/ Answer(r, "event") \/ Answer(r, "not_found")
        \/ Answer(r, "error")
    BY <1>3 DEF Query, Found
  <2>3. request' \in [Readers -> Request \cup {None}]
    BY <2>1, <2>2, GotoType, AnswerType DEF Answers
  <2> QED
    BY <1>3, <2>3 DEF Query, TypeOK
<1>4. ASSUME NEW r \in Readers, Fill(r)
      PROVE  TypeOK'
  <2>1. request[r] # None
    BY <1>4 DEF Fill, Stage
  <2>2. Encoding(request[r].api) \in Encodings
    BY DEF Encoding, Encodings
  <2>3. request' \in [Readers -> Request \cup {None}]
    BY <1>4, <2>1, <2>2, AnswerType DEF Fill, Answers
  <2>4. cached' \in [Ids -> Encodings \cup {None}]
    BY <1>4, <2>2 DEF Fill, TypeOK
  <2> QED
    BY <1>4, <2>3, <2>4 DEF Fill, TypeOK
<1> QED
  BY <1>1, <1>2, <1>3, <1>4 DEF ReaderNext

LEMMA PagerType ==
    ASSUME TypeOK, PagerNext
    PROVE  TypeOK'
<1>1. ASSUME NEW p \in Pagers, NEW listing \in Listings, NEW ask \in Asks,
             NEW first \in Firsts, Open(p, listing, ask, first)
      PROVE  TypeOK'
  <2>1. ask \in Int /\ Offset(listing, first) \in Int
    BY QueriesAssumption, PagingInts
  <2>2. [stage |-> "paging", listing |-> listing, ask |-> ask,
         offset |-> Offset(listing, first), start |-> table, got |-> {},
         answer |-> None] \in Listing
    BY <2>1 DEF Listing, TypeOK
  <2> QED
    BY <1>1, <2>2 DEF Open, TypeOK
<1>2. ASSUME NEW p \in Pagers, FetchPage(p)
      PROVE  TypeOK'
  <2>1. pager[p] \in Listing
    BY <1>2 DEF FetchPage, Paging, TypeOK
  <2>2. Echo(pager[p].listing, pager[p].ask) \in Int
    BY <2>1, PagingInts, QueriesAssumption DEF Listing
  <2>3. PICK page \in Pages(Limit(pager[p].listing, pager[p].ask), pager[p].offset) :
          pager' = [pager EXCEPT
            ![p].got = @ \cup page,
            ![p].offset = @ + Echo(pager[p].listing, pager[p].ask),
            ![p].stage = IF page = {}
                             \/ Cardinality(page) < Limit(pager[p].listing, pager[p].ask)
                         THEN "done" ELSE "paging"]
    BY <1>2 DEF FetchPage
  <2>4. page \subseteq Ids
    BY <2>3, PagesOfTable DEF TypeOK
  <2> DEFINE turned == [pager[p] EXCEPT
            !.got = @ \cup page,
            !.offset = @ + Echo(pager[p].listing, pager[p].ask),
            !.stage = IF page = {}
                          \/ Cardinality(page) < Limit(pager[p].listing, pager[p].ask)
                      THEN "done" ELSE "paging"]
  <2>5. turned \in Listing
    <3>1. pager[p].got \cup page \in SUBSET Ids
      BY <2>1, <2>4 DEF Listing
    <3>2. pager[p].offset + Echo(pager[p].listing, pager[p].ask) \in Int
      BY <2>1, <2>2 DEF Listing
    <3> QED
      BY <2>1, <3>1, <3>2 DEF Listing
  <2>6. pager' = [pager EXCEPT ![p] = turned]
    BY <2>3 DEF TypeOK
  <2>7. pager' \in [Pagers -> Listing \cup {None}]
    BY <2>5, <2>6 DEF TypeOK
  <2> QED
    BY <1>2, <2>7 DEF FetchPage, TypeOK
<1>3. ASSUME NEW p \in Pagers, FetchFails(p)
      PROVE  TypeOK'
  <2>1. pager[p] \in Listing
    BY <1>3 DEF FetchFails, Paging, TypeOK
  <2> QED
    BY <1>3, <2>1 DEF FetchFails, TypeOK, Listing
<1> QED
  BY <1>1, <1>2, <1>3 DEF PagerNext

LEMMA TypeStep ==
    ASSUME TypeOK, [Next]_vars
    PROVE  TypeOK'
<1>1. ASSUME NEW id \in Ids, Insert(id) \/ Expire(id)
      PROVE  TypeOK'
  BY <1>1 DEF Insert, Expire, TypeOK
<1>2. CASE UNCHANGED vars
  BY <1>2 DEF vars, TypeOK
<1> QED
  BY <1>1, <1>2, ReaderType, PagerType DEF Next

(***************************************************************************)
(* Every variable of the read path keeps its type: in particular only the  *)
(* two encodings of a decision ever enter the cache (CacheDecision).       *)
(***************************************************************************)
THEOREM QueriesTypeCorrect == Spec => []TypeOK
<1> QED
  BY TypeInit, TypeStep, PTL DEF Spec

-----------------------------------------------------------------------------
(* Reads are current: what a reader and the cache know is in the table *)

CacheBacked == \A id \in Ids : cached[id] # None => id \in table

ReaderBacked(r) ==
    request[r] # None =>
        /\ request[r].early => request[r].id \in table
        /\ request[r].stage = "fill" => request[r].id \in table
        /\ request[r].stage = "done" /\ request[r].answer \in Encodings \cup {"event"}
              => request[r].id \in table
        /\ request[r].stage = "done" /\ request[r].answer = "not_found"
              => ~request[r].early

Backed == CacheBacked /\ \A r \in Readers : ReaderBacked(r)

\* Rows are never deleted, so what is backed stays backed.
LEMMA OtherBacked ==
    ASSUME TypeOK, Backed, table \subseteq table',
           NEW r \in Readers, request'[r] = request[r]
    PROVE  ReaderBacked(r)'
  BY DEF Backed, ReaderBacked

LEMMA BackedAsk ==
    ASSUME TypeOK, Backed, NEW r \in Readers, NEW api \in Apis, NEW id \in Wanted,
           Ask(r, api, id)
    PROVE  Backed'
<1>1. ReaderBacked(r)'
  BY DEF Ask, ReaderBacked, TypeOK
<1>2. \A x \in Readers \ {r} : ReaderBacked(x)'
  <2>1. \A x \in Readers \ {r} : request'[x] = request[x]
    BY DEF Ask, TypeOK
  <2> QED
    BY <2>1, OtherBacked DEF Ask
<1> QED
  BY <1>1, <1>2 DEF Backed, CacheBacked, Ask

LEMMA BackedLookup ==
    ASSUME TypeOK, Backed, NEW r \in Readers, Lookup(r)
    PROVE  Backed'
<1>1. request[r] # None /\ request[r] \in Request /\ request[r].id \in Ids
  BY QueriesAssumption DEF Lookup, Stage, TypeOK, Request
<1>2. ReaderBacked(r)'
  <2>1. CASE Goto(r, "query")
    BY <1>1, <2>1 DEF Goto, Lookup, Backed, ReaderBacked, TypeOK, Request
  <2>2. CASE /\ cached[request[r].id] # None
             /\ Answer(r, Served(request[r].api, cached[request[r].id]))
    <3>1. cached[request[r].id] \in Encodings /\ request[r].id \in table
      BY <1>1, <2>2 DEF TypeOK, Backed, CacheBacked
    <3>2. Served(request[r].api, cached[request[r].id]) # "not_found"
      BY <3>1 DEF Served, Encodings
    <3> QED
      BY <1>1, <2>2, <3>1, <3>2 DEF Answer, Lookup, Backed, ReaderBacked, TypeOK, Request
  <2> QED
    BY <2>1, <2>2 DEF Lookup
<1>3. \A x \in Readers \ {r} : ReaderBacked(x)'
  <2>1. \A x \in Readers \ {r} : request'[x] = request[x]
    BY DEF Lookup, Goto, Answer, TypeOK
  <2> QED
    BY <2>1, OtherBacked DEF Lookup
<1> QED
  BY <1>2, <1>3 DEF Backed, CacheBacked, Lookup

LEMMA BackedQuery ==
    ASSUME TypeOK, Backed, NEW r \in Readers, Query(r)
    PROVE  Backed'
<1>1. request[r] # None /\ request[r] \in Request
  BY DEF Query, Stage, TypeOK
<1>2. ReaderBacked(r)'
  <2>1. CASE request[r].id \in table /\ Found(r)
    BY <1>1, <2>1 DEF Found, Goto, Answer, Query, Backed, ReaderBacked, TypeOK, Request,
                      Encodings
  <2>2. CASE request[r].id \notin table /\ Answer(r, "not_found")
    BY <1>1, <2>2 DEF Answer, Query, Backed, ReaderBacked, TypeOK, Request, Encodings
  <2>3. CASE Answer(r, "error")
    BY <1>1, <2>3 DEF Answer, Query, Backed, ReaderBacked, TypeOK, Request, Encodings
  <2> QED
    BY <2>1, <2>2, <2>3 DEF Query
<1>3. \A x \in Readers \ {r} : ReaderBacked(x)'
  <2>1. \A x \in Readers \ {r} : request'[x] = request[x]
    BY DEF Query, Found, Goto, Answer, TypeOK
  <2> QED
    BY <2>1, OtherBacked DEF Query
<1> QED
  BY <1>2, <1>3 DEF Backed, CacheBacked, Query

LEMMA BackedFill ==
    ASSUME TypeOK, Backed, NEW r \in Readers, Fill(r)
    PROVE  Backed'
<1>1. request[r] # None /\ request[r] \in Request /\ request[r].id \in table
  BY DEF Fill, Stage, TypeOK, Backed, ReaderBacked
<1>2. ReaderBacked(r)'
  <2>1. Encoding(request[r].api) # "not_found"
    BY DEF Encoding
  <2> QED
    BY <1>1, <2>1 DEF Answer, Fill, Backed, ReaderBacked, TypeOK, Request
<1>3. \A x \in Readers \ {r} : ReaderBacked(x)'
  <2>1. \A x \in Readers \ {r} : request'[x] = request[x]
    BY DEF Fill, Answer, TypeOK
  <2> QED
    BY <2>1, OtherBacked DEF Fill
<1>4. CacheBacked'
  BY <1>1 DEF Fill, Backed, CacheBacked, TypeOK
<1> QED
  BY <1>2, <1>3, <1>4 DEF Backed

LEMMA BackedStep ==
    ASSUME TypeOK, Backed, [Next]_vars
    PROVE  Backed'
<1>1. ASSUME NEW id \in Ids, Insert(id) \/ Expire(id)
      PROVE  Backed'
  <2>1. \A r \in Readers : ReaderBacked(r)'
    BY <1>1, OtherBacked DEF Insert, Expire
  <2>2. CacheBacked'
    BY <1>1 DEF Insert, Expire, Backed, CacheBacked, TypeOK
  <2> QED
    BY <2>1, <2>2 DEF Backed
<1>2. CASE ReaderNext
  BY <1>2, BackedAsk, BackedLookup, BackedQuery, BackedFill DEF ReaderNext
<1>3. CASE PagerNext \/ UNCHANGED vars
  <2>1. UNCHANGED <<table, cached, request>>
    BY <1>3 DEF PagerNext, Open, FetchPage, FetchFails, vars
  <2> QED
    BY <2>1 DEF Backed, CacheBacked, ReaderBacked
<1> QED
  BY <1>1, <1>2, <1>3 DEF Next

(***************************************************************************)
(* However many clients share the cache keys, and however often Redis      *)
(* fails or forgets, getDecision, Decision and Event answer a row only     *)
(* once it is stored and "not found" only when it was not stored before    *)
(* the request.                                                            *)
(***************************************************************************)
THEOREM ReadsAreCurrent == Spec => []ReadsCurrent
<1>1. Init => Backed
  BY DEF Init, Backed, CacheBacked, ReaderBacked
<1>2. Backed => ReadsCurrent
  BY DEF Backed, ReaderBacked, ReadsCurrent, Answered, Stage
<1> QED
  BY <1>1, <1>2, BackedStep, QueriesTypeCorrect, PTL DEF Spec

-----------------------------------------------------------------------------
(* Pages.  A row whose time it shares with no other has one place in every  *)
(* order of the listing: the number of rows at least as new.  Inserts only  *)
(* push it back, so the client, whose offset advances by a page, meets it.  *)

ByPage(l) ==
    /\ l.listing = "rest" \/ l.ask > 0
    /\ l.listing = "gql_decisions" => l.ask <= MaxPage

Ahead(x) == {y \in table : Stamp[y] >= Stamp[x]}

PagerCovers(p) ==
    LET l == pager[p] IN
    l # None /\ l.answer = None /\ ByPage(l) =>
        /\ l.start \subseteq table
        /\ \A x \in l.start \ Tied :
              x \in l.got \/ (l.stage = "paging" /\ Cardinality(Ahead(x)) > l.offset)

CoverInv == IsFiniteSet(table) /\ \A p \in Pagers : PagerCovers(p)

\* Nobody starts behind the first page.
FromTheTop == \A first \in Firsts : first <= 0

\* A client that pages advances by the size of its pages.
LEMMA PageSize ==
    ASSUME NEW l \in Listing, ByPage(l)
    PROVE  /\ Limit(l.listing, l.ask) \in Nat \ {0}
           /\ Echo(l.listing, l.ask) = Limit(l.listing, l.ask)
<1>1. l.ask \in Int /\ l.listing \in Listings /\ MaxPage \in Nat \ {0}
  BY QueriesAssumption DEF Listing
<1> QED
  BY <1>1 DEF ByPage, Limit, Echo, Clamp, Listings

\* The page of the listing s that a client reads.
Slice(s, off, lim) == {s[i] : i \in DOMAIN s \cap (off + 1)..(off + lim)}

\* An order of the listing counts the rows through.
LEMMA OrderParts ==
    ASSUME IsFiniteSet(table), NEW s \in Orders
    PROVE  /\ Cardinality(table) \in Nat /\ DOMAIN s = 1..Cardinality(table)
           /\ \A i, j \in DOMAIN s : s[i] = s[j] => i = j
           /\ \A x \in table : \E i \in DOMAIN s : s[i] = x
<1>1. PICK n \in Nat : n = Cardinality(table)
  BY FS_CardinalityType
<1>2. s \in [1..n -> table] /\ \A i, j \in 1..n : i # j => s[i] # s[j]
  BY <1>1 DEF Orders, SetToSeqs
<1>3. s \in Injection(1..n, table)
  BY <1>2 DEF Injection, IsInjective
<1>4. IsFiniteSet(1..n) /\ Cardinality(1..n) = n
  BY FS_Interval
<1>5. s \in Surjection(1..n, table)
  BY <1>1, <1>3, <1>4, FS_Injection
<1> QED
  BY <1>1, <1>2, <1>5 DEF Surjection

\* A stretch of an order has as many rows as places.
LEMMA SliceCount ==
    ASSUME IsFiniteSet(table), NEW s \in Orders, NEW a \in Int, NEW b \in Int,
           a..b \subseteq DOMAIN s
    PROVE  /\ IsFiniteSet({s[i] : i \in a..b})
           /\ Cardinality({s[i] : i \in a..b}) = Cardinality(a..b)
<1> DEFINE f == [i \in a..b |-> s[i]]
           T == {s[i] : i \in a..b}
<1>1. f \in Bijection(a..b, T)
  BY OrderParts DEF Bijection, Injection, Surjection, IsInjective
<1> HIDE DEF f, T
<1>2. IsFiniteSet(a..b)
  BY FS_Interval
<1>3. IsFiniteSet(T) /\ Cardinality(T) = Cardinality(a..b)
  BY <1>1, <1>2, FS_Bijection DEF ExistsBijection
<1> QED
  BY <1>3 DEF T

\* The place of an untied row is the number of rows at least as new.
LEMMA PlaceOfRow ==
    ASSUME TypeOK, IsFiniteSet(table), NEW s \in Orders, NEW x \in table \ Tied,
           NEW i \in DOMAIN s, s[i] = x
    PROVE  Cardinality(Ahead(x)) = i
<1>1. /\ DOMAIN s = 1..Cardinality(table) /\ Cardinality(table) \in Nat
      /\ \A j, k \in DOMAIN s : s[j] = s[k] => j = k
      /\ \A y \in table : \E j \in DOMAIN s : s[j] = y
  BY OrderParts
<1>2. i \in Nat \ {0} /\ 1..i \subseteq DOMAIN s
  BY <1>1
<1>3. \A j \in DOMAIN s : s[j] \in table /\ s[j] \in Ids
  BY <1>1 DEF Orders, SetToSeqs, TypeOK
<1>4. \A j \in DOMAIN s : Stamp[s[j]] \in Nat
  BY <1>3, QueriesAssumption
<1>5. ASSUME NEW j \in DOMAIN s
      PROVE  Stamp[s[j]] >= Stamp[x] <=> j <= i
  <2>1. CASE j < i
    BY <1>1, <2>1 DEF Orders
  <2>2. CASE j = i
    BY <1>1, <1>4, <2>2
  <2>3. CASE j > i
    <3>1. Stamp[x] >= Stamp[s[j]]
      BY <1>1, <2>3 DEF Orders
    <3>2. s[j] # x
      BY <1>1, <2>3
    <3>3. Stamp[s[j]] # Stamp[x]
      BY <1>3, <3>2 DEF Tied, TypeOK
    <3> QED
      BY <1>1, <1>4, <2>3, <3>1, <3>3
  <2> QED
    BY <1>1, <2>1, <2>2, <2>3
<1>6. Ahead(x) = {s[j] : j \in 1..i}
  <2>1. \A j \in 1..i : s[j] \in Ahead(x)
    BY <1>2, <1>3, <1>5 DEF Ahead
  <2>2. ASSUME NEW y \in Ahead(x)
        PROVE  \E j \in 1..i : s[j] = y
    <3>1. PICK j \in DOMAIN s : s[j] = y
      BY <1>1 DEF Ahead
    <3>2. j \in 1..i
      BY <1>1, <1>5, <3>1 DEF Ahead
    <3> QED
      BY <3>1, <3>2
  <2> QED
    BY <2>1, <2>2
<1>7. Cardinality({s[j] : j \in 1..i}) = Cardinality(1..i) /\ Cardinality(1..i) = i
  <2>1. 1 \in Int /\ i \in Int
    BY <1>2
  <2>2. Cardinality({s[j] : j \in 1..i}) = Cardinality(1..i)
    BY <1>2, <2>1, SliceCount
  <2>3. Cardinality(1..i) = i
    BY <1>2, <2>1, FS_Interval
  <2> QED
    BY <2>2, <2>3
<1> QED
  BY <1>6, <1>7

\* A page brings the row, or the row is still to come and the page is full.
LEMMA PageOrLater ==
    ASSUME TypeOK, IsFiniteSet(table), NEW off \in Nat, NEW lim \in Nat \ {0},
           NEW page \in Pages(lim, off), NEW x \in table \ Tied,
           Cardinality(Ahead(x)) > off
    PROVE  \/ x \in page
           \/ Cardinality(Ahead(x)) > off + lim /\ page # {} /\ Cardinality(page) = lim
<1>1. PICK s \in Orders : page = Slice(s, off, lim)
  BY DEF Pages, Slice
<1>2. /\ DOMAIN s = 1..Cardinality(table) /\ Cardinality(table) \in Nat
      /\ \E i \in DOMAIN s : s[i] = x
  BY OrderParts
<1>3. PICK i \in DOMAIN s : s[i] = x
  BY <1>2
<1>4. Cardinality(Ahead(x)) = i /\ i \in Nat
  BY <1>2, <1>3, PlaceOfRow
<1>5. CASE i <= off + lim
  BY <1>1, <1>2, <1>3, <1>4, <1>5 DEF Slice
<1>6. CASE i > off + lim
  <2>1. (off + 1)..(off + lim) \subseteq DOMAIN s
    BY <1>2, <1>6
  <2>2. page = {s[j] : j \in (off + 1)..(off + lim)}
    BY <1>1, <2>1 DEF Slice
  <2>3. Cardinality((off + 1)..(off + lim)) = lim
    BY FS_Interval
  <2>4. Cardinality(page) = lim
    <3>1. off + 1 \in Int /\ off + lim \in Int
      OBVIOUS
    <3> QED
      BY <2>1, <2>2, <2>3, <3>1, SliceCount
  <2>5. page # {}
    BY <2>4, FS_EmptySet
  <2> QED
    BY <1>4, <1>6, <2>4, <2>5
<1> QED
  BY <1>4, <1>5, <1>6

\* Rows are never deleted, so a listing that is left alone stays covered.
LEMMA CoversStays ==
    ASSUME TypeOK, CoverInv, table \subseteq table', IsFiniteSet(table'),
           NEW p \in Pagers, pager'[p] = pager[p]
    PROVE  PagerCovers(p)'
<1> SUFFICES ASSUME pager[p] # None, pager[p].answer = None, ByPage(pager[p])
             PROVE  /\ pager[p].start \subseteq table'
                    /\ \A x \in pager[p].start \ Tied :
                          \/ x \in pager[p].got
                          \/ pager[p].stage = "paging" /\ Cardinality(Ahead(x)') > pager[p].offset
  BY DEF PagerCovers, Ahead, ByPage
<1>1. /\ pager[p].start \subseteq table
      /\ \A x \in pager[p].start \ Tied :
            \/ x \in pager[p].got
            \/ pager[p].stage = "paging" /\ Cardinality(Ahead(x)) > pager[p].offset
  BY DEF CoverInv, PagerCovers
<1>2. pager[p].offset \in Int
  BY DEF TypeOK, Listing
<1>3. ASSUME NEW x
      PROVE  /\ Cardinality(Ahead(x)) \in Nat /\ Cardinality(Ahead(x)') \in Nat
             /\ Cardinality(Ahead(x)) <= Cardinality(Ahead(x)')
  <2>1. Ahead(x) \subseteq Ahead(x)' /\ Ahead(x)' \subseteq table' /\ Ahead(x) \subseteq table
    BY DEF Ahead
  <2>2. IsFiniteSet(Ahead(x)')
    BY <2>1, FS_Subset
  <2>3. IsFiniteSet(Ahead(x)) /\ Cardinality(Ahead(x)) <= Cardinality(Ahead(x)')
    BY <2>1, <2>2, FS_Subset
  <2> QED
    BY <2>2, <2>3, FS_CardinalityType
<1> QED
  BY <1>1, <1>2, <1>3

\* A listing starts on the first page, or fails.
LEMMA CoversOpen ==
    ASSUME FromTheTop, TypeOK, CoverInv, NEW p \in Pagers, NEW listing \in Listings,
           NEW ask \in Asks, NEW first \in Firsts, Open(p, listing, ask, first)
    PROVE  PagerCovers(p)'
<1>1. /\ pager'[p].start = table /\ pager'[p].stage = "paging"
      /\ pager'[p].offset = Offset(listing, first) /\ UNCHANGED table
  BY DEF Open, TypeOK
<1>2. Offset(listing, first) <= 0 /\ Offset(listing, first) \in Int
  BY QueriesAssumption DEF FromTheTop, Offset, Max0
<1>3. ASSUME NEW x \in table
      PROVE  Cardinality(Ahead(x)) \in Nat \ {0}
  <2>1. IsFiniteSet(Ahead(x))
    BY FS_Subset DEF CoverInv, Ahead
  <2>2. x \in Ahead(x)
    BY QueriesAssumption DEF Ahead, TypeOK
  <2> QED
    BY <2>1, <2>2, FS_CardinalityType, FS_EmptySet
<1>4. \A x \in table : Cardinality(Ahead(x)) > Offset(listing, first)
  BY <1>2, <1>3
<1> QED
  BY <1>1, <1>4 DEF PagerCovers, Ahead

\* A page moves the client on.
LEMMA CoversPage ==
    ASSUME TypeOK, CoverInv, NEW p \in Pagers, FetchPage(p)
    PROVE  PagerCovers(p)'
<1>1. pager[p] # None /\ pager[p] \in Listing /\ pager[p].stage = "paging"
  BY DEF FetchPage, Paging, TypeOK
<1>2. PICK l \in Listing : l = pager[p]
  BY <1>1
<1>3. PICK page \in Pages(Limit(l.listing, l.ask), l.offset) :
         pager' = [pager EXCEPT ![p].got = @ \cup page,
                                ![p].offset = @ + Echo(l.listing, l.ask),
                                ![p].stage = IF page = {} \/ Cardinality(page) < Limit(l.listing, l.ask)
                                             THEN "done" ELSE "paging"]
  BY <1>2 DEF FetchPage
<1>4. UNCHANGED table /\ l.offset \in Nat
  BY <1>2 DEF FetchPage, Listing
<1>5. /\ pager'[p].listing = l.listing /\ pager'[p].ask = l.ask /\ pager'[p].start = l.start
      /\ pager'[p].answer = l.answer /\ pager'[p].got = l.got \cup page
      /\ pager'[p].offset = l.offset + Echo(l.listing, l.ask)
      /\ pager'[p].stage = IF page = {} \/ Cardinality(page) < Limit(l.listing, l.ask)
                           THEN "done" ELSE "paging"
  BY <1>2, <1>3 DEF TypeOK, Listing
<1> SUFFICES ASSUME l.answer = None, ByPage(l)
             PROVE  /\ l.start \subseteq table
                    /\ \A x \in l.start \ Tied :
                          \/ x \in pager'[p].got
                          \/ /\ pager'[p].stage = "paging"
                             /\ Cardinality(Ahead(x)) > pager'[p].offset
  BY <1>4, <1>5 DEF PagerCovers, ByPage, Ahead
<1>6. PICK lim \in Nat \ {0} : lim = Limit(l.listing, l.ask) /\ lim = Echo(l.listing, l.ask)
  BY PageSize
<1>7. /\ l.start \subseteq table
      /\ \A x \in l.start \ Tied : x \in l.got \/ Cardinality(Ahead(x)) > l.offset
  BY <1>1, <1>2 DEF CoverInv, PagerCovers
<1>8. ASSUME NEW x \in l.start \ Tied, x \notin l.got
      PROVE  \/ x \in page
             \/ /\ pager'[p].stage = "paging"
                /\ Cardinality(Ahead(x)) > pager'[p].offset
  <2>1. \/ x \in page
        \/ Cardinality(Ahead(x)) > l.offset + lim /\ page # {} /\ Cardinality(page) = lim
    BY <1>3, <1>4, <1>6, <1>7, <1>8, PageOrLater DEF CoverInv
  <2> QED
    BY <1>5, <1>6, <2>1
<1> QED
  BY <1>5, <1>7, <1>8

LEMMA CoverStep ==
    ASSUME FromTheTop, TypeOK, CoverInv, [Next]_vars
    PROVE  CoverInv'
<1>1. table \subseteq table' /\ IsFiniteSet(table')
  <2>1. UNCHANGED table \/ \E id \in Ids : table' = table \cup {id}
    BY DEF Next, Insert, Expire, ReaderNext, Ask, Lookup, Query, Fill, PagerNext, Open, FetchPage,
           FetchFails, vars
  <2> QED
    BY <2>1, FS_AddElement DEF CoverInv
<1>2. ASSUME NEW p \in Pagers, pager'[p] # pager[p]
      PROVE  PagerCovers(p)'
  <2>1. PICK q \in Pagers :
           \/ \E listing \in Listings, ask \in Asks, first \in Firsts : Open(q, listing, ask, first)
           \/ FetchPage(q) \/ FetchFails(q)
    BY <1>2 DEF Next, Insert, Expire, ReaderNext, Ask, Lookup, Query, Fill, PagerNext, vars
  <2>2. q = p
    BY <1>2, <2>1 DEF TypeOK, Open, FetchPage, FetchFails
  <2>3. CASE FetchFails(p)
    <3>1. pager'[p].answer = "error" /\ "error" # None
      BY <2>3, QueriesAssumption DEF FetchFails, TypeOK
    <3> QED
      BY <3>1 DEF PagerCovers
  <2> QED
    BY <2>1, <2>2, <2>3, CoversOpen, CoversPage
<1> QED
  BY <1>1, <1>2, CoversStays DEF CoverInv

(***************************************************************************)
(* A client that pages from the first page (listDecisions, listEvents,     *)
(* Decisions, Events) by the limit the handler honours receives every row  *)
(* that was stored when it started, whatever is inserted between its       *)
(* pages, as long as the row shares its time with no other.                *)
(***************************************************************************)
THEOREM ListingsCoverStart ==
    ASSUME FromTheTop
    PROVE  Spec => []PagesCoverStart
<1>1. Init => CoverInv
  BY FS_EmptySet DEF Init, CoverInv, PagerCovers
<1>2. CoverInv => PagesCoverStart
  BY DEF CoverInv, PagerCovers, PagesCoverStart, ByPage
<1> QED
  BY <1>1, <1>2, CoverStep, QueriesTypeCorrect, PTL DEF Spec

=============================================================================
