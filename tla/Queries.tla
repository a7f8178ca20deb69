------------------------------- MODULE Queries -------------------------------
(***************************************************************************)
(* The read path of the API.  GET /decisions/:id (api/rest) and the        *)
(* decision query (api/graphql) read through the same em:dec:<id> keys in  *)
(* Redis; the listings of decisions and events page through a table that   *)
(* grows meanwhile.  Both tables are listed newest first by a time that    *)
(* was taken before the row was inserted, so a row can land anywhere.      *)
(***************************************************************************)
EXTENDS Integers, SequencesExt

CONSTANTS
    Ids,       \* the rows that may be inserted
    Stamp,     \* id -> its processed_at (decisions) or ts (events)
    Wanted,    \* the ids that are asked for one at a time
    Readers,   \* the requests for one decision
    Pagers,    \* the clients that page through a listing
    Asks,      \* the limits they ask for
    Firsts,    \* the offsets they start from
    MaxPage,   \* the largest page the handlers allow (100)
    Flaky,     \* the services whose calls may fail
    None       \* no blob, no request, no error

ASSUME QueriesAssumption ==
    /\ Stamp \in [Ids -> Nat] /\ Wanted \subseteq Ids
    /\ Asks \subseteq Int /\ Firsts \subseteq Int /\ MaxPage \in Nat \ {0}
    /\ None # "error"

VARIABLES
    table,     \* ids of the rows of the table
    cached,    \* id -> what em:dec:<id> holds
    request,   \* reader -> its request, from the call to the answer
    pager      \* pager -> its listing, from the first page to the last

vars == <<table, cached, request, pager>>

\* getDecision of api/rest, Decision and Event of api/graphql.
Apis == {"rest", "graphql", "gql_event"}

(***************************************************************************)
(* A decision as JSON: the record (agent.Decision, field names as in Go,   *)
(* everything) that REST encodes, the view (model.Decision, camelCase,     *)
(* without prompt, response, status and retry count) that GraphQL encodes, *)
(* and what GraphQL decodes from a record: error "" where a view has null. *)
(***************************************************************************)
Encodings == {"record", "view", "view_of_record"}

Encoding(api) == IF api = "rest" THEN "record" ELSE "view"

\* REST sends the blob as it is; GraphQL unmarshals it, whatever wrote it.
Served(api, blob) ==
    IF api = "graphql" /\ blob = "record" THEN "view_of_record" ELSE blob

Answers == Encodings \cup {"event", "not_found", "error"}

Request ==
    [stage : {"lookup", "query", "fill", "done"}, api : Apis, id : Wanted,
     early : BOOLEAN, answer : Answers \cup {None}]

Listings == {"rest", "gql_decisions", "gql_events"}

Listing ==
    [stage : {"paging", "done"}, listing : Listings, ask : Asks, offset : Int,
     start : SUBSET Ids, got : SUBSET Ids, answer : {None, "error"}]

TypeOK ==
    /\ table \in SUBSET Ids
    /\ cached \in [Ids -> Encodings \cup {None}]
    /\ request \in [Readers -> Request \cup {None}]
    /\ pager \in [Pagers -> Listing \cup {None}]

Init ==
    /\ table = {}
    /\ cached = [id \in Ids |-> None]
    /\ request = [r \in Readers |-> None]
    /\ pager = [p \in Pagers |-> None]

MayFail(s) == s \in Flaky

-----------------------------------------------------------------------------
(* The tables and Redis *)

\* A worker stores a decision, or the API an event.
Insert(id) ==
    /\ id \notin table
    /\ table' = table \cup {id}
    /\ UNCHANGED <<cached, request, pager>>

\* decisionTTL
Expire(id) ==
    /\ cached[id] # None
    /\ cached' = [cached EXCEPT ![id] = None]
    /\ UNCHANGED <<table, request, pager>>

-----------------------------------------------------------------------------
(* getDecision, Decision and Event: one action per call *)

Stage(r) == IF request[r] = None THEN "none" ELSE request[r].stage

Goto(r, s) == request' = [request EXCEPT ![r].stage = s]
Answer(r, a) == request' = [request EXCEPT ![r].stage = "done", ![r].answer = a]

\* A client asks; early remembers whether the row existed by then.  Events
\* are not cached.
Ask(r, api, id) ==
    /\ request[r] = None
    /\ request' = [request EXCEPT ![r] =
           [stage |-> IF api = "gql_event" THEN "query" ELSE "lookup", api |-> api, id |-> id, early |-> id \in table,
            answer |-> None]]
    /\ UNCHANGED <<table, cached, pager>>

\* cache.GetDecision: an error is a miss.
Lookup(r) ==
    LET blob == cached[request[r].id] IN
    /\ Stage(r) = "lookup"
    /\ \/ blob # None /\ Answer(r, Served(request[r].api, blob))
       \/ (blob = None \/ MayFail("redis")) /\ Goto(r, "query")
    /\ UNCHANGED <<table, cached, pager>>

\* Variant: the absence of a decision is cached as well.
QueryCachesMiss(r) ==
    LET id == request[r].id IN
    /\ Stage(r) = "query"
    /\ IF id \in table THEN Goto(r, "fill") /\ UNCHANGED cached
       ELSE Answer(r, "not_found") /\ cached' = [cached EXCEPT ![id] = "not_found"]
    /\ UNCHANGED <<table, pager>>

\* What a handler does with the row it found.
Found(r) == IF request[r].api = "gql_event" THEN Answer(r, "event") ELSE Goto(r, "fill")

\* db.GetDecision, db.GetEventByID; ErrNoRows answers 404 (REST) or null.
Query(r) ==
    /\ Stage(r) = "query"
    /\ \/ request[r].id \in table /\ Found(r)
       \/ request[r].id \notin table /\ Answer(r, "not_found")
       \/ MayFail("postgres") /\ Answer(r, "error")
    /\ UNCHANGED <<table, cached, pager>>

\* cache.CacheDecision, whose error, with or without effect, is ignored.
Fill(r) ==
    LET a == Encoding(request[r].api) IN
    /\ Stage(r) = "fill"
    /\ \/ cached' = [cached EXCEPT ![request[r].id] = a]
       \/ MayFail("redis") /\ UNCHANGED cached
    /\ Answer(r, a)
    /\ UNCHANGED <<table, pager>>

-----------------------------------------------------------------------------
(* listDecisions and listEvents, Decisions and Events *)

Clamp(v, lo, hi) == IF v < lo THEN lo ELSE IF v > hi THEN hi ELSE v
Max0(v) == IF v < 0 THEN 0 ELSE v

\* The LIMIT and OFFSET a handler passes on.
Limit(listing, ask) ==
    CASE listing = "rest"          -> Clamp(ask, 1, MaxPage)
      [] listing = "gql_decisions" -> IF ask > MaxPage THEN MaxPage ELSE ask
      [] listing = "gql_events"    -> ask

Offset(listing, first) == IF listing = "rest" THEN Max0(first) ELSE first

\* Variant: the response repeats the limit of the request.
EchoAsked(listing, ask) == ask

\* What the client takes for the page size: REST echoes the limit it used,
\* GraphQL has no such field.
Echo(listing, ask) == IF listing = "rest" THEN Limit(listing, ask) ELSE ask

(***************************************************************************)
(* ORDER BY ... DESC LIMIT lim OFFSET off: Postgres may order rows of the  *)
(* same time differently from query to query.                              *)
(***************************************************************************)
Orders ==
    {s \in SetToSeqs(table) :
        \A i, j \in DOMAIN s : i < j => Stamp[s[i]] >= Stamp[s[j]]}

Pages(lim, off) ==
    {{s[i] : i \in DOMAIN s \cap (off + 1)..(off + lim)} : s \in Orders}

Paging(p) == IF pager[p] = None THEN FALSE ELSE pager[p].stage = "paging"

Open(p, listing, ask, first) ==
    /\ pager[p] = None
    /\ pager' = [pager EXCEPT ![p] =
           [stage |-> "paging", listing |-> listing, ask |-> ask,
            offset |-> Offset(listing, first), start |-> table, got |-> {},
            answer |-> None]]
    /\ UNCHANGED <<table, cached, request>>

\* One page; the client goes on until a page is not full.
FetchPage(p) ==
    LET l == pager[p]
        lim == Limit(l.listing, l.ask)
        step == Echo(l.listing, l.ask)
    IN
    /\ Paging(p)
    /\ lim >= 0 /\ l.offset >= 0
    /\ \E page \in Pages(lim, l.offset) :
          pager' = [pager EXCEPT ![p].got = @ \cup page,
                                 ![p].offset = @ + step,
                                 ![p].stage = IF page = {} \/ Cardinality(page) < lim
                                              THEN "done" ELSE "paging"]
    /\ UNCHANGED <<table, cached, request>>

\* Postgres rejects a negative LIMIT or OFFSET, or fails.
FetchFails(p) ==
    LET l == pager[p] IN
    /\ Paging(p)
    /\ \/ Limit(l.listing, l.ask) < 0 \/ l.offset < 0
       \/ MayFail("postgres")
    /\ pager' = [pager EXCEPT ![p].stage = "done", ![p].answer = "error"]
    /\ UNCHANGED <<table, cached, request>>

ReaderNext ==
    \E r \in Readers :
        \/ \E api \in Apis, id \in Wanted : Ask(r, api, id)
        \/ Lookup(r) \/ Query(r) \/ Fill(r)

PagerNext ==
    \E p \in Pagers :
        \/ \E listing \in Listings, ask \in Asks, first \in Firsts : Open(p, listing, ask, first)
        \/ FetchPage(p) \/ FetchFails(p)

Next ==
    \/ \E id \in Ids : Insert(id) \/ Expire(id)
    \/ ReaderNext
    \/ PagerNext

Spec == Init /\ [][Next]_vars

-----------------------------------------------------------------------------
(* Properties *)

Answered(r) == Stage(r) = "done"

(***************************************************************************)
(* Reading through the cache gives what was true at some moment between    *)
(* the request and the answer (getDecision, Decision, Event): a row only   *)
(* once it is stored, "not found" never for one stored before the request, *)
(* whoever filled the cache and whatever Redis lost or forgot.             *)
(***************************************************************************)
ReadsCurrent ==
    \A r \in Readers : Answered(r) =>
        /\ request[r].answer \in Encodings \cup {"event"} => request[r].id \in table
        /\ request[r].answer = "not_found" => ~request[r].early

(***************************************************************************)
(* A client that pages by the echoed limit (REST), or by a limit within    *)
(* what the resolver allows (GraphQL), sees every row that was there when  *)
(* it started, although rows are inserted between its pages; rows that     *)
(* share their time with another may change places and are left out.       *)
(***************************************************************************)
Tied == {id \in Ids : \E x \in Ids \ {id} : Stamp[x] = Stamp[id]}

PagesCoverStart ==
    \A p \in Pagers :
        LET l == pager[p] IN
        l # None /\ l.stage = "done" /\ l.answer = None
            /\ (l.listing = "rest" \/ l.ask > 0)
            /\ (l.listing = "gql_decisions" => l.ask <= MaxPage)
            => l.start \ Tied \subseteq l.got

\* handlers.go, getDecision: "populate cache for subsequent reads", so that
\* they answer what a read of the table would.
CacheTransparent ==
    \A r \in Readers : Answered(r) /\ request[r].answer \in Encodings =>
        request[r].answer = Encoding(request[r].api)

=============================================================================
