------------------------------- MODULE Paging -------------------------------
(***************************************************************************)
(* A client pages through a query while others write documents, delete and *)
(* recreate the database, and the process restarts.  The two handlers are  *)
(* listDocs (GET with index, op and value) and queryDocs (QUERY with a     *)
(* JSONPath).  Each store call they make is one step, as Store implements  *)
(* DocDB; between two calls anything may happen.                           *)
(***************************************************************************)
EXTENDS Integers, FiniteSets

CONSTANTS
    Id,             \* document IDs in key order, positive naturals
    Json, NoDoc,    \* document bodies; no document
    Path,           \* JSONPath expressions
    Singular,       \* those that translate to a JSON Pointer
    Value,          \* encoded scalars, in byte order; see Type
    Oversize,       \* scalars that are too large to encode, in the same order
    Span,           \* how many values a type has
    Nodes,          \* Nodes[j][p]: the scalars path p selects in document j
    IndexName, NoIndex, NoPath,
    Schemas,        \* the index sets databases are created with
    Queries,        \* the queries clients send
    maxScanDocs,    \* documents one scan examines
    MaxKey,         \* bound: incarnations of the database
    NoCursor

VARIABLES
    db,         \* [key, defs, docs]; key 0 when there is no database
    keys,       \* database keys drawn so far
    h,          \* the handler that serves the client
    token,      \* the cursor the client holds
    out,        \* the last answer the client got
    returned, twice,    \* IDs the pages of this session returned, and repeated
    steady      \* IDs that matched, unchanged, since the session's first page

vars == <<db, keys, h, token, out, returned, twice, steady>>

(* The first byte of an encoded value is its type: values of one type are  *)
(* neighbours in byte order.                                               *)
Type(v) == v \div Span

ASSUME PagingAssumption ==
    /\ Id \subseteq Nat \ {0} /\ Value \subseteq Nat \ {0} /\ Oversize \subseteq Nat \ {0}
    /\ IsFiniteSet(Id) /\ IsFiniteSet(Value) /\ IsFiniteSet(Oversize)
    /\ Value \cap Oversize = {} /\ Span \in Nat \ {0}
    /\ Singular \subseteq Path
    /\ Nodes \in [Json -> [Path -> SUBSET (Value \cup Oversize)]]
    /\ \A j \in Json, p \in Singular : Cardinality(Nodes[j][p]) <= 1
    /\ Schemas \subseteq [IndexName -> Singular \cup {NoPath}]
    /\ NoDoc \notin Json /\ NoIndex \notin IndexName /\ NoPath \notin Path
    /\ maxScanDocs \in Nat \ {0} /\ MaxKey \in Nat

Op == {"eq", "lt", "le", "gt", "ge"}

(* The queries; one whose value is over the limit is refused with 400.     *)
docQuery == [method: {"GET"}, index: IndexName, op: Op, value: Value, limit: Nat \ {0}]
pathQuery == [method: {"QUERY"}, path: Path, op: Op, value: Value, limit: Nat \ {0}]

ASSUME QueriesAssumption == Queries \subseteq docQuery \cup pathQuery

(* What a cursor is bound to: everything in the query but the limit.       *)
Bound(q) == [f \in DOMAIN q \ {"limit"} |-> q[f]]

-----------------------------------------------------------------------------
(* Positions in the order of a page: value, then ID.  Scans and equality   *)
(* queries order by ID alone, which is value 0 here.                       *)
Before(a, b) == a[1] < b[1] \/ (a[1] = b[1] /\ a[2] < b[2])
Start == <<0, 0>>

(* Mutant: the entry under the cursor is not skipped.                      *)
AfterOrAt(S, pos) == {x \in S : ~Before(x, pos)}

(* Seek to the cursor and skip it; take n from an iterator; the last one.  *)
After(S, pos) == {x \in S : Before(pos, x)}
First(S, n) == {x \in S : Cardinality({y \in S : Before(y, x)}) < n}
Last(S) == CHOOSE x \in S : \A y \in S : ~Before(x, y)

Live == {i \in Id : db.docs[i] # NoDoc}

(* The entries of an index, as Store!IndexConsistent has them.             *)
Entries(n) == {e \in Value \X Live : e[1] \in Nodes[db.docs[e[2]]][db.defs[n]]}

(* The loops read one more than the limit, to know there is more.          *)
Cut(rest, limit) ==
    LET seen == First(rest, limit + 1)
        kept == First(seen, limit)
    IN  [hits |-> kept, more |-> seen # kept, last |-> IF kept = {} THEN Start ELSE Last(kept)]

queryDocsCtx(n, q, after) ==
    Cut(After({<<0, i>> : i \in {i \in Live : <<q.value, i>> \in Entries(n)}}, after), q.limit)

(* Mutant: a range upwards is not bounded by the end of its type.          *)
OpenBounds(op, v) ==
    [lower |-> CASE op = "ge" -> v [] op = "gt" -> v + 1 [] OTHER -> Span * Type(v),
     upper |-> CASE op = "lt" -> v [] op = "le" -> v + 1 [] OTHER -> 1000]

(* The iterator's bounds: within the type, up to or from the boundary,     *)
(* before or after every entry of the boundary value itself.               *)
RangeBounds(op, v) ==
    [lower |-> CASE op = "ge" -> v [] op = "gt" -> v + 1 [] OTHER -> Span * Type(v),
     upper |-> CASE op = "lt" -> v [] op = "le" -> v + 1 [] OTHER -> Span * (Type(v) + 1)]

queryRangePage(n, q, after) ==
    LET b == RangeBounds(q.op, q.value)
    IN  Cut(After({e \in Entries(n) : b.lower <= e[1] /\ e[1] < b.upper}, after), q.limit)

(* A scan passes over a scalar that encodeIndexValue refuses.              *)
pathMatches(j, q) ==
    \E v \in Nodes[j][q.path] :
        /\ v \in Value /\ Type(v) = Type(q.value)
        /\ CASE q.op = "eq" -> v = q.value
             [] q.op = "lt" -> v < q.value
             [] q.op = "le" -> v <= q.value
             [] q.op = "gt" -> v > q.value
             [] q.op = "ge" -> v >= q.value

(* Mutant: the place to go on from moves only on a hit.                    *)
queryHitsOnly(q, after) ==
    LET rest == After({<<0, i>> : i \in Live}, after)
        window == First(rest, maxScanDocs)
        found == {x \in window : pathMatches(db.docs[x[2]], q)}
        kept == First(found, q.limit)
    IN  [hits |-> kept, more |-> window # rest \/ found # kept,
         last |-> IF kept = {} THEN Start ELSE Last(kept)]

(* Mutant: a full page goes on from the last document examined, a hit that *)
(* was cut off.                                                            *)
queryPastHit(q, after) ==
    LET rest == After({<<0, i>> : i \in Live}, after)
        window == First(rest, maxScanDocs)
        found == {x \in window : pathMatches(db.docs[x[2]], q)}
    IN  [hits |-> First(found, q.limit),
         more |-> window # rest \/ Cardinality(found) > q.limit,
         last |-> IF window = {} THEN Start ELSE Last(window)]

(* A scan stops at the work limit, possibly without a hit, and then goes   *)
(* on from the last document it examined; a full page goes on from its     *)
(* last hit, since the scan has passed it.                                 *)
queryPathDocs(q, after) ==
    LET rest == After({<<0, i>> : i \in Live}, after)
        window == First(rest, maxScanDocs)
        found == {x \in window : pathMatches(db.docs[x[2]], q)}
    IN  IF Cardinality(found) > q.limit
        THEN [hits |-> First(found, q.limit), more |-> TRUE, last |-> Last(First(found, q.limit))]
        ELSE [hits |-> found, more |-> window # rest,
              last |-> IF window = {} THEN Start ELSE Last(window)]

(* Without an index a scan, with one an equality or a range.               *)
Page(q, n, after) ==
    IF n = NoIndex THEN queryPathDocs(q, after)
    ELSE IF q.op = "eq" THEN queryDocsCtx(n, q, after)
    ELSE queryRangePage(n, q, after)

-----------------------------------------------------------------------------
Idle == [st |-> "idle"]
NoAnswer == [status |-> 0]

Init ==
    /\ db = [key |-> 0, defs |-> [n \in IndexName |-> NoPath], docs |-> [i \in Id |-> NoDoc]]
    /\ keys = 0
    /\ h = Idle /\ token = NoCursor /\ out = NoAnswer
    /\ returned = {} /\ twice = {} /\ steady = {}

client == <<token, out, returned, twice>>

(* The others.                                                             *)
CreateDB ==
    /\ db.key = 0 /\ keys < MaxKey
    /\ keys' = keys + 1
    /\ \E defs \in Schemas : db' = [db EXCEPT !.key = keys + 1, !.defs = defs]
    /\ UNCHANGED <<h, client, steady>>

DeleteDB ==
    /\ db.key # 0
    /\ db' = [key |-> 0, defs |-> [n \in IndexName |-> NoPath], docs |-> [i \in Id |-> NoDoc]]
    /\ steady' = {}
    /\ UNCHANGED <<keys, h, client>>

(* A write is refused when an indexed path selects a scalar over the limit *)
(* in the new document.                                                    *)
Indexable(j) ==
    \A n \in IndexName : db.defs[n] # NoPath => Nodes[j][db.defs[n]] \subseteq Value

(* A document is created, replaced, patched or deleted.                    *)
Write ==
    /\ db.key # 0
    /\ \E i \in Id, j \in Json \cup {NoDoc} :
         /\ db.docs[i] # j /\ (j # NoDoc => Indexable(j))
         /\ db' = [db EXCEPT !.docs[i] = j]
         /\ steady' = steady \ {i}
    /\ UNCHANGED <<keys, h, client>>

(* The process stops and starts again; requests in progress are lost.  The *)
(* cursor key is derived from the stored database key: cursors stay valid. *)
Restart ==
    /\ h' = Idle /\ out' = NoAnswer
    /\ UNCHANGED <<db, keys, token, returned, twice, steady>>

-----------------------------------------------------------------------------
(* The client starts a session, goes on with its cursor, or sends a cursor *)
(* with another query.                                                     *)
Ask ==
    /\ h = Idle
    /\ \E q \in Queries, cursor \in {NoCursor, token} :
         h' = [st |-> IF q.method = "GET" THEN "key" ELSE "plan",
               query |-> q, cursor |-> cursor, index |-> NoIndex, plan |-> 0, key |-> 0]
    /\ out' = NoAnswer
    /\ UNCHANGED <<db, keys, token, returned, twice, steady>>

Answer(answer) ==
    /\ h' = Idle /\ out' = answer
    /\ UNCHANGED <<db, keys, token, returned, twice, steady>>

Refuse(status) == Answer([status |-> status])

(* planPathQuery: the index for the path, if the path is a JSON Pointer.   *)
(* Field plan records the incarnation, for the properties.                 *)
planPathQuery ==
    /\ h.st = "plan"
    /\ \/ db.key = 0 /\ Refuse(404)
       \/ /\ db.key # 0
          /\ LET names == {n \in IndexName : db.defs[n] = h.query.path} IN
               h' = [h EXCEPT !.st = "key", !.plan = db.key, !.index =
                       IF h.query.path \in Singular /\ names # {}
                       THEN CHOOSE n \in names : TRUE ELSE NoIndex]
          /\ UNCHANGED <<db, keys, client, steady>>

(* The index a cursor names: the query's own, or the one the plan chose.   *)
IndexOf(r) == IF r.query.method = "GET" THEN r.query.index ELSE r.index

(* queryStart, matchPathCursor: a cursor opens only under the cursor key   *)
(* it was sealed with, derived from the database key, and only for the     *)
(* query and order it was issued for.                                      *)
Accepts(r, key) ==
    r.cursor # NoCursor =>
        /\ r.cursor.key = key
        /\ r.cursor.query = Bound(r.query) /\ r.cursor.index = IndexOf(r)

(* cursorKey takes no lock and holds none afterwards.                      *)
cursorKey ==
    /\ h.st = "key"
    /\ \/ db.key = 0 /\ Refuse(404)
       \/ db.key # 0 /\ ~Accepts(h, db.key) /\ Refuse(400)
       \/ /\ db.key # 0 /\ Accepts(h, db.key)
          /\ h' = [h EXCEPT !.st = "run", !.key = db.key]
          /\ UNCHANGED <<db, keys, client, steady>>

(* The documents that satisfy a query, said without bounds or bytes, and   *)
(* without the limit on encodings.                                         *)
Good(q) ==
    LET same == {v \in Value \cup Oversize : Type(v) = Type(q.value)}
        below == {v \in same : v < q.value}
    IN  CASE q.op = "eq" -> {q.value} [] q.op = "lt" -> below
          [] q.op = "le" -> below \cup {q.value} [] q.op = "ge" -> same \ below
          [] q.op = "gt" -> same \ (below \cup {q.value})

PathOf(q) == IF q.method = "GET" THEN db.defs[q.index] ELSE q.path

Satisfying(q) ==
    {i \in Live : PathOf(q) # NoPath /\ Nodes[db.docs[i]][PathOf(q)] \cap Good(q) # {}}

(* The page, under the database lock, and the answer with a new cursor     *)
(* under the key read before.  Unknown indexes are 404 for GET, and an     *)
(* internal error for QUERY, which does not expect them.                   *)
Execute ==
    /\ h.st = "run"
    /\ LET q == h.query
           n == IndexOf(h)
           after == IF h.cursor = NoCursor THEN Start ELSE h.cursor.last
           page == Page(q, n, after)
           ids == {x[2] : x \in page.hits}
       IN  \/ db.key = 0 /\ Refuse(404)
           \/ /\ db.key # 0 /\ n # NoIndex /\ db.defs[n] = NoPath
              /\ Answer([status |-> IF q.method = "GET" THEN 404 ELSE 500,
                         request |-> h, key |-> db.key])
           \/ /\ db.key # 0 /\ (n # NoIndex => db.defs[n] # NoPath)
              /\ h' = Idle
              /\ token' = IF page.more
                          THEN [key |-> h.key, query |-> Bound(q), index |-> n,
                                last |-> page.last]
                          ELSE NoCursor
              /\ out' = [status |-> 200, final |-> ~page.more, request |-> h, key |-> db.key,
                         wrong |-> ids \ Satisfying(q)]
              /\ IF h.cursor = NoCursor
                 THEN returned' = ids /\ twice' = {} /\ steady' = Satisfying(q)
                 ELSE /\ returned' = returned \cup ids
                      /\ twice' = twice \cup (returned \cap ids)
                      /\ UNCHANGED steady
              /\ UNCHANGED <<db, keys>>

(* A timeout, a document with too many nodes, a full disk, a lost          *)
(* connection: no page, and the client may send the same cursor again.     *)
(* Of a lost connection queryDocs makes an internal error nobody receives. *)
Fail == h # Idle /\ Refuse(503)

Next ==
    \/ CreateDB \/ DeleteDB \/ Write \/ Restart
    \/ Ask \/ planPathQuery \/ cursorKey \/ Execute \/ Fail

Spec == Init /\ [][Next]_vars

-----------------------------------------------------------------------------
Cursors ==
    {NoCursor} \cup [key: 1..MaxKey, query: {Bound(q) : q \in Queries},
                    index: IndexName \cup {NoIndex}, last: ({0} \cup Value) \X Id]
Requests == [st: {"plan", "key", "run"}, query: Queries, cursor: Cursors,
             index: IndexName \cup {NoIndex}, plan: 0..MaxKey, key: 0..MaxKey]

(* Every field has its type.  A cursor always names a real position: the   *)
(* codecs of query_cursor.go and path_cursor.go refuse an empty ID, so a   *)
(* page that has more must have examined a document.                       *)
TypeOK ==
    /\ db \in [key: 0..MaxKey, defs: [IndexName -> Singular \cup {NoPath}],
               docs: [Id -> Json \cup {NoDoc}]]
    /\ keys \in 0..MaxKey
    /\ h = Idle \/ h \in Requests
    /\ token \in Cursors
    /\ returned \subseteq Id /\ twice \subseteq returned /\ steady \subseteq Id

Answered == out.status = 200

(* The page was planned for the incarnation of the database it read.  GET  *)
(* makes no plan.                                                          *)
PlanHeld == out.request.query.method = "GET" \/ out.request.plan = out.key

(* The documents a scan passes over though they satisfy the query: each    *)
(* scalar by which they do is over the limit.  An index has no such        *)
(* document, since the write would have been refused.                      *)
Overlooked(r) ==
    {i \in Live : /\ IndexOf(r) = NoIndex
                  /\ Nodes[db.docs[i]][r.query.path] \cap Good(r.query) \subseteq Oversize}

(* Following the cursors to the last page returns every document that has  *)
(* matched, unchanged, since the first page, whatever is written meanwhile *)
(* and however often the process restarts or a page has to be asked again. *)
(* The one exception: pathMatches (query.go:458) skips scalars too large   *)
(* to encode, so a scan, and only a scan, misses a document that matches   *)
(* by such scalars alone.                                                  *)
Complete ==
    Answered /\ out.final /\ PlanHeld => steady \subseteq returned \cup Overlooked(out.request)

(* No document that keeps matching unchanged comes twice in one paging     *)
(* session.                                                                *)
NoRepeat == twice \cap steady = {}

(* Each cursor is strictly beyond the one it continues, also when a scan   *)
(* stops at its work limit without a hit: paging cannot go round.          *)
Advances ==
    Answered /\ ~out.final /\ out.request.cursor # NoCursor =>
        Before(out.request.cursor.last, token.last)

(* A page holds only documents that satisfy the query, provided its plan   *)
(* was made for the database it reads: the iterator bounds of a range and  *)
(* the comparison of a scan agree with what the operators mean.  With such *)
(* a plan queryDocs never runs into errIndexNotFound either, which it      *)
(* would answer as an internal error.                                      *)
Sound ==
    /\ Answered /\ PlanHeld => out.wrong = {}
    /\ out.status = 500 => ~PlanHeld

(* docs/storage.md: a cursor of a deleted database cannot be used with the *)
(* one recreated under its name.                                           *)
CursorsEndWithDB ==
    Answered /\ out.request.cursor # NoCursor => out.request.cursor.key = out.key

(* docs/query-language.md: a document matches a QUERY request when at      *)
(* least one selected scalar satisfies the comparison.                     *)
MatchesPath == Answered /\ out.request.query.method = "QUERY" => out.wrong = {}

=============================================================================
