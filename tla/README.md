# A TLA+ model of the KantanDB server

KantanDB (`src/`) keeps JSON documents in databases over Pebble, maintains
secondary indexes, answers JSONPath queries and seals everything under one
random key per database. This directory models the server in TLA+, checks the
models with TLC and proves with TLAPS the safety properties of the store, of
paging, of the endpoints, of the process over crashes and restarts, and of bulk
transfer.

## The system and its parts

| Part | State | Operations | Talks to |
|---|---|---|---|
| Store (`storage.go`) | Pebble key spaces 0x01 databases, 0x02 documents, 0x03 index definitions, 0x04 index entries; 64 database RW locks; 256 document mutexes | createDB, listDBs, deleteDB, createDoc, getDoc, listDocs, replaceDoc, patchDoc, deleteDoc, exportDocs, importDocs, cursorKey | Pebble, indexes, sealing |
| Indexes (`index.go`) | 0x03 and 0x04 | set, change and delete entries inside the store's batches; equality and range pages | store |
| Queries (`query.go`) | a plan per request | plan, execute: index page or scan with a work limit | store, cursors |
| Cursors (`query_cursor.go`, `path_cursor.go`) | none; tokens held by clients | encode, decode, match | cursor key of the database |
| Handlers (`server.go`) | stopping flag, bulk slots | one per route | store |
| Bulk (`bulk.go`, `server.go`) | slots, deadlines, response stream | import, export | store |
| Sealing, keys (`document.go`, `crypto.go`) | wrapping key, database keys | seal, open, wrap, unwrap, derive | store |
| Validation, patches, IDs (`validation.go`, `patch.go`, `id.go`) | none | pure functions | handlers, store |
| Lifecycle (`main.go`) | the process | run, stop, shutdown with a timeout, close | all |
| Configuration, version, format | none | parsing, constants | main |

What is hard here: readers and writers of one document, of one database and of
databases that share a stripe interleave; an operation reads the database key,
the index definitions and the document in separate Pebble calls and writes one
batch from them; deletion and recreation of a database give its name a new key;
an import locks many documents; random IDs may be taken; the process may die
between any two steps; a batch may be in place although the caller gets an
error; pages of one query are read at different times, with a cursor key and a
plan that were read earlier still; the process stops under requests that still
run, or comes back with another master key; clients stall, go away and repeat
themselves; lines, values and names meet at the boundaries of buffers, bytes and
key prefixes. PROJECT.json lists each hazard at its line.

## Modules

| Module | Models |
|---|---|
| `Documents` | documents, revisions, index definitions and values, If-Match, requests: the data and pure functions of the two store modules |
| `DocDB` | what the store promises: each call takes effect at one instant |
| `Store` | `storage.go` and the index maintenance of `index.go`, per goroutine, lock and Pebble call |
| `StoreDocDB` | the refinement mapping from `Store` to `DocDB` |
| `StoreInv` | the inductive invariant of `Store` |
| `StoreProofs` | proofs: who holds which lock after a step, and that what a goroutine has read is still what Pebble holds; each batch keeps databases, documents and index entries consistent; types; the theorems on `Inv` and what follows |
| `StoreCalls` | proofs: pages, the mapping to `DocDB`, the steps that write and answer nothing |
| `StoreRefinement` | proofs: readers and batches; the theorem that `Store` implements `DocDB` |
| `Paging` | the two paging handlers (`listDocs` with an index query, `queryDocs`) with planning, cursors, index pages and scans |
| `PagingProofs` | its theorems, with lemmas on the order of keys, pages and cursors |
| `Api` | the seven handlers that create and delete databases and create, get, replace, patch and delete documents, over the store `DocDB` promises: checks in their order, error mapping, ETags, lost answers and repeated requests |
| `ApiProofs` | its theorems, with the refinement of `DocDB` |
| `Lifecycle` | `main.go`, `crypto.go`, `openStore`, `close`, the stopping flag: opening, serving, stopping, crashing, starting again |
| `LifecycleProofs` | its theorems |
| `Slots` | what the bulk slots promise: a counting semaphore |
| `Bulk` | the bulk handlers: slots, deadlines, the response stream, answers |
| `BulkProofs` | its theorems, with the refinement of `Slots` |
| `ReadBulk` | `readBulkCtx`: cutting the body of an import into documents |
| `ReadBulkProofs` | its theorems, with lemmas on line ends and on what the buffer returns |
| `Scalars` | indexable values and the order a query means |
| `IndexKeys` | the key space byte by byte: encodings, prefixes, bounds, cursors |
| `MCStore`, `MCPaging`, `MCApi`, `MCBulk`, `MCIndexKeys` | small instances for TLC |

How they fit together: `Store` shows that calls of the store are atomic
(`DocDB`), and `Api` and `Paging` take them so; `Api` shows in turn that it calls
the store as `DocDB` allows. `Lifecycle` and `Bulk` have the part of the store
they need: records and keys in the one, a database lock in the other. `Bulk`
takes the reading of a body as one step, which `ReadBulk` takes apart.
`IndexKeys` justifies that `Store` and `Paging` treat indexes as ordered maps.

### Store

`dbRec`, `docRec`, `idxDef` and `idxData` are the four key spaces. `writer`,
`readers` and `docMu` are the lock stripes; `DBStripe` and `DocStripe` stand for
the hash, so two names may share a stripe. `pc`, `req`, `loc` and `res` are a
goroutine's position, request, local variables and result. One action is one
lock operation, one Pebble read, or one batch commit; `FirstStep`, `AfterRLock`,
`AfterLocks`, `AfterKey` and `AfterDefs` give each operation its order of steps.

* A database lock is a `sync.RWMutex`: `WLock` claims it, which holds off new
  readers, and `WWait` waits for the readers that were there.
* A batch is atomic and durable when `Commit(pebble.Sync)` returns. `Committed`
  adds that the deferred `batch.Close` may turn the answer into an error. A
  `Commit` that itself fails is taken to have written nothing.
* A listing, a query and an export read one iterator or snapshot, so their
  result is decided when they take it. The lock is released later.
* Unlocking several stripes is one step. An unlock only enables others, so what
  can happen between two of them can also happen after the last.
* `Fail` is any error of Pebble or of the random source, and the end of the
  request context or the batch limit where the code looks at them. Errors that
  Pebble reports as media corruption are outside the model.
* `Crash` keeps the four key spaces and loses everything else.
* `createDB` draws a key that no record or goroutine has: 32 random bytes.
* `IdsRemain` is a bound of the model: random IDs never run out, the finite set
  `Id` would. A drawn ID may still be one that is taken.

`DocDB` has no locks, keys, or index entries. `Store` refines it by the mapping in
`StoreDocDB`: a call takes
effect when its result is decided. `errDocExists` is not a result, as
`createDoc` starts over.

### Paging

One client pages through a query, one handler serves it, and the actions
`CreateDB`, `DeleteDB`, `Write` and `Restart` are everything else. A handler
makes up to three store calls: `planPathQuery` (QUERY only), `cursorKey`, which
takes no lock, and `Execute`, the page under the database lock. Each is one step,
which `Store` justifies. `Fail` is a request that ends without a page, by its
timeout, at the limit on nodes of a document (`checkQueryNodes`) or because the
client has gone; the client keeps its cursor and may send it again, or with another query (`Ask`).

Encoded values are naturals in the byte order of their encoding, `Type` is the
first byte, which takes `Span` neighbours together, and a position is a value and
an ID in the order of index keys.
`Nodes` gives the scalars a JSONPath selects. `Oversize` are scalars of the same
order that are over the limit of 4096 bytes: `encodeIndexValue` refuses them, so
a write that has one on an indexed path is refused (`Indexable`), and a scan
passes over it (`pathMatches`). A query for such a value is refused with 400 and
left out. The field `plan` and the variables `returned`, `twice` and `steady`
record history for the properties. `Restart` ends requests and nothing else:
cursors are sealed under a key that is stored.

### Api

The module has `createDB`, `deleteDB`, `createDoc`, `getDoc`, `replaceDoc`,
`patchDoc` and `deleteDoc`. `listDocs` with an index and `queryDocs` are in
`Paging`, and the lists in `Store`, without their error mapping.
`conn` is the request a goroutine serves, `dbs` and `calls` the variables of
`DocDB`. `Arrive` takes a request and makes the handler's checks in its order
(content type, name, ID, If-Match, body, document, index definitions): it is
answered at once, or its call begins. `Execute` is the store's step, with its
failures, and `Respond` maps the result to status, code and ETag as
`writeFailure` does. `Close` gives the answer to the client or loses it; a
request repeated after that is another `Arrive`, and `Retry` repeats one that is
still at work. `Crash` ends all. `shown`, `minted` and `consumed` are history.

### Lifecycle

`meta` and `recs` are on disk: the key under which the store metadata was sealed,
and for each database the key that wraps its own. `phase` is where `run` is,
`wrapKey` is `store.wrappingKey`, `stopping` is `api.stopping`, and `h` are the
handlers, which pass the stopping check, wait for the database lock, read, unwrap
or wrap a key, write and answer while `run` goes on. HKDF is injective and AES-GCM authenticates.
`clear()` overwrites the key in two steps, so a handler may read it half
cleared (`Torn`) or cleared (`Zero`). A Pebble error while opening ends the
process as a crash there would; an error of the random source is answered like
a failing Pebble. `Legacy` is a record of a directory the server did not make.
`undrained` records that `run` went on to close the store without a drain, as
Shutdown timed out or the listener failed.

### Bulk

Each handler has a position, a context, a connection, an export stream
(`bulkStream`) and an answer; `slots` counts the tokens of the channel. The
actions follow `startBulk`, `takeBulkSlot`, `exportBulk`, `importBulk` and
`done`; `Expire` is the deadline, `Disconnect` the client going away, `Collect`
the client reading. The store is one database behind its `RWMutex`, with a writer
that deletes and creates it (`WLock`, `Rewrite`). `Buffer` counts documents
where the code counts bytes.

### ReadBulk

`ReadSlice` is bufio's: a fragment up to LF, a full buffer, or the end of the
body, which may come with the last bytes or after them. `readBulkCtx` is one turn
of the loop with its limits. The reference (`Lines`, `Text`, `Good`) knows nothing
of buffers.

### IndexKeys

`keys` is the set of keys in Pebble, sequences of bytes as the code writes them;
`dbs` is what was stored. Every write is one batch. Lists, equality queries and
range queries are evaluated on `keys` and compared with `dbs` and the order of
`Scalars`. A number is a sign, a fraction and a power of ten, so that exponents
at 2^8 need no large integers. `load` keeps four small worlds apart that TLC
could not explore as one: any number, any string, names that begin each other,
and two documents read from every cursor.

## Runs

| Run | Instance | Shows |
|---|---|---|
| `writes` | 2 goroutines, 1 database, 2 IDs, 2 revisions, 3 keys, 3 documents, one with a value too large | indexes agree with documents, nothing crosses incarnations, nothing is corrupt, no update is lost, every call is atomic |
| `reads` | the same with lists, queries and exports beside imports of one and two documents, patches and deletions | every answer is that of one instant, an import is all or nothing under free IDs, and `Inv`, the invariant of the proofs, holds |
| `locks` | two databases on one stripe, imports of two documents | every request is answered |
| `pages` | 3 IDs, 3 documents, two with a scalar over the limit, 2 incarnations, restarts; GET and QUERY requests, scans of at most 2 documents a page | paging is complete but for scalars over the limit in a scan, repeats nothing, advances, returns only matches, and answers an internal error only to a plan of an older database |
| `api` | 2 goroutines, 1 database, 1 ID, 2 revisions, valid and invalid requests of every kind | an ETag names one content, conditional writes take effect at most once, statuses are true, none of the seven handlers answers an internal error, the store is called as it allows |
| `lifecycle` | 2 handlers, 1 database, 2 master keys, 3 starts | answered databases stay and open, drained stops raise no false alarm, a foreign key or directory changes nothing, a signal ends the process |
| `bulk` | 2 handlers, 1 slot, 3 documents, a buffer of 2, every request | no slot is lost or exceeded (`SlotsHeld`, `SlotsRefined`), imports are answered truly, short exports are logged, waiting clients are answered |
| `bulk_live` | 2 handlers, 2 slots, 1 document, requests that are admitted | every slot is freed and every writer served, whatever clients do |
| `read_bulk` | every body of up to 6 bytes, buffer 2, limits 3, 5 and 2 | documents are the lines, errors blame the first bad line, the loop ends |
| `index_keys` | 83 numbers, 43 strings, names that begin each other, 14 values with every cursor; limit 300 | key order is value order, databases and indexes are apart, resuming is exact, only large values are refused |
| `old_cursor` | as `pages`, GET | violated: a cursor is applied to a recreated database |
| `stale_plan` | as `pages`, QUERY | violated: a plan is applied to a recreated database |

Bounds. Two goroutines are enough for a race between any two operations, and
each may issue requests for ever; one document is contended, and the second ID
lets a taken ID be drawn. Two revisions suffice as a revision only has to differ
from the one it replaces, and three keys let a database be recreated while both
goroutines hold older keys. For paging, three documents and a limit of one give
a first, a middle and a last page, and a scan window of two makes the work limit
fall before, on and after a hit. One document cannot be written where its path
is indexed, and one matches a scan only by a scalar over the limit. `MaxKey` bounds recreations: one is where a
cursor or plan becomes old. In `api` a revision is used once, so two allow a
write, a second one, and repetitions of either. In `lifecycle` databases do not
interact, so one is enough (the theorems have any number), and `MaxBoots` of 3
lets the right key follow a wrong one. In `bulk` one slot makes the second
request the one too many, and three documents with a buffer of two leave one
for the last flush; `bulk_live` has both requests admitted. In `read_bulk` the
line limit is one less than a multiple of the buffer, where CRLF can be split,
and bodies reach one byte past every limit. In `index_keys` a limit of 300 takes
exponents across 255, 256 and the limit and lets strings of 298 to 300 zeros
meet it; the code's 4096 adds no other byte to carry into.

Symmetry is used over goroutines and keys, in `writes`, `reads`, `api` and
`bulk`, which have no liveness property, and over revisions in `reads`, where no
request asks for one. CHECK_DEADLOCK stays on in every run.

Fairness. Go runs every runnable goroutine. In `locks` the steps that wait for
nobody, and `WWait`, are weakly fair. Acquiring a mutex is strongly fair:
`sync.Mutex` hands over to a waiter that has starved for 1 ms, and
`sync.RWMutex` lets in the readers that waited when its writer leaves. Random
IDs do not collide for ever. In `lifecycle` only the steps of `run` after the signal are
fair (`Shutdown`): each of its waits has a timer. In `bulk_live` handlers that can proceed do,
deadlines fire, the writer proceeds, and a reader waiting for the lock gets in
(strongly fair). In `read_bulk` the loop goes on; reading ends by data, end or
deadline. Nothing is assumed of clients or, in `lifecycle`, of handlers.

### What the violated runs say

* `old_cursor`: `docs/storage.md:25` says old cursors cannot be used with a
  recreated database. The key is checked before the database lock is taken, so
  a deletion and recreation in between go unnoticed for that one page.
* `stale_plan`: `docs/query-language.md:96` says which documents match. A plan
  names an index, and after a recreation that name may be another path.

`Complete` and `Sound` therefore speak of pages whose plan was made for the
incarnation they read (`PlanHeld`). With a plan of an older one the index may
also be missing: `store.queryDocsCtx` returns `errIndexNotFound`, for which
`queryDocs` (`src/server.go:550`) has no case, and the client gets a 500
`internal_error` where `listDocs` answers 404. `Sound` says that this is the only
way to that answer; a cancelled request is the other error without a case, and
its client is gone.

### Exceptions that passing properties name

Each of these is a state TLC reaches; without the exception the property fails.

* `undrained` in `Readable`, `AnsweredKept` and `NoFalseAlarm`: `store.close`
  (`src/storage.go:84`) clears the wrapping key before it closes Pebble. A request
  that outlived Shutdown's ten seconds, or a failed listener, can then be told `corrupt_data` about
  intact data, or create a database that is answered 201 and wrapped under the
  cleared key.
* `logged` in `ShortExportLogged`: when an export fails after its header went out
  (`src/server.go:764`) the error is logged, and the response ends as a complete
  200 without the rest of the documents.
* `SplitCrlf` in `BlamesTheLine`: `lineLen` (`src/bulk.go:75`) counts the CR of a
  fragment that ends before its LF, so a line of exactly the limit is refused
  when the limit plus one is a multiple of bufio's 4096 bytes.

* `Overlooked` in `Complete`: `pathMatches` (`src/query.go:458`) skips a selected
  scalar that is over the limit of `encodeIndexValue`. `docs/query-language.md:96` says "A
  document matches a QUERY request when at least one selected scalar satisfies
  the comparison", without a limit. A scan leaves out, without an error, a
  document that matches by such scalars alone. Through an index nothing is left
  out, as the document would not have been stored.

`docs/query-language.md:141` says that indexed cursors become invalid after a
restart. They stay valid, in the code, in `Paging` and in the test
`TestQueryCursorSurvivesReopen`.

## Proofs

### Store

The three proof modules of the store prove, for any goroutines, databases, IDs,
documents, indexes and stripes, from `DataAssumption`, `RequestAssumption`,
`StoreAssumption` and, for the last, `AbsenceAssumption`:

* `StoreInvariant`: `Spec => []Inv`;
* `TypeCorrect`, `IndexesAgree`, `RecordsOwned`, `NothingCorrupt`: the invariants
  `TypeOK`, `IndexConsistent`, `DatabaseOwnsRecords` and `NeverCorrupt`;
* `UpdatesNotLost`: the action property `NoLostUpdate`;
* `StoreLinearizable`: `Spec => Linearizable`, the refinement of `DocDB`.

None of these is inductive by itself: a batch is computed from values read some
steps before. `Inv` adds what makes them still true at the commit. `Flow` says
which operations pass through a step, `LocksHeld` which locks a goroutine holds
there, and `ReadsHold` that the key, the definitions, the document and the free
IDs it has read are what Pebble holds now. `Indexable` says no stored document
has a value too large for its indexes. The proof shows for a step of goroutine c
that the others keep their locks (`LocksOfOthers`) and therefore their reads
(`PebbleOfOthers`), that c has the locks of the section it enters (`LocksOfSelf`)
and knows what it reads (`ReadsOfSelf`), and that each of the five batches keeps
a database in good order (`DataStep`). A crash leaves only Pebble.

For the refinement, `LInv` adds `Decided` to `Inv`: a goroutine has a result
exactly while it unlocks, `deleteDB` commits on a database that is there, and a
query iterates an index that is defined. Each action then has a lemma that names
the step of `DocDB` it is (`StepRefines` has them together). At the commit,
`ReadsHold` is what makes the abstract call, which reads and writes at that
instant, give the answer the goroutine computed from its earlier reads. A query
has the answer of the documents because of `IndexConsistent`. `CutIsPage` shows
that reading `limit + 1` keys and dropping the last is the page `DocDB` owes, from
the ranks of the keys (`RankAscends`) and the least key not among the first
(`Least`).

### Lifecycle

`LifecycleProofs` proves, for any handlers, names, master keys, salts and number
of starts, from `LifecycleAssumption`: `TypeCorrect`, `RecordsReadable`,
`CreationDurable`, `NoCorruptAnswer` and `ForeignUntouched`, that is `TypeOK`,
`Readable`, `AnsweredKept`, `NoFalseAlarm` and `ForeignKept`. The inductive
invariant adds to these: `KeyHeld`, the process has the key the metadata
vouches for while it serves; `Rested`, no handler runs where none can; and
`Pending`, a record that a handler has read or made is wrapped under that key.
They are needed because a handler writes a record some steps after it read the
wrapping key, and main may have cleared it in between.

### Bulk

`BulkProofs` proves, for any finite set of handlers, concurrency, buffer and
number of documents, from `BulkAssumption`: `SlotsCounted` and
`SlotsImplemented`, that `slots` is the number of holders and that `Bulk`
implements `Slots`; `ImportsTruthful`, `ShortExportsLogged` and
`ClientsAnswered`; and `BulkTypeCorrect`. `SlotInv` is the invariant of the first two: every step is
seen as a move of one handler between places (`StepTaken`), and only the moves
into and out of `Holding` touch the channel. `LocalInv` is the other: for each
handler, what its position says about its answer, its stream and its batch
(`Import`, `Export`, `Ending`). A step of one handler leaves the others as they
are (`SameLocal`). `Bounded` is what the type invariant needs besides: the
documents and the imports that may still be stored (`Owed`) fit into `MaxDocs`,
so a snapshot does, and with `Export` all that is read, buffered and sent.

### ReadBulk

`ReadBulkProofs` proves, for any body, any end of the reader, any buffer size
above zero and any limits, from `ReadBulkAssumption`: `HoldsOneLine`,
`ImportsTheLines` and `BlamesFirstBadLine`, that is `TypeOK`, `ReturnsTheLines` and
`BlamesTheLine`. The bound `MaxBody` on the length of a body is any natural
number in them.

The reference speaks of the whole body, the loop of fragments. The inductive
invariant `IInv` relates the two while the loop runs. `Progress` says that as many
line ends were read as documents were kept, and that `line` is exactly the bytes
since the last of them (`Start`), a whole number of buffers. `Settled` says that
the lines before are good and have the documents kept. The number of buffers is
needed for the exception `SplitCrlf`: a good line is refused only where its CR
ends a buffer.

`SliceFacts` says what `ReadSlice` returns in terms of the body. `CompleteLine`,
`LastLine` and `LongLine` say of the line being read, when its LF, the end of the
body or neither has been met, which line of the reference it is and how long.
They rest on the count of line ends (`LFsNext`, `LFsSame`, `LFsRises`), on the
k-th of them being unique (`EndOfLF`), and on a set of naturals having a least
member (`NatLeast`), which stands in for induction over the body. A step of the
loop (`TurnIInv`) goes through the ways out of it in their order.

### Paging

`PagingProofs` proves, for any finite sets of IDs and values, any types, documents,
paths, indexes and queries, any limit and work limit and any number of
recreations, from `PagingAssumption` and `QueriesAssumption`:
`PagingTypeCorrect`, `PagesComplete`, `PagesDoNotRepeat`, `PagesAdvance` and
`PagesSound`, that is `TypeOK`, `Complete`, `NoRepeat`, `Advances` and `Sound`.
In the assumptions, a singular path selects at most one scalar of a document,
and an index is defined on a singular path. `PagesComplete` has the exception of
`Overlooked` for scans and none for indexes.

The proof has two halves. The first is about one page. `Before` orders the
positions, `First` takes the least n of a finite set, and `Pages` says what a page
owes: with more to come, just the matches up to its cursor, and otherwise all of
them. Index pages by value and by range, and scans with their work limit, are
shown to be such pages of the `Hits` of the query. That needs what the operators
mean within a type (`Good`), and that no ID is twice among the hits (`OnePerId`):
an index has one entry of a document as its path is singular, and a scan orders
by ID.

The second half is about a session. A cursor divides the hits (`Divides`): of the
documents that have matched unchanged, exactly those at or before it were
returned. `Session` says so of the token the client holds, while the database is
the one it was made for. `Handling` says what a handler knows between its store
calls: a plan made for the present database is still right; the key read without
the lock is that of the present database, or the database was replaced and then
no document has stayed. `KeysDrawn` is why a recreated database is never taken
for an older one. `Indexed` says that what an index selects can be encoded, which
is why index pages have no exception. `Complete` and the others are part of the invariant, since they
speak of an answer while others write. A write moves the cut nowhere: it takes
its document out of those that stayed.

### Api

`ApiProofs` proves, for any goroutines, databases, IDs, documents, patches,
index definitions and revisions, from `DataAssumption`, `RequestAssumption`,
`RevAssumption` and `CallsAssumption`: `ETagsNameContent`, `ConditionalOnce`,
`StatusesTrue` and `ErrorsAreTold`, that is `ETagNamesContent`, `AtMostOnce`,
`StatusTrue` and `ErrorsTold`, for the seven handlers of `Api`, and
`HandlersUseStore`, that these handlers take
only steps of `DocDB` (`StoreUsed`). With `StoreLinearizable` this closes the
chain: the handlers use the store as `DocDB`, and the store implements `DocDB`.

The inductive invariant has three parts.

* `Serves`: a goroutine at work has an accepted request and has called the store
  with just that request; the store's answer is one the operation can have
  (`Known`) and agrees with what was written (`Settled`); the status sent agrees
  with both (`Truthful`).
* `Names`: among all facts, those shown in responses, those of the stored
  documents and those about to be answered, an ETag has one meaning, and its
  revision was drawn. The middle kind is needed as a document may be read later,
  the last as it may be overwritten between the store's step and the response.
* `Spent`: when a conditional write took effect on a revision, no document has
  that revision any more. It is why a repetition fails; it holds as revisions are
  drawn once.

`ExecuteCarries` goes through the steps of `DocDB` by operation and says what each
does (`Refuses`, `Reads`, `Creates`, `Drops`, `Changes`); `ExecuteEffect` draws from
it all that the invariant needs. `ValidFacts` and `SentAccepted` show that a
request which passes the checks of its handler has the form (`Accepted`) that the
call of the store needs, `RefusalTells` that one which does not is told so.

### Only model-checked

* The liveness properties `Answered`, `SignalEnds`, `SlotFreed`, `WriterServed` and
  `Returns`: liveness under fairness is outside the prover's reach.
* `IndexKeys`. That encoded numbers and strings compare as the values do rests on
  digits and powers of two, five and ten, products of unknowns that the
  arithmetic of the provers does not reach, and on the recursive escaping of a
  string, which would need induction over strings. `ListsExact` also compares
  sorted sequences and a sum over a set, which the library defines by recursion.

`TypeOK` of `Store` is part of `Inv`, and that of `Lifecycle` has no run of its
own, as it is proved. What the model takes for granted the theorems do, too:
above all that random keys and revisions never come twice.

## Not modelled

* AES-GCM, HKDF and the byte layout of records and cursors: a record or a cursor
  opens exactly under its key.
* Pebble: batches are atomic, snapshots and iterators consistent, synced commits
  durable. Media corruption is left out.
* JSON, JSONPath, JSON Patch and Merge Patch: library code, taken as functions
  that may fail.
* Parsing of list and query parameters, routing, redirects, HTTP itself, logging:
  sequential code without state that lasts.
* Configuration, version and format constants.
