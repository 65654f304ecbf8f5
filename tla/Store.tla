-------------------------------- MODULE Store --------------------------------
(***************************************************************************)
(* The store of storage.go and index.go at the granularity of its locks    *)
(* and its Pebble calls.  Each goroutine serves one request at a time; a   *)
(* step is one lock operation, one read of Pebble, or one batch commit.    *)
(* Pebble commits a batch atomically and durably (pebble.Sync).            *)
(***************************************************************************)
EXTENDS Documents, FiniteSetsExt

CONSTANTS
    Key,        \* database keys, random 32-byte strings
    NoKey, NoClient,
    DBStripe,   \* DBStripe[d]: the stripe of database d in dbStripes
    DocStripe   \* DocStripe[d][i]: the stripe of document i of d in docStripes

VARIABLES
    dbRec,      \* 0x01: the key that the record of each database wraps
    docRec,     \* 0x02: the sealed documents
    idxDef,     \* 0x03: the index definitions
    idxData,    \* 0x04: idxData[d][n][v], the IDs with an entry for value v
    writer,     \* dbStripes: the goroutine in or waiting inside Lock
    readers,    \* dbStripes: the goroutines that hold RLock
    docMu,      \* docStripes: the holder of each mutex
    pc, req, loc, res   \* per goroutine: next step, request, locals, result

pebble == <<dbRec, docRec, idxDef, idxData>>
locks == <<writer, readers, docMu>>
vars == <<pebble, locks, pc, req, loc, res>>

DBStripes == {DBStripe[d] : d \in DB}
DocStripes == UNION {{DocStripe[d][i] : i \in Id} : d \in DB}

ASSUME StoreAssumption ==
    /\ DBStripe \in [DB -> Nat]
    /\ DocStripe \in [DB -> [Id -> Nat]]
    /\ NoClient \notin Client /\ NoKey \notin Key
    /\ NoDoc \notin [json: Json, rev: Rev, key: Key]

(* A document record is sealed under the key its database had.             *)
Sealed == [json: Json, rev: Rev, key: Key]

NoReq == [op |-> "none"]
NoRes == [err |-> "none"]

NoEntries == [n \in IndexName |-> [v \in Value |-> {}]]

Locals == [key: Key \cup {NoKey}, cur: Sealed \cup {NoDoc}, defs: Schema,
           ids: Seq(Id), want: SUBSET DocStripes]

Steps == {"idle", "makeID", "rlock", "wlock", "wwait", "lockDocs", "check",
          "key", "hasDoc", "readDoc", "listDBs", "defs", "iterate", "commit",
          "retry", "unlockDocs", "unlockDB"}

DBWrites == {"createDB", "deleteDB"}
Updates == {"replaceDoc", "patchDoc", "deleteDoc"}
Inserts == {"createDoc", "importDocs"}

Errors == {"none", "nil", "errDBExists", "errDBNotFound", "errDocExists", "errDocNotFound",
           "errPreconditionFailed", "errInvalidPatch", "errInvalidIndexValue",
           "errIndexNotFound", "errCorruptData", "errStoreUnavailable",
           "context.Canceled", "errBulkLimit", "errBodyTooLarge"}

(* Every variable has its type, and a goroutine at work has a request.     *)
TypeOK ==
    /\ dbRec \in [DB -> Key \cup {NoKey}]
    /\ docRec \in [DB -> [Id -> Sealed \cup {NoDoc}]]
    /\ idxDef \in [DB -> Schema]
    /\ idxData \in [DB -> [IndexName -> [Value -> SUBSET Id]]]
    /\ writer \in [DBStripes -> Client \cup {NoClient}]
    /\ readers \in [DBStripes -> SUBSET Client]
    /\ docMu \in [DocStripes -> Client \cup {NoClient}]
    /\ pc \in [Client -> Steps]
    /\ req \in [Client -> Requests \cup {NoReq}]
    /\ loc \in [Client -> Locals]
    /\ DOMAIN res = Client
    /\ \A c \in Client : res[c].err \in Errors /\ (pc[c] # "idle" => req[c] \in Requests)

Fresh == [key |-> NoKey, cur |-> NoDoc, defs |-> NoIndexes, ids |-> <<>>, want |-> {}]

Init ==
    /\ dbRec = [d \in DB |-> NoKey]
    /\ docRec = [d \in DB |-> [i \in Id |-> NoDoc]]
    /\ idxDef = [d \in DB |-> NoIndexes]
    /\ idxData = [d \in DB |-> NoEntries]
    /\ writer = [s \in DBStripes |-> NoClient]
    /\ readers = [s \in DBStripes |-> {}]
    /\ docMu = [s \in DocStripes |-> NoClient]
    /\ pc = [c \in Client |-> "idle"]
    /\ req = [c \in Client |-> NoReq]
    /\ loc = [c \in Client |-> Fresh]
    /\ res = [c \in Client |-> NoRes]

-----------------------------------------------------------------------------
Goto(c, step) == pc' = [pc EXCEPT ![c] = step]

(* A return statement: the deferred unlocks follow.                        *)
Respond(c, r) == Goto(c, "unlockDocs") /\ res' = [res EXCEPT ![c] = r]

Stripe(c) == DBStripe[req[c].db]

(* Mutant: updates go ahead without the lock of their document.            *)
NoDocLock(op) == "key"

(* The order of steps in each operation.                                   *)
FirstStep(op) ==
    CASE op \in DBWrites -> "wlock"
      [] op = "createDoc" -> "makeID"
      [] op = "listDBs" -> "listDBs"
      [] OTHER -> "rlock"
AfterRLock(op) == IF op \in Updates \cup {"createDoc"} THEN "lockDocs" ELSE "key"
AfterLocks(op) == IF op = "importDocs" THEN "hasDoc" ELSE "key"
AfterKey(op) ==
    CASE op = "createDoc" -> "hasDoc"
      [] op \in Updates \cup {"getDoc"} -> "readDoc"
      [] op \in {"importDocs", "queryDocs"} -> "defs"
      [] OTHER -> "iterate"
AfterDefs(op) ==
    CASE op = "importDocs" -> "makeID"
      [] op = "queryDocs" -> "iterate"
      [] OTHER -> "commit"

(* IDs are inexhaustible: the finite set Id stands for them as long as     *)
(* requests that need new ones start only while enough are unused.         *)
Needs(r, d) == IF r.op \in Inserts /\ r.db = d THEN Len(r.docs) ELSE 0

IdsRemain(r) ==
    r.op \in Inserts =>
        LET used == Cardinality({i \in Id : docRec[r.db][i] # NoDoc})
            busy == {c \in Client : pc[c] # "idle"}
            Wanted(c) == Needs(req[c], r.db)
        IN  used + MapThenSumSet(Wanted, busy) + Len(r.docs) <= Cardinality(Id)

Begin(c) ==
    /\ pc[c] = "idle"
    /\ \E r \in Requests :
         /\ IdsRemain(r)
         /\ req' = [req EXCEPT ![c] = r]
         /\ loc' = [loc EXCEPT ![c].want =
                      IF r.op \in Updates THEN {DocStripe[r.db][r.id]} ELSE {}]
         /\ Goto(c, FirstStep(r.op))
    /\ UNCHANGED <<pebble, locks, res>>

(* makeID and makeImportIDs: random IDs, distinct within the request.      *)
MakeID(c) ==
    /\ pc[c] = "makeID"
    /\ \E ids \in Injection(DOMAIN req[c].docs, Id) :
         loc' = [loc EXCEPT ![c].ids = ids,
                            ![c].want = {DocStripe[req[c].db][ids[k]] : k \in DOMAIN ids}]
    /\ Goto(c, IF req[c].op = "createDoc" THEN "rlock" ELSE "lockDocs")
    /\ UNCHANGED <<pebble, locks, req, res>>

-----------------------------------------------------------------------------
(* Mutant: Lock does not wait for the readers it found.                    *)
WNoWait(c) ==
    /\ pc[c] = "wwait"
    /\ Goto(c, "check")
    /\ UNCHANGED <<pebble, locks, req, loc, res>>

(* Mutant: document stripes are locked in any order.                       *)
AnyStripe(want) == want

(* sync.RWMutex: Lock first claims the lock, which holds off new readers,  *)
(* and then waits for the readers it found.                                *)
RLock(c) ==
    /\ pc[c] = "rlock" /\ writer[Stripe(c)] = NoClient
    /\ readers' = [readers EXCEPT ![Stripe(c)] = @ \cup {c}]
    /\ Goto(c, AfterRLock(req[c].op))
    /\ UNCHANGED <<pebble, writer, docMu, req, loc, res>>

WLock(c) ==
    /\ pc[c] = "wlock" /\ writer[Stripe(c)] = NoClient
    /\ writer' = [writer EXCEPT ![Stripe(c)] = c]
    /\ Goto(c, "wwait")
    /\ UNCHANGED <<pebble, readers, docMu, req, loc, res>>

WWait(c) ==
    /\ pc[c] = "wwait" /\ readers[Stripe(c)] = {}
    /\ Goto(c, "check")
    /\ UNCHANGED <<pebble, locks, req, loc, res>>

(* docLock and lockDocs: the stripes of the request, each once, ascending. *)
NextStripe(want) == {Min(want)}

LockDoc(c) ==
    /\ pc[c] = "lockDocs"
    /\ \E s \in NextStripe(loc[c].want) :
         /\ docMu[s] = NoClient
         /\ docMu' = [docMu EXCEPT ![s] = c]
         /\ loc' = [loc EXCEPT ![c].want = @ \ {s}]
         /\ IF loc[c].want = {s} THEN Goto(c, AfterLocks(req[c].op)) ELSE UNCHANGED pc
    /\ UNCHANGED <<pebble, writer, readers, req, res>>

(* After an answer the document locks go first, then the database lock;    *)
(* an import that met a taken ID keeps the database lock and draws again.  *)
UnlockDocs(c) ==
    /\ \/ pc[c] = "unlockDocs" /\ Goto(c, "unlockDB")
       \/ pc[c] = "retry" /\ Goto(c, "makeID")
    /\ docMu' = [s \in DocStripes |-> IF docMu[s] = c THEN NoClient ELSE docMu[s]]
    /\ UNCHANGED <<pebble, writer, readers, req, loc, res>>

(* The last unlock.  createDoc starts over when its ID was taken; every    *)
(* other result goes back to the handler.                                  *)
UnlockDB(c) ==
    /\ pc[c] = "unlockDB"
    /\ writer' = [s \in DBStripes |-> IF writer[s] = c THEN NoClient ELSE writer[s]]
    /\ readers' = [s \in DBStripes |-> readers[s] \ {c}]
    /\ res' = [res EXCEPT ![c] = NoRes]
    /\ loc' = [loc EXCEPT ![c] = Fresh]
    /\ IF res[c].err = "errDocExists"
       THEN Goto(c, "makeID") /\ UNCHANGED req
       ELSE Goto(c, "idle") /\ req' = [req EXCEPT ![c] = NoReq]
    /\ UNCHANGED <<pebble, docMu>>

-----------------------------------------------------------------------------
(* hasDB, in the exclusive section of createDB and deleteDB.               *)
CheckDB(c) ==
    /\ pc[c] = "check"
    /\ LET exists == dbRec[req[c].db] # NoKey IN
         \/ /\ req[c].op = "createDB" /\ exists
            /\ Respond(c, Failed("errDBExists"))
         \/ /\ req[c].op = "deleteDB" /\ ~exists
            /\ Respond(c, Failed("errDBNotFound"))
         \/ /\ exists <=> req[c].op = "deleteDB"
            /\ Goto(c, "commit") /\ UNCHANGED res
    /\ UNCHANGED <<pebble, locks, req, loc>>

(* databaseKey, documentDBKey and hasDB, under the shared lock.            *)
ReadKey(c) ==
    /\ pc[c] = "key"
    /\ LET key == dbRec[req[c].db] IN
         \/ /\ key = NoKey
            /\ Respond(c, Failed(MissingDB(req[c].op)))
            /\ UNCHANGED loc
         \/ /\ key # NoKey
            /\ loc' = [loc EXCEPT ![c].key = key]
            /\ Goto(c, AfterKey(req[c].op)) /\ UNCHANGED res
    /\ UNCHANGED <<pebble, locks, req>>

(* Mutant: new IDs are taken to be free.                                   *)
HasNoDoc(c) ==
    /\ pc[c] = "hasDoc"
    /\ Goto(c, IF req[c].op = "createDoc" THEN "defs" ELSE "commit")
    /\ UNCHANGED <<pebble, locks, req, loc, res>>

(* has and hasAnyDoc: is one of the new IDs taken?  All are locked here.   *)
HasDoc(c) ==
    /\ pc[c] = "hasDoc"
    /\ LET collision == \E k \in DOMAIN loc[c].ids : docRec[req[c].db][loc[c].ids[k]] # NoDoc
       IN  \/ /\ collision /\ req[c].op = "createDoc"
              /\ Respond(c, Failed("errDocExists"))
           \/ /\ collision /\ req[c].op = "importDocs"
              /\ Goto(c, "retry") /\ UNCHANGED res
           \/ /\ ~collision
              /\ Goto(c, IF req[c].op = "createDoc" THEN "defs" ELSE "commit")
              /\ UNCHANGED res
    /\ UNCHANGED <<pebble, locks, req, loc>>

(* readDoc, the If-Match test and the patch function.  openDoc fails on a  *)
(* record sealed under another key.                                        *)
readError(r, doc, key) ==
    IF doc = NoDoc THEN "errDocNotFound"
    ELSE IF doc.key # key THEN "errCorruptData"
    ELSE IF r.op = "getDoc" THEN "nil"
    ELSE IF ~matchRevision(r.match, doc.rev) THEN "errPreconditionFailed"
    ELSE IF r.op # "deleteDoc" /\ Updated(r, doc) = InvalidPatch THEN "errInvalidPatch"
    ELSE "nil"

ReadDoc(c) ==
    /\ pc[c] = "readDoc"
    /\ LET r == req[c]
           doc == docRec[r.db][r.id]
           err == readError(r, doc, loc[c].key)
       IN  \/ /\ err # "nil"
              /\ Respond(c, Failed(err)) /\ UNCHANGED loc
           \/ /\ err = "nil" /\ r.op = "getDoc"
              /\ Respond(c, Done([json |-> doc.json, rev |-> doc.rev])) /\ UNCHANGED loc
           \/ /\ err = "nil" /\ r.op # "getDoc"
              /\ loc' = [loc EXCEPT ![c].cur = doc]
              /\ Goto(c, "defs") /\ UNCHANGED res
    /\ UNCHANGED <<pebble, locks, req>>

(* indexes, and findIndex in a query.                                      *)
ReadDefs(c) ==
    /\ pc[c] = "defs"
    /\ LET defs == idxDef[req[c].db] IN
         IF req[c].op = "queryDocs" /\ defs[req[c].index] = NoPath
         THEN Respond(c, Failed("errIndexNotFound")) /\ UNCHANGED loc
         ELSE /\ loc' = [loc EXCEPT ![c].defs = defs]
              /\ Goto(c, AfterDefs(req[c].op)) /\ UNCHANGED res
    /\ UNCHANGED <<pebble, locks, req>>

-----------------------------------------------------------------------------
(* The readers of many keys see one snapshot (NewSnapshot, NewIter), so    *)
(* their result is decided when they take it; the lock is released later.  *)
Live(d) == {i \in Id : docRec[d][i] # NoDoc}

(* The first n keys an iterator yields after seeking past the cursor.      *)
Seek(S, cursor, n) ==
    LET rest == {x \in S : x > cursor}
    IN  {x \in rest : Cardinality({y \in rest : y < x}) < n}

(* Mutant: a full page is taken to have a successor.                       *)
CutFull(seen, limit) == [ids |-> Seek(seen, 0, limit), more |-> Cardinality(seen) >= limit]

(* The loop reads one key more than the limit; it only tells there is more.*)
Cut(seen, limit) ==
    IF Cardinality(seen) > limit
    THEN [ids |-> Seek(seen, 0, limit), more |-> TRUE]
    ELSE [ids |-> seen, more |-> FALSE]

listDBs(c) ==
    /\ pc[c] = "listDBs"
    /\ LET page == req[c].page
           names == {d \in DB : dbRec[d] # NoKey}
       IN  Respond(c, Done(Seek(names, page.cursor, page.limit)))
    /\ UNCHANGED <<pebble, locks, req, loc>>

listDocs(c) ==
    /\ pc[c] = "iterate" /\ req[c].op = "listDocs"
    /\ LET page == req[c].page IN
         Respond(c, Done(Cut(Seek(Live(req[c].db), page.cursor, page.limit + 1), page.limit)))
    /\ UNCHANGED <<pebble, locks, req, loc>>

(* An index entry whose document is not in the snapshot is corruption.     *)
queryDocs(c) ==
    /\ pc[c] = "iterate" /\ req[c].op = "queryDocs"
    /\ LET r == req[c]
           entries == idxData[r.db][r.index][r.value]
           seen == Seek(entries, r.page.cursor, r.page.limit + 1)
       IN  Respond(c, IF seen \subseteq Live(r.db)
                      THEN Done(Cut(seen, r.page.limit))
                      ELSE Failed("errCorruptData"))
    /\ UNCHANGED <<pebble, locks, req, loc>>

exportDocs(c) ==
    /\ pc[c] = "iterate" /\ req[c].op = "exportDocs"
    /\ LET docs == docRec[req[c].db]
           live == Live(req[c].db)
       IN  Respond(c, IF \A i \in live : docs[i].key = loc[c].key
                      THEN Done([i \in live |-> docs[i].json])
                      ELSE Failed("errCorruptData"))
    /\ UNCHANGED <<pebble, locks, req, loc>>

-----------------------------------------------------------------------------
(* Batches.  A commit is atomic; the deferred batch.Close can still fail,  *)
(* and turns the answer into an error while the write stays.               *)
Committed(c, out) == Respond(c, Done(out)) \/ Respond(c, Failed("errStoreUnavailable"))

(* createDB: the record and the definitions; deleteDB: the record and      *)
(* every key under the three prefixes of the database.                     *)
LiveKeys == {dbRec[d] : d \in DB} \cup {loc[c].key : c \in Client}

createDB(c) ==
    /\ pc[c] = "commit" /\ req[c].op = "createDB"
    /\ \E key \in Key \ LiveKeys : dbRec' = [dbRec EXCEPT ![req[c].db] = key]
    /\ idxDef' = [idxDef EXCEPT ![req[c].db] = req[c].defs]
    /\ Committed(c, "created")
    /\ UNCHANGED <<docRec, idxData, locks, req, loc>>

deleteDB(c) ==
    /\ pc[c] = "commit" /\ req[c].op = "deleteDB"
    /\ dbRec' = [dbRec EXCEPT ![req[c].db] = NoKey]
    /\ docRec' = [docRec EXCEPT ![req[c].db] = [i \in Id |-> NoDoc]]
    /\ idxData' = [idxData EXCEPT ![req[c].db] = NoEntries]
    /\ idxDef' = [idxDef EXCEPT ![req[c].db] = NoIndexes]
    /\ Committed(c, "deleted")
    /\ UNCHANGED <<locks, req, loc>>

(* Mutant: the entry for the old value stays.                              *)
addIndexEntries(idx, id, old, next) ==
    [n \in IndexName |-> [v \in Value |->
        IF next[n] = v THEN idx[n][v] \cup {id} ELSE idx[n][v]]]

setIndexEntries(idx, ids, values) ==
    [n \in IndexName |-> [v \in Value |->
        idx[n][v] \cup {ids[k] : k \in {k \in DOMAIN ids : values[k][n] = v}}]]

(* Entries whose value stays the same are neither deleted nor set.         *)
changeIndexEntries(idx, id, old, next) ==
    [n \in IndexName |-> [v \in Value |->
        IF old[n] = next[n] THEN idx[n][v]
        ELSE IF next[n] = v THEN idx[n][v] \cup {id}
        ELSE IF old[n] = v THEN idx[n][v] \ {id}
        ELSE idx[n][v]]]

deleteIndexEntries(idx, id, values) ==
    [n \in IndexName |-> [v \in Value |->
        IF values[n] = v THEN idx[n][v] \ {id} ELSE idx[n][v]]]

(* The documents of a database with new ones set, each under its ID.       *)
withDocs(docs, ids, jsons, revs, key) ==
    [i \in Id |->
        IF \E k \in DOMAIN ids : ids[k] = i
        THEN LET k == CHOOSE k \in DOMAIN ids : ids[k] = i
             IN  [json |-> jsons[k], rev |-> revs[k], key |-> key]
        ELSE docs[i]]

(* createDocWithID and importDocs: all documents in one batch.             *)
InsertDocs(c) ==
    /\ pc[c] = "commit" /\ req[c].op \in Inserts
    /\ LET r == req[c]
           ids == loc[c].ids
           values == [k \in DOMAIN r.docs |-> indexValues(r.docs[k], loc[c].defs)]
       IN  \/ /\ \E k \in DOMAIN r.docs : Invalid(values[k])
              /\ Respond(c, Failed("errInvalidIndexValue"))
              /\ UNCHANGED <<docRec, idxData>>
           \/ /\ \A k \in DOMAIN r.docs : ~Invalid(values[k])
              /\ \E revs \in [DOMAIN r.docs -> makeRevision({})] :
                   /\ docRec' = [docRec EXCEPT ![r.db] =
                                   withDocs(docRec[r.db], ids, r.docs, revs, loc[c].key)]
                   /\ Committed(c, Inserted(r, ids, revs))
              /\ idxData' = [idxData EXCEPT ![r.db] = setIndexEntries(@, ids, values)]
    /\ UNCHANGED <<dbRec, idxDef, locks, req, loc>>

(* replaceDoc and patchDoc, from the document and definitions they read.   *)
UpdateDoc(c) ==
    /\ pc[c] = "commit" /\ req[c].op \in {"replaceDoc", "patchDoc"}
    /\ LET r == req[c]
           json == Updated(r, loc[c].cur)
           old == indexValues(loc[c].cur.json, loc[c].defs)
           next == indexValues(json, loc[c].defs)
           err == IF Invalid(old) THEN "errCorruptData" ELSE "errInvalidIndexValue"
       IN  \/ /\ Invalid(old) \/ Invalid(next)
              /\ Respond(c, Failed(err))
              /\ UNCHANGED <<docRec, idxData>>
           \/ /\ ~Invalid(old) /\ ~Invalid(next)
              /\ \E rev \in makeRevision({loc[c].cur.rev}) :
                   /\ docRec' = [docRec EXCEPT ![r.db][r.id] =
                                   [json |-> json, rev |-> rev, key |-> loc[c].key]]
                   /\ Committed(c, Written(r, [json |-> json, rev |-> rev]))
              /\ idxData' = [idxData EXCEPT ![r.db] = changeIndexEntries(@, r.id, old, next)]
    /\ UNCHANGED <<dbRec, idxDef, locks, req, loc>>

deleteDoc(c) ==
    /\ pc[c] = "commit" /\ req[c].op = "deleteDoc"
    /\ LET r == req[c]
           values == indexValues(loc[c].cur.json, loc[c].defs)
       IN  IF Invalid(values)
           THEN Respond(c, Failed("errCorruptData")) /\ UNCHANGED <<docRec, idxData>>
           ELSE /\ docRec' = [docRec EXCEPT ![r.db][r.id] = NoDoc]
                /\ idxData' = [idxData EXCEPT ![r.db] = deleteIndexEntries(@, r.id, values)]
                /\ Committed(c, "deleted")
    /\ UNCHANGED <<dbRec, idxDef, locks, req, loc>>

-----------------------------------------------------------------------------
(* Any Pebble call and the random source may fail; the loops over many     *)
(* documents also end when the request context does or the batch is too    *)
(* large.  Nothing is written then.                                        *)
Fail(c) ==
    /\ pc[c] \in {"makeID", "check", "key", "hasDoc", "readDoc", "listDBs", "defs",
                  "iterate", "commit"}
    /\ \E e \in Failures(req[c].op) :
         /\ e = "errStoreUnavailable" \/ pc[c] \in {"iterate", "commit"}
         /\ Respond(c, Failed(e))
    /\ UNCHANGED <<pebble, locks, req, loc>>

(* The process dies: goroutines and mutexes go, committed batches stay.    *)
Crash ==
    /\ writer' = [s \in DBStripes |-> NoClient]
    /\ readers' = [s \in DBStripes |-> {}]
    /\ docMu' = [s \in DocStripes |-> NoClient]
    /\ pc' = [c \in Client |-> "idle"]
    /\ req' = [c \in Client |-> NoReq]
    /\ loc' = [c \in Client |-> Fresh]
    /\ res' = [c \in Client |-> NoRes]
    /\ UNCHANGED pebble

(* What a goroutine does by itself, without waiting for another.           *)
Local(c) ==
    \/ MakeID(c) \/ UnlockDocs(c) \/ UnlockDB(c)
    \/ CheckDB(c) \/ ReadKey(c) \/ HasDoc(c) \/ ReadDoc(c) \/ ReadDefs(c)
    \/ listDBs(c) \/ listDocs(c) \/ queryDocs(c) \/ exportDocs(c)
    \/ createDB(c) \/ deleteDB(c) \/ InsertDocs(c) \/ UpdateDoc(c) \/ deleteDoc(c)
    \/ Fail(c)

Step(c) == Begin(c) \/ RLock(c) \/ WLock(c) \/ WWait(c) \/ LockDoc(c) \/ Local(c)

Next == Crash \/ \E c \in Client : Step(c)

Spec == Init /\ [][Next]_vars

(* Go schedules every runnable goroutine, and its mutexes hand over to a   *)
(* waiter that has waited too long, so no waiter is passed over for ever.  *)
(* Random IDs do not collide for ever.                                     *)
Collide(c) == HasDoc(c) /\ pc'[c] \in {"retry", "unlockDocs"}

Fairness ==
    \A c \in Client :
        /\ WF_vars(Local(c)) /\ WF_vars(WWait(c))
        /\ SF_vars(RLock(c)) /\ SF_vars(WLock(c)) /\ SF_vars(LockDoc(c))
        /\ <>[][~Collide(c)]_vars

FairSpec == Spec /\ Fairness

-----------------------------------------------------------------------------
(* The secondary indexes agree with the documents in every state another   *)
(* goroutine or a restart can see: an ID has an entry for a value exactly  *)
(* when its document has that value at the path the index defines.         *)
IndexConsistent ==
    \A d \in DB, n \in IndexName, v \in Value :
        idxData[d][n][v] =
            {i \in Live(d) : indexValues(docRec[d][i].json, idxDef[d])[n] = v}

(* Nothing outlives its database, and nothing crosses from one incarnation *)
(* of a name to the next: without a database record there are no documents *)
(* and no definitions, and every document is sealed under the key of the   *)
(* record that is there now.                                               *)
DatabaseOwnsRecords ==
    \A d \in DB :
        /\ dbRec[d] = NoKey => Live(d) = {} /\ idxDef[d] = NoIndexes
        /\ \A i \in Live(d) : docRec[d][i].key = dbRec[d]

(* No interleaving of requests makes an operation report corrupt data: the *)
(* key, the documents, the definitions and the index entries that one      *)
(* operation reads in separate Pebble calls belong together.               *)
NeverCorrupt == \A c \in Client : res[c].err # "errCorruptData"

(* c turns the document cur into new, as its request asks.                 *)
CommitsOn(c, cur, new) ==
    /\ cur # NoDoc /\ matchRevision(req[c].match, cur.rev)
    /\ \/ req[c].op = "deleteDoc" /\ new = NoDoc
       \/ req[c].op # "deleteDoc" /\ new.json = Updated(req[c], cur) /\ new.rev # cur.rev

(* A replacement, patch or deletion takes effect on the document it was    *)
(* decided on: when its batch commits, the stored revision still satisfies *)
(* If-Match, and what is written is made from the stored document, under a *)
(* new revision.  No update in between is lost.                            *)
NoLostUpdate ==
    [][\A c \in Client :
         pc[c] = "commit" /\ pc'[c] # "commit" /\ req[c].op \in Updates /\ docRec' # docRec
           => CommitsOn(c, docRec[req[c].db][req[c].id], docRec'[req[c].db][req[c].id])]_vars

(* Every request is answered: no deadlock among database and document      *)
(* locks and no waiter starved by the others.                              *)
Answered == \A c \in Client : pc[c] # "idle" ~> pc[c] = "idle"

=============================================================================
