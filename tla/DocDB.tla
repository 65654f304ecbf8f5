-------------------------------- MODULE DocDB --------------------------------
(***************************************************************************)
(* What the store promises its callers: every operation takes effect, and  *)
(* its answer is decided, at one instant between its call and its return;  *)
(* a crash loses calls in progress and nothing else.  There are no locks,  *)
(* keys or index entries here: a query is answered from the documents.     *)
(***************************************************************************)
EXTENDS Documents

VARIABLES
    dbs,    \* dbs[d]: the index set and documents of database d, or NoDoc
    calls   \* calls[c]: what goroutine c is doing

vars == <<dbs, calls>>

Database == [defs: Schema, docs: [Id -> StoredDoc \cup {NoDoc}]]

Idle == [st |-> "idle"]

Init ==
    /\ dbs = [d \in DB |-> NoDoc]
    /\ calls = [c \in Client |-> Idle]

Exists(d) == dbs[d] # NoDoc

Docs(d) == {i \in Id : dbs[d].docs[i] # NoDoc}

Answer(c, res) ==
    calls' = [calls EXCEPT ![c] = [st |-> "done", req |-> @.req, res |-> res]]

(* A write that is in place may still be answered with an error, when      *)
(* closing the batch fails after its commit.                               *)
Finish(c, out) == Answer(c, Done(out)) \/ Answer(c, Failed("errStoreUnavailable"))

Error(c, e) == Answer(c, Failed(e)) /\ UNCHANGED dbs

SetDocs(d, docs) == dbs' = [dbs EXCEPT ![d] = [defs |-> @.defs, docs |-> docs]]

Put(d, i, doc) == SetDocs(d, [dbs[d].docs EXCEPT ![i] = doc])

-----------------------------------------------------------------------------
Call(c) ==
    /\ calls[c] = Idle
    /\ \E r \in Requests : calls' = [calls EXCEPT ![c] = [st |-> "called", req |-> r]]
    /\ UNCHANGED dbs

Return(c) ==
    /\ calls[c].st = "done"
    /\ calls' = [calls EXCEPT ![c] = Idle]
    /\ UNCHANGED dbs

CreateDB(c, r) ==
    /\ r.op = "createDB"
    /\ IF Exists(r.db)
       THEN Error(c, "errDBExists")
       ELSE /\ dbs' = [dbs EXCEPT ![r.db] =
                         [defs |-> r.defs, docs |-> [i \in Id |-> NoDoc]]]
            /\ Finish(c, "created")

DeleteDB(c, r) ==
    /\ r.op = "deleteDB" /\ Exists(r.db)
    /\ dbs' = [dbs EXCEPT ![r.db] = NoDoc]
    /\ Finish(c, "deleted")

ListDBs(c, r) ==
    /\ r.op = "listDBs"
    /\ Answer(c, Done(Page({d \in DB : Exists(d)}, r.page.limit, r.page.cursor).ids))
    /\ UNCHANGED dbs

NoSuchDB(c, r) ==
    /\ r.op \notin {"createDB", "listDBs"} /\ ~Exists(r.db)
    /\ Error(c, MissingDB(r.op))

(* Creation and import: all documents of the request at once, each under   *)
(* an ID no document of the database has.                                  *)
Insert(c, r) ==
    /\ r.op \in {"createDoc", "importDocs"} /\ Exists(r.db)
    /\ IF \E k \in DOMAIN r.docs : Invalid(indexValues(r.docs[k], dbs[r.db].defs))
       THEN Error(c, "errInvalidIndexValue")
       ELSE \E ids \in Injection(DOMAIN r.docs, Id \ Docs(r.db)),
               revs \in [DOMAIN r.docs -> Rev] :
              /\ SetDocs(r.db, [i \in Id |->
                           IF \E k \in DOMAIN ids : ids[k] = i
                           THEN LET k == CHOOSE k \in DOMAIN ids : ids[k] = i
                                IN  [json |-> r.docs[k], rev |-> revs[k]]
                           ELSE dbs[r.db].docs[i]])
              /\ Finish(c, Inserted(r, ids, revs))

ReadPage(c, r) ==
    /\ r.op \in {"listDocs", "queryDocs"} /\ Exists(r.db)
    /\ LET defs == dbs[r.db].defs
           hits == IF r.op = "listDocs" THEN Docs(r.db)
                   ELSE {i \in Docs(r.db) :
                           indexValues(dbs[r.db].docs[i].json, defs)[r.index] = r.value}
       IN  IF r.op = "queryDocs" /\ defs[r.index] = NoPath
           THEN Error(c, "errIndexNotFound")
           ELSE /\ Answer(c, Done(Page(hits, r.page.limit, r.page.cursor)))
                /\ UNCHANGED dbs

Export(c, r) ==
    /\ r.op = "exportDocs" /\ Exists(r.db)
    /\ Answer(c, Done([i \in Docs(r.db) |-> dbs[r.db].docs[i].json]))
    /\ UNCHANGED dbs

(* The operations on one document.  A conditional write takes effect only  *)
(* on the revision its If-Match names.                                     *)
OnDoc(c, r) ==
    /\ r.op \in {"getDoc", "replaceDoc", "patchDoc", "deleteDoc"} /\ Exists(r.db)
    /\ LET doc == dbs[r.db].docs[r.id]
           defs == dbs[r.db].defs
       IN  \/ /\ doc = NoDoc
              /\ Error(c, "errDocNotFound")
           \/ /\ doc # NoDoc /\ r.op = "getDoc"
              /\ Answer(c, Done(doc)) /\ UNCHANGED dbs
           \/ /\ doc # NoDoc /\ r.op # "getDoc" /\ ~matchRevision(r.match, doc.rev)
              /\ Error(c, "errPreconditionFailed")
           \/ /\ doc # NoDoc /\ r.op = "deleteDoc" /\ matchRevision(r.match, doc.rev)
              /\ Put(r.db, r.id, NoDoc)
              /\ Finish(c, "deleted")
           \/ /\ doc # NoDoc /\ r.op \in {"replaceDoc", "patchDoc"}
              /\ matchRevision(r.match, doc.rev)
              /\ LET json == Updated(r, doc)
                 IN  IF json = InvalidPatch THEN Error(c, "errInvalidPatch")
                     ELSE IF Invalid(indexValues(json, defs))
                     THEN Error(c, "errInvalidIndexValue")
                     ELSE \E rev \in makeRevision({doc.rev}) :
                            /\ Put(r.db, r.id, [json |-> json, rev |-> rev])
                            /\ Finish(c, Written(r, [json |-> json, rev |-> rev]))

Fail(c, r) == \E e \in Failures(r.op) : Error(c, e)

(* The instant at which a call takes effect.                               *)
Execute(c) ==
    /\ calls[c].st = "called"
    /\ LET r == calls[c].req IN
         \/ CreateDB(c, r) \/ DeleteDB(c, r) \/ ListDBs(c, r) \/ NoSuchDB(c, r)
         \/ Insert(c, r) \/ ReadPage(c, r) \/ Export(c, r) \/ OnDoc(c, r) \/ Fail(c, r)

Crash ==
    /\ calls' = [c \in Client |-> Idle]
    /\ UNCHANGED dbs

Next == Crash \/ \E c \in Client : Call(c) \/ Execute(c) \/ Return(c)

Spec == Init /\ [][Next]_vars

=============================================================================
