-------------------------- MODULE StoreRefinement ---------------------------
(***************************************************************************)
(* Second part of the proof that the store implements DocDB: the readers   *)
(* and the batches.  Every step of a goroutine is a step of its abstract   *)
(* call, or none.                                                          *)
(***************************************************************************)
EXTENDS StoreCalls

USE DEF NoReq, NoRes, DBWrites, Updates, Inserts, SharedOps

(* The readers.                                                            *)
LEMMA PageFacts ==
    ASSUME LInv, NEW c \in Client, AtWork(c), req[c].op \in {"listDBs", "listDocs", "queryDocs"}
    PROVE  req[c].page.limit \in Nat /\ req[c].page.cursor \in Nat
<1>1. req[c] \in Request
  BY Zenon, WorkFacts, RequestAssumption
<1>2. req[c].page \in Window
  BY Zenon, <1>1 DEF Request
<1> QED
  BY Zenon, <1>2 DEF Window

(* listDBs answers at its iterator.                                        *)
LEMMA listDBsRefines ==
    ASSUME LInv, NEW c \in Client, listDBs(c)
    PROVE  Refines
<1> DEFINE page == req[c].page
           names == {d \in DB : dbRec[d] # NoKey}
<1>0. /\ pc[c] = "listDBs" /\ req' = req /\ UNCHANGED <<dbRec, docRec, idxDef>> /\ Step(c)
      /\ Respond(c, Done(Seek(names, page.cursor, page.limit)))
  BY Zenon DEF listDBs, pebble, Step, Local
<1>1. AtWork(c)
  BY Zenon, <1>0 DEF AtWork, Unlocking
<1>2. TypeOK /\ req[c].op = "listDBs"
  BY <1>0, <1>1, WorkFacts, Zenon DEF Flow
<1>3. page.limit \in Nat /\ page.cursor \in Nat
  BY Zenon, <1>1, <1>2, PageFacts
<1>4. names \in SUBSET Nat /\ names = {d \in DB : Abstract!Exists(d)}
  BY <1>2, StoredFacts, DataAssumption, Zenon
<1>5. Seek(names, page.cursor, page.limit) = Abstract!Page(names, page.limit, page.cursor).ids
  BY <1>3, <1>4, SeekIsPage, SamePage, Zenon
<1>6. Abstract!Answer(c, Abstract!Done(Abstract!Page(names, page.limit, page.cursor).ids))
  BY <1>0, <1>1, <1>5, DoneStep, Zenon
<1>7. stored' = stored
  BY <1>0, StoredUnchanged, Zenon
<1>8. Abstract!ListDBs(c, req[c])
  BY <1>2, <1>4, <1>6, <1>7, Zenon DEF Abstract!ListDBs
<1> QED
  BY <1>1, <1>8, ExecuteRefines, Zenon DEF Executes

(* Documents have positive numbers for IDs.                                *)
LEMMA LiveFacts ==
    ASSUME TypeOK, NEW d \in DB
    PROVE  Live(d) \in SUBSET Nat /\ Live(d) \in SUBSET Id
BY Zenon, DataAssumption DEF Live

(* listDocs answers at its iterator.                                       *)
LEMMA listDocsRefines ==
    ASSUME LInv, NEW c \in Client, listDocs(c)
    PROVE  Refines
<1> DEFINE r == req[c]
           hits == Live(r.db)
<1>0. /\ pc[c] = "iterate" /\ r.op = "listDocs"
      /\ req' = req /\ UNCHANGED <<dbRec, docRec, idxDef>> /\ Step(c)
      /\ Respond(c, Done(Cut(Seek(hits, r.page.cursor, r.page.limit + 1), r.page.limit)))
  BY Zenon DEF listDocs, pebble, Step, Local
<1>1. AtWork(c)
  BY Zenon, <1>0 DEF AtWork, Unlocking
<1>2. TypeOK /\ r.db \in DB /\ ReadsHold(c)
  BY <1>0, <1>1, WorkFacts, Zenon
<1>3. r.page.limit \in Nat /\ r.page.cursor \in Nat
  BY Zenon, <1>0, <1>1, PageFacts
<1>4. dbRec[r.db] # NoKey
  BY <1>0, <1>2, Zenon DEF ReadsHold, HasKey
<1>5. Cut(Seek(hits, r.page.cursor, r.page.limit + 1), r.page.limit)
        = Abstract!Page(hits, r.page.limit, r.page.cursor)
  BY <1>2, <1>3, LiveFacts, CutIsPage, SamePage, Zenon
<1>6. Abstract!Answer(c, Abstract!Done(Abstract!Page(hits, r.page.limit, r.page.cursor)))
  BY <1>0, <1>1, <1>5, DoneStep, Zenon
<1>7. stored' = stored
  BY <1>0, StoredUnchanged, Zenon
<1>8. Abstract!Exists(r.db) /\ Abstract!Docs(r.db) = hits
  BY <1>2, <1>4, StoredFacts, Zenon
<1>9. r.op # "queryDocs" /\ r.op \in {"listDocs", "queryDocs"}
  BY Zenon, <1>0
<1>10. Abstract!ReadPage(c, r)
  BY <1>0, <1>6, <1>7, <1>8, <1>9, Zenon DEF Abstract!ReadPage
<1> QED
  BY <1>1, <1>10, ExecuteRefines, Zenon DEF Executes

(* queryDocs answers at its snapshot, as the index entries agree.          *)
LEMMA queryDocsRefines ==
    ASSUME LInv, NEW c \in Client, queryDocs(c)
    PROVE  Refines
<1> DEFINE r == req[c]
           entries == idxData[r.db][r.index][r.value]
           seen == Seek(entries, r.page.cursor, r.page.limit + 1)
           hits == {i \in Abstract!Docs(r.db) :
                     Abstract!indexValues(stored[r.db].docs[i].json,
                                          stored[r.db].defs)[r.index] = r.value}
<1>0. /\ pc[c] = "iterate" /\ r.op = "queryDocs"
      /\ req' = req /\ UNCHANGED <<dbRec, docRec, idxDef>> /\ Step(c)
      /\ Respond(c, IF seen \subseteq Live(r.db) THEN Done(Cut(seen, r.page.limit))
                    ELSE Failed("errCorruptData"))
  BY Zenon DEF queryDocs, pebble, Step, Local
<1>1. AtWork(c)
  BY Zenon, <1>0 DEF AtWork, Unlocking
<1>2. TypeOK /\ r.db \in DB /\ ReadsHold(c) /\ Decided(c) /\ r \in Requests
  BY <1>0, <1>1, WorkFacts, Zenon
<1>3. r.page.limit \in Nat /\ r.page.cursor \in Nat
  BY Zenon, <1>0, <1>1, PageFacts
<1>4. r.index \in IndexName /\ r.value \in Value
  BY <1>0, <1>2, RequestFacts, Zenon
<1>5. dbRec[r.db] # NoKey
  BY <1>0, <1>2, Zenon DEF ReadsHold, HasKey
<1>6. /\ Abstract!Exists(r.db) /\ Abstract!Docs(r.db) = Live(r.db)
      /\ stored[r.db].defs = idxDef[r.db]
      /\ \A i \in Id : stored[r.db].docs[i] = Plain(docRec[r.db][i])
  BY <1>2, <1>5, StoredFacts, Zenon
<1>7. entries = {i \in Live(r.db) : indexValues(docRec[r.db][i].json, idxDef[r.db])[r.index] = r.value}
  <2>1. IndexConsistent
    BY Zenon DEF LInv, Inv, Data
  <2> QED
    BY ZenonT(30), <1>2, <1>4, <2>1 DEF IndexConsistent
<1>8. \A i \in Live(r.db) : stored[r.db].docs[i].json = docRec[r.db][i].json
  <2> SUFFICES ASSUME NEW i \in Live(r.db)
               PROVE  stored[r.db].docs[i].json = docRec[r.db][i].json
    BY Zenon
  <2>1. i \in Id /\ docRec[r.db][i] # NoDoc
    BY Zenon DEF Live
  <2>2. docRec[r.db][i] \in Sealed \cup {NoDoc}
    BY <1>2, <2>1 DEF TypeOK
  <2> QED
    BY <1>6, <2>1, <2>2, PlainFacts, Zenon
<1>9. entries = hits
  <2>1. \A i \in Live(r.db) : Abstract!indexValues(stored[r.db].docs[i].json, stored[r.db].defs)
                                = indexValues(docRec[r.db][i].json, idxDef[r.db])
    BY <1>6, <1>8, SameOperators, Zenon
  <2>2. hits = {i \in Live(r.db) : indexValues(docRec[r.db][i].json, idxDef[r.db])[r.index] = r.value}
    BY <1>6, <2>1, Zenon
  <2> QED
    BY <1>7, <2>2, Zenon
<1>10. entries \in SUBSET Nat /\ seen \subseteq Live(r.db)
  BY <1>2, <1>7, LiveFacts, Zenon DEF Seek
<1>11. Cut(seen, r.page.limit) = Abstract!Page(hits, r.page.limit, r.page.cursor)
  BY <1>3, <1>9, <1>10, CutIsPage, SamePage, Zenon
<1>12. Respond(c, Done(Abstract!Page(hits, r.page.limit, r.page.cursor)))
  BY <1>0, <1>10, <1>11, Zenon
<1>13. Abstract!Answer(c, Abstract!Done(Abstract!Page(hits, r.page.limit, r.page.cursor)))
  BY <1>0, <1>1, <1>12, DoneStep, Zenon
<1>14. stored' = stored
  BY <1>0, StoredUnchanged, Zenon
<1>15. stored[r.db].defs[r.index] # NoPath
  BY <1>0, <1>2, <1>6, Zenon DEF Decided
<1>16. r.op # "listDocs" /\ r.op \in {"listDocs", "queryDocs"}
  BY Zenon, <1>0
<1>17. Abstract!ReadPage(c, r)
  BY <1>0, <1>6, <1>13, <1>14, <1>15, <1>16, Zenon DEF Abstract!ReadPage
<1> QED
  BY <1>1, <1>17, ExecuteRefines, Zenon DEF Executes

(* findIndex decides a query of an index that is not defined.              *)
LEMMA ReadDefsRefines ==
    ASSUME LInv, NEW c \in Client, ReadDefs(c)
    PROVE  Refines
<1> DEFINE r == req[c]
<1>0. pc[c] = "defs" /\ req' = req /\ UNCHANGED <<dbRec, docRec, idxDef>> /\ Step(c)
  BY Zenon DEF ReadDefs, pebble, Step, Local
<1>1. AtWork(c)
  BY Zenon, <1>0 DEF AtWork, Unlocking
<1>2. TypeOK /\ Decided(c) /\ ReadsHold(c) /\ (r.op \in SharedOps => r.db \in DB)
  BY <1>1, WorkFacts, Zenon
<1>3. CASE /\ r.op = "queryDocs" /\ idxDef[r.db][r.index] = NoPath
           /\ Respond(c, Failed("errIndexNotFound"))
  <2>1. Abstract!Error(c, "errIndexNotFound")
    BY Zenon, <1>0, <1>1, <1>3, ErrorStep
  <2>2. r.db \in DB /\ dbRec[r.db] # NoKey
    BY <1>0, <1>2, <1>3, Zenon DEF ReadsHold, HasKey
  <2>3. Abstract!Exists(r.db) /\ stored[r.db].defs = idxDef[r.db]
    BY <1>2, <2>2, StoredFacts, Zenon
  <2>4. Abstract!ReadPage(c, r)
    BY <1>3, <2>1, <2>3, Zenon DEF Abstract!ReadPage
  <2> QED
    BY <1>1, <2>4, ExecuteRefines, Zenon DEF Executes
<1>4. CASE Goto(c, AfterDefs(r.op)) /\ UNCHANGED res
  <2>1. pc'[c] # "idle" /\ res'[c].err = "none"
    BY <1>0, <1>2, <1>4 DEF Goto, TypeOK, Decided, Unlocking, AfterDefs
  <2> QED
    BY Zenon, <1>0, <1>1, <2>1, QuietRefines
<1> QED
  BY <1>3, <1>4, Zenon DEF ReadDefs

(* exportDocs answers at its snapshot.                                     *)
LEMMA exportDocsRefines ==
    ASSUME LInv, NEW c \in Client, exportDocs(c)
    PROVE  Refines
<1> DEFINE r == req[c]
           docs == docRec[r.db]
           live == Live(r.db)
           out == [i \in live |-> docs[i].json]
<1>0. /\ pc[c] = "iterate" /\ r.op = "exportDocs"
      /\ req' = req /\ UNCHANGED <<dbRec, docRec, idxDef>> /\ Step(c)
      /\ Respond(c, IF \A i \in live : docs[i].key = loc[c].key THEN Done(out)
                    ELSE Failed("errCorruptData"))
  BY Zenon DEF exportDocs, pebble, Step, Local
<1>1. AtWork(c)
  BY Zenon, <1>0 DEF AtWork, Unlocking
<1>2. TypeOK /\ r.db \in DB /\ ReadsHold(c)
  BY <1>0, <1>1, WorkFacts, Zenon
<1>3. dbRec[r.db] # NoKey /\ loc[c].key = dbRec[r.db]
  BY <1>0, <1>2, Zenon DEF ReadsHold, HasKey
<1>4. \A i \in live : docs[i].key = loc[c].key
  BY <1>2, <1>3, Zenon DEF LInv, Inv, Data, DatabaseOwnsRecords
<1>5. /\ Abstract!Exists(r.db) /\ Abstract!Docs(r.db) = live
      /\ \A i \in Id : stored[r.db].docs[i] = Plain(docs[i])
  BY <1>2, <1>3, StoredFacts, Zenon
<1>6. \A i \in live : stored[r.db].docs[i].json = docs[i].json
  <2> SUFFICES ASSUME NEW i \in live PROVE stored[r.db].docs[i].json = docs[i].json
    BY Zenon
  <2>1. i \in Id /\ docs[i] # NoDoc
    BY Zenon DEF Live
  <2>2. docs[i] \in Sealed \cup {NoDoc}
    BY <1>2, <2>1 DEF TypeOK
  <2> QED
    BY <1>5, <2>1, <2>2, PlainFacts, Zenon
<1>7. out = [i \in Abstract!Docs(r.db) |-> stored[r.db].docs[i].json]
  BY <1>5, <1>6, Zenon
<1>8. Respond(c, Done(out))
  BY <1>0, <1>4, Zenon
<1>9. Abstract!Answer(c, Abstract!Done(out))
  BY <1>0, <1>1, <1>8, DoneStep, Zenon
<1>10. stored' = stored
  BY <1>0, StoredUnchanged, Zenon
<1> HIDE DEF out
<1>11. Abstract!Export(c, r)
  BY <1>0, <1>5, <1>7, <1>9, <1>10, Zenon DEF Abstract!Export
<1> QED
  BY <1>1, <1>11, ExecuteRefines, Zenon DEF Executes

(* One document of a database that exists.                                 *)
LEMMA DocFacts ==
    ASSUME TypeOK, NEW d \in DB, NEW i \in Id, dbRec[d] # NoKey
    PROVE  /\ Abstract!Exists(d) /\ stored[d].defs = idxDef[d]
           /\ stored[d].docs[i] = NoDoc <=> docRec[d][i] = NoDoc
           /\ docRec[d][i] # NoDoc =>
                /\ stored[d].docs[i] = [json |-> docRec[d][i].json, rev |-> docRec[d][i].rev]
                /\ stored[d].docs[i].json = docRec[d][i].json
                /\ stored[d].docs[i].rev = docRec[d][i].rev
                /\ \A r : Abstract!Updated(r, stored[d].docs[i]) = Updated(r, docRec[d][i])
<1>1. /\ Abstract!Exists(d) /\ stored[d].defs = idxDef[d]
      /\ stored[d].docs[i] = Plain(docRec[d][i])
  BY StoredFacts, Zenon
<1>2. docRec[d][i] \in Sealed \cup {NoDoc}
  BY ZenonT(30) DEF TypeOK
<1>3. CASE docRec[d][i] = NoDoc
  BY <1>1, <1>3, Zenon DEF Plain
<1>4. CASE docRec[d][i] # NoDoc
  <2>1. /\ stored[d].docs[i] # NoDoc
        /\ stored[d].docs[i] = [json |-> docRec[d][i].json, rev |-> docRec[d][i].rev]
        /\ stored[d].docs[i].json = docRec[d][i].json
        /\ stored[d].docs[i].rev = docRec[d][i].rev
    BY <1>1, <1>2, <1>4, PlainFacts, Zenon
  <2>2. \A r : Updated(r, stored[d].docs[i]) = Updated(r, docRec[d][i])
    BY <2>1, Zenon DEF Updated
  <2> QED
    BY <1>1, <1>4, <2>1, <2>2, SameOperators, Zenon
<1> QED
  BY <1>3, <1>4, Zenon

(* readDoc answers getDoc, and refuses updates.                            *)
LEMMA ReadDocRefines ==
    ASSUME LInv, NEW c \in Client, ReadDoc(c)
    PROVE  Refines
<1> DEFINE r == req[c]
           doc == docRec[r.db][r.id]
           sdoc == stored[r.db].docs[r.id]
           err == readError(r, doc, loc[c].key)
<1>0. pc[c] = "readDoc" /\ req' = req /\ UNCHANGED <<dbRec, docRec, idxDef>> /\ Step(c)
  BY Zenon DEF ReadDoc, pebble, Step, Local
<1>1. AtWork(c)
  BY Zenon, <1>0 DEF AtWork, Unlocking
<1>2. TypeOK /\ Decided(c) /\ ReadsHold(c) /\ r.op \in Updates \cup {"getDoc"}
  BY <1>0, <1>1, WorkFacts, Zenon DEF Flow
<1>3. r.db \in DB /\ r.id \in Id
  BY <1>1, <1>2, WorkFacts, Zenon
<1>4. dbRec[r.db] # NoKey /\ loc[c].key = dbRec[r.db]
  BY <1>0, <1>2, Zenon DEF ReadsHold, HasKey
<1>5. doc # NoDoc => doc.key = loc[c].key
  BY <1>3, <1>4, Zenon DEF LInv, Inv, Data, DatabaseOwnsRecords, Live
<1>6. /\ Abstract!Exists(r.db)
      /\ sdoc = NoDoc <=> doc = NoDoc
      /\ doc # NoDoc => /\ sdoc = [json |-> doc.json, rev |-> doc.rev]
                        /\ sdoc.rev = doc.rev
                        /\ Abstract!Updated(r, sdoc) = Updated(r, doc)
  <2>1. /\ Abstract!Exists(r.db) /\ (sdoc = NoDoc <=> doc = NoDoc)
        /\ doc # NoDoc => /\ sdoc = [json |-> doc.json, rev |-> doc.rev]
                          /\ \A q : Abstract!Updated(q, sdoc) = Updated(q, doc)
    BY <1>2, <1>3, <1>4, DocFacts, Zenon
  <2>2. doc # NoDoc => sdoc.rev = doc.rev
    BY <1>2, <1>3, <1>4, DocFacts, Zenon
  <2> QED
    BY <2>1, <2>2, Zenon
<1>7. r.op \in {"getDoc", "replaceDoc", "patchDoc", "deleteDoc"}
  BY Zenon, <1>2
<1>8. SUFFICES ASSUME ~(err = "nil" /\ r.op # "getDoc") PROVE Abstract!OnDoc(c, r) 
  <2>1. CASE err = "nil" /\ r.op # "getDoc"
    <3>1. Goto(c, "defs") /\ UNCHANGED res
      BY <2>1, Zenon DEF ReadDoc
    <3>2. pc'[c] # "idle" /\ res'[c].err = "none"
      <4> HIDE DEF r, doc, err
      <4> QED
        BY <1>0, <1>2, <3>1 DEF Goto, TypeOK, Decided, Unlocking
    <3> QED
      BY Zenon, <1>0, <1>1, <3>2, QuietRefines
  <2> QED
    BY <1>1, <2>1, ExecuteRefines, Zenon DEF Executes
<1>9. CASE err = "nil" /\ r.op = "getDoc"
  <2>1. Respond(c, Done([json |-> doc.json, rev |-> doc.rev]))
    BY <1>9, Zenon DEF ReadDoc
  <2>2. doc # NoDoc
    BY Zenon, <1>9 DEF readError
  <2>3. Abstract!Answer(c, Abstract!Done([json |-> doc.json, rev |-> doc.rev]))
    BY <1>0, <1>1, <2>1, DoneStep, Zenon
  <2>4. stored' = stored
    BY <1>0, StoredUnchanged, Zenon
  <2> QED
    BY <1>6, <1>7, <1>9, <2>2, <2>3, <2>4, Zenon DEF Abstract!OnDoc
<1>10. CASE err # "nil"
  <2>1. Respond(c, Failed(err))
    BY <1>10, Zenon DEF ReadDoc
  <2>2. err \notin {"none", "errDocExists"}
    BY Zenon DEF readError
  <2>3. Abstract!Error(c, err)
    BY <1>0, <1>1, <2>1, <2>2, ErrorStep, Zenon
  <2>4. CASE doc = NoDoc
    <3>1. err = "errDocNotFound"
      BY <2>4, Zenon DEF readError
    <3> QED
      BY <1>6, <1>7, <2>3, <2>4, <3>1, Zenon DEF Abstract!OnDoc
  <2>5. CASE doc # NoDoc /\ ~matchRevision(r.match, doc.rev)
    <3>1. err = "errPreconditionFailed" /\ r.op # "getDoc"
      BY <1>5, <1>10, <2>5, Zenon DEF readError
    <3> QED
      BY <1>6, <1>7, <2>3, <2>5, <3>1, SameOperators, Zenon DEF Abstract!OnDoc
  <2>6. CASE doc # NoDoc /\ matchRevision(r.match, doc.rev)
    <3>1. /\ err = "errInvalidPatch" /\ Updated(r, doc) = InvalidPatch
          /\ r.op # "getDoc" /\ r.op # "deleteDoc"
      BY <1>5, <1>10, <2>6, Zenon DEF readError
    <3>2. r.op \in {"replaceDoc", "patchDoc"}
      BY Zenon, <1>7, <3>1
    <3> QED
      BY <1>6, <1>7, <2>3, <2>6, <3>1, <3>2, SameOperators, Zenon DEF Abstract!OnDoc
  <2> QED
    BY <2>4, <2>5, <2>6, Zenon
<1> QED
  BY Zenon, <1>8, <1>9, <1>10

(* The batches.                                                            *)
LEMMA StoredStep ==
    ASSUME NEW db \in DB, NEW x,
           x = IF dbRec'[db] = NoKey THEN NoDoc
               ELSE [defs |-> idxDef'[db], docs |-> [i \in Id |-> Plain(docRec'[db][i])]],
           \A d \in DB \ {db} : dbRec'[d] = dbRec[d] /\ idxDef'[d] = idxDef[d] /\ docRec'[d] = docRec[d]
    PROVE  stored' = [stored EXCEPT ![db] = x]
<1>1. ASSUME NEW d \in DB, d # db PROVE Contents(d)' = Contents(d)
  <2>1. dbRec'[d] = dbRec[d] /\ idxDef'[d] = idxDef[d] /\ docRec'[d] = docRec[d]
    BY Zenon, <1>1
  <2> QED
    BY <2>1, Zenon DEF Contents
<1>2. Contents(db)' = x
  BY Zenon DEF Contents
<1> QED
  BY Zenon, <1>1, <1>2 DEF stored

(* createDB takes effect at its commit: the name was free.                 *)
LEMMA createDBRefines ==
    ASSUME LInv, NEW c \in Client, createDB(c)
    PROVE  Refines
<1> DEFINE r == req[c]
           new == [defs |-> r.defs, docs |-> [i \in Id |-> NoDoc]]
<1>0. /\ pc[c] = "commit" /\ r.op = "createDB" /\ req' = req /\ docRec' = docRec /\ Step(c)
      /\ Committed(c, "created")
  BY Zenon DEF createDB, Step, Local
<1>1. AtWork(c)
  BY Zenon, <1>0 DEF AtWork, Unlocking
<1>2. TypeOK /\ r.db \in DB /\ dbRec[r.db] = NoKey
  BY <1>0, <1>1, WorkFacts, Zenon DEF ReadsHold
<1>3. dbRec'[r.db] # NoKey /\ idxDef'[r.db] = r.defs
  BY Zenon, <1>2, StoreAssumption DEF createDB, TypeOK
<1>4. \A i \in Id : docRec[r.db][i] = NoDoc
  BY <1>2, Zenon DEF LInv, Inv, Data, DatabaseOwnsRecords, Live
<1>5. new = IF dbRec'[r.db] = NoKey THEN NoDoc
            ELSE [defs |-> idxDef'[r.db], docs |-> [i \in Id |-> Plain(docRec'[r.db][i])]]
  <2>1. \A i \in Id : Plain(docRec'[r.db][i]) = NoDoc
    BY <1>0, <1>4, Zenon DEF Plain
  <2>2. [i \in Id |-> Plain(docRec'[r.db][i])] = [i \in Id |-> NoDoc]
    BY <2>1, Zenon
  <2> QED
    BY <1>3, <2>2, Zenon
<1>6. stored' = [stored EXCEPT ![r.db] = new]
  <2>1. \A d \in DB \ {r.db} : dbRec'[d] = dbRec[d] /\ idxDef'[d] = idxDef[d] /\ docRec'[d] = docRec[d]
    BY <1>2, DBWritesOne, Zenon
  <2> HIDE DEF new
  <2> QED
    BY <1>2, <1>5, <2>1, StoredStep, Zenon
<1>7. Abstract!Finish(c, "created")
  BY <1>0, <1>1, FinishStep, Zenon
<1>8. ~Abstract!Exists(r.db)
  BY <1>2, StoredFacts, Zenon
<1>9. Abstract!CreateDB(c, r)
  BY <1>0, <1>6, <1>7, <1>8, Zenon DEF Abstract!CreateDB
<1> QED
  BY <1>1, <1>9, ExecuteRefines, Zenon DEF Executes

(* deleteDB takes effect at its commit: the database was there.            *)
LEMMA deleteDBRefines ==
    ASSUME LInv, NEW c \in Client, deleteDB(c)
    PROVE  Refines
<1> DEFINE r == req[c]
<1>0. /\ pc[c] = "commit" /\ r.op = "deleteDB" /\ req' = req /\ Step(c)
      /\ Committed(c, "deleted")
  BY Zenon DEF deleteDB, Step, Local
<1>1. AtWork(c)
  BY Zenon, <1>0 DEF AtWork, Unlocking
<1>2. TypeOK /\ r.db \in DB /\ dbRec[r.db] # NoKey
  BY <1>0, <1>1, WorkFacts, Zenon DEF Decided
<1>3. dbRec'[r.db] = NoKey
  BY Zenon, <1>2 DEF deleteDB, TypeOK
<1>4. NoDoc = IF dbRec'[r.db] = NoKey THEN NoDoc
              ELSE [defs |-> idxDef'[r.db], docs |-> [i \in Id |-> Plain(docRec'[r.db][i])]]
  BY <1>3, Zenon
<1>5. stored' = [stored EXCEPT ![r.db] = NoDoc]
  <2>1. \A d \in DB \ {r.db} : dbRec'[d] = dbRec[d] /\ idxDef'[d] = idxDef[d] /\ docRec'[d] = docRec[d]
    BY <1>2, DBWritesOne, Zenon
  <2> QED
    BY <1>2, <1>4, <2>1, StoredStep, Zenon
<1>6. Abstract!Finish(c, "deleted")
  BY <1>0, <1>1, FinishStep, Zenon
<1>7. Abstract!DeleteDB(c, r)
  BY <1>0, <1>2, <1>5, <1>6, StoredFacts, Zenon DEF Abstract!DeleteDB
<1> QED
  BY <1>1, <1>7, ExecuteRefines, Zenon DEF Executes

(* A batch that changes documents of one database only.                    *)
LEMMA SetDocsStep ==
    ASSUME TypeOK, NEW db \in DB, dbRec[db] # NoKey, dbRec' = dbRec, idxDef' = idxDef,
           \A d \in DB \ {db} : docRec'[d] = docRec[d],
           NEW F, F = [i \in Id |-> Plain(docRec'[db][i])]
    PROVE  Abstract!SetDocs(db, F)
<1> DEFINE x == [defs |-> idxDef[db], docs |-> F]
<1>1. x = IF dbRec'[db] = NoKey THEN NoDoc
          ELSE [defs |-> idxDef'[db], docs |-> [i \in Id |-> Plain(docRec'[db][i])]]
  BY Zenon
<1>2. \A d \in DB \ {db} : dbRec'[d] = dbRec[d] /\ idxDef'[d] = idxDef[d] /\ docRec'[d] = docRec[d]
  BY Zenon
<1>3. stored[db].defs = idxDef[db]
  BY StoredFacts, Zenon
<1>4. stored' = [stored EXCEPT ![db] = x]
  <2> HIDE DEF x
  <2> QED
    BY <1>1, <1>2, StoredStep, Zenon
<1> QED
  BY <1>3, <1>4, Zenon DEF Abstract!SetDocs

(* A batch that changes one document.                                      *)
LEMMA PutStep ==
    ASSUME TypeOK, NEW db \in DB, NEW id \in Id, NEW doc, dbRec[db] # NoKey,
           dbRec' = dbRec, idxDef' = idxDef,
           docRec' = [docRec EXCEPT ![db][id] = doc]
    PROVE  Abstract!Put(db, id, Plain(doc))
<1> DEFINE F == [stored[db].docs EXCEPT ![id] = Plain(doc)]
<1>1. /\ \A d \in DB \ {db} : docRec'[d] = docRec[d]
      /\ docRec'[db][id] = doc
      /\ \A i \in Id \ {id} : docRec'[db][i] = docRec[db][i]
  BY Zenon DEF TypeOK
<1>2. stored[db].docs = [i \in Id |-> Plain(docRec[db][i])]
  BY StoredFacts, Zenon
<1>3. F = [i \in Id |-> IF i = id THEN Plain(doc) ELSE Plain(docRec[db][i])]
  BY Zenon, <1>2
<1>4. \A i \in Id : Plain(docRec'[db][i]) = IF i = id THEN Plain(doc) ELSE Plain(docRec[db][i])
  BY <1>1
<1>5. F = [i \in Id |-> Plain(docRec'[db][i])]
  BY <1>3, <1>4, Zenon
<1> HIDE DEF F
<1>6. Abstract!SetDocs(db, F)
  BY <1>1, <1>5, SetDocsStep, Zenon
<1> QED
  BY <1>6, Zenon DEF Abstract!Put, F

(* deleteDoc takes effect at its commit, on what it read.                  *)
LEMMA deleteDocRefines ==
    ASSUME LInv, NEW c \in Client, deleteDoc(c)
    PROVE  Refines
<1> DEFINE r == req[c]
           doc == docRec[r.db][r.id]
           sdoc == stored[r.db].docs[r.id]
<1>0. /\ pc[c] = "commit" /\ r.op = "deleteDoc" /\ req' = req /\ Step(c)
      /\ dbRec' = dbRec /\ idxDef' = idxDef
  BY Zenon DEF deleteDoc, Step, Local
<1>1. AtWork(c)
  BY Zenon, <1>0 DEF AtWork, Unlocking
<1>2. TypeOK /\ ReadsHold(c) /\ r.db \in DB /\ r.id \in Id
  BY <1>0, <1>1, WorkFacts, Zenon
<1>3. /\ dbRec[r.db] # NoKey /\ loc[c].defs = idxDef[r.db]
      /\ loc[c].cur = doc /\ readError(r, doc, loc[c].key) = "nil"
  BY <1>0, <1>2, Zenon DEF ReadsHold, HasKey, HasDefs, HasCurrent
<1>4. doc # NoDoc /\ matchRevision(r.match, doc.rev)
  BY Zenon, <1>0, <1>3 DEF readError
<1>5. ~Invalid(indexValues(loc[c].cur.json, loc[c].defs))
  BY <1>2, <1>3, <1>4, Zenon DEF LInv, Inv, Data, Indexable, Live
<1>6. docRec' = [docRec EXCEPT ![r.db][r.id] = NoDoc] /\ Committed(c, "deleted")
  BY <1>5, Zenon DEF deleteDoc
<1>7. Abstract!Put(r.db, r.id, NoDoc)
  <2>1. Plain(NoDoc) = NoDoc
    BY Zenon DEF Plain
  <2> QED
    BY <1>0, <1>2, <1>3, <1>6, <2>1, PutStep, Zenon
<1>8. Abstract!Finish(c, "deleted")
  BY <1>0, <1>1, <1>6, FinishStep, Zenon
<1>9. Abstract!Exists(r.db) /\ sdoc # NoDoc /\ sdoc.rev = doc.rev
  BY <1>2, <1>3, <1>4, DocFacts, Zenon
<1>10. Abstract!matchRevision(r.match, sdoc.rev)
  BY <1>4, <1>9, SameOperators, Zenon
<1>11. Abstract!OnDoc(c, r)
  BY <1>0, <1>7, <1>8, <1>9, <1>10, Zenon DEF Abstract!OnDoc
<1> QED
  BY <1>1, <1>11, ExecuteRefines, Zenon DEF Executes

(* replaceDoc and patchDoc take effect at their commit.                    *)
LEMMA UpdateDocRefines ==
    ASSUME LInv, NEW c \in Client, UpdateDoc(c)
    PROVE  Refines
<1> DEFINE r == req[c]
           doc == docRec[r.db][r.id]
           sdoc == stored[r.db].docs[r.id]
           json == Updated(r, loc[c].cur)
           next == indexValues(json, loc[c].defs)
<1>0. /\ pc[c] = "commit" /\ r.op \in {"replaceDoc", "patchDoc"} /\ req' = req /\ Step(c)
      /\ dbRec' = dbRec /\ idxDef' = idxDef
  BY Zenon DEF UpdateDoc, Step, Local
<1>1. AtWork(c)
  BY Zenon, <1>0 DEF AtWork, Unlocking
<1>2. TypeOK /\ ReadsHold(c) /\ r.db \in DB /\ r.id \in Id
  BY <1>0, <1>1, WorkFacts, Zenon
<1>3. /\ dbRec[r.db] # NoKey /\ loc[c].defs = idxDef[r.db]
      /\ loc[c].cur = doc /\ readError(r, doc, loc[c].key) = "nil"
  BY <1>0, <1>2, Zenon DEF ReadsHold, HasKey, HasDefs, HasCurrent
<1>4. doc # NoDoc /\ matchRevision(r.match, doc.rev) /\ json # InvalidPatch
  BY Zenon, <1>0, <1>3 DEF readError
<1>5. ~Invalid(indexValues(loc[c].cur.json, loc[c].defs))
  BY <1>2, <1>3, <1>4, Zenon DEF LInv, Inv, Data, Indexable, Live
<1>6. /\ Abstract!Exists(r.db) /\ stored[r.db].defs = idxDef[r.db] /\ sdoc # NoDoc
      /\ \A q : Abstract!Updated(q, sdoc) = Updated(q, doc)
  BY <1>2, <1>3, <1>4, DocFacts, Zenon
<1>7. sdoc.rev = doc.rev
  BY <1>2, <1>3, <1>4, DocFacts, Zenon
<1>8. Abstract!matchRevision(r.match, sdoc.rev)
  BY <1>4, <1>7, SameOperators, Zenon
<1>9. Abstract!Updated(r, sdoc) = json /\ Abstract!Updated(r, sdoc) # InvalidPatch
  BY <1>3, <1>4, <1>6, Zenon
<1>10. Abstract!Invalid(Abstract!indexValues(json, stored[r.db].defs)) <=> Invalid(next)
  BY <1>3, <1>6, SameOperators, Zenon
<1>11. CASE Invalid(next)
  <2>1. Respond(c, Failed("errInvalidIndexValue")) /\ docRec' = docRec
    BY <1>5, <1>11, Zenon DEF UpdateDoc
  <2>2. Abstract!Error(c, "errInvalidIndexValue")
    BY Zenon, <1>0, <1>1, <2>1, ErrorStep
  <2>3. Abstract!OnDoc(c, r)
    BY <1>0, <1>6, <1>8, <1>9, <1>10, <1>11, <2>2, Zenon DEF Abstract!OnDoc
  <2> QED
    BY <1>1, <2>3, ExecuteRefines, Zenon DEF Executes
<1>12. CASE ~Invalid(next)
  <2>1. PICK rev \in makeRevision({loc[c].cur.rev}) :
          /\ docRec' = [docRec EXCEPT ![r.db][r.id] = [json |-> json, rev |-> rev, key |-> loc[c].key]]
          /\ Committed(c, Written(r, [json |-> json, rev |-> rev]))
    BY <1>5, <1>12, Zenon DEF UpdateDoc
  <2> DEFINE new == [json |-> json, rev |-> rev, key |-> loc[c].key]
  <2>2. new # NoDoc
    <3>1. json \in Json /\ rev \in Rev
      BY <1>0, <1>2, <1>3, <1>4, <2>1, UpdatedIsJson, Zenon DEF makeRevision
    <3>2. loc[c].key \in Key
      BY Zenon, <1>0, <1>2, <1>3 DEF TypeOK, Locals, ReadsHold, HasKey
    <3> QED
      BY <3>1, <3>2, StoreAssumption
  <2>3. Plain(new) = [json |-> json, rev |-> rev]
    BY Zenon, <2>2 DEF Plain
  <2>4. Abstract!Put(r.db, r.id, [json |-> json, rev |-> rev])
    BY <1>0, <1>2, <1>3, <2>1, <2>3, PutStep, Zenon
  <2>5. Abstract!Finish(c, Abstract!Written(r, [json |-> json, rev |-> rev]))
    BY <1>0, <1>1, <2>1, FinishStep, SameOperators, Zenon
  <2>6. rev \in Abstract!makeRevision({sdoc.rev})
    BY <1>3, <1>7, <2>1, SameOperators, Zenon
  <2>7. Abstract!OnDoc(c, r)
    BY <1>0, <1>6, <1>8, <1>9, <1>10, <1>12, <2>4, <2>5, <2>6, Zenon DEF Abstract!OnDoc
  <2> QED
    BY <1>1, <2>7, ExecuteRefines, Zenon DEF Executes
<1> QED
  BY Zenon, <1>11, <1>12

(* createDoc and importDocs: all documents at the commit.                  *)
LEMMA InsertDocsRefines ==
    ASSUME LInv, NEW c \in Client, InsertDocs(c)
    PROVE  Refines
<1> DEFINE r == req[c]
           ids == loc[c].ids
           values == [k \in DOMAIN r.docs |-> indexValues(r.docs[k], loc[c].defs)]
<1>0. /\ pc[c] = "commit" /\ r.op \in Inserts /\ req' = req /\ Step(c)
      /\ dbRec' = dbRec /\ idxDef' = idxDef
  BY Zenon DEF InsertDocs, Step, Local
<1>1. AtWork(c)
  BY Zenon, <1>0 DEF AtWork, Unlocking
<1>2. TypeOK /\ ReadsHold(c) /\ r.db \in DB /\ r \in Requests
  BY <1>0, <1>1, WorkFacts, Zenon
<1>3. /\ dbRec[r.db] # NoKey /\ loc[c].key = dbRec[r.db] /\ loc[c].defs = idxDef[r.db]
      /\ ids \in Injection(DOMAIN r.docs, Id)
      /\ \A i \in Targets(c) : docRec[r.db][i] = NoDoc
  BY Zenon, <1>0, <1>2 DEF ReadsHold, HasKey, HasDefs, HasIDs, HasFree, Locking
<1>4. /\ Abstract!Exists(r.db) /\ stored[r.db].defs = idxDef[r.db] /\ Abstract!Docs(r.db) = Live(r.db)
      /\ \A i \in Id : stored[r.db].docs[i] = Plain(docRec[r.db][i])
  BY <1>2, <1>3, StoredFacts, Zenon
<1>5. \A k \in DOMAIN r.docs :
        Abstract!Invalid(Abstract!indexValues(r.docs[k], stored[r.db].defs)) <=> Invalid(values[k])
  <2>1. \A k \in DOMAIN r.docs : values[k] = indexValues(r.docs[k], loc[c].defs)
    BY Zenon
  <2> QED
    BY <1>3, <1>4, <2>1, SameOperators, Zenon
<1>6. CASE \E k \in DOMAIN r.docs : Invalid(values[k])
  <2>1. Respond(c, Failed("errInvalidIndexValue")) /\ docRec' = docRec
    BY <1>6, Zenon DEF InsertDocs
  <2>2. Abstract!Error(c, "errInvalidIndexValue")
    BY Zenon, <1>0, <1>1, <2>1, ErrorStep
  <2>3. \E k \in DOMAIN r.docs : Abstract!Invalid(Abstract!indexValues(r.docs[k], stored[r.db].defs))
    BY <1>5, <1>6, Zenon
  <2>4. Abstract!Insert(c, r)
    BY <1>0, <1>4, <2>2, <2>3, Zenon DEF Abstract!Insert
  <2> QED
    BY <1>1, <2>4, ExecuteRefines, Zenon DEF Executes
<1>7. CASE ~\E k \in DOMAIN r.docs : Invalid(values[k])
  <2>1. PICK revs \in [DOMAIN r.docs -> makeRevision({})] :
          /\ docRec' = [docRec EXCEPT ![r.db] =
                          withDocs(docRec[r.db], ids, r.docs, revs, loc[c].key)]
          /\ Committed(c, Inserted(r, ids, revs))
    BY <1>7, Zenon DEF InsertDocs
  <2> DEFINE F == [i \in Id |->
                     IF \E k \in DOMAIN ids : ids[k] = i
                     THEN LET k == CHOOSE k \in DOMAIN ids : ids[k] = i
                          IN  [json |-> r.docs[k], rev |-> revs[k]]
                     ELSE stored[r.db].docs[i]]
  <2>2. revs \in [DOMAIN r.docs -> Rev]
    BY Zenon, <2>1 DEF makeRevision
  <2>3. ids \in Abstract!Injection(DOMAIN r.docs, Id \ Abstract!Docs(r.db))
    <3>1. ids \in [DOMAIN r.docs -> Id] /\ DOMAIN ids = DOMAIN r.docs
      BY Zenon, <1>3 DEF Injection
    <3>2. IsInjective(ids)
      BY <1>3, Zenon DEF Injection
    <3>3. \A k \in DOMAIN ids : docRec[r.db][ids[k]] = NoDoc
      BY <1>0, <1>3, Zenon DEF Targets
    <3>4. \A k \in DOMAIN ids : ids[k] \in Id \ Live(r.db)
      BY <3>1, <3>3, Zenon DEF Live
    <3>5. ids \in [DOMAIN r.docs -> Id \ Live(r.db)]
      BY Zenon, <3>1, <3>4
    <3> QED
      BY <1>4, <3>2, <3>5, SameInjection, Zenon DEF Injection
  <2>4. docRec'[r.db] = withDocs(docRec[r.db], ids, r.docs, revs, loc[c].key)
        /\ \A d \in DB \ {r.db} : docRec'[d] = docRec[d]
    BY Zenon, <1>2, <2>1 DEF TypeOK
  <2>5. F = [i \in Id |-> Plain(docRec'[r.db][i])]
    <3> SUFFICES ASSUME NEW i \in Id PROVE F[i] = Plain(docRec'[r.db][i])
      BY Zenon
    <3>1. CASE \E k \in DOMAIN ids : ids[k] = i
      <4> DEFINE k == CHOOSE k \in DOMAIN ids : ids[k] = i
                 new == [json |-> r.docs[k], rev |-> revs[k], key |-> loc[c].key]
      <4>1. k \in DOMAIN ids
        BY <3>1, Zenon
      <4> HIDE DEF k
      <4>2. docRec'[r.db][i] = new
        BY <2>4, <3>1, Zenon DEF withDocs, k
      <4>3. F[i] = [json |-> r.docs[k], rev |-> revs[k]]
        BY <3>1, Zenon DEF k
      <4>4. new # NoDoc
        <5>1. k \in DOMAIN r.docs
          BY Zenon, <1>3, <4>1 DEF Injection
        <5>2. r.docs \in Seq(Json)
          BY <1>0, <1>2, RequestFacts, Zenon
        <5>3. r.docs[k] \in Json /\ revs[k] \in Rev
          BY <2>2, <5>1, <5>2
        <5>4. loc[c].key \in Key
          BY Zenon, <1>2, <1>3 DEF TypeOK
        <5> QED
          BY <5>3, <5>4, StoreAssumption
      <4>5. Plain(new) = [json |-> r.docs[k], rev |-> revs[k]]
        BY Zenon, <4>4 DEF Plain
      <4> QED
        BY <4>2, <4>3, <4>5, Zenon
    <3>2. CASE ~\E k \in DOMAIN ids : ids[k] = i
      <4>1. docRec'[r.db][i] = docRec[r.db][i]
        BY <2>4, <3>2, Zenon DEF withDocs
      <4>2. F[i] = stored[r.db].docs[i]
        BY <3>2, Zenon
      <4> HIDE DEF F
      <4> QED
        BY <1>4, <4>1, <4>2, Zenon
    <3> QED
      BY Zenon, <3>1, <3>2
  <2>6. Abstract!SetDocs(r.db, F)
    <3> HIDE DEF F
    <3> QED
      BY <1>0, <1>2, <1>3, <2>4, <2>5, SetDocsStep, Zenon
  <2>7. Abstract!Finish(c, Abstract!Inserted(r, ids, revs))
    BY <1>0, <1>1, <2>1, FinishStep, SameOperators, Zenon
  <2>8. ~\E k \in DOMAIN r.docs : Abstract!Invalid(Abstract!indexValues(r.docs[k], stored[r.db].defs))
    BY <1>5, <1>7, Zenon
  <2>9. Abstract!Insert(c, r)
    BY <1>0, <1>4, <2>2, <2>3, <2>6, <2>7, <2>8, Zenon DEF Abstract!Insert
  <2> QED
    BY <1>1, <2>9, ExecuteRefines, Zenon DEF Executes
<1> QED
  BY Zenon, <1>6, <1>7

(* The empty store.                                                        *)
LEMMA InitRefines == Init => Abstract!Init
<1> SUFFICES ASSUME Init PROVE Abstract!Init
  BY Zenon
<1>1. \A d \in DB : Contents(d) = NoDoc
  BY Zenon DEF Init, Contents
<1>2. stored = [d \in DB |-> NoDoc]
  BY <1>1, Zenon DEF stored
<1>3. \A c \in Client : Progress(c) = Abstract!Idle
  BY Zenon DEF Init, Progress, Abstract!Idle
<1>4. served = [c \in Client |-> Abstract!Idle]
  BY <1>3, Zenon DEF served
<1> QED
  BY <1>2, <1>4, Zenon DEF Abstract!Init

(* Every step of a goroutine.                                              *)
LEMMA StepRefines ==
    ASSUME LInv, NEW c \in Client, Step(c)
    PROVE  Refines
BY Zenon, BeginRefines, LocksRefine, UnlockRefines, CheckDBRefines, ReadKeyRefines,
   HasDocRefines,
   ReadDocRefines, ReadDefsRefines, listDBsRefines, listDocsRefines, queryDocsRefines,
   exportDocsRefines, createDBRefines, deleteDBRefines, InsertDocsRefines, UpdateDocRefines,
   deleteDocRefines, FailRefines DEF Step, Local

(* Linearizability, for any number of goroutines, databases and documents, *)
(* any requests and any assignment of stripes: every operation of          *)
(* storage.go takes effect at one instant between its call and its return, *)
(* with the answer DocDB gives at that instant.                            *)
THEOREM StoreLinearizable == Spec => Linearizable
<1>1. LInv /\ [Next]_vars => [Abstract!Next]_Abstract!vars
  <2> SUFFICES ASSUME LInv, [Next]_vars PROVE Refines
    BY Zenon DEF Refines
  <2>1. CASE UNCHANGED vars
    <3>1. stored' = stored
      BY <2>1, StoredUnchanged, Zenon DEF vars, pebble
    <3>2. \A c \in Client : Progress(c)' = Progress(c)
      BY <2>1, Zenon DEF vars, Progress
    <3>3. served' = served
      BY <3>2, Zenon DEF served
    <3> QED
      BY <3>1, <3>3, Zenon DEF Refines, Abstract!vars
  <2> QED
    BY <2>1, CrashRefines, StepRefines, Zenon DEF Next
<1> QED
  BY LInvIsInvariant, InitRefines, <1>1, PTL DEF Spec, Linearizable, Abstract!Spec

=============================================================================
