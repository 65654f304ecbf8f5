---------------------------- MODULE StoreProofs -----------------------------
(***************************************************************************)
(* Inv is an invariant of the store for every set of goroutines, databases *)
(* and documents and every assignment of stripes.  First the locks and the *)
(* reads: what a step of goroutine c does to those of the others, and to   *)
(* its own.  Then the data and the types.  The properties of Store follow  *)
(* from Inv.                                                               *)
(***************************************************************************)
EXTENDS StoreInv, TLAPS

USE DEF NoReq, NoRes, DBWrites, Updates, Inserts, SharedOps

-----------------------------------------------------------------------------
(* Each operation passes through its own steps (Flow), holds               *)
(* the locks of the section it is in (LocksHeld), and loses none of them   *)
(* to a step of another goroutine.                                         *)

(* The fields of a request, by operation, as the handlers pass them to the *)
(* store.                                                                  *)
LEMMA RequestFacts ==
    ASSUME NEW r \in Requests
    PROVE  /\ r.op \in SharedOps \cup DBWrites \cup {"listDBs"}
           /\ r.op \in SharedOps \cup DBWrites => r.db \in DB
           /\ r.op \in Updates \cup {"getDoc"} => r.id \in Id
           /\ r.op = "replaceDoc" => r.json \in Json
           /\ r.op = "patchDoc" => r.patch \in Patch
           /\ r.op \in Inserts => r.docs \in Seq(Json)
           /\ r.op = "createDB" => r.defs \in Schema
           /\ r.op = "queryDocs" => r.index \in IndexName /\ r.value \in Value
<1>1. CASE r \in [op: {"createDB"}, db: DB, defs: Schema]
  BY Zenon, <1>1
<1>2. CASE r \in [op: {"deleteDB", "exportDocs"}, db: DB]
  BY Zenon, <1>2
<1>3. CASE r \in [op: {"listDBs"}, page: Window]
  BY Zenon, <1>3
<1>4. CASE r \in [op: {"createDoc"}, db: DB, docs: {<<j>> : j \in Json}]
  <2>1. PICK j \in Json : r.docs = <<j>>
    BY Zenon, <1>4
  <2>2. <<j>> \in Seq(Json)
    OBVIOUS
  <2> QED
    BY Zenon, <1>4, <2>1, <2>2
<1>5. CASE r \in [op: {"importDocs"}, db: DB, docs: Seq(Json) \ {<<>>}]
  BY Zenon, <1>5
<1>6. CASE r \in [op: {"getDoc"}, db: DB, id: Id]
  BY Zenon, <1>6
<1>7. CASE r \in [op: {"listDocs"}, db: DB, page: Window]
  BY Zenon, <1>7
<1>8. CASE r \in [op: {"queryDocs"}, db: DB, page: Window, index: IndexName, value: Value]
  BY Zenon, <1>8
<1>9. CASE r \in [op: {"replaceDoc"}, db: DB, id: Id, match: matchCond, json: Json]
  BY Zenon, <1>9
<1>10. CASE r \in [op: {"patchDoc"}, db: DB, id: Id, match: matchCond, patch: Patch]
  BY Zenon, <1>10
<1>11. CASE r \in [op: {"deleteDoc"}, db: DB, id: Id, match: matchCond]
  BY Zenon, <1>11
<1>12. r \in Request
  BY Zenon, RequestAssumption
<1> QED
  BY Zenon, <1>1, <1>2, <1>3, <1>4, <1>5, <1>6, <1>7, <1>8, <1>9, <1>10, <1>11,
     <1>12 DEF Request

(* An operation returns one of the errors E, or a result.                  *)
Answers(c, E) == (\E e \in E : Respond(c, Failed(e))) \/ (\E out : Respond(c, Done(out)))

(* A return statement leads to the deferred unlocks and sets only the      *)
(* goroutine's own result.                                                 *)
LEMMA AnswerEffect ==
    ASSUME TypeOK, NEW c \in Client, NEW E, Answers(c, E)
    PROVE  /\ pc' = [pc EXCEPT ![c] = "unlockDocs"] /\ pc'[c] = "unlockDocs"
           /\ res'[c].err \in E \cup {"nil"}
           /\ DOMAIN res' = Client
<1>1. CASE \E e \in E : Respond(c, Failed(e))
  BY <1>1 DEF Respond, Goto, Failed, TypeOK
<1>2. CASE \E out : Respond(c, Done(out))
  <2>1. PICK out : Respond(c, Done(out))
    BY Zenon, <1>2
  <2>2. res'[c] = Done(out) /\ Done(out).err = "nil"
    BY Zenon, <2>1 DEF Respond, Done, TypeOK
  <2> QED
    BY Zenon, <2>1, <2>2 DEF Respond, Goto, TypeOK
<1> QED
  BY Zenon, <1>1, <1>2 DEF Answers

(* The steps that end in a return statement, and what they may return.     *)
Returns(c) ==
    \/ listDBs(c) \/ listDocs(c) \/ queryDocs(c) \/ exportDocs(c)
    \/ createDB(c) \/ deleteDB(c) \/ InsertDocs(c) \/ UpdateDoc(c) \/ deleteDoc(c)
    \/ Fail(c)

Returned == Errors \ {"none", "errDocExists"}

(* The steps that end an operation all return, with errDocExists left to   *)
(* HasDoc alone; ReadDoc returns or goes on.                               *)
LEMMA ReturnsAnswer ==
    ASSUME NEW c \in Client
    PROVE  /\ Returns(c) => Answers(c, Returned)
           /\ ReadDoc(c) => Answers(c, Returned) \/ (Goto(c, "defs") /\ UNCHANGED res)
<1> USE DEF Answers, Returned, Errors
<1>1. listDBs(c) \/ listDocs(c) \/ createDB(c) \/ deleteDB(c) => Answers(c, Returned)
  BY Zenon DEF listDBs, listDocs, createDB, deleteDB, Committed
<1>2. queryDocs(c) \/ exportDocs(c) \/ deleteDoc(c) => Answers(c, Returned)
  BY Zenon DEF queryDocs, exportDocs, deleteDoc, Committed
<1>3. InsertDocs(c) => Answers(c, Returned)
  BY Zenon DEF InsertDocs, Committed
<1>4. UpdateDoc(c) => Answers(c, Returned)
  BY Zenon DEF UpdateDoc, Committed
<1>5. Fail(c) => Answers(c, Returned)
  BY Zenon DEF Fail, Failures
<1>6. ReadDoc(c) => Answers(c, Returned) \/ (Goto(c, "defs") /\ UNCHANGED res)
  <2>1. \A r, doc, key : readError(r, doc, key) \in Returned
    BY ZenonT(30) DEF readError
  <2> QED
    BY <2>1, Zenon DEF ReadDoc
<1> QED
  BY Zenon, <1>1, <1>2, <1>3, <1>4, <1>5, <1>6 DEF Returns

(* After such a return the goroutine is at its unlocks, where every        *)
(* operation may be.                                                       *)
LEMMA ReturnEffect ==
    ASSUME TypeOK, NEW c \in Client, Answers(c, Returned)
    PROVE  /\ pc' = [pc EXCEPT ![c] = "unlockDocs"] /\ pc'[c] = "unlockDocs"
           /\ res'[c].err \in Returned /\ DOMAIN res' = Client
           /\ Flow(c)'
<1>1. /\ pc' = [pc EXCEPT ![c] = "unlockDocs"] /\ pc'[c] = "unlockDocs"
      /\ res'[c].err \in Returned \cup {"nil"} /\ DOMAIN res' = Client
  BY Zenon, AnswerEffect
<1>2. res'[c].err \in Returned
  BY Zenon, <1>1 DEF Returned, Errors
<1> QED
  BY Zenon, <1>1, <1>2 DEF Flow, Returned

(* The step, request, locals and result of a goroutine are its own: no     *)
(* step of another changes them.                                           *)
LEMMA OthersUnchanged ==
    ASSUME TypeOK, NEW c \in Client, Step(c), NEW e \in Client, e # c
    PROVE  pc'[e] = pc[e] /\ req'[e] = req[e] /\ loc'[e] = loc[e] /\ res'[e] = res[e]
<1> USE DEF TypeOK, Goto, Respond, Committed
<1>1. CASE Begin(c)
  BY Zenon, <1>1 DEF Begin
<1>2. CASE MakeID(c)
  BY Zenon, <1>2 DEF MakeID
<1>3. CASE RLock(c)
  BY Zenon, <1>3 DEF RLock
<1>4. CASE WLock(c)
  BY Zenon, <1>4 DEF WLock
<1>5. CASE WWait(c)
  BY Zenon, <1>5 DEF WWait
<1>6. CASE LockDoc(c)
  BY Zenon, <1>6 DEF LockDoc
<1>7. CASE UnlockDocs(c)
  BY Zenon, <1>7 DEF UnlockDocs
<1>8. CASE UnlockDB(c)
  BY Zenon, <1>8 DEF UnlockDB
<1>9. CASE CheckDB(c)
  BY Zenon, <1>9 DEF CheckDB
<1>10. CASE ReadKey(c)
  BY Zenon, <1>10 DEF ReadKey
<1>11. CASE HasDoc(c)
  BY Zenon, <1>11 DEF HasDoc
<1>12. CASE ReadDoc(c)
  BY Zenon, <1>12 DEF ReadDoc
<1>13. CASE ReadDefs(c)
  BY Zenon, <1>13 DEF ReadDefs
<1>14. CASE listDBs(c)
  BY Zenon, <1>14 DEF listDBs
<1>15. CASE listDocs(c)
  BY Zenon, <1>15 DEF listDocs
<1>16. CASE queryDocs(c)
  BY Zenon, <1>16 DEF queryDocs
<1>17. CASE exportDocs(c)
  BY Zenon, <1>17 DEF exportDocs
<1>18. CASE createDB(c)
  BY Zenon, <1>18 DEF createDB
<1>19. CASE deleteDB(c)
  BY Zenon, <1>19 DEF deleteDB
<1>20. CASE InsertDocs(c)
  BY Zenon, <1>20 DEF InsertDocs
<1>21. CASE UpdateDoc(c)
  BY Zenon, <1>21 DEF UpdateDoc
<1>22. CASE deleteDoc(c)
  BY Zenon, <1>22 DEF deleteDoc
<1>23. CASE Fail(c)
  BY Zenon, <1>23 DEF Fail
<1> QED
  BY Zenon, <1>1, <1>2, <1>3, <1>4, <1>5, <1>6, <1>7, <1>8, <1>9, <1>10, <1>11, <1>12,
     <1>13, <1>14, <1>15, <1>16, <1>17, <1>18, <1>19, <1>20, <1>21, <1>22, <1>23 DEF Step, Local

(* No step takes away a lock another goroutine holds, and no reader enters *)
(* a database stripe that a writer has claimed and emptied (sync.RWMutex). *)
LEMMA OthersKeepLocks ==
    ASSUME TypeOK, NEW c \in Client, Step(c), NEW e \in Client, e # c
    PROVE  /\ \A s \in DBStripes : /\ e \in readers[s] => e \in readers'[s]
                                   /\ writer[s] = e => writer'[s] = e
                                   /\ writer[s] = e /\ readers[s] = {} => readers'[s] = {}
           /\ \A s \in DocStripes : docMu[s] = e => docMu'[s] = e
<1> USE StoreAssumption DEF TypeOK, locks
<1>1. CASE Begin(c)
  BY Zenon, <1>1 DEF Begin
<1>2. CASE MakeID(c)
  BY Zenon, <1>2 DEF MakeID
<1>3. CASE RLock(c)
  BY Zenon, <1>3 DEF RLock
<1>4. CASE WLock(c)
  BY Zenon, <1>4 DEF WLock
<1>5. CASE WWait(c)
  BY Zenon, <1>5 DEF WWait
<1>6. CASE LockDoc(c)
  BY ZenonT(30), <1>6 DEF LockDoc
<1>7. CASE UnlockDocs(c)
  BY Zenon, <1>7 DEF UnlockDocs
<1>8. CASE UnlockDB(c)
  BY Zenon, <1>8 DEF UnlockDB
<1>9. CASE CheckDB(c)
  BY Zenon, <1>9 DEF CheckDB
<1>10. CASE ReadKey(c)
  BY Zenon, <1>10 DEF ReadKey
<1>11. CASE HasDoc(c)
  BY Zenon, <1>11 DEF HasDoc
<1>12. CASE ReadDoc(c)
  BY Zenon, <1>12 DEF ReadDoc
<1>13. CASE ReadDefs(c)
  BY Zenon, <1>13 DEF ReadDefs
<1>14. CASE listDBs(c)
  BY Zenon, <1>14 DEF listDBs
<1>15. CASE listDocs(c)
  BY Zenon, <1>15 DEF listDocs
<1>16. CASE queryDocs(c)
  BY ZenonT(30), <1>16 DEF queryDocs
<1>17. CASE exportDocs(c)
  BY ZenonT(30), <1>17 DEF exportDocs
<1>18. CASE createDB(c)
  BY Zenon, <1>18 DEF createDB
<1>19. CASE deleteDB(c)
  BY Zenon, <1>19 DEF deleteDB
<1>20. CASE InsertDocs(c)
  BY Zenon, <1>20 DEF InsertDocs
<1>21. CASE UpdateDoc(c)
  BY Zenon, <1>21 DEF UpdateDoc
<1>22. CASE deleteDoc(c)
  BY Zenon, <1>22 DEF deleteDoc
<1>23. CASE Fail(c)
  BY Zenon, <1>23 DEF Fail
<1> QED
  BY Zenon, <1>1, <1>2, <1>3, <1>4, <1>5, <1>6, <1>7, <1>8, <1>9, <1>10, <1>11, <1>12,
     <1>13, <1>14, <1>15, <1>16, <1>17, <1>18, <1>19, <1>20, <1>21, <1>22, <1>23 DEF Step, Local

(* Each operation passes through its own steps only.                       *)
LEMMA ControlFlow ==
    ASSUME Inv, NEW c \in Client, Step(c)
    PROVE  Flow(c)'
<1> USE RequestFacts DEF Inv, TypeOK, Flow, Goto, Respond, Failed
<1>1. CASE Begin(c)
  BY <1>1 DEF Begin, FirstStep
<1>2. CASE MakeID(c)
  BY Zenon, <1>2 DEF MakeID
<1>3. CASE RLock(c)
  BY Zenon, <1>3 DEF RLock, AfterRLock
<1>4. CASE WLock(c) \/ WWait(c)
  BY ZenonT(30), <1>4 DEF WLock, WWait
<1>5. CASE LockDoc(c)
  BY <1>5 DEF LockDoc, AfterLocks
<1>6. CASE UnlockDocs(c) \/ UnlockDB(c)
  BY <1>6 DEF UnlockDocs, UnlockDB
<1>7. CASE CheckDB(c)
  <2>1. /\ req' = req /\ req[c].op \in DBWrites
        /\ \/ pc' = [pc EXCEPT ![c] = "commit"]
           \/ pc' = [pc EXCEPT ![c] = "unlockDocs"] /\ \E e \in {"errDBExists", "errDBNotFound"} :
                res' = [res EXCEPT ![c] = Failed(e)]
    BY <1>7, Zenon DEF CheckDB
  <2>2. \/ pc'[c] = "commit"
        \/ pc'[c] = "unlockDocs" /\ res'[c].err # "errDocExists"
    BY <2>1
  <2> QED
    BY <2>1, <2>2, Zenon
<1>8. CASE ReadKey(c)
  BY <1>8 DEF ReadKey, AfterKey, MissingDB
<1>9. CASE HasDoc(c)
  BY Zenon, <1>9 DEF HasDoc
<1>10. CASE ReadDefs(c)
  BY <1>10 DEF ReadDefs, AfterDefs
<1>11. CASE ReadDoc(c)
  <2>1. CASE Answers(c, Returned)
    BY ZenonT(30), <2>1, ReturnEffect
  <2>2. CASE Goto(c, "defs")
    BY Zenon, <1>11, <2>2 DEF ReadDoc
  <2> QED
    BY Zenon, <1>11, <2>1, <2>2, ReturnsAnswer
<1>12. CASE Returns(c)
  BY Zenon, <1>12, ReturnsAnswer, ReturnEffect
<1> QED
  BY Zenon, <1>1, <1>2, <1>3, <1>4, <1>5, <1>6, <1>7, <1>8, <1>9, <1>10, <1>11, <1>12
     DEF Step, Local, Returns

(* A goroutine at work has a request, and the stripes it locks exist.      *)
LEMMA StripeFacts ==
    ASSUME TypeOK, NEW c \in Client, pc[c] # "idle"
    PROVE  /\ req[c] \in Requests
           /\ req[c].op \in SharedOps \cup DBWrites => req[c].db \in DB /\ Stripe(c) \in DBStripes
           /\ \A i \in Id : req[c].op \in SharedOps => DocStripe[req[c].db][i] \in DocStripes
<1>1. req[c] \in Requests
  BY Zenon DEF TypeOK
<1>2. req[c].op \in SharedOps \cup DBWrites => req[c].db \in DB
  BY Zenon, <1>1, RequestFacts
<1>3. req[c].op \in SharedOps \cup DBWrites => Stripe(c) \in DBStripes
  BY <1>2, Zenon DEF Stripe, DBStripes
<1>4. ASSUME NEW i \in Id, req[c].db \in DB PROVE DocStripe[req[c].db][i] \in DocStripes
  BY <1>4 DEF DocStripes
<1> QED
  BY <1>1, <1>2, <1>3, <1>4, Zenon

(* The documents a goroutine locks are named by IDs.                       *)
LEMMA TargetFacts ==
    ASSUME Inv, NEW c \in Client, Locking(c)
    PROVE  Targets(c) \subseteq Id
<1>1. req[c] \in Requests /\ loc[c] \in Locals
  <2>1. TypeOK /\ pc[c] # "idle"
    BY Zenon DEF Inv, Locking
  <2> QED
    BY Zenon, <2>1 DEF TypeOK
<1>2. CASE req[c].op \in Updates
  BY Zenon, <1>1, <1>2, RequestFacts DEF Targets
<1>3. CASE req[c].op \notin Updates
  <2>1. \A k \in DOMAIN loc[c].ids : loc[c].ids[k] \in Id
    BY <1>1 DEF Locals
  <2> QED
    BY <1>3, <2>1, Zenon DEF Targets
<1> QED
  BY Zenon, <1>2, <1>3

(* A step of one goroutine leaves the locks of every other as its section  *)
(* needs them.                                                             *)
LEMMA LocksOfOthers ==
    ASSUME Inv, NEW c \in Client, Step(c), NEW e \in Client, e # c
    PROVE  LocksHeld(e)'
<1>1. pc'[e] = pc[e] /\ req'[e] = req[e] /\ loc'[e] = loc[e]
  BY Zenon, OthersUnchanged DEF Inv
<1>2. /\ Shared(e)' <=> Shared(e)
      /\ Claimed(e)' <=> Claimed(e)
      /\ Exclusive(e)' <=> Exclusive(e)
      /\ Locking(e)' <=> Locking(e)
      /\ Targets(e)' = Targets(e)
      /\ Stripe(e)' = Stripe(e)
  BY Zenon, <1>1 DEF Shared, Claimed, Exclusive, Locking, Targets, Stripe
<1>3. LocksHeld(e)
  BY Zenon DEF Inv
<1>k. /\ \A s \in DBStripes : /\ e \in readers[s] => e \in readers'[s]
                              /\ writer[s] = e => writer'[s] = e
                              /\ writer[s] = e /\ readers[s] = {} => readers'[s] = {}
      /\ \A s \in DocStripes : docMu[s] = e => docMu'[s] = e
      /\ Shared(e) \/ Claimed(e) => Stripe(e) \in DBStripes
  <2>1. TypeOK
    BY Zenon DEF Inv
  <2>2. Shared(e) \/ Claimed(e) => pc[e] # "idle" /\ req[e].op \in SharedOps \cup DBWrites
    BY Zenon DEF Shared, Claimed
  <2>3. Shared(e) \/ Claimed(e) => Stripe(e) \in DBStripes
    BY <2>1, <2>2, StripeFacts, Zenon
  <2> QED
    BY <2>1, <2>3, OthersKeepLocks
<1>4. ASSUME Shared(e) PROVE e \in readers'[Stripe(e)]
  BY <1>3, <1>4, <1>k, Zenon DEF LocksHeld
<1>5. ASSUME Claimed(e) PROVE writer'[Stripe(e)] = e
  BY <1>3, <1>5, <1>k, Zenon DEF LocksHeld, Claimed
<1>6. ASSUME Exclusive(e) PROVE readers'[Stripe(e)] = {}
  BY <1>3, <1>6, <1>k, Zenon DEF LocksHeld, Claimed, Exclusive
<1>7. ASSUME Locking(e), NEW i \in Targets(e)
      PROVE  LET s == DocStripe[req[e].db][i] IN s \in loc[e].want \/ docMu'[s] = e
  <2>1. DocStripe[req[e].db][i] \in DocStripes
    BY Zenon, <1>7, StripeFacts, TargetFacts DEF Inv, Locking
  <2> QED
    BY <1>3, <1>7, <2>1, <1>k, Zenon DEF LocksHeld
<1> QED
  BY Zenon, <1>1, <1>2, <1>3, <1>4, <1>5, <1>6, <1>7 DEF LocksHeld

(* A step that leaves the locks alone and enters no section it was not in. *)
LEMMA SameLocks ==
    ASSUME NEW c \in Client, LocksHeld(c), UNCHANGED locks, req'[c] = req[c],
           loc'[c].want = loc[c].want, loc'[c].ids = loc[c].ids,
           Shared(c)' => Shared(c), Claimed(c)' => Claimed(c), Exclusive(c)' => Exclusive(c),
           Locking(c)' => Locking(c) /\ pc[c] \notin {"rlock", "lockDocs"}
    PROVE  LocksHeld(c)'
<1>1. Targets(c)' = Targets(c) /\ Stripe(c)' = Stripe(c)
  BY Zenon DEF Targets, Stripe
<1> QED
  BY Zenon, <1>1 DEF LocksHeld, locks

(* RLock: c joins the readers of its database stripe.                      *)
LEMMA LocksAfterRLock ==
    ASSUME Inv, NEW c \in Client, RLock(c)
    PROVE  LocksHeld(c)'
<1>0. TypeOK /\ Flow(c) /\ LocksHeld(c) /\ pc[c] = "rlock"
  BY Zenon DEF Inv, RLock
<1>1. pc'[c] = AfterRLock(req[c].op) /\ req' = req /\ loc' = loc /\ docMu' = docMu
  BY Zenon, <1>0 DEF RLock, Goto, TypeOK
<1>2. req[c].op \in SharedOps /\ Stripe(c) \in DBStripes
  BY Zenon, <1>0, StripeFacts DEF Flow
<1>3. c \in readers'[Stripe(c)]
  BY Zenon, <1>0, <1>2 DEF RLock, TypeOK
<1>4. ~Claimed(c)' /\ ~Exclusive(c)'
  BY Zenon, <1>1, <1>2 DEF Claimed, Exclusive
<1>5. Locking(c)' => Locking(c) /\ pc'[c] = "lockDocs"
  BY Zenon, <1>0, <1>1 DEF Locking, AfterRLock
<1>6. Targets(c)' = Targets(c) /\ Stripe(c)' = Stripe(c)
  BY <1>1, Zenon DEF Targets, Stripe
<1>7. Locking(c) => \A i \in Targets(c) :
        LET s == DocStripe[req[c].db][i] IN s \in loc[c].want \/ docMu[s] = c
  BY Zenon, <1>0 DEF LocksHeld
<1> QED
  BY <1>1, <1>3, <1>4, <1>5, <1>6, <1>7, Zenon DEF LocksHeld

(* lockDocs: c takes the next stripe it wants.                             *)
LEMMA LocksAfterLockDoc ==
    ASSUME Inv, NEW c \in Client, LockDoc(c)
    PROVE  LocksHeld(c)'
<1>0. TypeOK /\ Flow(c) /\ LocksHeld(c) /\ pc[c] = "lockDocs"
  BY Zenon DEF Inv, LockDoc
<1>1. PICK s : /\ docMu' = [docMu EXCEPT ![s] = c]
               /\ loc' = [loc EXCEPT ![c].want = @ \ {s}]
               /\ IF loc[c].want = {s} THEN Goto(c, AfterLocks(req[c].op)) ELSE UNCHANGED pc
  BY Zenon DEF LockDoc
<1>2. req' = req /\ readers' = readers /\ req[c].op \in Updates \cup Inserts
  BY Zenon, <1>0 DEF LockDoc, Flow
<1>3. /\ loc'[c].want = loc[c].want \ {s} /\ loc'[c].ids = loc[c].ids
      /\ pc'[c] # "lockDocs" => loc'[c].want = {}
      /\ pc'[c] \in {"lockDocs", "hasDoc", "key"}
  BY ZenonT(30), <1>0, <1>1, <1>2 DEF AfterLocks, Goto, Locals, TypeOK
<1>4. Locking(c) /\ Shared(c) /\ ~Claimed(c)' /\ ~Exclusive(c)'
  BY Zenon, <1>0, <1>2 DEF Locking, Shared, Claimed, Exclusive
<1>5. Targets(c)' = Targets(c) /\ Stripe(c)' = Stripe(c) /\ c \in readers[Stripe(c)]
  <2>1. Targets(c)' = Targets(c) /\ Stripe(c)' = Stripe(c)
    BY <1>2, <1>3, Zenon DEF Targets, Stripe
  <2> QED
    BY <1>0, <1>4, <2>1, Zenon DEF LocksHeld
<1>6. ASSUME NEW i \in Targets(c)
      PROVE  LET t == DocStripe[req[c].db][i] IN t \in loc'[c].want \/ docMu'[t] = c
  <2>1. DocStripe[req[c].db][i] \in DocStripes
    BY Zenon, <1>0, <1>2, <1>4, TargetFacts, StripeFacts
  <2>2. LET t == DocStripe[req[c].db][i] IN t \in loc[c].want \/ docMu[t] = c
    BY <1>0, <1>4, Zenon DEF LocksHeld
  <2> QED
    BY Zenon, <1>0, <1>1, <1>3, <2>1, <2>2 DEF TypeOK
<1> QED
  BY <1>2, <1>3, <1>4, <1>5, <1>6, Zenon DEF LocksHeld

(* The last unlock: c is idle, or draws another ID with nothing locked.    *)
LEMMA LocksAfterUnlockDB ==
    ASSUME Inv, NEW c \in Client, UnlockDB(c)
    PROVE  LocksHeld(c)'
<1>0. TypeOK /\ Flow(c) /\ pc[c] = "unlockDB"
  BY Zenon DEF Inv, UnlockDB
<1>1. \/ pc'[c] = "idle" /\ req'[c] = NoReq
      \/ pc'[c] = "makeID" /\ req'[c].op = "createDoc"
  BY Zenon, <1>0 DEF UnlockDB, Goto, Flow, TypeOK
<1>2. ~Shared(c)' /\ ~Claimed(c)' /\ ~Exclusive(c)' /\ ~Locking(c)'
  BY Zenon, <1>1 DEF Shared, Claimed, Exclusive, Locking
<1> QED
  BY <1>2, Zenon DEF LocksHeld

(* A goroutine enters a section only with the locks of that section: RLock *)
(* for the operations on documents, Lock for createDB and deleteDB, the    *)
(* stripes of lockDocs for the documents it writes.                        *)
LEMMA LocksOfSelf ==
    ASSUME Inv, NEW c \in Client, Step(c)
    PROVE  LocksHeld(c)'
<1> USE DEF Inv, TypeOK, Flow, Shared, Claimed, Exclusive, Locking, Goto, Respond
<1>1. CASE Begin(c)
  <2>1. PICK q \in Requests :
          /\ req' = [req EXCEPT ![c] = q]
          /\ loc' = [loc EXCEPT ![c].want = IF q.op \in Updates THEN {DocStripe[q.db][q.id]} ELSE {}]
          /\ pc' = [pc EXCEPT ![c] = FirstStep(q.op)]
    BY <1>1, Zenon DEF Begin
  <2>2. /\ req'[c] = q /\ pc'[c] \in {"wlock", "makeID", "listDBs", "rlock"}
        /\ loc'[c].want = IF q.op \in Updates THEN {DocStripe[q.db][q.id]} ELSE {}
        /\ pc'[c] = "makeID" => q.op = "createDoc"
        /\ pc'[c] = "rlock" => q.op # "createDoc"
    BY <2>1, RequestFacts DEF FirstStep, Locals
  <2> HIDE DEF Inv, TypeOK, Flow
  <2>3. ~Shared(c)' /\ ~Claimed(c)' /\ ~Exclusive(c)'
    BY <2>2, Zenon
  <2>4. Locking(c)' => pc'[c] = "rlock" /\ q.op \in Updates
    BY <2>2, Zenon
  <2> HIDE DEF Shared, Claimed, Exclusive, Locking
  <2>5. Locking(c)' => Targets(c)' = {q.id} /\ loc'[c].want = {DocStripe[q.db][q.id]}
    BY <2>2, <2>4, Zenon DEF Targets
  <2> QED
    BY Zenon, <2>2, <2>3, <2>4, <2>5 DEF LocksHeld
<1>2. CASE MakeID(c)
  <2>0. pc[c] = "makeID" /\ req[c].op \in Inserts /\ LocksHeld(c) /\ UNCHANGED locks /\ req' = req
    BY <1>2, Zenon DEF MakeID
  <2>1. PICK ids \in Injection(DOMAIN req[c].docs, Id) :
          loc' = [loc EXCEPT ![c].ids = ids,
                             ![c].want = {DocStripe[req[c].db][ids[k]] : k \in DOMAIN ids}]
    BY <1>2, Zenon DEF MakeID
  <2>2. /\ loc'[c].ids = ids
        /\ loc'[c].want = {DocStripe[req[c].db][ids[k]] : k \in DOMAIN ids}
        /\ pc'[c] = IF req[c].op = "createDoc" THEN "rlock" ELSE "lockDocs"
    BY <1>2, <2>1 DEF MakeID, Locals
  <2> HIDE DEF Inv, TypeOK, Flow
  <2>3. (Shared(c)' => Shared(c)) /\ ~Claimed(c)' /\ ~Exclusive(c)'
    BY <2>0, <2>2, Zenon
  <2>4. Targets(c)' = {ids[k] : k \in DOMAIN ids} /\ Stripe(c)' = Stripe(c)
    BY Zenon, <2>0, <2>2 DEF Targets, Stripe
  <2> HIDE DEF Shared, Claimed, Exclusive, Locking
  <2>5. \A i \in Targets(c)' : DocStripe[req[c].db][i] \in loc'[c].want
    BY <2>2, <2>4, Zenon
  <2>6. pc'[c] \in {"rlock", "lockDocs"}
    BY Zenon, <2>2
  <2> QED
    BY <2>0, <2>3, <2>4, <2>5, <2>6, Zenon DEF LocksHeld, locks
<1>3. CASE RLock(c)
  BY <1>3, LocksAfterRLock, Zenon
<1>4. CASE WLock(c)
  BY Zenon, <1>4, StripeFacts DEF WLock, LocksHeld, Stripe
<1>5. CASE WWait(c)
  BY Zenon, <1>5 DEF WWait, LocksHeld, Stripe, locks
<1>6. CASE LockDoc(c)
  BY <1>6, LocksAfterLockDoc, Zenon
<1>7. CASE UnlockDocs(c)
  BY ZenonT(30), <1>7 DEF UnlockDocs, LocksHeld, Stripe
<1>8. CASE UnlockDB(c)
  BY <1>8, LocksAfterUnlockDB, Zenon
<1>9. CASE CheckDB(c)
  BY Zenon, <1>9, SameLocks DEF CheckDB
<1>10. CASE ReadKey(c)
  <2>1. UNCHANGED locks /\ req' = req /\ loc'[c].want = loc[c].want /\ loc'[c].ids = loc[c].ids
    BY <1>10 DEF ReadKey, Locals
  <2>2. pc[c] = "key" /\ pc'[c] \in {"unlockDocs", AfterKey(req[c].op)}
    BY Zenon, <1>10 DEF ReadKey
  <2> QED
    BY Zenon, <2>1, <2>2, SameLocks DEF AfterKey
<1>11. CASE HasDoc(c)
  <2>1. UNCHANGED locks /\ req' = req /\ loc' = loc
    BY Zenon, <1>11 DEF HasDoc
  <2>2. /\ pc[c] = "hasDoc" /\ pc'[c] \in {"unlockDocs", "retry", "defs", "commit"}
        /\ pc'[c] = "retry" => req[c].op = "importDocs"
        /\ pc'[c] = "defs" => req[c].op = "createDoc"
    BY Zenon, <1>11 DEF HasDoc
  <2> QED
    BY ZenonT(30), <2>1, <2>2, SameLocks
<1>12. CASE ReadDefs(c)
  <2>1. UNCHANGED locks /\ req' = req /\ loc'[c].want = loc[c].want /\ loc'[c].ids = loc[c].ids
    BY <1>12 DEF ReadDefs, Locals
  <2>2. pc[c] = "defs" /\ pc'[c] \in {"unlockDocs", AfterDefs(req[c].op)}
    BY Zenon, <1>12 DEF ReadDefs
  <2> QED
    BY Zenon, <2>1, <2>2, SameLocks DEF AfterDefs
<1>13. CASE ReadDoc(c)
  <2>1. UNCHANGED locks /\ req' = req /\ loc'[c].want = loc[c].want /\ loc'[c].ids = loc[c].ids
    <3>1. UNCHANGED locks /\ req' = req /\ (loc' = loc \/ \E doc : loc' = [loc EXCEPT ![c].cur = doc])
      BY <1>13, Zenon DEF ReadDoc
    <3> QED
      BY <3>1 DEF Locals
  <2>2. /\ pc[c] = "readDoc" /\ pc'[c] \in {"unlockDocs", "defs"}
        /\ pc'[c] = "defs" => req[c].op \in Updates
    BY Zenon, <1>13 DEF ReadDoc
  <2> QED
    BY ZenonT(30), <2>1, <2>2, SameLocks
<1>14. CASE Returns(c)
  <2>1. pc'[c] = "unlockDocs"
    BY Zenon, <1>14, ReturnsAnswer, ReturnEffect
  <2>2. /\ UNCHANGED locks /\ req' = req /\ loc' = loc
        /\ pc[c] \in {"makeID", "check", "key", "hasDoc", "readDoc", "listDBs", "defs",
                      "iterate", "commit"}
    BY <1>14, Zenon DEF Returns, listDBs, listDocs, queryDocs, exportDocs, createDB,
       deleteDB,
                 InsertDocs, UpdateDoc, deleteDoc, Fail
  <2> QED
    BY Zenon, <2>1, <2>2, SameLocks, RequestFacts
<1> QED
  BY ZenonT(30), <1>1, <1>2, <1>3, <1>4, <1>5, <1>6, <1>7, <1>8, <1>9, <1>10, <1>11,
     <1>12, <1>13, <1>14
     DEF Step, Local, Returns

-----------------------------------------------------------------------------
(* What a goroutine has read under its locks is still what                 *)
(* Pebble holds (ReadsHold).                                               *)

(* Only the five batches write to Pebble.                                  *)
LEMMA PebbleWriters ==
    ASSUME NEW c \in Client, Step(c)
    PROVE  \/ UNCHANGED pebble
           \/ createDB(c) \/ deleteDB(c) \/ InsertDocs(c) \/ UpdateDoc(c) \/ deleteDoc(c)
BY Zenon DEF Step, Local, Begin, MakeID, RLock, WLock, WWait, LockDoc, UnlockDocs,
   UnlockDB, CheckDB,
       ReadKey, HasDoc, ReadDoc, ReadDefs, listDBs, listDocs, queryDocs, exportDocs, Fail, pebble

(* A document batch touches the documents its goroutine has locked.        *)
LEMMA DocWrites ==
    ASSUME TypeOK, NEW c \in Client, InsertDocs(c) \/ UpdateDoc(c) \/ deleteDoc(c)
    PROVE  /\ dbRec' = dbRec /\ idxDef' = idxDef
           /\ pc[c] = "commit" /\ req[c].op \in Updates \cup Inserts
           /\ \A d \in DB, i \in Id :
                d # req[c].db \/ i \notin Targets(c) => docRec'[d][i] = docRec[d][i]
<1> USE RequestFacts DEF TypeOK, Targets
<1>1. CASE InsertDocs(c)
  <2>1. \/ docRec' = docRec
        \/ \E revs : docRec' = [docRec EXCEPT ![req[c].db] =
                       withDocs(docRec[req[c].db], loc[c].ids, req[c].docs, revs, loc[c].key)]
    BY <1>1, Zenon DEF InsertDocs
  <2>2. /\ dbRec' = dbRec /\ idxDef' = idxDef
        /\ pc[c] = "commit" /\ req[c].op \in Inserts
    BY <1>1, Zenon DEF InsertDocs
  <2>3. ASSUME NEW d \in DB, NEW i \in Id, d # req[c].db \/ i \notin Targets(c)
        PROVE  docRec'[d][i] = docRec[d][i]
    <3>1. CASE docRec' = docRec
      BY Zenon, <3>1
    <3>2. CASE docRec' # docRec
      <4>1. PICK revs : docRec' = [docRec EXCEPT ![req[c].db] =
                          withDocs(docRec[req[c].db], loc[c].ids, req[c].docs, revs, loc[c].key)]
        BY Zenon, <2>1, <3>2
      <4>2. CASE d # req[c].db
        BY Zenon, <4>1, <4>2
      <4>3. CASE d = req[c].db /\ ~\E k \in DOMAIN loc[c].ids : loc[c].ids[k] = i
        <5>1. docRec'[d] = withDocs(docRec[d], loc[c].ids, req[c].docs, revs, loc[c].key)
          BY Zenon, <4>1, <4>3
        <5> QED
          BY Zenon, <4>3, <5>1 DEF withDocs
      <4> QED
        BY Zenon, <2>2, <2>3, <4>2, <4>3
    <3> QED
      BY Zenon, <3>1, <3>2
  <2> QED
    BY Zenon, <2>2, <2>3
<1>2. CASE UpdateDoc(c)
  <2>1. \/ docRec' = docRec
        \/ \E doc : docRec' = [docRec EXCEPT ![req[c].db][req[c].id] = doc]
    BY <1>2, Zenon DEF UpdateDoc
  <2>2. /\ dbRec' = dbRec /\ idxDef' = idxDef
        /\ pc[c] = "commit" /\ req[c].op \in Updates
    BY Zenon, <1>2 DEF UpdateDoc
  <2>3. ASSUME NEW d \in DB, NEW i \in Id, d # req[c].db \/ i # req[c].id
        PROVE  docRec'[d][i] = docRec[d][i]
    <3>1. CASE docRec' = docRec
      BY Zenon, <3>1
    <3>2. CASE docRec' # docRec
      <4>1. PICK doc : docRec' = [docRec EXCEPT ![req[c].db][req[c].id] = doc]
        BY <2>1, <3>2, Zenon
      <4> QED
        BY <2>3, <4>1
    <3> QED
      BY Zenon, <3>1, <3>2
  <2> QED
    BY Zenon, <2>2, <2>3
<1>3. CASE deleteDoc(c)
  <2>1. /\ dbRec' = dbRec /\ idxDef' = idxDef
        /\ pc[c] = "commit" /\ req[c].op = "deleteDoc"
        /\ docRec' = docRec \/ docRec' = [docRec EXCEPT ![req[c].db][req[c].id] = NoDoc]
    BY <1>3, Zenon DEF deleteDoc
  <2> QED
    BY SMTT(30), <2>1
<1> QED
  BY Zenon, <1>1, <1>2, <1>3

(* A database batch touches one database, which its goroutine has locked.  *)
LEMMA DBWritesOne ==
    ASSUME TypeOK, NEW c \in Client, createDB(c) \/ deleteDB(c)
    PROVE  /\ pc[c] = "commit" /\ req[c].op \in DBWrites
           /\ \A d \in DB \ {req[c].db} : /\ dbRec'[d] = dbRec[d] /\ idxDef'[d] = idxDef[d]
                                          /\ docRec'[d] = docRec[d] /\ idxData'[d] = idxData[d]
BY Zenon DEF TypeOK, createDB, deleteDB

(* While a goroutine works under RLock, no step of another changes the     *)
(* record or definitions of its database, nor the documents it has locked. *)
LEMMA PebbleOfOthers ==
    ASSUME Inv, NEW c \in Client, Step(c), NEW e \in Client, e # c
    PROVE  /\ Shared(e) \/ Exclusive(e) => dbRec'[req[e].db] = dbRec[req[e].db]
           /\ Shared(e) => idxDef'[req[e].db] = idxDef[req[e].db]
           /\ Shared(e) /\ Locking(e) /\ pc[e] # "lockDocs" =>
                \A i \in Targets(e) : docRec'[req[e].db][i] = docRec[req[e].db][i]
<1>1. CASE UNCHANGED pebble
  BY Zenon, <1>1 DEF pebble
<1>2. CASE createDB(c) \/ deleteDB(c)
  <2>1. pc[c] = "commit" /\ req[c].op \in DBWrites /\ Exclusive(c) /\ Claimed(c)
    BY Zenon, <1>2, DBWritesOne DEF Inv, Exclusive, Claimed
  <2>2. writer[Stripe(c)] = c /\ readers[Stripe(c)] = {}
    BY Zenon, <2>1 DEF Inv, LocksHeld
  <2>3. Shared(e) => e \in readers[Stripe(e)]
    BY Zenon DEF Inv, LocksHeld
  <2>4. Exclusive(e) => writer[Stripe(e)] = e
    BY Zenon DEF Inv, LocksHeld, Exclusive, Claimed
  <2>5. Shared(e) \/ Exclusive(e) => req[e].db \in DB \ {req[c].db}
    BY Zenon, <2>2, <2>3, <2>4, StripeFacts DEF Inv, Stripe, Shared, Exclusive
  <2> QED
    BY Zenon, <1>2, <2>5, DBWritesOne DEF Inv
<1>3. CASE InsertDocs(c) \/ UpdateDoc(c) \/ deleteDoc(c)
  <2>1. /\ dbRec' = dbRec /\ idxDef' = idxDef
        /\ pc[c] = "commit" /\ req[c].op \in Updates \cup Inserts
    BY Zenon, <1>3, DocWrites DEF Inv
  <2>2. \A d \in DB, i \in Id :
          d # req[c].db \/ i \notin Targets(c) => docRec'[d][i] = docRec[d][i]
    BY Zenon, <1>3, DocWrites DEF Inv
  <2>3. \A i \in Targets(c) : docMu[DocStripe[req[c].db][i]] = c
    BY Zenon, <2>1 DEF Inv, LocksHeld, Locking
  <2>4. ASSUME Shared(e), Locking(e), pc[e] # "lockDocs", NEW i \in Targets(e)
        PROVE  docRec'[req[e].db][i] = docRec[req[e].db][i]
    <3>1. docMu[DocStripe[req[e].db][i]] = e
      BY Zenon, <2>4 DEF Inv, LocksHeld, Shared
    <3>2. i \in Id /\ req[e].db \in DB
      BY Zenon, <2>4, TargetFacts, StripeFacts DEF Inv, Shared
    <3> QED
      BY Zenon, <2>2, <2>3, <3>1, <3>2
  <2> QED
    BY Zenon, <2>1, <2>4
<1> QED
  BY Zenon, <1>1, <1>2, <1>3, PebbleWriters

(* What a goroutine has read under its locks survives every step of        *)
(* another.                                                                *)
LEMMA ReadsOfOthers ==
    ASSUME Inv, NEW c \in Client, Step(c), NEW e \in Client, e # c
    PROVE  ReadsHold(e)'
<1>1. pc'[e] = pc[e] /\ req'[e] = req[e] /\ loc'[e] = loc[e]
  BY Zenon, OthersUnchanged DEF Inv
<1>2. /\ HasKey(e)' <=> HasKey(e)
      /\ HasDefs(e)' <=> HasDefs(e)
      /\ HasCurrent(e)' <=> HasCurrent(e)
      /\ HasIDs(e)' <=> HasIDs(e)
      /\ HasFree(e)' <=> HasFree(e)
      /\ Targets(e)' = Targets(e)
  BY Zenon, <1>1 DEF HasKey, HasDefs, HasCurrent, HasIDs, HasFree, Locking, Targets
<1>3. /\ HasKey(e) => Shared(e)
      /\ HasDefs(e) => Shared(e)
      /\ HasCurrent(e) => Shared(e) /\ Locking(e) /\ pc[e] # "lockDocs" /\ req[e].id \in Targets(e)
      /\ HasFree(e) => Shared(e) /\ Locking(e) /\ pc[e] # "lockDocs"
      /\ pc[e] = "commit" /\ req[e].op = "createDB" => Exclusive(e)
  BY Zenon DEF HasKey, HasDefs, HasCurrent, HasFree, Shared, Exclusive, Locking, Targets
<1>4. ReadsHold(e)
  BY Zenon DEF Inv
<1>5. /\ HasKey(e) => dbRec'[req[e].db] = dbRec[req[e].db]
      /\ HasDefs(e) => idxDef'[req[e].db] = idxDef[req[e].db]
      /\ HasCurrent(e) => docRec'[req[e].db][req[e].id] = docRec[req[e].db][req[e].id]
      /\ HasFree(e) => \A i \in Targets(e) : docRec'[req[e].db][i] = docRec[req[e].db][i]
      /\ pc[e] = "commit" /\ req[e].op = "createDB" => dbRec'[req[e].db] = dbRec[req[e].db]
  BY <1>3, PebbleOfOthers, Zenon
<1> QED
  BY <1>1, <1>2, <1>4, <1>5, Zenon DEF ReadsHold

(* What a goroutine's own step reads, or keeps from before, is what Pebble *)
(* holds after the step.                                                   *)
LEMMA ReadsOfSelf ==
    ASSUME Inv, NEW c \in Client, Step(c)
    PROVE  ReadsHold(c)'
<1>0. TypeOK /\ Flow(c) /\ ReadsHold(c)
  BY Zenon DEF Inv
<1> USE DEF ReadsHold, HasKey, HasDefs, HasCurrent, HasIDs, HasFree, Locking
<1>1. CASE Begin(c)
  <2>1. /\ pc'[c] \in {"wlock", "makeID", "listDBs", "rlock"}
        /\ pc'[c] = "makeID" => req'[c].op = "createDoc"
        /\ pc'[c] = "rlock" => req'[c].op # "createDoc"
    BY Zenon, <1>0, <1>1, RequestFacts DEF TypeOK, Begin, FirstStep, Goto
  <2> QED
    BY Zenon, <2>1
<1>2. CASE MakeID(c)
  <2>1. /\ pc[c] = "makeID" /\ req' = req /\ UNCHANGED pebble
        /\ pc'[c] = IF req[c].op = "createDoc" THEN "rlock" ELSE "lockDocs"
        /\ loc'[c].key = loc[c].key /\ loc'[c].defs = loc[c].defs
        /\ loc'[c].ids \in Injection(DOMAIN req[c].docs, Id)
    BY SMTT(30), <1>0, <1>2 DEF TypeOK, MakeID, Goto, Locals
  <2> QED
    BY Zenon, <1>0, <2>1 DEF pebble
<1>3. CASE RLock(c)
  <2>1. /\ pc[c] = "rlock" /\ req' = req /\ loc' = loc /\ UNCHANGED pebble
        /\ pc'[c] = AfterRLock(req[c].op)
    BY Zenon, <1>0, <1>3 DEF TypeOK, RLock, Goto
  <2> QED
    BY Zenon, <1>0, <2>1 DEF Flow, AfterRLock
<1>4. CASE WLock(c) \/ WWait(c)
  <2>1. req' = req /\ req[c].op \in DBWrites /\ pc'[c] \in {"wwait", "check"}
    BY Zenon, <1>0, <1>4 DEF TypeOK, Flow, WLock, WWait, Goto
  <2> QED
    BY <2>1, Zenon
<1>5. CASE LockDoc(c)
  <2>1. /\ pc[c] = "lockDocs" /\ req' = req /\ UNCHANGED pebble
        /\ pc'[c] \in {"lockDocs", AfterLocks(req[c].op)}
        /\ loc'[c].key = loc[c].key /\ loc'[c].defs = loc[c].defs /\ loc'[c].ids = loc[c].ids
    BY <1>0, <1>5 DEF TypeOK, LockDoc, Goto, Locals
  <2> QED
    BY Zenon, <1>0, <2>1 DEF Flow, AfterLocks, pebble
<1>6. CASE UnlockDocs(c)
  <2>1. /\ (pc[c] = "retry" /\ pc'[c] = "makeID") \/ pc'[c] = "unlockDB"
        /\ req' = req /\ loc' = loc /\ UNCHANGED pebble
    BY Zenon, <1>0, <1>6 DEF TypeOK, UnlockDocs, Goto
  <2> QED
    BY Zenon, <1>0, <2>1 DEF pebble
<1>7. CASE UnlockDB(c)
  <2>1. /\ pc[c] = "unlockDB"
        /\ \/ pc'[c] = "idle"
           \/ pc'[c] = "makeID" /\ req'[c] = req[c] /\ res[c].err = "errDocExists"
    BY Zenon, <1>0, <1>7 DEF UnlockDB, Goto, TypeOK
  <2> QED
    BY ZenonT(30), <1>0, <2>1 DEF Flow
<1>8. CASE CheckDB(c)
  <2>1. /\ pc'[c] \in {"commit", "unlockDocs"} /\ req' = req /\ req[c].op \in DBWrites
        /\ pc'[c] = "commit" /\ req[c].op = "createDB" => dbRec[req[c].db] = NoKey
        /\ dbRec' = dbRec
    BY Zenon, <1>0, <1>8 DEF TypeOK, Flow, CheckDB, Goto, Respond, pebble
  <2> QED
    BY Zenon, <2>1
<1>9. CASE ReadKey(c)
  <2>1. /\ pc[c] = "key" /\ req' = req /\ UNCHANGED pebble
        /\ \/ pc'[c] = "unlockDocs"
           \/ /\ pc'[c] = AfterKey(req[c].op)
              /\ loc'[c].key = dbRec[req[c].db] /\ loc'[c].key # NoKey
              /\ loc'[c].ids = loc[c].ids
    BY <1>0, <1>9 DEF TypeOK, ReadKey, Goto, Respond, Locals
  <2> QED
    BY Zenon, <1>0, <2>1 DEF Flow, AfterKey, pebble
<1>10. CASE HasDoc(c)
  <2>1. /\ pc[c] = "hasDoc" /\ req' = req /\ loc' = loc /\ UNCHANGED pebble
    BY ZenonT(30), <1>10 DEF HasDoc
  <2>2. Targets(c)' = Targets(c) /\ Targets(c) = {loc[c].ids[k] : k \in DOMAIN loc[c].ids}
    BY Zenon, <1>0, <2>1 DEF Targets, Flow
  <2>3. \/ pc'[c] = "unlockDocs"
        \/ pc'[c] = "retry" /\ req[c].op = "importDocs"
        \/ /\ pc'[c] = IF req[c].op = "createDoc" THEN "defs" ELSE "commit"
           /\ ~\E k \in DOMAIN loc[c].ids : docRec[req[c].db][loc[c].ids[k]] # NoDoc
    BY Zenon, <1>0, <1>10 DEF HasDoc, Goto, Respond, TypeOK
  <2>4. \/ \A i \in Targets(c) : docRec[req[c].db][i] = NoDoc
        \/ pc'[c] \in {"unlockDocs", "retry"}
    BY <2>2, <2>3, Zenon
  <2> QED
    BY Zenon, <1>0, <2>1, <2>2, <2>3, <2>4 DEF Flow, pebble
<1>11. CASE ReadDoc(c)
  <2>1. /\ pc[c] = "readDoc" /\ req' = req /\ UNCHANGED pebble
        /\ \/ pc'[c] = "unlockDocs"
           \/ /\ req[c].op # "getDoc" /\ pc' = [pc EXCEPT ![c] = "defs"]
              /\ loc' = [loc EXCEPT ![c].cur = docRec[req[c].db][req[c].id]]
              /\ readError(req[c], docRec[req[c].db][req[c].id], loc[c].key) = "nil"
    BY Zenon, <1>0, <1>11 DEF TypeOK, ReadDoc, Goto, Respond
  <2>2. \/ pc'[c] = "unlockDocs"
        \/ /\ pc'[c] = "defs" /\ req[c].op \in Updates
           /\ loc'[c].key = loc[c].key
           /\ loc'[c].cur = docRec[req[c].db][req[c].id]
           /\ readError(req[c], loc'[c].cur, loc[c].key) = "nil"
    BY <1>0, <2>1 DEF TypeOK, Flow, Locals
  <2> QED
    BY Zenon, <1>0, <2>1, <2>2 DEF pebble
<1>12. CASE ReadDefs(c)
  <2>1. /\ pc[c] = "defs" /\ req' = req /\ UNCHANGED pebble
        /\ \/ pc'[c] = "unlockDocs"
           \/ /\ pc'[c] = AfterDefs(req[c].op)
              /\ loc'[c].key = loc[c].key /\ loc'[c].cur = loc[c].cur
              /\ loc'[c].ids = loc[c].ids
              /\ loc'[c].defs = idxDef[req[c].db]
    BY <1>0, <1>12 DEF TypeOK, ReadDefs, Goto, Respond, Locals
  <2>2. req[c].op \in Inserts /\ pc'[c] # "unlockDocs" => Targets(c)' = Targets(c)
    BY Zenon, <2>1 DEF Targets
  <2> QED
    BY Zenon, <1>0, <2>1, <2>2 DEF Flow, AfterDefs, pebble
<1>13. CASE Returns(c)
  <2>1. pc'[c] = "unlockDocs"
    BY Zenon, <1>0, <1>13, ReturnsAnswer, ReturnEffect DEF Inv
  <2> QED
    BY Zenon, <2>1
<1> QED
  BY Zenon, <1>1, <1>2, <1>3, <1>4, <1>5, <1>6, <1>7, <1>8, <1>9, <1>10, <1>11, <1>12,
     <1>13
     DEF Step, Local, Returns

(* A replacement or a patch that did not fail is a document.               *)
LEMMA UpdatedIsJson ==
    ASSUME TypeOK, NEW c \in Client, pc[c] # "idle", req[c].op \in {"replaceDoc", "patchDoc"},
           loc[c].cur # NoDoc, Updated(req[c], loc[c].cur) # InvalidPatch
    PROVE  Updated(req[c], loc[c].cur) \in Json
<1>1. /\ req[c].op = "replaceDoc" => req[c].json \in Json
      /\ req[c].op = "patchDoc" => req[c].patch \in Patch
  BY Zenon, RequestFacts DEF TypeOK
<1>2. loc[c].cur.json \in Json
  BY Zenon DEF TypeOK, Locals, Sealed
<1>3. \A p \in Patch, j \in Json : PatchOf[p][j] \in Json \cup {InvalidPatch}
  BY ZenonT(30), DataAssumption
<1> QED
  BY Zenon, <1>1, <1>2, <1>3 DEF Updated

-----------------------------------------------------------------------------
(* Each of the five batches keeps the indexes, documents and               *)
(* records of every database in good order (Data), so that no operation    *)
(* finds corrupt data.                                                     *)

(* readDoc, the If-Match test and the patch let an update through only if  *)
(* there is a document, under this key, that satisfies If-Match.           *)
LEMMA readErrorNil ==
    ASSUME NEW r, NEW doc, NEW key, readError(r, doc, key) = "nil"
    PROVE  /\ doc # NoDoc /\ doc.key = key
           /\ r.op # "getDoc" => matchRevision(r.match, doc.rev)
           /\ r.op # "getDoc" /\ r.op # "deleteDoc" => Updated(r, doc) # InvalidPatch
BY Zenon DEF readError

(* What a goroutine knows when it commits an update, or an insertion.      *)
LEMMA UpdateReads ==
    ASSUME Inv, NEW c \in Client, pc[c] = "commit", req[c].op \in Updates
    PROVE  /\ TypeOK /\ req[c].db \in DB /\ req[c].id \in Id
           /\ loc[c].key = dbRec[req[c].db] /\ loc[c].key \in Key /\ loc[c].key # NoKey
           /\ loc[c].defs = idxDef[req[c].db]
           /\ loc[c].cur = docRec[req[c].db][req[c].id] /\ loc[c].cur # NoDoc
           /\ matchRevision(req[c].match, loc[c].cur.rev)
           /\ req[c].op # "deleteDoc" => Updated(req[c], loc[c].cur) # InvalidPatch
<1>1. TypeOK /\ ReadsHold(c)
  BY Zenon DEF Inv
<1>2. HasKey(c) /\ HasDefs(c) /\ HasCurrent(c)
  BY Zenon DEF HasKey, HasDefs, HasCurrent
<1>3. /\ loc[c].key = dbRec[req[c].db] /\ loc[c].key # NoKey
      /\ loc[c].defs = idxDef[req[c].db] /\ loc[c].cur = docRec[req[c].db][req[c].id]
      /\ readError(req[c], loc[c].cur, loc[c].key) = "nil"
  BY <1>1, <1>2, Zenon DEF ReadsHold
<1>4. req[c] \in Requests /\ loc[c] \in Locals
  BY Zenon, <1>1 DEF TypeOK
<1>5. req[c].db \in DB /\ req[c].id \in Id
  BY Zenon, <1>4, RequestFacts
<1>6. loc[c].key \in Key \cup {NoKey}
  BY Zenon, <1>4 DEF Locals
<1>7. req[c].op # "getDoc"
  BY Zenon
<1>8. /\ loc[c].cur # NoDoc /\ matchRevision(req[c].match, loc[c].cur.rev)
      /\ req[c].op # "deleteDoc" => Updated(req[c], loc[c].cur) # InvalidPatch
  <2>1. /\ loc[c].cur # NoDoc
        /\ req[c].op # "getDoc" => matchRevision(req[c].match, loc[c].cur.rev)
        /\ req[c].op # "getDoc" /\ req[c].op # "deleteDoc" => Updated(req[c], loc[c].cur) # InvalidPatch
    BY <1>3, readErrorNil
  <2> QED
    BY <1>7, <2>1, Zenon
<1> QED
  BY <1>1, <1>3, <1>5, <1>6, <1>8, Zenon

(* What the inserting operations rely on at their commit: the key and the  *)
(* index definitions are those of the store, and the chosen ids are free.  *)
LEMMA InsertReads ==
    ASSUME Inv, NEW c \in Client, pc[c] = "commit", req[c].op \in Inserts
    PROVE  /\ TypeOK /\ req[c].db \in DB /\ req[c].docs \in Seq(Json)
           /\ loc[c].key = dbRec[req[c].db] /\ loc[c].key \in Key /\ loc[c].key # NoKey
           /\ loc[c].defs = idxDef[req[c].db]
           /\ loc[c].ids \in Injection(DOMAIN req[c].docs, Id)
           /\ \A i \in Targets(c) : docRec[req[c].db][i] = NoDoc
<1>1. TypeOK /\ ReadsHold(c)
  BY Zenon DEF Inv
<1>2. HasKey(c) /\ HasDefs(c) /\ HasIDs(c) /\ HasFree(c)
  BY Zenon DEF HasKey, HasDefs, HasIDs, HasFree, Locking
<1>3. /\ loc[c].key = dbRec[req[c].db] /\ loc[c].key # NoKey
      /\ loc[c].defs = idxDef[req[c].db]
      /\ loc[c].ids \in Injection(DOMAIN req[c].docs, Id)
      /\ \A i \in Targets(c) : docRec[req[c].db][i] = NoDoc
  BY <1>1, <1>2, Zenon DEF ReadsHold
<1>4. req[c] \in Requests /\ loc[c] \in Locals
  BY Zenon, <1>1 DEF TypeOK
<1>5. req[c].db \in DB /\ req[c].docs \in Seq(Json)
  BY Zenon, <1>4, RequestFacts
<1>6. loc[c].key \in Key \cup {NoKey}
  BY Zenon, <1>4 DEF Locals
<1> QED
  BY <1>1, <1>3, <1>5, <1>6, Zenon

(* One database in good order: index entries, key and index values agree   *)
(* with its documents.                                                     *)
Good(key, docs, defs, idx) ==
    /\ \A n \in IndexName, v \in Value :
         idx[n][v] = {i \in Id : docs[i] # NoDoc /\ indexValues(docs[i].json, defs)[n] = v}
    /\ key = NoKey => (\A i \in Id : docs[i] = NoDoc) /\ defs = NoIndexes
    /\ \A i \in Id : docs[i] # NoDoc =>
         docs[i].key = key /\ ~Invalid(indexValues(docs[i].json, defs))

(* Data is that condition on every database.                               *)
LEMMA DataIsGood ==
    /\ Data <=> \A d \in DB : Good(dbRec[d], docRec[d], idxDef[d], idxData[d])
    /\ Data' <=> \A d \in DB : Good(dbRec'[d], docRec'[d], idxDef'[d], idxData'[d])
<1>1. ASSUME NEW d \in DB, NEW n \in IndexName, NEW v \in Value
      PROVE  /\ {i \in Live(d) : indexValues(docRec[d][i].json, idxDef[d])[n] = v} =
                {i \in Id : docRec[d][i] # NoDoc /\ indexValues(docRec[d][i].json, idxDef[d])[n] = v}
             /\ {i \in Live(d)' : indexValues(docRec'[d][i].json, idxDef'[d])[n] = v} =
                {i \in Id : docRec'[d][i] # NoDoc /\ indexValues(docRec'[d][i].json, idxDef'[d])[n] = v}
  BY Zenon DEF Live
<1>2. Data <=> \A d \in DB : Good(dbRec[d], docRec[d], idxDef[d], idxData[d])
  BY <1>1 DEF Data, IndexConsistent, DatabaseOwnsRecords, Indexable, Good, Live
<1>3. Data' <=> \A d \in DB : Good(dbRec'[d], docRec'[d], idxDef'[d], idxData'[d])
  BY <1>1 DEF Data, IndexConsistent, DatabaseOwnsRecords, Indexable, Good, Live
<1> QED
  BY Zenon, <1>2, <1>3

(* setIndexEntries after the documents of a batch are set under free IDs.  *)
LEMMA InsertKeepsGood ==
    ASSUME NEW key, key # NoKey, NEW docs, NEW defs, NEW idx, Good(key, docs, defs, idx),
           NEW jsons, NEW revs, NEW ids \in Injection(DOMAIN jsons, Id), NEW values,
           \A k \in DOMAIN jsons : /\ docs[ids[k]] = NoDoc
                                   /\ [json |-> jsons[k], rev |-> revs[k], key |-> key] # NoDoc
                                   /\ values[k] = indexValues(jsons[k], defs)
                                   /\ ~Invalid(values[k])
    PROVE  Good(key, withDocs(docs, ids, jsons, revs, key), defs, setIndexEntries(idx, ids, values))
<1> DEFINE new == withDocs(docs, ids, jsons, revs, key)
<1>1. /\ DOMAIN ids = DOMAIN jsons
      /\ \A k \in DOMAIN jsons : ids[k] \in Id
      /\ \A k, l \in DOMAIN jsons : ids[k] = ids[l] => k = l
  BY Zenon DEF Injection, IsInjective
<1>2. ASSUME NEW k \in DOMAIN jsons
      PROVE  new[ids[k]] = [json |-> jsons[k], rev |-> revs[k], key |-> key]
  <2>1. (CHOOSE l \in DOMAIN ids : ids[l] = ids[k]) = k
    BY Zenon, <1>1
  <2> QED
    BY Zenon, <1>1, <2>1 DEF withDocs
<1>3. ASSUME NEW i \in Id, ~\E k \in DOMAIN ids : ids[k] = i
      PROVE  new[i] = docs[i]
  BY Zenon, <1>3 DEF withDocs
<1> HIDE DEF new
<1>4. ASSUME NEW n \in IndexName, NEW v \in Value, NEW i \in Id
      PROVE  i \in setIndexEntries(idx, ids, values)[n][v] <=>
               new[i] # NoDoc /\ indexValues(new[i].json, defs)[n] = v
  <2>1. i \in setIndexEntries(idx, ids, values)[n][v] <=>
          i \in idx[n][v] \/ \E k \in DOMAIN ids : ids[k] = i /\ values[k][n] = v
    BY Zenon DEF setIndexEntries
  <2>2. i \in idx[n][v] <=> docs[i] # NoDoc /\ indexValues(docs[i].json, defs)[n] = v
    BY DEF Good
  <2>3. CASE \E k \in DOMAIN ids : ids[k] = i
    <3>1. PICK k \in DOMAIN ids : ids[k] = i
      BY Zenon, <2>3
    <3>2. \A l \in DOMAIN ids : ids[l] = i => l = k
      BY Zenon, <1>1, <3>1
    <3>3. /\ new[i] = [json |-> jsons[k], rev |-> revs[k], key |-> key]
          /\ new[i] # NoDoc /\ docs[i] = NoDoc
      BY <1>1, <1>2, <3>1, Zenon
    <3>4. values[k] = indexValues(jsons[k], defs)
      BY Zenon, <1>1, <3>1
    <3> QED
      BY <2>1, <2>2, <3>1, <3>2, <3>3, <3>4
  <2>4. CASE ~\E k \in DOMAIN ids : ids[k] = i
    BY Zenon, <1>3, <2>1, <2>2, <2>4
  <2> QED
    BY Zenon, <2>3, <2>4
<1>5. ASSUME NEW n \in IndexName, NEW v \in Value
      PROVE  setIndexEntries(idx, ids, values)[n][v] \subseteq Id
  <2>1. setIndexEntries(idx, ids, values)[n][v] =
          idx[n][v] \cup {ids[k] : k \in {k \in DOMAIN ids : values[k][n] = v}}
    BY Zenon DEF setIndexEntries
  <2>2. idx[n][v] \subseteq Id
    BY ZenonT(30) DEF Good
  <2> QED
    BY <1>1, <2>1, <2>2
<1>6. ASSUME NEW i \in Id, new[i] # NoDoc
      PROVE  new[i].key = key /\ ~Invalid(indexValues(new[i].json, defs))
  <2>1. CASE \E k \in DOMAIN ids : ids[k] = i
    <3>1. PICK k \in DOMAIN ids : ids[k] = i
      BY Zenon, <2>1
    <3>2. /\ new[i] = [json |-> jsons[k], rev |-> revs[k], key |-> key]
          /\ ~Invalid(indexValues(jsons[k], defs))
      BY <1>1, <1>2, <3>1, ZenonT(30)
    <3> QED
      BY <3>2
  <2>2. CASE ~\E k \in DOMAIN ids : ids[k] = i
    BY Zenon, <1>3, <1>6, <2>2 DEF Good
  <2> QED
    BY Zenon, <2>1, <2>2
<1>7. Good(key, new, defs, setIndexEntries(idx, ids, values))
  <2>1. ASSUME NEW n \in IndexName, NEW v \in Value
        PROVE  setIndexEntries(idx, ids, values)[n][v] =
                 {i \in Id : new[i] # NoDoc /\ indexValues(new[i].json, defs)[n] = v}
    BY <1>4, <1>5
  <2> QED
    BY Zenon, <1>6, <2>1 DEF Good
<1> QED
  BY Zenon, <1>7 DEF new

(* changeIndexEntries after a document is replaced.                        *)
LEMMA ChangeKeepsGood ==
    ASSUME NEW key, key # NoKey, NEW docs, NEW defs, NEW idx, Good(key, docs, defs, idx),
           DOMAIN docs = Id, NEW id \in Id, docs[id] # NoDoc,
           NEW doc, doc # NoDoc, doc.key = key,
           ~Invalid(indexValues(doc.json, defs))
    PROVE  Good(key, [docs EXCEPT ![id] = doc], defs,
                changeIndexEntries(idx, id, indexValues(docs[id].json, defs),
                                   indexValues(doc.json, defs)))
<1> DEFINE old == indexValues(docs[id].json, defs)
           next == indexValues(doc.json, defs)
           new == [docs EXCEPT ![id] = doc]
           entries == changeIndexEntries(idx, id, old, next)
<1>1. new[id] = doc /\ \A i \in Id \ {id} : new[i] = docs[i]
  BY Zenon
<1>2. ASSUME NEW n \in IndexName, NEW v \in Value
      PROVE  entries[n][v] = {i \in Id : new[i] # NoDoc /\ indexValues(new[i].json, defs)[n] = v}
  <2>1. entries[n][v] = IF old[n] = next[n] THEN idx[n][v]
                        ELSE IF next[n] = v THEN idx[n][v] \cup {id}
                        ELSE IF old[n] = v THEN idx[n][v] \ {id}
                        ELSE idx[n][v]
    BY Zenon DEF changeIndexEntries
  <2>2. idx[n][v] = {i \in Id : docs[i] # NoDoc /\ indexValues(docs[i].json, defs)[n] = v}
    BY Zenon DEF Good
  <2> HIDE DEF entries, new
  <2>3. ASSUME NEW i \in Id
        PROVE  i \in entries[n][v] <=> new[i] # NoDoc /\ indexValues(new[i].json, defs)[n] = v
    <3>1. CASE i = id
      BY Zenon, <1>1, <2>1, <2>2, <3>1
    <3>2. CASE i # id
      BY <1>1, <2>1, <2>2, <3>2
    <3> QED
      BY Zenon, <3>1, <3>2
  <2>4. entries[n][v] \subseteq Id
    BY Zenon, <2>1, <2>2
  <2> QED
    BY Zenon, <2>3, <2>4
<1>3. \A i \in Id : new[i] # NoDoc =>
        new[i].key = key /\ ~Invalid(indexValues(new[i].json, defs))
  BY Zenon, <1>1 DEF Good
<1> QED
  BY Zenon, <1>2, <1>3 DEF Good

(* deleteIndexEntries after a document is deleted.                         *)
LEMMA DeleteKeepsGood ==
    ASSUME NEW key, key # NoKey, NEW docs, NEW defs, NEW idx, Good(key, docs, defs, idx),
           DOMAIN docs = Id, NEW id \in Id, docs[id] # NoDoc
    PROVE  Good(key, [docs EXCEPT ![id] = NoDoc], defs,
                deleteIndexEntries(idx, id, indexValues(docs[id].json, defs)))
<1> DEFINE values == indexValues(docs[id].json, defs)
           new == [docs EXCEPT ![id] = NoDoc]
           entries == deleteIndexEntries(idx, id, values)
<1>1. new[id] = NoDoc /\ \A i \in Id \ {id} : new[i] = docs[i]
  BY Zenon
<1>2. ASSUME NEW n \in IndexName, NEW v \in Value
      PROVE  entries[n][v] = {i \in Id : new[i] # NoDoc /\ indexValues(new[i].json, defs)[n] = v}
  <2>1. entries[n][v] = IF values[n] = v THEN idx[n][v] \ {id} ELSE idx[n][v]
    BY Zenon DEF deleteIndexEntries
  <2>2. idx[n][v] = {i \in Id : docs[i] # NoDoc /\ indexValues(docs[i].json, defs)[n] = v}
    BY Zenon DEF Good
  <2> HIDE DEF entries, new
  <2>3. ASSUME NEW i \in Id
        PROVE  i \in entries[n][v] <=> new[i] # NoDoc /\ indexValues(new[i].json, defs)[n] = v
    <3>1. CASE i = id
      BY Zenon, <1>1, <2>1, <2>2, <3>1
    <3>2. CASE i # id
      BY <1>1, <2>1, <2>2, <3>2
    <3> QED
      BY Zenon, <3>1, <3>2
  <2>4. entries[n][v] \subseteq Id
    BY Zenon, <2>1, <2>2
  <2> QED
    BY Zenon, <2>3, <2>4
<1>3. \A i \in Id : new[i] # NoDoc =>
        new[i].key = key /\ ~Invalid(indexValues(new[i].json, defs))
  BY Zenon, <1>1 DEF Good
<1> QED
  BY Zenon, <1>2, <1>3 DEF Good

(* A database before its creation and after its deletion, and after it is  *)
(* created.                                                                *)
LEMMA EmptyIsGood ==
    ASSUME NEW key, NEW defs, key = NoKey => defs = NoIndexes
    PROVE  Good(key, [i \in Id |-> NoDoc], defs, NoEntries)
BY Zenon DEF Good, NoEntries

(* A name without a database has no documents and no entries, so its       *)
(* creation leaves none out.                                               *)
LEMMA CreateKeepsGood ==
    ASSUME NEW docs, NEW defs, NEW idx, Good(NoKey, docs, defs, idx),
           NEW key, key # NoKey, NEW indexes
    PROVE  Good(key, docs, indexes, idx)
<1>1. \A i \in Id : docs[i] = NoDoc
  BY Zenon DEF Good
<1>2. \A n \in IndexName, v \in Value : idx[n][v] = {}
  BY <1>1 DEF Good
<1> QED
  BY Zenon, <1>1, <1>2 DEF Good

(* The batches keep every database in good order.                          *)
LEMMA InsertDocsKeepsData ==
    ASSUME Inv, NEW c \in Client, InsertDocs(c)
    PROVE  Data'
<1> DEFINE r == req[c]
           db == r.db
           key == loc[c].key
           values == [k \in DOMAIN r.docs |-> indexValues(r.docs[k], loc[c].defs)]
<1>1. pc[c] = "commit" /\ r.op \in Inserts /\ dbRec' = dbRec /\ idxDef' = idxDef
  BY Zenon DEF InsertDocs, Committed
<1>2. CASE docRec' = docRec /\ idxData' = idxData
  BY Zenon, <1>1, <1>2, DataIsGood DEF Inv
<1>3. CASE ~(docRec' = docRec /\ idxData' = idxData)
  <2>1. \A k \in DOMAIN r.docs : ~Invalid(values[k])
    BY <1>3, Zenon DEF InsertDocs
  <2>2. \E revs \in [DOMAIN r.docs -> makeRevision({})] :
          docRec' = [docRec EXCEPT ![db] = withDocs(docRec[db], loc[c].ids, r.docs, revs, key)]
    BY <1>3, Zenon DEF InsertDocs
  <2>3. idxData' = [idxData EXCEPT ![db] = setIndexEntries(idxData[db], loc[c].ids, values)]
    BY <1>3, Zenon DEF InsertDocs
  <2>4. PICK revs \in [DOMAIN r.docs -> makeRevision({})] :
          docRec' = [docRec EXCEPT ![db] = withDocs(docRec[db], loc[c].ids, r.docs, revs, key)]
    BY Zenon, <2>2
  <2>5. /\ TypeOK /\ key = dbRec[db] /\ key # NoKey /\ loc[c].defs = idxDef[db]
        /\ loc[c].ids \in Injection(DOMAIN r.docs, Id)
        /\ \A i \in Targets(c) : docRec[db][i] = NoDoc
    BY <1>1, InsertReads, Zenon
  <2>6. db \in DB /\ key \in Key /\ r.docs \in Seq(Json)
    BY <1>1, InsertReads, Zenon
  <2>7. ASSUME NEW k \in DOMAIN r.docs
        PROVE  /\ docRec[db][loc[c].ids[k]] = NoDoc
               /\ [json |-> r.docs[k], rev |-> revs[k], key |-> key] # NoDoc
               /\ values[k] = indexValues(r.docs[k], idxDef[db])
               /\ ~Invalid(values[k])
    <3>1. docRec[db][loc[c].ids[k]] = NoDoc
      BY Zenon, <1>1, <2>5 DEF Injection, Targets
    <3>2. r.docs[k] \in Json /\ revs[k] \in Rev
      BY <2>4, <2>6 DEF makeRevision
    <3>3. [json |-> r.docs[k], rev |-> revs[k], key |-> key] # NoDoc
      BY <2>6, <3>2, StoreAssumption
    <3> QED
      BY Zenon, <2>1, <2>5, <3>1, <3>3
  <2>8. Good(dbRec[db], docRec[db], idxDef[db], idxData[db])
    BY <2>6, DataIsGood, Zenon DEF Inv
  <2> HIDE DEF r, db, key, values
  <2>9. Good(key, withDocs(docRec[db], loc[c].ids, r.docs, revs, key), idxDef[db],
             setIndexEntries(idxData[db], loc[c].ids, values))
    BY Zenon, <2>5, <2>7, <2>8, InsertKeepsGood
  <2>10. /\ dbRec'[db] = key /\ idxDef'[db] = idxDef[db]
         /\ docRec'[db] = withDocs(docRec[db], loc[c].ids, r.docs, revs, key)
         /\ idxData'[db] = setIndexEntries(idxData[db], loc[c].ids, values)
         /\ \A d \in DB \ {db} : docRec'[d] = docRec[d] /\ idxData'[d] = idxData[d]
    BY Zenon, <1>1, <2>3, <2>4, <2>5, <2>6 DEF TypeOK
  <2> QED
    BY Zenon, <1>1, <2>9, <2>10, DataIsGood DEF Inv
<1> QED
  BY Zenon, <1>2, <1>3

(* The batch of replaceDoc and patchDoc, made from the document and the    *)
(* definitions read before, keeps the database in good order.              *)
LEMMA UpdateDocKeepsData ==
    ASSUME Inv, NEW c \in Client, UpdateDoc(c)
    PROVE  Data'
<1> DEFINE r == req[c]
           db == r.db
           key == loc[c].key
           json == Updated(r, loc[c].cur)
           old == indexValues(loc[c].cur.json, loc[c].defs)
           next == indexValues(json, loc[c].defs)
<1>1. pc[c] = "commit" /\ r.op \in {"replaceDoc", "patchDoc"} /\ dbRec' = dbRec /\ idxDef' = idxDef
  BY Zenon DEF UpdateDoc, Committed
<1>2. CASE docRec' = docRec /\ idxData' = idxData
  BY Zenon, <1>1, <1>2, DataIsGood DEF Inv
<1>3. CASE ~(docRec' = docRec /\ idxData' = idxData)
  <2>1. /\ ~Invalid(old) /\ ~Invalid(next)
        /\ idxData' = [idxData EXCEPT ![db] = changeIndexEntries(idxData[db], r.id, old, next)]
    BY <1>3, Zenon DEF UpdateDoc
  <2>2. \E rev \in makeRevision({loc[c].cur.rev}) :
          docRec' = [docRec EXCEPT ![db][r.id] = [json |-> json, rev |-> rev, key |-> key]]
    BY <1>3, Zenon DEF UpdateDoc
  <2>3. PICK rev \in makeRevision({loc[c].cur.rev}) :
          docRec' = [docRec EXCEPT ![db][r.id] = [json |-> json, rev |-> rev, key |-> key]]
    BY <2>2, Zenon
  <2>4. /\ TypeOK /\ key = dbRec[db] /\ key # NoKey /\ loc[c].defs = idxDef[db]
        /\ loc[c].cur = docRec[db][r.id]
    BY <1>1, UpdateReads, Zenon
  <2>5. db \in DB /\ key \in Key /\ r.id \in Id
    BY <1>1, UpdateReads, Zenon
  <2>6. loc[c].cur # NoDoc /\ json # InvalidPatch
    <3>1. r.op # "deleteDoc"
      BY Zenon, <1>1
    <3> QED
      BY <1>1, <3>1, UpdateReads, Zenon
  <2>7. json \in Json
    <3>1. pc[c] # "idle"
      BY Zenon, <1>1
    <3> QED
      BY <1>1, <2>4, <2>6, <3>1, UpdatedIsJson, Zenon
  <2> HIDE DEF json, key, db
  <2> DEFINE doc == [json |-> json, rev |-> rev, key |-> key]
  <2>8. doc # NoDoc /\ doc.json = json /\ doc.key = key
    BY <2>3, <2>5, <2>7, StoreAssumption DEF makeRevision
  <2>9. Good(key, docRec[db], idxDef[db], idxData[db]) /\ DOMAIN docRec[db] = Id
    <3>1. Good(key, docRec[db], idxDef[db], idxData[db])
      BY <2>4, <2>5, DataIsGood, Zenon DEF Inv
    <3> QED
      BY Zenon, <2>4, <2>5, <3>1 DEF TypeOK
  <2>10. docRec' = [docRec EXCEPT ![db][r.id] = doc]
    BY Zenon, <2>3
  <2> HIDE DEF doc, r, old, next
  <2>11. old = indexValues(docRec[db][r.id].json, idxDef[db]) /\ next = indexValues(doc.json, idxDef[db])
    BY <2>4, <2>8, Zenon DEF old, next
  <2>12. Good(key, [docRec[db] EXCEPT ![r.id] = doc], idxDef[db],
              changeIndexEntries(idxData[db], r.id, old, next))
    BY Zenon, <2>1, <2>4, <2>5, <2>6, <2>8, <2>9, <2>11, ChangeKeepsGood
  <2>13. /\ dbRec'[db] = key /\ idxDef'[db] = idxDef[db]
         /\ docRec'[db] = [docRec[db] EXCEPT ![r.id] = doc]
         /\ idxData'[db] = changeIndexEntries(idxData[db], r.id, old, next)
         /\ \A d \in DB \ {db} : docRec'[d] = docRec[d] /\ idxData'[d] = idxData[d]
    BY Zenon, <1>1, <2>1, <2>4, <2>5, <2>10 DEF TypeOK
  <2> QED
    BY Zenon, <1>1, <2>12, <2>13, DataIsGood DEF Inv
<1> QED
  BY Zenon, <1>2, <1>3

(* So does the batch of deleteDoc.                                         *)
LEMMA deleteDocKeepsData ==
    ASSUME Inv, NEW c \in Client, deleteDoc(c)
    PROVE  Data'
<1> DEFINE r == req[c]
           db == r.db
           key == loc[c].key
           values == indexValues(loc[c].cur.json, loc[c].defs)
<1>1. pc[c] = "commit" /\ r.op = "deleteDoc" /\ dbRec' = dbRec /\ idxDef' = idxDef
  BY Zenon DEF deleteDoc
<1>2. CASE docRec' = docRec /\ idxData' = idxData
  BY Zenon, <1>1, <1>2, DataIsGood DEF Inv
<1>3. CASE ~(docRec' = docRec /\ idxData' = idxData)
  <2>1. /\ docRec' = [docRec EXCEPT ![db][r.id] = NoDoc]
        /\ idxData' = [idxData EXCEPT ![db] = deleteIndexEntries(idxData[db], r.id, values)]
    BY <1>3, Zenon DEF deleteDoc
  <2>2. /\ TypeOK /\ key = dbRec[db] /\ key # NoKey /\ loc[c].defs = idxDef[db]
        /\ loc[c].cur = docRec[db][r.id]
    BY <1>1, UpdateReads, Zenon
  <2>3. db \in DB /\ r.id \in Id
    BY <1>1, UpdateReads, Zenon
  <2>4. docRec[db][r.id] # NoDoc
    BY <1>1, UpdateReads, Zenon
  <2>5. Good(key, docRec[db], idxDef[db], idxData[db]) /\ DOMAIN docRec[db] = Id
    <3>1. Good(key, docRec[db], idxDef[db], idxData[db])
      BY <2>2, <2>3, DataIsGood, Zenon DEF Inv
    <3> QED
      BY Zenon, <2>2, <2>3, <3>1 DEF TypeOK
  <2> HIDE DEF r, db, key
  <2>6. Good(key, [docRec[db] EXCEPT ![r.id] = NoDoc], idxDef[db],
             deleteIndexEntries(idxData[db], r.id, values))
    <3>1. values = indexValues(docRec[db][r.id].json, idxDef[db])
      BY <2>2, Zenon
    <3> HIDE DEF values
    <3> QED
      BY <2>2, <2>3, <2>4, <2>5, <3>1, DeleteKeepsGood, Zenon
  <2>7. /\ dbRec'[db] = key /\ idxDef'[db] = idxDef[db]
        /\ docRec'[db] = [docRec[db] EXCEPT ![r.id] = NoDoc]
        /\ idxData'[db] = deleteIndexEntries(idxData[db], r.id, values)
        /\ \A d \in DB \ {db} : docRec'[d] = docRec[d] /\ idxData'[d] = idxData[d]
    BY Zenon, <1>1, <2>1, <2>2, <2>3 DEF TypeOK
  <2> QED
    BY Zenon, <1>1, <2>6, <2>7, DataIsGood DEF Inv
<1> QED
  BY Zenon, <1>2, <1>3

(* Every step of the store keeps every database in good order.             *)
LEMMA DataStep ==
    ASSUME Inv, NEW c \in Client, Step(c)
    PROVE  Data'
<1>1. CASE UNCHANGED pebble
  BY Zenon, <1>1, DataIsGood DEF Inv, pebble
<1>2. CASE createDB(c)
  <2>1. pc[c] = "commit" /\ req[c].op = "createDB" /\ TypeOK
    BY Zenon, <1>2 DEF createDB, Inv
  <2>2. req[c].db \in DB /\ dbRec[req[c].db] = NoKey
    BY Zenon, <2>1, RequestFacts DEF Inv, TypeOK, ReadsHold
  <2>3. Good(NoKey, docRec[req[c].db], idxDef[req[c].db], idxData[req[c].db])
    BY Zenon, <2>2, DataIsGood DEF Inv
  <2>4. \E key \in Key : dbRec' = [dbRec EXCEPT ![req[c].db] = key]
    BY Zenon, <1>2 DEF createDB
  <2>5. dbRec'[req[c].db] # NoKey
    BY Zenon, <2>1, <2>2, <2>4, StoreAssumption DEF TypeOK
  <2>6. docRec' = docRec /\ idxData' = idxData
    BY <1>2, Zenon DEF createDB
  <2>8. Good(dbRec'[req[c].db], docRec'[req[c].db], idxDef'[req[c].db], idxData'[req[c].db])
    BY <2>3, <2>5, <2>6, CreateKeepsGood, Zenon
  <2> QED
    BY Zenon, <1>2, <2>1, <2>8, DBWritesOne, DataIsGood DEF Inv
<1>3. CASE deleteDB(c)
  <2>1. req[c].db \in DB /\ TypeOK
    BY Zenon, <1>3, RequestFacts DEF deleteDB, Inv, TypeOK
  <2>2. /\ dbRec'[req[c].db] = NoKey /\ docRec'[req[c].db] = [i \in Id |-> NoDoc]
        /\ idxDef'[req[c].db] = NoIndexes /\ idxData'[req[c].db] = NoEntries
    BY Zenon, <1>3, <2>1 DEF deleteDB, TypeOK
  <2> QED
    BY SMTT(30), <1>3, <2>1, <2>2, DBWritesOne, DataIsGood, EmptyIsGood DEF Inv
<1> QED
  BY <1>1, <1>2, <1>3, InsertDocsKeepsData, UpdateDocKeepsData, deleteDocKeepsData,
     PebbleWriters, Zenon

-----------------------------------------------------------------------------
(* What the operations may return besides corruption.                      *)
Clean == Errors \ {"none", "errCorruptData"}

(* An operation that returns finds nothing corrupt: its reads hold, and    *)
(* the data are in good order.                                             *)
LEMMA ReturnsClean ==
    ASSUME Inv, NEW c \in Client, Returns(c)
    PROVE  Answers(c, Clean)
<1> USE DEF Clean, Errors
<1>1. CASE listDBs(c) \/ listDocs(c) \/ createDB(c) \/ deleteDB(c)
  BY <1>1, Zenon DEF listDBs, listDocs, createDB, deleteDB, Committed, Answers
<1>2. CASE InsertDocs(c)
  BY <1>2, Zenon DEF InsertDocs, Committed, Answers
<1>3. CASE Fail(c)
  BY <1>3, Zenon DEF Fail, Failures, Answers
<1>4. CASE queryDocs(c)
  <2>1. pc[c] = "iterate" /\ req[c].op = "queryDocs" /\ TypeOK
    BY Zenon, <1>4 DEF queryDocs, Inv
  <2>2. req[c].db \in DB /\ req[c].index \in IndexName /\ req[c].value \in Value
    <3>1. req[c] \in Requests
      BY Zenon, <2>1 DEF TypeOK
    <3> QED
      BY Zenon, <2>1, <3>1, RequestFacts
  <2>3. idxData[req[c].db][req[c].index][req[c].value] \subseteq Live(req[c].db)
    <3>1. IndexConsistent
      BY Zenon DEF Inv, Data
    <3> QED
      BY SMTT(30), <2>2, <3>1 DEF IndexConsistent
  <2>4. Seek(idxData[req[c].db][req[c].index][req[c].value], req[c].page.cursor, req[c].page.limit + 1)
          \subseteq Live(req[c].db)
    BY Zenon, <2>3 DEF Seek
  <2> QED
    BY <1>4, <2>4, Zenon DEF queryDocs, Answers
<1>5. CASE exportDocs(c)
  <2>1. pc[c] = "iterate" /\ req[c].op = "exportDocs" /\ TypeOK
    BY Zenon, <1>5 DEF exportDocs, Inv
  <2>2. req[c].db \in DB /\ loc[c].key = dbRec[req[c].db]
    BY Zenon, <2>1, RequestFacts DEF Inv, TypeOK, ReadsHold, HasKey
  <2>3. \A i \in Live(req[c].db) : docRec[req[c].db][i].key = loc[c].key
    BY Zenon, <2>2 DEF Inv, Data, DatabaseOwnsRecords
  <2> QED
    BY <1>5, <2>3, Zenon DEF exportDocs, Answers
<1>6. CASE UpdateDoc(c) \/ deleteDoc(c)
  <2>1. pc[c] = "commit" /\ req[c].op \in Updates /\ TypeOK
    BY <1>6, Zenon DEF UpdateDoc, deleteDoc, Inv
  <2>2. /\ loc[c].defs = idxDef[req[c].db] /\ loc[c].cur = docRec[req[c].db][req[c].id]
        /\ loc[c].cur # NoDoc /\ req[c].db \in DB /\ req[c].id \in Id
    BY <2>1, UpdateReads, Zenon
  <2>3. req[c].db \in DB /\ req[c].id \in Live(req[c].db)
    BY <2>2, Zenon DEF Live
  <2>4. ~Invalid(indexValues(loc[c].cur.json, loc[c].defs))
    BY Zenon, <2>2, <2>3 DEF Inv, Data, Indexable
  <2> QED
    BY <1>6, <2>4, ZenonT(30) DEF UpdateDoc, deleteDoc, Committed, Answers
<1> QED
  BY Zenon, <1>1, <1>2, <1>3, <1>4, <1>5, <1>6 DEF Returns

(* Every result of a step of the store is an error value, and none is      *)
(* corruption.                                                             *)
LEMMA ResultStep ==
    ASSUME Inv, NEW c \in Client, Step(c)
    PROVE  /\ DOMAIN res' = Client
           /\ res'[c].err \in Errors \ {"errCorruptData"}
<1>0. TypeOK /\ res[c].err \in Errors \ {"errCorruptData"}
  BY ZenonT(30) DEF Inv, TypeOK, NeverCorrupt
<1>1. CASE Returns(c)
  <2>1. DOMAIN res' = Client /\ res'[c].err \in Clean \cup {"nil"}
    BY <1>0, <1>1, ReturnsClean, AnswerEffect, Zenon
  <2> QED
    BY Zenon, <2>1 DEF Clean, Errors
<1>2. CASE ReadDoc(c)
  <2>1. pc[c] = "readDoc" /\ req[c].op \in Updates \cup {"getDoc"}
    BY Zenon, <1>2 DEF ReadDoc, Inv, Flow
  <2>2. req[c].db \in DB /\ req[c].id \in Id /\ loc[c].key = dbRec[req[c].db]
    BY Zenon, <1>0, <2>1, RequestFacts DEF Inv, TypeOK, ReadsHold, HasKey
  <2>3. readError(req[c], docRec[req[c].db][req[c].id], loc[c].key) \in Clean
    <3>1. docRec[req[c].db][req[c].id] # NoDoc => docRec[req[c].db][req[c].id].key = loc[c].key
      BY <2>2, Zenon DEF Inv, Data, DatabaseOwnsRecords, Live
    <3> QED
      BY Zenon, <3>1 DEF readError, Clean, Errors
  <2>4. Answers(c, Clean) \/ UNCHANGED res
    BY <1>2, <2>3, Zenon DEF ReadDoc, Answers
  <2> QED
    <3>1. CASE Answers(c, Clean)
      <4>1. DOMAIN res' = Client /\ res'[c].err \in Clean \cup {"nil"}
        BY <1>0, <3>1, AnswerEffect, Zenon
      <4> QED
        BY Zenon, <4>1 DEF Clean, Errors
    <3>2. CASE UNCHANGED res
      BY Zenon, <1>0, <3>2 DEF TypeOK
    <3> QED
      BY Zenon, <2>4, <3>1, <3>2
<1>3. CASE UnlockDB(c)
  BY Zenon, <1>0, <1>3 DEF UnlockDB, TypeOK, Errors
<1>4. CASE CheckDB(c)
  BY <1>0, <1>4 DEF CheckDB, TypeOK, Respond, Failed, Errors
<1>5. CASE ReadKey(c)
  BY <1>0, <1>5 DEF ReadKey, TypeOK, Respond, Failed, MissingDB, Errors
<1>6. CASE HasDoc(c)
  <2>1. Respond(c, Failed("errDocExists")) \/ UNCHANGED res
    BY <1>6, Zenon DEF HasDoc
  <2> QED
    BY <1>0, <2>1 DEF TypeOK, Respond, Failed, Errors
<1>7. CASE ReadDefs(c)
  BY SMTT(30), <1>0, <1>7 DEF ReadDefs, TypeOK, Respond, Failed, Errors
<1>8. CASE UNCHANGED res
  BY Zenon, <1>0, <1>8 DEF TypeOK
<1> QED
  BY Zenon, <1>1, <1>2, <1>3, <1>4, <1>5, <1>6, <1>7, <1>8
     DEF Step, Local, Returns, Begin, MakeID, RLock, WLock, WWait, LockDoc, UnlockDocs

-----------------------------------------------------------------------------
(* Types, and the theorems.                                                *)

(* Type correctness, for Pebble, the locks and the goroutines.             *)
LEMMA TypeOfPebble ==
    ASSUME Inv, NEW c \in Client, Step(c)
    PROVE  /\ dbRec' \in [DB -> Key \cup {NoKey}]
           /\ docRec' \in [DB -> [Id -> Sealed \cup {NoDoc}]]
           /\ idxDef' \in [DB -> Schema]
           /\ idxData' \in [DB -> [IndexName -> [Value -> SUBSET Id]]]
<1>0. TypeOK
  BY Zenon DEF Inv
<1>1. CASE UNCHANGED pebble
  BY Zenon, <1>0, <1>1 DEF TypeOK, pebble
<1>2. NoIndexes \in Schema /\ NoEntries \in [IndexName -> [Value -> SUBSET Id]]
  BY Zenon DEF NoIndexes, Schema, NoEntries
<1>3. CASE createDB(c)
  <2>1. req[c].defs \in Schema /\ req[c].db \in DB
    BY Zenon, <1>0, <1>3, RequestFacts DEF createDB, TypeOK
  <2>2. PICK key \in Key : dbRec' = [dbRec EXCEPT ![req[c].db] = key]
    BY Zenon, <1>3 DEF createDB
  <2> QED
    BY Zenon, <1>0, <1>3, <2>1, <2>2 DEF createDB, TypeOK
<1>4. CASE deleteDB(c)
  BY Zenon, <1>0, <1>2, <1>4 DEF deleteDB, TypeOK
<1>5. ASSUME InsertDocs(c) \/ UpdateDoc(c) \/ deleteDoc(c)
      PROVE  /\ idxData' \in [DB -> [IndexName -> [Value -> SUBSET Id]]]
             /\ dbRec' = dbRec /\ idxDef' = idxDef
  <2>1. dbRec' = dbRec /\ idxDef' = idxDef
    BY Zenon, <1>0, <1>5, DocWrites
  <2>2. \E idx : idxData' \in {idxData, [idxData EXCEPT ![req[c].db] = idx]} /\
          idx \in [IndexName -> [Value -> SUBSET Id]]
    <3>1. CASE InsertDocs(c)
      <4> DEFINE values == [k \in DOMAIN req[c].docs |-> indexValues(req[c].docs[k], loc[c].defs)]
                 idx == setIndexEntries(idxData[req[c].db], loc[c].ids, values)
      <4>1. idxData' = idxData \/ idxData' = [idxData EXCEPT ![req[c].db] = idx]
        BY <3>1, Zenon DEF InsertDocs
      <4>2. pc[c] = "commit" /\ req[c].op \in Inserts
        BY <3>1, Zenon DEF InsertDocs
      <4>3. req[c].db \in DB /\ loc[c].ids \in Seq(Id)
        BY Zenon, <1>0, <4>2, RequestFacts DEF TypeOK, Locals
      <4>4. idx \in [IndexName -> [Value -> SUBSET Id]]
        <5> HIDE DEF values
        <5>1. \A k \in DOMAIN loc[c].ids : loc[c].ids[k] \in Id
          BY <4>3
        <5>2. \A n \in IndexName, v \in Value : idxData[req[c].db][n][v] \subseteq Id
          BY SMTT(30), <1>0, <4>3 DEF TypeOK
        <5> QED
          BY ZenonT(30), <5>1, <5>2 DEF setIndexEntries
      <4> QED
        BY SMTT(30), <4>1, <4>4
    <3>2. CASE UpdateDoc(c)
      <4> DEFINE old == indexValues(loc[c].cur.json, loc[c].defs)
                 next == indexValues(Updated(req[c], loc[c].cur), loc[c].defs)
                 idx == changeIndexEntries(idxData[req[c].db], req[c].id, old, next)
      <4>1. idxData' = idxData \/ idxData' = [idxData EXCEPT ![req[c].db] = idx]
        BY <3>2, Zenon DEF UpdateDoc
      <4>2. req[c].db \in DB /\ req[c].id \in Id
        BY Zenon, <1>0, <3>2, RequestFacts DEF TypeOK, UpdateDoc
      <4>3. idx \in [IndexName -> [Value -> SUBSET Id]]
        BY SMTT(30), <1>0, <4>2 DEF TypeOK, changeIndexEntries
      <4> QED
        BY SMTT(30), <4>1, <4>3
    <3>3. CASE deleteDoc(c)
      <4> DEFINE values == indexValues(loc[c].cur.json, loc[c].defs)
                 idx == deleteIndexEntries(idxData[req[c].db], req[c].id, values)
      <4>1. idxData' = idxData \/ idxData' = [idxData EXCEPT ![req[c].db] = idx]
        BY <3>3, Zenon DEF deleteDoc
      <4>2. req[c].db \in DB /\ req[c].id \in Id
        BY Zenon, <1>0, <3>3, RequestFacts DEF TypeOK, deleteDoc
      <4>3. idx \in [IndexName -> [Value -> SUBSET Id]]
        BY <1>0, <4>2 DEF TypeOK, deleteIndexEntries
      <4> QED
        BY SMTT(30), <4>1, <4>3
    <3> QED
      BY Zenon, <1>5, <3>1, <3>2, <3>3
  <2> QED
    BY Zenon, <1>0, <2>1, <2>2 DEF TypeOK
<1>6. ASSUME UpdateDoc(c) \/ deleteDoc(c)
      PROVE  docRec' \in [DB -> [Id -> Sealed \cup {NoDoc}]]
  <2>1. pc[c] = "commit" /\ req[c].op \in Updates
    BY Zenon, <1>0, <1>6, DocWrites DEF UpdateDoc, deleteDoc
  <2>2. req[c].db \in DB /\ req[c].id \in Id
    BY <2>1, UpdateReads, Zenon
  <2>3. /\ loc[c].key \in Key /\ loc[c].cur # NoDoc
        /\ req[c].op # "deleteDoc" => Updated(req[c], loc[c].cur) # InvalidPatch
    BY <2>1, UpdateReads, Zenon
  <2>4. req[c].op # "deleteDoc" => Updated(req[c], loc[c].cur) \in Json
    BY Zenon, <1>0, <2>1, <2>3, UpdatedIsJson
  <2>5. \E doc \in Sealed \cup {NoDoc} :
          docRec' = docRec \/ docRec' = [docRec EXCEPT ![req[c].db][req[c].id] = doc]
    <3>1. CASE deleteDoc(c)
      BY <3>1, Zenon DEF deleteDoc
    <3>2. CASE UpdateDoc(c)
      <4>1. \/ docRec' = docRec
            \/ \E rev \in Rev : docRec' = [docRec EXCEPT ![req[c].db][req[c].id] =
                 [json |-> Updated(req[c], loc[c].cur), rev |-> rev, key |-> loc[c].key]]
        BY <3>2, Zenon DEF UpdateDoc, makeRevision
      <4>2. \A rev \in Rev :
              [json |-> Updated(req[c], loc[c].cur), rev |-> rev, key |-> loc[c].key] \in Sealed
        BY Zenon, <2>3, <2>4, <3>2 DEF Sealed, UpdateDoc
      <4> QED
        BY <4>1, <4>2, Zenon
    <3> QED
      BY Zenon, <1>6, <3>1, <3>2
  <2>6. PICK doc \in Sealed \cup {NoDoc} :
          docRec' = docRec \/ docRec' = [docRec EXCEPT ![req[c].db][req[c].id] = doc]
    BY <2>5, Zenon
  <2>7. docRec \in [DB -> [Id -> Sealed \cup {NoDoc}]]
    BY Zenon, <1>0 DEF TypeOK
  <2> QED
    BY <2>2, <2>6, <2>7
<1>7. ASSUME InsertDocs(c)
      PROVE  docRec' \in [DB -> [Id -> Sealed \cup {NoDoc}]]
  <2>1. /\ pc[c] = "commit" /\ req[c].op \in Inserts
        /\ \/ docRec' = docRec
           \/ \E revs \in [DOMAIN req[c].docs -> makeRevision({})] :
                docRec' = [docRec EXCEPT ![req[c].db] =
                  withDocs(docRec[req[c].db], loc[c].ids, req[c].docs, revs, loc[c].key)]
    BY <1>7, Zenon DEF InsertDocs
  <2>2. CASE docRec' = docRec
    BY Zenon, <1>0, <2>2 DEF TypeOK
  <2>3. CASE docRec' # docRec
    <3>1. PICK revs \in [DOMAIN req[c].docs -> makeRevision({})] :
            docRec' = [docRec EXCEPT ![req[c].db] =
              withDocs(docRec[req[c].db], loc[c].ids, req[c].docs, revs, loc[c].key)]
      BY Zenon, <2>1, <2>3
    <3>2. req[c].db \in DB /\ req[c].docs \in Seq(Json)
      BY <2>1, InsertReads, Zenon
    <3>3. DOMAIN loc[c].ids = DOMAIN req[c].docs /\ loc[c].key \in Key
      <4>1. loc[c].ids \in Injection(DOMAIN req[c].docs, Id) /\ loc[c].key \in Key
        BY <2>1, InsertReads, ZenonT(30)
      <4> QED
        BY Zenon, <4>1 DEF Injection
    <3>4. \A k \in DOMAIN loc[c].ids :
            [json |-> req[c].docs[k], rev |-> revs[k], key |-> loc[c].key] \in Sealed
      <4>1. \A k \in DOMAIN req[c].docs : req[c].docs[k] \in Json /\ revs[k] \in Rev
        BY SMTT(30), <3>1, <3>2 DEF makeRevision
      <4> QED
        BY Zenon, <3>3, <4>1 DEF Sealed
    <3>5. ASSUME NEW docs \in [Id -> Sealed \cup {NoDoc}]
          PROVE  withDocs(docs, loc[c].ids, req[c].docs, revs, loc[c].key) \in [Id -> Sealed \cup {NoDoc}]
      BY Zenon, <3>4 DEF withDocs
    <3> QED
      BY Zenon, <1>0, <3>1, <3>2, <3>5 DEF TypeOK
  <2> QED
    BY Zenon, <2>2, <2>3
<1> QED
  BY Zenon, <1>0, <1>1, <1>3, <1>4, <1>5, <1>6, <1>7, PebbleWriters DEF TypeOK

(* The stripes of both lock tables are held by goroutines.                 *)
LEMMA TypeOfLocks ==
    ASSUME TypeOK, NEW c \in Client, Step(c)
    PROVE  /\ writer' \in [DBStripes -> Client \cup {NoClient}]
           /\ readers' \in [DBStripes -> SUBSET Client]
           /\ docMu' \in [DocStripes -> Client \cup {NoClient}]
<1>1. CASE RLock(c)
  BY ZenonT(30), <1>1 DEF RLock, TypeOK
<1>2. CASE WLock(c)
  BY Zenon, <1>2 DEF WLock, TypeOK
<1>3. CASE LockDoc(c)
  <2>1. /\ UNCHANGED <<writer, readers>>
        /\ \E s : docMu' = [docMu EXCEPT ![s] = c]
    BY <1>3, Zenon DEF LockDoc
  <2> QED
    BY Zenon, <2>1 DEF TypeOK
<1>4. CASE UnlockDocs(c)
  BY Zenon, <1>4 DEF UnlockDocs, TypeOK
<1>5. CASE UnlockDB(c)
  BY Zenon, <1>5 DEF UnlockDB, TypeOK
<1>6. CASE UNCHANGED locks
  BY Zenon, <1>6 DEF locks, TypeOK
<1> QED
  BY ZenonT(30), <1>1, <1>2, <1>3, <1>4, <1>5, <1>6
     DEF Step, Local, locks, Begin, MakeID, WWait, CheckDB, ReadKey, HasDoc, ReadDoc, ReadDefs,
         listDBs, listDocs, queryDocs, exportDocs, createDB, deleteDB, InsertDocs, UpdateDoc,
         deleteDoc, Fail

(* A goroutine is at a step of the store and has the request it serves.    *)
LEMMA TypeOfControl ==
    ASSUME Inv, NEW c \in Client, Step(c)
    PROVE  /\ pc' \in [Client -> Steps]
           /\ req' \in [Client -> Requests \cup {NoReq}]
           /\ pc'[c] # "idle" => req'[c] \in Requests
<1>0. TypeOK /\ Flow(c)
  BY Zenon DEF Inv
<1>1. CASE Begin(c)
  BY <1>0, <1>1 DEF Begin, FirstStep, Goto, TypeOK, Steps
<1>2. CASE UnlockDB(c)
  BY Zenon, <1>0, <1>2 DEF UnlockDB, Goto, TypeOK, Steps
<1>3. CASE ~Begin(c) /\ ~UnlockDB(c)
  <2>1. req' = req /\ pc[c] # "idle"
    BY ZenonT(30), <1>3 DEF Step, Local, MakeID, RLock, WLock, WWait, LockDoc,
       UnlockDocs, CheckDB, ReadKey,
                HasDoc, ReadDoc, ReadDefs, listDBs, listDocs, queryDocs, exportDocs, createDB,
                deleteDB, InsertDocs, UpdateDoc, deleteDoc, Fail
  <2>2. pc' = pc \/ \E s \in Steps : pc' = [pc EXCEPT ![c] = s]
    <3> USE DEF Goto, Steps
    <3>1. CASE MakeID(c) \/ RLock(c) \/ WLock(c) \/ WWait(c)
      BY Zenon, <3>1 DEF MakeID, RLock, WLock, WWait, AfterRLock
    <3>2. CASE LockDoc(c) \/ UnlockDocs(c)
      BY Zenon, <3>2 DEF LockDoc, UnlockDocs, AfterLocks
    <3>3. CASE CheckDB(c) \/ ReadKey(c)
      BY Zenon, <3>3 DEF CheckDB, ReadKey, Respond, AfterKey
    <3>4. CASE HasDoc(c)
      BY Zenon, <3>4 DEF HasDoc, Respond
    <3>5. CASE ReadDefs(c)
      BY Zenon, <3>5 DEF ReadDefs, Respond, AfterDefs
    <3>6. CASE ReadDoc(c)
      BY Zenon, <3>6 DEF ReadDoc, Respond
    <3>7. CASE Returns(c)
      BY Zenon, <1>0, <3>7, ReturnsAnswer, ReturnEffect
    <3> QED
      BY Zenon, <1>3, <3>1, <3>2, <3>3, <3>4, <3>5, <3>6, <3>7 DEF Step, Local, Returns
  <2> QED
    BY Zenon, <1>0, <2>1, <2>2 DEF TypeOK
<1> QED
  BY Zenon, <1>1, <1>2, <1>3

(* Setting one local of an operation leaves the others.                    *)
LEMMA LocalFields ==
    ASSUME NEW l \in Locals
    PROVE  /\ \A x \in SUBSET DocStripes : [l EXCEPT !.want = x] \in Locals
           /\ \A x \in Key \cup {NoKey} : [l EXCEPT !.key = x] \in Locals
           /\ \A x \in Sealed \cup {NoDoc} : [l EXCEPT !.cur = x] \in Locals
           /\ \A x \in Schema : [l EXCEPT !.defs = x] \in Locals
           /\ \A x \in Seq(Id), y \in SUBSET DocStripes :
                [l EXCEPT !.ids = x, !.want = y] \in Locals
BY Zenon DEF Locals

(* The locals of an operation have their types.                            *)
LEMMA TypeOfLocals ==
    ASSUME Inv, NEW c \in Client, Step(c)
    PROVE  loc' \in [Client -> Locals]
<1>0. TypeOK /\ Flow(c) /\ loc \in [Client -> Locals]
  BY Zenon DEF Inv, TypeOK
<1> DEFINE l == loc[c]
           Sets(x) == loc' = [loc EXCEPT ![c] = x]
<1>s. ASSUME NEW x \in Locals, Sets(x)
      PROVE  loc' \in [Client -> Locals]
  BY Zenon, <1>0, <1>s
<1>1. CASE Begin(c)
  <2>1. PICK r \in Requests : Sets([l EXCEPT !.want =
                      IF r.op \in Updates THEN {DocStripe[r.db][r.id]} ELSE {}])
    BY Zenon, <1>1 DEF Begin
  <2>2. r.op \in Updates => DocStripe[r.db][r.id] \in DocStripes
    BY <2>1, RequestFacts DEF DocStripes
  <2> QED
    BY ZenonT(30), <1>0, <1>s, <2>1, <2>2, LocalFields DEF TypeOK
<1>2. CASE MakeID(c)
  <2>1. PICK ids \in Injection(DOMAIN req[c].docs, Id) :
          Sets([l EXCEPT !.ids = ids,
                         !.want = {DocStripe[req[c].db][ids[k]] : k \in DOMAIN ids}])
    BY Zenon, <1>2 DEF MakeID
  <2>2. req[c].db \in DB /\ req[c].docs \in Seq(Json)
    BY Zenon, <1>0, <1>2, RequestFacts DEF MakeID, TypeOK, Flow
  <2>3. ids \in [DOMAIN req[c].docs -> Id]
    BY Zenon, <2>1 DEF Injection
  <2>4. ids \in Seq(Id)
    BY <2>2, <2>3
  <2>5. {DocStripe[req[c].db][ids[k]] : k \in DOMAIN ids} \subseteq DocStripes
    BY <2>2, <2>3 DEF DocStripes
  <2> QED
    BY Zenon, <1>0, <1>s, <2>1, <2>4, <2>5, LocalFields
<1>3. CASE LockDoc(c)
  <2>1. \E s : Sets([l EXCEPT !.want = @ \ {s}])
    BY Zenon, <1>3 DEF LockDoc
  <2>2. l \in Locals /\ l.want \in SUBSET DocStripes
    BY Zenon, <1>0 DEF Locals
  <2> QED
    BY Zenon, <1>s, <2>1, <2>2, LocalFields
<1>4. CASE UnlockDB(c)
  <2>1. Fresh \in Locals
    BY SMTT(30) DEF Fresh, Locals, NoIndexes, Schema
  <2> QED
    BY Zenon, <1>0, <1>4, <2>1 DEF TypeOK, UnlockDB
<1>5. CASE ReadKey(c)
  <2>1. loc' = loc \/ Sets([l EXCEPT !.key = dbRec[req[c].db]])
    BY Zenon, <1>5 DEF ReadKey
  <2>2. req[c].db \in DB
    BY Zenon, <1>0, <1>5, RequestFacts DEF ReadKey, TypeOK, Flow
  <2> QED
    BY Zenon, <1>0, <1>s, <2>1, <2>2, LocalFields DEF TypeOK
<1>6. CASE ReadDoc(c)
  <2>1. loc' = loc \/ Sets([l EXCEPT !.cur = docRec[req[c].db][req[c].id]])
    BY Zenon, <1>6 DEF ReadDoc
  <2>2. req[c].db \in DB /\ req[c].id \in Id
    BY Zenon, <1>0, <1>6, RequestFacts DEF ReadDoc, TypeOK, Flow
  <2>3. docRec[req[c].db][req[c].id] \in Sealed \cup {NoDoc}
    BY <1>0, <2>2 DEF TypeOK
  <2> QED
    BY Zenon, <1>0, <1>s, <2>1, <2>3, LocalFields
<1>7. CASE ReadDefs(c)
  <2>1. loc' = loc \/ Sets([l EXCEPT !.defs = idxDef[req[c].db]])
    BY Zenon, <1>7 DEF ReadDefs
  <2>2. req[c].db \in DB
    BY Zenon, <1>0, <1>7, RequestFacts DEF ReadDefs, TypeOK, Flow
  <2> QED
    BY Zenon, <1>0, <1>s, <2>1, <2>2, LocalFields DEF TypeOK
<1>8. CASE loc' = loc
  BY Zenon, <1>0, <1>8 DEF TypeOK
<1> QED
  BY Zenon, <1>1, <1>2, <1>3, <1>4, <1>5, <1>6, <1>7, <1>8
     DEF Step, Local, RLock, WLock, WWait, UnlockDocs, CheckDB, HasDoc, listDBs, listDocs,
         queryDocs, exportDocs, createDB, deleteDB, InsertDocs, UpdateDoc, deleteDoc, Fail

-----------------------------------------------------------------------------
(* A step of one goroutine.                                                *)
LEMMA StepKeepsInv ==
    ASSUME Inv, NEW c \in Client, Step(c)
    PROVE  Inv'
<1>0. TypeOK
  BY Zenon DEF Inv
<1>1. ASSUME NEW e \in Client
      PROVE  Flow(e)' /\ LocksHeld(e)' /\ ReadsHold(e)'
  <2>1. CASE e = c
    BY Zenon, <2>1, ControlFlow, LocksOfSelf, ReadsOfSelf
  <2>2. CASE e # c
    <3>1. Flow(e)'
      BY SMTT(30), <1>0, <2>2, OthersUnchanged DEF Inv, Flow
    <3> QED
      BY Zenon, <2>2, <3>1, LocksOfOthers, ReadsOfOthers
  <2> QED
    BY Zenon, <2>1, <2>2
<1>2. ASSUME NEW e \in Client
      PROVE  /\ res'[e].err \in Errors \ {"errCorruptData"}
             /\ pc'[e] # "idle" => req'[e] \in Requests
  <2>1. CASE e = c
    BY Zenon, <2>1, ResultStep, TypeOfControl
  <2>2. CASE e # c
    BY Zenon, <1>0, <2>2, OthersUnchanged DEF Inv, TypeOK, NeverCorrupt
  <2> QED
    BY Zenon, <2>1, <2>2
<1>3. TypeOK'
  BY Zenon, <1>0, <1>2, TypeOfPebble, TypeOfLocks, TypeOfControl, TypeOfLocals,
     ResultStep DEF TypeOK
<1>4. NeverCorrupt'
  BY Zenon, <1>2 DEF NeverCorrupt
<1>5. Data'
  BY Zenon, DataStep
<1> QED
  BY Zenon, <1>1, <1>3, <1>4, <1>5 DEF Inv

(* With every goroutine idle and every mutex free, nothing is promised of  *)
(* them; this is so at the start and after a crash.                        *)
LEMMA IdleIsSafe ==
    ASSUME pc = [c \in Client |-> "idle"], req = [c \in Client |-> NoReq],
           loc = [c \in Client |-> Fresh], res = [c \in Client |-> NoRes]
    PROVE  /\ NeverCorrupt
           /\ \A c \in Client : Flow(c) /\ LocksHeld(c) /\ ReadsHold(c)
<1>1. NeverCorrupt
  BY Zenon DEF NeverCorrupt
<1>2. ASSUME NEW c \in Client
      PROVE  Flow(c) /\ LocksHeld(c) /\ ReadsHold(c)
  BY Zenon DEF Flow, LocksHeld, ReadsHold, Shared, Claimed, Exclusive, Locking,
         HasKey, HasDefs, HasCurrent, HasIDs, HasFree
<1> QED
  BY Zenon, <1>1, <1>2

(* An empty store, with no goroutine at work.                              *)
LEMMA InitInv == Init => Inv
<1> SUFFICES ASSUME Init PROVE Inv
  BY Zenon
<1>1. NoIndexes \in Schema /\ NoEntries \in [IndexName -> [Value -> SUBSET Id]]
  BY Zenon DEF NoIndexes, Schema, NoEntries
<1>2. Fresh \in Locals
  BY SMTT(30), <1>1 DEF Fresh, Locals
<1>3. TypeOK
  BY Zenon, <1>1, <1>2 DEF Init, TypeOK, Steps, Errors
<1>4. Data
  BY Zenon, EmptyIsGood, DataIsGood DEF Init
<1> QED
  BY Zenon, <1>3, <1>4, IdleIsSafe DEF Init, Inv

(* After a crash the batches that were committed are in good order by      *)
(* themselves, and no goroutine is left that could hold a lock or a stale  *)
(* read.                                                                   *)
LEMMA CrashKeepsInv == Inv /\ Crash => Inv'
<1> SUFFICES ASSUME Inv, Crash PROVE Inv'
  BY Zenon
<1>1. Fresh \in Locals
  BY SMTT(30) DEF Fresh, Locals, NoIndexes, Schema
<1>2. TypeOK'
  BY Zenon, <1>1 DEF Inv, Crash, TypeOK, Steps, Errors, pebble
<1>3. Data'
  BY Zenon, DataIsGood DEF Inv, Crash, pebble
<1>4. NeverCorrupt'
  BY Zenon DEF Crash, NeverCorrupt
<1>5. ASSUME NEW c \in Client
      PROVE  Flow(c)' /\ LocksHeld(c)' /\ ReadsHold(c)'
  <2>1. pc'[c] = "idle" /\ req'[c] = NoReq
    BY Zenon DEF Crash
  <2> QED
    BY Zenon, <2>1 DEF Flow, LocksHeld, ReadsHold, Shared, Claimed, Exclusive, Locking,
                HasKey, HasDefs, HasCurrent, HasIDs, HasFree
<1> QED
  BY Zenon, <1>2, <1>3, <1>4, <1>5 DEF Inv

(* A stuttering step.                                                      *)
LEMMA StutterKeepsInv == Inv /\ UNCHANGED vars => Inv'
<1> SUFFICES ASSUME Inv, UNCHANGED vars PROVE Inv'
  BY Zenon
<1> USE DEF vars, pebble, locks
<1>1. TypeOK' /\ NeverCorrupt'
  BY Zenon DEF Inv, TypeOK, NeverCorrupt
<1>2. Data'
  BY Zenon, DataIsGood DEF Inv
<1>3. ASSUME NEW c \in Client
      PROVE  Flow(c)' /\ LocksHeld(c)' /\ ReadsHold(c)'
  <2>1. Flow(c) /\ LocksHeld(c) /\ ReadsHold(c)
    BY Zenon DEF Inv
  <2>2. Flow(c)'
    BY Zenon, <2>1 DEF Flow
  <2>3. LocksHeld(c)'
    BY ZenonT(30), <2>1 DEF LocksHeld, Shared, Claimed, Exclusive, Locking, Targets,
       Stripe
  <2>4. ReadsHold(c)'
    BY Zenon, <2>1 DEF ReadsHold, Locking, Targets, HasKey, HasDefs, HasCurrent, HasIDs,
       HasFree
  <2> QED
    BY Zenon, <2>2, <2>3, <2>4
<1> QED
  BY Zenon, <1>1, <1>2, <1>3 DEF Inv

-----------------------------------------------------------------------------
(* The store's locks are enough, for any number of goroutines, databases,  *)
(* documents and stripes and any requests: in every reachable state, and   *)
(* after every crash, what a goroutine has read under its locks still      *)
(* holds, and Inv with it.                                                 *)
THEOREM StoreInvariant == Spec => []Inv
<1>1. Inv /\ [Next]_vars => Inv'
  BY Zenon, CrashKeepsInv, StepKeepsInv, StutterKeepsInv DEF Next
<1> QED
  BY InitInv, <1>1, PTL DEF Spec

(* Type correctness of the store's records, locks and goroutines.          *)
THEOREM TypeCorrect == Spec => []TypeOK
BY StoreInvariant, PTL DEF Inv

(* setIndexEntries, changeIndexEntries, deleteIndexEntries and deleteDB    *)
(* leave each index with exactly the entries its documents call for.       *)
THEOREM IndexesAgree == Spec => []IndexConsistent
BY StoreInvariant, PTL DEF Inv, Data

(* createDB and deleteDB, racing with every other operation, leave no      *)
(* record of one incarnation of a database to the next.                    *)
THEOREM RecordsOwned == Spec => []DatabaseOwnsRecords
BY StoreInvariant, PTL DEF Inv, Data

(* No operation returns errCorruptData because another one ran beside it.  *)
THEOREM NothingCorrupt == Spec => []NeverCorrupt
BY StoreInvariant, PTL DEF Inv

-----------------------------------------------------------------------------
(* The batch of an update is made from the stored document.                *)
LEMMA UpdateCommits ==
    ASSUME Inv, NEW c \in Client, UpdateDoc(c) \/ deleteDoc(c), docRec' # docRec
    PROVE  CommitsOn(c, docRec[req[c].db][req[c].id], docRec'[req[c].db][req[c].id])
<1> DEFINE r == req[c]
           cur == docRec[r.db][r.id]
<1>1. pc[c] = "commit" /\ r.op \in Updates /\ TypeOK
  BY Zenon, DocWrites DEF Inv, UpdateDoc, deleteDoc
<1>2. r.db \in DB /\ r.id \in Id
  BY <1>1, UpdateReads, Zenon
<1>3. loc[c].cur = cur /\ cur # NoDoc /\ matchRevision(r.match, cur.rev)
  BY <1>1, UpdateReads, Zenon
<1>4. CASE deleteDoc(c)
  <2>1. docRec' = [docRec EXCEPT ![r.db][r.id] = NoDoc] /\ r.op = "deleteDoc"
    BY <1>4, Zenon DEF deleteDoc
  <2>2. docRec'[r.db][r.id] = NoDoc
    BY Zenon, <1>1, <1>2, <2>1 DEF TypeOK
  <2> QED
    BY Zenon, <1>3, <2>1, <2>2 DEF CommitsOn
<1>5. CASE UpdateDoc(c)
  <2>1. /\ r.op # "deleteDoc"
        /\ \E rev \in makeRevision({loc[c].cur.rev}) : docRec' = [docRec EXCEPT ![r.db][r.id] =
             [json |-> Updated(r, loc[c].cur), rev |-> rev, key |-> loc[c].key]]
    BY <1>5, Zenon DEF UpdateDoc
  <2>2. PICK rev \in makeRevision({loc[c].cur.rev}) : docRec' = [docRec EXCEPT ![r.db][r.id] =
             [json |-> Updated(r, loc[c].cur), rev |-> rev, key |-> loc[c].key]]
    BY <2>1, Zenon
  <2>3. docRec'[r.db][r.id] = [json |-> Updated(r, loc[c].cur), rev |-> rev, key |-> loc[c].key]
    BY Zenon, <1>1, <1>2, <2>2 DEF TypeOK
  <2>4. rev # cur.rev
    BY ZenonT(30), <1>3, <2>2 DEF makeRevision
  <2>5. docRec'[r.db][r.id] = [json |-> Updated(r, cur), rev |-> rev, key |-> loc[c].key]
    BY Zenon, <1>3, <2>3
  <2>6. docRec'[r.db][r.id].json = Updated(r, cur) /\ docRec'[r.db][r.id].rev = rev
    BY SMTT(30), <2>5
  <2> QED
    BY <1>3, <2>1, <2>4, <2>6, Zenon DEF CommitsOn
<1> QED
  BY Zenon, <1>4, <1>5

(* replaceDoc, patchDoc and deleteDoc never overwrite a change they have   *)
(* not seen: each commits on the revision its If-Match test accepted, from *)
(* the document stored at that moment.                                     *)
THEOREM UpdatesNotLost == Spec => NoLostUpdate
<1> DEFINE Safe(c) ==
      pc[c] = "commit" /\ pc'[c] # "commit" /\ req[c].op \in Updates /\ docRec' # docRec
        => CommitsOn(c, docRec[req[c].db][req[c].id], docRec'[req[c].db][req[c].id])
<1>1. ASSUME Inv, Next, NEW c \in Client
      PROVE  Safe(c)
  <2>1. CASE Crash
    BY Zenon, <2>1 DEF Crash, pebble
  <2>2. ASSUME NEW e \in Client, Step(e)
        PROVE  Safe(c)
    <3>1. CASE e # c
      BY Zenon, <1>1, <2>2, <3>1, OthersUnchanged DEF Inv
    <3>2. CASE e = c
      <4>1. InsertDocs(c) => req[c].op \notin Updates
        BY Zenon DEF InsertDocs
      <4>2. createDB(c) \/ deleteDB(c) => req[c].op \notin Updates
        BY Zenon DEF createDB, deleteDB
      <4> QED
        BY Zenon, <1>1, <2>2, <3>2, <4>1, <4>2, PebbleWriters, UpdateCommits DEF pebble
    <3> QED
      BY Zenon, <3>1, <3>2
  <2> QED
    BY Zenon, <1>1, <2>1, <2>2 DEF Next
<1>2. Inv /\ [Next]_vars => [\A c \in Client : Safe(c)]_vars
  BY Zenon, <1>1
<1> QED
  BY StoreInvariant, <1>2, PTL DEF Spec, NoLostUpdate

=============================================================================
