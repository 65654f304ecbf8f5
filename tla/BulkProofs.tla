----------------------------- MODULE BulkProofs ------------------------------
(***************************************************************************)
(* Proofs about Bulk, for any finite set of handlers, any number of slots, *)
(* any buffer and any number of documents.                                 *)
(***************************************************************************)
EXTENDS Bulk, FiniteSetTheorems, TLAPS

Places == {"idle", "begin", "ending", "ended"} \cup Holding

(* The types of what admission depends on.                                 *)
Types ==
    /\ pc \in [Handler -> Places]
    /\ req \in [Handler -> Requests \cup {None}]
    /\ answer \in [Handler -> Codes \cup {None}]
    /\ \A c \in Handler : /\ pc[c] # "idle" => req[c] \in Requests
                          /\ pc[c] = "read" => req[c].method = "POST"

(* Only a request that got no slot is told so.                             *)
Told == \A c \in Handler : answer[c] = "bulk_limit" => pc[c] \in {"ending", "ended"}

SlotInv == Types /\ Told /\ slots \in 0..Concurrency /\ SlotsHeld

USE BulkAssumption

(* What is wrong with a request is a code to answer it with, and neither   *)
(* 200 nor 429.                                                            *)
LEMMA RequestFields ==
    ASSUME NEW r \in Requests
    PROVE  /\ r.method \in {"GET", "POST"}
           /\ r.head = "good" \/ r.head \in Codes \ {"bulk_limit", "ok"}
           /\ r.method = "POST" => r.body \in {"documents", "unreadable"}
                                   \/ r.body \in Codes \ {"bulk_limit", "ok"}
BY Zenon DEF bulkRequest, Codes

(* There are finitely many holders of a slot.                              *)
LEMMA HoldersFinite == IsFiniteSet(Holders) /\ Cardinality(Holders) \in Nat
BY Zenon, FS_Subset, FS_CardinalityType DEF Holders

-----------------------------------------------------------------------------
(* How the step of one handler moves the set of those that hold a slot.    *)
LEMMA HoldersStep ==
    ASSUME Types, NEW c \in Handler, NEW p \in Places, pc' = [pc EXCEPT ![c] = p]
    PROVE  /\ pc[c] \in Holding /\ p \in Holding => Holders' = Holders
           /\ pc[c] \notin Holding /\ p \notin Holding => Holders' = Holders
           /\ pc[c] \notin Holding /\ p \in Holding =>
                 /\ Holders' = Holders \cup {c} /\ c \notin Holders
                 /\ Cardinality(Holders') = Cardinality(Holders) + 1
           /\ pc[c] \in Holding /\ p \notin Holding =>
                 /\ Holders' = Holders \ {c} /\ c \in Holders
                 /\ Cardinality(Holders') = Cardinality(Holders) - 1
<1>1. \A d \in Handler : pc'[d] = IF d = c THEN p ELSE pc[d]
  BY Zenon DEF Types
<1>2. CASE pc[c] \in Holding <=> p \in Holding
  BY Zenon, <1>1, <1>2 DEF Holders
<1>3. CASE pc[c] \notin Holding /\ p \in Holding
  <2>1. Holders' = Holders \cup {c} /\ c \notin Holders
    BY Zenon, <1>1, <1>3 DEF Holders
  <2> QED
    BY Zenon, <1>3, <2>1, HoldersFinite, FS_AddElement
<1>4. CASE pc[c] \in Holding /\ p \notin Holding
  <2>1. Holders' = Holders \ {c} /\ c \in Holders
    BY Zenon, <1>1, <1>4 DEF Holders
  <2> QED
    BY Zenon, <1>4, <2>1, HoldersFinite, FS_RemoveElement
<1> QED
  BY Zenon, <1>2, <1>3, <1>4

-----------------------------------------------------------------------------
(* The step of one handler: where it goes, and what is answered.  A slot   *)
(* is taken on the way into Holding, given back on the way out, and 429 is *)
(* answered only to a request that found none.                             *)
Step(c, p, a) ==
    /\ pc' = [pc EXCEPT ![c] = p] /\ answer' = [answer EXCEPT ![c] = a]
    /\ \/ req' = req /\ (p = "idle" <=> pc[c] = "idle")
       \/ p = "begin" /\ \E r \in Requests : req' = [req EXCEPT ![c] = r]
       \/ p = "idle" /\ req' = [req EXCEPT ![c] = None]
    /\ \/ (pc[c] \in Holding <=> p \in Holding) /\ slots' = slots
       \/ pc[c] \notin Holding /\ p \in Holding /\ takeBulkSlot
       \/ pc[c] \in Holding /\ p \notin Holding /\ freeBulkSlot
    /\ p = "read" /\ pc[c] # "read" => req[c].method = "POST"
    /\ a = "bulk_limit" => p \in {"ending", "ended"}
    /\ a = "bulk_limit" /\ answer[c] # "bulk_limit" => pc[c] \notin Holding /\ ~slotFree
    /\ pc[c] \notin Holding /\ p \in Holding => a # "bulk_limit" /\ answer[c] # "bulk_limit"
    /\ pc[c] \in Holding /\ p \notin Holding => a # "bulk_limit" /\ answer[c] # "bulk_limit"

(* Every step of a handler, of its client and of its clock is of that      *)
(* form.                                                                   *)
LEMMA StepTaken ==
    ASSUME SlotInv, NEW c \in Handler, Handle(c) \/ Client(c) \/ Expire(c)
    PROVE  \E p \in Places, a \in Codes \cup {None} : Step(c, p, a)
<1> USE DEF SlotInv
<1>0. /\ pc[c] \in Places /\ answer[c] \in Codes \cup {None}
      /\ pc = [pc EXCEPT ![c] = pc[c]] /\ answer = [answer EXCEPT ![c] = answer[c]]
      /\ pc[c] # "idle" => req[c] \in Requests
      /\ answer[c] = "bulk_limit" => pc[c] \in {"ending", "ended"}
  <2>1. pc \in [Handler -> Places] /\ answer \in [Handler -> Codes \cup {None}]
    BY Zenon DEF Types
  <2>2. pc = [pc EXCEPT ![c] = pc[c]]
    BY Zenon, <2>1
  <2>3. answer = [answer EXCEPT ![c] = answer[c]]
    BY Zenon, <2>1
  <2>4. pc[c] # "idle" => req[c] \in Requests
    BY Zenon DEF Types
  <2>5. answer[c] = "bulk_limit" => pc[c] \in {"ending", "ended"}
    BY Zenon DEF Told
  <2> QED
    BY Zenon, <2>1, <2>2, <2>3, <2>4, <2>5
<1>1. CASE Begin(c)
  <2>1. req[c].head = "good" \/ req[c].head \in Codes \ {"bulk_limit", "ok"}
    BY Zenon, <1>0, <1>1, RequestFields DEF Begin
  <2>2. CASE req[c].head # "good"
    <3>1. Step(c, "ending", req[c].head)
      BY Zenon, <1>0, <1>1, <2>1, <2>2 DEF Begin, Step, Goto, Answer, Holding, Locked
    <3> QED
      BY Zenon, <2>1, <2>2, <3>1 DEF Places
  <2>3. CASE req[c].head = "good" /\ slotFree
    <3>1. Step(c, "deadline", answer[c])
      BY Zenon, <1>0, <1>1, <2>3 DEF Begin, Step, Goto, Answer, Holding, Locked
    <3> QED
      BY Zenon, <1>0, <3>1 DEF Places, Holding
  <2>4. CASE req[c].head = "good" /\ ~slotFree
    <3>1. Step(c, "ending", "bulk_limit")
      BY Zenon, <1>0, <1>1, <2>4 DEF Begin, takeBulkSlot, Step, Goto, Answer, Holding,
         Locked
    <3> QED
      BY Zenon, <3>1 DEF Places, Codes
  <2> QED
    BY Zenon, <2>2, <2>3, <2>4
<1>2. CASE SetDeadline(c)
  <2>1. \/ Step(c, "read", answer[c]) \/ Step(c, "lock", answer[c])
        \/ Step(c, "ending", "internal_error")
    BY Zenon, <1>0, <1>2 DEF SetDeadline, Step, Goto, Answer, Holding, Locked
  <2> QED
    BY Zenon, <1>0, <2>1 DEF Places, Holding, Codes
<1>3. CASE databaseKey(c)
  <2>1. \/ \E e \in {"database_not_found", "corrupt_data", "service_unavailable"} : Step(c, "done", e)
        \/ Step(c, "check", answer[c]) \/ Step(c, "next", answer[c])
    BY Zenon, <1>0, <1>3 DEF databaseKey, Step, Fail, Goto, Answer, Holding, Locked
  <2> QED
    BY Zenon, <1>0, <2>1 DEF Places, Holding, Locked, Codes
<1>4. CASE exportDocs(c)
  <2>1. \/ \E e \in {"bulk_timeout", "corrupt_data", "service_unavailable"} : Step(c, "done", e)
        \/ Step(c, "done", answer[c]) \/ Step(c, "closing", answer[c])
        \/ Step(c, "next", "ok") \/ Step(c, "flush", "ok")
    BY Zenon, <1>0, <1>4 DEF exportDocs, failExport, Step, Goto, Answer, Holding, Locked
  <2> QED
    BY Zenon, <1>0, <2>1 DEF Places, Holding, Locked, Codes
<1>5. CASE flush(c) \/ flushError(c)
  <2>1. Step(c, "next", answer[c]) \/ Step(c, "done", answer[c])
    BY Zenon, <1>0, <1>5 DEF flush, flushError, Step, Goto, Holding, Locked
  <2> QED
    BY Zenon, <1>0, <2>1 DEF Places, Holding, Locked
<1>6. CASE exportBulk(c)
  <2>1. \/ Step(c, "done", "service_unavailable") \/ Step(c, "done", "ok")
        \/ Step(c, "done", answer[c]) \/ Step(c, "final", answer[c])
    BY Zenon, <1>0, <1>6 DEF exportBulk, failExport, Fail, Step, Goto, Answer, Holding,
       Locked
  <2> QED
    BY Zenon, <1>0, <2>1 DEF Places, Holding, Codes
<1>7. CASE readBulkCtx(c)
  <2>1. \/ req[c].body \in {"documents", "unreadable"}
        \/ req[c].body \in Codes \ {"bulk_limit", "ok"}
    BY Zenon, <1>0, <1>7, RequestFields DEF readBulkCtx, Types
  <2>2. \/ Step(c, "lock", answer[c]) \/ Step(c, "done", "invalid_document")
        \/ req[c].body \notin {"documents", "unreadable"} /\ Step(c, "done", req[c].body)
    BY Zenon, <1>0, <1>7, <2>1 DEF readBulkCtx, Fail, Step, Goto, Answer, Holding, Locked
  <2> QED
    BY Zenon, <1>0, <2>1, <2>2 DEF Places, Holding, Codes
<1>8. CASE readError(c) \/ QueueDocs(c) \/ importDocs(c)
  <2>1. \/ \E e \in {"ok", "bulk_timeout", "invalid_document", "content_too_large",
                     "corrupt_data", "service_unavailable"} : Step(c, "done", e)
        \/ Step(c, "commit", answer[c])
    BY Zenon, <1>0, <1>8 DEF readError, QueueDocs, importDocs, Fail, Step, Goto, Answer,
       Holding, Locked
  <2> QED
    BY Zenon, <1>0, <2>1 DEF Places, Holding, Locked, Codes
<1>9. CASE done(c) \/ Finish(c) \/ RLock(c)
  <2>1. Step(c, "ending", answer[c]) \/ Step(c, "ended", answer[c]) \/ Step(c, "key", answer[c])
    BY Zenon, <1>0, <1>9 DEF done, Finish, RLock, Step, Goto, Holding, Locked, local
  <2> QED
    BY Zenon, <1>0, <2>1 DEF Places, Holding, Locked
<1>10. CASE Request(c)
  <2>1. Step(c, "begin", answer[c])
    BY Zenon, <1>0, <1>10 DEF Request, Step, Goto, Holding, Locked
  <2> QED
    BY Zenon, <1>0, <2>1 DEF Places
<1>11. CASE Collect(c)
  <2>1. Step(c, "idle", None)
    BY Zenon, <1>0, <1>11 DEF Collect, Step, Goto, Holding, Locked, Codes
  <2> QED
    BY Zenon, <2>1 DEF Places
<1>12. CASE Disconnect(c) \/ Expire(c)
  <2>1. Step(c, pc[c], answer[c])
    BY Zenon, <1>0, <1>12 DEF Disconnect, Expire, Step
  <2> QED
    BY Zenon, <1>0, <2>1
<1> QED
  BY Zenon, <1>1, <1>2, <1>3, <1>4, <1>5, <1>6, <1>7, <1>8, <1>9, <1>10, <1>11, <1>12
     DEF Handle, Proceed, Client

(* Such a step keeps the types and who is told of the limit,               *)
LEMMA StepTypes ==
    ASSUME Types, Told, NEW c \in Handler, NEW p \in Places, NEW a \in Codes \cup {None}, Step(c, p, a)
    PROVE  Types' /\ Told'
<1>1. /\ pc' = [pc EXCEPT ![c] = p] /\ pc' \in [Handler -> Places]
      /\ answer' = [answer EXCEPT ![c] = a] /\ answer' \in [Handler -> Codes \cup {None}]
  BY Zenon DEF Types, Step
<1>2. req' \in [Handler -> Requests \cup {None}]
  BY Zenon DEF Types, Step
<1>3. ASSUME NEW d \in Handler
      PROVE  /\ pc'[d] # "idle" => req'[d] \in Requests
             /\ pc'[d] = "read" => req'[d].method = "POST"
  <2>1. CASE d # c
    BY Zenon, <1>1, <2>1 DEF Types, Step
  <2>2. CASE d = c
    BY Zenon, <1>1, <2>2 DEF Types, Step
  <2> QED
    BY Zenon, <2>1, <2>2
<1>4. Told'
  BY Zenon, <1>1 DEF Types, Told, Step
<1> QED
  BY Zenon, <1>1, <1>2, <1>3, <1>4 DEF Types

(* and the number of tokens,                                               *)
LEMMA StepSlots ==
    ASSUME SlotInv, NEW c \in Handler, NEW p \in Places, NEW a \in Codes \cup {None}, Step(c, p, a)
    PROVE  slots' \in 0..Concurrency /\ SlotsHeld'
<1>1. pc' = [pc EXCEPT ![c] = p] /\ Types /\ slots \in 0..Concurrency
  BY Zenon DEF Step, SlotInv
<1>2. slots = Cardinality(Holders)
  BY Zenon DEF SlotInv, SlotsHeld
<1>3. CASE (pc[c] \in Holding <=> p \in Holding) /\ slots' = slots
  BY Zenon, <1>1, <1>2, <1>3, HoldersStep DEF SlotsHeld
<1>4. CASE pc[c] \notin Holding /\ p \in Holding /\ takeBulkSlot
  <2>1. Cardinality(Holders') = Cardinality(Holders) + 1
    BY Zenon, <1>1, <1>4, HoldersStep
  <2> QED
    BY <1>1, <1>2, <1>4, <2>1 DEF SlotsHeld, takeBulkSlot, slotFree
<1>5. CASE pc[c] \in Holding /\ p \notin Holding /\ freeBulkSlot
  <2>1. Cardinality(Holders') = Cardinality(Holders) - 1
    BY Zenon, <1>1, <1>5, HoldersStep
  <2> QED
    BY <1>1, <1>2, <1>5, <2>1 DEF SlotsHeld, freeBulkSlot
<1> QED
  BY Zenon, <1>3, <1>4, <1>5 DEF Step

(* Slots counts the holders in its own copy of the standard module.        *)
LEMMA SameCardinality ==
    ASSUME NEW S
    PROVE  Abstract!Cardinality(S) = Cardinality(S)
BY Zenon DEF Abstract!Cardinality, Cardinality

(* What a step does to those who hold a slot and those who were told that  *)
(* there is none is a step of the semaphore, or nothing.                   *)
LEMMA StepRefines ==
    ASSUME SlotInv, NEW c \in Handler, NEW p \in Places, NEW a \in Codes \cup {None}, Step(c, p, a)
    PROVE  Abstract!Next \/ UNCHANGED Abstract!vars
<1> USE DEF SlotInv
<1>1. /\ \A d \in Handler \ {c} : pc'[d] = pc[d] /\ answer'[d] = answer[d]
      /\ pc'[c] = p /\ answer'[c] = a
  BY Zenon DEF Step, Types
<1>2. CASE pc[c] \notin Holding /\ p \in Holding
  <2>1. Holders' = Holders \cup {c} /\ c \notin Holders
    BY Zenon, <1>2, HoldersStep DEF Step
  <2>2. Cardinality(Holders) < Concurrency
    BY Zenon, <1>2, HoldersStep DEF Step, SlotsHeld, takeBulkSlot, slotFree
  <2>3. Limited' = Limited
    BY Zenon, <1>1, <1>2 DEF Limited, Step
  <2>4. Abstract!Take(c)
    BY Zenon, <2>1, <2>2, <2>3, SameCardinality DEF Abstract!Take
  <2> QED
    BY Zenon, <2>4 DEF Abstract!Next
<1>3. CASE pc[c] \in Holding /\ p \notin Holding
  <2>1. Holders' = Holders \ {c} /\ c \in Holders
    BY Zenon, <1>3, HoldersStep DEF Step
  <2>2. Limited' = Limited
    BY Zenon, <1>1, <1>3 DEF Limited, Step
  <2> QED
    BY Zenon, <2>1, <2>2 DEF Abstract!Next, Abstract!Free
<1>4. CASE pc[c] \in Holding <=> p \in Holding
  <2>1. Holders' = Holders
    BY Zenon, <1>4, HoldersStep DEF Step
  <2>2. CASE a = "bulk_limit" /\ answer[c] # "bulk_limit"
    <3>1. Limited' = Limited \cup {c}
      BY Zenon, <1>1, <2>2 DEF Limited, Step
    <3>2. c \notin Holders /\ Cardinality(Holders) = Concurrency
      BY <2>2 DEF Step, Holders, SlotsHeld, slotFree
    <3>3. Abstract!Limit(c)
      BY Zenon, <2>1, <3>1, <3>2, SameCardinality DEF Abstract!Limit
    <3> QED
      BY Zenon, <3>3 DEF Abstract!Next
  <2>3. CASE ~(a = "bulk_limit" /\ answer[c] # "bulk_limit")
    <3>1. Limited' = Limited \/ Limited' = Limited \ {c}
      BY <1>1, <2>3 DEF Limited, Step, Told
    <3> QED
      BY Zenon, <2>1, <3>1 DEF Abstract!Next, Abstract!Forget, Abstract!vars
  <2> QED
    BY Zenon, <2>2, <2>3
<1> QED
  BY Zenon, <1>2, <1>3, <1>4

(* Nobody holds a slot at first.                                           *)
LEMMA InitSlots == Init => SlotInv /\ Abstract!Init
<1> SUFFICES ASSUME Init PROVE SlotInv /\ Abstract!Init
  BY Zenon
<1>1. Types /\ Told
  BY Zenon DEF Init, Types, Told, Places, Codes
<1>2. Holders = {} /\ Limited = {}
  BY Zenon DEF Init, Holders, Limited, Holding, Locked
<1> QED
  BY <1>1, <1>2, FS_EmptySet DEF Init, SlotInv, SlotsHeld, Abstract!Init

(* Every step keeps the count and is a step of Slots, or none.             *)
LEMMA NextSlots ==
    ASSUME SlotInv, [Next]_vars
    PROVE  SlotInv' /\ (Abstract!Next \/ UNCHANGED Abstract!vars)
<1>1. CASE UNCHANGED <<slots, pc, req, answer>>
  BY Zenon, <1>1 DEF SlotInv, Types, Told, SlotsHeld, Holders, Limited, Abstract!vars
<1>2. CASE \E c \in Handler : Handle(c) \/ Client(c) \/ Expire(c)
  <2>1. PICK c \in Handler, p \in Places, a \in Codes \cup {None} : Step(c, p, a)
    BY Zenon, <1>2, StepTaken
  <2> QED
    BY Zenon, <2>1, StepTypes, StepSlots, StepRefines DEF SlotInv
<1> QED
  BY Zenon, <1>1, <1>2 DEF Next, WLock, Rewrite, vars, local

(* startBulk, done: on every path of every request the channel holds one   *)
(* token per admitted request that has not finished.                       *)
THEOREM SlotsCounted == Spec => []SlotsHeld
<1>1. SlotInv => SlotsHeld
  BY Zenon DEF SlotInv
<1> QED
  BY InitSlots, NextSlots, <1>1, PTL DEF Spec

(* The bulk slots implement a counting semaphore that answers 429 only     *)
(* while every slot is held.                                               *)
THEOREM SlotsImplemented == Spec => SlotsRefined
<1>1. SlotInv /\ [Next]_vars => [Abstract!Next]_(Abstract!vars)
  BY Zenon, NextSlots
<1> QED
  BY InitSlots, NextSlots, <1>1, PTL DEF Spec, SlotsRefined, Abstract!Spec

-----------------------------------------------------------------------------
(* What is answered.  Each handler has its own part of the state, and only *)
(* its own steps change it.                                                *)
Streams == [snap: Nat, pos: Nat, buffered: Nat, sent: Nat,
            started: BOOLEAN, broken: BOOLEAN, logged: BOOLEAN]

LocalTypes ==
    /\ out \in [Handler -> Streams] /\ stored \in [Handler -> BOOLEAN]
    /\ writeBy \in [Handler -> BOOLEAN] /\ conn \in [Handler -> BOOLEAN]
    /\ end \in [Handler -> {None, "complete", "aborted"}]
    /\ docs \in Nat

Early == {"idle", "begin", "deadline", "read", "lock", "key", "check", "commit"}
Streaming == {"next", "flush", "closing", "final"}

(* Nothing is stored before the batch is committed, and an import answers  *)
(* 200 only after that.                                                    *)
Import(c) ==
    /\ pc[c] \in Streaming => req[c].method = "GET"
    /\ pc[c] \in {"read", "check", "commit"} => req[c].method = "POST"
    /\ pc[c] \in Early => answer[c] = None
    /\ pc[c] \in Early \cup Streaming => ~stored[c]
    /\ stored[c] => answer[c] \in {"ok", "service_unavailable"}
    /\ answer[c] = "ok" => stored[c] \/ req[c].method = "GET"

(* Every document read is in the buffer or with the client until an error  *)
(* is logged.                                                              *)
Export(c) ==
    /\ out[c].sent + out[c].buffered = out[c].pos /\ out[c].pos <= out[c].snap
    /\ ~out[c].started => out[c].pos = 0
    /\ pc[c] \in Early => out[c] = newBulkStream
    /\ pc[c] \in {"closing", "final"} => out[c].pos = out[c].snap
    /\ pc[c] \in Streaming => answer[c] = IF out[c].started THEN "ok" ELSE None
    /\ pc[c] \notin Early \cup Streaming /\ answer[c] = "ok" =>
          out[c].sent = out[c].snap \/ out[c].logged

(* The write deadline is gone when the response is ended.                  *)
Ending(c) ==
    /\ pc[c] \in {"idle", "begin", "deadline", "ending", "ended"} => ~writeBy[c]
    /\ pc[c] # "ended" => end[c] = None
    /\ end[c] # None /\ conn[c] /\ ~out[c].broken => end[c] = "complete"

Local(c) == Import(c) /\ Export(c) /\ Ending(c)

LocalInv == SlotInv /\ LocalTypes /\ \A c \in Handler : Local(c)

(* A step of one handler leaves the others as they are.                    *)
Same(d) ==
    /\ pc'[d] = pc[d] /\ req'[d] = req[d] /\ answer'[d] = answer[d] /\ out'[d] = out[d]
    /\ stored'[d] = stored[d] /\ writeBy'[d] = writeBy[d] /\ conn'[d] = conn[d]
    /\ end'[d] = end[d]

(* What is true of a handler stays true while others take steps.           *)
LEMMA SameLocal ==
    ASSUME NEW d \in Handler, Same(d), Local(d)
    PROVE  Local(d)'
BY ZenonT(30) DEF Same, Local, Import, Export, Ending

(* The streams that the steps below leave behind.                          *)
LEMMA StreamSteps ==
    ASSUME LocalTypes, NEW c \in Handler
    PROVE  /\ [out[c] EXCEPT !.logged = TRUE] \in Streams
           /\ [out[c] EXCEPT !.broken = TRUE, !.logged = TRUE] \in Streams
           /\ [out[c] EXCEPT !.sent = @ + out[c].buffered, !.buffered = 0] \in Streams
           /\ [out[c] EXCEPT !.started = TRUE, !.pos = @ + 1, !.buffered = @ + 1] \in Streams
           /\ [out[c] EXCEPT !.snap = docs] \in Streams
<1>0. out[c] \in Streams /\ docs \in Nat
  BY Zenon DEF LocalTypes
<1>1. [out[c] EXCEPT !.logged = TRUE] \in Streams
  BY Zenon, <1>0 DEF Streams
<1>2. [out[c] EXCEPT !.broken = TRUE, !.logged = TRUE] \in Streams
  BY Zenon, <1>0 DEF Streams
<1>3. [out[c] EXCEPT !.sent = @ + out[c].buffered, !.buffered = 0] \in Streams
  <2>1. out[c].sent + out[c].buffered \in Nat /\ 0 \in Nat
    BY <1>0 DEF Streams
  <2>2. ASSUME NEW o \in Streams, NEW x \in Nat, NEW y \in Nat
        PROVE  [o EXCEPT !.sent = x, !.buffered = y] \in Streams
    BY Zenon DEF Streams
  <2> QED
    BY Zenon, <1>0, <2>1, <2>2
<1>4. [out[c] EXCEPT !.started = TRUE, !.pos = @ + 1, !.buffered = @ + 1] \in Streams
  <2>1. out[c].pos + 1 \in Nat /\ out[c].buffered + 1 \in Nat
    BY <1>0 DEF Streams
  <2>2. ASSUME NEW o \in Streams, NEW x \in Nat, NEW y \in Nat
        PROVE  [o EXCEPT !.started = TRUE, !.pos = x, !.buffered = y] \in Streams
    BY Zenon DEF Streams
  <2> QED
    BY Zenon, <1>0, <2>1, <2>2
<1>5. [out[c] EXCEPT !.snap = docs] \in Streams
  BY Zenon, <1>0 DEF Streams
<1> QED
  BY Zenon, <1>1, <1>2, <1>3, <1>4, <1>5

(* A handler's stream is replaced.                                         *)
LEMMA StreamTyped ==
    ASSUME LocalTypes, NEW c \in Handler, NEW o \in Streams, out' = [out EXCEPT ![c] = o]
    PROVE  out' \in [Handler -> Streams] /\ out'[c] = o
BY Zenon DEF LocalTypes

(* startBulk.                                                              *)
LEMMA BeginLocal ==
    ASSUME LocalInv, NEW c \in Handler, Begin(c) \/ SetDeadline(c)
    PROVE  LocalTypes' /\ Local(c)' /\ \A d \in Handler \ {c} : Same(d)
<1> USE DEF LocalInv, SlotInv
<1>1. LocalTypes'
  BY Zenon DEF LocalTypes, Begin, SetDeadline, database
<1>2. \A d \in Handler \ {c} : Same(d)
  BY Zenon DEF Same, Types, LocalTypes, Begin, SetDeadline, Goto, Answer
<1>3. Import(c)'
  BY SMTT(30), RequestFields DEF Import, Local, Types, Begin, SetDeadline, Goto, Answer,
     Early, Streaming
<1>4. Export(c)'
  <2>1. Export(c) /\ out' = out /\ pc[c] \in {"begin", "deadline"}
    BY Zenon DEF Begin, SetDeadline, Local
  <2>2. out[c] = newBulkStream
    BY Zenon, <2>1 DEF Export, Early
  <2>3. pc'[c] \in {"ending", "deadline", "read", "lock"}
    BY Zenon DEF Begin, SetDeadline, Goto, Types
  <2> QED
    BY SMTT(30), <2>1, <2>2, <2>3 DEF Export, Early, Streaming, newBulkStream
<1>5. Ending(c)'
  BY ZenonT(30) DEF Ending, Local, Types, LocalTypes, Begin, SetDeadline, Goto
<1> QED
  BY Zenon, <1>1, <1>2, <1>3, <1>4, <1>5 DEF Local

(* The database lock and databaseKey.                                      *)
LEMMA KeyLocal ==
    ASSUME LocalInv, NEW c \in Handler, RLock(c) \/ databaseKey(c)
    PROVE  LocalTypes' /\ Local(c)' /\ \A d \in Handler \ {c} : Same(d)
<1> USE DEF LocalInv, SlotInv
<1>1. LocalTypes'
  BY DEF LocalTypes, RLock, databaseKey, Streams, database, local
<1>2. \A d \in Handler \ {c} : Same(d)
  BY Zenon DEF Same, Types, LocalTypes, RLock, databaseKey, Fail, Goto, Answer, local
<1>3. Import(c)'
  BY RequestFields DEF Import, Local, Types, LocalTypes, RLock, databaseKey, Fail, Goto,
     Answer,
     local, Early, Streaming
<1>4. Export(c)'
  <2>1. \/ out' = out
        \/ /\ out'[c] = [out[c] EXCEPT !.snap = docs] /\ docs \in Nat
           /\ pc'[c] = "next" /\ answer' = answer
    BY Zenon DEF RLock, databaseKey, Fail, Goto, Types, LocalTypes, local
  <2>2. out[c] = newBulkStream /\ answer[c] = None /\ pc'[c] \in {"key", "done", "check", "next"}
    BY Zenon DEF Local, Export, Import, Types, RLock, databaseKey, Fail, Goto, Early
  <2>3. pc'[c] \in {"key", "check", "next"} => answer' = answer
    BY Zenon DEF RLock, databaseKey, Fail, Goto, Types, local
  <2> QED
    BY <2>1, <2>2, <2>3 DEF Export, newBulkStream, Early, Streaming
<1>5. Ending(c)'
  BY Zenon DEF Ending, Local, Types, LocalTypes, RLock, databaseKey, Streams, Fail,
     Goto, local
<1> QED
  BY Zenon, <1>1, <1>2, <1>3, <1>4, <1>5 DEF Local

(* exportDocs.                                                             *)
LEMMA ExportLocal ==
    ASSUME LocalInv, NEW c \in Handler, exportDocs(c)
    PROVE  LocalTypes' /\ Local(c)' /\ \A d \in Handler \ {c} : Same(d)
<1> USE DEF LocalInv, SlotInv
<1>1. LocalTypes'
  <2>1. out' \in [Handler -> Streams]
    <3>1. \/ out' = out
          \/ out' = [out EXCEPT ![c] = [out[c] EXCEPT !.logged = TRUE]]
          \/ out' = [out EXCEPT ![c] = [out[c] EXCEPT !.started = TRUE, !.pos = @ + 1, !.buffered = @ + 1]]
      BY Zenon DEF exportDocs, failExport, LocalTypes
    <3> QED
      BY Zenon, <3>1, StreamSteps, StreamTyped DEF LocalTypes
  <2> QED
    BY Zenon, <2>1 DEF LocalTypes, exportDocs, database
<1>2. \A d \in Handler \ {c} : Same(d)
  BY ZenonT(30) DEF Same, Types, LocalTypes, exportDocs, failExport, Goto, Answer
<1>3. Import(c)'
  BY ZenonT(30), RequestFields DEF Import, Local, Types, LocalTypes, exportDocs,
     failExport, Goto, Answer,
     Early, Streaming
<1>4. Export(c)'
  <2>0. out[c] \in Streams /\ Export(c) /\ pc[c] = "next"
    BY Zenon DEF LocalTypes, Local, exportDocs
  <2>1. CASE out[c].pos = out[c].snap /\ Goto(c, "closing") /\ UNCHANGED <<answer, out>>
    BY Zenon, <2>0, <2>1 DEF Export, Goto, Types, Early, Streaming
  <2>2. CASE \E e \in {"bulk_timeout", "corrupt_data", "service_unavailable"} : failExport(c, e)
    <3>1. pc'[c] = "done"
      BY Zenon, <2>2 DEF failExport, Goto, Types
    <3>2. CASE out[c].started
      <4>1. out'[c] = [out[c] EXCEPT !.logged = TRUE]
        BY Zenon, <2>2, <3>2 DEF failExport, LocalTypes
      <4> QED
        BY Zenon, <2>0, <3>1, <4>1 DEF Export, Early, Streaming, Streams
    <3>3. CASE ~out[c].started
      <4>1. out' = out /\ answer'[c] # "ok"
        BY Zenon, <2>2, <3>3 DEF failExport, Answer, Types
      <4> QED
        BY Zenon, <2>0, <3>1, <4>1 DEF Export, Early, Streaming
    <3> QED
      BY Zenon, <3>2, <3>3
  <2>3. CASE /\ out[c].pos < out[c].snap
             /\ out' = [out EXCEPT ![c].started = TRUE, ![c].pos = @ + 1, ![c].buffered = @ + 1]
             /\ Answer(c, "ok")
             /\ Goto(c, IF out[c].buffered + 1 < Buffer THEN "next" ELSE "flush")
    <3>1. /\ out'[c] = [out[c] EXCEPT !.started = TRUE, !.pos = @ + 1, !.buffered = @ + 1]
          /\ out[c].pos < out[c].snap /\ pc'[c] \in {"next", "flush"} /\ answer'[c] = "ok"
      BY Zenon, <2>3 DEF Goto, Answer, Types, LocalTypes
    <3>2. /\ out'[c].started /\ out'[c].pos = out[c].pos + 1
          /\ out'[c].buffered = out[c].buffered + 1
          /\ out'[c].sent = out[c].sent /\ out'[c].snap = out[c].snap
      BY Zenon, <2>0, <3>1 DEF Streams
    <3> QED
      BY <2>0, <3>1, <3>2 DEF Export, Early, Streaming, Streams
  <2> QED
    BY <2>1, <2>2, <2>3, Zenon DEF exportDocs
<1>5. Ending(c)'
  BY Zenon DEF Ending, Local, Types, LocalTypes, exportDocs, failExport, Streams, Goto
<1> QED
  BY Zenon, <1>1, <1>2, <1>3, <1>4, <1>5 DEF Local

(* flush, when it succeeds and when it fails.                              *)
LEMMA FlushLocal ==
    ASSUME LocalInv, NEW c \in Handler, flush(c) \/ flushError(c)
    PROVE  LocalTypes' /\ Local(c)' /\ \A d \in Handler \ {c} : Same(d)
<1> USE DEF LocalInv, SlotInv
<1>1. LocalTypes'
  <2>1. out' \in [Handler -> Streams]
    <3>1. \/ out' = out
          \/ out' = [out EXCEPT ![c] = [out[c] EXCEPT !.sent = @ + out[c].buffered, !.buffered = 0]]
          \/ out' = [out EXCEPT ![c] = [out[c] EXCEPT !.broken = TRUE, !.logged = TRUE]]
      BY Zenon DEF flush, flushError, LocalTypes
    <3> QED
      BY Zenon, <3>1, StreamSteps, StreamTyped DEF LocalTypes
  <2> QED
    BY Zenon, <2>1 DEF LocalTypes, flush, flushError, database
<1>2. \A d \in Handler \ {c} : Same(d)
  BY Zenon DEF Same, Types, LocalTypes, flush, flushError, Goto
<1>3. Import(c)'
  BY RequestFields DEF Import, Local, Types, LocalTypes, flush, flushError, Goto, Early,
     Streaming
<1>4. Export(c)'
  <2>0. out[c] \in Streams /\ Export(c) /\ pc[c] \in {"flush", "final"} /\ answer' = answer
    BY Zenon DEF LocalTypes, Local, flush, flushError
  <2>1. CASE flush(c)
    <3>1. /\ out'[c] = [out[c] EXCEPT !.sent = @ + out[c].buffered, !.buffered = 0]
          /\ pc'[c] = IF pc[c] = "flush" THEN "next" ELSE "done"
      BY Zenon, <2>1 DEF flush, Goto, Types, LocalTypes
    <3> QED
      BY <2>0, <3>1 DEF Export, Early, Streaming, Streams
  <2>2. CASE flushError(c)
    <3>1. /\ out'[c] = [out[c] EXCEPT !.broken = TRUE, !.logged = TRUE]
          /\ pc'[c] = "done"
      BY Zenon, <2>2 DEF flushError, Goto, Types, LocalTypes
    <3> QED
      BY Zenon, <2>0, <3>1 DEF Export, Early, Streaming, Streams
  <2> QED
    BY Zenon, <2>1, <2>2
<1>5. Ending(c)'
  BY Zenon DEF Ending, Local, Types, LocalTypes, flush, flushError, Streams, Goto
<1> QED
  BY Zenon, <1>1, <1>2, <1>3, <1>4, <1>5 DEF Local

(* exportBulk, after the loop.                                             *)
LEMMA CloseLocal ==
    ASSUME LocalInv, NEW c \in Handler, exportBulk(c)
    PROVE  LocalTypes' /\ Local(c)' /\ \A d \in Handler \ {c} : Same(d)
<1> USE DEF LocalInv, SlotInv
<1>1. LocalTypes'
  <2>1. out' \in [Handler -> Streams]
    <3>1. \/ out' = out
          \/ out' = [out EXCEPT ![c] = [out[c] EXCEPT !.logged = TRUE]]
      BY Zenon DEF exportBulk, failExport, LocalTypes
    <3> QED
      BY Zenon, <3>1, StreamSteps, StreamTyped DEF LocalTypes
  <2> QED
    BY Zenon, <2>1 DEF LocalTypes, exportBulk, database
<1>2. \A d \in Handler \ {c} : Same(d)
  BY Zenon DEF Same, Types, LocalTypes, exportBulk, failExport, Fail, Goto, Answer
<1>3. Import(c)'
  BY ZenonT(30), RequestFields DEF Import, Local, Types, LocalTypes, exportBulk,
     failExport, Fail, Goto,
     Answer, Early, Streaming
<1>4. Export(c)'
  BY SMTT(30), RequestFields DEF Export, Local, Types, LocalTypes, exportBulk,
     failExport, Fail,
     Streams, Goto, Answer, Early, Streaming
<1>5. Ending(c)'
  BY Zenon DEF Ending, Local, Types, LocalTypes, exportBulk, failExport, Fail, Streams,
     Goto
<1> QED
  BY Zenon, <1>1, <1>2, <1>3, <1>4, <1>5 DEF Local

(* readBulkCtx and importDocs.                                             *)
LEMMA ImportLocal ==
    ASSUME LocalInv, NEW c \in Handler, readBulkCtx(c) \/ readError(c) \/ QueueDocs(c) \/ importDocs(c)
    PROVE  LocalTypes' /\ Local(c)' /\ \A d \in Handler \ {c} : Same(d)
<1> USE DEF LocalInv, SlotInv
<1>1. LocalTypes'
  <2>1. stored' = stored \/ stored' = [stored EXCEPT ![c] = TRUE]
    BY Zenon DEF readBulkCtx, readError, QueueDocs, importDocs
  <2>2. stored' \in [Handler -> BOOLEAN]
    BY Zenon, <2>1 DEF LocalTypes
  <2>3. docs' \in Nat
    <3>1. docs' = docs \/ docs' = docs + 1
      BY Zenon DEF readBulkCtx, readError, QueueDocs, importDocs, database
    <3> QED
      BY <3>1 DEF LocalTypes
  <2> QED
    BY Zenon, <2>2, <2>3 DEF LocalTypes, readBulkCtx, readError, QueueDocs, importDocs
<1>2. \A d \in Handler \ {c} : Same(d)
  BY Zenon DEF Same, Types, LocalTypes, readBulkCtx, readError, QueueDocs, importDocs,
     Fail, Goto, Answer
<1>3. Import(c)'
  <2>0. Import(c) /\ req' = req /\ pc[c] \in {"read", "check", "commit"}
    BY Zenon DEF Local, readBulkCtx, readError, QueueDocs, importDocs
  <2>1. req[c].method = "POST" /\ answer[c] = None /\ ~stored[c]
    BY Zenon, <2>0 DEF Import, Early
  <2>2. CASE readBulkCtx(c)
    <3>1. req[c] \in Requests
      BY Zenon, <2>0 DEF Types
    <3>2. req[c].body # "ok"
      BY Zenon, <2>1, <3>1, RequestFields
    <3>3. /\ stored' = stored
          /\ \/ pc'[c] = "lock" /\ answer' = answer
             \/ pc'[c] = "done" /\ answer'[c] # "ok"
      BY Zenon, <2>2, <3>2 DEF readBulkCtx, Fail, Goto, Answer, Types
    <3> QED
      BY Zenon, <2>0, <2>1, <3>3 DEF Import, Early, Streaming
  <2>3. CASE readError(c) \/ QueueDocs(c)
    <3>1. /\ stored' = stored
          /\ \/ pc'[c] = "commit" /\ answer' = answer
             \/ pc'[c] = "done" /\ answer'[c] # "ok"
      BY Zenon, <2>3 DEF readError, QueueDocs, Fail, Goto, Answer, Types
    <3> QED
      BY Zenon, <2>0, <2>1, <3>1 DEF Import, Early, Streaming
  <2>4. CASE importDocs(c)
    <3>1. /\ pc'[c] = "done" /\ answer'[c] \in {"ok", "service_unavailable"}
          /\ stored'[c] \/ (stored' = stored /\ answer'[c] = "service_unavailable")
      BY Zenon, <2>4 DEF importDocs, Fail, Goto, Answer, Types, LocalTypes
    <3> QED
      BY Zenon, <2>0, <2>1, <3>1 DEF Import, Early, Streaming
  <2> QED
    BY Zenon, <2>2, <2>3, <2>4
<1>4. Export(c)'
  <2>1. out' = out /\ out[c] = newBulkStream
    BY Zenon DEF Local, Export, readBulkCtx, readError, QueueDocs, importDocs, Early
  <2>2. pc'[c] \in {"lock", "commit", "done"}
    BY Zenon DEF Types, readBulkCtx, readError, QueueDocs, importDocs, Fail, Goto
  <2> QED
    BY SMTT(30), <2>1, <2>2 DEF Export, newBulkStream, Early, Streaming
<1>5. Ending(c)'
  BY Zenon DEF Ending, Local, Types, LocalTypes, readBulkCtx, readError, QueueDocs,
     importDocs, Fail, Goto
<1> QED
  BY Zenon, <1>1, <1>2, <1>3, <1>4, <1>5 DEF Local

(* done, and net/http after it.                                            *)
LEMMA EndLocal ==
    ASSUME LocalInv, NEW c \in Handler, done(c) \/ Finish(c)
    PROVE  LocalTypes' /\ Local(c)' /\ \A d \in Handler \ {c} : Same(d)
<1> USE DEF LocalInv, SlotInv
<1>1. LocalTypes'
  BY Zenon DEF LocalTypes, done, Finish, database
<1>2. \A d \in Handler \ {c} : Same(d)
  BY Zenon DEF Same, Types, LocalTypes, done, Finish, Goto
<1>3. Import(c)'
  <2>1. Import(c) /\ req' = req /\ answer' = answer /\ stored' = stored
    BY Zenon DEF Local, done, Finish
  <2>2. pc[c] \in {"done", "ending"} /\ pc'[c] \in {"ending", "ended"}
    BY Zenon DEF done, Finish, Goto, Types
  <2> QED
    BY Zenon, <2>1, <2>2 DEF Import, Early, Streaming
<1>4. Export(c)'
  <2>1. Export(c) /\ answer' = answer /\ out' = out
    BY Zenon DEF Local, done, Finish
  <2>2. pc[c] \in {"done", "ending"} /\ pc'[c] \in {"ending", "ended"}
    BY Zenon DEF done, Finish, Goto, Types
  <2> QED
    BY Zenon, <2>1, <2>2 DEF Export, Early, Streaming
<1>5. Ending(c)'
  BY ZenonT(30) DEF Ending, Local, Types, LocalTypes, done, Finish, Goto, Streams
<1> QED
  BY Zenon, <1>1, <1>2, <1>3, <1>4, <1>5 DEF Local

(* A request arrives, its connection goes down, its deadline passes.       *)
LEMMA ClientLocal ==
    ASSUME LocalInv, NEW c \in Handler, Request(c) \/ Disconnect(c) \/ Expire(c)
    PROVE  LocalTypes' /\ Local(c)' /\ \A d \in Handler \ {c} : Same(d)
<1> USE DEF LocalInv, SlotInv
<1>1. LocalTypes'
  BY Zenon DEF LocalTypes, Request, Disconnect, Expire, database
<1>2. \A d \in Handler \ {c} : Same(d)
  BY Zenon DEF Same, Types, LocalTypes, Request, Disconnect, Expire, Goto
<1>3. /\ answer' = answer /\ out' = out /\ stored' = stored /\ writeBy' = writeBy /\ end' = end
      /\ conn'[c] => conn[c]
      /\ \/ pc' = pc /\ req' = req
         \/ pc[c] = "idle" /\ pc'[c] = "begin"
  BY Zenon DEF Request, Disconnect, Expire, Goto, Types, LocalTypes
<1>4. Import(c)'
  BY Zenon, <1>3 DEF Import, Local, Early, Streaming, Codes
<1>5. Export(c)'
  BY Zenon, <1>3 DEF Export, Local, Early, Streaming
<1>6. Ending(c)'
  BY Zenon, <1>3 DEF Ending, Local
<1> QED
  BY Zenon, <1>1, <1>2, <1>4, <1>5, <1>6 DEF Local

(* The client has seen the end.                                            *)
LEMMA CollectLocal ==
    ASSUME LocalInv, NEW c \in Handler, Collect(c)
    PROVE  LocalTypes' /\ Local(c)' /\ \A d \in Handler \ {c} : Same(d)
<1> USE DEF LocalInv, SlotInv
<1>1. LocalTypes'
  <2>1. newBulkStream \in Streams
    BY Zenon DEF newBulkStream, Streams
  <2>2. out' \in [Handler -> Streams]
    BY Zenon, <2>1, StreamTyped DEF Collect
  <2>3. /\ stored' \in [Handler -> BOOLEAN] /\ writeBy' \in [Handler -> BOOLEAN]
        /\ conn' \in [Handler -> BOOLEAN]
    BY Zenon DEF Collect, LocalTypes
  <2> QED
    BY Zenon, <2>2, <2>3 DEF Collect, LocalTypes, database
<1>2. \A d \in Handler \ {c} : Same(d)
  BY Zenon DEF Same, Types, LocalTypes, Collect, Goto
<1>3. /\ pc'[c] = "idle" /\ answer'[c] = None /\ out'[c] = newBulkStream
      /\ ~stored'[c] /\ ~writeBy'[c] /\ end'[c] = None
  BY Zenon DEF Collect, Goto, Types, LocalTypes
<1>4. Import(c)' /\ Ending(c)'
  BY Zenon, <1>3 DEF Import, Ending, Early, Streaming, Codes
<1>5. Export(c)'
  BY <1>3 DEF Export, Early, Streaming, newBulkStream
<1> QED
  BY Zenon, <1>1, <1>2, <1>4, <1>5 DEF Local

(* Before the first request.                                               *)
LEMMA InitLocal == Init => LocalInv
<1> SUFFICES ASSUME Init PROVE LocalInv
  BY Zenon
<1>1. LocalTypes
  <2>1. newBulkStream \in Streams
    BY Zenon DEF newBulkStream, Streams
  <2> QED
    BY Zenon, <2>1 DEF Init, LocalTypes
<1>2. ASSUME NEW c \in Handler
      PROVE  Local(c)
  <2>1. /\ pc[c] = "idle" /\ answer[c] = None /\ out[c] = newBulkStream
        /\ ~stored[c] /\ ~writeBy[c] /\ end[c] = None
    BY Zenon DEF Init
  <2>2. Import(c) /\ Ending(c)
    BY Zenon, <2>1 DEF Import, Ending, Early, Streaming, Codes
  <2>3. Export(c)
    BY <2>1 DEF Export, Early, Streaming, newBulkStream
  <2> QED
    BY Zenon, <2>2, <2>3 DEF Local
<1> QED
  BY Zenon, <1>1, <1>2, InitSlots DEF LocalInv

(* A step of a handler, of its client or of its clock.                     *)
LEMMA HandlerLocal ==
    ASSUME LocalInv, NEW c \in Handler, Handle(c) \/ Client(c) \/ Expire(c)
    PROVE  LocalTypes' /\ Local(c)' /\ \A d \in Handler \ {c} : Same(d)
BY Zenon, BeginLocal, KeyLocal, ExportLocal, FlushLocal, CloseLocal, ImportLocal,
   EndLocal,
   ClientLocal, CollectLocal DEF Handle, Proceed, Client

(* Every step keeps what is true of each handler.                          *)
LEMMA NextLocal ==
    ASSUME LocalInv, [Next]_vars
    PROVE  LocalInv'
<1>1. SlotInv'
  BY Zenon, NextSlots DEF LocalInv
<1>2. CASE UNCHANGED <<pc, local>> /\ docs' \in Nat
  <2>1. LocalTypes'
    BY <1>2, Zenon DEF LocalInv, LocalTypes, local
  <2>2. \A c \in Handler : Same(c)
    BY Zenon, <1>2 DEF Same, local
  <2> QED
    BY Zenon, <1>1, <2>1, <2>2, SameLocal DEF LocalInv
<1>3. CASE \E c \in Handler : Handle(c) \/ Client(c) \/ Expire(c)
  <2>1. PICK c \in Handler : LocalTypes' /\ Local(c)' /\ \A d \in Handler \ {c} : Same(d)
    BY Zenon, <1>3, HandlerLocal
  <2> QED
    BY Zenon, <1>1, <2>1, SameLocal DEF LocalInv
<1> QED
  BY <1>2, <1>3 DEF Next, WLock, Rewrite, vars, database, LocalInv, LocalTypes

(* So it always holds.                                                     *)
LEMMA SpecLocal == Spec => []LocalInv
BY InitLocal, NextLocal, PTL DEF Spec

(* importBulk: 200 means that the whole batch is stored, and an error      *)
(* other than service_unavailable that nothing of it is.                   *)
THEOREM ImportsTruthful == Spec => []ImportTruthful
<1>1. LocalInv => ImportTruthful
  BY Zenon DEF LocalInv, Local, Import, ImportTruthful
<1> QED
  BY SpecLocal, <1>1, PTL

(* exportBulk: a 200 that ends normally is whole, or an error was logged.  *)
THEOREM ShortExportsLogged == Spec => []ShortExportLogged
<1>1. LocalInv => ShortExportLogged
  BY Zenon DEF LocalInv, Local, Export, Ending, ShortExportLogged, Early, Streaming
<1> QED
  BY SpecLocal, <1>1, PTL

(* startBulk, done: a client that stays and reads gets a whole response.   *)
THEOREM ClientsAnswered == Spec => []WaitingClientAnswered
<1>1. LocalInv => WaitingClientAnswered
  BY Zenon DEF LocalInv, Local, Ending, WaitingClientAnswered
<1> QED
  BY SpecLocal, <1>1, PTL

-----------------------------------------------------------------------------
(* The bounds.  A client sends an import only while there is room for it   *)
(* and for the imports under way, so those that may still be stored fit.   *)
Owed == {c \in Handler : pc[c] # "idle" /\ req[c].method = "POST" /\ ~stored[c]}

Contexts == {"live", "expired", "cancelled"}

Bounded ==
    /\ ctx \in [Handler -> Contexts] /\ exists \in BOOLEAN /\ writer \in {"idle", "waiting"}
    /\ docs + Cardinality(Owed) <= MaxDocs
    /\ \A c \in Handler : out[c].snap <= MaxDocs

(* Sets of handlers can be counted.                                        *)
LEMMA SubsetsFinite ==
    ASSUME NEW S \in SUBSET Handler
    PROVE  IsFiniteSet(S) /\ Cardinality(S) \in Nat
BY Zenon, FS_Subset, FS_CardinalityType

(* What a handler's step does to the documents: an import is committed, or *)
(* nothing is added and no import is added to those under way.             *)
LEMMA StepOwed ==
    ASSUME LocalInv, NEW c \in Handler, Handle(c) \/ Client(c) \/ Expire(c)
    PROVE  \/ Request(c)
           \/ c \in Owed /\ c \notin Owed' /\ docs' = docs + 1
           \/ docs' = docs /\ (c \in Owed' => c \in Owed)
<1> USE DEF LocalInv, SlotInv
<1>0. /\ pc \in [Handler -> Places] /\ stored \in [Handler -> BOOLEAN] /\ Import(c)
      /\ req \in [Handler -> Requests \cup {None}]
  BY Zenon DEF Types, LocalTypes, Local
<1>1. CASE importDocs(c)
  <2>1. c \in Owed /\ pc'[c] = "done" /\ req'[c] = req[c]
    BY Zenon, <1>0, <1>1 DEF importDocs, Fail, Goto, Owed, Import, Early
  <2>2. CASE stored' = stored /\ docs' = docs
    BY Zenon, <2>1, <2>2
  <2>3. CASE stored' = [stored EXCEPT ![c] = TRUE] /\ docs' = docs + 1
    BY Zenon, <1>0, <2>1, <2>3 DEF Owed
  <2> QED
    BY Zenon, <1>1, <2>2, <2>3 DEF importDocs
<1>2. CASE Collect(c)
  <2>1. pc'[c] = "idle" /\ docs' = docs
    BY Zenon, <1>0, <1>2 DEF Collect, Goto, database
  <2> QED
    BY Zenon, <2>1 DEF Owed
<1>3. CASE Expire(c) \/ Disconnect(c) \/ RLock(c) \/ Finish(c) \/ done(c)
  <2>1. docs' = docs /\ req' = req /\ stored' = stored /\ pc[c] # "idle"
    BY Zenon, <1>3 DEF Expire, Disconnect, RLock, Finish, done, local, database,
       Holding, Locked
  <2> QED
    BY Zenon, <2>1 DEF Owed
<1>4. CASE Begin(c) \/ SetDeadline(c) \/ databaseKey(c) \/ readBulkCtx(c) \/ readError(c) \/ QueueDocs(c)
  <2>1. docs' = docs /\ req' = req /\ stored' = stored /\ pc[c] # "idle"
    BY Zenon, <1>4 DEF Begin, SetDeadline, databaseKey, readBulkCtx, readError,
       QueueDocs, database
  <2> QED
    BY Zenon, <2>1 DEF Owed
<1>5. CASE exportDocs(c) \/ exportBulk(c) \/ flush(c) \/ flushError(c)
  <2>1. docs' = docs /\ req' = req /\ stored' = stored /\ pc[c] # "idle"
    BY Zenon, <1>5 DEF exportDocs, exportBulk, flush, flushError, database
  <2> QED
    BY Zenon, <2>1 DEF Owed
<1> QED
  BY Zenon, <1>1, <1>2, <1>3, <1>4, <1>5 DEF Handle, Proceed, Client

(* A snapshot has as many documents as the database had.                   *)
LEMMA StepSnap ==
    ASSUME LocalInv, NEW c \in Handler, Handle(c) \/ Client(c) \/ Expire(c)
    PROVE  out'[c].snap \in {out[c].snap, docs, 0}
<1> USE DEF LocalInv, SlotInv
<1>0. out \in [Handler -> Streams] /\ out[c] \in Streams
  BY Zenon DEF LocalTypes
<1>1. CASE UNCHANGED out
  BY Zenon, <1>1
<1>2. CASE out' = [out EXCEPT ![c] = newBulkStream]
  BY Zenon, <1>0, <1>2 DEF newBulkStream
<1>3. CASE out' = [out EXCEPT ![c].snap = docs]
  BY Zenon, <1>0, <1>3 DEF Streams
<1>4. CASE out' = [out EXCEPT ![c].logged = TRUE]
  BY Zenon, <1>0, <1>4 DEF Streams
<1>5. CASE out' = [out EXCEPT ![c].broken = TRUE, ![c].logged = TRUE]
  BY Zenon, <1>0, <1>5 DEF Streams
<1>6. CASE out' = [out EXCEPT ![c].sent = @ + out[c].buffered, ![c].buffered = 0]
  BY Zenon, <1>0, <1>6 DEF Streams
<1>7. CASE out' = [out EXCEPT ![c].started = TRUE, ![c].pos = @ + 1, ![c].buffered = @ + 1]
  BY Zenon, <1>0, <1>7 DEF Streams
<1>8. CASE Client(c) \/ Expire(c) \/ RLock(c) \/ Finish(c) \/ done(c)
  BY Zenon, <1>1, <1>2, <1>8 DEF Client, Request, Disconnect, Collect, Expire, RLock,
     Finish, done, local
<1>9. CASE Begin(c) \/ SetDeadline(c) \/ readBulkCtx(c) \/ readError(c) \/ QueueDocs(c) \/ importDocs(c)
  BY Zenon, <1>1, <1>9 DEF Begin, SetDeadline, readBulkCtx, readError, QueueDocs,
     importDocs
<1>10. CASE databaseKey(c) \/ exportDocs(c) \/ exportBulk(c) \/ flush(c) \/ flushError(c)
  BY Zenon, <1>1, <1>3, <1>4, <1>5, <1>6, <1>7, <1>10
     DEF databaseKey, exportDocs, exportBulk, failExport, flush, flushError
<1> QED
  BY Zenon, <1>8, <1>9, <1>10 DEF Handle, Proceed

(* The context and the database after a handler's step.                    *)
LEMMA StepContext ==
    ASSUME LocalInv, Bounded, NEW c \in Handler, Handle(c) \/ Client(c) \/ Expire(c)
    PROVE  ctx' \in [Handler -> Contexts] /\ exists' = exists /\ writer' = writer
<1>0. ctx \in [Handler -> Contexts]
  BY Zenon DEF Bounded
<1>1. CASE Client(c) \/ Expire(c)
  BY Zenon, <1>0, <1>1 DEF Client, Request, Disconnect, Collect, Expire, Contexts,
     database
<1>2. CASE RLock(c) \/ Finish(c) \/ done(c) \/ Begin(c) \/ SetDeadline(c)
  BY Zenon, <1>0, <1>2 DEF RLock, Finish, done, Begin, SetDeadline, local, database
<1>3. CASE readBulkCtx(c) \/ readError(c) \/ QueueDocs(c) \/ importDocs(c)
  BY Zenon, <1>0, <1>3 DEF readBulkCtx, readError, QueueDocs, importDocs, database
<1>4. CASE databaseKey(c) \/ exportDocs(c) \/ exportBulk(c) \/ flush(c) \/ flushError(c)
  BY Zenon, <1>0, <1>4 DEF databaseKey, exportDocs, exportBulk, flush, flushError,
     database
<1> QED
  BY Zenon, <1>1, <1>2, <1>3, <1>4 DEF Handle, Proceed

(* A handler's step keeps the bounds.                                      *)
LEMMA StepBounded ==
    ASSUME LocalInv, Bounded, NEW c \in Handler, Handle(c) \/ Client(c) \/ Expire(c)
    PROVE  Bounded'
<1>0. /\ docs \in Nat /\ docs + Cardinality(Owed) <= MaxDocs
      /\ \A d \in Handler \ {c} : Same(d)
  BY Zenon, HandlerLocal DEF LocalInv, LocalTypes, Bounded
<1>1. /\ IsFiniteSet(Owed) /\ Cardinality(Owed) \in Nat
      /\ IsFiniteSet(Importing) /\ Cardinality(Importing) \in Nat
  BY Zenon, SubsetsFinite DEF Owed, Importing
<1>2. Owed' \subseteq Owed \cup {c}
  BY Zenon, <1>0 DEF Same, Owed
<1>3. docs' + Cardinality(Owed') <= MaxDocs
  <2>1. CASE Request(c)
    <3>1. PICK r \in Requests : /\ r.method = "POST" => docs + Cardinality(Importing) < MaxDocs
                                /\ req' = [req EXCEPT ![c] = r]
      BY Zenon, <2>1 DEF Request
    <3>2. docs' = docs /\ req'[c] = r
      BY Zenon, <2>1, <3>1 DEF Request, database, LocalInv, SlotInv, Types
    <3>3. CASE r.method = "POST"
      <4>1. Owed' \subseteq Importing \cup {c}
        BY Zenon, <1>2 DEF Owed, Importing
      <4>2. /\ IsFiniteSet(Importing \cup {c})
            /\ Cardinality(Importing \cup {c}) = Cardinality(Importing) + 1
        <5>1. c \notin Importing
          BY Zenon, <2>1 DEF Request, Importing
        <5> QED
          BY Zenon, <1>1, <5>1, FS_AddElement
      <4>3. Cardinality(Owed') <= Cardinality(Importing \cup {c}) /\ Cardinality(Owed') \in Nat
        BY Zenon, <4>1, <4>2, FS_Subset, FS_CardinalityType
      <4> QED
        BY SMTT(30), <1>0, <1>1, <3>1, <3>2, <3>3, <4>2, <4>3
    <3>4. CASE r.method # "POST"
      <4>1. Owed' \subseteq Owed
        BY Zenon, <1>2, <3>2, <3>4 DEF Owed
      <4>2. Cardinality(Owed') <= Cardinality(Owed) /\ Cardinality(Owed') \in Nat
        BY Zenon, <1>1, <4>1, FS_Subset, FS_CardinalityType
      <4> QED
        BY <1>0, <1>1, <3>2, <4>2
    <3> QED
      BY Zenon, <3>3, <3>4
  <2>2. CASE c \in Owed /\ c \notin Owed' /\ docs' = docs + 1
    <3>1. Owed' \subseteq Owed \ {c}
      BY Zenon, <1>2, <2>2
    <3>2. Cardinality(Owed') <= Cardinality(Owed) - 1 /\ Cardinality(Owed') \in Nat
      BY <1>1, <2>2, <3>1, FS_RemoveElement, FS_Subset, FS_CardinalityType
    <3> QED
      BY <1>0, <1>1, <2>2, <3>2
  <2>3. CASE docs' = docs /\ (c \in Owed' => c \in Owed)
    <3>1. Owed' \subseteq Owed
      BY Zenon, <1>2, <2>3
    <3>2. Cardinality(Owed') <= Cardinality(Owed) /\ Cardinality(Owed') \in Nat
      BY Zenon, <1>1, <3>1, FS_Subset, FS_CardinalityType
    <3> QED
      BY <1>0, <1>1, <2>3, <3>2
  <2> QED
    BY Zenon, <2>1, <2>2, <2>3, StepOwed
<1>4. ASSUME NEW d \in Handler
      PROVE  out'[d].snap <= MaxDocs
  <2>1. docs <= MaxDocs /\ out[d].snap <= MaxDocs /\ 0 <= MaxDocs
    BY SMTT(30), <1>0, <1>1 DEF Bounded
  <2>2. CASE d = c
    BY Zenon, <2>1, <2>2, StepSnap
  <2>3. CASE d # c
    BY Zenon, <1>0, <2>1, <2>3 DEF Same
  <2> QED
    BY Zenon, <2>2, <2>3
<1> QED
  BY Zenon, <1>3, <1>4, StepContext DEF Bounded

(* Init and every step.                                                    *)
LEMMA InitBounded == Init => Bounded
<1> SUFFICES ASSUME Init PROVE Bounded
  BY Zenon
<1>1. Owed = {}
  BY Zenon DEF Init, Owed
<1>2. \A c \in Handler : out[c].snap = 0
  BY Zenon DEF Init, newBulkStream
<1>3. ctx \in [Handler -> Contexts] /\ exists \in BOOLEAN /\ writer \in {"idle", "waiting"}
  BY Zenon DEF Init, Contexts
<1>4. docs + Cardinality(Owed) <= MaxDocs
  BY <1>1, FS_EmptySet DEF Init
<1>5. \A c \in Handler : out[c].snap <= MaxDocs
  BY <1>2
<1> QED
  BY Zenon, <1>3, <1>4, <1>5 DEF Bounded

(* Every step keeps the bounds.                                            *)
LEMMA NextBounded ==
    ASSUME LocalInv, Bounded, [Next]_vars
    PROVE  Bounded'
<1>1. CASE \E c \in Handler : Handle(c) \/ Client(c) \/ Expire(c)
  BY Zenon, <1>1, StepBounded
<1>2. CASE WLock \/ Rewrite \/ UNCHANGED vars
  <2>1. UNCHANGED <<pc, req, ctx, out, stored>>
    BY Zenon, <1>2 DEF WLock, Rewrite, vars, local
  <2>2. Owed' = Owed /\ Cardinality(Owed) \in Nat
    BY Zenon, <2>1, SubsetsFinite DEF Owed
  <2>3. docs \in Nat /\ docs' \in {0, docs}
    BY Zenon, <1>2 DEF WLock, Rewrite, vars, database, LocalInv, LocalTypes
  <2>4. docs' + Cardinality(Owed') <= MaxDocs
    BY SMTT(30), <2>2, <2>3 DEF Bounded
  <2>5. exists' \in BOOLEAN /\ writer' \in {"idle", "waiting"}
    BY Zenon, <1>2 DEF WLock, Rewrite, vars, database, Bounded
  <2> QED
    BY Zenon, <2>1, <2>4, <2>5 DEF Bounded
<1> QED
  BY Zenon, <1>1, <1>2 DEF Next

(* Every variable has its type: no more than Concurrency tokens are in the *)
(* channel of takeBulkSlot, and no export has read, buffered or sent more  *)
(* documents than the database can have.                                   *)
THEOREM BulkTypeCorrect == Spec => []TypeOK
<1>1. LocalInv /\ Bounded => TypeOK
  <2> SUFFICES ASSUME LocalInv, Bounded PROVE TypeOK
    BY Zenon
  <2>1. docs \in 0..MaxDocs
    <3>1. docs \in Nat /\ Cardinality(Owed) \in Nat
      BY Zenon, SubsetsFinite DEF LocalInv, LocalTypes, Owed
    <3> QED
      BY <3>1 DEF Bounded
  <2>2. ASSUME NEW c \in Handler
        PROVE  out[c] \in [snap: 0..MaxDocs, pos: 0..MaxDocs, buffered: 0..MaxDocs,
                           sent: 0..MaxDocs, started: BOOLEAN, broken: BOOLEAN,
                           logged: BOOLEAN]
    <3>1. out[c] \in Streams /\ out[c].snap <= MaxDocs
      BY Zenon DEF LocalInv, LocalTypes, Bounded
    <3>2. out[c].sent + out[c].buffered = out[c].pos /\ out[c].pos <= out[c].snap
      BY Zenon DEF LocalInv, Local, Export
    <3>3. /\ out[c].snap \in 0..MaxDocs /\ out[c].pos \in 0..MaxDocs
          /\ out[c].buffered \in 0..MaxDocs /\ out[c].sent \in 0..MaxDocs
      BY <3>1, <3>2 DEF Streams
    <3> QED
      BY Zenon, <3>1, <3>3 DEF Streams
  <2>3. out \in [Handler -> [snap: 0..MaxDocs, pos: 0..MaxDocs, buffered: 0..MaxDocs,
                             sent: 0..MaxDocs, started: BOOLEAN, broken: BOOLEAN,
                             logged: BOOLEAN]]
    BY Zenon, <2>2 DEF LocalInv, LocalTypes
  <2> QED
    BY Zenon, <2>1, <2>3 DEF TypeOK, LocalInv, LocalTypes, SlotInv, Types, Places,
       Bounded, Contexts
<1>2. Init => LocalInv /\ Bounded
  BY Zenon, InitLocal, InitBounded
<1>3. LocalInv /\ Bounded /\ [Next]_vars => (LocalInv /\ Bounded)'
  BY Zenon, NextLocal, NextBounded
<1> QED
  BY <1>1, <1>2, <1>3, PTL DEF Spec

=============================================================================
