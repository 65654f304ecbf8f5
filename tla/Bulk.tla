-------------------------------- MODULE Bulk ---------------------------------
(***************************************************************************)
(* Bulk export and import over HTTP: admission by slots, the deadline of a *)
(* request, the response stream, and the answers.  Clients may stop        *)
(* reading, stop sending or go away at any time.  The store is one         *)
(* database with its lock; a writer deletes and creates it.                *)
(***************************************************************************)
EXTENDS Naturals, FiniteSets

CONSTANTS
    Handler,        \* request goroutines
    Concurrency,    \* bulkConfig.concurrency
    Buffer,         \* documents that fill the stream's buffer
    Requests,       \* the requests clients send
    MaxDocs,        \* bound: documents in the database
    None            \* no answer yet

(* A request: its method, what is wrong with its head, and its body.       *)
bulkRequest ==
    [method: {"GET"}, head: {"good", "invalid_name", "invalid_query"}, body: {"none"}]
    \cup [method: {"POST"},
          head: {"good", "unsupported_media_type", "invalid_name", "invalid_query"},
          body: {"documents", "invalid_document", "content_too_large", "unreadable"}]

(* The answers: 200, and the code of an error.                             *)
Codes == {"ok", "unsupported_media_type", "invalid_name", "invalid_query", "bulk_limit",
          "internal_error", "bulk_timeout", "invalid_document", "content_too_large",
          "database_not_found", "corrupt_data", "service_unavailable"}

ASSUME BulkAssumption ==
    /\ IsFiniteSet(Handler) /\ Requests \subseteq bulkRequest
    /\ None \notin Codes \cup {"complete"}
    /\ Concurrency \in Nat \ {0} /\ Buffer \in Nat \ {0} /\ MaxDocs \in Nat

VARIABLES
    slots,      \* tokens in api.bulkSlots
    pc, req,    \* per handler: the step to take, and the request
    ctx,        \* per handler: the request context
    conn,       \* per handler: whether its connection is up
    writeBy,    \* per handler: the connection has a write deadline
    answer,     \* per handler: the status of the response, once decided
    out,        \* per handler: the export stream
    end,        \* per handler: how the client saw the response end
    stored,     \* per handler: whether its import was committed
    exists, docs,   \* the database, and how many documents it has
    writer          \* createDB or deleteDB: "idle", or "waiting" for the lock

local == <<req, ctx, conn, writeBy, answer, out, end, stored>>
database == <<exists, docs, writer>>
vars == <<slots, pc, local, database>>

(* bulkStream, the iterator and the log: the snapshot's size, documents    *)
(* read, buffered and received, whether the header went out, whether a     *)
(* write failed, whether an error was logged.                              *)
newBulkStream == [snap |-> 0, pos |-> 0, buffered |-> 0, sent |-> 0,
                  started |-> FALSE, broken |-> FALSE, logged |-> FALSE]

Locked == {"key", "next", "flush", "closing", "check", "commit"}
Holding == {"deadline", "read", "lock", "final", "done"} \cup Locked
Holders == {c \in Handler : pc[c] \in Holding}

Init ==
    /\ slots = 0
    /\ pc = [c \in Handler |-> "idle"]
    /\ req = [c \in Handler |-> None]
    /\ ctx = [c \in Handler |-> "live"]
    /\ conn = [c \in Handler |-> TRUE]
    /\ writeBy = [c \in Handler |-> FALSE]
    /\ answer = [c \in Handler |-> None]
    /\ out = [c \in Handler |-> newBulkStream]
    /\ end = [c \in Handler |-> None]
    /\ stored = [c \in Handler |-> FALSE]
    /\ exists = FALSE /\ docs = 0 /\ writer = "idle"

Goto(c, p) == pc' = [pc EXCEPT ![c] = p]

(* An answer is written to the response and the handler returns through    *)
(* its deferred done.                                                      *)
Answer(c, code) == answer' = [answer EXCEPT ![c] = code]

Fail(c, code) == Goto(c, "done") /\ Answer(c, code)

-----------------------------------------------------------------------------
(* The client and the clock.                                               *)
Importing == {c \in Handler : pc[c] # "idle" /\ req[c].method = "POST"}

Request(c) ==
    /\ pc[c] = "idle"
    /\ \E r \in Requests :
         /\ r.method = "POST" => docs + Cardinality(Importing) < MaxDocs
         /\ req' = [req EXCEPT ![c] = r]
    /\ Goto(c, "begin")
    /\ UNCHANGED <<slots, ctx, conn, writeBy, answer, out, end, stored, database>>

Expire(c) ==
    /\ pc[c] \in Holding \ {"deadline"} /\ ctx[c] = "live"
    /\ ctx' = [ctx EXCEPT ![c] = "expired"]
    /\ UNCHANGED <<slots, pc, req, conn, writeBy, answer, out, end, stored, database>>

Disconnect(c) ==
    /\ pc[c] \notin {"idle", "ended"} /\ conn[c]
    /\ conn' = [conn EXCEPT ![c] = FALSE]
    /\ ctx' = [ctx EXCEPT ![c] = IF @ = "live" THEN "cancelled" ELSE @]
    /\ UNCHANGED <<slots, pc, req, writeBy, answer, out, end, stored, database>>

-----------------------------------------------------------------------------
(* startBulk.                                                              *)
(* Mutant: one slot too many.                                              *)
slotLoosely == slots <= Concurrency

(* Mutant: the last slot is never given out.                               *)
slotTightly == slots + 1 < Concurrency

(* A send on the buffered channel does not block.                          *)
slotFree == slots < Concurrency

takeBulkSlot == slotFree /\ slots' = slots + 1

freeBulkSlot == slots > 0 /\ slots' = slots - 1

Begin(c) ==
    /\ pc[c] = "begin"
    /\ \/ /\ req[c].head # "good"
          /\ Goto(c, "ending") /\ Answer(c, req[c].head) /\ UNCHANGED slots
       \/ /\ req[c].head = "good" /\ takeBulkSlot
          /\ Goto(c, "deadline") /\ UNCHANGED answer
       \/ /\ req[c].head = "good" /\ ~slotFree
          /\ Goto(c, "ending") /\ Answer(c, "bulk_limit") /\ UNCHANGED slots
    /\ UNCHANGED <<req, ctx, conn, writeBy, out, end, stored, database>>

(* Mutant: the slot is not given back when setting the deadline fails.     *)
SetDeadlineLeak(c) ==
    /\ pc[c] = "deadline"
    /\ \/ /\ Goto(c, IF req[c].method = "POST" THEN "read" ELSE "lock")
          /\ writeBy' = [writeBy EXCEPT ![c] = req[c].method = "GET"]
          /\ UNCHANGED answer
       \/ /\ Goto(c, "ending") /\ Answer(c, "internal_error")
          /\ UNCHANGED writeBy
    /\ UNCHANGED <<slots, req, ctx, conn, out, end, stored, database>>

(* Mutant: exports get no write deadline.                                  *)
SetReadDeadline(c) ==
    /\ pc[c] = "deadline"
    /\ Goto(c, IF req[c].method = "POST" THEN "read" ELSE "lock")
    /\ UNCHANGED <<slots, req, ctx, conn, writeBy, answer, out, end, stored, database>>

(* The deadline is set on reads of an import and on writes of an export.   *)
SetDeadline(c) ==
    /\ pc[c] = "deadline"
    /\ \/ /\ Goto(c, IF req[c].method = "POST" THEN "read" ELSE "lock")
          /\ writeBy' = [writeBy EXCEPT ![c] = req[c].method = "GET"]
          /\ UNCHANGED <<slots, answer>>
       \/ /\ freeBulkSlot
          /\ Goto(c, "ending") /\ Answer(c, "internal_error")
          /\ UNCHANGED writeBy
    /\ UNCHANGED <<req, ctx, conn, out, end, stored, database>>

(* Mutant: the write deadline stays on the connection.                     *)
doneKeepDeadline(c) ==
    /\ pc[c] = "done"
    /\ freeBulkSlot
    /\ Goto(c, "ending")
    /\ UNCHANGED <<req, ctx, conn, writeBy, answer, out, end, stored, database>>

done(c) ==
    /\ pc[c] = "done"
    /\ freeBulkSlot
    /\ writeBy' = [writeBy EXCEPT ![c] = FALSE]
    /\ Goto(c, "ending")
    /\ UNCHANGED <<req, ctx, conn, answer, out, end, stored, database>>

(* net/http flushes and ends the response after the handler has returned.  *)
Finish(c) ==
    /\ pc[c] = "ending"
    /\ LET lost == ~conn[c] \/ out[c].broken \/ (writeBy[c] /\ ctx[c] = "expired")
       IN  end' = [end EXCEPT ![c] = IF lost THEN "aborted" ELSE "complete"]
    /\ Goto(c, "ended")
    /\ UNCHANGED <<slots, req, ctx, conn, writeBy, answer, out, stored, database>>

Collect(c) ==
    /\ pc[c] = "ended" /\ Goto(c, "idle")
    /\ req' = [req EXCEPT ![c] = None]
    /\ ctx' = [ctx EXCEPT ![c] = "live"]
    /\ conn' = [conn EXCEPT ![c] = TRUE]
    /\ writeBy' = [writeBy EXCEPT ![c] = FALSE]
    /\ answer' = [answer EXCEPT ![c] = None]
    /\ out' = [out EXCEPT ![c] = newBulkStream]
    /\ end' = [end EXCEPT ![c] = None]
    /\ stored' = [stored EXCEPT ![c] = FALSE]
    /\ UNCHANGED <<slots, database>>

-----------------------------------------------------------------------------
(* The database lock: a waiting writer holds off new readers.              *)
RLock(c) ==
    /\ pc[c] = "lock" /\ writer = "idle"
    /\ Goto(c, "key")
    /\ UNCHANGED <<slots, local, database>>

WLock ==
    /\ writer = "idle" /\ writer' = "waiting"
    /\ UNCHANGED <<slots, pc, local, exists, docs>>

(* deleteDB and createDB, in turn.                                         *)
Rewrite ==
    /\ writer = "waiting" /\ \A c \in Handler : pc[c] \notin Locked
    /\ writer' = "idle" /\ exists' = ~exists /\ docs' = 0
    /\ UNCHANGED <<slots, pc, local>>

(* databaseKey, the snapshot and the iterator.                             *)
databaseKey(c) ==
    /\ pc[c] = "key"
    /\ \/ ~exists /\ Fail(c, "database_not_found") /\ UNCHANGED out
       \/ /\ \E e \in {"corrupt_data", "service_unavailable"} : Fail(c, e)
          /\ UNCHANGED out
       \/ /\ exists /\ UNCHANGED answer
          /\ IF req[c].method = "POST"
             THEN Goto(c, "check") /\ UNCHANGED out
             ELSE /\ Goto(c, "next")
                  /\ out' = [out EXCEPT ![c].snap = docs]
    /\ UNCHANGED <<slots, req, ctx, conn, writeBy, end, stored, database>>

-----------------------------------------------------------------------------
(* Export.  An error before the header is answered; after it, only logged. *)
failExport(c, code) ==
    /\ Goto(c, "done")
    /\ IF out[c].started
       THEN out' = [out EXCEPT ![c].logged = TRUE] /\ UNCHANGED answer
       ELSE Answer(c, code) /\ UNCHANGED out

(* One turn of the loop of exportDocs: the context, the record, the write. *)
exportDocs(c) ==
    /\ pc[c] = "next"
    /\ \/ /\ out[c].pos = out[c].snap
          /\ Goto(c, "closing") /\ UNCHANGED <<answer, out>>
       \/ /\ out[c].pos < out[c].snap /\ ctx[c] # "live"
          /\ failExport(c, "bulk_timeout")
       \/ /\ out[c].pos < out[c].snap /\ ctx[c] = "live"
          /\ \E e \in {"corrupt_data", "service_unavailable"} : failExport(c, e)
       \/ /\ out[c].pos < out[c].snap /\ ctx[c] = "live"
          /\ out' = [out EXCEPT ![c].started = TRUE, ![c].pos = @ + 1,
                                ![c].buffered = @ + 1]
          /\ Answer(c, "ok")
          /\ Goto(c, IF out[c].buffered + 1 < Buffer THEN "next" ELSE "flush")
    /\ UNCHANGED <<slots, req, ctx, conn, writeBy, end, stored, database>>

(* A write to the connection, in the loop or after it.  It succeeds only   *)
(* when the client reads and the write deadline has not passed.            *)
flush(c) ==
    /\ pc[c] \in {"flush", "final"}
    /\ conn[c] /\ ~(writeBy[c] /\ ctx[c] = "expired")
    /\ out' = [out EXCEPT ![c].sent = @ + out[c].buffered, ![c].buffered = 0]
    /\ Goto(c, IF pc[c] = "flush" THEN "next" ELSE "done")
    /\ UNCHANGED <<slots, req, ctx, conn, writeBy, answer, end, stored, database>>

flushError(c) ==
    /\ pc[c] \in {"flush", "final"}
    /\ ~conn[c] \/ (writeBy[c] /\ ctx[c] = "expired")
    /\ out' = [out EXCEPT ![c].broken = TRUE, ![c].logged = TRUE]
    /\ Goto(c, "done")
    /\ UNCHANGED <<slots, req, ctx, conn, writeBy, answer, end, stored, database>>

(* Mutant: what is left in the buffer is not flushed.                      *)
exportUnflushed(c) ==
    /\ pc[c] = "closing"
    /\ \/ failExport(c, "service_unavailable")
       \/ Fail(c, "ok") /\ UNCHANGED out
    /\ UNCHANGED <<slots, req, ctx, conn, writeBy, end, stored, database>>

(* The deferred closes of iterator and snapshot may fail; then the rest of *)
(* the stream is flushed, without the lock, or an empty 200 is sent.       *)
exportBulk(c) ==
    /\ pc[c] = "closing"
    /\ \/ failExport(c, "service_unavailable")
       \/ out[c].started /\ Goto(c, "final") /\ UNCHANGED <<answer, out>>
       \/ ~out[c].started /\ Fail(c, "ok") /\ UNCHANGED out
    /\ UNCHANGED <<slots, req, ctx, conn, writeBy, end, stored, database>>

-----------------------------------------------------------------------------
(* Import.  The body is read whole; how it is cut into documents is the    *)
(* subject of ReadBulk.  Buffered input is used up even after the deadline.*)
readBulkCtx(c) ==
    /\ pc[c] = "read" /\ conn[c]
    /\ IF req[c].body = "documents"
       THEN Goto(c, "lock") /\ UNCHANGED answer
       ELSE Fail(c, IF req[c].body = "unreadable" THEN "invalid_document" ELSE req[c].body)
    /\ UNCHANGED <<slots, req, ctx, conn, writeBy, out, end, stored, database>>

readError(c) ==
    /\ pc[c] = "read"
    /\ \/ ctx[c] # "live" /\ Fail(c, "bulk_timeout")
       \/ ~conn[c] /\ Fail(c, "invalid_document")
    /\ UNCHANGED <<slots, req, ctx, conn, writeBy, out, end, stored, database>>

(* importDocs: the documents are queued, then the batch is committed.      *)
QueueDocs(c) ==
    /\ pc[c] = "check"
    /\ \/ ctx[c] # "live" /\ Fail(c, "bulk_timeout")
       \/ \E e \in {"invalid_document", "content_too_large", "corrupt_data",
                    "service_unavailable"} : Fail(c, e)
       \/ ctx[c] = "live" /\ Goto(c, "commit") /\ UNCHANGED answer
    /\ UNCHANGED <<slots, req, ctx, conn, writeBy, out, end, stored, database>>

(* Mutant: the context is looked at after the commit.                      *)
importCheckLate(c) ==
    /\ pc[c] = "commit"
    /\ Fail(c, IF ctx[c] = "live" THEN "ok" ELSE "bulk_timeout")
    /\ stored' = [stored EXCEPT ![c] = TRUE] /\ docs' = docs + 1
    /\ UNCHANGED <<slots, req, ctx, conn, writeBy, out, end, exists, writer>>

importDocs(c) ==
    /\ pc[c] = "commit"
    /\ \/ Fail(c, "service_unavailable") /\ UNCHANGED <<stored, docs>>
       \/ /\ \E e \in {"ok", "service_unavailable"} : Fail(c, e)
          /\ stored' = [stored EXCEPT ![c] = TRUE] /\ docs' = docs + 1
    /\ UNCHANGED <<slots, req, ctx, conn, writeBy, out, end, exists, writer>>

-----------------------------------------------------------------------------
(* The steps a handler takes by itself, with nobody to wait for.           *)
Proceed(c) ==
    \/ Begin(c) \/ SetDeadline(c) \/ databaseKey(c) \/ exportDocs(c) \/ flushError(c)
    \/ exportBulk(c) \/ readError(c) \/ QueueDocs(c) \/ importDocs(c) \/ done(c)

Handle(c) == Proceed(c) \/ RLock(c) \/ flush(c) \/ readBulkCtx(c) \/ Finish(c)

Client(c) == Request(c) \/ Disconnect(c) \/ Collect(c)

Next == WLock \/ Rewrite \/ \E c \in Handler : Handle(c) \/ Client(c) \/ Expire(c)

Spec == Init /\ [][Next]_vars

(* Go runs a runnable handler, timers fire, and sync.RWMutex lets in the   *)
(* readers that waited when a writer leaves.  Clients need not read, send  *)
(* or collect anything.                                                    *)
FairSpec ==
    /\ Spec
    /\ WF_vars(Rewrite)
    /\ \A c \in Handler : WF_vars(Proceed(c)) /\ WF_vars(Expire(c)) /\ SF_vars(RLock(c))

-----------------------------------------------------------------------------
(* Every variable has its type; the channel never holds more tokens than   *)
(* bulkConfig.concurrency (takeBulkSlot).                                  *)
TypeOK ==
    /\ slots \in 0..Concurrency
    /\ pc \in [Handler -> {"idle", "begin", "ending", "ended"} \cup Holding]
    /\ req \in [Handler -> Requests \cup {None}]
    /\ ctx \in [Handler -> {"live", "expired", "cancelled"}]
    /\ conn \in [Handler -> BOOLEAN] /\ writeBy \in [Handler -> BOOLEAN]
    /\ answer \in [Handler -> Codes \cup {None}]
    /\ out \in [Handler -> [snap: 0..MaxDocs, pos: 0..MaxDocs, buffered: 0..MaxDocs,
                            sent: 0..MaxDocs, started: BOOLEAN, broken: BOOLEAN,
                            logged: BOOLEAN]]
    /\ end \in [Handler -> {None, "complete", "aborted"}]
    /\ stored \in [Handler -> BOOLEAN]
    /\ exists \in BOOLEAN /\ docs \in 0..MaxDocs /\ writer \in {"idle", "waiting"}

(* takeBulkSlot, freeBulkSlot: on every way through a bulk request, the    *)
(* channel holds exactly one token per request that has been admitted and  *)
(* has not finished.                                                       *)
SlotsHeld == slots = Cardinality(Holders)

(* The slots are a counting semaphore: at most Concurrency requests hold   *)
(* one, and 429 is answered only while all of them are held.               *)
Limited == {c \in Handler : pc[c] \in {"ending", "ended"} /\ answer[c] = "bulk_limit"}

Abstract == INSTANCE Slots WITH held <- Holders, limited <- Limited

SlotsRefined == Abstract!Spec

(* importBulk: 200 says that the whole batch is stored; every other answer *)
(* but service_unavailable says that nothing of it is.  In particular the  *)
(* deadline is never reported for an import that was committed.            *)
ImportTruthful ==
    \A c \in Handler : answer[c] # None /\ req[c].method = "POST" =>
        /\ answer[c] = "ok" => stored[c]
        /\ stored[c] => answer[c] \in {"ok", "service_unavailable"}

(* exportBulk: a response that ends normally with status 200 has every     *)
(* document of the snapshot, or an error was logged on the server.         *)
ShortExportLogged ==
    \A c \in Handler :
        end[c] = "complete" /\ answer[c] = "ok" /\ req[c].method = "GET" =>
            out[c].sent = out[c].snap \/ out[c].logged

(* startBulk, done: a client that stays gets a whole response, whatever    *)
(* the deadline did, unless the stream had begun and it did not read it.   *)
WaitingClientAnswered ==
    \A c \in Handler :
        end[c] # None /\ conn[c] /\ ~out[c].broken => end[c] = "complete"

(* A slot is given back although clients may stall, and although waiting   *)
(* for the database lock has no deadline.                                  *)
SlotFreed == \A c \in Handler : (c \in Holders) ~> (c \notin Holders)

(* exportDocs holds the database lock while it streams: deletion waits for *)
(* a stalled export no longer than for its deadline.                       *)
WriterServed == (writer = "waiting") ~> (writer = "idle")

=============================================================================
