--------------------------------- MODULE Api ---------------------------------
(***************************************************************************)
(* The HTTP endpoints for databases and documents, over the store that     *)
(* DocDB promises.  A goroutine takes a request apart in the order of the  *)
(* handler, calls the store, and turns what it returns into a status, a    *)
(* code and an ETag; responses get lost, and clients send the same request *)
(* again, also while the first one is still at work.                       *)
(***************************************************************************)
EXTENDS Documents

CONSTANTS
    BadName, BadId,     \* a name and an ID that are not well formed
    InvalidDefs,        \* index definitions that validateIndexes refuses
    Defs,               \* index sets that clients ask for
    PostDocs, PutDocs   \* documents that clients create, and replace by

ASSUME RevAssumption == Rev \subseteq Nat /\ Rev # {}

(* What a handler may call the store with, once it has validated it.       *)
Calls ==
    [op: {"createDB"}, db: DB, defs: Defs] \cup [op: {"deleteDB"}, db: DB]
    \cup [op: {"createDoc"}, db: DB, docs: {<<j>> : j \in Json}]
    \cup [op: {"getDoc"}, db: DB, id: Id]
    \cup [op: {"replaceDoc"}, db: DB, id: Id, match: matchCond, json: Json]
    \cup [op: {"patchDoc"}, db: DB, id: Id, match: matchCond, patch: Patch]
    \cup [op: {"deleteDoc"}, db: DB, id: Id, match: matchCond]

ASSUME CallsAssumption ==
    /\ Calls \subseteq Requests
    /\ PostDocs \cup PutDocs \subseteq Json
    /\ NoDoc \notin StoredDoc
    /\ NoDoc \notin [defs: Schema, docs: [Id -> StoredDoc \cup {NoDoc}]]

VARIABLES
    dbs, calls,     \* the store, and its calls, as in DocDB
    conn,           \* conn[c]: the HTTP request goroutine c serves
    shown,          \* every document some response showed under an ETag
    minted,         \* every revision some document has had
    consumed        \* how many writes took effect on condition of a revision

Promised == INSTANCE DocDB

vars == <<dbs, calls, conn, shown, minted, consumed>>

(* An HTTP request, as far as a handler looks at it.  An If-Match value is *)
(* the pair of its form, "*", "strong" or "weak", and its revision; body   *)
(* is one of Json or Patch, or says what is wrong with it; defs may be     *)
(* InvalidDefs.                                                            *)
Bodies == {"unreadable", "large", "malformed", "grows"}

Blank == [op |-> "none", ctype |-> "json", db |-> BadName, id |-> BadId, ifMatch |-> <<>>,
          body |-> "malformed", defs |-> NoIndexes]

Quiet == [st |-> "idle", raw |-> Blank, hit |-> FALSE, status |-> <<0, "none">>]

Init ==
    /\ Promised!Init
    /\ conn = [c \in Client |-> Quiet]
    /\ shown = {} /\ minted = {}
    /\ consumed = [r \in Rev |-> 0]

-----------------------------------------------------------------------------
(* Validation.                                                             *)

(* formatETag, and the revision that parseETag reads back.                 *)
formatETag(rev) == <<"strong", rev>>

InvalidIfMatch == [err |-> "invalid_if_match"]

(* Mutant: an ETag that is not a strong one counts as no condition.        *)
parseLenient(values) ==
    LET NoRev == CHOOSE r \in Rev : TRUE
    IN  IF Len(values) = 0 \/ (Len(values) = 1 /\ values[1][1] = "weak")
        THEN [err |-> "nil", match |-> [set |-> FALSE, wildcard |-> FALSE, rev |-> NoRev]]
        ELSE IF Len(values) # 1 THEN InvalidIfMatch
        ELSE [err |-> "nil",
              match |-> [set |-> TRUE, wildcard |-> values[1][1] = "*", rev |-> values[1][2]]]

parseIfMatch(values) ==
    LET NoRev == CHOOSE r \in Rev : TRUE
        Cond(set, wildcard, rev) ==
            [err |-> "nil", match |-> [set |-> set, wildcard |-> wildcard, rev |-> rev]]
    IN  IF Len(values) = 0 THEN Cond(FALSE, FALSE, NoRev)
        ELSE IF Len(values) # 1 THEN InvalidIfMatch
        ELSE IF values[1][1] = "*" THEN Cond(TRUE, TRUE, NoRev)
        ELSE IF values[1][1] = "strong" THEN Cond(TRUE, FALSE, values[1][2])
        ELSE InvalidIfMatch

Named(raw) == IF raw.db \in DB THEN {} ELSE {<<400, "invalid_name">>}

validDocPath(raw) ==
    IF raw.db \notin DB THEN {<<400, "invalid_name">>}
    ELSE IF raw.id \notin Id THEN {<<400, "invalid_id">>} ELSE {}

Condition(raw) ==
    IF parseIfMatch(raw.ifMatch).err = "nil" THEN {} ELSE {<<400, "invalid_if_match">>}

isJSON(raw) == IF raw.ctype = "json" THEN {} ELSE {<<415, "unsupported_media_type">>}
parsePatchType(raw) == IF raw.ctype = "patch" THEN {} ELSE {<<415, "unsupported_media_type">>}

readBody(raw, code) ==
    CASE raw.body = "large" -> {<<413, "content_too_large">>}
      [] raw.body = "unreadable" -> {<<400, code>>}
      [] OTHER -> {}

validateDoc(raw) ==
    CASE raw.body = "grows" -> {<<413, "content_too_large">>}
      [] raw.body = "malformed" -> {<<400, "invalid_document">>}
      [] OTHER -> {}

decodeDBRequest(raw) == IF raw.body = "malformed" THEN {<<400, "invalid_request">>} ELSE {}

(* Mutant: index definitions are taken as they come.                       *)
indexesUnchecked(raw) == {}

(* The first thing store.createDB does.                                    *)
validateIndexes(raw) == IF raw.defs = InvalidDefs THEN {<<400, "invalid_request">>} ELSE {}

(* What a handler checks before it calls the store, in order.              *)
Checks(raw) ==
    CASE raw.op = "createDB" -> <<isJSON(raw), readBody(raw, "invalid_request"),
                                  decodeDBRequest(raw), Named(raw), validateIndexes(raw)>>
      [] raw.op = "deleteDB" -> <<Named(raw)>>
      [] raw.op = "createDoc" -> <<isJSON(raw), Named(raw), readBody(raw, "invalid_document"),
                                   validateDoc(raw)>>
      [] raw.op = "getDoc" -> <<validDocPath(raw)>>
      [] raw.op = "replaceDoc" -> <<isJSON(raw), validDocPath(raw), Condition(raw),
                                    readBody(raw, "invalid_document"), validateDoc(raw)>>
      [] raw.op = "patchDoc" -> <<parsePatchType(raw), validDocPath(raw), Condition(raw),
                                  readBody(raw, "invalid_patch")>>
      [] raw.op = "deleteDoc" -> <<validDocPath(raw), Condition(raw)>>

Valid(raw) == \A k \in DOMAIN Checks(raw) : Checks(raw)[k] = {}

Rejection(raw) ==
    LET checks == Checks(raw)
        k == CHOOSE k \in DOMAIN checks : checks[k] # {} /\ \A j \in 1..k - 1 : checks[j] = {}
    IN  CHOOSE e \in checks[k] : TRUE

(* The call to the store.                                                  *)
StoreCall(raw) ==
    LET match == parseIfMatch(raw.ifMatch).match
    IN  CASE raw.op = "createDB" -> [op |-> raw.op, db |-> raw.db, defs |-> raw.defs]
          [] raw.op = "deleteDB" -> [op |-> raw.op, db |-> raw.db]
          [] raw.op = "createDoc" -> [op |-> raw.op, db |-> raw.db, docs |-> <<raw.body>>]
          [] raw.op = "getDoc" -> [op |-> raw.op, db |-> raw.db, id |-> raw.id]
          [] raw.op = "replaceDoc" -> [op |-> raw.op, db |-> raw.db, id |-> raw.id,
                                       match |-> match, json |-> raw.body]
          [] raw.op = "patchDoc" -> [op |-> raw.op, db |-> raw.db, id |-> raw.id,
                                     match |-> match, patch |-> raw.body]
          [] raw.op = "deleteDoc" -> [op |-> raw.op, db |-> raw.db, id |-> raw.id, match |-> match]

-----------------------------------------------------------------------------
(* Responses.                                                              *)

writeFailure(err) ==
    CASE err = "errCorruptData" -> <<500, "corrupt_data">>
      [] err = "errStoreUnavailable" -> <<503, "service_unavailable">>
      [] OTHER -> <<500, "internal_error">>

(* The errors each of the seven handlers tells apart; the others go to     *)
(* writeFailure.  The handlers that list and query are not in this module. *)
Handled(op) ==
    LET missing == <<404, "document_not_found">>
        failed == <<412, "precondition_failed">>
    IN  CASE op = "createDB" -> [errDBExists |-> <<409, "database_exists">>]
          [] op = "deleteDB" -> [errDBNotFound |-> <<404, "database_not_found">>]
          [] op = "createDoc" -> [errDBNotFound |-> <<404, "database_not_found">>,
                                  errInvalidIndexValue |-> <<400, "invalid_document">>]
          [] op = "getDoc" -> [errDocNotFound |-> missing]
          [] op = "deleteDoc" -> [errDocNotFound |-> missing, errPreconditionFailed |-> failed]
          [] op = "replaceDoc" -> [errDocNotFound |-> missing, errPreconditionFailed |-> failed,
                                   errInvalidIndexValue |-> <<400, "invalid_document">>]
          [] op = "patchDoc" -> [errDocNotFound |-> missing, errPreconditionFailed |-> failed,
                                 errBodyTooLarge |-> <<413, "content_too_large">>,
                                 errInvalidPatch |-> <<400, "invalid_patch">>,
                                 errInvalidIndexValue |-> <<400, "invalid_patch">>]

Success(op) ==
    CASE op \in {"createDB", "createDoc"} -> 201
      [] op \in {"deleteDB", "deleteDoc"} -> 204
      [] OTHER -> 200

(* Mutant: any error of deleteDB is taken for a missing database.          *)
StatusGuessed(op, err) ==
    IF err = "nil" THEN <<Success(op), "ok">>
    ELSE IF op = "deleteDB" THEN <<404, "database_not_found">>
    ELSE IF err \in DOMAIN Handled(op) THEN Handled(op)[err] ELSE writeFailure(err)

(* Mutant: the handlers of documents do not know of index limits.          *)
StatusUnindexed(op, err) ==
    IF err = "nil" THEN <<Success(op), "ok">>
    ELSE IF err \in DOMAIN Handled(op) \ {"errInvalidIndexValue"} THEN Handled(op)[err]
    ELSE writeFailure(err)

Status(op, err) ==
    IF err = "nil" THEN <<Success(op), "ok">>
    ELSE IF err \in DOMAIN Handled(op) THEN Handled(op)[err] ELSE writeFailure(err)

(* Mutant: a PATCH is answered with the body it was sent.                  *)
ShowsSent(raw, out) ==
    LET Shown(id, rev, json) == {[etag |-> formatETag(rev), db |-> raw.db, id |-> id, json |-> json]}
    IN  CASE raw.op = "getDoc" -> Shown(raw.id, out.rev, out.json)
          [] raw.op = "patchDoc" -> Shown(raw.id, out.rev, raw.body)
          [] raw.op = "replaceDoc" -> Shown(raw.id, out, raw.body)
          [] raw.op = "createDoc" -> Shown(out.id, out.rev, raw.body)
          [] OTHER -> {}

(* The document a response shows, and the revision in its ETag.  A PUT is  *)
(* answered with the body it was sent, a POST with the ID only.            *)
Shows(raw, out) ==
    LET Shown(id, rev, json) == {[etag |-> formatETag(rev), db |-> raw.db, id |-> id, json |-> json]}
    IN  CASE raw.op \in {"getDoc", "patchDoc"} -> Shown(raw.id, out.rev, out.json)
          [] raw.op = "replaceDoc" -> Shown(raw.id, out, raw.body)
          [] raw.op = "createDoc" -> Shown(out.id, out.rev, raw.body)
          [] OTHER -> {}

-----------------------------------------------------------------------------
(* What clients send: as an If-Match any ETag a response showed, and       *)
(* anything that may be wrong in the address or else in the rest.          *)
IfMatches ==
    LET some == CHOOSE r \in Rev : TRUE
        etags == {s.etag : s \in shown}
    IN  {<<>>, <<<<"*", some>>>>} \cup {<<e>> : e \in etags}
        \cup {<<<<"weak", e[2]>>>> : e \in etags} \cup {<<e, e>> : e \in etags}

Sent(op) ==
    LET Raw(names, ids, types, conds, bodies, defs) ==
            [op: {op}, db: names, id: ids, ctype: types, ifMatch: conds, body: bodies, defs: defs]
        Astray(ids, type) == Raw(DB \cup {BadName}, ids \cup {BadId}, {type, "text"}, {<<>>},
                                 {"malformed"}, {NoIndexes})
        Rest(ids, type, conds, bodies) == Raw(DB, ids, {type}, conds, bodies, {NoIndexes})
    IN  CASE op = "createDB" -> Raw(DB \cup {BadName}, {BadId}, {"json", "text"}, {<<>>},
                                    {"unreadable", "large", "malformed", "good"}, Defs \cup {InvalidDefs})
          [] op = "deleteDB" -> Raw(DB \cup {BadName}, {BadId}, {"json"}, {<<>>}, {"good"}, {NoIndexes})
          [] op = "createDoc" -> Astray({}, "json") \cup Rest({BadId}, "json", {<<>>}, PostDocs \cup Bodies)
          [] op = "getDoc" -> Raw(DB \cup {BadName}, Id \cup {BadId}, {"json"}, {<<>>}, {"good"}, {NoIndexes})
          [] op = "replaceDoc" -> Astray(Id, "json") \cup Rest(Id, "json", IfMatches, PutDocs \cup Bodies)
          [] op = "patchDoc" -> {raw \in Astray(Id, "patch") : ~Valid(raw)}
                                \cup Rest(Id, "patch", IfMatches, Patch \cup {"unreadable", "large"})
          [] op = "deleteDoc" -> {raw \in Astray(Id, "json") : ~Valid(raw)}
                                 \cup Rest(Id, "json", IfMatches, {"good"})

Ops == {"createDB", "deleteDB", "createDoc", "getDoc", "replaceDoc", "patchDoc", "deleteDoc"}
Writes == Ops \ {"getDoc"}

(* A request arrives, or again one that some goroutine is at work on.      *)
Begin(c, raw) ==
    /\ conn[c] = Quiet
    /\ UNCHANGED <<dbs, shown, minted, consumed>>
    /\ \/ /\ ~Valid(raw)
          /\ conn' = [conn EXCEPT ![c] = [Quiet EXCEPT !.st = "answered", !.status = Rejection(raw)]]
          /\ UNCHANGED calls
       \/ /\ Valid(raw)
          /\ conn' = [conn EXCEPT ![c] = [Quiet EXCEPT !.st = "busy", !.raw = raw]]
          /\ calls' = [calls EXCEPT ![c] = [st |-> "called", req |-> StoreCall(raw)]]

Arrive(c) == conn[c] = Quiet /\ \E op \in Ops : \E raw \in Sent(op) : Begin(c, raw)

Retry(c) ==
    \E other \in Client :
        /\ conn[other].st = "busy"
        /\ Begin(c, conn[other].raw)

Doc(d, i) == IF dbs[d] = NoDoc THEN NoDoc ELSE dbs[d].docs[i]

(* The revisions of the documents that a step writes.                      *)
Fresh ==
    {Doc(x[1], x[2])'.rev :
        x \in {x \in DB \X Id : Doc(x[1], x[2])' \notin {NoDoc, Doc(x[1], x[2])}}}

(* The store does its work.  Revisions are 16 random bytes: none comes     *)
(* twice, and which one comes makes no difference, so they come in order.  *)
Execute(c) ==
    LET header == conn[c].raw.ifMatch
    IN  /\ Promised!Execute(c)
        /\ \A r \in Fresh : r \notin minted /\ \A q \in Rev \ minted : r <= q
        /\ minted' = minted \cup Fresh
        /\ conn' = [conn EXCEPT ![c].hit = dbs' # dbs]
        /\ consumed' = IF dbs' # dbs /\ header # <<>> /\ header[1][1] # "*"
                       THEN [consumed EXCEPT ![header[1][2]] = @ + 1] ELSE consumed
        /\ UNCHANGED shown

Respond(c) ==
    LET res == calls[c].res
        raw == conn[c].raw
    IN  /\ Promised!Return(c)
        /\ conn' = [conn EXCEPT ![c] = [st |-> "answered", raw |-> [Blank EXCEPT !.op = raw.op],
                                        hit |-> @.hit, status |-> Status(raw.op, res.err)]]
        /\ shown' = shown \cup (IF res.err = "nil" THEN Shows(raw, res.out) ELSE {})
        /\ UNCHANGED <<minted, consumed>>

(* The response has been read or lost.  Where the write of the response    *)
(* fails the handler panics, and recover writes no second one.             *)
Close(c) ==
    /\ conn[c].st = "answered"
    /\ conn' = [conn EXCEPT ![c] = Quiet]
    /\ UNCHANGED <<dbs, calls, shown, minted, consumed>>

(* The process dies and is started again.                                  *)
Crash ==
    /\ Promised!Crash
    /\ conn' = [c \in Client |-> Quiet]
    /\ UNCHANGED <<shown, minted, consumed>>

Next ==
    \/ Crash
    \/ \E c \in Client : Arrive(c) \/ Retry(c) \/ Execute(c) \/ Respond(c) \/ Close(c)

Spec == Init /\ [][Next]_vars

-----------------------------------------------------------------------------
(* An ETag names one content of one document: responses with the same ETag *)
(* show the same document, to whomever, whatever was written in between,   *)
(* and a document that still has the revision has that content (the        *)
(* answers of getDoc, createDoc, replaceDoc and patchDoc).                 *)
ETagNamesContent ==
    /\ \A s, t \in shown : s.etag = t.etag => s = t
    /\ \A s \in shown, d \in DB, i \in Id :
          Doc(d, i) # NoDoc /\ formatETag(Doc(d, i).rev) = s.etag
              => s.db = d /\ s.id = i /\ s.json = Doc(d, i).json

(* Of all requests conditional on one ETag at most one takes effect: one   *)
(* that is repeated after its answer was lost, or while it is still at     *)
(* work, does not apply its change twice, and two clients that read the    *)
(* same version do not overwrite each other (parseIfMatch).                *)
AtMostOnce == \A r \in Rev : consumed[r] <= 1

(* A status tells what happened: after a 4xx nothing was written, after a  *)
(* 2xx the write is in place; only a 5xx leaves it open (the handlers'     *)
(* order of checks, and how they tell errors apart).                       *)
StatusTrue ==
    \A c \in Client : conn[c].st = "answered" =>
        /\ conn[c].status[1] \in 400..499 => ~conn[c].hit
        /\ conn[c].status[1] \in 200..299 /\ conn[c].raw.op \in Writes => conn[c].hit

(* Whatever the store answers, none of the seven handlers that create and  *)
(* delete databases and create, get, replace, patch and delete documents   *)
(* runs into the last case of writeFailure: each error the store has a     *)
(* name for has its own status.  It says nothing of queryDocs, which sends *)
(* errIndexNotFound there; Sound of Paging says when.                      *)
ErrorsTold == \A c \in Client : conn[c].st = "answered" => conn[c].status[2] # "internal_error"

(* The handlers call the store as DocDB allows: one call at a time for a   *)
(* goroutine, with arguments that were validated.                          *)
StoreUsed == Promised!Spec
=============================================================================
