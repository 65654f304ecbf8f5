------------------------------ MODULE ApiProofs ------------------------------
(***************************************************************************)
(* Proofs about the endpoints in Api: what an ETag names, that a           *)
(* conditional request takes effect once, what a status tells, and that    *)
(* the handlers call the store as DocDB allows.                            *)
(***************************************************************************)
EXTENDS Api, TLAPS

Conditional == {"replaceDoc", "patchDoc", "deleteDoc"}

AnyRev == CHOOSE r \in Rev : TRUE

(* The If-Match headers that parseIfMatch lets through.                    *)
Headers == {<<>>, <<<<"*", AnyRev>>>>} \cup {<<formatETag(r)>> : r \in Rev}

(* A request that has been validated.                                      *)
Accepted(raw) ==
    /\ raw.op \in Ops /\ raw.db \in DB
    /\ raw.op \in Conditional \cup {"getDoc"} => raw.id \in Id
    /\ raw.op = "createDB" => raw.defs \in Defs
    /\ raw.op \in {"createDoc", "replaceDoc"} => raw.body \in Json
    /\ raw.op = "patchDoc" => raw.body \in Patch
    /\ raw.ifMatch \in Headers
    /\ raw.op \notin Conditional => raw.ifMatch = <<>>

(* The errors the store has for each operation of a handler.               *)
Known(op) ==
    {"errStoreUnavailable"}
    \cup (IF op = "createDB" THEN {"errDBExists"} ELSE {})
    \cup (IF op \in {"deleteDB", "createDoc"} THEN {"errDBNotFound"} ELSE {})
    \cup (IF op \in {"createDoc", "replaceDoc", "patchDoc"} THEN {"errInvalidIndexValue"} ELSE {})
    \cup (IF op \in Conditional \cup {"getDoc"} THEN {"errDocNotFound"} ELSE {})
    \cup (IF op \in Conditional THEN {"errPreconditionFailed"} ELSE {})
    \cup (IF op = "patchDoc" THEN {"errInvalidPatch", "errBodyTooLarge"} ELSE {})

(* A status and whether it is true of a request that did or did not write. *)
Truthful(status, op, hit) ==
    /\ status[2] # "internal_error"
    /\ status[1] \in 400..499 => ~hit
    /\ status[1] \in 200..299 /\ op \in Writes => hit

(* What the store answered agrees with what it did.                        *)
Settled(err, op, hit) ==
    /\ err \in Known(op) \cup {"nil"}
    /\ err = "nil" /\ op \in Writes => hit
    /\ err \notin {"nil", "errStoreUnavailable"} => ~hit

(* What a goroutine serves, what it has asked the store, and what it makes *)
(* of the answer.                                                          *)
Serves(c) ==
    /\ conn[c].st = "busy" =>
         /\ Accepted(conn[c].raw)
         /\ calls[c].st \in {"called", "done"}
         /\ calls[c].req = StoreCall(conn[c].raw)
         /\ calls[c].st = "done" => Settled(calls[c].res.err, conn[c].raw.op, conn[c].hit)
    /\ conn[c].st # "busy" => calls[c] = [st |-> "idle"]
    /\ conn[c].st = "answered" => Truthful(conn[c].status, conn[c].raw.op, conn[c].hit)

(* What responses have shown, what documents hold, what is about to be     *)
(* answered.                                                               *)
DocFact(d, i) == [etag |-> formatETag(Doc(d, i).rev), db |-> d, id |-> i, json |-> Doc(d, i).json]

Current == {DocFact(x[1], x[2]) : x \in {x \in DB \X Id : Doc(x[1], x[2]) # NoDoc}}

Pending(c) ==
    IF conn[c].st = "busy" /\ calls[c].st = "done" /\ calls[c].res.err = "nil"
    THEN Shows(conn[c].raw, calls[c].res.out) ELSE {}

Facts == shown \cup Current \cup UNION {Pending(c) : c \in Client}

(* An ETag has one meaning, and none before its revision is drawn.         *)
Names ==
    /\ \A s \in Facts, t \in Facts : s.etag = t.etag => s = t
    /\ \A s \in Facts : \E r \in minted : s.etag = formatETag(r)

(* The document a conditional write took effect on is gone for good.       *)
Spent ==
    \A r \in Rev :
        /\ consumed[r] \in {0, 1}
        /\ consumed[r] = 1 => r \in minted /\ \A s \in Current : s.etag # formatETag(r)

Types ==
    /\ dbs \in [DB -> Promised!Database \cup {NoDoc}]
    /\ calls = [c \in Client |-> calls[c]]
    /\ conn = [c \in Client |-> [st |-> conn[c].st, raw |-> conn[c].raw, hit |-> conn[c].hit,
                                 status |-> conn[c].status]]
    /\ minted \subseteq Rev
    /\ consumed \in [Rev -> Nat]

Inv == Types /\ (\A c \in Client : Serves(c)) /\ Names /\ Spent

-----------------------------------------------------------------------------
(* Validation.                                                             *)

(* The header of an accepted request: a strong ETag becomes the condition  *)
(* that the document has its revision.                                     *)
LEMMA HeaderMatch ==
    ASSUME NEW h \in Headers
    PROVE  /\ parseIfMatch(h).match \in matchCond
           /\ h # <<>> /\ h[1][1] # "*" =>
                /\ h[1][2] \in Rev
                /\ \A rev : matchRevision(parseIfMatch(h).match, rev) => rev = h[1][2]
<1>0. AnyRev \in Rev /\ AnyRev = CHOOSE r \in Rev : TRUE
  BY Zenon, RevAssumption DEF AnyRev
<1>1. CASE h = <<>>
  <2>1. parseIfMatch(h).match = [set |-> FALSE, wildcard |-> FALSE, rev |-> AnyRev]
    BY Zenon, <1>1, <1>0 DEF parseIfMatch
  <2>2. parseIfMatch(h).match \in matchCond
    BY <2>1, <1>0 DEF matchCond
  <2> QED
    BY Zenon, <1>1, <2>2
<1>2. CASE h = <<<<"*", AnyRev>>>>
  <2>1. parseIfMatch(h).match = [set |-> TRUE, wildcard |-> TRUE, rev |-> AnyRev]
    BY <1>2, <1>0 DEF parseIfMatch
  <2>2. parseIfMatch(h).match \in matchCond
    BY <2>1, <1>0 DEF matchCond
  <2> QED
    BY Zenon, <1>2, <2>2
<1>3. ASSUME NEW r \in Rev, h = <<formatETag(r)>>
      PROVE  /\ parseIfMatch(h).match \in matchCond /\ h[1][2] \in Rev
             /\ \A rev : matchRevision(parseIfMatch(h).match, rev) => rev = h[1][2]
  <2>1. Len(h) = 1 /\ h[1][1] = "strong" /\ h[1][2] = r
    BY Zenon, <1>3 DEF formatETag
  <2>2. parseIfMatch(h).match = [set |-> TRUE, wildcard |-> FALSE, rev |-> r]
    BY <2>1 DEF parseIfMatch
  <2> QED
    BY <2>1, <2>2 DEF matchCond, matchRevision
<1> QED
  BY Zenon, <1>1, <1>2, <1>3 DEF Headers

(* What the handler of each operation passes on to the store.              *)
LEMMA CallOf ==
    ASSUME NEW raw, Accepted(raw)
    PROVE  LET r == StoreCall(raw) IN
           /\ r.op = raw.op /\ r.db = raw.db
           /\ r.op = "createDB" => r = [op |-> raw.op, db |-> raw.db, defs |-> raw.defs]
           /\ r.op = "createDoc" => r.docs = <<raw.body>>
           /\ r.op \in Conditional \cup {"getDoc"} => r.id = raw.id
           /\ r.op \in Conditional => r.match = parseIfMatch(raw.ifMatch).match
           /\ r.op = "replaceDoc" => r.json = raw.body
           /\ r.op = "patchDoc" => r.patch = raw.body
           /\ r \in Calls
<1> DEFINE match == parseIfMatch(raw.ifMatch).match
           r == StoreCall(raw)
<1>0. match \in matchCond
  BY Zenon, HeaderMatch DEF Accepted
<1>1. CASE raw.op = "createDB"
  <2>1. r = [op |-> raw.op, db |-> raw.db, defs |-> raw.defs]
    BY <1>1, Zenon DEF StoreCall
  <2> QED
    BY <1>1, <2>1 DEF Accepted, Calls, Conditional
<1>2. CASE raw.op = "deleteDB"
  <2>1. r = [op |-> raw.op, db |-> raw.db]
    BY <1>2, Zenon DEF StoreCall
  <2> QED
    BY <1>2, <2>1 DEF Accepted, Calls, Conditional
<1>3. CASE raw.op = "createDoc"
  <2>1. r = [op |-> raw.op, db |-> raw.db, docs |-> <<raw.body>>]
    BY <1>3, Zenon DEF StoreCall
  <2> QED
    BY <1>3, <2>1 DEF Accepted, Calls, Conditional
<1>4. CASE raw.op = "getDoc"
  <2>1. r = [op |-> raw.op, db |-> raw.db, id |-> raw.id]
    BY <1>4, Zenon DEF StoreCall
  <2> QED
    BY <1>4, <2>1 DEF Accepted, Calls, Conditional
<1>5. CASE raw.op = "replaceDoc"
  <2>1. r = [op |-> raw.op, db |-> raw.db, id |-> raw.id, match |-> match, json |-> raw.body]
    BY <1>5, Zenon DEF StoreCall
  <2> QED
    BY <1>5, <2>1, <1>0 DEF Accepted, Calls, Conditional
<1>6. CASE raw.op = "patchDoc"
  <2>1. r = [op |-> raw.op, db |-> raw.db, id |-> raw.id, match |-> match, patch |-> raw.body]
    BY <1>6, Zenon DEF StoreCall
  <2> QED
    BY <1>6, <2>1, <1>0 DEF Accepted, Calls, Conditional
<1>7. CASE raw.op = "deleteDoc"
  <2>1. r = [op |-> raw.op, db |-> raw.db, id |-> raw.id, match |-> match]
    BY <1>7, Zenon DEF StoreCall
  <2> QED
    BY <1>7, <2>1, <1>0 DEF Accepted, Calls, Conditional
<1> QED
  BY Zenon, <1>1, <1>2, <1>3, <1>4, <1>5, <1>6, <1>7 DEF Accepted, Ops

(* The bodies that the handlers go on with.                                *)
LEMMA BodyFacts ==
    ASSUME NEW raw, NEW code
    PROVE  /\ readBody(raw, code) = {} => raw.body # "large" /\ raw.body # "unreadable"
           /\ validateDoc(raw) = {} => raw.body # "grows" /\ raw.body # "malformed"
<1>1. /\ raw.body = "large" => <<413, "content_too_large">> \in readBody(raw, code)
      /\ raw.body = "unreadable" => <<400, code>> \in readBody(raw, code)
  BY Zenon DEF readBody
<1>2. /\ raw.body = "grows" => <<413, "content_too_large">> \in validateDoc(raw)
      /\ raw.body = "malformed" => <<400, "invalid_document">> \in validateDoc(raw)
  BY Zenon DEF validateDoc
<1> QED
  BY ZenonT(30), <1>1, <1>2

(* What the checks of each handler come to.                                *)
LEMMA ValidFacts ==
    ASSUME NEW raw, raw.op \in Ops, Valid(raw)
    PROVE  /\ raw.op \in {"createDB", "deleteDB", "createDoc"} => Named(raw) = {}
           /\ raw.op = "createDB" => validateIndexes(raw) = {}
           /\ raw.op \in Conditional \cup {"getDoc"} => validDocPath(raw) = {}
           /\ raw.op \in Conditional => Condition(raw) = {}
           /\ raw.op \in {"createDoc", "replaceDoc"} =>
                readBody(raw, "invalid_document") = {} /\ validateDoc(raw) = {}
           /\ raw.op = "patchDoc" => readBody(raw, "invalid_patch") = {}
<1>0. \A k \in DOMAIN Checks(raw) : Checks(raw)[k] = {}
  BY Zenon DEF Valid
<1>1. CASE raw.op = "createDB"
  <2>1. Checks(raw) = <<isJSON(raw), readBody(raw, "invalid_request"), decodeDBRequest(raw),
                        Named(raw), validateIndexes(raw)>>
    BY <1>1, Zenon DEF Checks
  <2> QED
    BY <1>0, <1>1, <2>1 DEF Conditional
<1>2. CASE raw.op = "deleteDB"
  <2>1. Checks(raw) = <<Named(raw)>>
    BY <1>2, Zenon DEF Checks
  <2> QED
    BY <1>0, <1>2, <2>1 DEF Conditional
<1>3. CASE raw.op = "createDoc"
  <2>1. Checks(raw) = <<isJSON(raw), Named(raw), readBody(raw, "invalid_document"),
                        validateDoc(raw)>>
    BY <1>3, Zenon DEF Checks
  <2> QED
    BY <1>0, <1>3, <2>1 DEF Conditional
<1>4. CASE raw.op = "getDoc"
  <2>1. Checks(raw) = <<validDocPath(raw)>>
    BY <1>4, Zenon DEF Checks
  <2> QED
    BY <1>0, <1>4, <2>1 DEF Conditional
<1>5. CASE raw.op = "replaceDoc"
  <2>1. Checks(raw) = <<isJSON(raw), validDocPath(raw), Condition(raw),
                        readBody(raw, "invalid_document"), validateDoc(raw)>>
    BY <1>5, Zenon DEF Checks
  <2> QED
    BY <1>0, <1>5, <2>1 DEF Conditional
<1>6. CASE raw.op = "patchDoc"
  <2>1. Checks(raw) = <<parsePatchType(raw), validDocPath(raw), Condition(raw),
                        readBody(raw, "invalid_patch")>>
    BY <1>6, Zenon DEF Checks
  <2> QED
    BY <1>0, <1>6, <2>1 DEF Conditional
<1>7. CASE raw.op = "deleteDoc"
  <2>1. Checks(raw) = <<validDocPath(raw), Condition(raw)>>
    BY <1>7, Zenon DEF Checks
  <2> QED
    BY <1>0, <1>7, <2>1 DEF Conditional
<1> QED
  BY Zenon, <1>1, <1>2, <1>3, <1>4, <1>5, <1>6, <1>7 DEF Ops

(* A check that fails names a status of its own.                           *)
Told(e) == e[2] # "internal_error"

(* The checks before the store is called: none of them ends in 500.        *)
LEMMA ChecksTell ==
    ASSUME NEW raw, NEW code, code # "internal_error"
    PROVE  /\ \A e \in Named(raw) : Told(e)
           /\ \A e \in validDocPath(raw) : Told(e)
           /\ \A e \in Condition(raw) : Told(e)
           /\ \A e \in isJSON(raw) : Told(e)
           /\ \A e \in parsePatchType(raw) : Told(e)
           /\ \A e \in readBody(raw, code) : Told(e)
           /\ \A e \in validateDoc(raw) : Told(e)
           /\ \A e \in decodeDBRequest(raw) : Told(e)
           /\ \A e \in validateIndexes(raw) : Told(e)
<1>1. readBody(raw, code) \in {{<<413, "content_too_large">>}, {<<400, code>>}, {}}
  BY Zenon DEF readBody
<1>2. validateDoc(raw) \in {{<<413, "content_too_large">>}, {<<400, "invalid_document">>}, {}}
  BY Zenon DEF validateDoc
<1>3. /\ \A e \in readBody(raw, code) : Told(e)
      /\ \A e \in validateDoc(raw) : Told(e)
  BY <1>1, <1>2 DEF Told
<1> QED
  BY <1>3 DEF Told, Named, validDocPath, Condition, isJSON, parsePatchType,
     decodeDBRequest,
              validateIndexes

(* The first of a few checks that fails.                                   *)
LEMMA FirstRefusal ==
    ASSUME NEW n \in 1..5, NEW s, DOMAIN s = 1..n, NEW k \in 1..n, s[k] # {}
    PROVE  \E i \in DOMAIN s : s[i] # {} /\ \A j \in 1..i - 1 : s[j] = {}
<1>1. CASE s[1] # {}
  BY <1>1
<1>2. CASE s[1] = {} /\ s[2] # {} /\ n > 1
  BY <1>2
<1>3. CASE s[1] = {} /\ s[2] = {} /\ s[3] # {} /\ n > 2
  BY <1>3
<1>4. CASE s[1] = {} /\ s[2] = {} /\ s[3] = {} /\ s[4] # {} /\ n > 3
  BY <1>4
<1>5. CASE s[1] = {} /\ s[2] = {} /\ s[3] = {} /\ s[4] = {} /\ n = 5
  <2>1. k = 5
    BY <1>5
  <2> QED
    BY <1>5, <2>1
<1> QED
  BY SMTT(30), <1>1, <1>2, <1>3, <1>4, <1>5

(* The statuses a handler refuses a request with.                          *)
LEMMA RefusalTells ==
    ASSUME NEW raw, raw.op \in Ops, ~Valid(raw)
    PROVE  Told(Rejection(raw))
<1> DEFINE s == Checks(raw)
<1>1. \E n \in 1..5 : DOMAIN s = 1..n /\ \A k \in 1..n : \A e \in s[k] : Told(e)
  <2>0. /\ \A e \in Named(raw) : Told(e)
        /\ \A e \in validDocPath(raw) : Told(e)
        /\ \A e \in Condition(raw) : Told(e)
        /\ \A e \in isJSON(raw) : Told(e)
        /\ \A e \in parsePatchType(raw) : Told(e)
        /\ \A e \in readBody(raw, "invalid_request") : Told(e)
        /\ \A e \in readBody(raw, "invalid_document") : Told(e)
        /\ \A e \in readBody(raw, "invalid_patch") : Told(e)
        /\ \A e \in validateDoc(raw) : Told(e)
        /\ \A e \in decodeDBRequest(raw) : Told(e)
        /\ \A e \in validateIndexes(raw) : Told(e)
    BY ChecksTell
  <2>1. CASE raw.op = "createDB"
    <3>1. s = <<isJSON(raw), readBody(raw, "invalid_request"), decodeDBRequest(raw), Named(raw),
                validateIndexes(raw)>>
      BY <2>1, Zenon DEF Checks
    <3>2. DOMAIN s = 1..5 /\ \A k \in 1..5 : \A e \in s[k] : Told(e)
      BY <2>0, <3>1
    <3> QED
      BY <3>2
  <2>2. CASE raw.op = "deleteDB"
    <3>1. s = <<Named(raw)>>
      BY <2>2, Zenon DEF Checks
    <3>2. DOMAIN s = 1..1 /\ \A k \in 1..1 : \A e \in s[k] : Told(e)
      BY <2>0, <3>1
    <3> QED
      BY <3>2
  <2>3. CASE raw.op = "createDoc"
    <3>1. s = <<isJSON(raw), Named(raw), readBody(raw, "invalid_document"), validateDoc(raw)>>
      BY <2>3, Zenon DEF Checks
    <3>2. DOMAIN s = 1..4 /\ \A k \in 1..4 : \A e \in s[k] : Told(e)
      BY <2>0, <3>1
    <3> QED
      BY <3>2
  <2>4. CASE raw.op = "getDoc"
    <3>1. s = <<validDocPath(raw)>>
      BY <2>4, Zenon DEF Checks
    <3>2. DOMAIN s = 1..1 /\ \A k \in 1..1 : \A e \in s[k] : Told(e)
      BY <2>0, <3>1
    <3> QED
      BY <3>2
  <2>5. CASE raw.op = "replaceDoc"
    <3>1. s = <<isJSON(raw), validDocPath(raw), Condition(raw), readBody(raw, "invalid_document"),
                validateDoc(raw)>>
      BY <2>5, Zenon DEF Checks
    <3>2. DOMAIN s = 1..5 /\ \A k \in 1..5 : \A e \in s[k] : Told(e)
      BY <2>0, <3>1
    <3> QED
      BY <3>2
  <2>6. CASE raw.op = "patchDoc"
    <3>1. s = <<parsePatchType(raw), validDocPath(raw), Condition(raw),
                readBody(raw, "invalid_patch")>>
      BY <2>6, Zenon DEF Checks
    <3>2. DOMAIN s = 1..4 /\ \A k \in 1..4 : \A e \in s[k] : Told(e)
      BY <2>0, <3>1
    <3> QED
      BY <3>2
  <2>7. CASE raw.op = "deleteDoc"
    <3>1. s = <<validDocPath(raw), Condition(raw)>>
      BY <2>7, Zenon DEF Checks
    <3>2. DOMAIN s = 1..2 /\ \A k \in 1..2 : \A e \in s[k] : Told(e)
      BY <2>0, <3>1
    <3> QED
      BY <3>2
  <2> QED
    BY Zenon, <2>1, <2>2, <2>3, <2>4, <2>5, <2>6, <2>7 DEF Ops
<1>2. PICK n \in 1..5 : DOMAIN s = 1..n /\ \A k \in 1..n : \A e \in s[k] : Told(e)
  BY Zenon, <1>1
<1>3. PICK i \in DOMAIN s : s[i] # {}
  BY Zenon DEF Valid
<1>4. \E k \in DOMAIN s : s[k] # {} /\ \A j \in 1..k - 1 : s[j] = {}
  <2> HIDE DEF s
  <2> QED
    BY Zenon, <1>2, <1>3, FirstRefusal
<1> DEFINE First(k) == s[k] # {} /\ \A j \in 1..k - 1 : s[j] = {}
           first == CHOOSE k \in DOMAIN s : First(k)
<1>5. first \in DOMAIN s /\ s[first] # {}
  BY <1>4, Zenon
<1>6. Rejection(raw) = CHOOSE e \in s[first] : TRUE
  BY Zenon DEF Rejection
<1>7. Rejection(raw) \in s[first]
  <2> HIDE DEF s, first
  <2> QED
    BY Zenon, <1>5, <1>6
<1> QED
  <2> HIDE DEF s, first
  <2> QED
    BY Zenon, <1>2, <1>5, <1>7

(* An If-Match value that clients send, once parseIfMatch takes it.        *)
LEMMA HeaderAccepted ==
    ASSUME Types, Names, NEW raw, raw.ifMatch \in IfMatches, Condition(raw) = {}
    PROVE  raw.ifMatch \in Headers
<1> DEFINE h == raw.ifMatch
           etags == {s.etag : s \in shown}
<1>1. \A e \in etags : \E r \in Rev : e = <<"strong", r>>
  <2>1. shown \subseteq Facts
    BY Zenon DEF Facts
  <2>2. minted \subseteq Rev
    BY Zenon DEF Types
  <2>3. \A s \in Facts : \E r \in minted : s.etag = <<"strong", r>>
    BY Zenon DEF Names, formatETag
  <2> QED
    BY Zenon, <2>1, <2>2, <2>3
<1>2. parseIfMatch(h).err = "nil"
  <2>1. \A x : {x} # {}
    BY Zenon
  <2> QED
    BY Zenon, <2>1 DEF Condition
<1>3. CASE h \in {<<>>, <<<<"*", AnyRev>>>>}
  BY Zenon, <1>3 DEF Headers
<1>4. ASSUME NEW e \in etags, h = <<e>>
      PROVE  h \in Headers
  BY Zenon, <1>1, <1>4 DEF Headers, formatETag
<1>5. ASSUME NEW e \in etags, h = <<<<"weak", e[2]>>>>
      PROVE  FALSE
  <2>1. Len(h) = 1 /\ h[1][1] = "weak"
    BY <1>5
  <2>2. parseIfMatch(h) = InvalidIfMatch
    BY <2>1 DEF parseIfMatch
  <2> QED
    BY <1>2, <2>2 DEF InvalidIfMatch
<1>6. ASSUME NEW e \in etags, h = <<e, e>>
      PROVE  FALSE
  <2>1. Len(h) = 2
    BY <1>6
  <2>2. parseIfMatch(h) = InvalidIfMatch
    BY <2>1 DEF parseIfMatch
  <2> QED
    BY <1>2, <2>2 DEF InvalidIfMatch
<1>7. \/ h \in {<<>>, <<<<"*", AnyRev>>>>}
      \/ \E e \in etags : h = <<e>> \/ h = <<<<"weak", e[2]>>>> \/ h = <<e, e>>
  BY Zenon DEF IfMatches, AnyRev
<1> QED
  BY <1>3, <1>4, <1>5, <1>6, <1>7, Zenon

(* What clients send to each handler.                                      *)
LEMMA SentFacts ==
    ASSUME NEW op \in Ops, NEW raw \in Sent(op)
    PROVE  /\ raw.op = op
           /\ op \notin Conditional => raw.ifMatch = <<>>
           /\ op \in Conditional => raw.ifMatch \in IfMatches
           /\ op = "createDB" => raw.defs \in Defs \cup {InvalidDefs}
           /\ op = "createDoc" => raw.body \in PostDocs \cup Bodies
           /\ op = "replaceDoc" => raw.body \in PutDocs \cup Bodies
           /\ op = "patchDoc" /\ Valid(raw) => raw.body \in Patch \cup {"unreadable", "large"}
<1> DEFINE Raw(names, ids, types, conds, bodies, defs) ==
               [op: {op}, db: names, id: ids, ctype: types, ifMatch: conds, body: bodies, defs: defs]
           Astray(ids, type) == Raw(DB \cup {BadName}, ids \cup {BadId}, {type, "text"}, {<<>>},
                                    {"malformed"}, {NoIndexes})
           Rest(ids, type, conds, bodies) == Raw(DB, ids, {type}, conds, bodies, {NoIndexes})
<1>1. CASE op = "createDB"
  <2>1. raw \in Raw(DB \cup {BadName}, {BadId}, {"json", "text"}, {<<>>},
                    {"unreadable", "large", "malformed", "good"}, Defs \cup {InvalidDefs})
    BY <1>1, Zenon DEF Sent
  <2> QED
    BY Zenon, <1>1, <2>1 DEF Conditional
<1>2. CASE op = "deleteDB"
  <2>1. raw \in Raw(DB \cup {BadName}, {BadId}, {"json"}, {<<>>}, {"good"}, {NoIndexes})
    BY <1>2, Zenon DEF Sent
  <2> QED
    BY Zenon, <1>2, <2>1 DEF Conditional
<1>3. CASE op = "createDoc"
  <2>1. raw \in Astray({}, "json") \cup Rest({BadId}, "json", {<<>>}, PostDocs \cup Bodies)
    BY <1>3, Zenon DEF Sent
  <2> QED
    BY Zenon, <1>3, <2>1 DEF Conditional, Bodies
<1>4. CASE op = "getDoc"
  <2>1. raw \in Raw(DB \cup {BadName}, Id \cup {BadId}, {"json"}, {<<>>}, {"good"}, {NoIndexes})
    BY <1>4, Zenon DEF Sent
  <2> QED
    BY Zenon, <1>4, <2>1 DEF Conditional
<1>5. <<>> \in IfMatches
  BY Zenon DEF IfMatches
<1>6. CASE op = "replaceDoc"
  <2>1. raw \in Astray(Id, "json") \cup Rest(Id, "json", IfMatches, PutDocs \cup Bodies)
    BY <1>6, Zenon DEF Sent
  <2> QED
    BY Zenon, <1>5, <1>6, <2>1 DEF Conditional, Bodies
<1>7. CASE op = "patchDoc"
  <2>1. raw \in {x \in Astray(Id, "patch") : ~Valid(x)}
                 \cup Rest(Id, "patch", IfMatches, Patch \cup {"unreadable", "large"})
    BY <1>7, Zenon DEF Sent
  <2> QED
    BY Zenon, <1>5, <1>7, <2>1 DEF Conditional
<1>8. CASE op = "deleteDoc"
  <2>1. raw \in {x \in Astray(Id, "json") : ~Valid(x)} \cup Rest(Id, "json", IfMatches, {"good"})
    BY <1>8, Zenon DEF Sent
  <2> QED
    BY Zenon, <1>5, <1>8, <2>1 DEF Conditional
<1> QED
  BY Zenon, <1>1, <1>2, <1>3, <1>4, <1>6, <1>7, <1>8 DEF Ops

(* A request that passes its checks is one the store may be called with.   *)
LEMMA SentAccepted ==
    ASSUME Types, Names, NEW op \in Ops, NEW raw \in Sent(op), Valid(raw)
    PROVE  Accepted(raw)
<1>0. raw.op = op
  BY Zenon, SentFacts
<1>1. \A x : {x} # {}
  BY Zenon
<1>2. raw.db \in DB /\ (op \in Conditional \cup {"getDoc"} => raw.id \in Id)
  <2>1. CASE op \in {"createDB", "deleteDB", "createDoc"}
    <3>1. Named(raw) = {}
      BY Zenon, <1>0, <2>1, ValidFacts
    <3> QED
      BY Zenon, <1>1, <2>1, <3>1 DEF Named, Conditional
  <2>2. CASE op \in Conditional \cup {"getDoc"}
    <3>1. validDocPath(raw) = {}
      BY Zenon, <1>0, <2>2, ValidFacts
    <3> QED
      BY ZenonT(30), <1>1, <3>1 DEF validDocPath
  <2> QED
    BY Zenon, <2>1, <2>2 DEF Ops, Conditional
<1>3. op = "createDB" => raw.defs \in Defs
  BY Zenon, <1>0, <1>1, SentFacts, ValidFacts DEF validateIndexes
<1>4. ASSUME op \in {"createDoc", "replaceDoc"}
      PROVE  raw.body \in Json
  <2>1. raw.body \in PostDocs \cup PutDocs \cup Bodies
    BY Zenon, <1>4, SentFacts
  <2>2. readBody(raw, "invalid_document") = {} /\ validateDoc(raw) = {}
    BY Zenon, <1>0, <1>4, ValidFacts
  <2> QED
    BY Zenon, <2>1, <2>2, BodyFacts, CallsAssumption DEF Bodies
<1>5. ASSUME op = "patchDoc"
      PROVE  raw.body \in Patch
  <2>1. raw.body \in Patch \cup {"unreadable", "large"}
    BY Zenon, <1>5, SentFacts
  <2>2. readBody(raw, "invalid_patch") = {}
    BY Zenon, <1>0, <1>5, ValidFacts
  <2> QED
    BY Zenon, <2>1, <2>2, BodyFacts
<1>6. raw.ifMatch \in Headers /\ (op \notin Conditional => raw.ifMatch = <<>>)
  <2>1. CASE op \in Conditional
    <3>1. raw.ifMatch \in IfMatches /\ Condition(raw) = {}
      BY Zenon, <1>0, <2>1, SentFacts, ValidFacts
    <3> QED
      BY Zenon, <2>1, <3>1, HeaderAccepted
  <2>2. CASE op \notin Conditional
    BY Zenon, <2>2, SentFacts DEF Headers
  <2> QED
    BY Zenon, <2>1, <2>2
<1> QED
  BY Zenon, <1>0, <1>2, <1>3, <1>4, <1>5, <1>6 DEF Accepted

-----------------------------------------------------------------------------
(* What the store does for a handler.                                      *)
Answers(c, res) ==
    calls' = [calls EXCEPT ![c] = [st |-> "done", req |-> calls[c].req, res |-> res]]

After(res, out) == res = Done(out) \/ res = Failed("errStoreUnavailable")

Refuses(raw, res) == dbs' = dbs /\ \E e \in Known(raw.op) : res = Failed(e)

Reads(raw, res) ==
    /\ raw.op = "getDoc" /\ dbs' = dbs
    /\ Doc(raw.db, raw.id) # NoDoc /\ res = Done(Doc(raw.db, raw.id))

Creates(raw, res) ==
    /\ raw.op = "createDB" /\ dbs[raw.db] = NoDoc
    /\ dbs' = [dbs EXCEPT ![raw.db] = [defs |-> raw.defs, docs |-> [i \in Id |-> NoDoc]]]
    /\ After(res, "created")

Drops(raw, res) ==
    /\ raw.op = "deleteDB" /\ dbs[raw.db] # NoDoc
    /\ dbs' = [dbs EXCEPT ![raw.db] = NoDoc]
    /\ After(res, "deleted")

(* Document i becomes doc, or goes where that is NoDoc.                    *)
Changes(raw, res, i, doc) ==
    LET old == dbs[raw.db].docs[i] IN
    /\ raw.op \in Conditional \cup {"createDoc"} /\ dbs[raw.db] # NoDoc
    /\ dbs' = [dbs EXCEPT ![raw.db] =
                 [defs |-> dbs[raw.db].defs, docs |-> [dbs[raw.db].docs EXCEPT ![i] = doc]]]
    /\ raw.op = "createDoc" => /\ old = NoDoc /\ doc # NoDoc /\ doc.json = raw.body
                               /\ After(res, [id |-> i, rev |-> doc.rev])
    /\ raw.op \in Conditional => /\ i = raw.id /\ old # NoDoc
                                 /\ matchRevision(parseIfMatch(raw.ifMatch).match, old.rev)
    /\ raw.op = "deleteDoc" => doc = NoDoc /\ After(res, "deleted")
    /\ raw.op \in {"replaceDoc", "patchDoc"} => doc # NoDoc /\ doc.rev # old.rev
    /\ raw.op = "replaceDoc" => doc.json = raw.body /\ After(res, doc.rev)
    /\ raw.op = "patchDoc" => After(res, doc)

Does(raw, res) ==
    \/ Refuses(raw, res) \/ Reads(raw, res) \/ Creates(raw, res) \/ Drops(raw, res)
    \/ \E i \in Id, doc \in StoredDoc \cup {NoDoc} : Changes(raw, res, i, doc)

Carries(c, raw) == \E res : Answers(c, res) /\ Does(raw, res)

(* An operation that the store refuses.                                    *)
LEMMA RefusedCarries ==
    ASSUME NEW c, NEW raw, NEW e \in Known(raw.op), Promised!Error(c, e)
    PROVE  Carries(c, raw)
<1>1. dbs' = dbs /\ Answers(c, Failed(e))
  BY Zenon DEF Promised!Error, Promised!Answer, Promised!Failed, Answers, Failed
<1> QED
  BY <1>1, Zenon DEF Carries, Does, Refuses

(* An operation that takes effect answers so, or with the one error that   *)
(* leaves it open.                                                         *)
LEMMA FinishedAnswers ==
    ASSUME NEW c, NEW out, Promised!Finish(c, out)
    PROVE  \E res : Answers(c, res) /\ After(res, out)
<1>1. Answers(c, Done(out)) \/ Answers(c, Failed("errStoreUnavailable"))
  BY Zenon DEF Promised!Finish, Promised!Answer, Promised!Failed, Promised!Done,
     Answers, Failed, Done
<1> QED
  BY <1>1, Zenon DEF After

(* The operations of these handlers are not those that list or page.       *)
LEMMA ListIsElsewhere ==
    ASSUME NEW c, NEW r, r.op \in Ops
    PROVE  ~Promised!ListDBs(c, r) /\ ~Promised!ReadPage(c, r) /\ ~Promised!Export(c, r)
BY Zenon DEF Ops, Promised!ListDBs, Promised!ReadPage, Promised!Export

(* createDB.                                                               *)
LEMMA CreateDBCarries ==
    ASSUME NEW c, NEW raw, Accepted(raw), Promised!CreateDB(c, StoreCall(raw))
    PROVE  Carries(c, raw)
<1> DEFINE r == StoreCall(raw)
<1>0. raw.op = "createDB" /\ r.db = raw.db /\ r.defs = raw.defs
  <2>1. r.op = "createDB"
    BY Zenon DEF Promised!CreateDB
  <2> QED
    BY <2>1, CallOf
<1>1. CASE Promised!Exists(r.db)
  <2>1. Promised!Error(c, "errDBExists")
    BY <1>1, Zenon DEF Promised!CreateDB
  <2> QED
    BY Zenon, <1>0, <2>1, RefusedCarries DEF Known
<1>2. CASE ~Promised!Exists(r.db)
  <2>1. /\ dbs' = [dbs EXCEPT ![r.db] = [defs |-> r.defs, docs |-> [i \in Id |-> NoDoc]]]
        /\ Promised!Finish(c, "created")
    BY <1>2, Zenon DEF Promised!CreateDB
  <2>2. PICK res : Answers(c, res) /\ After(res, "created")
    BY Zenon, <2>1, FinishedAnswers
  <2>3. Creates(raw, res)
    BY Zenon, <1>0, <1>2, <2>1, <2>2 DEF Creates, Promised!Exists
  <2> QED
    BY <2>2, <2>3, Zenon DEF Carries, Does
<1> QED
  BY Zenon, <1>1, <1>2

(* deleteDB.                                                               *)
LEMMA DeleteDBCarries ==
    ASSUME NEW c, NEW raw, Accepted(raw), Promised!DeleteDB(c, StoreCall(raw))
    PROVE  Carries(c, raw)
<1> DEFINE r == StoreCall(raw)
<1>0. r.op = "deleteDB" /\ r.op = raw.op /\ r.db = raw.db
  BY Zenon, CallOf DEF Promised!DeleteDB
<1>1. /\ dbs[r.db] # NoDoc
      /\ dbs' = [dbs EXCEPT ![r.db] = NoDoc]
      /\ Promised!Finish(c, "deleted")
  BY Zenon DEF Promised!DeleteDB, Promised!Exists
<1>2. PICK res : Answers(c, res) /\ After(res, "deleted")
  BY Zenon, <1>1, FinishedAnswers
<1>3. Drops(raw, res)
  BY Zenon, <1>0, <1>1, <1>2 DEF Drops
<1> QED
  BY <1>2, <1>3, Zenon DEF Carries, Does

(* A database that is not there, and what fails for reasons of its own.    *)
LEMMA FailureCarries ==
    ASSUME NEW c, NEW raw, Accepted(raw),
           Promised!NoSuchDB(c, StoreCall(raw)) \/ Promised!Fail(c, StoreCall(raw))
    PROVE  Carries(c, raw)
<1> DEFINE r == StoreCall(raw)
<1>0. r.op = raw.op /\ r.op \in Ops
  BY Zenon, CallOf DEF Accepted
<1>1. CASE Promised!NoSuchDB(c, r)
  <2>1. r.op # "createDB" /\ Promised!Error(c, Promised!MissingDB(r.op))
    BY <1>1, Zenon DEF Promised!NoSuchDB
  <2>2. Promised!MissingDB(r.op) \in Known(raw.op)
    BY Zenon, <1>0, <2>1 DEF Promised!MissingDB, Known, Ops, Conditional
  <2> QED
    BY Zenon, <2>1, <2>2, RefusedCarries
<1>2. CASE Promised!Fail(c, r)
  <2>1. PICK e \in Promised!Failures(r.op) : Promised!Error(c, e)
    BY <1>2, Zenon DEF Promised!Fail
  <2>2. e \in Known(raw.op)
    BY Zenon, <1>0 DEF Promised!Failures, Known, Ops
  <2> QED
    BY Zenon, <2>1, <2>2, RefusedCarries
<1> QED
  BY Zenon, <1>1, <1>2

(* The documents of a database.                                            *)
LEMMA DatabaseFacts ==
    ASSUME Types, NEW d \in DB, dbs[d] # NoDoc
    PROVE  /\ dbs[d] = [defs |-> dbs[d].defs, docs |-> dbs[d].docs] /\ dbs[d].defs \in Schema
           /\ dbs[d].docs \in [Id -> StoredDoc \cup {NoDoc}]
<1>1. dbs[d] \in Promised!Database
  BY Zenon DEF Types
<1>2. dbs[d] \in [defs: Schema, docs: [Id -> StoredDoc \cup {NoDoc}]]
  BY <1>1, Zenon DEF Promised!Database, Promised!Schema, Promised!StoredDoc, Schema,
     StoredDoc
<1> QED
  BY Zenon, <1>2

(* createDoc.                                                              *)
LEMMA InsertCarries ==
    ASSUME Types, NEW c, NEW raw, Accepted(raw), Promised!Insert(c, StoreCall(raw))
    PROVE  Carries(c, raw)
<1> DEFINE r == StoreCall(raw)
           docs == dbs[raw.db].docs
<1>0. /\ raw.op = "createDoc" /\ r.op = "createDoc" /\ r.docs = <<raw.body>> /\ r.db = raw.db
      /\ raw.db \in DB /\ raw.body \in Json /\ dbs[raw.db] # NoDoc
  <2>1. r.op \in {"createDoc", "importDocs"} /\ Promised!Exists(r.db)
    BY Zenon DEF Promised!Insert
  <2> QED
    BY Zenon, <2>1, CallOf DEF Accepted, Ops, Promised!Exists
<1>1. CASE \E k \in DOMAIN r.docs : Promised!Invalid(Promised!indexValues(r.docs[k], dbs[r.db].defs))
  <2>1. Promised!Error(c, "errInvalidIndexValue")
    BY <1>1, Zenon DEF Promised!Insert
  <2> QED
    BY Zenon, <1>0, <2>1, RefusedCarries DEF Known
<1>2. CASE ~\E k \in DOMAIN r.docs : Promised!Invalid(Promised!indexValues(r.docs[k], dbs[r.db].defs))
  <2>1. PICK ids \in Promised!Injection(DOMAIN r.docs, Id \ Promised!Docs(r.db)),
             revs \in [DOMAIN r.docs -> Rev] :
          /\ Promised!SetDocs(r.db, [i \in Id |->
                       IF \E k \in DOMAIN ids : ids[k] = i
                       THEN LET k == CHOOSE k \in DOMAIN ids : ids[k] = i
                            IN  [json |-> r.docs[k], rev |-> revs[k]]
                       ELSE dbs[r.db].docs[i]])
          /\ Promised!Finish(c, Promised!Inserted(r, ids, revs))
    BY <1>2, Zenon DEF Promised!Insert
  <2> DEFINE doc == [json |-> raw.body, rev |-> revs[1]]
             new == [i \in Id |-> IF \E k \in DOMAIN ids : ids[k] = i
                                  THEN LET k == CHOOSE k \in DOMAIN ids : ids[k] = i
                                       IN  [json |-> r.docs[k], rev |-> revs[k]]
                                  ELSE dbs[r.db].docs[i]]
  <2>2. DOMAIN r.docs = {1} /\ r.docs[1] = raw.body
    BY <1>0
  <2>3. ids \in [{1} -> Id \ Promised!Docs(r.db)] /\ revs[1] \in Rev
    BY Zenon, <2>1, <2>2 DEF Promised!Injection
  <2>4. ids[1] \in Id /\ docs[ids[1]] = NoDoc /\ DOMAIN ids = {1}
    BY Zenon, <1>0, <2>3 DEF Promised!Docs
  <2>5. doc \in StoredDoc /\ doc # NoDoc
    BY <1>0, <2>3, CallsAssumption DEF StoredDoc
  <2>6. docs \in [Id -> StoredDoc \cup {NoDoc}]
    BY Zenon, <1>0, DatabaseFacts
  <2>7. new = [docs EXCEPT ![ids[1]] = doc]
    <3>1. ASSUME NEW i \in Id
          PROVE  new[i] = [docs EXCEPT ![ids[1]] = doc][i]
      <4>1. CASE i = ids[1]
        <5>1. \E k \in DOMAIN ids : ids[k] = i
          BY Zenon, <2>4, <4>1
        <5>2. (CHOOSE k \in DOMAIN ids : ids[k] = i) = 1
          BY Zenon, <2>4, <5>1
        <5>3. new[i] = [json |-> r.docs[1], rev |-> revs[1]]
          BY <5>1, <5>2, Zenon
        <5> QED
          BY Zenon, <2>2, <2>6, <4>1, <5>3
      <4>2. CASE i # ids[1]
        <5>1. ~\E k \in DOMAIN ids : ids[k] = i
          BY Zenon, <2>4, <4>2
        <5>2. new[i] = docs[i]
          BY <1>0, <5>1, Zenon
        <5> QED
          BY Zenon, <2>6, <4>2, <5>2
      <4> QED
        BY Zenon, <4>1, <4>2
    <3> HIDE DEF doc
    <3> QED
      BY Zenon, <2>6, <3>1
  <2>8. dbs' = [dbs EXCEPT ![raw.db] = [defs |-> dbs[raw.db].defs, docs |-> new]]
    BY Zenon, <1>0, <2>1 DEF Promised!SetDocs
  <2>9. Promised!Inserted(r, ids, revs) = [id |-> ids[1], rev |-> doc.rev]
    BY Zenon, <1>0 DEF Promised!Inserted
  <2>10. PICK res : Answers(c, res) /\ After(res, [id |-> ids[1], rev |-> doc.rev])
    BY <2>1, <2>9, FinishedAnswers, Zenon
  <2>11. Changes(raw, res, ids[1], doc)
    <3>1. dbs' = [dbs EXCEPT ![raw.db] = [defs |-> dbs[raw.db].defs,
                                          docs |-> [docs EXCEPT ![ids[1]] = doc]]]
      BY <2>7, <2>8, Zenon
    <3>2. doc.json = raw.body
      BY Zenon
    <3> HIDE DEF doc
    <3> QED
      BY Zenon, <1>0, <2>4, <2>5, <2>10, <3>1, <3>2 DEF Changes, Conditional
  <2> QED
    BY <2>4, <2>5, <2>10, <2>11, Zenon DEF Carries, Does
<1> QED
  BY Zenon, <1>1, <1>2

(* getDoc, replaceDoc, patchDoc and deleteDoc.                             *)
LEMMA OnDocCarries ==
    ASSUME Types, NEW c, NEW raw, Accepted(raw), Promised!OnDoc(c, StoreCall(raw))
    PROVE  Carries(c, raw)
<1> DEFINE r == StoreCall(raw)
           doc == dbs[raw.db].docs[raw.id]
           defs == dbs[raw.db].defs
<1>0. /\ raw.op \in Conditional \cup {"getDoc"} /\ r.op = raw.op /\ r.db = raw.db /\ r.id = raw.id
      /\ raw.op \in Conditional => r.match = parseIfMatch(raw.ifMatch).match
      /\ raw.op = "replaceDoc" => r.json = raw.body
      /\ raw.op = "patchDoc" => r.patch = raw.body
      /\ raw.db \in DB /\ raw.id \in Id /\ dbs[raw.db] # NoDoc
  <2>1. r.op \in {"getDoc", "replaceDoc", "patchDoc", "deleteDoc"} /\ Promised!Exists(r.db)
    BY Zenon DEF Promised!OnDoc
  <2> QED
    BY Zenon, <2>1, CallOf DEF Accepted, Promised!Exists, Conditional
<1>1. \/ doc = NoDoc /\ Promised!Error(c, "errDocNotFound")
      \/ doc # NoDoc /\ r.op = "getDoc" /\ Promised!Answer(c, Promised!Done(doc)) /\ UNCHANGED dbs
      \/ doc # NoDoc /\ r.op # "getDoc" /\ Promised!Error(c, "errPreconditionFailed")
      \/ /\ doc # NoDoc /\ r.op = "deleteDoc" /\ Promised!matchRevision(r.match, doc.rev)
         /\ Promised!Put(raw.db, raw.id, NoDoc) /\ Promised!Finish(c, "deleted")
      \/ /\ doc # NoDoc /\ r.op \in {"replaceDoc", "patchDoc"}
         /\ Promised!matchRevision(r.match, doc.rev)
         /\ LET json == Promised!Updated(r, doc)
            IN  IF json = InvalidPatch THEN Promised!Error(c, "errInvalidPatch")
                ELSE IF Promised!Invalid(Promised!indexValues(json, defs))
                THEN Promised!Error(c, "errInvalidIndexValue")
                ELSE \E rev \in Promised!makeRevision({doc.rev}) :
                       /\ Promised!Put(raw.db, raw.id, [json |-> json, rev |-> rev])
                       /\ Promised!Finish(c, Promised!Written(r, [json |-> json, rev |-> rev]))
  BY <1>0, Zenon DEF Promised!OnDoc
<1>2. CASE doc = NoDoc /\ Promised!Error(c, "errDocNotFound")
  BY Zenon, <1>0, <1>2, RefusedCarries DEF Known
<1>3. CASE doc # NoDoc /\ r.op = "getDoc" /\ Promised!Answer(c, Promised!Done(doc)) /\ UNCHANGED dbs
  <2>1. Answers(c, Done(doc))
    BY Zenon, <1>3 DEF Promised!Answer, Promised!Done, Answers, Done
  <2>2. Reads(raw, Done(doc))
    BY Zenon, <1>0, <1>3 DEF Reads, Doc
  <2> QED
    BY <2>1, <2>2, Zenon DEF Carries, Does
<1>4. CASE doc # NoDoc /\ r.op # "getDoc" /\ Promised!Error(c, "errPreconditionFailed")
  <2>1. "errPreconditionFailed" \in Known(raw.op)
    BY Zenon, <1>0, <1>4 DEF Known
  <2> QED
    BY Zenon, <1>4, <2>1, RefusedCarries
<1>5. CASE /\ doc # NoDoc /\ r.op = "deleteDoc" /\ Promised!matchRevision(r.match, doc.rev)
           /\ Promised!Put(raw.db, raw.id, NoDoc) /\ Promised!Finish(c, "deleted")
  <2>1. PICK res : Answers(c, res) /\ After(res, "deleted")
    BY Zenon, <1>5, FinishedAnswers
  <2>2. dbs' = [dbs EXCEPT ![raw.db] = [defs |-> defs, docs |-> [dbs[raw.db].docs EXCEPT ![raw.id] = NoDoc]]]
    BY Zenon, <1>5 DEF Promised!Put, Promised!SetDocs
  <2>3. matchRevision(parseIfMatch(raw.ifMatch).match, doc.rev)
    BY Zenon, <1>0, <1>5 DEF matchRevision, Promised!matchRevision, Conditional
  <2>4. Changes(raw, res, raw.id, NoDoc)
    BY Zenon, <1>0, <1>5, <2>1, <2>2, <2>3 DEF Changes, Conditional
  <2> QED
    BY <1>0, <2>1, <2>4, Zenon DEF Carries, Does
<1>6. CASE /\ doc # NoDoc /\ r.op \in {"replaceDoc", "patchDoc"}
           /\ Promised!matchRevision(r.match, doc.rev)
           /\ LET json == Promised!Updated(r, doc)
              IN  IF json = InvalidPatch THEN Promised!Error(c, "errInvalidPatch")
                  ELSE IF Promised!Invalid(Promised!indexValues(json, defs))
                  THEN Promised!Error(c, "errInvalidIndexValue")
                  ELSE \E rev \in Promised!makeRevision({doc.rev}) :
                         /\ Promised!Put(raw.db, raw.id, [json |-> json, rev |-> rev])
                         /\ Promised!Finish(c, Promised!Written(r, [json |-> json, rev |-> rev]))
  <2> DEFINE json == Promised!Updated(r, doc)
  <2>0. doc # NoDoc /\ raw.op \in {"replaceDoc", "patchDoc"}
    BY Zenon, <1>0, <1>6
  <2>1. CASE json = InvalidPatch
    <3>1. Promised!Error(c, "errInvalidPatch")
      BY <1>6, <2>1, Zenon
    <3>2. raw.op = "patchDoc"
      BY Zenon, <1>0, <2>0, <2>1, DataAssumption DEF Promised!Updated, Accepted
    <3> QED
      BY Zenon, <3>1, <3>2, RefusedCarries DEF Known
  <2>2. CASE json # InvalidPatch /\ Promised!Invalid(Promised!indexValues(json, defs))
    <3>1. Promised!Error(c, "errInvalidIndexValue")
      BY <1>6, <2>2, Zenon
    <3> QED
      BY Zenon, <2>0, <3>1, RefusedCarries DEF Known
  <2>3. CASE json # InvalidPatch /\ ~Promised!Invalid(Promised!indexValues(json, defs))
    <3>1. PICK rev \in Promised!makeRevision({doc.rev}) :
            /\ Promised!Put(raw.db, raw.id, [json |-> json, rev |-> rev])
            /\ Promised!Finish(c, Promised!Written(r, [json |-> json, rev |-> rev]))
      BY <1>6, <2>3, Zenon
    <3> DEFINE new == [json |-> json, rev |-> rev]
    <3>2. rev \in Rev /\ rev # doc.rev
      BY Zenon, <3>1 DEF Promised!makeRevision
    <3>3. json \in Json
      <4>1. CASE raw.op = "replaceDoc"
        BY Zenon, <1>0, <4>1 DEF Promised!Updated, Accepted
      <4>2. CASE raw.op = "patchDoc"
        <5>1. json = PatchOf[raw.body][doc.json] /\ raw.body \in Patch
          BY Zenon, <1>0, <4>2 DEF Promised!Updated, Accepted
        <5>2. doc.json \in Json
          <6>1. doc \in StoredDoc
            BY Zenon, <1>0, <2>0, DatabaseFacts
          <6> QED
            BY Zenon, <6>1 DEF StoredDoc
        <5>3. PatchOf \in [Patch -> [Json -> Json \cup {InvalidPatch}]]
          BY Zenon, DataAssumption
        <5>4. PatchOf[raw.body][doc.json] \in Json \cup {InvalidPatch}
          BY Zenon, <5>1, <5>2, <5>3
        <5> QED
          BY Zenon, <2>3, <5>1, <5>4
      <4> QED
        BY Zenon, <2>0, <4>1, <4>2
    <3>4. new \in StoredDoc /\ new # NoDoc
      BY SMTT(30), <3>2, <3>3, CallsAssumption DEF StoredDoc
    <3>5. dbs' = [dbs EXCEPT ![raw.db] = [defs |-> defs, docs |-> [dbs[raw.db].docs EXCEPT ![raw.id] = new]]]
      BY Zenon, <3>1 DEF Promised!Put, Promised!SetDocs
    <3>6. PICK res : Answers(c, res) /\ After(res, Promised!Written(r, new))
      BY Zenon, <3>1, FinishedAnswers
    <3>7. /\ raw.op = "replaceDoc" => new.json = raw.body /\ After(res, new.rev)
          /\ raw.op = "patchDoc" => After(res, new)
      BY Zenon, <1>0, <3>6 DEF Promised!Written, Promised!Updated
    <3>8. matchRevision(parseIfMatch(raw.ifMatch).match, doc.rev)
      BY Zenon, <1>0, <1>6 DEF matchRevision, Promised!matchRevision, Conditional
    <3>9. new.rev # doc.rev
      BY Zenon, <3>2
    <3>10. Changes(raw, res, raw.id, new)
      <4> HIDE DEF new, json
      <4> QED
        BY Zenon, <1>0, <2>0, <3>4, <3>5, <3>7, <3>8, <3>9 DEF Changes, Conditional
    <3> QED
      BY <1>0, <3>4, <3>6, <3>10, Zenon DEF Carries, Does
  <2> QED
    BY Zenon, <2>1, <2>2, <2>3
<1> QED
  BY Zenon, <1>1, <1>2, <1>3, <1>4, <1>5, <1>6

(* Whatever the store does for a handler is one of these.                  *)
LEMMA ExecuteCarries ==
    ASSUME Types, NEW c, NEW raw, Accepted(raw), calls[c].req = StoreCall(raw), Promised!Execute(c)
    PROVE  Carries(c, raw)
<1> DEFINE r == StoreCall(raw)
<1>1. r.op \in Ops
  BY Zenon, CallOf DEF Accepted
<1>2. \/ Promised!CreateDB(c, r) \/ Promised!DeleteDB(c, r) \/ Promised!ListDBs(c, r)
      \/ Promised!NoSuchDB(c, r) \/ Promised!Insert(c, r) \/ Promised!ReadPage(c, r)
      \/ Promised!Export(c, r) \/ Promised!OnDoc(c, r) \/ Promised!Fail(c, r)
  BY Zenon DEF Promised!Execute
<1> QED
  BY <1>1, <1>2, ListIsElsewhere, CreateDBCarries, DeleteDBCarries, FailureCarries,
     InsertCarries,
     OnDocCarries, Zenon

-----------------------------------------------------------------------------
(* What a request may do to the documents.                                 *)

Wrote(d, i) == Doc(d, i)' \notin {NoDoc, Doc(d, i)}

(* A step writes one document at most, apart from those it removes.        *)
OneWrite == \A d, e \in DB, i, j \in Id : Wrote(d, i) /\ Wrote(e, j) => d = e /\ i = j

(* A conditional request that has an effect has it on a document that      *)
(* meets its condition, and that is gone or has a new revision afterwards. *)
Met(raw) ==
    LET doc == Doc(raw.db, raw.id) IN
    /\ doc # NoDoc /\ matchRevision(parseIfMatch(raw.ifMatch).match, doc.rev)
    /\ Doc(raw.db, raw.id)' = NoDoc \/ Doc(raw.db, raw.id)'.rev # doc.rev

(* The documents are of the right type.                                    *)
LEMMA DocType ==
    ASSUME Types, NEW d \in DB, NEW i \in Id
    PROVE  Doc(d, i) \in StoredDoc \cup {NoDoc}
BY Zenon, DatabaseFacts DEF Doc

(* Where the databases stay as they are, so do the documents.              *)
LEMMA SameDocs ==
    ASSUME dbs' = dbs
    PROVE  \A d \in DB, i \in Id : Doc(d, i)' = Doc(d, i)
BY Zenon DEF Doc

(* The documents there are, now and after a step.                          *)
LEMMA CurrentHas ==
    ASSUME NEW d \in DB, NEW i \in Id
    PROVE  /\ Doc(d, i) # NoDoc => DocFact(d, i) \in Current
           /\ Doc(d, i)' # NoDoc => DocFact(d, i)' \in Current'
<1> DEFINE x == <<d, i>>
<1>1. x \in DB \X Id /\ x[1] = d /\ x[2] = i
  BY Zenon
<1>2. ASSUME Doc(d, i) # NoDoc
      PROVE  DocFact(d, i) \in Current
  <2>1. Doc(x[1], x[2]) # NoDoc /\ DocFact(d, i) = DocFact(x[1], x[2])
    BY <1>1, <1>2, Zenon
  <2> HIDE DEF x
  <2> QED
    BY <1>1, <2>1, Zenon DEF Current
<1>3. ASSUME Doc(d, i)' # NoDoc
      PROVE  DocFact(d, i)' \in Current'
  <2>1. Doc(x[1], x[2])' # NoDoc /\ DocFact(d, i)' = DocFact(x[1], x[2])'
    BY Zenon, <1>1, <1>3 DEF DocFact, Doc, formatETag
  <2> HIDE DEF x
  <2> QED
    BY <1>1, <2>1, Zenon DEF Current
<1> QED
  BY Zenon, <1>2, <1>3

(* Every current fact is that of a document in the store, before a step    *)
(* and after it.                                                           *)
LEMMA CurrentIs ==
    /\ \A s \in Current : \E d \in DB, i \in Id : Doc(d, i) # NoDoc /\ s = DocFact(d, i)
    /\ \A s \in Current' : \E d \in DB, i \in Id : Doc(d, i)' # NoDoc /\ s = DocFact(d, i)'
<1>1. ASSUME NEW s \in Current
      PROVE  \E d \in DB, i \in Id : Doc(d, i) # NoDoc /\ s = DocFact(d, i)
  <2>1. PICK x \in DB \X Id : Doc(x[1], x[2]) # NoDoc /\ s = DocFact(x[1], x[2])
    BY Zenon DEF Current
  <2>2. x[1] \in DB /\ x[2] \in Id
    BY Zenon
  <2> QED
    BY <2>1, <2>2, Zenon
<1>2. ASSUME NEW s \in Current'
      PROVE  \E d \in DB, i \in Id : Doc(d, i)' # NoDoc /\ s = DocFact(d, i)'
  <2>1. PICK x \in DB \X Id : Doc(x[1], x[2])' # NoDoc /\ s = DocFact(x[1], x[2])'
    BY Zenon DEF Current
  <2>2. x[1] \in DB /\ x[2] \in Id
    BY Zenon
  <2> QED
    BY <2>1, <2>2, Zenon
<1> QED
  BY Zenon, <1>1, <1>2

(* A request that is refused or reads changes nothing.                     *)
LEMMA RefusedOrRead ==
    ASSUME Types, NEW raw, Accepted(raw), NEW res, Refuses(raw, res) \/ Reads(raw, res)
    PROVE  /\ dbs' = dbs
           /\ Settled(res.err, raw.op, FALSE)
           /\ res.err = "nil" => Shows(raw, res.out) \subseteq Current
<1>1. CASE Refuses(raw, res)
  <2>1. dbs' = dbs /\ res.err \in Known(raw.op)
    BY <1>1 DEF Refuses, Failed
  <2>2. "nil" \notin Known(raw.op)
    BY Zenon DEF Known
  <2> QED
    BY Zenon, <2>1, <2>2 DEF Settled
<1>2. CASE Reads(raw, res)
  <2> DEFINE doc == Doc(raw.db, raw.id)
  <2>1. /\ dbs' = dbs /\ res.err = "nil" /\ res.out = doc /\ raw.op = "getDoc" /\ doc # NoDoc
        /\ raw.db \in DB /\ raw.id \in Id
    BY Zenon, <1>2 DEF Reads, Done, Accepted, Conditional
  <2>2. Shows(raw, res.out) = {DocFact(raw.db, raw.id)}
    BY <2>1, Zenon DEF Shows, DocFact
  <2>3. DocFact(raw.db, raw.id) \in Current
    BY Zenon, <2>1, CurrentHas
  <2> QED
    BY Zenon, <2>1, <2>2, <2>3 DEF Settled, Writes
<1> QED
  BY Zenon, <1>1, <1>2

(* A database that is created or removed.                                  *)
LEMMA CreatedOrDropped ==
    ASSUME Types, NEW raw, Accepted(raw), NEW res, Creates(raw, res) \/ Drops(raw, res)
    PROVE  /\ dbs' # dbs /\ dbs' \in [DB -> Promised!Database \cup {NoDoc}]
           /\ Settled(res.err, raw.op, TRUE)
           /\ res.err = "nil" => Shows(raw, res.out) = {}
           /\ \A d \in DB, i \in Id : Doc(d, i)' \in {NoDoc, Doc(d, i)}
<1>0. raw.db \in DB /\ dbs \in [DB -> Promised!Database \cup {NoDoc}]
  BY Zenon DEF Accepted, Types
<1>1. CASE Creates(raw, res)
  <2> DEFINE new == [defs |-> raw.defs, docs |-> [i \in Id |-> NoDoc]]
  <2>1. /\ raw.op = "createDB" /\ dbs[raw.db] = NoDoc /\ dbs' = [dbs EXCEPT ![raw.db] = new]
        /\ res.err \in {"nil", "errStoreUnavailable"}
    BY <1>1 DEF Creates, After, Done, Failed
  <2>2. raw.defs \in Schema
    <3>1. StoreCall(raw) \in Request /\ StoreCall(raw) = [op |-> raw.op, db |-> raw.db, defs |-> raw.defs]
      BY Zenon, <2>1, CallOf, CallsAssumption, RequestAssumption
    <3>2. StoreCall(raw).op = "createDB" /\ StoreCall(raw).defs = raw.defs
      BY SMTT(30), <2>1, <3>1
    <3> QED
      BY Zenon, <3>1, <3>2 DEF Request
  <2>3. new \in [defs: Schema, docs: [Id -> StoredDoc \cup {NoDoc}]]
    BY Zenon, <2>2
  <2>4. new \in Promised!Database /\ new # NoDoc
    BY Zenon, <2>3, CallsAssumption DEF Promised!Database, Promised!Schema,
       Promised!StoredDoc, Schema, StoredDoc
  <2>5. ASSUME NEW d \in DB, NEW i \in Id
        PROVE  Doc(d, i)' \in {NoDoc, Doc(d, i)}
    <3>1. CASE d = raw.db
      BY Zenon, <1>0, <2>1, <3>1 DEF Doc
    <3>2. CASE d # raw.db
      BY Zenon, <1>0, <2>1, <3>2 DEF Doc
    <3> QED
      BY Zenon, <3>1, <3>2
  <2>6. dbs' # dbs /\ dbs' \in [DB -> Promised!Database \cup {NoDoc}]
    <3> HIDE DEF new
    <3> QED
      BY Zenon, <1>0, <2>1, <2>4
  <2>7. Settled(res.err, raw.op, TRUE)
    BY Zenon, <2>1 DEF Settled, Known
  <2>8. Shows(raw, res.out) = {}
    BY <2>1, Zenon DEF Shows
  <2> QED
    BY Zenon, <2>5, <2>6, <2>7, <2>8
<1>2. CASE Drops(raw, res)
  <2>1. /\ raw.op = "deleteDB" /\ dbs[raw.db] # NoDoc /\ dbs' = [dbs EXCEPT ![raw.db] = NoDoc]
        /\ res.err \in {"nil", "errStoreUnavailable"}
    BY <1>2 DEF Drops, After, Done, Failed
  <2>2. ASSUME NEW d \in DB, NEW i \in Id
        PROVE  Doc(d, i)' \in {NoDoc, Doc(d, i)}
    BY Zenon, <1>0, <2>1 DEF Doc
  <2>3. dbs' # dbs /\ dbs' \in [DB -> Promised!Database \cup {NoDoc}]
    BY Zenon, <1>0, <2>1
  <2>4. Settled(res.err, raw.op, TRUE)
    BY Zenon, <2>1 DEF Settled, Known
  <2>5. Shows(raw, res.out) = {}
    BY <2>1, Zenon DEF Shows
  <2> QED
    BY Zenon, <2>2, <2>3, <2>4, <2>5
<1> QED
  BY Zenon, <1>1, <1>2

(* A document that is written or removed.                                  *)
LEMMA ChangedDoc ==
    ASSUME Types, NEW raw, Accepted(raw), NEW res, NEW i \in Id, NEW doc \in StoredDoc \cup {NoDoc},
           Changes(raw, res, i, doc)
    PROVE  /\ dbs' # dbs /\ dbs' \in [DB -> Promised!Database \cup {NoDoc}]
           /\ Settled(res.err, raw.op, TRUE)
           /\ res.err = "nil" => Shows(raw, res.out) \subseteq Current'
           /\ OneWrite
           /\ raw.op \in Conditional => Met(raw)
<1> DEFINE d == raw.db
           docs == dbs[d].docs
           new == [defs |-> dbs[d].defs, docs |-> [docs EXCEPT ![i] = doc]]
<1>0. d \in DB /\ dbs \in [DB -> Promised!Database \cup {NoDoc}]
  BY Zenon DEF Accepted, Types
<1>1. dbs[d] # NoDoc /\ dbs' = [dbs EXCEPT ![d] = new]
  BY Zenon DEF Changes
<1>2. docs \in [Id -> StoredDoc \cup {NoDoc}] /\ dbs[d].defs \in Schema
  BY Zenon, <1>0, <1>1, DatabaseFacts
<1>3. new \in [defs: Schema, docs: [Id -> StoredDoc \cup {NoDoc}]]
  BY Zenon, <1>2
<1>4. new \in Promised!Database /\ new # NoDoc
  BY <1>3, CallsAssumption, Zenon
     DEF Promised!Database, Promised!Schema, Promised!StoredDoc, Schema, StoredDoc
<1>5. dbs'[d] = new /\ \A e \in DB \ {d} : dbs'[e] = dbs[e]
  BY Zenon, <1>0, <1>1
<1>6. Doc(d, i) = docs[i] /\ Doc(d, i)' = doc
  <2>1. Doc(d, i)' = new.docs[i]
    BY <1>4, <1>5, Zenon DEF Doc
  <2> QED
    BY Zenon, <1>1, <1>2, <2>1 DEF Doc
<1>7. ASSUME NEW e \in DB, NEW j \in Id, e # d \/ j # i
      PROVE  Doc(e, j)' = Doc(e, j)
  <2>1. CASE e # d
    BY Zenon, <1>5, <2>1 DEF Doc
  <2>2. CASE e = d /\ j # i
    <3>1. Doc(d, j)' = new.docs[j]
      BY <1>4, <1>5, Zenon DEF Doc
    <3> QED
      BY Zenon, <1>1, <1>2, <2>2, <3>1 DEF Doc
  <2> QED
    BY Zenon, <1>7, <2>1, <2>2
<1>8. doc # docs[i]
  BY Zenon DEF Changes, Conditional
<1>9. dbs' # dbs /\ dbs' \in [DB -> Promised!Database \cup {NoDoc}]
  <2>1. dbs' # dbs
    BY <1>6, <1>8, Zenon DEF Doc
  <2> HIDE DEF new
  <2> QED
    BY Zenon, <1>0, <1>1, <1>4, <2>1
<1>10. res.err \in {"nil", "errStoreUnavailable"} /\ raw.op \in Conditional \cup {"createDoc"}
  BY SMTT(30) DEF Changes, After, Done, Failed, Conditional
<1>11. Settled(res.err, raw.op, TRUE)
  BY Zenon, <1>10 DEF Settled, Known
<1>12. OneWrite
  BY Zenon, <1>7 DEF OneWrite, Wrote
<1>13. ASSUME raw.op \in Conditional
       PROVE  Met(raw)
  <2>1. i = raw.id /\ docs[i] # NoDoc /\ matchRevision(parseIfMatch(raw.ifMatch).match, docs[i].rev)
    BY <1>13, Zenon DEF Changes
  <2>2. doc = NoDoc \/ doc.rev # docs[i].rev
    BY Zenon, <1>13 DEF Changes, Conditional
  <2> QED
    BY <1>6, <2>1, <2>2, Zenon DEF Met
<1>14. ASSUME res.err = "nil", NEW s \in Shows(raw, res.out)
       PROVE  s \in Current'
  <2>1. \A out : After(res, out) => res.out = out
    BY <1>14 DEF After, Done, Failed
  <2>2. DocFact(d, i)' = [etag |-> formatETag(doc.rev), db |-> d, id |-> i, json |-> doc.json]
    BY <1>6, Zenon DEF DocFact, formatETag
  <2>3. doc # NoDoc => DocFact(d, i)' \in Current'
    BY Zenon, <1>0, <1>6, CurrentHas
  <2>4. CASE raw.op = "createDoc"
    <3>1. /\ doc # NoDoc /\ doc.json = raw.body
          /\ After(res, [id |-> i, rev |-> doc.rev])
      BY <2>4, Zenon DEF Changes
    <3>2. res.out.id = i /\ res.out.rev = doc.rev
      BY SMTT(30), <2>1, <3>1
    <3>3. Shows(raw, res.out) = {[etag |-> formatETag(res.out.rev), db |-> d, id |-> res.out.id,
                                  json |-> raw.body]}
      BY <2>4, Zenon DEF Shows
    <3>4. s = DocFact(d, i)'
      BY Zenon, <1>14, <2>2, <3>1, <3>2, <3>3
    <3> QED
      BY Zenon, <2>3, <3>1, <3>4
  <2>5. CASE raw.op = "replaceDoc"
    <3>1. doc # NoDoc /\ doc.json = raw.body /\ After(res, doc.rev) /\ i = raw.id
      BY Zenon, <2>5 DEF Changes, Conditional
    <3>2. Shows(raw, res.out) = {[etag |-> formatETag(res.out), db |-> d, id |-> raw.id,
                                  json |-> raw.body]}
      BY <2>5, Zenon DEF Shows
    <3>3. s = DocFact(d, i)'
      BY Zenon, <1>14, <2>1, <2>2, <3>1, <3>2
    <3> QED
      BY Zenon, <2>3, <3>1, <3>3
  <2>6. CASE raw.op = "patchDoc"
    <3>1. doc # NoDoc /\ After(res, doc) /\ i = raw.id
      BY Zenon, <2>6 DEF Changes, Conditional
    <3>2. Shows(raw, res.out) = {[etag |-> formatETag(res.out.rev), db |-> d, id |-> raw.id,
                                  json |-> res.out.json]}
      BY <2>6, Zenon DEF Shows
    <3>3. s = DocFact(d, i)'
      BY Zenon, <1>14, <2>1, <2>2, <3>1, <3>2
    <3> QED
      BY Zenon, <2>3, <3>1, <3>3
  <2>7. CASE raw.op = "deleteDoc"
    <3>1. Shows(raw, res.out) = {}
      BY <2>7, Zenon DEF Shows
    <3> QED
      BY Zenon, <1>14, <3>1
  <2> QED
    BY Zenon, <1>10, <2>4, <2>5, <2>6, <2>7 DEF Conditional
<1> QED
  BY Zenon, <1>9, <1>11, <1>12, <1>13, <1>14

(* What the handlers need to know of a step of the store.                  *)
Effect(c, raw, res) ==
    /\ Answers(c, res)
    /\ Settled(res.err, raw.op, dbs' # dbs)
    /\ res.err = "nil" => Shows(raw, res.out) \subseteq Current'
    /\ dbs' \in [DB -> Promised!Database \cup {NoDoc}]
    /\ OneWrite
    /\ dbs' # dbs /\ raw.op \in Conditional => Met(raw)

(* A step of the store on behalf of an accepted request: what it answers   *)
(* is so, and at most one document is written, under the condition of the  *)
(* request.                                                                *)
LEMMA ExecuteEffect ==
    ASSUME Types, NEW c, NEW raw, Accepted(raw), calls[c].req = StoreCall(raw), Promised!Execute(c)
    PROVE  \E res : Effect(c, raw, res)
<1>1. PICK res : Answers(c, res) /\ Does(raw, res)
  BY ExecuteCarries, Zenon DEF Carries
<1>2. CASE Refuses(raw, res) \/ Reads(raw, res)
  <2>1. /\ dbs' = dbs /\ Settled(res.err, raw.op, FALSE)
        /\ res.err = "nil" => Shows(raw, res.out) \subseteq Current
    BY Zenon, <1>2, RefusedOrRead
  <2>2. Current' = Current
    BY <2>1, Zenon DEF Current, DocFact, Doc
  <2>3. OneWrite
    BY Zenon, <2>1, SameDocs DEF OneWrite, Wrote
  <2>4. Settled(res.err, raw.op, dbs' # dbs)
    BY Zenon, <2>1 DEF Settled
  <2> QED
    BY Zenon, <1>1, <2>1, <2>2, <2>3, <2>4 DEF Effect, Types
<1>3. CASE Creates(raw, res) \/ Drops(raw, res)
  <2>1. /\ dbs' # dbs /\ dbs' \in [DB -> Promised!Database \cup {NoDoc}]
        /\ Settled(res.err, raw.op, TRUE)
        /\ res.err = "nil" => Shows(raw, res.out) = {}
        /\ \A d \in DB, i \in Id : Doc(d, i)' \in {NoDoc, Doc(d, i)}
    BY Zenon, <1>3, CreatedOrDropped
  <2>2. OneWrite
    BY Zenon, <2>1 DEF OneWrite, Wrote
  <2>3. Settled(res.err, raw.op, dbs' # dbs)
    BY Zenon, <2>1 DEF Settled
  <2>4. raw.op \notin Conditional
    BY Zenon, <1>3 DEF Creates, Drops, Conditional
  <2> QED
    BY Zenon, <1>1, <2>1, <2>2, <2>3, <2>4 DEF Effect
<1>4. ASSUME NEW i \in Id, NEW doc \in StoredDoc \cup {NoDoc}, Changes(raw, res, i, doc)
      PROVE  Effect(c, raw, res)
  <2>1. /\ dbs' # dbs /\ dbs' \in [DB -> Promised!Database \cup {NoDoc}]
        /\ Settled(res.err, raw.op, TRUE)
        /\ res.err = "nil" => Shows(raw, res.out) \subseteq Current'
        /\ OneWrite
        /\ raw.op \in Conditional => Met(raw)
    BY Zenon, <1>4, ChangedDoc
  <2>2. Settled(res.err, raw.op, dbs' # dbs)
    BY Zenon, <2>1 DEF Settled
  <2> QED
    BY Zenon, <1>1, <2>1, <2>2 DEF Effect
<1> QED
  BY <1>1, <1>2, <1>3, <1>4, Zenon DEF Does

-----------------------------------------------------------------------------
(* The inductive invariant.                                                *)

(* An empty store, and no request.                                         *)
LEMMA InitInv ==
    ASSUME Init
    PROVE  Inv
<1>1. /\ dbs = [d \in DB |-> NoDoc] /\ calls = [c \in Client |-> [st |-> "idle"]]
      /\ conn = [c \in Client |-> Quiet] /\ shown = {} /\ minted = {} /\ consumed = [r \in Rev |-> 0]
  BY Zenon DEF Init, Promised!Init, Promised!Idle
<1>2. \A c \in Client : conn[c] = Quiet /\ conn[c].st = "idle" /\ calls[c] = [st |-> "idle"]
  BY Zenon, <1>1 DEF Quiet
<1>3. Types
  <2>1. dbs \in [DB -> Promised!Database \cup {NoDoc}] /\ calls = [c \in Client |-> calls[c]]
    BY Zenon, <1>1
  <2>2. conn = [c \in Client |-> [st |-> conn[c].st, raw |-> conn[c].raw, hit |-> conn[c].hit,
                                  status |-> conn[c].status]]
    BY Zenon, <1>1 DEF Quiet
  <2>3. minted \subseteq Rev /\ consumed \in [Rev -> Nat]
    BY Zenon, <1>1
  <2> QED
    BY Zenon, <2>1, <2>2, <2>3 DEF Types
<1>4. \A c \in Client : Serves(c)
  BY Zenon, <1>2 DEF Serves
<1>5. Facts = {}
  <2>1. Current = {}
    BY Zenon, <1>1, CurrentIs DEF Doc
  <2>2. \A c \in Client : Pending(c) = {}
    BY Zenon, <1>2 DEF Pending
  <2> QED
    BY Zenon, <1>1, <2>1, <2>2 DEF Facts
<1>6. Names
  BY Zenon, <1>5 DEF Names
<1>7. Spent
  BY <1>1 DEF Spent
<1> QED
  BY Zenon, <1>3, <1>4, <1>6, <1>7 DEF Inv

(* The record of one goroutine changes.                                    *)
LEMMA ConnStep ==
    ASSUME Types, NEW c \in Client, NEW st, NEW raw, NEW hit, NEW status,
           conn' = [conn EXCEPT ![c] = [st |-> st, raw |-> raw, hit |-> hit, status |-> status]]
    PROVE  /\ conn' = [e \in Client |-> [st |-> conn'[e].st, raw |-> conn'[e].raw,
                                         hit |-> conn'[e].hit, status |-> conn'[e].status]]
           /\ conn'[c] = [st |-> st, raw |-> raw, hit |-> hit, status |-> status]
           /\ \A e \in Client \ {c} : conn'[e] = conn[e]
<1> DEFINE new == [st |-> st, raw |-> raw, hit |-> hit, status |-> status]
           Whole(x) == [st |-> x.st, raw |-> x.raw, hit |-> x.hit, status |-> x.status]
<1>1. conn = [e \in Client |-> Whole(conn[e])]
  BY Zenon DEF Types
<1>2. conn'[c] = new /\ \A e \in Client \ {c} : conn'[e] = conn[e]
  BY Zenon, <1>1
<1>3. Whole(new) = new
  BY Zenon
<1>4. \A e \in Client : conn[e] = Whole(conn[e])
  <2> HIDE DEF Whole
  <2> QED
    BY Zenon, <1>1
<1>5. conn' = [e \in Client |-> Whole(conn'[e])]
  <2>1. \A e \in Client : conn'[e] = Whole(conn'[e])
    <3> HIDE DEF Whole, new
    <3> QED
      BY Zenon, <1>2, <1>3, <1>4
  <2>2. conn' = [e \in Client |-> conn'[e]]
    <3> HIDE DEF Whole, new
    <3> QED
      BY Zenon, <1>1 DEF new
  <2> HIDE DEF Whole, new
  <2> QED
    BY Zenon, <2>1, <2>2
<1> QED
  BY Zenon, <1>2, <1>5

(* A goroutine that does not take a step.                                  *)
LEMMA OthersKeep ==
    ASSUME NEW e, Serves(e), conn'[e] = conn[e], calls'[e] = calls[e]
    PROVE  Serves(e)' /\ Pending(e)' = Pending(e)
<1>1. Serves(e)'
  BY Zenon DEF Serves
<1>2. Pending(e)' = Pending(e)
  BY Zenon DEF Pending
<1> QED
  BY Zenon, <1>1, <1>2

(* Facts may go, and revisions come.                                       *)
LEMMA NamesKeep ==
    ASSUME Names, Facts' \subseteq Facts, minted \subseteq minted'
    PROVE  Names'
BY Zenon DEF Names, formatETag

(* While the store does not change, neither do its facts,                  *)
LEMMA CurrentKeeps ==
    ASSUME dbs' = dbs
    PROVE  Current' = Current
BY Zenon DEF Current, DocFact, Doc

(* nor the revisions that were used up.                                    *)
LEMMA SpentKeeps ==
    ASSUME Spent, dbs' = dbs, consumed' = consumed, minted' = minted
    PROVE  Spent'
BY Zenon, CurrentKeeps DEF Spent, formatETag

(* A request that arrives.                                                 *)
LEMMA BeginKeeps ==
    ASSUME Inv, NEW c \in Client, NEW raw, raw.op \in Ops, Valid(raw) => Accepted(raw), Begin(c, raw)
    PROVE  Inv'
<1>0. Types /\ (\A e \in Client : Serves(e)) /\ Names /\ Spent
  BY Zenon DEF Inv
<1>1. /\ conn[c] = Quiet /\ dbs' = dbs /\ shown' = shown /\ minted' = minted /\ consumed' = consumed
      /\ \/ /\ ~Valid(raw) /\ calls' = calls
            /\ conn' = [conn EXCEPT ![c] = [st |-> "answered", raw |-> Blank, hit |-> FALSE,
                                            status |-> Rejection(raw)]]
         \/ /\ Valid(raw)
            /\ conn' = [conn EXCEPT ![c] = [st |-> "busy", raw |-> raw, hit |-> FALSE,
                                            status |-> <<0, "none">>]]
            /\ calls' = [calls EXCEPT ![c] = [st |-> "called", req |-> StoreCall(raw)]]
  BY Zenon DEF Begin, Quiet
<1>2. PICK st, r, status : conn' = [conn EXCEPT ![c] = [st |-> st, raw |-> r, hit |-> FALSE,
                                                        status |-> status]]
  BY Zenon, <1>1
<1>3. /\ conn' = [e \in Client |-> [st |-> conn'[e].st, raw |-> conn'[e].raw, hit |-> conn'[e].hit,
                                    status |-> conn'[e].status]]
      /\ \A e \in Client \ {c} : conn'[e] = conn[e]
  BY Zenon, <1>0, <1>2, ConnStep
<1>4. calls' = [e \in Client |-> calls'[e]] /\ \A e \in Client \ {c} : calls'[e] = calls[e]
  BY Zenon, <1>0, <1>1 DEF Types
<1>5. Types'
  BY Zenon, <1>0, <1>1, <1>3, <1>4 DEF Types
<1>6. Serves(c)' /\ Pending(c)' = {}
  <2>1. calls[c] = [st |-> "idle"]
    BY SMTT(30), <1>0, <1>1 DEF Serves, Quiet
  <2>2. CASE ~Valid(raw)
    <3>1. conn'[c] = [st |-> "answered", raw |-> Blank, hit |-> FALSE, status |-> Rejection(raw)]
      BY ZenonT(30), <1>0, <1>1, <2>2, ConnStep
    <3>2. Rejection(raw)[2] # "internal_error"
      BY Zenon, <2>2, RefusalTells DEF Told
    <3>3. Truthful(conn'[c].status, conn'[c].raw.op, conn'[c].hit)
      BY SMTT(30), <3>1, <3>2 DEF Truthful, Blank, Writes, Ops
    <3>4. calls'[c] = [st |-> "idle"]
      BY Zenon, <1>1, <2>1, <2>2
    <3> QED
      <4>1. conn'[c].st = "answered"
        BY SMTT(30), <3>1
      <4> QED
        BY <3>3, <3>4, <4>1, Zenon DEF Serves, Pending
  <2>3. CASE Valid(raw)
    <3>1. conn'[c] = [st |-> "busy", raw |-> raw, hit |-> FALSE, status |-> <<0, "none">>]
      BY Zenon, <1>0, <1>1, <2>3 DEF Types
    <3>2. calls'[c] = [st |-> "called", req |-> StoreCall(raw)]
      BY Zenon, <1>0, <1>1, <2>3 DEF Types
    <3>3. /\ conn'[c].st = "busy" /\ conn'[c].raw = raw /\ calls'[c].st = "called"
          /\ calls'[c].req = StoreCall(raw)
      BY SMTT(30), <3>1, <3>2
    <3>4. Accepted(conn'[c].raw) /\ StoreCall(conn'[c].raw) = StoreCall(raw)
      BY <2>3, <3>3, Zenon
    <3> QED
      BY Zenon, <3>3, <3>4 DEF Serves, Pending
  <2> QED
    BY Zenon, <2>2, <2>3
<1>7. \A e \in Client : Serves(e)'
  BY Zenon, <1>0, <1>3, <1>4, <1>6, OthersKeep
<1>8. Facts' \subseteq Facts
  <2>1. \A e \in Client : Pending(e)' \subseteq Pending(e)
    BY Zenon, <1>0, <1>3, <1>4, <1>6, OthersKeep
  <2>2. Current' = Current
    BY Zenon, <1>1, CurrentKeeps
  <2> QED
    BY SMTT(30), <1>1, <2>1, <2>2 DEF Facts
<1>9. Names'
  BY Zenon, <1>0, <1>1, <1>8, NamesKeep
<1>10. Spent'
  BY Zenon, <1>0, <1>1, SpentKeeps
<1> QED
  BY Zenon, <1>5, <1>7, <1>9, <1>10 DEF Inv

(* A response that is read or lost.                                        *)
LEMMA CloseKeeps ==
    ASSUME Inv, NEW c \in Client, Close(c)
    PROVE  Inv'
<1>0. Types /\ (\A e \in Client : Serves(e)) /\ Names /\ Spent
  BY Zenon DEF Inv
<1>1. /\ conn[c].st = "answered" /\ dbs' = dbs /\ calls' = calls
      /\ shown' = shown /\ minted' = minted /\ consumed' = consumed
      /\ conn' = [conn EXCEPT ![c] = [st |-> "idle", raw |-> Blank, hit |-> FALSE,
                                      status |-> <<0, "none">>]]
  BY Zenon DEF Close, Quiet
<1>2. /\ conn' = [e \in Client |-> [st |-> conn'[e].st, raw |-> conn'[e].raw, hit |-> conn'[e].hit,
                                    status |-> conn'[e].status]]
      /\ conn'[c] = [st |-> "idle", raw |-> Blank, hit |-> FALSE, status |-> <<0, "none">>]
      /\ \A e \in Client \ {c} : conn'[e] = conn[e]
  BY Zenon, <1>0, <1>1, ConnStep
<1>3. Types'
  BY Zenon, <1>0, <1>1, <1>2 DEF Types
<1>4. Serves(c)' /\ Pending(c)' = {}
  <2>1. calls'[c] = [st |-> "idle"]
    BY Zenon, <1>0, <1>1 DEF Serves
  <2>2. conn'[c].st = "idle"
    BY <1>2
  <2> QED
    BY Zenon, <2>1, <2>2 DEF Serves, Pending
<1>5. \A e \in Client : Serves(e)'
  BY Zenon, <1>0, <1>1, <1>2, <1>4, OthersKeep
<1>6. Facts' \subseteq Facts
  <2>1. \A e \in Client : Pending(e)' \subseteq Pending(e)
    BY Zenon, <1>0, <1>1, <1>2, <1>4, OthersKeep
  <2>2. Current' = Current
    BY Zenon, <1>1, CurrentKeeps
  <2> QED
    BY <1>1, <2>1, <2>2 DEF Facts
<1>7. Names'
  BY Zenon, <1>0, <1>1, <1>6, NamesKeep
<1>8. Spent'
  BY Zenon, <1>0, <1>1, SpentKeeps
<1> QED
  BY Zenon, <1>3, <1>5, <1>7, <1>8 DEF Inv

(* The process dies: nothing is pending, and what was shown stays shown.   *)
LEMMA CrashKeeps ==
    ASSUME Inv, Crash
    PROVE  Inv'
<1>0. Types /\ Names /\ Spent
  BY Zenon DEF Inv
<1>1. /\ dbs' = dbs /\ calls' = [c \in Client |-> [st |-> "idle"]]
      /\ conn' = [c \in Client |-> Quiet]
      /\ shown' = shown /\ minted' = minted /\ consumed' = consumed
  BY Zenon DEF Crash, Promised!Crash, Promised!Idle
<1>2. \A c \in Client : conn'[c].st = "idle" /\ calls'[c] = [st |-> "idle"]
  BY Zenon, <1>1 DEF Quiet
<1>3. Types'
  <2>1. conn' = [c \in Client |-> [st |-> conn'[c].st, raw |-> conn'[c].raw, hit |-> conn'[c].hit,
                                   status |-> conn'[c].status]]
    BY Zenon, <1>1 DEF Quiet
  <2> QED
    BY Zenon, <1>0, <1>1, <2>1 DEF Types
<1>4. \A c \in Client : Serves(c)' /\ Pending(c)' = {}
  BY Zenon, <1>2 DEF Serves, Pending
<1>5. Facts' \subseteq Facts
  <2>1. Current' = Current
    BY Zenon, <1>1, CurrentKeeps
  <2> QED
    BY Zenon, <1>1, <1>4, <2>1 DEF Facts
<1>6. Names'
  BY Zenon, <1>0, <1>1, <1>5, NamesKeep
<1>7. Spent'
  BY Zenon, <1>0, <1>1, SpentKeeps
<1> QED
  BY Zenon, <1>3, <1>4, <1>6, <1>7 DEF Inv

-----------------------------------------------------------------------------
(* Responses.                                                              *)
Handles(h, errs) ==
    \A e \in errs : e \in DOMAIN h /\ h[e][1] \in 400..499 /\ h[e][2] # "internal_error"

(* Each handler has a status of its own for every error the store has for  *)
(* its operation, but for the one that leaves open what happened.          *)
LEMMA HandledFacts ==
    ASSUME NEW op \in Ops
    PROVE  /\ Handles(Handled(op), Known(op) \ {"errStoreUnavailable"})
           /\ "errStoreUnavailable" \notin DOMAIN Handled(op)
<1> DEFINE h == Handled(op)
<1>1. CASE op = "createDB"
  <2>1. h = [errDBExists |-> <<409, "database_exists">>]
    BY <1>1 DEF Handled
  <2>2. Known(op) \ {"errStoreUnavailable"} = {"errDBExists"}
    BY Zenon, <1>1 DEF Known, Conditional
  <2> QED
    BY <2>1, <2>2 DEF Handles
<1>2. CASE op = "deleteDB"
  <2>1. h = [errDBNotFound |-> <<404, "database_not_found">>]
    BY <1>2 DEF Handled
  <2>2. Known(op) \ {"errStoreUnavailable"} = {"errDBNotFound"}
    BY Zenon, <1>2 DEF Known, Conditional
  <2> QED
    BY <2>1, <2>2 DEF Handles
<1>3. CASE op = "createDoc"
  <2>1. h = [errDBNotFound |-> <<404, "database_not_found">>,
             errInvalidIndexValue |-> <<400, "invalid_document">>]
    BY <1>3 DEF Handled
  <2>2. Known(op) \ {"errStoreUnavailable"} = {"errDBNotFound", "errInvalidIndexValue"}
    BY Zenon, <1>3 DEF Known, Conditional
  <2> QED
    BY <2>1, <2>2 DEF Handles
<1>4. CASE op = "getDoc"
  <2>1. h = [errDocNotFound |-> <<404, "document_not_found">>]
    BY ZenonT(30), <1>4 DEF Handled
  <2>2. Known(op) \ {"errStoreUnavailable"} = {"errDocNotFound"}
    BY Zenon, <1>4 DEF Known, Conditional
  <2> QED
    BY <2>1, <2>2 DEF Handles
<1>5. CASE op = "deleteDoc"
  <2>1. h = [errDocNotFound |-> <<404, "document_not_found">>,
             errPreconditionFailed |-> <<412, "precondition_failed">>]
    BY <1>5 DEF Handled
  <2>2. Known(op) \ {"errStoreUnavailable"} = {"errDocNotFound", "errPreconditionFailed"}
    BY Zenon, <1>5 DEF Known, Conditional
  <2> QED
    BY <2>1, <2>2 DEF Handles
<1>6. CASE op = "replaceDoc"
  <2>1. h = [errDocNotFound |-> <<404, "document_not_found">>,
             errPreconditionFailed |-> <<412, "precondition_failed">>,
             errInvalidIndexValue |-> <<400, "invalid_document">>]
    BY <1>6 DEF Handled
  <2>2. Known(op) \ {"errStoreUnavailable"}
          = {"errDocNotFound", "errPreconditionFailed", "errInvalidIndexValue"}
    BY Zenon, <1>6 DEF Known, Conditional
  <2> QED
    BY <2>1, <2>2 DEF Handles
<1>7. CASE op = "patchDoc"
  <2>1. h = [errDocNotFound |-> <<404, "document_not_found">>,
             errPreconditionFailed |-> <<412, "precondition_failed">>,
             errBodyTooLarge |-> <<413, "content_too_large">>,
             errInvalidPatch |-> <<400, "invalid_patch">>,
             errInvalidIndexValue |-> <<400, "invalid_patch">>]
    BY <1>7 DEF Handled
  <2>2. Known(op) \ {"errStoreUnavailable"}
          = {"errDocNotFound", "errPreconditionFailed", "errInvalidIndexValue", "errBodyTooLarge",
             "errInvalidPatch"}
    BY Zenon, <1>7 DEF Known, Conditional
  <2> QED
    BY <2>1, <2>2 DEF Handles
<1> QED
  BY Zenon, <1>1, <1>2, <1>3, <1>4, <1>5, <1>6, <1>7 DEF Ops

(* The status tells what the store answered.                               *)
LEMMA StatusTells ==
    ASSUME NEW op \in Ops, NEW err, NEW hit, Settled(err, op, hit)
    PROVE  Truthful(Status(op, err), op, hit)
<1>1. CASE err = "nil"
  <2>1. Success(op) \in {200, 201, 204}
    <3>1. CASE op \in {"createDB", "createDoc"}
      BY <3>1 DEF Success
    <3>2. CASE op \notin {"createDB", "createDoc"} /\ op \in {"deleteDB", "deleteDoc"}
      BY <3>2 DEF Success
    <3>3. CASE op \notin {"createDB", "createDoc"} /\ op \notin {"deleteDB", "deleteDoc"}
      BY Zenon, <3>3 DEF Success
    <3> QED
      BY Zenon, <3>1, <3>2, <3>3
  <2>2. Status(op, err) = <<Success(op), "ok">>
    BY Zenon, <1>1 DEF Status
  <2>3. op \in Writes => hit
    BY Zenon, <1>1 DEF Settled
  <2> HIDE DEF Success
  <2> QED
    BY <2>1, <2>2, <2>3 DEF Truthful
<1>2. CASE err = "errStoreUnavailable"
  <2>1. writeFailure(err) = <<503, "service_unavailable">>
    BY <1>2, Zenon DEF writeFailure
  <2>2. Status(op, err) = <<503, "service_unavailable">>
    BY Zenon, <1>2, <2>1, HandledFacts DEF Status
  <2> QED
    BY <2>2 DEF Truthful
<1>3. CASE err \notin {"nil", "errStoreUnavailable"}
  <2>1. err \in Known(op) \ {"errStoreUnavailable"} /\ ~hit
    BY Zenon, <1>3 DEF Settled
  <2>2. err \in DOMAIN Handled(op) /\ Handled(op)[err][1] \in 400..499
        /\ Handled(op)[err][2] # "internal_error"
    BY Zenon, <2>1, HandledFacts DEF Handles
  <2>3. Status(op, err) = Handled(op)[err]
    BY Zenon, <1>3, <2>2 DEF Status
  <2> QED
    BY SMTT(30), <2>1, <2>2, <2>3 DEF Truthful
<1> QED
  BY Zenon, <1>1, <1>2, <1>3

(* A response is written: what it shows was pending.                       *)
LEMMA RespondKeeps ==
    ASSUME Inv, NEW c \in Client, Respond(c)
    PROVE  Inv'
<1> DEFINE res == calls[c].res
           raw == conn[c].raw
<1>0. Types /\ (\A e \in Client : Serves(e)) /\ Names /\ Spent
  BY Zenon DEF Inv
<1>1. /\ calls[c].st = "done" /\ dbs' = dbs /\ minted' = minted /\ consumed' = consumed
      /\ calls' = [calls EXCEPT ![c] = [st |-> "idle"]]
      /\ conn' = [conn EXCEPT ![c] = [st |-> "answered", raw |-> [Blank EXCEPT !.op = raw.op],
                                      hit |-> conn[c].hit, status |-> Status(raw.op, res.err)]]
      /\ shown' = shown \cup (IF res.err = "nil" THEN Shows(raw, res.out) ELSE {})
  BY Zenon DEF Respond, Promised!Return, Promised!Idle
<1>2. conn[c].st = "busy"
  BY SMTT(30), <1>0, <1>1 DEF Serves
<1>4. /\ conn' = [e \in Client |-> [st |-> conn'[e].st, raw |-> conn'[e].raw, hit |-> conn'[e].hit,
                                    status |-> conn'[e].status]]
      /\ conn'[c] = [st |-> "answered", raw |-> [Blank EXCEPT !.op = raw.op],
                     hit |-> conn[c].hit, status |-> Status(raw.op, res.err)]
      /\ \A e \in Client \ {c} : conn'[e] = conn[e]
  BY Zenon, <1>0, <1>1, ConnStep
<1>5. /\ calls' = [e \in Client |-> calls'[e]] /\ calls'[c] = [st |-> "idle"]
      /\ \A e \in Client \ {c} : calls'[e] = calls[e]
  BY Zenon, <1>0, <1>1 DEF Types
<1>6. Types'
  BY Zenon, <1>0, <1>1, <1>4, <1>5 DEF Types
<1>7. Serves(c)' /\ Pending(c)' = {}
  <2>1. raw.op \in Ops /\ Settled(res.err, raw.op, conn[c].hit)
    BY Zenon, <1>0, <1>1, <1>2 DEF Serves, Accepted
  <2>2. Truthful(Status(raw.op, res.err), raw.op, conn[c].hit)
    BY Zenon, <2>1, StatusTells
  <2>3. /\ conn'[c].st = "answered" /\ conn'[c].status = Status(raw.op, res.err)
        /\ conn'[c].hit = conn[c].hit /\ conn'[c].raw.op = raw.op
    BY <1>4 DEF Blank
  <2>4. Truthful(conn'[c].status, conn'[c].raw.op, conn'[c].hit)
    BY <2>2, <2>3, Zenon
  <2> QED
    BY <1>5, <2>3, <2>4, Zenon DEF Serves, Pending
<1>8. \A e \in Client : Serves(e)'
  BY Zenon, <1>0, <1>4, <1>5, <1>7, OthersKeep
<1>9. Facts' \subseteq Facts
  <2>1. \A e \in Client : Pending(e)' \subseteq Pending(e)
    BY Zenon, <1>0, <1>4, <1>5, <1>7, OthersKeep
  <2>2. Current' = Current
    BY Zenon, <1>1, CurrentKeeps
  <2>3. shown' = shown \cup Pending(c)
    BY <1>1, <1>2, Zenon DEF Pending
  <2> QED
    BY <2>1, <2>2, <2>3 DEF Facts
<1>10. Names'
  BY Zenon, <1>0, <1>1, <1>9, NamesKeep
<1>11. Spent'
  BY Zenon, <1>0, <1>1, SpentKeeps
<1> QED
  BY Zenon, <1>6, <1>8, <1>10, <1>11 DEF Inv

-----------------------------------------------------------------------------
(* The store at work.                                                      *)

(* The documents there are after a step: each was there before, or has a   *)
(* revision drawn for it.                                                  *)
LEMMA NewFacts ==
    ASSUME Types, dbs' \in [DB -> Promised!Database \cup {NoDoc}], OneWrite,
           \A r \in Fresh : r \notin minted
    PROVE  /\ Fresh \subseteq Rev
           /\ \A s \in Current' : s \in Current \/ \E r \in Fresh : s.etag = formatETag(r)
           /\ \A s, t \in Current' \ Current : s = t
<1>1. ASSUME NEW d \in DB, NEW i \in Id, Wrote(d, i)
      PROVE  Doc(d, i)'.rev \in Fresh
  <2> DEFINE x == <<d, i>>
  <2>1. x \in DB \X Id /\ x[1] = d /\ x[2] = i
    BY Zenon
  <2>2. Doc(x[1], x[2])' \notin {NoDoc, Doc(x[1], x[2])} /\ Doc(d, i)'.rev = Doc(x[1], x[2])'.rev
    BY Zenon, <1>1, <2>1 DEF Wrote, Doc
  <2> HIDE DEF x
  <2> QED
    BY <2>1, <2>2, Zenon DEF Fresh
<1>2. ASSUME NEW d \in DB, NEW i \in Id, Doc(d, i)' # NoDoc, ~Wrote(d, i)
      PROVE  DocFact(d, i)' \in Current
  <2>1. Doc(d, i)' = Doc(d, i) /\ Doc(d, i) # NoDoc
    BY Zenon, <1>2 DEF Wrote
  <2>2. DocFact(d, i)' = DocFact(d, i)
    BY <2>1, Zenon DEF DocFact, formatETag
  <2> QED
    BY Zenon, <2>1, <2>2, CurrentHas
<1>3. ASSUME NEW s \in Current', s \notin Current
      PROVE  \E d \in DB, i \in Id : Wrote(d, i) /\ s = DocFact(d, i)'
  <2>1. PICK d \in DB, i \in Id : Doc(d, i)' # NoDoc /\ s = DocFact(d, i)'
    BY Zenon, CurrentIs
  <2> QED
    BY <1>2, <1>3, <2>1, Zenon
<1>4. ASSUME NEW s \in Current', s \notin Current
      PROVE  \E r \in Fresh : s.etag = formatETag(r)
  <2>1. PICK d \in DB, i \in Id : Wrote(d, i) /\ s = DocFact(d, i)'
    BY Zenon, <1>3, <1>4
  <2>2. s.etag = formatETag(Doc(d, i)'.rev)
    BY Zenon, <2>1 DEF DocFact, formatETag
  <2> QED
    BY Zenon, <1>1, <2>1, <2>2
<1>5. ASSUME NEW s \in Current' \ Current, NEW t \in Current' \ Current
      PROVE  s = t
  <2>1. PICK d \in DB, i \in Id : Wrote(d, i) /\ s = DocFact(d, i)'
    BY Zenon, <1>3
  <2>2. PICK e \in DB, j \in Id : Wrote(e, j) /\ t = DocFact(e, j)'
    BY Zenon, <1>3
  <2>3. d = e /\ i = j
    BY <2>1, <2>2, Zenon DEF OneWrite
  <2> QED
    BY <2>1, <2>2, <2>3, Zenon
<1>6. ASSUME NEW r \in Fresh
      PROVE  r \in Rev
  <2>1. PICK x \in DB \X Id : Doc(x[1], x[2])' \notin {NoDoc, Doc(x[1], x[2])}
                              /\ r = Doc(x[1], x[2])'.rev
    BY Zenon DEF Fresh
  <2> DEFINE d == x[1]
             i == x[2]
  <2>2. d \in DB /\ i \in Id
    BY Zenon
  <2>3. Doc(d, i)' # NoDoc /\ r = Doc(d, i)'.rev
    BY Zenon, <2>1
  <2> HIDE DEF d, i
  <2>4. dbs'[d] # NoDoc /\ Doc(d, i)' = dbs'[d].docs[i]
    BY <2>3, Zenon DEF Doc
  <2>5. dbs'[d] \in [defs: Schema, docs: [Id -> StoredDoc \cup {NoDoc}]]
    <3>1. dbs'[d] \in Promised!Database
      BY Zenon, <2>2, <2>4
    <3> QED
      BY <3>1, Zenon DEF Promised!Database, Promised!Schema, Promised!StoredDoc, Schema,
         StoredDoc
  <2>6. Doc(d, i)' \in StoredDoc
    BY Zenon, <2>2, <2>3, <2>4, <2>5
  <2> QED
    BY Zenon, <2>3, <2>6 DEF StoredDoc
<1> QED
  BY <1>4, <1>5, <1>6, Zenon

(* What becomes known is new, and known under a revision that is.          *)
LEMMA NamesGrow ==
    ASSUME Names, NEW New, Facts' \subseteq Facts \cup New,
           \A s, t \in New : s = t,
           \A s \in New : \E r \in Fresh : s.etag = formatETag(r),
           \A r \in Fresh : r \notin minted,
           minted' = minted \cup Fresh
    PROVE  Names'
<1>1. ASSUME NEW s \in Facts, NEW t \in New
      PROVE  s.etag # t.etag
  <2>1. PICK r \in minted : s.etag = <<"strong", r>>
    BY Zenon DEF Names, formatETag
  <2>2. PICK q \in Fresh : t.etag = <<"strong", q>>
    BY Zenon DEF formatETag
  <2>3. r # q
    BY Zenon, <2>1, <2>2
  <2> QED
    BY SMTT(30), <2>1, <2>2, <2>3
<1>2. \A s \in Facts', t \in Facts' : s.etag = t.etag => s = t
  BY Zenon, <1>1 DEF Names
<1>3. \A s \in Facts' : \E r \in minted' : s.etag = formatETag(r)
  BY Zenon DEF Names
<1> QED
  BY Zenon, <1>2, <1>3 DEF Names, formatETag

(* The one request that took effect on condition of a revision: no         *)
(* document has it any more.                                               *)
LEMMA SpentGrows ==
    ASSUME Types, Names, Spent, NEW raw, Accepted(raw),
           \A s \in Current' : s \in Current \/ \E r \in Fresh : s.etag = formatETag(r),
           \A r \in Fresh : r \notin minted,
           minted' = minted \cup Fresh,
           dbs' # dbs /\ raw.op \in Conditional => Met(raw),
           consumed' = IF dbs' # dbs /\ raw.ifMatch # <<>> /\ raw.ifMatch[1][1] # "*"
                       THEN [consumed EXCEPT ![raw.ifMatch[1][2]] = @ + 1] ELSE consumed
    PROVE  Spent' /\ consumed' \in [Rev -> Nat]
<1> DEFINE h == raw.ifMatch
           strong == dbs' # dbs /\ h # <<>> /\ h[1][1] # "*"
<1>0. consumed \in [Rev -> Nat] /\ h \in Headers
  BY Zenon DEF Types, Accepted
<1>1. ASSUME NEW r \in minted, NEW s \in Current', s.etag = formatETag(r)
      PROVE  s \in Current
  BY SMTT(30), <1>1 DEF formatETag
<1>2. ASSUME NEW r \in Rev, consumed[r] = 1
      PROVE  r \in minted' /\ \A s \in Current' : s.etag # formatETag(r)
  <2>1. r \in minted /\ \A s \in Current : s.etag # formatETag(r)
    BY Zenon, <1>2 DEF Spent
  <2> QED
    BY Zenon, <1>1, <2>1
<1>3. CASE ~strong
  <2>1. consumed' = consumed
    BY Zenon, <1>3
  <2> QED
    BY Zenon, <1>0, <1>2, <2>1 DEF Spent, formatETag
<1>4. CASE strong
  <2> DEFINE q == h[1][2]
             d == raw.db
             i == raw.id
  <2>0. raw.op \in Conditional /\ d \in DB /\ i \in Id
    BY Zenon, <1>4 DEF Accepted
  <2>1. /\ q \in Rev /\ Doc(d, i) # NoDoc /\ Doc(d, i).rev = q
        /\ Doc(d, i)' = NoDoc \/ Doc(d, i)'.rev # q
    <3>1. Met(raw)
      BY Zenon, <1>4, <2>0
    <3>2. q \in Rev /\ \A rev : matchRevision(parseIfMatch(h).match, rev) => rev = q
      BY Zenon, <1>0, <1>4, HeaderMatch
    <3> QED
      BY <3>1, <3>2, Zenon DEF Met
  <2>2. DocFact(d, i) \in Current /\ DocFact(d, i).etag = formatETag(q)
    <3>1. DocFact(d, i) \in Current
      BY Zenon, <2>0, <2>1, CurrentHas
    <3> QED
      BY Zenon, <2>1, <3>1 DEF DocFact
  <2>3. Current \subseteq Facts
    BY Zenon DEF Facts
  <2>4. q \in minted
    <3>1. PICK r \in minted : formatETag(q) = formatETag(r)
      BY <2>2, <2>3, Zenon DEF Names
    <3> QED
      BY Zenon, <3>1 DEF formatETag
  <2>5. consumed[q] = 0
    BY Zenon, <2>1, <2>2 DEF Spent
  <2>6. consumed' = [consumed EXCEPT ![q] = 1]
    <3>1. consumed' = [consumed EXCEPT ![q] = consumed[q] + 1]
      BY Zenon, <1>4
    <3>2. consumed[q] + 1 = 1
      BY SMTT(30), <2>5
    <3> QED
      BY <3>1, <3>2, Zenon
  <2>7. ASSUME NEW s \in Current', s.etag = formatETag(q)
        PROVE  FALSE
    <3>1. PICK e \in DB, j \in Id : Doc(e, j)' # NoDoc /\ s = DocFact(e, j)'
      BY Zenon, CurrentIs
    <3>2. s \in Current
      BY Zenon, <1>1, <2>4, <2>7
    <3>3. s = DocFact(d, i)
      BY <2>2, <2>3, <2>7, <3>2, Zenon DEF Names
    <3>4. e = d /\ j = i /\ formatETag(Doc(e, j)'.rev) = formatETag(q)
      <4>1. DocFact(d, i).db = d /\ DocFact(d, i).id = i
        BY Zenon DEF DocFact
      <4>2. /\ DocFact(e, j)'.db = e /\ DocFact(e, j)'.id = j
            /\ DocFact(e, j)'.etag = formatETag(Doc(e, j)'.rev)
        BY Zenon DEF DocFact, formatETag
      <4> QED
        BY <2>7, <3>1, <3>3, <4>1, <4>2, Zenon
    <3>5. Doc(d, i)' # NoDoc /\ Doc(d, i)'.rev = q
      BY Zenon, <3>1, <3>4 DEF formatETag
    <3> QED
      BY Zenon, <2>1, <3>5
  <2>8. ASSUME NEW r \in Rev
        PROVE  /\ consumed'[r] \in {0, 1}
               /\ consumed'[r] = 1 => r \in minted' /\ \A s \in Current' : s.etag # formatETag(r)
    <3>1. CASE r = q
      <4>1. consumed'[r] = 1
        BY Zenon, <1>0, <2>6, <3>1
      <4> QED
        BY Zenon, <2>4, <2>7, <3>1, <4>1
    <3>2. CASE r # q
      <4>1. consumed'[r] = consumed[r]
        BY Zenon, <1>0, <2>6, <3>2
      <4>2. consumed[r] \in {0, 1}
        BY Zenon DEF Spent
      <4> QED
        BY Zenon, <1>2, <4>1, <4>2
    <3> QED
      BY Zenon, <3>1, <3>2
  <2>9. consumed' \in [Rev -> Nat]
    <3>1. q \in Rev
      BY Zenon, <2>1
    <3>2. consumed \in [Rev -> Nat] /\ consumed' = [consumed EXCEPT ![q] = 1]
      BY Zenon, <1>0, <2>6
    <3> HIDE DEF q
    <3> QED
      BY ONLY Zenon, <3>1, <3>2
  <2> QED
    BY Zenon, <2>8, <2>9 DEF Spent, formatETag
<1> QED
  BY Zenon, <1>3, <1>4

(* The store does its work for a handler.                                  *)
LEMMA ExecuteKeeps ==
    ASSUME Inv, NEW c \in Client, Execute(c)
    PROVE  Inv'
<1> DEFINE raw == conn[c].raw
<1>0. Types /\ (\A e \in Client : Serves(e)) /\ Names /\ Spent
  BY Zenon DEF Inv
<1>1. /\ Promised!Execute(c)
      /\ \A r \in Fresh : r \notin minted
      /\ minted' = minted \cup Fresh
      /\ conn' = [conn EXCEPT ![c].hit = dbs' # dbs]
      /\ consumed' = IF dbs' # dbs /\ raw.ifMatch # <<>> /\ raw.ifMatch[1][1] # "*"
                     THEN [consumed EXCEPT ![raw.ifMatch[1][2]] = @ + 1] ELSE consumed
      /\ shown' = shown
  BY Zenon DEF Execute
<1>2. calls[c].st = "called"
  BY <1>1, Zenon DEF Promised!Execute
<1>3. conn[c].st = "busy" /\ Accepted(raw) /\ calls[c].req = StoreCall(raw)
  BY SMTT(30), <1>0, <1>2 DEF Serves
<1>4. PICK res : Effect(c, raw, res)
  BY Zenon, <1>0, <1>1, <1>3, ExecuteEffect
<1>5. /\ calls' = [calls EXCEPT ![c] = [st |-> "done", req |-> calls[c].req, res |-> res]]
      /\ Settled(res.err, raw.op, dbs' # dbs)
      /\ res.err = "nil" => Shows(raw, res.out) \subseteq Current'
      /\ dbs' \in [DB -> Promised!Database \cup {NoDoc}]
      /\ OneWrite
      /\ dbs' # dbs /\ raw.op \in Conditional => Met(raw)
  BY <1>4, Zenon DEF Effect, Answers
<1>6. /\ Fresh \subseteq Rev
      /\ \A s \in Current' : s \in Current \/ \E r \in Fresh : s.etag = formatETag(r)
      /\ \A s, t \in Current' \ Current : s = t
  BY Zenon, <1>0, <1>1, <1>5, NewFacts
<1>7. /\ conn' = [e \in Client |-> [st |-> conn'[e].st, raw |-> conn'[e].raw, hit |-> conn'[e].hit,
                                    status |-> conn'[e].status]]
      /\ conn'[c] = [st |-> conn[c].st, raw |-> raw, hit |-> dbs' # dbs, status |-> conn[c].status]
      /\ \A e \in Client \ {c} : conn'[e] = conn[e]
  <2>1. conn[c] = [st |-> conn[c].st, raw |-> raw, hit |-> conn[c].hit, status |-> conn[c].status]
    BY Zenon, <1>0 DEF Types
  <2>2. conn' = [conn EXCEPT ![c] = [conn[c] EXCEPT !.hit = dbs' # dbs]]
    BY Zenon, <1>1
  <2>3. [conn[c] EXCEPT !.hit = dbs' # dbs]
          = [st |-> conn[c].st, raw |-> raw, hit |-> dbs' # dbs, status |-> conn[c].status]
    BY <2>1
  <2>4. conn' = [conn EXCEPT ![c] = [st |-> conn[c].st, raw |-> raw, hit |-> dbs' # dbs,
                                     status |-> conn[c].status]]
    BY <2>2, <2>3, Zenon
  <2> QED
    BY Zenon, <1>0, <2>4, ConnStep
<1>8. /\ calls' = [e \in Client |-> calls'[e]]
      /\ calls'[c] = [st |-> "done", req |-> calls[c].req, res |-> res]
      /\ \A e \in Client \ {c} : calls'[e] = calls[e]
  BY Zenon, <1>0, <1>5 DEF Types
<1>9. /\ conn'[c].st = "busy" /\ conn'[c].raw = raw /\ conn'[c].hit = (dbs' # dbs)
      /\ calls'[c].st = "done" /\ calls'[c].req = StoreCall(raw) /\ calls'[c].res = res
  BY SMTT(30), <1>3, <1>7, <1>8
<1>10. Spent' /\ consumed' \in [Rev -> Nat]
  BY Zenon, <1>0, <1>1, <1>3, <1>5, <1>6, SpentGrows
<1>11. Types'
  BY Zenon, <1>0, <1>1, <1>5, <1>6, <1>7, <1>8, <1>10 DEF Types
<1>12. Serves(c)'
  <2>1. Accepted(conn'[c].raw) /\ calls'[c].req = StoreCall(conn'[c].raw)
    BY <1>3, <1>9, Zenon
  <2>2. Settled(calls'[c].res.err, conn'[c].raw.op, conn'[c].hit)
    BY <1>5, <1>9, Zenon
  <2> QED
    BY Zenon, <1>9, <2>1, <2>2 DEF Serves
<1>13. \A e \in Client : Serves(e)'
  BY Zenon, <1>0, <1>7, <1>8, <1>12, OthersKeep
<1>14. Names'
  <2> DEFINE New == Current' \ Current
  <2>1. Pending(c)' \subseteq Current'
    BY <1>5, <1>9, Zenon DEF Pending
  <2>2. \A e \in Client \ {c} : Pending(e)' = Pending(e)
    BY Zenon, <1>0, <1>7, <1>8, OthersKeep
  <2>3. Facts' \subseteq Facts \cup New
    BY Zenon, <1>1, <2>1, <2>2 DEF Facts
  <2> QED
    BY Zenon, <1>0, <1>1, <1>6, <2>3, NamesGrow
<1> QED
  BY Zenon, <1>10, <1>11, <1>13, <1>14 DEF Inv

-----------------------------------------------------------------------------
(* Every step keeps the invariant.                                         *)
LEMMA StepKeeps ==
    ASSUME Inv, [Next]_vars
    PROVE  Inv'
<1>1. CASE Crash
  BY Zenon, <1>1, CrashKeeps
<1>2. ASSUME NEW c \in Client, Arrive(c)
      PROVE  Inv'
  <2>1. PICK op \in Ops : \E raw \in Sent(op) : Begin(c, raw)
    BY <1>2, Zenon DEF Arrive
  <2>2. PICK raw \in Sent(op) : Begin(c, raw)
    BY Zenon, <2>1
  <2>3. Valid(raw) => Accepted(raw)
    BY Zenon, SentAccepted DEF Inv
  <2>4. raw.op \in Ops
    BY Zenon, SentFacts
  <2> QED
    BY Zenon, <2>2, <2>3, <2>4, BeginKeeps
<1>3. ASSUME NEW c \in Client, Retry(c)
      PROVE  Inv'
  <2>1. PICK other \in Client : conn[other].st = "busy" /\ Begin(c, conn[other].raw)
    BY <1>3, Zenon DEF Retry
  <2>2. Accepted(conn[other].raw)
    BY Zenon, <2>1 DEF Inv, Serves
  <2>3. conn[other].raw.op \in Ops
    BY Zenon, <2>2 DEF Accepted
  <2> QED
    BY Zenon, <2>1, <2>2, <2>3, BeginKeeps
<1>4. ASSUME NEW c \in Client, Execute(c) \/ Respond(c) \/ Close(c)
      PROVE  Inv'
  BY Zenon, <1>4, ExecuteKeeps, RespondKeeps, CloseKeeps
<1>5. CASE UNCHANGED vars
  <2>1. /\ dbs' = dbs /\ calls' = calls /\ conn' = conn /\ shown' = shown /\ minted' = minted
        /\ consumed' = consumed
    BY Zenon, <1>5 DEF vars
  <2>2. Types /\ (\A e \in Client : Serves(e)) /\ Names /\ Spent
    BY Zenon DEF Inv
  <2>3. \A e \in Client : Serves(e)' /\ Pending(e)' = Pending(e)
    BY Zenon, <2>1, <2>2, OthersKeep
  <2>4. Facts' \subseteq Facts
    BY Zenon, <2>1, <2>3, CurrentKeeps DEF Facts
  <2>5. Types'
    BY Zenon, <2>1, <2>2 DEF Types
  <2>6. Names' /\ Spent'
    BY Zenon, <2>1, <2>2, <2>4, NamesKeep, SpentKeeps
  <2> QED
    BY Zenon, <2>3, <2>5, <2>6 DEF Inv
<1> QED
  BY <1>1, <1>2, <1>3, <1>4, <1>5, Zenon DEF Next

(* The handlers keep the invariant: what a goroutine serves agrees with    *)
(* its call to the store, an ETag has one meaning, and the document a      *)
(* conditional request took effect on is gone for good.                    *)
THEOREM ApiInvariant == Spec => []Inv
BY InitInv, StepKeeps, PTL DEF Spec

(* An ETag names one content of one document, in every response and in the *)
(* store, for any number of clients, databases, documents and revisions    *)
(* (the answers of getDoc, createDoc, replaceDoc and patchDoc).            *)
THEOREM ETagsNameContent == Spec => []ETagNamesContent
<1>1. Inv => ETagNamesContent
  <2> SUFFICES ASSUME Inv
               PROVE  ETagNamesContent
    BY Zenon
  <2>1. \A s \in Facts, t \in Facts : s.etag = t.etag => s = t
    BY Zenon DEF Inv, Names
  <2>2. shown \subseteq Facts /\ Current \subseteq Facts
    BY Zenon DEF Facts
  <2>3. ASSUME NEW s \in shown, NEW d \in DB, NEW i \in Id,
               Doc(d, i) # NoDoc, formatETag(Doc(d, i).rev) = s.etag
        PROVE  s.db = d /\ s.id = i /\ s.json = Doc(d, i).json
    <3>1. DocFact(d, i) \in Facts
      BY Zenon, <2>2, <2>3, CurrentHas
    <3>2. DocFact(d, i).etag = s.etag
      BY Zenon, <2>3 DEF DocFact
    <3>3. s = DocFact(d, i)
      BY Zenon, <2>1, <2>2, <3>1, <3>2
    <3> QED
      BY Zenon, <3>3 DEF DocFact
  <2> QED
    BY SMTT(30), <2>1, <2>2, <2>3 DEF ETagNamesContent
<1> QED
  BY <1>1, ApiInvariant, PTL

(* Of all requests conditional on one ETag at most one takes effect,       *)
(* however often they are repeated and however they overlap (parseIfMatch  *)
(* and the precondition that the store checks under its locks).            *)
THEOREM ConditionalOnce == Spec => []AtMostOnce
<1>1. Inv => AtMostOnce
  BY DEF Inv, Spent, AtMostOnce
<1> QED
  BY <1>1, ApiInvariant, PTL

(* A 4xx means that nothing was written, a 2xx that the write is in place  *)
(* (the order of the handlers' checks, and how they tell errors apart).    *)
THEOREM StatusesTrue == Spec => []StatusTrue
<1>1. Inv => StatusTrue
  BY Zenon DEF Inv, Serves, Truthful, StatusTrue
<1> QED
  BY <1>1, ApiInvariant, PTL

(* None of the seven handlers of Api (createDB, deleteDB, createDoc,       *)
(* getDoc, replaceDoc, patchDoc, deleteDoc) runs into the last case of     *)
(* writeFailure, whatever the store answers.  The handlers that list and   *)
(* query are outside the theorem.                                          *)
THEOREM ErrorsAreTold == Spec => []ErrorsTold
<1>1. Inv => ErrorsTold
  BY Zenon DEF Inv, Serves, Truthful, ErrorsTold
<1> QED
  BY <1>1, ApiInvariant, PTL

(* A request that passes its checks is a call that DocDB allows.           *)
LEMMA BeginCalls ==
    ASSUME Inv, NEW c \in Client, NEW raw, Valid(raw) => Accepted(raw), Begin(c, raw)
    PROVE  Promised!Call(c) \/ UNCHANGED <<dbs, calls>>
<1>1. CASE ~Valid(raw)
  BY Zenon, <1>1 DEF Begin
<1>2. CASE Valid(raw)
  <2>1. /\ conn[c] = Quiet /\ dbs' = dbs
        /\ calls' = [calls EXCEPT ![c] = [st |-> "called", req |-> StoreCall(raw)]]
    BY <1>2, Zenon DEF Begin
  <2>2. calls[c] = [st |-> "idle"]
    BY SMTT(30), <2>1 DEF Inv, Serves, Quiet
  <2>3. StoreCall(raw) \in Requests
    BY Zenon, <1>2, CallOf, CallsAssumption
  <2> QED
    BY <2>1, <2>2, <2>3, Zenon DEF Promised!Call, Promised!Idle
<1> QED
  BY Zenon, <1>1, <1>2

(* The handlers use the store as DocDB allows: every step of theirs is a   *)
(* call, a return, the store's own work or a crash, or nothing to it.      *)
THEOREM HandlersUseStore == Spec => StoreUsed
<1>1. Init => Promised!Init
  BY Zenon DEF Init
<1>2. Inv /\ [Next]_vars => [Promised!Next]_Promised!vars
  <2> SUFFICES ASSUME Inv, [Next]_vars
               PROVE  Promised!Next \/ UNCHANGED <<dbs, calls>>
    BY Zenon DEF Promised!vars
  <2>1. CASE Crash
    BY <2>1, Zenon DEF Crash, Promised!Next
  <2>2. ASSUME NEW c \in Client, Arrive(c)
        PROVE  Promised!Next \/ UNCHANGED <<dbs, calls>>
    <3>1. PICK op \in Ops : \E raw \in Sent(op) : Begin(c, raw)
      BY <2>2, Zenon DEF Arrive
    <3>2. PICK raw \in Sent(op) : Begin(c, raw)
      BY Zenon, <3>1
    <3>3. Valid(raw) => Accepted(raw)
      BY Zenon, SentAccepted DEF Inv
    <3> QED
      BY <3>2, <3>3, BeginCalls, Zenon DEF Promised!Next
  <2>3. ASSUME NEW c \in Client, Retry(c)
        PROVE  Promised!Next \/ UNCHANGED <<dbs, calls>>
    <3>1. PICK other \in Client : conn[other].st = "busy" /\ Begin(c, conn[other].raw)
      BY <2>3, Zenon DEF Retry
    <3>2. Accepted(conn[other].raw)
      BY Zenon, <3>1 DEF Inv, Serves
    <3> QED
      BY <3>1, <3>2, BeginCalls, Zenon DEF Promised!Next
  <2>4. ASSUME NEW c \in Client, Execute(c) \/ Respond(c)
        PROVE  Promised!Next
    BY <2>4, Zenon DEF Execute, Respond, Promised!Next
  <2>5. ASSUME NEW c \in Client, Close(c)
        PROVE  UNCHANGED <<dbs, calls>>
    BY Zenon, <2>5 DEF Close
  <2>6. CASE UNCHANGED vars
    BY Zenon, <2>6 DEF vars
  <2> QED
    BY <2>1, <2>2, <2>3, <2>4, <2>5, <2>6, Zenon DEF Next
<1> QED
  BY <1>1, <1>2, ApiInvariant, PTL DEF Spec, StoreUsed, Promised!Spec
=============================================================================
