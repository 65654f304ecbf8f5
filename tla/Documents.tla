------------------------------ MODULE Documents ------------------------------
(***************************************************************************)
(* The data the document store works on and the pure functions it applies  *)
(* to them: documents and their revisions, index definitions and the       *)
(* values they select, If-Match conditions, pages of a listing, and the    *)
(* requests that clients send.  Shared by DocDB (what the store promises)  *)
(* and Store (how storage.go and index.go do it).                          *)
(***************************************************************************)
EXTENDS Integers, FiniteSets, Sequences, Functions

CONSTANTS
    Client,     \* the goroutines that serve requests
    DB,         \* database names, in key order: a set of naturals
    Id,         \* document IDs, in key order: a set of positive naturals
    Json,       \* validated document bodies
    Rev,        \* revisions, random 16-byte strings
    IndexName,
    Path,       \* JSON Pointers
    Value,      \* encoded index values
    Patch,      \* validated patch bodies
    NoDoc, NoPath, Absent, Oversize, InvalidPatch,  \* absence and failure
    Requests,   \* the requests clients may send
    Pointer,    \* Pointer[j][p]: the encoded value of document j at path p
    PatchOf     \* PatchOf[p][j]: document j after patch p

(* An index set as the 0x03 key space holds it: at most one path per name. *)
Schema == [IndexName -> Path \cup {NoPath}]

(* A path may lead nowhere or to an object or array (Absent), or to a      *)
(* scalar whose encoding is above the size limit (Oversize).               *)
Selected == Value \cup {Absent, Oversize}

ASSUME DataAssumption ==
    /\ DB \subseteq Nat
    /\ Id \subseteq Nat \ {0}
    /\ NoPath \notin Path
    /\ Absent \notin Value /\ Oversize \notin Value /\ Absent # Oversize
    /\ InvalidPatch \notin Json
    /\ Pointer \in [Json -> [Path -> Selected]]
    /\ PatchOf \in [Patch -> [Json -> Json \cup {InvalidPatch}]]

StoredDoc == [json: Json, rev: Rev]

NoIndexes == [n \in IndexName |-> NoPath]

(* The encoded values of document j under the definitions d, by name.      *)
indexValues(j, d) ==
    [n \in IndexName |-> IF d[n] = NoPath THEN Absent ELSE Pointer[j][d[n]]]

(* indexValues fails as a whole when one value is too large.               *)
Invalid(values) == \E n \in IndexName : values[n] = Oversize

matchCond == [set: BOOLEAN, wildcard: BOOLEAN, rev: Rev]

matchRevision(match, current) ==
    ~match.set \/ match.wildcard \/ match.rev = current

(* makeRevision: any revision but the one it replaces.                     *)
makeRevision(previous) == Rev \ previous

(* The page of S a listing owes its caller: the limit smallest keys after  *)
(* the cursor, and whether any are left.  Cursor 0 is the empty cursor.    *)
Page(S, limit, cursor) ==
    LET rest == {x \in S : x > cursor}
        ids == {x \in rest : Cardinality({y \in rest : y <= x}) <= limit}
    IN  [ids |-> ids, more |-> ids # rest]

-----------------------------------------------------------------------------
(* Requests, as the handlers pass them on after validation.                *)
Window == [limit: Nat, cursor: Nat]

Request ==
    [op: {"createDB"}, db: DB, defs: Schema]
    \cup [op: {"deleteDB", "exportDocs"}, db: DB]
    \cup [op: {"listDBs"}, page: Window]
    \cup [op: {"createDoc"}, db: DB, docs: {<<j>> : j \in Json}]
    \cup [op: {"importDocs"}, db: DB, docs: Seq(Json) \ {<<>>}]
    \cup [op: {"getDoc"}, db: DB, id: Id]
    \cup [op: {"listDocs"}, db: DB, page: Window]
    \cup [op: {"queryDocs"}, db: DB, page: Window, index: IndexName, value: Value]
    \cup [op: {"replaceDoc"}, db: DB, id: Id, match: matchCond, json: Json]
    \cup [op: {"patchDoc"}, db: DB, id: Id, match: matchCond, patch: Patch]
    \cup [op: {"deleteDoc"}, db: DB, id: Id, match: matchCond]

ASSUME RequestAssumption == Requests \subseteq Request

(* The document a replacement or a patch makes of the current one.         *)
Updated(r, current) ==
    IF r.op = "replaceDoc" THEN r.json ELSE PatchOf[r.patch][current.json]

(* A missing database is reported as a missing document by the operations  *)
(* that address one document.                                              *)
MissingDB(op) ==
    IF op \in {"getDoc", "replaceDoc", "patchDoc", "deleteDoc"}
    THEN "errDocNotFound" ELSE "errDBNotFound"

(* What may fail in an operation for reasons outside the model: Pebble and *)
(* the random source in all of them; the request context where it is       *)
(* consulted; the byte limits on an import's batch and a patched document. *)
Failures(op) ==
    {"errStoreUnavailable"}
    \cup (IF op \in {"exportDocs", "importDocs", "queryDocs"}
          THEN {"context.Canceled"} ELSE {})
    \cup (IF op = "importDocs" THEN {"errBulkLimit"} ELSE {})
    \cup (IF op = "patchDoc" THEN {"errBodyTooLarge"} ELSE {})

Failed(e) == [err |-> e]

(* What the writers of documents return: createDoc the ID and revision,    *)
(* importDocs the IDs; replaceDoc the revision, patchDoc the document.     *)
Inserted(r, ids, revs) ==
    IF r.op = "createDoc" THEN [id |-> ids[1], rev |-> revs[1]] ELSE ids

Written(r, doc) == IF r.op = "patchDoc" THEN doc ELSE doc.rev

Done(out) == [err |-> "nil", out |-> out]

=============================================================================
