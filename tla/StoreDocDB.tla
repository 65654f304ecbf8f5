----------------------------- MODULE StoreDocDB -----------------------------
(***************************************************************************)
(* The store implements what DocDB promises.                               *)
(***************************************************************************)
EXTENDS Store

(* DocDB tells a document and a database from none.                        *)
ASSUME AbsenceAssumption ==
    /\ NoDoc \notin StoredDoc
    /\ NoDoc \notin [defs: Schema, docs: [Id -> StoredDoc \cup {NoDoc}]]

(* The store as DocDB sees it, and its calls: taken back while createDoc   *)
(* tries another ID, done once the result is decided.                      *)
Plain(doc) == IF doc = NoDoc THEN NoDoc ELSE [json |-> doc.json, rev |-> doc.rev]

Contents(d) ==
    IF dbRec[d] = NoKey THEN NoDoc
    ELSE [defs |-> idxDef[d], docs |-> [i \in Id |-> Plain(docRec[d][i])]]

Progress(c) ==
    IF pc[c] = "idle" THEN [st |-> "idle"]
    ELSE IF res[c].err \in {"none", "errDocExists"}
    THEN [st |-> "called", req |-> req[c]]
    ELSE [st |-> "done", req |-> req[c], res |-> res[c]]

stored == [d \in DB |-> Contents(d)]
served == [c \in Client |-> Progress(c)]

Abstract == INSTANCE DocDB WITH dbs <- stored, calls <- served

(* Linearizability: the store implements DocDB.  A call takes effect when  *)
(* its result is decided: at the commit of a batch, at the snapshot of a   *)
(* reader, at the read that fails.                                         *)
Linearizable == Abstract!Spec

=============================================================================
