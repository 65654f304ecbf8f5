------------------------------ MODULE StoreInv ------------------------------
(***************************************************************************)
(* Why the store's locks are enough: the inductive invariant behind        *)
(* IndexConsistent, DatabaseOwnsRecords, NeverCorrupt and NoLostUpdate.    *)
(* It says what a goroutine holds at each step and that what it has read   *)
(* from Pebble since is still there.                                       *)
(***************************************************************************)
EXTENDS Store

SharedOps == Updates \cup Inserts \cup {"getDoc", "listDocs", "queryDocs", "exportDocs"}

(* Which operations pass through a step.                                   *)
Flow(c) ==
    /\ pc[c] \in {"wlock", "wwait", "check"} => req[c].op \in DBWrites
    /\ pc[c] \in {"rlock", "key"} => req[c].op \in SharedOps
    /\ pc[c] \in {"makeID", "hasDoc"} => req[c].op \in Inserts
    /\ pc[c] = "retry" => req[c].op = "importDocs"
    /\ pc[c] = "lockDocs" => req[c].op \in Updates \cup Inserts
    /\ pc[c] = "readDoc" => req[c].op \in Updates \cup {"getDoc"}
    /\ pc[c] = "defs" => req[c].op \in Updates \cup Inserts \cup {"queryDocs"}
    /\ pc[c] = "iterate" => req[c].op \in {"listDocs", "queryDocs", "exportDocs"}
    /\ pc[c] = "listDBs" => req[c].op = "listDBs"
    /\ pc[c] = "commit" => req[c].op \in DBWrites \cup Updates \cup Inserts
    /\ pc[c] \in {"unlockDocs", "unlockDB"} /\ res[c].err = "errDocExists"
         => req[c].op = "createDoc"

-----------------------------------------------------------------------------
(* c works under RLock.                                                    *)
Shared(c) ==
    \/ /\ req[c].op \in SharedOps
       /\ pc[c] \in {"lockDocs", "key", "hasDoc", "readDoc", "defs", "iterate",
                     "commit", "retry"}
    \/ req[c].op = "importDocs" /\ pc[c] = "makeID"

(* c has called Lock; c has the database stripe for itself.                *)
Claimed(c) ==
    /\ req[c].op \in DBWrites
    /\ pc[c] \in {"wwait", "check", "commit", "unlockDocs", "unlockDB"}

Exclusive(c) == req[c].op \in DBWrites /\ pc[c] \in {"check", "commit"}

(* The documents c locks, and the steps at which it does or has.           *)
Targets(c) ==
    IF req[c].op \in Updates THEN {req[c].id}
    ELSE {loc[c].ids[k] : k \in DOMAIN loc[c].ids}

Locking(c) ==
    \/ req[c].op \in Updates \cup {"createDoc"}
       /\ pc[c] \in {"rlock", "lockDocs", "key", "hasDoc", "readDoc", "defs", "commit"}
    \/ req[c].op = "importDocs" /\ pc[c] \in {"lockDocs", "hasDoc", "commit"}

LocksHeld(c) ==
    /\ Shared(c) => c \in readers[Stripe(c)]
    /\ Claimed(c) => writer[Stripe(c)] = c
    /\ Exclusive(c) => readers[Stripe(c)] = {}
    /\ Locking(c) =>
         /\ pc[c] \notin {"rlock", "lockDocs"} => loc[c].want = {}
         /\ \A i \in Targets(c) :
              LET s == DocStripe[req[c].db][i] IN s \in loc[c].want \/ docMu[s] = c

-----------------------------------------------------------------------------
(* c has read the database key; the index definitions; the document.       *)
HasKey(c) ==
    \/ req[c].op \in SharedOps /\ pc[c] \in {"hasDoc", "readDoc", "defs", "iterate", "commit", "retry"}
    \/ req[c].op = "importDocs" /\ pc[c] \in {"makeID", "lockDocs"}

HasDefs(c) ==
    \/ req[c].op \in Updates \cup Inserts /\ pc[c] = "commit"
    \/ req[c].op = "importDocs" /\ pc[c] \in {"makeID", "lockDocs", "hasDoc", "retry"}

HasCurrent(c) == req[c].op \in Updates /\ pc[c] \in {"defs", "commit"}

(* c has drawn IDs; c has found them free.                                 *)
HasIDs(c) == req[c].op \in Inserts /\ Locking(c)

HasFree(c) ==
    \/ req[c].op \in Inserts /\ pc[c] = "commit"
    \/ req[c].op = "createDoc" /\ pc[c] = "defs"

ReadsHold(c) ==
    /\ HasKey(c) => loc[c].key = dbRec[req[c].db] /\ loc[c].key # NoKey
    /\ HasDefs(c) => loc[c].defs = idxDef[req[c].db]
    /\ HasCurrent(c) =>
         /\ loc[c].cur = docRec[req[c].db][req[c].id]
         /\ readError(req[c], loc[c].cur, loc[c].key) = "nil"
    /\ HasIDs(c) => loc[c].ids \in Injection(DOMAIN req[c].docs, Id)
    /\ HasFree(c) => \A i \in Targets(c) : docRec[req[c].db][i] = NoDoc
    /\ pc[c] = "commit" /\ req[c].op = "createDB" => dbRec[req[c].db] = NoKey

(* No stored document has a value too large for an index of its database.  *)
Indexable ==
    \A d \in DB : \A i \in Live(d) : ~Invalid(indexValues(docRec[d][i].json, idxDef[d]))

Data == IndexConsistent /\ DatabaseOwnsRecords /\ Indexable

(* What every step of the store preserves: goroutines hold the locks their *)
(* step calls for, and the keys, definitions and documents they have read  *)
(* under those locks are still what Pebble holds.                          *)
Inv ==
    /\ TypeOK /\ Data /\ NeverCorrupt
    /\ \A c \in Client : Flow(c) /\ LocksHeld(c) /\ ReadsHold(c)

=============================================================================
