------------------------------- MODULE MCStore -------------------------------
(* Small instances of Store for TLC.                                       *)
EXTENDS StoreInv, StoreDocDB, TLC

CONSTANTS j1, j2, j3, p1, n1, flip

(* j1 and j2 differ at path p1; the value of j3 there is too large.        *)
MCPointer == (j1 :> (p1 :> 1)) @@ (j2 :> (p1 :> 2)) @@ (j3 :> (p1 :> Oversize))

(* A patch that depends on the document it finds, and fails on j2.         *)
MCPatchOf == flip :> ((j1 :> j2) @@ (j2 :> InvalidPatch) @@ (j3 :> j1))

Indexed == [n \in IndexName |-> p1]

Always == [set |-> FALSE, wildcard |-> FALSE, rev |-> CHOOSE r \in Rev : TRUE]
IfMatch(r) == [set |-> TRUE, wildcard |-> FALSE, rev |-> r]
Matches == {Always} \cup {IfMatch(r) : r \in Rev}

MCDBStripe == [d \in DB |-> 0]
MCDocStripe == [d \in DB |-> [i \in Id |-> i]]

Databases == [op: {"createDB"}, db: DB, defs: {Indexed}] \cup [op: {"deleteDB"}, db: DB]
Create == [op: {"createDoc"}, db: DB, docs: {<<j1>>, <<j3>>}]
Update ==
    [op: {"replaceDoc"}, db: DB, id: {1}, match: Matches, json: {j2, j3}]
    \cup [op: {"patchDoc"}, db: DB, id: {1}, match: Matches, patch: Patch]
    \cup [op: {"deleteDoc"}, db: DB, id: {1}, match: Matches]
WriteRequests == Databases \cup Create \cup Update

(* Readers against every writer; batches of several documents, and of one  *)
(* when an ID is taken.                                                    *)
Pages == [limit: {1}, cursor: {0, 1}]
Import == [op: {"importDocs"}, db: DB, docs: {<<j1>>, <<j1, j2>>, <<j1, j3>>}]
Read ==
    [op: {"getDoc"}, db: DB, id: Id] \cup [op: {"exportDocs"}, db: DB]
    \cup [op: {"listDocs"}, db: DB, page: Pages] \cup [op: {"listDBs"}, page: Pages]
    \cup [op: {"queryDocs"}, db: DB, page: Pages, index: IndexName, value: {1}]
Unconditional == [set: {FALSE}, wildcard: {FALSE}, rev: Rev]
ReadRequests ==
    [op: {"createDB"}, db: DB, defs: {Indexed, NoIndexes}] \cup [op: {"deleteDB"}, db: DB]
    \cup Import \cup Read
    \cup [op: {"patchDoc"}, db: DB, id: {1}, match: Unconditional, patch: Patch]
    \cup [op: {"deleteDoc"}, db: DB, id: {1}, match: Unconditional]

(* Lock traffic: two databases on one stripe, imports over two documents.  *)
LockRequests ==
    [op: {"createDB"}, db: DB, defs: {NoIndexes}] \cup [op: {"deleteDB"}, db: {1}]
    \cup [op: {"importDocs"}, db: DB, docs: {<<j1, j1>>}]
    \cup [op: {"deleteDoc"}, db: {1}, id: {2}, match: {Always}]

Symmetry == Permutations(Client) \cup Permutations(Key)

(* ReadRequests treats all revisions alike.                                *)
ReadSymmetry == Symmetry \cup Permutations(Rev)

=============================================================================
