-------------------------------- MODULE MCApi --------------------------------
(* A small instance of Api for TLC: one database, one document ID.         *)
EXTENDS Api, TLC

CONSTANTS j1, j2, j3, p1, n1, flip, spoil

(* The value of j3 at p1 is too large to index.                            *)
MCPointer == (j1 :> (p1 :> 1)) @@ (j2 :> (p1 :> 2)) @@ (j3 :> (p1 :> Oversize))

(* A patch that undoes itself when it is applied twice, and one that fails *)
(* on j2 and makes j3 of j1.                                               *)
MCPatchOf ==
    (flip :> ((j1 :> j2) @@ (j2 :> j1) @@ (j3 :> j3)))
    @@ (spoil :> ((j1 :> j3) @@ (j2 :> InvalidPatch) @@ (j3 :> j1)))

Indexed == [n \in IndexName |-> p1]
MCDefs == {Indexed}

Symmetry == Permutations(Client)
=============================================================================
