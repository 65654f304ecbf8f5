------------------------------ MODULE MCPaging ------------------------------
(* Values 11 and 12 are of one type, 21 of another; 10 and 19 are scalars  *)
(* of the first type over the limit.  Path p and r are JSON Pointers, w    *)
(* selects several nodes.  Document a cannot be written where r is         *)
(* indexed, and c satisfies a query on w only by a scalar over the limit.  *)
EXTENDS Paging, TLC

MCNodes ==
    ("a" :> ("p" :> {11} @@ "r" :> {10} @@ "w" :> {11, 21}))
    @@ ("b" :> ("p" :> {12} @@ "r" :> {11} @@ "w" :> {12}))
    @@ ("c" :> ("p" :> {21} @@ "r" :> {12} @@ "w" :> {19}))

On(p) == [n \in IndexName |-> p]

(* The index on one path, on another, or none; with one incarnation one    *)
(* index is enough.                                                        *)
MCSchemas == {On("p"), On("r"), On(NoPath)}

(* An equality and a range on the index; a QUERY on p can use the index,   *)
(* one on w always scans.                                                  *)
IndexQueries == [method: {"GET"}, index: IndexName, op: {"eq"}, value: {11}, limit: {1}]
    \cup [method: {"GET"}, index: IndexName, op: {"le"}, value: {12}, limit: {1}]
PathQueries == [method: {"QUERY"}, path: {"p", "w"}, op: {"ge"}, value: {11}, limit: {1}]

(* What a client may send: also a cursor of one query with another.        *)
AllQueries == IndexQueries \cup PathQueries

=============================================================================
