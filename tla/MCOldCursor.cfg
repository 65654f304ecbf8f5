SPECIFICATION Spec
CONSTANTS
    Id = {1, 2, 3}
    Json = {"a", "b", "c"}
    Path = {"p", "r", "w"}
    Singular = {"p", "r"}
    Value = {11, 12, 21}
    Oversize = {10, 19}
    Span = 10
    IndexName = {"n"}
    maxScanDocs = 2
    MaxKey = 2
    NoDoc = NoDoc
    NoPath = NoPath
    NoIndex = NoIndex
    NoCursor = NoCursor
    Nodes <- MCNodes
    Schemas <- MCSchemas
    Queries <- IndexQueries
INVARIANT CursorsEndWithDB
