SPECIFICATION Spec
CONSTANTS
    j1 = j1
    j2 = j2
    j3 = j3
    p1 = p1
    n1 = n1
    flip = flip
    spoil = spoil
    Client = {c1, c2}
    DB = {1}
    Id = {1}
    Json = {j1, j2, j3}
    Rev = {1, 2}
    IndexName = {n1}
    Path = {p1}
    Value = {1, 2}
    Patch = {flip, spoil}
    NoDoc = NoDoc
    NoPath = NoPath
    Absent = Absent
    Oversize = Oversize
    InvalidPatch = InvalidPatch
    BadName = BadName
    BadId = BadId
    InvalidDefs = InvalidDefs
    Pointer <- MCPointer
    PatchOf <- MCPatchOf
    Defs <- MCDefs
    PostDocs = {j1, j3}
    PutDocs = {j2, j3}
    Requests <- Calls
SYMMETRY Symmetry
INVARIANTS ETagNamesContent AtMostOnce StatusTrue ErrorsTold
PROPERTIES StoreUsed
