SPECIFICATION Spec
CONSTANTS
    j1 = j1
    j2 = j2
    j3 = j3
    p1 = p1
    n1 = n1
    flip = flip
    Client = {c1, c2}
    DB = {1}
    Id = {1, 2}
    Json = {j1, j2, j3}
    Rev = {r1, r2}
    IndexName = {n1}
    Path = {p1}
    Value = {1, 2}
    Patch = {flip}
    Key = {k1, k2, k3}
    NoDoc = NoDoc
    NoPath = NoPath
    Absent = Absent
    Oversize = Oversize
    InvalidPatch = InvalidPatch
    NoKey = NoKey
    NoClient = NoClient
    Pointer <- MCPointer
    PatchOf <- MCPatchOf
    DBStripe <- MCDBStripe
    DocStripe <- MCDocStripe
    Requests <- ReadRequests
SYMMETRY ReadSymmetry
INVARIANTS Inv
PROPERTIES Linearizable
