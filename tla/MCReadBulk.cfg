SPECIFICATION Spec
CONSTANTS
    BufSize = 2
    maxLine = 3
    maxBytes = 5
    maxDocs = 2
    MaxBody = 6
INVARIANTS TypeOK ReturnsTheLines BlamesTheLine
PROPERTY Returns
