SPECIFICATION FairSpec
CONSTANTS
    Handler = {c1, c2}
    Concurrency = 2
    Buffer = 1
    MaxDocs = 1
    None = None
    Requests <- Admitted
PROPERTIES SlotFreed WriterServed
