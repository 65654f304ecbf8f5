SPECIFICATION Spec
CONSTANTS
    Handler = {c1, c2}
    Concurrency = 1
    Buffer = 2
    MaxDocs = 3
    None = None
    Requests <- bulkRequest
SYMMETRY Symmetry
INVARIANTS TypeOK SlotsHeld ImportTruthful ShortExportLogged WaitingClientAnswered
PROPERTY SlotsRefined
