SPECIFICATION FairSpec
CONSTANTS
    Handler = {c1, c2}
    Name = {n1}
    Master = {m1, m2}
    Salt = {1}
    MaxBoots = 3
    None = None
    Torn = Torn
    Zero = Zero
    Legacy = Legacy
INVARIANTS Readable AnsweredKept NoFalseAlarm
PROPERTIES ForeignKept SignalEnds
