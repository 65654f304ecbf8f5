CONSTANTS
    Database <- Names
    Index <- IndexNames
    ID <- IDs
    Values <- AllValues
    maxIndexValue = 300
    Missing = Missing
    Loads <- SomeLoads
SPECIFICATION Spec
INVARIANTS ListsExact EqualExact RangeExact ResumeExact RefusedOnlyLarge
