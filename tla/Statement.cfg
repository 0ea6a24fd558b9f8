SPECIFICATION Spec
CONSTANTS
    IntBits <- MCIntBits
    MantissaBits <- MCMantissaBits
    Starts <- MCStarts
    Workers = 2
INVARIANTS
    GroupsAsDocumented
    ReadsWhole
    AnswerIsExact
    SchemasAreSound
PROPERTY InsertIsExact
\* The connection stops after the last statement of its script.
CHECK_DEADLOCK FALSE
