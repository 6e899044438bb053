SPECIFICATION Spec
CONSTANTS
    Procs = {p1, p2}
    Slugs = {ann, demo}
    Demo = demo
    OldSchemas <- MCOldSchemas
INVARIANTS
    TypeOK
    ServesFullSchema
    RowsInOrder
    DemoComplete
    FailsOnlyInCompany
    AcknowledgedIsDurable
    IdleIsUnlocked
PROPERTY
    EveryProgramEnds
