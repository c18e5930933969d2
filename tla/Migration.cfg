\* A config file is edited and deployed, and migrate compares it with the
\* deployed pool and with two documents, in both directions.
SPECIFICATION Spec
CONSTANTS
    Absent = Absent
    None = None
    Configs <- SomeConfigs
    Orders = {1, 2}
    Fixtures <- SomeFixtures
INVARIANTS
    TypeOK
    CriticalRisksAreChanges
    DeployedDiagnosesAlike
    DriftIsKnown
PROPERTY
    ReplacementIsForetold
