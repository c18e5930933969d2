\* doctor --pool while pool and clients are changed and deleted under it.
SPECIFICATION Spec
CONSTANTS
    Absent = Absent
    None = None
    k1 = k1
    k2 = k2
    Configs <- NoConfigs
    Documents <- NoDocuments
    InitUrls <- NoInit
    Localhost <- Local
    AppScheme <- Native
    Pools <- SomePools
    ClientInfos <- SomeClients
    ClientIds = {k1, k2}
    MaxSeen = 4
INVARIANTS
    TypeOK
    SilenceIsNotHealth
    EveryFindingWasTrue
PROPERTY
    DoctorEnds
