\* Every small config through init, test and doctor --config.
SPECIFICATION Spec
CONSTANTS
    Absent = Absent
    None = None
    k1 = k1
    k2 = k2
    Configs <- ManyConfigs
    Documents <- SomeDocuments
    InitUrls <- GivenUrls
    Localhost <- Local
    AppScheme <- Native
    Pools <- NoPools
    ClientInfos <- SomeClients
    ClientIds = {k1}
    MaxSeen = 1
INVARIANTS
    TestIsValidation
