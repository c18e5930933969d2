\* One starter that asks for any port, a free one or one that is taken, with an
\* issuer of its own or none, and two stoppers: starts and stops overlap.
SPECIFICATION Spec
CONSTANTS
    main = main
    sigint = sigint
    sigterm = sigterm
    Starters = {main}
    Stoppers = {sigint, sigterm}
    Ports = {1, 2, 3}
    Taken = {1}
    Wanted = {0, 1, 2}
    Given = {0, 2}
    MaxServers = 3
INVARIANTS
    TypeOK
    ListeningUnlessFailed
    NoOrphanListener
    AnnouncedPortIsBound
PROPERTIES
    KeysAreKept
    CallsSettle
