\* The port asked for is held by another process.
SPECIFICATION Spec
CONSTANTS
    main = main
    sigint = sigint
    sigterm = sigterm
    Starters = {main}
    Stoppers = {sigint}
    Ports = {1, 2}
    Taken = {1}
    Wanted = {1}
    Given = {0}
    MaxServers = 3
INVARIANT ListeningIsTold
