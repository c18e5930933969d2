\* A start() while a stop() waits for connections to end.
SPECIFICATION Spec
CONSTANTS
    main = main
    sigint = sigint
    sigterm = sigterm
    Starters = {main}
    Stoppers = {sigint}
    Ports = {1, 2}
    Taken = {}
    Wanted = {0}
    Given = {0}
    MaxServers = 3
PROPERTY StartedMeansListening
