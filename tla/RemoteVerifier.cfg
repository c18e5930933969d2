\* Key sets of two ticks and a fetch of one; the provider is stopped, started
\* and given new keys, and the application restarts.
SPECIFICATION Spec
CONSTANTS
    None = None
    r1 = r1
    r2 = r2
    Requests = {r1, r2}
    MaxKeys = 3
    MaxAge = 2
    Timeout = 1
    Cooldown = 1
INVARIANT
    TypeOK
PROPERTIES
    RetiredKeyIsForgotten
    CurrentKeyIsKnown
    RequestsAreAnswered
