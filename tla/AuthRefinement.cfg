\* One code, two clients: every step is a step of the abstract code grant,
\* and every request in flight is answered, restarts included.
SPECIFICATION Spec
CONSTANTS
    Absent = Absent
    None = None
    ada = ada
    root = root
    gone = gone
    w = w
    x = x
    here = here
    there = there
    cost = cost
    broken = broken
    v1 = v1
    n1 = n1
    n2 = n2
    s1 = s1
    s2 = s2
    cd1 = cd1
    cd2 = cd2
    rt1 = rt1
    rt2 = rt2
    c1 = c1
    c2 = c2
    b1 = b1
    b2 = b2
    Scopes = {"openid"}
    Nonces = {n1}
    States = {s1}
    Users = {ada, root}
    Accounts = {ada, root}
    Clients = {w}
    Registered <- OneClient
    Uris = {here, there}
    Malformed = {}
    CallbackUrls <- OnlyHere
    LogoutUrls <- OnlyHere
    Verifiers = {v1}
    SubClaim <- NoSubClaim
    AuthorizeParams <- GoodParams
    HandMade = {}
    Substituted <- DollarTexts
    Browsers = {b1}
    Conns = {c1, c2}
    Codes = {cd1}
    Handles = {rt1}
    CodeLife = 0
    RefreshLife = 0
    IdLife = 1
    AccessLife = 2
    MaxTime = 1
    MaxRestarts = 1
INVARIANT
    SingleUse
PROPERTIES
    ImplementsCodeGrant
    EveryRequestAnswered
