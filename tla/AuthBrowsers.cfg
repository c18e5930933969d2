\* Two browsers, one possibly with a cookie of an earlier server, sign in and
\* out through every outcome of /authorize, /login and /logout.
SPECIFICATION Spec
CONSTANTS
    Absent = Absent
    None = None
    ada = ada
    root = root
    gone = gone
    w = w
    x = x
    here = here
    there = there
    cost = cost
    broken = broken
    v1 = v1
    n1 = n1
    n2 = n2
    s1 = s1
    s2 = s2
    cd1 = cd1
    cd2 = cd2
    rt1 = rt1
    rt2 = rt2
    c1 = c1
    c2 = c2
    b1 = b1
    b2 = b2
    Scopes = {"openid"}
    Nonces = {n1}
    States = {s1, s2}
    Users = {ada, root}
    Accounts = {ada, root, gone}
    Clients = {w, x}
    Registered <- OneClient
    Uris = {here, there, cost, broken}
    Malformed = {broken}
    CallbackUrls <- HereOrBroken
    LogoutUrls <- OnlyHere
    Verifiers = {v1}
    SubClaim <- NoSubClaim
    AuthorizeParams <- OddParams
    HandMade <- HandMadeForms
    Substituted <- DollarTexts
    Browsers = {b1, b2}
    Conns = {}
    Codes = {cd1, cd2}
    Handles = {}
    CodeLife = 0
    RefreshLife = 0
    IdLife = 1
    AccessLife = 2
    MaxTime = 0
    MaxRestarts = 0
SYMMETRY InterchangeableBrowsers
INVARIANTS
    CallbackAnswersRequest
PROPERTY
    SessionComesWithCode
