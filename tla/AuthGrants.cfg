\* Two users sign in to two clients by forms that differ in all that tokens are
\* bound to; two connections race for the codes and refresh tokens while the
\* clock runs past every lifetime.
SPECIFICATION Spec
CONSTANTS
    Absent = Absent
    None = None
    ada = ada
    root = root
    gone = gone
    w = w
    x = x
    here = here
    there = there
    cost = cost
    broken = broken
    v1 = v1
    n1 = n1
    n2 = n2
    s1 = s1
    s2 = s2
    cd1 = cd1
    cd2 = cd2
    rt1 = rt1
    rt2 = rt2
    c1 = c1
    c2 = c2
    b1 = b1
    b2 = b2
    Scopes = {"openid", "email"}
    Nonces = {n1, n2}
    States = {s1}
    Users = {ada, root}
    Accounts = {ada, root}
    Clients = {w, x}
    Registered <- TwoClients
    Uris = {here}
    Malformed = {}
    CallbackUrls <- HereForBoth
    LogoutUrls <- HereForBoth
    Verifiers = {v1}
    SubClaim <- NoSubClaim
    AuthorizeParams <- NoParams
    HandMade <- TwoSignIns
    Substituted <- DollarTexts
    Browsers = {b1}
    Conns = {c1, c2}
    Codes = {cd1, cd2}
    Handles = {rt1, rt2}
    CodeLife = 0
    RefreshLife = 0
    IdLife = 0
    AccessLife = 0
    MaxTime = 1
    MaxRestarts = 0
SYMMETRY Interchangeable
INVARIANTS
    TypeOK
    GrantIsTheSignIn
    RefreshIsTheSignIn
    CodeInvariant
PROPERTY
    RefusalSpendsNothing
