\* Two tabs sign in and out at once while sessions end and the provider
\* restarts.
SPECIFICATION Spec
CONSTANTS
    None = None
    tab1 = tab1
    tab2 = tab2
    ada = ada
    root = root
    f1 = f1
    f2 = f2
    f3 = f3
    Tabs = {tab1, tab2}
    Users = {ada, root}
    Flows = {f1, f2, f3}
    MaxRestarts = 1
INVARIANTS
    TypeOK
    QuietSignInKeepsItsCookie
    QuietSignOutIsComplete
PROPERTY
    LoneTabSettles
