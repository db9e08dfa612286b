CONSTANTS
    DCs = {a}
    Nodes = {n1, n2}
    n1 = n1
    n2 = n2
    SelA = SelA
    SelB = SelB
    NilSelector = NilSelector
    EmptySelector = EmptySelector
    DefaultSelector = DefaultSelector
    UserSelectors = {NilSelector, SelA, SelB}
    SelectedBy <- MCSelectedBy
    NoChild = NoChild
    SpecUpdates = TRUE
    Recreate = TRUE
    Resync = TRUE
    Relabel = {}
    CacheLag = 1
    MaxUserOps = 3
    MaxFaults = 2

SPECIFICATION Spec

PROPERTY Teardown
PROPERTY Converges

\* With no name queued and no user operation left the controller idles.
CHECK_DEADLOCK FALSE
