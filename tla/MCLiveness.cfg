CONSTANTS
    DCs = {a, b}
    Nodes = {n1, n2}
    n1 = n1
    n2 = n2
    SelA = SelA
    SelB = SelB
    NilSelector = NilSelector
    EmptySelector = EmptySelector
    DefaultSelector = DefaultSelector
    UserSelectors = {NilSelector, SelA}
    SelectedBy <- MCSelectedBy
    NoChild = NoChild
    SpecUpdates = FALSE
    Recreate = FALSE
    Resync = TRUE
    Relabel = {DefaultSelector}
    CacheLag = 0
    MaxUserOps = 3
    MaxFaults = 0

SPECIFICATION Spec

PROPERTY Teardown
PROPERTY Converges
PROPERTY ConflictReported

\* With no name queued and no user operation left the controller idles.
CHECK_DEADLOCK FALSE
