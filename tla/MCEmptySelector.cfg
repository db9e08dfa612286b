CONSTANTS
    DCs = {a, b}
    Nodes = {n1, n2, n3}
    n1 = n1
    n2 = n2
    n3 = n3
    SelC = SelC
    NilSelector = NilSelector
    EmptySelector = EmptySelector
    DefaultSelector = DefaultSelector
    UserSelectors = {NilSelector, EmptySelector, SelC}
    SelectedBy <- MCSelectedBy
    NoChild = NoChild
    SpecUpdates = FALSE
    Recreate = FALSE
    Resync = TRUE
    Relabel = {}
    CacheLag = 0
    MaxUserOps = 2
    MaxFaults = 0

SPECIFICATION Spec

PROPERTY RejectsOnlyConflicting

\* With no name queued and no user operation left the controller idles.
CHECK_DEADLOCK FALSE
