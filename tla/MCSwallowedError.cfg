CONSTANTS
    DCs = {a, b}
    Nodes = {n1, n2}
    n1 = n1
    n2 = n2
    SelA = SelA
    SelB = SelB
    NilSelector = NilSelector
    EmptySelector = EmptySelector
    DefaultSelector = DefaultSelector
    UserSelectors = {NilSelector, SelA, SelB}
    SelectedBy <- MCSelectedBy
    NoChild = NoChild
    SpecUpdates = TRUE
    Recreate = TRUE
    Resync = TRUE
    Relabel = {}
    CacheLag = 0
    MaxUserOps = 4
    MaxFaults = 1

SPECIFICATION Spec


\* With no name queued and no user operation left the controller idles.
CHECK_DEADLOCK FALSE
PROPERTY TransientErrorsRequeued
