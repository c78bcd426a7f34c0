SPECIFICATION FairSpec
CONSTANTS
    c1 = c1
    c2 = c2
    c3 = c3
    s1 = s1
    s2 = s2
    a = a
    b = b
    mine = mine
    yours = yours
    Callers = {c1, c2, c3}
    Stores = {s1, s2}
    StoreOf <- MCStoreOf
    Events = {a, b}
    SessionOf <- MCSessionOf
    AllSessions = AllSessions
    Requests <- MCRequests
    Initial <- MCInitial
    MaxPosition = 3
    NoCaller = NoCaller
    NoStore = NoStore
    NoRequest = NoRequest
INVARIANTS Dense
PROPERTIES LogSpec LocksReleased
