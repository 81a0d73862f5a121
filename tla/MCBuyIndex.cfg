CONSTANTS
    w1 = w1
    w2 = w2
    Entries <- MCEntries
    BuyCap = 3
    CopycatWindow = 2
    MaxIndexed = 5
SPECIFICATION IndexSpec
INVARIANTS IndexTypeOK ListSorted KeepsLatest CountsEveryFollower
