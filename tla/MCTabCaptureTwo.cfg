SPECIFICATION Spec
CONSTANTS
    x1 = x1
    x2 = x2
    chrome = chrome
    w1 = w1
    w2 = w2
    t1 = t1
    t2 = t2
    v1 = v1
    v2 = v2
    v3 = v3
    Ext = {x1, x2}
    Browser = {chrome}
    WindowId = {w1, w2}
    TabId = {t1}
    Version = {v1, v2, v3}
    Shown = Shown
    Removed = Removed
    RelayKey = RelayKey
    NoKey = NoKey
    browserOf <- SameChrome
    idsOf <- ApartIds
    contentOf <- ApartContent
    AtStart <- NoneOrOne
    MaxPending = 5
    MaxChanges = 1
    MaxSleeps = 0
    MaxDrops = 0
    MaxPipe = 1
INVARIANTS OwnTabsOnly
PROPERTIES Isolation
