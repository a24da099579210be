SPECIFICATION FairSpec
CONSTANTS
    x1 = x1
    x2 = x2
    chrome = chrome
    w1 = w1
    w2 = w2
    t1 = t1
    t2 = t2
    v1 = v1
    v2 = v2
    v3 = v3
    Ext = {x1}
    Browser = {chrome}
    WindowId = {w1}
    TabId = {t1}
    Version = {v1}
    Shown = Shown
    Removed = Removed
    RelayKey = RelayKey
    NoKey = NoKey
    browserOf <- OneBrowser
    idsOf <- OneIdOnly
    contentOf <- OneContent
    AtStart <- OneOpen
    MaxPending = 2
    MaxChanges = 2
    MaxSleeps = 1
    MaxDrops = 1
    MaxPipe = 1
PROPERTY ViewConverges
