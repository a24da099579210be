SPECIFICATION Spec
CONSTANTS
    n1 = n1
    n2 = n2
    b1 = b1
    host = host
    editor = editor
    browser = browser
    frame = frame
    note = note
    web = web
    d1 = d1
    d2 = d2
    f1 = f1
    f2 = f2
    laptop = laptop
    monitor = monitor
    chrome = chrome
    p1 = p1
    p2 = p2
    home1 = home1
    home2 = home2
    t1 = t1
    t2 = t2
    Window = {n1, n2, b1}
    Process = {host, editor, browser}
    App = {frame, note, web}
    Doc = {d1, d2}
    Name = {f1, f2}
    NONE = NONE
    window <- MCWindow
    process <- MCProcess
    about <- MCAbout
    nameOf <- MCNameOf
    NeverRestore = {}
    Display = {laptop, monitor}
    screen <- MCScreen
    MinVisibleW = 3
    MinVisibleH = 1
    Rect <- MCRect
    Session <- MCSession
    DefaultDpi = 96
    Browser = {chrome}
    Chromium = {chrome}
    Profile = {p1, p2}
    Dir = {home1, home2}
    SafeDir = {home1, home2}
    BrowserWindow = {t1, t2}
    browserId <- MCBrowserId
    browserOf <- MCBrowserOf
    homeOf <- MCHomeOf
    profileOf <- MCProfileOf
    commandDir <- MCCommandDir
    Nowhere = Nowhere
    MaxActs = 2
    MaxFaults = 1
INVARIANTS NoSecondWindow PlacedInReach StartsInItsProfile
CHECK_DEADLOCK FALSE
