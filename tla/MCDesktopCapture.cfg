SPECIFICATION Spec
CONSTANTS
    n1 = n1
    n2 = n2
    b1 = b1
    host = host
    editor = editor
    browser = browser
    frame = frame
    note = note
    web = web
    d1 = d1
    f1 = f1
    laptop = laptop
    monitor = monitor
    Window = {n1, n2, b1}
    Process = {host, editor, browser}
    App = {frame, note, web}
    Doc = {d1}
    Name = {f1}
    NONE = NONE
    window <- MCWindow
    nameOf <- MCNameOf
    about <- MCAbout
    process <- MCProcess
    NeverRestore = {}
    Display = {laptop, monitor}
    screen <- MCScreen
    MinVisibleW = 3
    MinVisibleH = 1
    Rect <- MCRect
    Session <- MCSession
    MaxActs = 3
    MaxFaults = 1
INVARIANTS TypeOK QuietIsCurrent CrashKeepsWhatIsOpen
