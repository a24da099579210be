------------------------------ MODULE Desktop ------------------------------
(***************************************************************************)
(* The desktop: what a capture makes of it, what a restore asks of it, and *)
(* what its user does.                                                     *)
(*                                                                         *)
(* An application is its key: processes of one executable or package are   *)
(* one application.  A title is the file name in it, or NONE.  Paths are   *)
(* folded and unfolded again with the same environment, and are left out.  *)
(***************************************************************************)
EXTENDS Integers, Sequences, SequencesExt, Placement

CONSTANTS
    Window,        \* window handles
    Process,
    App,           \* application keys
    Doc,           \* paths of documents
    Name,          \* file names
    Rect,          \* rectangles a user gives to windows
    Session,       \* what may have been open before
    NONE

CONSTANTS
    window,        \* Window -> its sort, its process, and that of its first foreign child
    process,       \* Process -> its application, token, whether its memory can be read, arguments
    about,         \* App -> its executable and kind
    nameOf,        \* Doc -> Name
    NeverRestore   \* app_rules: applications never to be launched

Kind == {"win32", "uwp", "unknown"}
Tier == {"A", "B", "C", "D"}
Exe == {"browser", "other browser", "editor", "frame host", "ignored", "other"}
Sort == {"window", "invisible", "tool", "owned", "shell", "untitled", "cloaked"}
Argument == [sort : {"path", "flag", "secret", "query"}, doc : Doc \cup {NONE}]
Index == [Name -> Doc \cup {NONE}]

\* The row of an application, and that of a window.
AppRows == [tier : Tier, command : {"absent", "redacted", "plain"}, given : SUBSET Doc, documents : SUBSET Doc]
WindowRows == [app : App, title : Name \cup {NONE}, rect : Rectangle, display : SUBSET Display]

ASSUME DesktopAssumption ==
    /\ IsFiniteSet(Window)
    /\ window \in [Window -> [sort : Sort, process : Process, child : Process \cup {NONE}]]
    /\ process \in [Process -> [app : App, token : {"plain", "elevated", "unknown"},
                                readable : BOOLEAN, arguments : SUBSET Argument]]
    /\ about \in [App -> [exe : Exe, kind : Kind]]
    /\ nameOf \in [Doc -> Name]
    /\ NeverRestore \subseteq App
    /\ \A p \in Process, a \in Argument : a \in process[p].arguments /\ a.sort = "path" => a.doc # NONE
    /\ Rect \subseteq Rectangle /\ Rect # {}
    /\ NONE \notin Window \cup Process \cup App \cup Doc \cup Name \cup AppRows \cup WindowRows

\* A session: windows with what they show, Recent items, the displays with a row.
ASSUME SessionAssumption ==
    \A s \in Session :
        /\ s.open \in Seq(Window) /\ IsInjective(s.open)
        /\ s.doc \in [Window -> Doc \cup {NONE}] /\ s.rect \in [Window -> Rectangle]
        /\ s.recent \in Index /\ s.displays \subseteq Display

VARIABLES
    z,             \* the open windows, front to back
    shown,         \* the document a window shows, or NONE
    pos,           \* its normal rectangle
    monitors,      \* the displays that are attached
    recent         \* Recent items: the newest path under each file name

desktopVars == <<z, shown, pos, monitors, recent>>

-----------------------------------------------------------------------------
(* One window.                                                             *)

IsBrowser(a) == about[a].exe \in {"browser", "other browser"}
IsIgnored(a) == about[a].exe \in {"frame host", "ignored"}
ArgumentsMatter(a) == about[a].exe \in {"browser", "editor"}

\* The frame of a packaged application belongs to a host; its process is found
\* through the child window.
ResolveFrameHost(w) ==
    LET p == window[w].process
    IN  IF about[process[p].app].exe = "frame host" /\ window[w].child # NONE THEN window[w].child ELSE p

processOf == [w \in Window |-> process[ResolveFrameHost(w)]]
appOf == [w \in Window |-> processOf[w].app]

\* The windows that are in S, in their order: SelectSeq, in a form that can be
\* reasoned about.
Among(windows, S) ==
    LET among[n \in 0 .. Len(windows)] ==
            IF n = 0 THEN <<>>
            ELSE IF windows[n] \in S THEN Append(among[n - 1], windows[n]) ELSE among[n - 1]
    IN  among[Len(windows)]

\* Front to back: ordinary windows of programs that are known and not ignored.
Enumerate(windows) ==
    Among(windows, {w \in Window : /\ window[w].sort = "window"
                                   /\ ~IsIgnored(appOf[w]) /\ about[appOf[w]].kind # "unknown"})

WindowsOf(a) == {w \in Window : appOf[w] = a}

\* All that are attached, each under the hash of its device name and its size.
EnumerateDisplays == monitors

\* A token that cannot be asked counts as elevated.
IsElevated(w) == processOf[w].token # "plain"

CandidatesFromTitle(doc) == IF doc = NONE THEN {} ELSE {nameOf[doc]}

\* A browser's title is a page's, and a title that names no file may be content.
StorableTitle(w, doc) ==
    IF IsBrowser(appOf[w]) \/ CandidatesFromTitle(doc) = {} THEN NONE ELSE nameOf[doc]

\* The command line in the memory of the process: one, or none that can be read.
ReadCommandLine(w) == IF processOf[w].readable THEN {processOf[w].arguments} ELSE {}

\* What looks like a credential, or is the query of an address.
Redacted(line) == \E a \in line : a.sort \in {"secret", "query"}

\* Kept where it matters.
CommandLine(w) ==
    IF ~ArgumentsMatter(appOf[w]) \/ ReadCommandLine(w) = {} THEN "absent"
    ELSE IF \E line \in ReadCommandLine(w) : Redacted(line) THEN "redacted" ELSE "plain"

\* Documents on the command line count whether or not it is kept.
ExtractDocuments(w) == {a.doc : a \in {b \in UNION ReadCommandLine(w) : b.sort = "path"}}

ResolveFromTitle(title, index) == IF title = NONE THEN NONE ELSE index[title]

-----------------------------------------------------------------------------
(* One application.                                                        *)

FromTitles(own, title, index) ==
    {ResolveFromTitle(StorableTitle(w, title[w]), index) : w \in own} \ {NONE}

\* Mutant: only the window in front is asked.
DocumentsOfFirst(found, title, index, a) ==
    LET own == Among(found, WindowsOf(a))
        first == IF own = <<>> \/ IsBrowser(a) THEN {} ELSE {own[1]}
    IN  (UNION {ExtractDocuments(w) : w \in first}) \cup FromTitles(first, title, index)

\* From all its windows.
DocumentsOf(found, title, index, a) ==
    LET own == {w \in ToSet(found) : appOf[w] = a /\ ~IsBrowser(a)}
    IN  (UNION {ExtractDocuments(w) : w \in own}) \cup FromTitles(own, title, index)

\* Mutant: a redacted command line is good enough.
AssignTierRedacted(w, docs) ==
    LET kind == about[appOf[w]].kind
    IN  IF appOf[w] \in NeverRestore \/ IsElevated(w) \/ kind = "unknown" THEN "D"
        ELSE IF kind = "win32" /\ CommandLine(w) # "absent" THEN "A"
        ELSE IF docs # {} THEN "C" ELSE "B"

AssignTier(w, docs) ==
    LET kind == about[appOf[w]].kind
    IN  IF appOf[w] \in NeverRestore \/ IsElevated(w) \/ kind = "unknown" THEN "D"
        ELSE IF kind = "win32" /\ CommandLine(w) = "plain" THEN "A"
        ELSE IF docs # {} THEN "C" ELSE "B"

\* The row of an application: its process is that of the window in front.
AppRow(w, docs) ==
    [tier |-> AssignTier(w, docs), command |-> CommandLine(w), given |-> ExtractDocuments(w), documents |-> docs]

\* What is open now: the documents an application has, {} when it has no window.
OpenNow(found, title, index) ==
    [a \in App |-> IF \E i \in DOMAIN found : appOf[found[i]] = a /\ ~IsBrowser(a)
                   THEN {DocumentsOf(found, title, index, a)} ELSE {}]

WindowRow(w, doc, rect) ==
    [app |-> appOf[w], title |-> StorableTitle(w, doc), rect |-> rect,
     display |-> DisplayForRect(EnumerateDisplays, rect)]

\* The rows of a session, as a pass that saw all of it leaves them.
RowsOf(session) ==
    LET found == Enumerate(session.open)
        front(a) == Among(found, WindowsOf(a))
    IN  [apps |-> [a \in App |-> IF front(a) = <<>> THEN NONE
                     ELSE AppRow(front(a)[1], DocumentsOf(found, session.doc, session.recent, a))],
         windows |-> [w \in Window |-> IF w \in ToSet(found)
                        THEN WindowRow(w, session.doc[w], session.rect[w]) ELSE NONE],
         displays |-> session.displays]

RecentIndex(cache) == IF cache = NONE THEN recent ELSE cache

-----------------------------------------------------------------------------
(* The desktop of a machine that has just started, and its user (external). *)

Open == ToSet(z)

\* What a closed window would be opened with.
Fresh == [shown |-> [w \in Window |-> NONE], pos |-> [w \in Window |-> CHOOSE r \in Rect : TRUE]]

InitDesktop ==
    /\ z = <<>> /\ shown = Fresh.shown /\ pos = Fresh.pos
    /\ monitors = Display

Opens(w, doc) ==
    /\ w \notin Open
    /\ z' = <<w>> \o z
    /\ shown' = [shown EXCEPT ![w] = doc]
    /\ recent' = IF doc = NONE THEN recent ELSE [recent EXCEPT ![nameOf[doc]] = doc]

UserOpens == \E w \in Window, doc \in Doc \cup {NONE} : Opens(w, doc) /\ UNCHANGED pos

UserCloses ==
    \E w \in Open :
        /\ z' = Among(z, Window \ {w})
        /\ shown' = [shown EXCEPT ![w] = Fresh.shown[w]]
        /\ pos' = [pos EXCEPT ![w] = Fresh.pos[w]]
        /\ UNCHANGED recent

UserRaises ==
    \E w \in Open :
        w # z[1] /\ z' = <<w>> \o Among(z, Window \ {w}) /\ UNCHANGED <<shown, pos, recent>>

UserTurnsTo ==
    \E w \in Open, doc \in Doc :
        /\ shown' = [shown EXCEPT ![w] = doc]
        /\ recent' = [recent EXCEPT ![nameOf[doc]] = doc]
        /\ UNCHANGED <<z, pos>>

UserMoves == \E w \in Open, r \in Rect : pos' = [pos EXCEPT ![w] = r] /\ UNCHANGED <<z, shown, recent>>

\* No hook tells of displays.
UserDocks ==
    \E d \in Display :
        /\ ~screen[d].primary
        /\ monitors' = IF d \in monitors THEN monitors \ {d} ELSE monitors \cup {d}
        /\ UNCHANGED <<z, shown, pos, recent>>

\* What a window hook tells of, and what it does not.
WindowAct == (UserOpens \/ UserCloses \/ UserRaises \/ UserTurnsTo \/ UserMoves) /\ UNCHANGED monitors
=============================================================================
