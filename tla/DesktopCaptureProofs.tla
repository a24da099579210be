------------------------ MODULE DesktopCaptureProofs ------------------------
(***************************************************************************)
(* The passes of a capture, for any windows, applications and displays:    *)
(* when nothing is on its way the rows are the desktop, and a pass cut off *)
(* anywhere keeps what is open and leaves no window without its            *)
(* application.                                                            *)
(***************************************************************************)
EXTENDS DesktopCapture, WellFoundedInduction, TLAPS

-----------------------------------------------------------------------------
(* What passes the filter of an enumeration.                               *)

LEMMA Least ==
    ASSUME NEW T, T \subseteq Nat, T # {}
    PROVE  \E x \in T : \A y \in T : x <= y
  <1>1. PICK x \in T : \A y \in T : ~(<<y, x>> \in OpToRel(<, Nat))
    BY NatLessThanWellFounded, WFMin
  <1>2. ASSUME NEW y \in T, y < x PROVE FALSE
    <2>1. <<y, x>> \in OpToRel(<, Nat)
      BY <1>2 DEF OpToRel
    <2> QED BY <2>1, <1>1
  <1>3. \A y \in T : ~(y < x)
    BY <1>2
  <1> QED BY <1>3

\* The n-th value of the recursive function in Among.
Step(f, windows, S, n) ==
    IF n = 0 THEN <<>>
    ELSE IF windows[n] \in S THEN Append(f[n - 1], windows[n]) ELSE f[n - 1]

\* There is such a function for the first N windows.
HasValues(windows, S, N) == \E f : f = [n \in 0 .. N |-> Step(f, windows, S, n)]

\* The function exists: a least length without one would be one step past a
\* length that has one.
LEMMA AmongDefined ==
    ASSUME NEW windows \in Seq(Window), NEW S, NEW N \in Nat, N <= Len(windows)
    PROVE  HasValues(windows, S, N)
  <1> DEFINE T == {k \in 0 .. N : ~ \E f : f = [n \in 0 .. k |-> Step(f, windows, S, n)]}
  <1>1. SUFFICES ASSUME T # {} PROVE FALSE
    BY DEF HasValues
  <1>2. T \subseteq Nat
    OBVIOUS
  <1>3. PICK k \in T : \A j \in T : k <= j
    BY <1>1, <1>2, Least
  <1>4. CASE k = 0
    <2> DEFINE f == [n \in 0 .. k |-> <<>>]
    <2>1. f = [n \in 0 .. k |-> Step(f, windows, S, n)]
      BY <1>4 DEF Step
    <2> QED BY <2>1
  <1>5. CASE k # 0
    <2>1. k - 1 \in 0 .. N /\ k \in Nat /\ k - 1 \in Nat
      BY <1>5
    <2>2. PICK g : g = [n \in 0 .. k - 1 |-> Step(g, windows, S, n)]
      BY <1>3, <2>1
    <2> DEFINE f == [n \in 0 .. k |-> Step(g, windows, S, n)]
    <2>3. \A n \in 0 .. k - 1 : f[n] = g[n]
      BY <2>1, <2>2
    <2>4. \A n \in 0 .. k : Step(f, windows, S, n) = Step(g, windows, S, n)
      <3> HIDE DEF f
      <3>1. ASSUME NEW n \in 0 .. k, n # 0 PROVE f[n - 1] = g[n - 1]
        BY <2>1, <2>3, <3>1
      <3> QED BY <3>1 DEF Step
    <2>5. f = [n \in 0 .. k |-> Step(f, windows, S, n)]
      BY <2>4
    <2> QED BY <2>5
  <1> QED BY <1>4, <1>5

LEMMA AmongSteps ==
    ASSUME NEW windows \in Seq(Window), NEW S
    PROVE  \E f : /\ \A n \in 0 .. Len(windows) : f[n] = Step(f, windows, S, n)
                  /\ Among(windows, S) = f[Len(windows)]
  <1> DEFINE f == CHOOSE f : f = [n \in 0 .. Len(windows) |-> Step(f, windows, S, n)]
  <1>1. f = [n \in 0 .. Len(windows) |-> Step(f, windows, S, n)]
    <2>1. Len(windows) \in Nat /\ Len(windows) <= Len(windows)
      OBVIOUS
    <2>2. HasValues(windows, S, Len(windows))
      BY <2>1, AmongDefined
    <2>3. \E g : g = [n \in 0 .. Len(windows) |-> Step(g, windows, S, n)]
      BY <2>2 DEF HasValues
    <2> QED BY <2>3, Zenon
  <1>2. Among(windows, S) = f[Len(windows)]
    BY DEF Among, Step
  <1> QED BY <1>1, <1>2

\* Among is a sequence of windows that are there, each as often as there.
LEMMA AmongIs ==
    ASSUME NEW windows \in Seq(Window), NEW S
    PROVE  /\ Among(windows, S) \in Seq(Window)
           /\ ToSet(Among(windows, S)) = ToSet(windows) \cap S
           /\ IsInjective(windows) => IsInjective(Among(windows, S))
  <1> DEFINE Upto(n) == {windows[i] : i \in 1 .. n} \cap S
             Good(g, n) == /\ g \in Seq(Window) /\ ToSet(g) = Upto(n)
                           /\ IsInjective(windows) => IsInjective(g)
  <1>1. PICK f : /\ \A n \in 0 .. Len(windows) : f[n] = Step(f, windows, S, n)
                 /\ Among(windows, S) = f[Len(windows)]
    BY AmongSteps
  <1> DEFINE T == {n \in 0 .. Len(windows) : ~ Good(f[n], n)}
  <1>2. ASSUME T # {} PROVE FALSE
    <2>1. T \subseteq Nat
      OBVIOUS
    <2>2. PICK n \in T : \A j \in T : n <= j
      BY <1>2, <2>1, Least
    <2>3. n \in 0 .. Len(windows) /\ f[n] = Step(f, windows, S, n) /\ ~Good(f[n], n)
      BY <1>1, <2>2
    <2>4. n # 0
      <3>1. ASSUME n = 0 PROVE FALSE
        <4>1. f[n] = <<>> /\ Upto(n) = {}
          BY <2>3, <3>1 DEF Step
        <4>2. Good(f[n], n)
          BY <4>1 DEF ToSet, IsInjective
        <4> QED BY <2>3, <4>2
      <3> QED BY <3>1
    <2>5. n - 1 \in 0 .. Len(windows) /\ n - 1 \notin T
      <3> HIDE DEF T
      <3> QED BY <2>2, <2>3, <2>4
    <2>6. Good(f[n - 1], n - 1)
      BY <2>5
    <2>7. windows[n] \in Window /\ Upto(n) = Upto(n - 1) \cup ({windows[n]} \cap S)
      BY <2>3, <2>4
    <2> DEFINE g == f[n - 1]
    <2>8. CASE windows[n] \notin S
      <3>1. f[n] = g
        BY <2>3, <2>4, <2>8 DEF Step
      <3> QED BY <2>3, <2>6, <2>7, <2>8, <3>1
    <2>9. CASE windows[n] \in S
      <3>1. f[n] = Append(g, windows[n])
        BY <2>3, <2>4, <2>9 DEF Step
      <3>2. g \in Seq(Window) /\ ToSet(g) = Upto(n - 1) /\ (IsInjective(windows) => IsInjective(g))
        BY <2>6
      <3>3. IsInjective(windows) => windows[n] \notin Upto(n - 1)
        BY <2>3, <2>4 DEF IsInjective
      <3> HIDE DEF g, Upto
      <3>4. ToSet(Append(g, windows[n])) = ToSet(g) \cup {windows[n]}
        <4>1. Len(g) \in Nat /\ DOMAIN g = 1 .. Len(g) /\ DOMAIN Append(g, windows[n]) = 1 .. Len(g) + 1
          BY <2>7, <3>2
        <4>2. \A i \in 1 .. Len(g) : Append(g, windows[n])[i] = g[i]
          BY <2>7, <3>2
        <4>3. Append(g, windows[n])[Len(g) + 1] = windows[n]
          BY <2>7, <3>2
        <4> HIDE DEF T
        <4> QED BY <4>1, <4>2, <4>3 DEF ToSet
      <3>5. IsInjective(windows) => IsInjective(Append(g, windows[n]))
        BY <2>7, <3>2, <3>3 DEF ToSet, IsInjective
      <3>6. Append(g, windows[n]) \in Seq(Window)
        BY <2>7, <3>2
      <3> QED BY <2>3, <2>7, <2>9, <3>1, <3>2, <3>4, <3>5, <3>6
    <2> QED BY <2>8, <2>9
  <1>3. Good(f[Len(windows)], Len(windows))
    <2>1. Len(windows) \in 0 .. Len(windows)
      OBVIOUS
    <2> HIDE DEF Good
    <2> QED BY <1>2, <2>1
  <1>4. Upto(Len(windows)) = ToSet(windows) \cap S
    BY DEF ToSet
  <1> QED BY <1>1, <1>3, <1>4

LEMMA EnumerateIs ==
    ASSUME NEW windows \in Seq(Window)
    PROVE  /\ Enumerate(windows) \in Seq(Window)
           /\ ToSet(Enumerate(windows)) \subseteq Window
  <1> DEFINE S == {w \in Window : /\ window[w].sort = "window"
                                  /\ ~IsIgnored(appOf[w]) /\ about[appOf[w]].kind # "unknown"}
  <1>1. Enumerate(windows) = Among(windows, S)
    BY DEF Enumerate
  <1>2. S \subseteq Window
    OBVIOUS
  <1> HIDE DEF S
  <1> QED BY <1>1, <1>2, AmongIs

-----------------------------------------------------------------------------
(* Rows are rows.                                                          *)

LEMMA AppOfIsApp == ASSUME DesktopAssumption, NEW w \in Window PROVE appOf[w] \in App /\ processOf[w] \in
    [app : App, token : {"plain", "elevated", "unknown"}, readable : BOOLEAN, arguments : SUBSET Argument]
  <1>1. ResolveFrameHost(w) \in Process
    BY DEF DesktopAssumption, ResolveFrameHost
  <1> QED BY <1>1 DEF DesktopAssumption, processOf, appOf

\* The arguments of a window's process, and those that name documents.
LEMMA ExtractedAreDocuments ==
    ASSUME DesktopAssumption, NEW w \in Window
    PROVE  ExtractDocuments(w) \subseteq Doc
  <1>1. ResolveFrameHost(w) \in Process /\ processOf[w] = process[ResolveFrameHost(w)]
    BY DEF DesktopAssumption, ResolveFrameHost, processOf
  <1>2. ASSUME NEW a \in UNION ReadCommandLine(w), a.sort = "path"
        PROVE  a.doc \in Doc
    <2>1. a \in process[ResolveFrameHost(w)].arguments
      BY <1>1, <1>2 DEF ReadCommandLine
    <2>2. a \in Argument
      BY <1>1, <2>1 DEF DesktopAssumption
    <2> QED BY <1>1, <1>2, <2>1, <2>2 DEF DesktopAssumption, Argument
  <1> QED BY <1>2 DEF ExtractDocuments

LEMMA TitleIsName ==
    ASSUME DesktopAssumption, NEW w \in Window, NEW doc \in Doc \cup {NONE}
    PROVE  StorableTitle(w, doc) \in Name \cup {NONE}
  BY DEF DesktopAssumption, StorableTitle, CandidatesFromTitle

LEMMA DocumentsAreDocuments ==
    ASSUME DesktopAssumption, NEW found, ToSet(found) \subseteq Window,
           NEW title \in [Window -> Doc \cup {NONE}], NEW index \in Index, NEW a
    PROVE  DocumentsOf(found, title, index, a) \subseteq Doc
  <1> DEFINE own == {w \in ToSet(found) : appOf[w] = a /\ ~IsBrowser(a)}
  <1>1. own \subseteq Window
    OBVIOUS
  <1>2. DocumentsOf(found, title, index, a) = (UNION {ExtractDocuments(w) : w \in own}) \cup FromTitles(own, title, index)
    BY DEF DocumentsOf
  <1> HIDE DEF own
  <1>3. \A w \in own : ExtractDocuments(w) \subseteq Doc
    BY <1>1, ExtractedAreDocuments
  <1>4. \A w \in own : ResolveFromTitle(StorableTitle(w, title[w]), index) \in Doc \cup {NONE}
    <2> SUFFICES ASSUME NEW w \in own
                 PROVE  ResolveFromTitle(StorableTitle(w, title[w]), index) \in Doc \cup {NONE}
      OBVIOUS
    <2>1. StorableTitle(w, title[w]) \in Name \cup {NONE}
      BY <1>1, TitleIsName
    <2> QED BY <2>1 DEF ResolveFromTitle, Index
  <1>5. FromTitles(own, title, index) \subseteq Doc
    BY <1>4 DEF FromTitles
  <1> QED BY <1>2, <1>3, <1>5

LEMMA AppRowIsRow ==
    ASSUME DesktopAssumption, NEW w \in Window, NEW docs \in SUBSET Doc
    PROVE  AppRow(w, docs) \in AppRows /\ AppRow(w, docs) # NONE /\ RowOK(AppRow(w, docs))
  <1>1. CommandLine(w) \in {"absent", "redacted", "plain"}
    BY DEF CommandLine
  <1>2. AssignTier(w, docs) \in Tier
    BY DEF AssignTier, Tier
  <1>3. AppRow(w, docs) \in AppRows
    BY <1>1, <1>2, ExtractedAreDocuments DEF AppRow, AppRows
  <1>4. RowOK(AppRow(w, docs))
    BY DEF RowOK, AppRow, AssignTier
  <1> QED BY <1>3, <1>4 DEF DesktopAssumption

LEMMA DisplayIsDisplay ==
    ASSUME NEW current \in SUBSET Display, NEW r
    PROVE  DisplayForRect(current, r) \subseteq Display
  BY DEF DisplayForRect

LEMMA WindowRowIsRow ==
    ASSUME DesktopAssumption, monitors \subseteq Display,
           NEW w \in Window, NEW doc \in Doc \cup {NONE}, NEW r \in Rectangle
    PROVE  LET row == WindowRow(w, doc, r)
           IN  /\ row \in WindowRows /\ row # NONE
               /\ row.app = appOf[w] /\ row.title = StorableTitle(w, doc) /\ row.rect = r
  <1>1. WindowRow(w, doc, r) \in WindowRows
    BY AppOfIsApp, TitleIsName, DisplayIsDisplay DEF WindowRow, WindowRows, EnumerateDisplays
  <1> QED BY <1>1 DEF WindowRow, DesktopAssumption

\* The rows of a session are those of its windows, and no others.
LEMMA SessionHasRows ==
    ASSUME DesktopAssumption, SessionAssumption, monitors \subseteq Display, NEW s \in Session
    PROVE  LET found == Enumerate(s.open)
               rows == RowsOf(s)
           IN  /\ rows.apps \in [App -> AppRows \cup {NONE}]
               /\ \A a \in App : rows.apps[a] # NONE => RowOK(rows.apps[a])
               /\ \A w \in ToSet(found) : rows.apps[appOf[w]] # NONE
               /\ rows.windows \in [Window -> WindowRows \cup {NONE}]
               /\ \A w \in Window : /\ rows.windows[w] # NONE <=> w \in ToSet(found)
                                    /\ rows.windows[w] # NONE => rows.windows[w].app = appOf[w]
  <1> DEFINE found == Enumerate(s.open)
             front(a) == Among(found, WindowsOf(a))
             docs(a) == DocumentsOf(found, s.doc, s.recent, a)
             row(w) == WindowRow(w, s.doc[w], s.rect[w])
  <1>1. found \in Seq(Window) /\ ToSet(found) \subseteq Window
    BY EnumerateIs DEF SessionAssumption
  <1>2. /\ RowsOf(s).apps = [a \in App |-> IF front(a) = <<>> THEN NONE ELSE AppRow(front(a)[1], docs(a))]
        /\ RowsOf(s).windows = [w \in Window |-> IF w \in ToSet(found) THEN row(w) ELSE NONE]
    BY DEF RowsOf
  <1> HIDE DEF found
  <1>3. \A a : docs(a) \subseteq Doc
    BY <1>1, DocumentsAreDocuments DEF SessionAssumption
  <1>4. \A a : /\ front(a) \in Seq(Window)
               /\ ToSet(front(a)) = ToSet(found) \cap WindowsOf(a)
    BY <1>1, AmongIs
  <1>5. ASSUME NEW a, front(a) # <<>>
        PROVE  /\ AppRow(front(a)[1], docs(a)) \in AppRows /\ AppRow(front(a)[1], docs(a)) # NONE
               /\ RowOK(AppRow(front(a)[1], docs(a)))
    <2>1. front(a)[1] \in Window
      BY <1>4, <1>5
    <2> HIDE DEF front, docs
    <2> QED BY <1>3, <2>1, AppRowIsRow
  <1>6. ASSUME NEW w \in ToSet(found)
        PROVE  front(appOf[w]) # <<>> /\ appOf[w] \in App
    <2>1. w \in Window
      BY <1>1, <1>6
    <2>2. w \in ToSet(front(appOf[w]))
      <3> HIDE DEF front
      <3>1. w \in WindowsOf(appOf[w])
        BY <2>1 DEF WindowsOf
      <3> QED BY <1>4, <1>6, <3>1
    <2>3. ToSet(<<>>) = {}
      BY DEF ToSet
    <2> QED BY <2>1, <2>2, <2>3, AppOfIsApp
  <1>7. \A w \in Window : /\ row(w) \in WindowRows /\ row(w) # NONE /\ row(w).app = appOf[w]
    <2> SUFFICES ASSUME NEW w \in Window
                 PROVE  /\ row(w) \in WindowRows /\ row(w) # NONE /\ row(w).app = appOf[w]
      OBVIOUS
    <2>1. s.doc[w] \in Doc \cup {NONE} /\ s.rect[w] \in Rectangle
      BY DEF SessionAssumption
    <2> QED BY <2>1, WindowRowIsRow
  <1> HIDE DEF front, docs, row
  <1>8. /\ RowsOf(s).apps \in [App -> AppRows \cup {NONE}]
        /\ \A a \in App : RowsOf(s).apps[a] # NONE => RowOK(RowsOf(s).apps[a])
    BY <1>2, <1>5
  <1>9. \A w \in ToSet(found) : RowsOf(s).apps[appOf[w]] # NONE
    BY <1>2, <1>5, <1>6
  <1>10. /\ RowsOf(s).windows \in [Window -> WindowRows \cup {NONE}]
         /\ \A w \in Window : /\ RowsOf(s).windows[w] # NONE <=> w \in ToSet(found)
                              /\ RowsOf(s).windows[w] # NONE => RowsOf(s).windows[w].app = appOf[w]
    BY <1>2, <1>7
  <1> QED BY <1>8, <1>9, <1>10 DEF found

-----------------------------------------------------------------------------
(* The user.                                                               *)

DesktopOK ==
    /\ z \in Seq(Window) /\ IsInjective(z)
    /\ shown \in [Window -> Doc \cup {NONE}] /\ pos \in [Window -> Rectangle]
    /\ monitors \subseteq Display /\ recent \in Index

LEMMA FreshIsTyped ==
    ASSUME DesktopAssumption
    PROVE  Fresh.shown \in [Window -> Doc \cup {NONE}] /\ Fresh.pos \in [Window -> Rectangle]
  BY DEF DesktopAssumption, Fresh

LEMMA RecentIsIndex ==
    ASSUME DesktopAssumption, recent \in Index, NEW doc \in Doc
    PROVE  [recent EXCEPT ![nameOf[doc]] = doc] \in Index
  BY DEF DesktopAssumption, Index

\* A window put in front of others.
LEMMA InFront ==
    ASSUME NEW rest \in Seq(Window), IsInjective(rest), NEW w \in Window, w \notin ToSet(rest)
    PROVE  <<w>> \o rest \in Seq(Window) /\ IsInjective(<<w>> \o rest)
  <1> DEFINE all == <<w>> \o rest
  <1>1. all \in Seq(Window) /\ Len(all) = Len(rest) + 1 /\ Len(rest) \in Nat /\ DOMAIN all = 1 .. Len(rest) + 1
    OBVIOUS
  <1>2. all[1] = w /\ \A i \in 2 .. Len(rest) + 1 : all[i] = rest[i - 1]
    OBVIOUS
  <1>3. \A i \in 1 .. Len(rest) : rest[i] # w
    BY DEF ToSet
  <1>4. \A i, j \in 1 .. Len(rest) : rest[i] = rest[j] => i = j
    BY DEF IsInjective
  <1> HIDE DEF all
  <1>5. ASSUME NEW i \in 1 .. Len(rest) + 1, NEW j \in 1 .. Len(rest) + 1, all[i] = all[j], i # j
        PROVE  FALSE
    <2>1. CASE i = 1
      <3>1. j - 1 \in 1 .. Len(rest) /\ all[j] = rest[j - 1]
        BY <1>1, <1>2, <1>5, <2>1
      <3> QED BY <1>2, <1>3, <1>5, <2>1, <3>1
    <2>2. CASE j = 1
      <3>1. i - 1 \in 1 .. Len(rest) /\ all[i] = rest[i - 1]
        BY <1>1, <1>2, <1>5, <2>2
      <3> QED BY <1>2, <1>3, <1>5, <2>2, <3>1
    <2>3. CASE i # 1 /\ j # 1
      <3>1. i - 1 \in 1 .. Len(rest) /\ j - 1 \in 1 .. Len(rest) /\ i - 1 # j - 1
        BY <1>1, <1>5, <2>3
      <3>2. all[i] = rest[i - 1] /\ all[j] = rest[j - 1]
        BY <1>1, <1>2, <2>3
      <3> QED BY <1>4, <1>5, <3>1, <3>2
    <2> QED BY <2>1, <2>2, <2>3
  <1> QED BY <1>1, <1>5 DEF all, IsInjective

LEMMA DesktopStep ==
    ASSUME DesktopAssumption, DesktopOK, WindowAct \/ UserDocks
    PROVE  DesktopOK'
  <1> USE DEF DesktopOK
  <1>0. \A w : /\ Among(z, Window \ {w}) \in Seq(Window) /\ IsInjective(Among(z, Window \ {w}))
               /\ w \notin ToSet(Among(z, Window \ {w}))
    BY AmongIs
  <1>1. CASE UserOpens /\ UNCHANGED monitors
    <2>1. PICK w \in Window, doc \in Doc \cup {NONE} : Opens(w, doc) /\ UNCHANGED pos
      BY <1>1 DEF UserOpens
    <2>2. z' \in Seq(Window) /\ IsInjective(z')
      BY <2>1, InFront DEF Opens, Open
    <2>3. recent' \in Index
      BY <2>1, RecentIsIndex DEF Opens
    <2> QED BY <1>1, <2>1, <2>2, <2>3 DEF Opens
  <1>2. CASE UserCloses /\ UNCHANGED monitors
    <2>1. PICK w \in Open : /\ z' = Among(z, Window \ {w})
                            /\ shown' = [shown EXCEPT ![w] = Fresh.shown[w]]
                            /\ pos' = [pos EXCEPT ![w] = Fresh.pos[w]]
      BY <1>2 DEF UserCloses
    <2>2. w \in Window
      BY DEF Open, ToSet
    <2>3. shown' \in [Window -> Doc \cup {NONE}] /\ pos' \in [Window -> Rectangle]
      BY <2>1, <2>2, FreshIsTyped
    <2> QED BY <1>0, <1>2, <2>1, <2>3 DEF UserCloses
  <1>3. CASE UserRaises /\ UNCHANGED monitors
    <2>1. PICK w \in Open : z' = <<w>> \o Among(z, Window \ {w})
      BY <1>3 DEF UserRaises
    <2>2. w \in Window
      BY DEF Open, ToSet
    <2>3. z' \in Seq(Window) /\ IsInjective(z')
      BY <1>0, <2>1, <2>2, InFront
    <2> QED BY <1>3, <2>3 DEF UserRaises
  <1>4. CASE UserTurnsTo /\ UNCHANGED monitors
    <2>1. Open \subseteq Window
      BY DEF Open, ToSet
    <2>2. PICK w \in Open, doc \in Doc : /\ shown' = [shown EXCEPT ![w] = doc]
                                        /\ recent' = [recent EXCEPT ![nameOf[doc]] = doc]
                                        /\ UNCHANGED <<z, pos>>
      BY <1>4 DEF UserTurnsTo
    <2> QED BY <1>4, <2>1, <2>2, RecentIsIndex
  <1>5. CASE UserMoves /\ UNCHANGED monitors
    <2>1. Open \subseteq Window /\ Rect \subseteq Rectangle
      BY DEF Open, ToSet, DesktopAssumption
    <2> QED BY <1>5, <2>1 DEF UserMoves
  <1>6. CASE UserDocks
    BY <1>6 DEF UserDocks
  <1> QED BY <1>1, <1>2, <1>3, <1>4, <1>5, <1>6 DEF WindowAct

-----------------------------------------------------------------------------
(* The invariant, in layers: types; what a pass still has to do and in     *)
(* which order; what the rows will be when it has done it.                 *)

RowsOK ==
    /\ liveDisplays \subseteq Display
    /\ liveApps \in [App -> AppRows \cup {NONE}]
    /\ \A a \in App : liveApps[a] # NONE => RowOK(liveApps[a])
    /\ liveWindows \in [Window -> WindowRows \cup {NONE}]
    /\ \A w \in Window : liveWindows[w] # NONE => liveWindows[w].app = appOf[w]

\* What each kind of statement carries.
StatementOK(s) ==
    /\ s.place \in Nat
    /\ \/ s.op = "no displays"
       \/ s.op = "display" /\ s.key \in Display
       \/ s.op = "app" /\ s.key \in App /\ s.row \in AppRows /\ s.row # NONE /\ RowOK(s.row)
       \/ s.op = "window" /\ s.key \in Window /\ s.row \in WindowRows /\ s.row # NONE /\ s.row.app = appOf[s.key]
       \/ s.op = "drop app" /\ s.key \in App /\ s.row = NONE
       \/ s.op = "drop window" /\ s.key \in Window /\ s.row = NONE

PassOK == \A s \in pass : StatementOK(s)

\* Events, a signal and a worker that is not idle come from hooks.
AgentOK ==
    /\ agent \in BOOLEAN /\ enabled \in BOOLEAN /\ cache \in Index \cup {NONE}
    /\ hooks \in BOOLEAN /\ (hooks => agent) /\ (pass # {} => agent)
    /\ worker \in {"idle", "settle", "ready", "captures"} /\ (worker = "captures" => pass # {})
    /\ raw \in BOOLEAN /\ signal \in BOOLEAN /\ behind \in BOOLEAN
    /\ raw \/ signal \/ worker # "idle" => hooks
    /\ lastSeen \subseteq Window

Typed == DesktopOK /\ RowsOK /\ PassOK /\ AgentOK

\* An application is written before its windows, and dropped after them; no window
\* that was seen twice is dropped.
Ordered ==
    /\ \A s \in pass : s.op = "window" =>
           \/ liveApps[appOf[s.key]] # NONE
           \/ \E t \in pass : t.op = "app" /\ t.key = appOf[s.key] /\ t.place < s.place
    /\ \A s \in pass : s.op = "drop app" =>
           /\ \A w \in Window : appOf[w] = s.key /\ liveWindows[w] # NONE =>
                  \E t \in pass : t.op = "drop window" /\ t.key = w /\ t.place < s.place
           /\ \A t \in pass : t.op = "window" => appOf[t.key] # s.key
    /\ \A s \in pass : s.op = "drop window" => s.key \notin lastSeen

Seen == ToSet(Enumerate(z))
SeenApps == {appOf[w] : w \in Seen}

Shows(row, w) == row # NONE /\ row.title = StorableTitle(w, shown[w]) /\ row.rect = pos[w]

\* A statement is about a key.
OfWindow(s, w) == s.op \in {"window", "drop window"} /\ s.key = w
OfApp(s, a) == s.op \in {"app", "drop app"} /\ s.key = a

\* Every statement still to run writes what is there, and what no statement is
\* about is right already.
OnCourse ==
    /\ \A s \in pass : /\ s.op = "window" => s.key \in Seen /\ Shows(s.row, s.key)
                       /\ s.op = "drop window" => s.key \notin Seen
                       /\ s.op = "app" => s.key \in SeenApps
                       /\ s.op = "drop app" => s.key \notin SeenApps
    /\ \A w \in Window : (\A s \in pass : ~OfWindow(s, w)) =>
           IF w \in Seen THEN Shows(liveWindows[w], w) ELSE liveWindows[w] = NONE
    /\ \A a \in App : (\A s \in pass : ~OfApp(s, a)) => (liveApps[a] # NONE <=> a \in SeenApps)

\* So it is while no event, signal or worker is on its way to another pass.
Settled == ~behind /\ ~raw /\ ~signal /\ worker \in {"idle", "captures"}

Inv == Typed /\ Ordered /\ CrashKeepsWhatIsOpen /\ (Settled => OnCourse)

-----------------------------------------------------------------------------
(* The statements of a new pass.                                           *)

NewPass(found, index) == Displays \cup Upserts(found, index) \cup Reap(found)

Kinds(found, s) ==
    \/ s.op = "no displays" /\ s.place = 0
    \/ s.op = "display" /\ s.place = 1 /\ s.key \in Display
    \/ \E i \in 1 .. Len(found) : /\ s.op = "app" /\ s.place = 2 * i /\ s.key = appOf[found[i]]
                                 /\ s.row \in AppRows /\ s.row # NONE /\ RowOK(s.row)
    \/ \E i \in 1 .. Len(found) : /\ s.op = "window" /\ s.place = 2 * i + 1 /\ s.key = found[i]
                                 /\ s.row \in WindowRows /\ s.row.app = appOf[s.key] /\ Shows(s.row, s.key)
    \/ s.op = "drop window" /\ s.place = 2 * Len(found) + 2 /\ s.key \in Gone(found) /\ s.row = NONE
    \/ s.op = "drop app" /\ s.place = 2 * Len(found) + 3 /\ s.key \in GoneApps(found) /\ s.row = NONE

LEMMA PassHasKinds ==
    ASSUME DesktopAssumption, DesktopOK, NEW found \in Seq(Window), NEW index \in Index,
           NEW s \in NewPass(found, index)
    PROVE  Kinds(found, s)
  <1>0. ToSet(found) \subseteq Window /\ \A i \in 1 .. Len(found) : found[i] \in Window /\ found[i] \in ToSet(found)
    BY DEF ToSet
  <1>1. CASE s \in Displays
    <2>1. \/ s = Statement(0, "no displays", NONE, NONE)
          \/ \E d \in Display : s = Statement(1, "display", d, NONE)
      BY <1>1 DEF Displays, EnumerateDisplays, DesktopOK
    <2>2. CASE s = Statement(0, "no displays", NONE, NONE)
      <3>1. s.op = "no displays" /\ s.place = 0
        BY <2>2 DEF Statement
      <3> QED BY <3>1 DEF Kinds
    <2>3. CASE \E d \in Display : s = Statement(1, "display", d, NONE)
      <3>1. s.op = "display" /\ s.place = 1 /\ s.key \in Display
        BY <2>3 DEF Statement
      <3> QED BY <3>1 DEF Kinds
    <2> QED BY <2>1, <2>2, <2>3
  <1>2. CASE s \in Upserts(found, index)
    <2> DEFINE app(w) == AppRow(w, DocumentsOf(found, shown, index, appOf[w]))
               row(w) == WindowRow(w, shown[w], pos[w])
    <2>1. \E i \in 1 .. Len(found) : \/ s = Statement(2 * i, "app", appOf[found[i]], app(found[i]))
                                    \/ s = Statement(2 * i + 1, "window", found[i], row(found[i]))
      <3>1. DOMAIN found = 1 .. Len(found)
        OBVIOUS
      <3>2. \/ \E i \in DOMAIN found : s = Statement(2 * i, "app", appOf[found[i]], app(found[i]))
            \/ \E i \in DOMAIN found : s = Statement(2 * i + 1, "window", found[i], row(found[i]))
        BY <1>2, Zenon DEF Upserts
      <3> HIDE DEF app, row
      <3> QED BY <3>1, <3>2
    <2>2. PICK i \in 1 .. Len(found) : \/ s = Statement(2 * i, "app", appOf[found[i]], app(found[i]))
                                     \/ s = Statement(2 * i + 1, "window", found[i], row(found[i]))
      BY <2>1
    <2> DEFINE w == found[i]
    <2>3. w \in Window
      BY <1>0
    <2>4. app(w) \in AppRows /\ app(w) # NONE /\ RowOK(app(w))
      <3>1. DocumentsOf(found, shown, index, appOf[w]) \subseteq Doc
        BY <1>0, DocumentsAreDocuments DEF DesktopOK
      <3> QED BY <2>3, <3>1, AppRowIsRow
    <2>5. row(w) \in WindowRows /\ row(w).app = appOf[w] /\ Shows(row(w), w)
      <3>1. shown[w] \in Doc \cup {NONE} /\ pos[w] \in Rectangle
        BY <2>3 DEF DesktopOK
      <3> QED BY <2>3, <3>1, WindowRowIsRow DEF DesktopOK, Shows
    <2> HIDE DEF app, row
    <2>6. CASE s = Statement(2 * i, "app", appOf[w], app(w))
      BY <2>4, <2>6 DEF Statement, Kinds
    <2>7. CASE s = Statement(2 * i + 1, "window", w, row(w))
      BY <2>5, <2>7 DEF Statement, Kinds
    <2> QED BY <2>2, <2>6, <2>7
  <1>3. CASE s \in Reap(found)
    <2> DEFINE last == 2 * Len(found) + 2
    <2>1. \/ \E w \in Gone(found) : s = Statement(last, "drop window", w, NONE)
          \/ \E a \in GoneApps(found) : s = Statement(last + 1, "drop app", a, NONE)
      BY <1>3, Zenon DEF Reap
    <2>2. last + 1 = 2 * Len(found) + 3
      OBVIOUS
    <2>3. CASE \E w \in Gone(found) : s = Statement(last, "drop window", w, NONE)
      <3>0. PICK w \in Gone(found) : s = Statement(last, "drop window", w, NONE)
        BY <2>3
      <3>1. s.op = "drop window" /\ s.place = last /\ s.key \in Gone(found) /\ s.row = NONE
        <4> HIDE DEF last
        <4> QED BY <3>0 DEF Statement
      <3> QED BY <3>1 DEF Kinds
    <2>4. CASE \E a \in GoneApps(found) : s = Statement(last + 1, "drop app", a, NONE)
      <3>0. PICK a \in GoneApps(found) : s = Statement(last + 1, "drop app", a, NONE)
        BY <2>4
      <3>1. s.op = "drop app" /\ s.place = last + 1 /\ s.key \in GoneApps(found) /\ s.row = NONE
        <4> HIDE DEF last
        <4> QED BY <3>0 DEF Statement
      <3> QED BY <2>2, <3>1 DEF Kinds
    <2> QED BY <2>1, <2>3, <2>4
  <1> QED BY <1>1, <1>2, <1>3 DEF NewPass

\* Every window found is written after its application, and what is gone is dropped.
Complete(found, statements) ==
    /\ statements # {}
    /\ \A i \in 1 .. Len(found) :
          /\ \E s \in statements : s.op = "window" /\ s.key = found[i]
          /\ \E s \in statements : s.op = "app" /\ s.key = appOf[found[i]] /\ s.place <= 2 * i
    /\ \A w \in Gone(found) :
          \E s \in statements : s.op = "drop window" /\ s.key = w /\ s.place = 2 * Len(found) + 2
    /\ \A a \in GoneApps(found) : \E s \in statements : s.op = "drop app" /\ s.key = a

LEMMA PassIsComplete ==
    ASSUME NEW found \in Seq(Window), NEW index
    PROVE  Complete(found, NewPass(found, index))
  <1> DEFINE first == {i \in DOMAIN found : \A j \in 1 .. i - 1 : appOf[found[j]] # appOf[found[i]]}
             app(w) == AppRow(w, DocumentsOf(found, shown, index, appOf[w]))
             row(w) == WindowRow(w, shown[w], pos[w])
             up == {Statement(2 * i, "app", appOf[found[i]], app(found[i])) : i \in first} \cup
                   {Statement(2 * i + 1, "window", found[i], row(found[i])) : i \in DOMAIN found}
  <1>1. Upserts(found, index) = up
    BY DEF Upserts
  <1>2. up \subseteq NewPass(found, index)
    BY <1>1 DEF NewPass
  <1> HIDE DEF app, row
  <1>3. \A i \in 1 .. Len(found) : \E s \in NewPass(found, index) : s.op = "window" /\ s.key = found[i]
    <2> SUFFICES ASSUME NEW i \in 1 .. Len(found)
                 PROVE  \E s \in NewPass(found, index) : s.op = "window" /\ s.key = found[i]
      OBVIOUS
    <2> DEFINE s == Statement(2 * i + 1, "window", found[i], row(found[i]))
    <2>1. s \in NewPass(found, index)
      BY <1>2
    <2>2. s.op = "window" /\ s.key = found[i]
      BY DEF Statement
    <2> QED BY <2>1, <2>2
  <1>4. ASSUME NEW i \in 1 .. Len(found)
        PROVE  \E s \in NewPass(found, index) : s.op = "app" /\ s.key = appOf[found[i]] /\ s.place <= 2 * i
    <2> DEFINE T == {j \in 1 .. i : appOf[found[j]] = appOf[found[i]]}
    <2>1. i \in T /\ T \subseteq Nat
      OBVIOUS
    <2>2. PICK j \in T : \A k \in T : j <= k
      BY <2>1, Least
    <2>3. j \in first /\ appOf[found[j]] = appOf[found[i]] /\ j <= i /\ j \in Nat
      BY <2>2
    <2> DEFINE s == Statement(2 * j, "app", appOf[found[j]], app(found[j]))
    <2>4. s \in NewPass(found, index)
      BY <1>2, <2>3
    <2>5. s.op = "app" /\ s.key = appOf[found[i]] /\ s.place = 2 * j
      BY <2>3 DEF Statement
    <2>6. s.place <= 2 * i
      BY <2>3, <2>5
    <2> QED BY <2>4, <2>5, <2>6
  <1>5. \A w \in Gone(found) : \E s \in NewPass(found, index) :
            s.op = "drop window" /\ s.key = w /\ s.place = 2 * Len(found) + 2
    <2> SUFFICES ASSUME NEW w \in Gone(found)
                 PROVE  \E s \in NewPass(found, index) :
                            s.op = "drop window" /\ s.key = w /\ s.place = 2 * Len(found) + 2
      OBVIOUS
    <2> DEFINE s == Statement(2 * Len(found) + 2, "drop window", w, NONE)
    <2>1. s \in NewPass(found, index)
      BY DEF NewPass, Reap
    <2>2. s.op = "drop window" /\ s.key = w /\ s.place = 2 * Len(found) + 2
      BY DEF Statement
    <2> HIDE DEF s
    <2> QED BY <2>1, <2>2
  <1>6. \A a \in GoneApps(found) : \E s \in NewPass(found, index) : s.op = "drop app" /\ s.key = a
    <2> SUFFICES ASSUME NEW a \in GoneApps(found)
                 PROVE  \E s \in NewPass(found, index) : s.op = "drop app" /\ s.key = a
      OBVIOUS
    <2> DEFINE s == Statement(2 * Len(found) + 2 + 1, "drop app", a, NONE)
    <2>1. s \in NewPass(found, index)
      BY DEF NewPass, Reap
    <2>2. s.op = "drop app" /\ s.key = a
      BY DEF Statement
    <2> HIDE DEF s
    <2> QED BY <2>1, <2>2
  <1>7. NewPass(found, index) # {}
    BY DEF NewPass, Displays
  <1> QED BY <1>3, <1>4, <1>5, <1>6, <1>7 DEF Complete

-----------------------------------------------------------------------------
(* A pass begins.                                                          *)

\* What a kind of statement tells of its place and key.
LEMMA KindTells ==
    ASSUME NEW found, NEW s, Kinds(found, s)
    PROVE  /\ s.op = "window" => \E i \in 1 .. Len(found) : s.place = 2 * i + 1 /\ s.key = found[i]
                                                            /\ Shows(s.row, s.key)
           /\ s.op = "app" => \E i \in 1 .. Len(found) : s.key = appOf[found[i]]
           /\ s.op = "drop window" => s.key \in Gone(found)
           /\ s.op = "drop app" => s.key \in GoneApps(found) /\ s.place = 2 * Len(found) + 3
  BY Zenon DEF Kinds

LEMMA KindIsOK ==
    ASSUME DesktopAssumption, NEW found \in Seq(Window), NEW s, Kinds(found, s)
    PROVE  StatementOK(s)
  <1>1. Len(found) \in Nat /\ \A i \in 1 .. Len(found) : found[i] \in Window /\ appOf[found[i]] \in App
    BY AppOfIsApp
  <1>2. CASE s.op = "no displays" /\ s.place = 0
    <2>1. s.place \in Nat
      <3>1. 0 \in Nat
        OBVIOUS
      <3> QED BY <1>2, <3>1, Zenon
    <2> QED BY <1>2, <2>1 DEF StatementOK
  <1>3. CASE s.op = "display" /\ s.place = 1 /\ s.key \in Display
    BY <1>3 DEF StatementOK
  <1>4. CASE \E i \in 1 .. Len(found) : /\ s.op = "app" /\ s.place = 2 * i /\ s.key = appOf[found[i]]
                                        /\ s.row \in AppRows /\ s.row # NONE /\ RowOK(s.row)
    BY <1>1, <1>4 DEF StatementOK
  <1>5. CASE \E i \in 1 .. Len(found) : /\ s.op = "window" /\ s.place = 2 * i + 1 /\ s.key = found[i]
                                        /\ s.row \in WindowRows /\ s.row.app = appOf[s.key] /\ Shows(s.row, s.key)
    <2>1. PICK i \in 1 .. Len(found) : /\ s.op = "window" /\ s.place = 2 * i + 1 /\ s.key = found[i]
                                       /\ s.row \in WindowRows /\ s.row.app = appOf[s.key] /\ Shows(s.row, s.key)
      BY <1>5
    <2>2. s.place \in Nat /\ s.key \in Window
      BY <1>1, <2>1
    <2>3. s.row # NONE
      BY <2>1 DEF Shows
    <2> QED BY <2>1, <2>2, <2>3 DEF StatementOK
  <1>6. CASE s.op = "drop window" /\ s.place = 2 * Len(found) + 2 /\ s.key \in Gone(found) /\ s.row = NONE
    <2>1. s.place \in Nat /\ s.key \in Window
      <3>1. 2 * Len(found) + 2 \in Nat
        BY <1>1
      <3>2. s.key \in Window
        BY <1>6 DEF Gone
      <3> QED BY <1>6, <3>1, <3>2, Zenon
    <2> QED BY <1>6, <2>1 DEF StatementOK
  <1>7. CASE s.op = "drop app" /\ s.place = 2 * Len(found) + 3 /\ s.key \in GoneApps(found) /\ s.row = NONE
    <2>1. s.place \in Nat /\ s.key \in App
      <3>1. 2 * Len(found) + 3 \in Nat
        BY <1>1
      <3>2. s.key \in App
        BY <1>7 DEF GoneApps
      <3> QED BY <1>7, <3>1, <3>2, Zenon
    <2> QED BY <1>7, <2>1 DEF StatementOK
  <1> QED BY <1>2, <1>3, <1>4, <1>5, <1>6, <1>7, Zenon DEF Kinds

LEMMA PassBegins ==
    ASSUME DesktopAssumption, Typed, Ordered, CrashKeepsWhatIsOpen,
           UNCHANGED <<desktopVars, liveVars>>,
           pass' = NewPass(Enumerate(z), RecentIndex(cache)),
           lastSeen' = lastSeen \cap ToSet(Enumerate(z))
    PROVE  pass' # {} /\ PassOK' /\ Ordered' /\ CrashKeepsWhatIsOpen' /\ OnCourse'
  <1> DEFINE found == Enumerate(z)
             index == RecentIndex(cache)
             n == Len(found)
  <1>1. /\ found \in Seq(Window) /\ n \in Nat /\ Seen = ToSet(found) /\ index \in Index
        /\ \A i \in 1 .. n : found[i] \in Window /\ found[i] \in Seen
        /\ \A w \in Seen : \E i \in 1 .. n : w = found[i]
    <2>1. found \in Seq(Window)
      BY EnumerateIs DEF Typed, DesktopOK
    <2>2. Seen = ToSet(found)
      BY DEF Seen
    <2>3. index \in Index
      BY DEF RecentIndex, Typed, AgentOK, DesktopOK
    <2> HIDE DEF found, index
    <2> QED BY <2>1, <2>2, <2>3 DEF ToSet
  <1>2. /\ UNCHANGED <<z, shown, pos, monitors, recent, liveApps, liveWindows, liveDisplays>>
        /\ pass' = NewPass(found, index) /\ lastSeen' = lastSeen \cap Seen
    BY DEF desktopVars, liveVars, Seen
  <1>0. n = Len(found) /\ n \in Nat
    BY <1>1
  <1> DEFINE P == pass'
  <1> HIDE DEF found, index, n
  <1>3. Seen' = Seen /\ SeenApps' = SeenApps
    BY <1>2 DEF Seen, SeenApps
  <1>4. \A w, row : Shows(row, w)' <=> Shows(row, w)
    BY <1>2 DEF Shows
  <1>5. \A s \in P : Kinds(found, s)
    BY <1>1, <1>2, PassHasKinds DEF Typed
  <1>6. Complete(found, P)
    BY <1>1, <1>2, PassIsComplete
  <1>7. /\ Gone(found) = {w \in Window : liveWindows[w] # NONE} \ Seen
        /\ GoneApps(found) = {a \in App : liveApps[a] # NONE} \ SeenApps
    BY <1>1 DEF Gone, GoneApps, SeenApps
  <1>8. \A i \in 1 .. n : appOf[found[i]] \in App /\ appOf[found[i]] \in SeenApps
    BY <1>1, AppOfIsApp DEF SeenApps
  <1>9. \A s \in P : StatementOK(s)
    BY <1>1, <1>5, KindIsOK
  \* What each statement tells, and which there are.
  <1>20. \A s \in P : s.op = "window" => \E i \in 1 .. n : s.place = 2 * i + 1 /\ s.key = found[i] /\ Shows(s.row, s.key)
    BY <1>0, <1>5, KindTells
  <1>21. ASSUME NEW s \in P, s.op = "app" PROVE s.key \in SeenApps
    <2>0. Kinds(found, s)
      BY <1>5
    <2>1. \E i \in 1 .. Len(found) : s.key = appOf[found[i]]
      BY <1>21, <2>0 DEF Kinds
    <2> QED BY <1>0, <1>8, <2>1
  <1>22. \A s \in P : s.op = "drop window" => s.key \in Gone(found)
    BY <1>5, KindTells
  <1>23. \A s \in P : s.op = "drop app" => s.key \in GoneApps(found) /\ s.place = 2 * n + 3
    BY <1>0, <1>5, KindTells
  <1>24. \A i \in 1 .. n : \E s \in P : s.op = "window" /\ s.key = found[i]
    BY <1>0, <1>6 DEF Complete
  <1>25. \A i \in 1 .. n : \E s \in P : s.op = "app" /\ s.key = appOf[found[i]] /\ s.place <= 2 * i
    BY <1>0, <1>6 DEF Complete
  <1>26. \A w \in Gone(found) : \E s \in P : s.op = "drop window" /\ s.key = w /\ s.place = 2 * n + 2
    <2>1. \A w \in Gone(found) : \E s \in P : s.op = "drop window" /\ s.key = w /\ s.place = 2 * Len(found) + 2
      BY <1>6, Zenon DEF Complete
    <2> QED BY <1>0, <2>1, Zenon
  <1>27. \A a \in GoneApps(found) : \E s \in P : s.op = "drop app" /\ s.key = a
    BY <1>6 DEF Complete
  <1>28. P # {}
    BY <1>6 DEF Complete
  <1>29. \A s \in P : s.place \in Nat
    BY <1>9 DEF StatementOK
  <1>10. PassOK'
    BY <1>9 DEF PassOK, StatementOK, RowOK
  <1> HIDE DEF P
  <1>11. Ordered'
    <2>1. ASSUME NEW s \in P, s.op = "window"
          PROVE  \E t \in P : t.op = "app" /\ t.key = appOf[s.key] /\ t.place < s.place
      <3>1. PICK i \in 1 .. n : s.place = 2 * i + 1 /\ s.key = found[i]
        BY <1>20, <2>1
      <3>2. PICK t \in P : t.op = "app" /\ t.key = appOf[found[i]] /\ t.place <= 2 * i
        BY <1>25
      <3>3. t.place < s.place
        <4>1. t.place \in Nat /\ i \in Nat
          BY <1>29
        <4>2. 2 * i < 2 * i + 1
          BY <4>1
        <4> QED BY <3>1, <3>2, <4>1, <4>2
      <3> QED BY <3>1, <3>2, <3>3
    <2>2. ASSUME NEW s \in P, s.op = "drop app"
          PROVE  /\ \A w \in Window : appOf[w] = s.key /\ liveWindows[w] # NONE =>
                        \E t \in P : t.op = "drop window" /\ t.key = w /\ t.place < s.place
                 /\ \A t \in P : t.op = "window" => appOf[t.key] # s.key
      <3>1. s.place = 2 * n + 3 /\ s.key \notin SeenApps
        BY <1>7, <1>23, <2>2
      <3>2. ASSUME NEW w \in Window, appOf[w] = s.key, liveWindows[w] # NONE
            PROVE  \E t \in P : t.op = "drop window" /\ t.key = w /\ t.place < s.place
        <4>1. w \in Gone(found)
          BY <1>7, <3>1, <3>2 DEF SeenApps
        <4>2. PICK t \in P : t.op = "drop window" /\ t.key = w /\ t.place = 2 * n + 2
          BY <1>26, <4>1
        <4>3. t.place < s.place
          <5>1. 2 * n + 2 < 2 * n + 3
            BY <1>0
          <5> QED BY <3>1, <4>2, <5>1, Zenon
        <4> QED BY <4>2, <4>3
      <3>3. ASSUME NEW t \in P, t.op = "window" PROVE appOf[t.key] \in SeenApps
        BY <1>8, <1>20, <3>3
      <3> QED BY <3>1, <3>2, <3>3
    <2>3. ASSUME NEW s \in P, s.op = "drop window" PROVE s.key \notin lastSeen'
      BY <1>2, <1>7, <1>22, <2>3
    <2>4. \A s \in P : s.op = "window" =>
              \/ liveApps'[appOf[s.key]] # NONE
              \/ \E t \in P : t.op = "app" /\ t.key = appOf[s.key] /\ t.place < s.place
      BY <2>1
    <2>5. \A s \in P : s.op = "drop app" =>
              /\ \A w \in Window : appOf[w] = s.key /\ liveWindows'[w] # NONE =>
                     \E t \in P : t.op = "drop window" /\ t.key = w /\ t.place < s.place
              /\ \A t \in P : t.op = "window" => appOf[t.key] # s.key
      BY <1>2, <2>2
    <2> QED BY <2>3, <2>4, <2>5 DEF Ordered, P
  <1>12. CrashKeepsWhatIsOpen'
    BY <1>2 DEF CrashKeepsWhatIsOpen
  <1>13. OnCourse'
    <2>1. \A s \in P : /\ s.op = "window" => s.key \in Seen /\ Shows(s.row, s.key)
                       /\ s.op = "drop window" => s.key \notin Seen
                       /\ s.op = "app" => s.key \in SeenApps
                       /\ s.op = "drop app" => s.key \notin SeenApps
      <3>1. \A s \in P : s.op = "window" => s.key \in Seen /\ Shows(s.row, s.key)
        BY <1>1, <1>20
      <3> QED BY <1>7, <1>21, <1>22, <1>23, <3>1
    <2>2. ASSUME NEW w \in Window, \A s \in P : ~OfWindow(s, w)
          PROVE  w \notin Seen /\ liveWindows[w] = NONE
      <3>1. \A s \in P : ~((s.op = "window" \/ s.op = "drop window") /\ s.key = w)
        BY <2>2 DEF OfWindow
      <3>2. ASSUME w \in Seen PROVE FALSE
        <4>1. PICK i \in 1 .. n : w = found[i]
          BY <1>1, <3>2
        <4>2. PICK s \in P : s.op = "window" /\ s.key = found[i]
          BY <1>24
        <4> QED BY <3>1, <4>1, <4>2
      <3>3. w \notin Gone(found)
        BY <1>26, <3>1
      <3> QED BY <1>7, <3>2, <3>3
    <2>3. ASSUME NEW a \in App, \A s \in P : ~OfApp(s, a)
          PROVE  a \notin SeenApps /\ liveApps[a] = NONE
      <3>1. \A s \in P : ~((s.op = "app" \/ s.op = "drop app") /\ s.key = a)
        BY <2>3 DEF OfApp
      <3>2. \A i \in 1 .. n : appOf[found[i]] # a
        BY <1>25, <3>1
      <3>3. a \notin SeenApps
        BY <1>1, <3>2 DEF SeenApps
      <3>4. a \notin GoneApps(found)
        BY <1>27, <3>1
      <3> QED BY <1>7, <3>3, <3>4
    <2>4. \A s \in P : /\ s.op = "window" => s.key \in Seen' /\ Shows(s.row, s.key)'
                       /\ s.op = "drop window" => s.key \notin Seen'
                       /\ s.op = "app" => s.key \in SeenApps'
                       /\ s.op = "drop app" => s.key \notin SeenApps'
      BY <1>3, <1>4, <2>1
    <2>5. \A w \in Window : (\A s \in P : ~OfWindow(s, w)) => w \notin Seen' /\ liveWindows'[w] = NONE
      BY <1>2, <1>3, <2>2
    <2>6. \A a \in App : (\A s \in P : ~OfApp(s, a)) => (liveApps'[a] # NONE <=> a \in SeenApps')
      BY <1>2, <1>3, <2>3
    <2> QED BY <2>4, <2>5, <2>6, Zenon DEF OnCourse, OfWindow, OfApp, Shows, P
  <1> QED BY <1>28, <1>10, <1>11, <1>12, <1>13 DEF P

-----------------------------------------------------------------------------
(* A statement runs.                                                       *)

\* It writes the row of its key and no other.
LEMMA ExecWrites ==
    ASSUME DesktopAssumption, RowsOK, NEW t, StatementOK(t), Exec(t)
    PROVE  /\ liveDisplays' \subseteq Display
           /\ liveWindows' \in [Window -> WindowRows \cup {NONE}]
           /\ \A w \in Window : /\ OfWindow(t, w) => liveWindows'[w] = t.row
                                /\ ~OfWindow(t, w) => liveWindows'[w] = liveWindows[w]
           /\ liveApps' \in [App -> AppRows \cup {NONE}]
           /\ \A a \in App : /\ OfApp(t, a) => liveApps'[a] = t.row
                             /\ ~OfApp(t, a) => liveApps'[a] = liveApps[a]
  <1> USE DEF RowsOK, Exec, OfWindow, OfApp
  <1>1. CASE t.op = "no displays"
    BY <1>1
  <1>2. CASE t.op = "display" /\ t.key \in Display
    BY <1>2
  <1>3. CASE t.op \in {"app", "drop app"} /\ t.key \in App /\ t.row \in AppRows \cup {NONE}
    <2>1. liveDisplays' = liveDisplays /\ liveWindows' = liveWindows /\ liveApps' = [liveApps EXCEPT ![t.key] = t.row]
      BY <1>3
    <2> QED BY <1>3, <2>1
  <1>4. CASE t.op \in {"window", "drop window"} /\ t.key \in Window /\ t.row \in WindowRows \cup {NONE}
    <2>1. liveDisplays' = liveDisplays /\ liveApps' = liveApps /\ liveWindows' = [liveWindows EXCEPT ![t.key] = t.row]
      BY <1>4
    <2> QED BY <1>4, <2>1
  <1> QED BY <1>1, <1>2, <1>3, <1>4 DEF StatementOK

\* What is before and after a statement that is first.
LEMMA ExecuteSafe ==
    ASSUME DesktopAssumption, Typed, Ordered, CrashKeepsWhatIsOpen,
           NEW t \in pass, First(t), Exec(t), pass' = pass \ {t},
           IF pass' = {} THEN lastSeen' = {w \in Window : liveWindows'[w] # NONE} ELSE lastSeen' = lastSeen
    PROVE  RowsOK' /\ PassOK' /\ lastSeen' \subseteq Window /\ Ordered' /\ CrashKeepsWhatIsOpen'
  <1> DEFINE P == pass'
  <1>1. StatementOK(t) /\ \A s \in P : StatementOK(s) /\ s \in pass
    BY DEF Typed, PassOK
  <1>2. /\ liveDisplays' \subseteq Display
        /\ liveWindows' \in [Window -> WindowRows \cup {NONE}]
        /\ \A w \in Window : /\ OfWindow(t, w) => liveWindows'[w] = t.row
                             /\ ~OfWindow(t, w) => liveWindows'[w] = liveWindows[w]
        /\ liveApps' \in [App -> AppRows \cup {NONE}]
        /\ \A a \in App : /\ OfApp(t, a) => liveApps'[a] = t.row
                          /\ ~OfApp(t, a) => liveApps'[a] = liveApps[a]
    BY <1>1, ExecWrites DEF Typed
  <1>3. /\ t.op = "window" => t.key \in Window /\ t.row # NONE /\ t.row.app = appOf[t.key]
        /\ t.op = "app" => t.key \in App /\ t.row # NONE /\ RowOK(t.row)
        /\ t.op \in {"drop window", "drop app"} => t.row = NONE
        /\ t.place \in Nat
    BY <1>1 DEF StatementOK
  <1>4. \A s \in pass : s.place \in Nat /\ ~(s.place < t.place)
    <2>1. ASSUME NEW s \in pass PROVE s.place \in Nat /\ t.place <= s.place
      BY DEF First, Typed, PassOK, StatementOK
    <2>2. \A x, y \in Nat : x <= y => ~(y < x)
      OBVIOUS
    <2> QED BY <1>3, <2>1, <2>2, Zenon
  <1>5. \A s \in pass : s.op = "window" => s.key \in Window /\ appOf[s.key] \in App
    BY AppOfIsApp DEF Typed, PassOK, StatementOK
  <1>6. \A w \in Window : appOf[w] \in App
    BY AppOfIsApp
  <1>7. /\ \A s \in pass : s.op = "window" =>
              \/ liveApps[appOf[s.key]] # NONE
              \/ \E u \in pass : u.op = "app" /\ u.key = appOf[s.key] /\ u.place < s.place
        /\ \A s \in pass : s.op = "drop app" =>
              /\ \A w \in Window : appOf[w] = s.key /\ liveWindows[w] # NONE =>
                     \E u \in pass : u.op = "drop window" /\ u.key = w /\ u.place < s.place
              /\ \A u \in pass : u.op = "window" => appOf[u.key] # s.key
        /\ \A s \in pass : s.op = "drop window" => s.key \notin lastSeen
    BY DEF Ordered
  \* Nothing contradicts it.
  <1>18. t.op = "drop app" => \A u \in pass : u.op = "window" => appOf[u.key] # t.key
    BY <1>7
  <1>19. t.op = "window" => \A u \in pass : u.op = "drop app" => appOf[t.key] # u.key
    BY <1>7
  <1>20. t.op = "drop window" => t.key \notin lastSeen
    BY <1>7
  <1>8. RowsOK'
    <2>1. \A a \in App : liveApps'[a] # NONE => RowOK(liveApps'[a])
      BY <1>2, <1>3 DEF OfApp, Typed, RowsOK
    <2>2. \A w \in Window : liveWindows'[w] # NONE => liveWindows'[w].app = appOf[w]
      BY <1>2, <1>3 DEF OfWindow, Typed, RowsOK
    <2> QED BY <1>2, <2>1, <2>2 DEF RowsOK, RowOK
  <1>9. PassOK'
    BY <1>1 DEF PassOK, StatementOK, RowOK
  <1> HIDE DEF P
  <1>0. P \subseteq pass /\ \A s \in pass : s # t => s \in P
    BY DEF P
  <1>10. \A s \in P : s.op = "window" =>
             \/ liveApps'[appOf[s.key]] # NONE
             \/ \E u \in P : u.op = "app" /\ u.key = appOf[s.key] /\ u.place < s.place
    <2> SUFFICES ASSUME NEW s \in P, s.op = "window", liveApps'[appOf[s.key]] = NONE
                 PROVE  \E u \in P : u.op = "app" /\ u.key = appOf[s.key] /\ u.place < s.place
      OBVIOUS
    <2> DEFINE a == appOf[s.key]
    <2>1. a \in App /\ s \in pass
      BY <1>0, <1>5
    <2> HIDE DEF a
    <2>2. ~(t.op = "app" /\ t.key = a)
      BY <1>2, <1>3, <2>1 DEF OfApp, a
    <2>3. ~(t.op = "drop app" /\ t.key = a)
      BY <1>18, <2>1 DEF a
    <2>4. liveApps[a] = NONE
      BY <1>2, <2>1, <2>2, <2>3 DEF OfApp, a
    <2>5. PICK u \in pass : u.op = "app" /\ u.key = a /\ u.place < s.place
      BY <1>7, <2>1, <2>4 DEF a
    <2>6. u \in P
      BY <1>0, <2>2, <2>5
    <2> QED BY <2>5, <2>6 DEF a
  <1>11. \A s \in P : s.op = "drop app" =>
             /\ \A w \in Window : appOf[w] = s.key /\ liveWindows'[w] # NONE =>
                    \E u \in P : u.op = "drop window" /\ u.key = w /\ u.place < s.place
             /\ \A u \in P : u.op = "window" => appOf[u.key] # s.key
    <2> SUFFICES ASSUME NEW s \in P, s.op = "drop app"
                 PROVE  /\ \A w \in Window : appOf[w] = s.key /\ liveWindows'[w] # NONE =>
                               \E u \in P : u.op = "drop window" /\ u.key = w /\ u.place < s.place
                        /\ \A u \in P : u.op = "window" => appOf[u.key] # s.key
      OBVIOUS
    <2>1. \A u \in P : u.op = "window" => appOf[u.key] # s.key
      BY <1>0, <1>7
    <2>2. ASSUME NEW w \in Window, appOf[w] = s.key, liveWindows'[w] # NONE
          PROVE  \E u \in P : u.op = "drop window" /\ u.key = w /\ u.place < s.place
      <3>1. ~(t.op = "window" /\ t.key = w)
        BY <1>0, <1>19, <2>2
      <3>2. ~(t.op = "drop window" /\ t.key = w)
        BY <1>2, <1>3, <2>2 DEF OfWindow
      <3>3. liveWindows[w] # NONE
        BY <1>2, <2>2, <3>1, <3>2 DEF OfWindow
      <3>4. PICK u \in pass : u.op = "drop window" /\ u.key = w /\ u.place < s.place
        BY <1>0, <1>7, <2>2, <3>3
      <3>5. u \in P
        BY <1>0, <3>2, <3>4
      <3> QED BY <3>4, <3>5
    <2> QED BY <2>1, <2>2
  <1>12. \A s \in P : s.op = "drop window" => s.key \notin lastSeen'
    BY <1>0, <1>7 DEF P
  <1>13. Ordered'
    BY <1>10, <1>11, <1>12 DEF Ordered, P
  <1>14. \A w \in lastSeen' : liveWindows'[w] # NONE
    <2>1. CASE pass' = {}
      BY <2>1
    <2>2. CASE pass' # {}
      <3> SUFFICES ASSUME NEW w \in lastSeen PROVE liveWindows'[w] # NONE
        BY <2>2
      <3>1. w \in Window /\ liveWindows[w] # NONE
        BY DEF Typed, AgentOK, CrashKeepsWhatIsOpen
      <3>2. ~(t.op = "drop window" /\ t.key = w)
        BY <1>20
      <3> QED BY <1>2, <1>3, <3>1, <3>2 DEF OfWindow
    <2> QED BY <2>1, <2>2
  <1>15. ASSUME NEW w \in Window, liveWindows'[w] # NONE
         PROVE  liveApps'[appOf[w]] # NONE
    <2> DEFINE a == appOf[w]
    <2>1. a \in App
      BY <1>6
    <2> HIDE DEF a
    <2>2. CASE OfWindow(t, w)
      <3>1. t.op = "window" /\ t.key = w
        BY <1>2, <1>3, <1>15, <2>2 DEF OfWindow
      <3>2. liveApps[a] # NONE
        BY <1>4, <1>7, <3>1 DEF a
      <3>3. ~OfApp(t, a)
        BY <3>1 DEF OfApp
      <3> QED BY <1>2, <2>1, <3>2, <3>3 DEF a
    <2>3. CASE ~OfWindow(t, w)
      <3>1. liveWindows[w] # NONE
        BY <1>2, <1>15, <2>3
      <3>2. liveApps[a] # NONE
        BY <3>1 DEF CrashKeepsWhatIsOpen, a
      <3>3. ~(t.op = "drop app" /\ t.key = a)
        BY <1>4, <1>7, <3>1 DEF a
      <3> QED BY <1>2, <1>3, <2>1, <3>2, <3>3 DEF OfApp, a
    <2> QED BY <2>2, <2>3
  <1>16. CrashKeepsWhatIsOpen'
    BY <1>14, <1>15 DEF CrashKeepsWhatIsOpen
  <1>17. lastSeen' \subseteq Window
    BY DEF Typed, AgentOK
  <1> QED BY <1>8, <1>9, <1>13, <1>16, <1>17

LEMMA ExecuteOnCourse ==
    ASSUME DesktopAssumption, Typed, OnCourse, UNCHANGED desktopVars,
           NEW t \in pass, Exec(t), pass' = pass \ {t}
    PROVE  OnCourse'
  <1> DEFINE P == pass'
  <1>1. StatementOK(t)
    BY DEF Typed, PassOK
  <1>2. /\ \A w \in Window : /\ OfWindow(t, w) => liveWindows'[w] = t.row
                             /\ ~OfWindow(t, w) => liveWindows'[w] = liveWindows[w]
        /\ \A a \in App : /\ OfApp(t, a) => liveApps'[a] = t.row
                          /\ ~OfApp(t, a) => liveApps'[a] = liveApps[a]
    BY <1>1, ExecWrites DEF Typed
  <1>3. /\ t.op = "app" => t.row # NONE
        /\ t.op \in {"drop window", "drop app"} => t.row = NONE
    BY <1>1 DEF StatementOK
  <1>4. Seen' = Seen /\ SeenApps' = SeenApps /\ \A w, row : Shows(row, w)' <=> Shows(row, w)
    BY DEF Seen, SeenApps, Shows, desktopVars
  <1>5. P \subseteq pass /\ \A s \in pass : s # t => s \in P
    OBVIOUS
  <1>6. \A s \in pass : /\ s.op = "window" => s.key \in Seen /\ Shows(s.row, s.key)
                        /\ s.op = "drop window" => s.key \notin Seen
                        /\ s.op = "app" => s.key \in SeenApps
                        /\ s.op = "drop app" => s.key \notin SeenApps
    BY DEF OnCourse
  <1> HIDE DEF P
  <1>7. ASSUME NEW w \in Window, \A s \in P : ~OfWindow(s, w)
        PROVE  IF w \in Seen THEN Shows(liveWindows'[w], w) ELSE liveWindows'[w] = NONE
    <2>1. CASE OfWindow(t, w)
      BY <1>2, <1>3, <1>6, <2>1 DEF OfWindow
    <2>2. CASE ~OfWindow(t, w)
      <3>1. \A s \in pass : ~OfWindow(s, w)
        BY <1>5, <1>7, <2>2
      <3>2. liveWindows'[w] = liveWindows[w]
        BY <1>2, <2>2
      <3>3. IF w \in Seen THEN Shows(liveWindows[w], w) ELSE liveWindows[w] = NONE
        BY <3>1 DEF OnCourse
      <3> QED BY <3>2, <3>3
    <2> QED BY <2>1, <2>2
  <1>8. ASSUME NEW a \in App, \A s \in P : ~OfApp(s, a)
        PROVE  liveApps'[a] # NONE <=> a \in SeenApps
    <2>1. CASE OfApp(t, a)
      BY <1>2, <1>3, <1>6, <2>1 DEF OfApp
    <2>2. CASE ~OfApp(t, a)
      <3>1. \A s \in pass : ~OfApp(s, a)
        BY <1>5, <1>8, <2>2
      <3>2. liveApps[a] # NONE <=> a \in SeenApps
        BY <3>1 DEF OnCourse
      <3> QED BY <1>2, <2>2, <3>2
    <2> QED BY <2>1, <2>2
  <1>9. \A s \in P : /\ s.op = "window" => s.key \in Seen' /\ Shows(s.row, s.key)'
                     /\ s.op = "drop window" => s.key \notin Seen'
                     /\ s.op = "app" => s.key \in SeenApps'
                     /\ s.op = "drop app" => s.key \notin SeenApps'
    BY <1>4, <1>5, <1>6
  <1>10. \A w \in Window : (\A s \in P : ~OfWindow(s, w)) =>
             IF w \in Seen' THEN Shows(liveWindows[w], w)' ELSE liveWindows'[w] = NONE
    BY <1>4, <1>7 DEF Shows
  <1>11. \A a \in App : (\A s \in P : ~OfApp(s, a)) => (liveApps'[a] # NONE <=> a \in SeenApps')
    BY <1>4, <1>8
  <1> QED BY <1>9, <1>10, <1>11, Zenon DEF OnCourse, OfWindow, OfApp, Shows, P

-----------------------------------------------------------------------------
(* The invariant, step by step.                                            *)

LEMMA InitOK == ASSUME DesktopAssumption, SessionAssumption, ScreenAssumption, Init PROVE Inv
  <1>1. PICK s \in Session :
            /\ recent = s.recent /\ liveApps = RowsOf(s).apps /\ liveWindows = RowsOf(s).windows
            /\ liveDisplays = s.displays /\ lastSeen = ToSet(Enumerate(s.open))
    BY DEF Init
  <1>2. /\ z = <<>> /\ shown = Fresh.shown /\ pos = Fresh.pos /\ monitors = Display
        /\ agent = FALSE /\ hooks = FALSE /\ enabled = TRUE /\ cache = NONE
        /\ raw = FALSE /\ signal = FALSE /\ worker = "idle" /\ pass = {} /\ behind = TRUE
    BY DEF Init, InitDesktop
  <1>3. DesktopOK
    <2>1. recent \in Index
      BY <1>1 DEF SessionAssumption
    <2> QED BY <1>2, <2>1, FreshIsTyped DEF DesktopOK, IsInjective
  <1>4. /\ liveApps \in [App -> AppRows \cup {NONE}]
        /\ \A a \in App : liveApps[a] # NONE => RowOK(liveApps[a])
        /\ \A w \in lastSeen : liveApps[appOf[w]] # NONE
        /\ liveWindows \in [Window -> WindowRows \cup {NONE}]
        /\ \A w \in Window : /\ liveWindows[w] # NONE <=> w \in lastSeen
                             /\ liveWindows[w] # NONE => liveWindows[w].app = appOf[w]
    BY <1>1, <1>3, SessionHasRows DEF DesktopOK
  <1>5. lastSeen \subseteq Window
    BY <1>1, EnumerateIs DEF SessionAssumption
  <1>6. liveDisplays \subseteq Display
    BY <1>1 DEF SessionAssumption
  <1>7. Typed
    BY <1>2, <1>3, <1>4, <1>5, <1>6 DEF Typed, RowsOK, PassOK, AgentOK
  <1>8. Ordered /\ CrashKeepsWhatIsOpen /\ ~Settled
    BY <1>2, <1>4, <1>5 DEF Ordered, CrashKeepsWhatIsOpen, Settled
  <1> QED BY <1>7, <1>8 DEF Inv

\* A step that writes no row and touches no pass.
LEMMA RowsStay ==
    ASSUME Inv, UNCHANGED <<liveVars, pass, lastSeen>>
    PROVE  RowsOK' /\ PassOK' /\ Ordered' /\ CrashKeepsWhatIsOpen' /\ lastSeen' \subseteq Window
  <1>1. UNCHANGED <<liveDisplays, liveApps, liveWindows, pass, lastSeen>>
    BY DEF liveVars
  <1>2. RowsOK' /\ lastSeen' \subseteq Window
    BY <1>1 DEF Inv, Typed, AgentOK, RowsOK, RowOK
  <1>3. PassOK'
    BY <1>1 DEF Inv, Typed, PassOK, StatementOK, RowOK
  <1>4. Ordered'
    <2>1. Ordered
      BY DEF Inv
    <2>2. ASSUME NEW s \in pass', s.op = "window"
          PROVE  \/ liveApps'[appOf[s.key]] # NONE
                 \/ \E t \in pass' : t.op = "app" /\ t.key = appOf[s.key] /\ t.place < s.place
      BY <1>1, <2>1, <2>2 DEF Ordered
    <2>3. ASSUME NEW s \in pass', s.op = "drop app"
          PROVE  /\ \A w \in Window : appOf[w] = s.key /\ liveWindows'[w] # NONE =>
                        \E t \in pass' : t.op = "drop window" /\ t.key = w /\ t.place < s.place
                 /\ \A t \in pass' : t.op = "window" => appOf[t.key] # s.key
      BY <1>1, <2>1, <2>3 DEF Ordered
    <2>4. ASSUME NEW s \in pass', s.op = "drop window" PROVE s.key \notin lastSeen'
      BY <1>1, <2>1, <2>4 DEF Ordered
    <2> QED BY <2>2, <2>3, <2>4 DEF Ordered
  <1>5. CrashKeepsWhatIsOpen'
    BY <1>1 DEF Inv, CrashKeepsWhatIsOpen
  <1> QED BY <1>2, <1>3, <1>4, <1>5

\* Nor to the windows.
LEMMA CourseStays ==
    ASSUME OnCourse, UNCHANGED <<z, shown, pos, liveVars, pass>>
    PROVE  OnCourse'
  BY DEF OnCourse, liveVars, Seen, SeenApps, Shows, OfWindow, OfApp

\* A pass that begins, or does not.
LEMMA BeginStep ==
    ASSUME DesktopAssumption, Inv, pass = {}, Begin, UNCHANGED <<desktopVars, liveVars>>
    PROVE  /\ DesktopOK' /\ RowsOK' /\ PassOK' /\ Ordered' /\ CrashKeepsWhatIsOpen'
           /\ cache' \in Index \cup {NONE} /\ behind' \in BOOLEAN /\ lastSeen' \subseteq Window
           /\ ~behind' => pass' # {} /\ OnCourse'
  <1>1. DesktopOK' /\ RowsOK'
    BY DEF Inv, Typed, DesktopOK, RowsOK, RowOK, desktopVars, liveVars
  <1>2. CASE /\ cache' = RecentIndex(cache)
             /\ pass' = NewPass(Enumerate(z), RecentIndex(cache))
             /\ lastSeen' = lastSeen \cap ToSet(Enumerate(z))
             /\ behind' = FALSE
    <2>1. pass' # {} /\ PassOK' /\ Ordered' /\ CrashKeepsWhatIsOpen' /\ OnCourse'
      BY <1>2, PassBegins DEF Inv
    <2>2. cache' \in Index \cup {NONE} /\ lastSeen' \subseteq Window
      BY <1>2 DEF Inv, Typed, DesktopOK, AgentOK, RecentIndex
    <2> QED BY <1>1, <1>2, <2>1, <2>2
  <1>3. CASE behind' = TRUE /\ UNCHANGED <<cache, pass, lastSeen>>
    <2>1. cache' \in Index \cup {NONE}
      BY <1>3 DEF Inv, Typed, AgentOK
    <2> QED BY <1>1, <1>3, <2>1, RowsStay
  <1> QED BY <1>2, <1>3, Zenon DEF Begin, NewPass

LEMMA UserStep ==
    ASSUME DesktopAssumption, Inv, UserActs
    PROVE  Inv'
  <1>1. /\ UNCHANGED <<agentVars, cache, signal, worker, pass, liveVars, lastSeen>>
        /\ \/ WindowAct /\ Raised
           \/ UserDocks /\ UNCHANGED <<raw, behind>>
    BY DEF UserActs
  <1>2. DesktopOK'
    BY <1>1, DesktopStep DEF Inv, Typed
  <1>3. RowsOK' /\ PassOK' /\ Ordered' /\ CrashKeepsWhatIsOpen' /\ lastSeen' \subseteq Window
    BY <1>1, RowsStay
  <1>4. AgentOK
    BY DEF Inv, Typed
  <1>5. CASE WindowAct /\ Raised
    <2>1. AgentOK' /\ (raw' \/ behind')
      BY <1>1, <1>4, <1>5 DEF AgentOK, Raised, agentVars
    <2>2. ~Settled'
      BY <2>1 DEF Settled
    <2> QED BY <1>2, <1>3, <2>1, <2>2 DEF Inv, Typed
  <1>6. CASE UserDocks /\ UNCHANGED <<raw, behind>>
    <2>1. AgentOK' /\ (Settled' => Settled)
      BY <1>1, <1>4, <1>6 DEF AgentOK, agentVars, Settled
    <2>2. UNCHANGED <<z, shown, pos>>
      BY <1>6 DEF UserDocks
    <2>3. OnCourse => OnCourse'
      BY <1>1, <2>2, CourseStays
    <2> QED BY <1>2, <1>3, <2>1, <2>3 DEF Inv, Typed
  <1> QED BY <1>1, <1>5, <1>6

LEMMA ExecuteStep ==
    ASSUME DesktopAssumption, Inv, Execute
    PROVE  Inv'
  <1>1. /\ UNCHANGED <<desktopVars, agentVars, cache, raw, behind, signal>>
        /\ IF pass' = {} THEN Over /\ lastSeen' = {w \in Window : liveWindows'[w] # NONE}
           ELSE UNCHANGED <<worker, lastSeen>>
    BY DEF Execute, ExecuteLeaving
  <1>2. PICK t \in pass : First(t) /\ Exec(t) /\ pass' = pass \ {t}
    BY DEF Execute, ExecuteLeaving
  <1>3. RowsOK' /\ PassOK' /\ lastSeen' \subseteq Window /\ Ordered' /\ CrashKeepsWhatIsOpen'
    BY <1>1, <1>2, ExecuteSafe DEF Inv
  <1>4. DesktopOK'
    BY <1>1 DEF Inv, Typed, DesktopOK, desktopVars
  <1>5. AgentOK' /\ (Settled' => Settled)
    BY <1>1, <1>2, <1>3 DEF Inv, Typed, AgentOK, Settled, agentVars, Over
  <1>6. OnCourse => OnCourse'
    BY <1>1, <1>2, ExecuteOnCourse DEF Inv
  <1> QED BY <1>3, <1>4, <1>5, <1>6 DEF Inv, Typed

LEMMA SweepStep ==
    ASSUME DesktopAssumption, Inv, Sweep
    PROVE  Inv'
  <1>1. agent /\ pass = {} /\ Begin /\ UNCHANGED <<desktopVars, agentVars, pipeVars, liveVars>>
    BY DEF Sweep
  <1>2. /\ DesktopOK' /\ RowsOK' /\ PassOK' /\ Ordered' /\ CrashKeepsWhatIsOpen'
        /\ cache' \in Index \cup {NONE} /\ behind' \in BOOLEAN /\ lastSeen' \subseteq Window
        /\ ~behind' => pass' # {} /\ OnCourse'
    BY <1>1, BeginStep
  <1>3. AgentOK'
    BY <1>1, <1>2 DEF Inv, Typed, AgentOK, agentVars, pipeVars
  <1> QED BY <1>2, <1>3 DEF Inv, Typed, Settled

LEMMA WorkerStep ==
    ASSUME DesktopAssumption, Inv, WorkerRuns
    PROVE  Inv'
  <1>1. /\ worker = "ready" /\ pass = {}
        /\ worker' = IF pass' = {} THEN "idle" ELSE "captures"
        /\ UNCHANGED <<desktopVars, agentVars, raw, signal, liveVars>>
    BY DEF WorkerRuns
  <1>2. /\ DesktopOK' /\ RowsOK' /\ PassOK' /\ Ordered' /\ CrashKeepsWhatIsOpen'
        /\ cache' \in Index \cup {NONE} /\ behind' \in BOOLEAN /\ lastSeen' \subseteq Window
        /\ ~behind' => OnCourse'
    <2>1. CASE Begin
      BY <1>1, <2>1, BeginStep
    <2>2. CASE behind' = TRUE /\ UNCHANGED <<cache, pass, lastSeen>>
      <3>1. DesktopOK' /\ cache' \in Index \cup {NONE}
        BY <1>1, <2>2 DEF Inv, Typed, DesktopOK, AgentOK, desktopVars
      <3> QED BY <1>1, <2>2, <3>1, RowsStay
    <2> QED BY <2>1, <2>2 DEF WorkerRuns
  <1>3. AgentOK'
    BY <1>1, <1>2 DEF Inv, Typed, AgentOK, agentVars
  <1> QED BY <1>2, <1>3 DEF Inv, Typed, Settled

\* A step that cuts a pass off.
LEMMA CutOff ==
    ASSUME Inv, UNCHANGED <<desktopVars, liveVars, lastSeen>>, pass' = {}
    PROVE  DesktopOK' /\ RowsOK' /\ PassOK' /\ Ordered' /\ CrashKeepsWhatIsOpen' /\ lastSeen' \subseteq Window
  BY DEF Inv, Typed, AgentOK, desktopVars, liveVars, DesktopOK, RowsOK, RowOK, PassOK, Ordered, CrashKeepsWhatIsOpen

LEMMA OtherStep ==
    ASSUME Inv,
           \/ StatementFails \/ DebounceEmits \/ WorkerWakes \/ WorkerSwallows \/ Pause
           \/ CacheExpires \/ Starts \/ InstallHooks \/ Ends \/ UNCHANGED vars
    PROVE  Inv'
  <1>0. AgentOK
    BY DEF Inv, Typed
  <1>1. CASE StatementFails
    <2>1. /\ UNCHANGED <<desktopVars, liveVars, lastSeen, agentVars, cache, raw, signal>>
          /\ pass' = {} /\ Over /\ behind' = TRUE
      BY <1>1 DEF StatementFails
    <2>2. AgentOK' /\ ~Settled'
      BY <1>0, <2>1 DEF AgentOK, Settled, agentVars, Over
    <2> QED BY <2>1, <2>2, CutOff DEF Inv, Typed
  <1>2. CASE Ends
    <2>1. /\ UNCHANGED <<desktopVars, liveVars, lastSeen, enabled>>
          /\ agent' = FALSE /\ hooks' = FALSE /\ cache' = NONE /\ raw' = FALSE /\ signal' = FALSE
          /\ worker' = "idle" /\ pass' = {} /\ behind' = TRUE
      BY <1>2 DEF Ends
    <2>2. AgentOK' /\ ~Settled'
      BY <1>0, <2>1 DEF AgentOK, Settled
    <2> QED BY <2>1, <2>2, CutOff DEF Inv, Typed
  <1>3. ASSUME UNCHANGED <<desktopVars, liveVars, pass, lastSeen>>, AgentOK', Settled' => Settled
        PROVE  Inv'
    <2>1. DesktopOK'
      BY <1>3 DEF Inv, Typed, DesktopOK, desktopVars
    <2>2. RowsOK' /\ PassOK' /\ Ordered' /\ CrashKeepsWhatIsOpen'
      BY <1>3, RowsStay
    <2>3. OnCourse => OnCourse'
      BY <1>3, CourseStays DEF desktopVars
    <2> QED BY <1>3, <2>1, <2>2, <2>3 DEF Inv, Typed
  <1>4. CASE DebounceEmits
    <2>1. AgentOK' /\ ~Settled'
      BY <1>0, <1>4 DEF DebounceEmits, AgentOK, Settled, agentVars
    <2> QED BY <1>3, <1>4, <2>1 DEF DebounceEmits
  <1>5. CASE WorkerWakes \/ WorkerSwallows
    <2>1. AgentOK' /\ ~Settled'
      BY <1>0, <1>5 DEF WorkerWakes, WorkerSwallows, AgentOK, Settled, agentVars
    <2> QED BY <1>3, <1>5, <2>1 DEF WorkerWakes, WorkerSwallows
  <1>6. CASE Pause
    <2>1. AgentOK' /\ (Settled' => Settled)
      BY <1>0, <1>6 DEF Pause, AgentOK, Settled, pipeVars
    <2> QED BY <1>3, <1>6, <2>1 DEF Pause
  <1>7. CASE CacheExpires
    <2>1. AgentOK' /\ (Settled' => Settled)
      BY <1>0, <1>7 DEF CacheExpires, AgentOK, Settled, pipeVars, agentVars
    <2> QED BY <1>3, <1>7, <2>1 DEF CacheExpires
  <1>8. CASE Starts
    <2>1. AgentOK' /\ ~Settled'
      BY <1>0, <1>8 DEF Starts, AgentOK, Settled, pipeVars
    <2> QED BY <1>3, <1>8, <2>1 DEF Starts
  <1>9. CASE InstallHooks
    <2>1. AgentOK' /\ (Settled' => Settled)
      BY <1>0, <1>9 DEF InstallHooks, AgentOK, Settled, pipeVars
    <2> QED BY <1>3, <1>9, <2>1 DEF InstallHooks
  <1>10. CASE UNCHANGED vars
    <2>1. AgentOK' /\ (Settled' => Settled)
      BY <1>0, <1>10 DEF vars, AgentOK, Settled, pipeVars, agentVars
    <2> QED BY <1>3, <1>10, <2>1 DEF vars
  <1> QED BY <1>1, <1>2, <1>4, <1>5, <1>6, <1>7, <1>8, <1>9, <1>10

LEMMA InvStep == ASSUME DesktopAssumption, Inv, [Next]_vars PROVE Inv'
  BY UserStep, ExecuteStep, SweepStep, WorkerStep, OtherStep DEF Next

LEMMA InvHolds == Spec => []Inv
  BY InitOK, InvStep, DesktopAssumption, SessionAssumption, ScreenAssumption, PTL DEF Spec

\* The types, and what a row that is to be started needs, for any desktop, session
\* and schedule.
THEOREM TypeCorrect == Spec => []TypeOK
  <1>1. Inv => TypeOK
    BY DEF Inv, Typed, DesktopOK, RowsOK, AgentOK, TypeOK
  <1> QED BY <1>1, InvHolds, PTL

\* Wherever the process ends in a pass: what the pass before it and it saw is
\* still stored, and every stored window has its application.
THEOREM NothingLostInAPass == Spec => []CrashKeepsWhatIsOpen
  <1>1. Inv => CrashKeepsWhatIsOpen
    BY DEF Inv
  <1> QED BY <1>1, InvHolds, PTL

\* No window event falls between the hooks, the debounce thread, the worker and
\* the pass: when nothing is on its way, the rows are the desktop.
THEOREM QuietRowsAreCurrent == Spec => []QuietIsCurrent
  <1>1. ASSUME DesktopAssumption, Inv, Quiet
        PROVE  LET found == Enumerate(z)
               IN  /\ \A w \in Window : liveWindows[w] # NONE <=> w \in ToSet(found)
                   /\ \A w \in ToSet(found) : liveWindows[w].title = StorableTitle(w, shown[w])
                                              /\ liveWindows[w].rect = pos[w]
                   /\ \A a \in App : liveApps[a] # NONE <=> \E w \in ToSet(found) : appOf[w] = a
    <2>1. OnCourse /\ pass = {}
      BY <1>1 DEF Inv, Settled, Quiet
    <2>2. \A w \in Window : IF w \in Seen THEN Shows(liveWindows[w], w) ELSE liveWindows[w] = NONE
      BY <2>1 DEF OnCourse
    <2>3. \A a \in App : liveApps[a] # NONE <=> a \in SeenApps
      BY <2>1 DEF OnCourse
    <2>4. Seen \subseteq Window
      BY <1>1, EnumerateIs DEF Inv, Typed, DesktopOK, Seen
    <2> QED BY <2>2, <2>3, <2>4 DEF Seen, SeenApps, Shows
  <1>2. Inv => QuietIsCurrent
    BY <1>1, DesktopAssumption DEF QuietIsCurrent
  <1> QED BY <1>2, InvHolds, PTL
=============================================================================
