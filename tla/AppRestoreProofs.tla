-------------------------- MODULE AppRestoreProofs --------------------------
(***************************************************************************)
(* Three promises of a restore of applications and browsers, for any       *)
(* desktop, session, selection, displays and profiles.                     *)
(***************************************************************************)
EXTENDS AppRestore, FiniteSetTheorems, TLAPS

-----------------------------------------------------------------------------
(* Profiles.  What a handshake was certain of is what is recorded, until a *)
(* restore has used it.                                                    *)

Sure ==
    /\ certain \subseteq Profile
    /\ profileDir \in [Profile -> Dir \cup {Nowhere}]
    /\ \A p \in certain : /\ profileDir[p] = homeOf[p]
                          /\ homeOf[p] \in SafeDir /\ browserOf[p] \in Chromium

\* What StartsInItsProfile says of one start.
InHome(s) ==
    LET b == s.launch.browser
        profiles == Selected(b, s.wanted)
    IN  profiles \subseteq certain =>
            s.launch.dir = IF Cardinality(profiles) = 1 THEN homeOf[CHOOSE p \in profiles : TRUE] ELSE Nowhere

Starts ==
    /\ \A s \in starting \cup started : InHome(s)
    /\ stage = "idle" => starting = {} /\ started = {}

ProfileInv == Sure /\ Starts

\* A directory that was found for an id is a safe one of a Chromium browser.
LEMMA FoundIsHome ==
    ASSUME ProfilesAssumption, NEW p \in Profile, DirectoryForProfileId(p) # Nowhere
    PROVE  /\ DirectoryForProfileId(p) = homeOf[p] /\ ResolvedDir(p) = homeOf[p]
           /\ homeOf[p] \in SafeDir /\ browserOf[p] \in Chromium
  BY DEF DirectoryForProfileId, KnownDirs, ResolvedDir

LEMMA ResolvedIsDir ==
    ASSUME ProfilesAssumption, NEW p \in Profile
    PROVE  ResolvedDir(p) \in Dir \cup {Nowhere}
  <1>1. \A d : Safe(d) \in Dir \cup {Nowhere}
    BY DEF Safe, ProfilesAssumption
  <1>2. FromCommandLine(browserOf[p]) \in Dir \cup {Nowhere} /\ LastUsed(browserOf[p]) \in Dir \cup {Nowhere}
    BY <1>1 DEF FromCommandLine, LastUsed
  <1>3. DirectoryForProfileId(p) \in Dir \cup {Nowhere}
    BY DEF DirectoryForProfileId, ProfilesAssumption
  <1> QED BY <1>2, <1>3 DEF ResolvedDir

LEMMA HelloKeepsSure ==
    ASSUME ProfilesAssumption, Sure, NEW p \in Profile, Hello(p)
    PROVE  Sure'
  <1>1. profileDir' \in [Profile -> Dir \cup {Nowhere}] /\ certain' \subseteq Profile
    BY ResolvedIsDir DEF Sure, Hello
  <1>2. ASSUME NEW q \in certain'
        PROVE  profileDir'[q] = homeOf[q] /\ homeOf[q] \in SafeDir /\ browserOf[q] \in Chromium
    <2>1. CASE q # p
      BY <1>2, <2>1 DEF Sure, Hello
    <2>2. CASE q = p
      <3>1. DirectoryForProfileId(p) # Nowhere
        BY <1>2, <2>2 DEF Hello
      <3>2. ResolvedDir(p) = homeOf[p] /\ homeOf[p] \in SafeDir /\ browserOf[p] \in Chromium
        BY <3>1, FoundIsHome
      <3>3. homeOf[p] # Nowhere
        BY DEF ProfilesAssumption
      <3>4. profileDir'[p] = ResolvedDir(p)
        BY <3>2, <3>3 DEF Hello, Sure
      <3> QED BY <2>2, <3>2, <3>4
    <2> QED BY <2>1, <2>2
  <1> QED BY <1>1, <1>2 DEF Sure

\* What a restore plans for a browser, from records that are certain: one
\* profile gives its directory, several give none.
LEMMA LaunchInHome ==
    ASSUME ProfilesAssumption, Sure, NEW wanted \in SUBSET BrowserWindow, NEW captured, NEW running,
           NEW l \in BrowsersToLaunch(wanted, captured, running)
    PROVE  InHome([launch |-> l, wanted |-> wanted])
  <1> DEFINE b == l.browser
             profiles == Selected(b, wanted)
  <1>1. PICK w \in wanted : b = browserOf[profileOf[w]] /\ l.dir = LaunchArgsFor(b, ProfileDirFor(b, wanted))
    BY DEF BrowsersToLaunch
  <1>2. profileOf[w] \in profiles
    BY <1>1 DEF Selected, Stored, ProfilesAssumption
  <1>3. SUFFICES ASSUME profiles \subseteq certain
                 PROVE  l.dir = IF Cardinality(profiles) = 1
                                THEN homeOf[CHOOSE p \in profiles : TRUE] ELSE Nowhere
    BY DEF InHome
  <1>4. \A p \in profiles : /\ profileDir[p] = homeOf[p] /\ homeOf[p] # Nowhere
                            /\ homeOf[p] \in SafeDir /\ b \in Chromium
    BY <1>3 DEF Sure, Selected, Stored, ProfilesAssumption
  <1>5. Recorded(b, wanted) = profiles
    BY <1>2, <1>4 DEF Recorded, Candidates
  <1>6. ProfileDirFor(b, wanted) =
            IF Cardinality(profiles) = 1 THEN profileDir[CHOOSE p \in profiles : TRUE] ELSE Nowhere
    <2>1. ProfileDirFor(b, wanted) =
              IF Cardinality(Recorded(b, wanted)) = 1
              THEN profileDir[CHOOSE p \in Recorded(b, wanted) : TRUE] ELSE Nowhere
      BY DEF ProfileDirFor
    <2> QED BY <1>5, <2>1, Zenon
  <1>7. CASE Cardinality(profiles) = 1
    <2> DEFINE p == CHOOSE q \in profiles : TRUE
    <2>1. p \in profiles
      BY <1>2
    <2>2. ProfileDirFor(b, wanted) = profileDir[p]
      BY <1>5, <1>7, <1>6
    <2>3. LaunchArgsFor(b, profileDir[p]) = homeOf[p]
      BY <1>4, <2>1 DEF LaunchArgsFor, Safe
    <2> QED BY <1>1, <1>7, <2>2, <2>3
  <1>8. CASE Cardinality(profiles) # 1
    <2>1. ProfileDirFor(b, wanted) = Nowhere
      BY <1>5, <1>8, <1>6
    <2>2. LaunchArgsFor(b, Nowhere) = Nowhere
      BY DEF LaunchArgsFor, Safe
    <2> QED BY <1>1, <1>8, <2>1, <2>2
  <1> QED BY <1>7, <1>8

LEMMA ProfileInit == ASSUME ProfilesAssumption, Init PROVE ProfileInv
  BY DEF Init, InitProfiles, ProfileInv, Sure, Starts

LEMMA ProfileStep ==
    ASSUME ProfilesAssumption, ProfileInv, [Next]_vars
    PROVE  ProfileInv'
  <1> USE DEF ProfileInv
  <1>1. CASE UNCHANGED profileVars /\ UNCHANGED <<starting, started>> /\ (stage' = "idle" => stage = "idle")
    BY <1>1 DEF Sure, Starts, InHome, profileVars
  <1>2. CASE Before
    <2>1. stage = "idle" /\ UNCHANGED <<stage, starting, started>>
      BY <1>2 DEF Before, planVars, historyVars
    <2>2. Starts'
      BY <2>1 DEF Starts
    <2>3. CASE UNCHANGED profileVars
      BY <2>2, <2>3 DEF Sure, profileVars
    <2>4. CASE \E p \in Profile : Hello(p) \/ Persists(p)
      BY <2>2, <2>4, HelloKeepsSure DEF Sure, Persists
    <2>5. CASE \E c \in Browser, d \in Dir : UserTurnsToProfile(c, d)
      BY <2>2, <2>5 DEF Sure, UserTurnsToProfile
    <2> QED BY <1>2, <2>3, <2>4, <2>5 DEF Before
  <1>3. CASE Confirm
    <2>1. stage = "idle" /\ stage' = "browsers" /\ UNCHANGED <<profileVars, started>>
      BY <1>3 DEF Confirm, historyVars
    <2>2. PICK tabs \in SUBSET BrowserWindow, r \in RunningBrowsers :
              starting' = {[launch |-> l, wanted |-> tabs] : l \in BrowsersToLaunch(tabs, Captured, r.ids)}
      BY <1>3 DEF Confirm
    <2>3. \A s \in starting' : InHome(s)
      BY <2>2, LaunchInHome
    <2>4. \A s \in starting' \cup started' : InHome(s)
      BY <2>1, <2>3 DEF Starts
    <2>5. \A s : InHome(s)' <=> InHome(s)
      BY <2>1 DEF InHome, profileVars
    <2> QED BY <2>1, <2>4, <2>5 DEF Sure, Starts, profileVars
  <1>4. CASE StartBrowser
    <2>1. stage = "browsers" /\ UNCHANGED <<profileVars, stage>>
      BY <1>4 DEF StartBrowser
    <2>2. starting' \cup started' \subseteq starting \cup started
      BY <1>4 DEF StartBrowser, LaunchWithArgs
    <2>3. \A s : InHome(s)' <=> InHome(s)
      BY <2>1 DEF InHome, profileVars
    <2> QED BY <2>1, <2>2, <2>3 DEF Sure, Starts, profileVars
  <1>5. CASE During
    BY <1>1, <1>5 DEF During, planVars, historyVars
  <1>6. CASE CacheBuilt \/ CacheExpires
    BY <1>1, <1>6 DEF CacheBuilt, CacheExpires, planVars, historyVars
  <1>7. CASE RestoreAtStartup
    BY <1>1, <1>7 DEF RestoreAtStartup, historyVars
  <1>8. CASE Look
    BY <1>1, <1>8 DEF Look, historyVars
  <1>9. CASE NoApps
    BY <1>1, <1>9 DEF NoApps, planVars, historyVars
  <1>10. CASE Handle
    <2>1. UNCHANGED profileVars /\ UNCHANGED <<starting, started>> /\ stage' # "idle"
      BY <1>10 DEF Handle
    <2> QED BY <1>1, <2>1 
  <1>11. CASE Appears
    BY <1>1, <1>11 DEF Appears, planVars, historyVars
  <1>12. CASE Poll
    <2>1. UNCHANGED profileVars /\ UNCHANGED <<starting, started>> /\ stage' # "idle"
      BY <1>12 DEF Poll, planVars
    <2> QED BY <1>1, <2>1 
  <1>13. CASE GiveUp
    BY <1>1, <1>13 DEF GiveUp, planVars, historyVars
  <1>14. CASE UNCHANGED vars
    BY <1>1, <1>14 DEF vars, planVars, historyVars
  <1> QED BY <1>2, <1>3, <1>4, <1>5, <1>6, <1>7, <1>8, <1>9, <1>10, <1>11, <1>12, <1>13, <1>14 DEF Next

\* A browser starts in the profile its windows are of, for any browsers,
\* profiles, directories and selections, when the profiles were certain.
THEOREM ProfilesKeepTheirTabs == Spec => []StartsInItsProfile
  <1>1. ProfileInv => StartsInItsProfile
    BY DEF ProfileInv, Starts, InHome, StartsInItsProfile
  <1> QED BY <1>1, ProfileInit, ProfileStep, ProfilesAssumption, PTL DEF Spec

-----------------------------------------------------------------------------
(* What passes the filter of an enumeration is a window.                   *)

LEMMA Least ==
    ASSUME NEW T, T \subseteq Nat, T # {}
    PROVE  \E x \in T : \A y \in T : x <= y
  <1>1. PICK x \in T : \A y \in T : ~(<<y, x>> \in OpToRel(<, Nat))
    BY NatLessThanWellFounded, WFMin
  <1>2. ASSUME NEW y \in T, y < x PROVE FALSE
    <2>1. <<y, x>> \in OpToRel(<, Nat)
      BY <1>2 DEF OpToRel
    <2> QED BY <2>1, <1>1
  <1>3. \A y \in T : ~(y < x)
    BY <1>2
  <1> QED BY <1>3

\* The n-th value of the recursive function in Among.
Filtered(f, windows, S, n) ==
    IF n = 0 THEN <<>>
    ELSE IF windows[n] \in S THEN Append(f[n - 1], windows[n]) ELSE f[n - 1]

\* There is such a function for the first N windows.
HasValues(windows, S, N) == \E f : f = [n \in 0 .. N |-> Filtered(f, windows, S, n)]

LEMMA FilterDefined ==
    ASSUME NEW windows, NEW S, NEW N \in Nat
    PROVE  HasValues(windows, S, N)
  <1> DEFINE T == {k \in 0 .. N : ~ \E f : f = [n \in 0 .. k |-> Filtered(f, windows, S, n)]}
  <1>1. SUFFICES ASSUME T # {} PROVE FALSE
    BY DEF HasValues
  <1>2. T \subseteq Nat
    OBVIOUS
  <1>3. PICK k \in T : \A j \in T : k <= j
    BY <1>1, <1>2, Least
  <1>4. CASE k = 0
    <2> DEFINE f == [n \in 0 .. k |-> <<>>]
    <2>1. f = [n \in 0 .. k |-> Filtered(f, windows, S, n)]
      BY <1>4 DEF Filtered
    <2> QED BY <2>1
  <1>5. CASE k # 0
    <2>1. k - 1 \in 0 .. N /\ k \in Nat /\ k - 1 \in Nat
      BY <1>5
    <2>2. PICK g : g = [n \in 0 .. k - 1 |-> Filtered(g, windows, S, n)]
      BY <1>3, <2>1
    <2> DEFINE f == [n \in 0 .. k |-> Filtered(g, windows, S, n)]
    <2>3. \A n \in 0 .. k - 1 : f[n] = g[n]
      BY <2>1, <2>2
    <2>4. \A n \in 0 .. k : Filtered(f, windows, S, n) = Filtered(g, windows, S, n)
      <3> HIDE DEF f
      <3>1. ASSUME NEW n \in 0 .. k, n # 0 PROVE f[n - 1] = g[n - 1]
        BY <2>1, <2>3, <3>1
      <3> QED BY <3>1 DEF Filtered
    <2>5. f = [n \in 0 .. k |-> Filtered(f, windows, S, n)]
      BY <2>4
    <2> QED BY <2>5
  <1> QED BY <1>4, <1>5

LEMMA AmongAreIn ==
    ASSUME NEW windows \in Seq(Window), NEW S
    PROVE  ToSet(Among(windows, S)) \subseteq S
  <1> DEFINE f == CHOOSE f : f = [n \in 0 .. Len(windows) |-> Filtered(f, windows, S, n)]
             Good(g) == g \in Seq(Window) /\ \A i \in 1 .. Len(g) : g[i] \in S
             T == {n \in 0 .. Len(windows) : ~ Good(f[n])}
  <1>1. f = [n \in 0 .. Len(windows) |-> Filtered(f, windows, S, n)]
    <2>1. Len(windows) \in Nat
      OBVIOUS
    <2>2. HasValues(windows, S, Len(windows))
      BY <2>1, FilterDefined
    <2>3. \E g : g = [n \in 0 .. Len(windows) |-> Filtered(g, windows, S, n)]
      BY <2>2 DEF HasValues
    <2> QED BY <2>3, Zenon
  <1>2. Among(windows, S) = f[Len(windows)]
    BY DEF Among, Filtered
  <1> HIDE DEF f
  <1>3. \A n \in 0 .. Len(windows) : f[n] = Filtered(f, windows, S, n)
    BY <1>1
  <1>4. ASSUME T # {} PROVE FALSE
    <2>1. T \subseteq Nat
      OBVIOUS
    <2>2. PICK n \in T : \A j \in T : n <= j
      BY <1>4, <2>1, Least
    <2>3. n \in 0 .. Len(windows) /\ f[n] = Filtered(f, windows, S, n) /\ ~Good(f[n])
      BY <1>3, <2>2
    <2>4. n # 0
      <3>1. ASSUME n = 0 PROVE FALSE
        <4>1. f[n] = <<>>
          BY <2>3, <3>1 DEF Filtered
        <4> QED BY <2>3, <4>1
      <3> QED BY <3>1
    <2>5. n - 1 \in 0 .. Len(windows) /\ n - 1 \notin T
      <3> HIDE DEF T
      <3> QED BY <2>2, <2>3, <2>4
    <2> DEFINE g == f[n - 1]
    <2>6. Good(g)
      BY <2>5
    <2>7. CASE windows[n] \notin S
      <3>1. f[n] = g
        BY <2>3, <2>4, <2>7 DEF Filtered
      <3> QED BY <2>3, <2>6, <3>1
    <2>8. CASE windows[n] \in S
      <3>1. f[n] = Append(g, windows[n]) /\ windows[n] \in Window
        BY <2>3, <2>4, <2>8 DEF Filtered
      <3> HIDE DEF g, T
      <3>2. Good(Append(g, windows[n]))
        BY <2>6, <2>8, <3>1
      <3> QED BY <2>3, <3>1, <3>2
    <2> QED BY <2>7, <2>8
  <1>5. Good(f[Len(windows)])
    <2>1. Len(windows) \in 0 .. Len(windows)
      OBVIOUS
    <2> HIDE DEF Good
    <2> QED BY <1>4, <2>1
  <1> QED BY <1>2, <1>5 DEF ToSet

-----------------------------------------------------------------------------
(* The documents of a row are documents.                                   *)

LEMMA ExtractedAreDocuments ==
    ASSUME DesktopAssumption, NEW w \in Window
    PROVE  ExtractDocuments(w) \subseteq Doc
  <1>1. ResolveFrameHost(w) \in Process /\ processOf[w] = process[ResolveFrameHost(w)]
    BY DEF DesktopAssumption, ResolveFrameHost, processOf
  <1>2. ASSUME NEW a \in UNION ReadCommandLine(w), a.sort = "path"
        PROVE  a.doc \in Doc
    <2>1. a \in process[ResolveFrameHost(w)].arguments
      BY <1>1, <1>2 DEF ReadCommandLine
    <2>2. a \in Argument
      BY <1>1, <2>1 DEF DesktopAssumption
    <2> QED BY <1>1, <1>2, <2>1, <2>2 DEF DesktopAssumption, Argument
  <1> QED BY <1>2 DEF ExtractDocuments

LEMMA SessionDocuments ==
    ASSUME DesktopAssumption, SessionAssumption, NEW s \in Session, NEW a
    PROVE  DocumentsOf(Enumerate(s.open), s.doc, s.recent, a) \subseteq Doc
  <1> DEFINE found == Enumerate(s.open)
             own == {w \in ToSet(found) : appOf[w] = a /\ ~IsBrowser(a)}
             listed == {w \in Window : /\ window[w].sort = "window"
                                       /\ ~IsIgnored(appOf[w]) /\ about[appOf[w]].kind # "unknown"}
             known(w) == ResolveFromTitle(StorableTitle(w, s.doc[w]), s.recent)
  <1>1. own \subseteq Window
    <2>1. s.open \in Seq(Window) /\ Enumerate(s.open) = Among(s.open, listed) /\ listed \subseteq Window
      BY DEF SessionAssumption, Enumerate
    <2> HIDE DEF listed
    <2>2. ToSet(Enumerate(s.open)) \subseteq Window
      BY <2>1, AmongAreIn
    <2> QED BY <2>2
  <1>2. DocumentsOf(found, s.doc, s.recent, a) =
            (UNION {ExtractDocuments(w) : w \in own}) \cup ({known(w) : w \in own} \ {NONE})
    BY DEF DocumentsOf, FromTitles
  <1> HIDE DEF own
  <1>3. ASSUME NEW w \in own PROVE known(w) \in Doc \cup {NONE}
    <2>1. s.doc[w] \in Doc \cup {NONE} /\ s.recent \in [Name -> Doc \cup {NONE}]
      BY <1>1 DEF SessionAssumption, Index
    <2>2. StorableTitle(w, s.doc[w]) \in Name \cup {NONE}
      BY <2>1 DEF DesktopAssumption, StorableTitle, CandidatesFromTitle
    <2> QED BY <2>1, <2>2 DEF ResolveFromTitle
  <1>4. \A w \in own : ExtractDocuments(w) \subseteq Doc
    BY <1>1, ExtractedAreDocuments
  <1> HIDE DEF known
  <1> QED BY <1>2, <1>3, <1>4

-----------------------------------------------------------------------------
(* Applications.  What was launched for an application that had a window   *)
(* is a document that none of its windows was known to have.               *)

StoredDocuments ==
    \A a \in App : Row(a) # NONE => Row(a).documents \subseteq Doc

Planned ==
    /\ chosen \subseteq Restorable /\ todo \subseteq chosen
    /\ stage \in {"idle", "browsers"} => look = NONE /\ asked = {}

\* The look counted all of what a window has and shows.
Counted(a, w) ==
    \E docs \in look.open[a] :
        /\ ExtractDocuments(w) \subseteq docs
        /\ LET doc == look.shown[w]
           IN  doc \in Doc /\ look.index[nameOf[doc]] = doc => doc \in docs

Seen == look # NONE => \A a \in chosen : \A w \in look.windows : appOf[w] = a => Counted(a, w)

OnlyMissing == \A e \in asked : look.open[e[1]] # {} => e[2] \in MissingDocuments(e[1])

AppInv == StoredDocuments /\ Planned /\ Seen /\ OnlyMissing

LEMMA AppInit == ASSUME DesktopAssumption, SessionAssumption, Init PROVE AppInv
  <1>1. PICK s \in Session : snap = RowsOf(s)
    BY DEF Init
  <1>2. ASSUME NEW a \in App, Row(a) # NONE
        PROVE  Row(a).documents = DocumentsOf(Enumerate(s.open), s.doc, s.recent, a)
    BY <1>1, <1>2 DEF Row, RowsOf, AppRow
  <1>3. StoredDocuments
    <2>1. \A a : DocumentsOf(Enumerate(s.open), s.doc, s.recent, a) \subseteq Doc
      BY SessionDocuments
    <2> QED BY <1>2, <2>1 DEF StoredDocuments
  <1> QED BY <1>3 DEF AppInv, Planned, Seen, OnlyMissing, Init

\* A step that neither plans, looks nor launches.
LEMMA AppElsewhere ==
    ASSUME AppInv, UNCHANGED <<snap, chosen, todo, look, asked>>,
           stage' \in {"idle", "browsers"} => stage \in {"idle", "browsers"}
    PROVE  AppInv'
  BY DEF AppInv, StoredDocuments, Planned, Seen, Counted, OnlyMissing, MissingDocuments, Row, Restorable

\* What one look counts: every window of an application that is no browser.
LEMMA LookCounts ==
    ASSUME DesktopAssumption, NEW found, NEW title, NEW index,
           NEW a \in App, ~IsBrowser(a), NEW w \in ToSet(found), appOf[w] = a
    PROVE  \E docs \in OpenNow(found, title, index)[a] :
               /\ ExtractDocuments(w) \subseteq docs
               /\ LET doc == title[w]
                  IN  doc \in Doc /\ index[nameOf[doc]] = doc => doc \in docs
  <1> DEFINE docs == DocumentsOf(found, title, index, a)
             r == ResolveFromTitle(StorableTitle(w, title[w]), index)
  <1>1. PICK i \in DOMAIN found : w = found[i]
    BY DEF ToSet
  <1>2. OpenNow(found, title, index)[a] = {docs}
    BY <1>1 DEF OpenNow
  <1>3. ExtractDocuments(w) \subseteq docs /\ (r # NONE => r \in docs)
    <2> DEFINE own == {v \in ToSet(found) : appOf[v] = a /\ ~IsBrowser(a)}
    <2>1. w \in own
      OBVIOUS
    <2>2. r # NONE => r \in FromTitles(own, title, index)
      BY <2>1 DEF FromTitles
    <2>3. docs = (UNION {ExtractDocuments(v) : v \in own}) \cup FromTitles(own, title, index)
      BY DEF DocumentsOf
    <2> HIDE DEF r, docs, own
    <2> QED BY <2>1, <2>2, <2>3
  <1>4. ASSUME title[w] \in Doc, index[nameOf[title[w]]] = title[w]
        PROVE  title[w] \in docs
    <2>1. title[w] # NONE /\ nameOf[title[w]] # NONE
      BY <1>4 DEF DesktopAssumption
    <2>2. r = title[w]
      BY <1>4, <2>1 DEF StorableTitle, CandidatesFromTitle, ResolveFromTitle
    <2> QED BY <1>3, <2>1, <2>2
  <1> HIDE DEF docs
  <1> QED BY <1>2, <1>3, <1>4

LEMMA AppLook ==
    ASSUME DesktopAssumption, AppInv, Look
    PROVE  AppInv'
  <1>1. UNCHANGED <<snap, chosen, todo, asked>> /\ asked = {} /\ stage' = "launch"
    BY DEF Look, AppInv, Planned, historyVars
  <1>2. StoredDocuments' /\ Planned' /\ OnlyMissing'
    BY <1>1 DEF AppInv, StoredDocuments, Planned, OnlyMissing, Row, Restorable
  <1>3. ASSUME look' = [open |-> [a \in App |-> {}], windows |-> {}, shown |-> shown, index |-> recent]
        PROVE  Seen'
    <2>1. look'.windows = {}
      BY <1>3
    <2> QED BY <2>1 DEF Seen, Counted
  <1>4. ASSUME look' = [open |-> OpenNow(Enumerate(z), shown, RecentIndex(cache)),
                        windows |-> ToSet(Enumerate(z)), shown |-> shown, index |-> RecentIndex(cache)]
        PROVE  Seen'
    <2> DEFINE found == Enumerate(z)
               index == RecentIndex(cache)
    <2>1. /\ look'.windows = ToSet(found) /\ look'.open = OpenNow(found, shown, index)
          /\ look'.shown = shown /\ look'.index = index
      BY <1>4
    <2> HIDE DEF found, index
    <2>2. SUFFICES ASSUME NEW a \in chosen, NEW w \in ToSet(found), appOf[w] = a
                   PROVE  Counted(a, w)'
      BY <1>1, <2>1 DEF Seen, Counted
    <2>3. a \in App /\ ~IsBrowser(a)
      BY DEF AppInv, Planned, Restorable
    <2>4. \E docs \in OpenNow(found, shown, index)[a] :
              /\ ExtractDocuments(w) \subseteq docs
              /\ LET doc == shown[w]
                 IN  doc \in Doc /\ index[nameOf[doc]] = doc => doc \in docs
      BY <2>2, <2>3, LookCounts
    <2> QED BY <2>1, <2>4 DEF Counted
  <1> QED BY <1>2, <1>3, <1>4 DEF Look, AppInv

\* What one start asks for.
LEMMA StartAsks ==
    ASSUME NEW a \in todo, Start(a), NEW e \in asked' \ asked
    PROVE  e[1] = a /\ (look.open[a] # {} => e[2] \in MissingDocuments(a))
  <1>1. ASSUME NEW files, LaunchViaShell(a, files)
        PROVE  e[1] = a /\ e[2] \in files
    BY <1>1 DEF LaunchViaShell, Launch
  <1>2. CASE Row(a).tier = "D"
    BY <1>2 DEF Start, Launch
  <1>3. CASE Row(a).tier # "D" /\ look.open[a] # {}
    BY <1>1, <1>3 DEF Start
  <1>4. CASE Row(a).tier # "D" /\ look.open[a] = {}
    <2>1. LaunchWithCommandLine(a) \/ LaunchUwp(a) \/ \E files : LaunchViaShell(a, files)
      BY <1>4 DEF Start
    <2>2. CASE LaunchWithCommandLine(a)
      <3>1. \A x \in IF Row(a).given = {} THEN {<<a, NONE>>} ELSE {a} \X Row(a).given : x[1] = a
        OBVIOUS
      <3> QED BY <1>4, <2>2, <3>1 DEF LaunchWithCommandLine, Launch
    <2>3. CASE LaunchUwp(a)
      BY <1>4, <2>3 DEF LaunchUwp, Launch
    <2> QED BY <1>1, <1>4, <2>1, <2>2, <2>3
  <1> QED BY <1>2, <1>3, <1>4

LEMMA AppHandle ==
    ASSUME AppInv, Handle
    PROVE  AppInv'
  <1>1. PICK a \in todo : Start(a) /\ todo' = todo \ {a}
    BY DEF Handle
  <1>2. UNCHANGED <<snap, chosen, look>> /\ stage' \notin {"idle", "browsers"}
    BY DEF Handle
  <1>3. StoredDocuments' /\ Planned' /\ Seen'
    BY <1>1, <1>2 DEF AppInv, StoredDocuments, Planned, Seen, Counted, Row, Restorable
  <1>4. \A c : MissingDocuments(c)' = MissingDocuments(c)
    BY <1>2 DEF MissingDocuments, Row
  <1>5. OnlyMissing'
    BY <1>1, <1>2, <1>4, StartAsks DEF AppInv, OnlyMissing
  <1> QED BY <1>3, <1>5 DEF AppInv

LEMMA AppStep ==
    ASSUME DesktopAssumption, AppInv, [Next]_vars
    PROVE  AppInv'
  <1>1. CASE Before \/ During
    BY <1>1, AppElsewhere DEF Before, During, planVars, historyVars
  <1>2. CASE CacheBuilt \/ CacheExpires
    BY <1>2, AppElsewhere DEF CacheBuilt, CacheExpires, planVars, historyVars
  <1>3. CASE Confirm \/ RestoreAtStartup
    <2>1. /\ chosen' \subseteq Restorable /\ todo' = chosen' /\ look = NONE /\ asked = {}
          /\ UNCHANGED <<snap, look, asked>>
      BY <1>3 DEF Confirm, RestoreAtStartup, AppInv, Planned, historyVars
    <2> QED BY <2>1 DEF AppInv, StoredDocuments, Planned, Seen, OnlyMissing, Row, Restorable
  <1>4. CASE StartBrowser \/ NoApps
    BY <1>4, AppElsewhere DEF StartBrowser, NoApps, planVars, historyVars
  <1>5. CASE Look
    BY <1>5, AppLook
  <1>6. CASE Handle
    BY <1>6, AppHandle
  <1>7. CASE Appears \/ GiveUp
    BY <1>7, AppElsewhere DEF Appears, GiveUp, planVars, historyVars
  <1>8. CASE Poll
    <2>1. UNCHANGED <<snap, chosen, todo, look, asked>> /\ stage' \notin {"idle", "browsers"}
      BY <1>8 DEF Poll, planVars
    <2> QED BY <2>1, AppElsewhere
  <1>9. CASE UNCHANGED vars
    BY <1>9, AppElsewhere DEF vars, planVars, historyVars
  <1> QED BY <1>1, <1>2, <1>3, <1>4, <1>5, <1>6, <1>7, <1>8, <1>9 DEF Next

LEMMA AppSafe == ASSUME DesktopAssumption, AppInv PROVE NoSecondWindow
  <1>1. SUFFICES ASSUME look # NONE, NEW a \in chosen, NEW w \in look.windows, appOf[w] = a
                 PROVE  /\ <<a, NONE>> \notin asked
                        /\ \A doc \in ExtractDocuments(w) : <<a, doc>> \notin asked
                        /\ LET doc == look.shown[w]
                           IN  <<a, doc>> \in asked => look.index[nameOf[doc]] # doc
    BY DEF NoSecondWindow
  <1>2. PICK docs \in look.open[a] :
            /\ ExtractDocuments(w) \subseteq docs
            /\ LET doc == look.shown[w]
               IN  doc \in Doc /\ look.index[nameOf[doc]] = doc => doc \in docs
    BY <1>1 DEF AppInv, Seen, Counted
  <1>3. ASSUME NEW d, <<a, d>> \in asked
        PROVE  d \in Doc /\ d \notin docs
    <2>1. d \in MissingDocuments(a)
      BY <1>2, <1>3 DEF AppInv, OnlyMissing
    <2>2. Row(a).documents \subseteq Doc
      BY DEF AppInv, StoredDocuments, Planned, Restorable
    <2> QED BY <1>2, <2>1, <2>2 DEF MissingDocuments
  <1>4. NONE \notin Doc
    BY DEF DesktopAssumption
  <1> QED BY <1>2, <1>3, <1>4

\* Nothing that was seen open is opened again, for any desktop, session,
\* selection and order of launches, however the user acts meanwhile.
THEOREM NothingOpenedTwice == Spec => []NoSecondWindow
  BY AppInit, AppStep, AppSafe, DesktopAssumption, SessionAssumption, PTL DEF Spec

-----------------------------------------------------------------------------
(* Placing.  The rectangle a window is given can be reached.               *)

\* Of finitely many one has most: the one that fewest exceed.
LEMMA Most ==
    ASSUME NEW D, IsFiniteSet(D), D # {}, NEW f \in [D -> Nat]
    PROVE  \E d \in D : \A e \in D : f[d] >= f[e]
  <1> DEFINE above(d) == {e \in D : f[e] > f[d]}
             T == {Cardinality(above(d)) : d \in D}
  <1>1. \A d \in D : IsFiniteSet(above(d)) /\ Cardinality(above(d)) \in Nat
    BY FS_Subset, FS_CardinalityType
  <1>2. PICK d \in D : \A e \in D : Cardinality(above(d)) <= Cardinality(above(e))
    <2>1. T \subseteq Nat /\ T # {}
      BY <1>1
    <2>2. PICK x \in T : \A y \in T : x <= y
      BY <2>1, Least
    <2>3. PICK d \in D : x = Cardinality(above(d))
      OBVIOUS
    <2>4. \A e \in D : Cardinality(above(e)) \in T
      OBVIOUS
    <2> HIDE DEF above, T
    <2> QED BY <2>2, <2>3, <2>4
  <1>3. ASSUME NEW e \in D, f[e] > f[d] PROVE FALSE
    <2>1. above(e) \subseteq above(d) /\ e \in above(d) /\ e \notin above(e)
      BY <1>3
    <2>2. Cardinality(above(e)) < Cardinality(above(d))
      <3>1. above(e) # above(d)
        BY <2>1
      <3> HIDE DEF above
      <3>2. Cardinality(above(e)) <= Cardinality(above(d)) /\ Cardinality(above(e)) # Cardinality(above(d))
        BY <1>1, <2>1, <3>1, FS_Subset
      <3> QED BY <1>1, <3>2
    <2> HIDE DEF above
    <2> QED BY <1>1, <1>2, <2>2
  <1>4. \A e \in D : f[e] \in Nat /\ f[d] \in Nat
    OBVIOUS
  <1> QED BY <1>3, <1>4

LEMMA ProductIsNat == \A a, b \in Nat : a * b \in Nat
  OBVIOUS

LEMMA SquareIsNat == \A a \in Int : a * a \in Nat
  <1>1. SUFFICES ASSUME NEW a \in Int PROVE a * a \in Nat
    OBVIOUS
  <1>2. CASE a >= 0
    BY <1>2
  <1>3. CASE a < 0
    BY <1>3
  <1> QED BY <1>2, <1>3

LEMMA DivIsNat == \A a \in Nat, b \in Nat \ {0} : a \div b \in Nat
  OBVIOUS

LEMMA ProductsAreOrdered ==
    ASSUME NEW a \in Nat, NEW b \in Nat, NEW c \in Nat, NEW d \in Nat, a <= c, b <= d
    PROVE  a * b <= c * d
  <1>1. a * b <= c * b
    OBVIOUS
  <1>2. c * b <= c * d
    OBVIOUS
  <1>3. a * b \in Int /\ c * b \in Int /\ c * d \in Int
    OBVIOUS
  <1> QED BY <1>1, <1>2, <1>3

LEMMA OverlapIsNat ==
    ASSUME NEW r \in Rectangle, NEW b \in Rectangle
    PROVE  Overlap(r, b) \in Nat
  <1> DEFINE ox == Smaller(r.x + r.w, b.x + b.w) - Larger(r.x, b.x)
             oy == Smaller(r.y + r.h, b.y + b.h) - Larger(r.y, b.y)
  <1>1. ox \in Int /\ oy \in Int
    BY DEF Rectangle, Smaller, Larger
  <1>2. Overlap(r, b) = IF ox > 0 /\ oy > 0 THEN ox * oy ELSE 0
    BY DEF Overlap
  <1> HIDE DEF ox, oy
  <1>3. ox > 0 /\ oy > 0 => ox \in Nat /\ oy \in Nat
    BY <1>1
  <1> QED BY <1>2, <1>3, ProductIsNat

LEMMA ScreenIs ==
    ASSUME ScreenAssumption, NEW d \in Display
    PROVE  /\ screen[d].bounds \in Rectangle /\ screen[d].work \in Rectangle
           /\ screen[d].dpi \in Nat \ {0} /\ Inside(screen[d].work, screen[d].bounds)
  BY DEF ScreenAssumption

LEMMA EnoughIsNat == ASSUME ScreenAssumption PROVE Enough \in Nat /\ Enough > 0
  BY DEF ScreenAssumption, Enough

\* Where enough shows, one display shows it.
LEMMA VisibleSomewhere ==
    ASSUME ScreenAssumption, NEW current \in SUBSET Display, current # {}, NEW r \in Rectangle,
           VisibleArea(r, current) >= Enough
    PROVE  \E d \in current : Overlap(r, screen[d].bounds) >= Enough
  <1> DEFINE f == [d \in current |-> Overlap(r, screen[d].bounds)]
             S == {0} \cup {f[d] : d \in current}
  <1>1. f \in [current -> Nat]
    BY ScreenIs, OverlapIsNat
  <1>2. IsFiniteSet(current)
    BY FS_Subset DEF ScreenAssumption
  <1>3. PICK d \in current : \A e \in current : f[d] >= f[e]
    <2> HIDE DEF f
    <2> QED BY <1>1, <1>2, Most
  <1>4. f[d] \in S /\ \A y \in S : f[d] >= y
    <2> HIDE DEF f
    <2> QED BY <1>1, <1>3
  <1>5. VisibleArea(r, current) = Max(S)
    BY DEF VisibleArea
  <1>6. Max(S) \in S
    <2> HIDE DEF S
    <2> QED BY <1>4 DEF Max
  <1>7. \E e \in current : VisibleArea(r, current) = f[e]
    <2>1. VisibleArea(r, current) # 0
      BY EnoughIsNat
    <2> QED BY <1>5, <1>6, <2>1
  <1> QED BY <1>7

LEMMA DistanceIsNat ==
    ASSUME NEW r \in Rectangle, NEW b \in Rectangle
    PROVE  Distance(r, b) \in Nat
  <1> DEFINE dx == (b.x + b.w \div 2) - (r.x + r.w \div 2)
             dy == (b.y + b.h \div 2) - (r.y + r.h \div 2)
  <1>1. dx \in Int /\ dy \in Int
    BY DEF Rectangle
  <1>2. Distance(r, b) = dx * dx + dy * dy
    BY DEF Distance
  <1> HIDE DEF dx, dy
  <1>3. dx * dx \in Nat /\ dy * dy \in Nat
    BY <1>1, SquareIsNat
  <1> QED BY <1>2, <1>3

LEMMA NearestIsOne ==
    ASSUME ScreenAssumption, NEW current \in SUBSET Display, current # {}, NEW r \in Rectangle
    PROVE  Nearest(r, current) \in current
  <1> DEFINE T == {Distance(r, screen[d].bounds) : d \in current}
  <1>1. T \subseteq Nat /\ T # {}
    BY ScreenIs, DistanceIsNat
  <1>2. PICK x \in T : \A y \in T : x <= y
    BY <1>1, Least
  <1>3. \E d \in current : \A e \in current : Distance(r, screen[d].bounds) <= Distance(r, screen[e].bounds)
    BY <1>2
  <1> QED BY <1>3 DEF Nearest

LEMMA ShrunkIsRectangle ==
    ASSUME ScreenAssumption, NEW current \in SUBSET Display, current # {}, NEW r \in Rectangle
    PROVE  Shrunk(r, current) \in Rectangle
  <1> DEFINE area(d) == screen[d].work.w * screen[d].work.h
             f == [d \in current |-> area(d)]
             biggest == CHOOSE d \in current : \A e \in current : area(d) >= area(e)
  <1>1. f \in [current -> Nat]
    <2>1. \A d \in current : screen[d].work.w \in Nat /\ screen[d].work.h \in Nat
      BY ScreenIs DEF Rectangle
    <2> QED BY <2>1, ProductIsNat
  <1>2. IsFiniteSet(current)
    BY FS_Subset DEF ScreenAssumption
  <1>3. \E d \in current : \A e \in current : f[d] >= f[e]
    <2> HIDE DEF f
    <2> QED BY <1>1, <1>2, Most
  <1>4. \E d \in current : \A e \in current : area(d) >= area(e)
    BY <1>3
  <1>5. biggest \in current
    <2> HIDE DEF area
    <2> QED BY <1>4
  <1>6. Shrunk(r, current) = [r EXCEPT !.w = Smaller(@, screen[biggest].work.w), !.h = Smaller(@, screen[biggest].work.h)]
    BY DEF Shrunk
  <1> HIDE DEF biggest
  <1>7. screen[biggest].work.w \in Nat /\ screen[biggest].work.h \in Nat
    BY <1>5, ScreenIs DEF Rectangle
  <1> QED BY <1>6, <1>7 DEF Rectangle, Smaller

LEMMA PulledIsRectangle ==
    ASSUME ScreenAssumption, NEW r \in Rectangle, NEW t \in Rectangle
    PROVE  Pulled(r, t) \in Rectangle
  <1> DEFINE x == Clamp(r.x, t.x, Larger(t.x + t.w - MinVisibleW, t.x))
             y == Clamp(r.y, t.y, Larger(t.y + t.h - MinVisibleH, t.y))
  <1>1. x \in Int /\ y \in Int
    BY DEF ScreenAssumption, Rectangle, Clamp, Smaller, Larger
  <1>2. Pulled(r, t) = [r EXCEPT !.x = x, !.y = y]
    BY DEF Pulled
  <1> HIDE DEF x, y
  <1> QED BY <1>1, <1>2 DEF Rectangle

\* A centred rectangle covers what its size and the work area allow.
LEMMA CentredCovers ==
    ASSUME NEW r \in Rectangle, NEW t \in Rectangle, NEW b \in Rectangle, Inside(t, b)
    PROVE  LET c == Centred(r, t)
           IN  /\ c \in Rectangle
               /\ Overlap(c, b) >= Smaller(c.w, t.w) * Smaller(c.h, t.h)
  <1> DEFINE c == Centred(r, t)
             mx == Larger(t.w - r.w, 0) \div 2
             my == Larger(t.h - r.h, 0) \div 2
             ox == Smaller(c.x + c.w, b.x + b.w) - Larger(c.x, b.x)
             oy == Smaller(c.y + c.h, b.y + b.h) - Larger(c.y, b.y)
             vx == Smaller(c.w, t.w)
             vy == Smaller(c.h, t.h)
  <1>1. mx \in Nat /\ my \in Nat /\ 2 * mx <= Larger(t.w - r.w, 0) /\ 2 * my <= Larger(t.h - r.h, 0)
    BY DEF Rectangle, Larger
  <1>2. c = [r EXCEPT !.x = t.x + mx, !.y = t.y + my]
    BY DEF Centred
  <1> HIDE DEF mx, my, c
  <1>3. c \in Rectangle /\ c.x = t.x + mx /\ c.y = t.y + my /\ c.w = r.w /\ c.h = r.h
    <2>1. t.x + mx \in Int /\ t.y + my \in Int
      BY <1>1 DEF Rectangle
    <2>2. \A p, q \in Int : LET e == [r EXCEPT !.x = p, !.y = q]
                            IN  e \in Rectangle /\ e.x = p /\ e.y = q /\ e.w = r.w /\ e.h = r.h
      BY DEF Rectangle
    <2> QED BY <1>2, <2>1, <2>2
  <1>4. vx \in Nat /\ ox \in Int /\ ox >= vx
    BY <1>1, <1>3 DEF Rectangle, Inside, Smaller, Larger
  <1>5. vy \in Nat /\ oy \in Int /\ oy >= vy
    BY <1>1, <1>3 DEF Rectangle, Inside, Smaller, Larger
  <1>6. Overlap(c, b) = IF ox > 0 /\ oy > 0 THEN ox * oy ELSE 0
    BY DEF Overlap
  <1> HIDE DEF ox, oy, vx, vy
  <1>7. Overlap(c, b) >= vx * vy
    <2>1. CASE vx = 0 \/ vy = 0
      <3>1. vx * vy = 0
        BY <1>4, <1>5, <2>1
      <3>2. Overlap(c, b) \in Nat
        BY <1>3, OverlapIsNat
      <3> QED BY <3>1, <3>2
    <2>2. CASE vx # 0 /\ vy # 0
      <3>1. ox > 0 /\ oy > 0 /\ ox \in Nat /\ oy \in Nat
        BY <1>4, <1>5, <2>2
      <3>2. vx * vy <= ox * oy
        BY <1>4, <1>5, <3>1, ProductsAreOrdered
      <3>3. Overlap(c, b) = ox * oy
        BY <1>6, <3>1
      <3>4. vx * vy \in Int /\ ox * oy \in Int
        BY <1>4, <1>5
      <3> QED BY <3>2, <3>3, <3>4
    <2> QED BY <2>1, <2>2
  <1> QED BY <1>3, <1>7 DEF c, vx, vy

LEMMA SmallerIsLess == \A a, b \in Int : Smaller(a, b) <= a /\ Smaller(a, b) \in Int
  BY DEF Smaller

\* Wherever it was: what comes out can be reached.
LEMMA ClampedInReach ==
    ASSUME ScreenAssumption, screens \subseteq Display, screens # {}, NEW r \in Rectangle
    PROVE  InReach(ClampOnScreen(r, screens))
  <1> DEFINE s == Shrunk(r, screens)
             n == Nearest(s, screens)
             t == screen[n].work
             p == Pulled(s, t)
             c == Centred(p, t)
  <1>1. s \in Rectangle /\ n \in screens /\ t \in Rectangle /\ p \in Rectangle
    <2>1. s \in Rectangle
      BY ShrunkIsRectangle
    <2> HIDE DEF s
    <2>2. n \in screens
      BY <2>1, NearestIsOne
    <2> HIDE DEF n
    <2>3. t \in Rectangle
      BY <2>2, ScreenIs
    <2> HIDE DEF t
    <2>4. p \in Rectangle
      BY <2>1, <2>3, PulledIsRectangle
    <2> QED BY <2>1, <2>2, <2>3, <2>4
  <1>2. ClampOnScreen(r, screens) = IF VisibleArea(s, screens) >= Enough THEN s
                                    ELSE IF VisibleArea(p, screens) >= Enough THEN p ELSE c
    BY DEF ClampOnScreen
  <1> HIDE DEF s, n, p
  <1>3. ASSUME NEW q \in Rectangle, VisibleArea(q, screens) >= Enough
        PROVE  InReach(q)
    <2>1. PICK d \in screens : Overlap(q, screen[d].bounds) >= Enough
      BY <1>3, VisibleSomewhere
    <2>2. Enough \in Int /\ Overlap(q, screen[d].bounds) \in Int
      BY ScreenIs, OverlapIsNat, EnoughIsNat
    <2> DEFINE u == screen[d].work
               k == Smaller(q.w, u.w) * Smaller(q.h, u.h)
    <2>3. k \in Int
      <3>1. Smaller(q.w, u.w) \in Int /\ Smaller(q.h, u.h) \in Int
        BY <2>1, ScreenIs DEF Rectangle, Smaller
      <3> QED BY <3>1
    <2> HIDE DEF k
    <2>4. Overlap(q, screen[d].bounds) >= Smaller(Enough, k)
      BY <2>1, <2>2, <2>3, SmallerIsLess
    <2> QED BY <2>1, <2>4 DEF InReach, k
  <1>4. InReach(c)
    <2> DEFINE b == screen[n].bounds
               k == Smaller(c.w, t.w) * Smaller(c.h, t.h)
    <2>1. b \in Rectangle /\ Inside(t, b)
      BY <1>1, ScreenIs
    <2>2. c \in Rectangle /\ Overlap(c, b) >= k
      <3> HIDE DEF t, b
      <3> QED BY <1>1, <2>1, CentredCovers
    <2> HIDE DEF c
    <2>3. k \in Int /\ Enough \in Int /\ Overlap(c, b) \in Int
      <3>1. Smaller(c.w, t.w) \in Int /\ Smaller(c.h, t.h) \in Int
        BY <1>1, <2>2 DEF Rectangle, Smaller
      <3> QED BY <2>1, <2>2, <3>1, OverlapIsNat, EnoughIsNat
    <2>4. Overlap(c, b) >= Smaller(Enough, k)
      <3> HIDE DEF k, b
      <3> QED BY <2>2, <2>3 DEF Smaller
    <2> QED BY <1>1, <2>4 DEF InReach
  <1> QED BY <1>1, <1>2, <1>3, <1>4

LEMMA MovedIsRectangle ==
    ASSUME NEW r \in Rectangle, NEW t \in Rectangle
    PROVE  Moved(r, t) \in Rectangle
  <1> DEFINE byWidth == t.w * r.h <= t.h * r.w
             num == IF byWidth THEN t.w ELSE t.h
             den == IF byWidth THEN r.w ELSE r.h
             w == IF num < den THEN (r.w * num) \div den ELSE r.w
             h == IF num < den THEN (r.h * num) \div den ELSE r.h
  <1>1. Moved(r, t) = [x |-> t.x + (t.w - w) \div 2, y |-> t.y + (t.h - h) \div 2, w |-> w, h |-> h]
    BY DEF Moved
  <1>2. num \in Nat /\ den \in Nat
    BY DEF Rectangle
  <1> HIDE DEF num, den
  <1>3. w \in Nat /\ h \in Nat
    <2>1. CASE num < den
      <3>1. r.w * num \in Nat /\ r.h * num \in Nat /\ den \in Nat \ {0}
        BY <1>2, <2>1, ProductIsNat DEF Rectangle
      <3> QED BY <2>1, <3>1, DivIsNat
    <2>2. CASE ~(num < den)
      BY <2>2 DEF Rectangle
    <2> QED BY <2>1, <2>2
  <1> HIDE DEF w, h
  <1>4. t.x + (t.w - w) \div 2 \in Int /\ t.y + (t.h - h) \div 2 \in Int
    BY <1>3 DEF Rectangle
  <1> QED BY <1>1, <1>3, <1>4 DEF Rectangle

LEMMA RescaledIsRectangle ==
    ASSUME NEW r \in Rectangle, NEW from \in Nat \ {0}, NEW to \in Nat \ {0}
    PROVE  Rescaled(r, from, to) \in Rectangle
  <1> DEFINE w == (r.w * to) \div from
             h == (r.h * to) \div from
  <1>1. w \in Nat /\ h \in Nat
    <2>1. r.w * to \in Nat /\ r.h * to \in Nat
      BY ProductIsNat DEF Rectangle
    <2> QED BY <2>1, DivIsNat
  <1>2. Rescaled(r, from, to) = IF from = to THEN r ELSE [r EXCEPT !.w = w, !.h = h]
    BY DEF Rescaled
  <1> HIDE DEF w, h
  <1> QED BY <1>1, <1>2 DEF Rectangle

LEMMA MappedInReach ==
    ASSUME ScreenAssumption, screens \subseteq Display, screens # {},
           NEW r \in Rectangle, NEW key \in SUBSET screens, NEW dpi \in Nat \ {0}
    PROVE  InReach(MapToCurrent(r, key, dpi, screens))
  <1> DEFINE d == PickTarget(key, screens)
             there == IF key = {d} THEN r ELSE Moved(r, screen[d].work)
             scaled == Rescaled(there, dpi, screen[d].dpi)
  <1>1. d \in screens
    BY DEF PickTarget
  <1>2. MapToCurrent(r, key, dpi, screens) = ClampOnScreen(scaled, screens)
    BY DEF MapToCurrent
  <1> HIDE DEF d
  <1>3. there \in Rectangle
    <2>1. screen[d].work \in Rectangle
      BY <1>1, ScreenIs
    <2> QED BY <2>1, MovedIsRectangle
  <1> HIDE DEF there
  <1>4. scaled \in Rectangle
    <2>1. screen[d].dpi \in Nat \ {0}
      BY <1>1, ScreenIs
    <2> QED BY <1>3, <2>1, RescaledIsRectangle
  <1> HIDE DEF scaled
  <1> QED BY <1>2, <1>4, ClampedInReach

-----------------------------------------------------------------------------
(* Placed, in steps: the stored rectangles stay rectangles, the displays   *)
(* those of the plan, and what is counted is a number of windows.          *)

\* The stored windows of an application, in some order.
LEMMA WantedIs ==
    ASSUME DesktopAssumption, NEW a
    PROVE  /\ Len(Wanted(a)) \in Nat
           /\ \A i \in 1 .. Len(Wanted(a)) : Wanted(a)[i] \in Window /\ snap.windows[Wanted(a)[i]] # NONE
  <1> DEFINE S == {w \in Window : snap.windows[w] # NONE /\ snap.windows[w].app = a}
             n == Cardinality(S)
  <1>1. Wanted(a) = CHOOSE f \in [1 .. n -> S] : IsInjective(f)
    BY DEF Wanted, SetToSeq
  <1>2. IsFiniteSet(S)
    BY FS_Subset DEF DesktopAssumption
  <1>3. \A w \in S : w \in Window /\ snap.windows[w] # NONE
    OBVIOUS
  <1> HIDE DEF S
  <1>4. n \in Nat /\ ExistsBijection(1 .. n, S)
    BY <1>2, FS_CardinalityType
  <1> HIDE DEF n
  <1>5. \E f \in [1 .. n -> S] : IsInjective(f)
    BY <1>4 DEF ExistsBijection, Bijection, Injection, IsInjective
  <1>6. Wanted(a) \in [1 .. n -> S]
    BY <1>1, <1>5
  <1>7. Len(Wanted(a)) = n
    BY <1>4, <1>6
  <1> QED BY <1>3, <1>4, <1>6, <1>7

Places ==
    /\ monitors \subseteq Display /\ screens \subseteq Display
    /\ snap.displays \subseteq Display
    /\ \A w \in Window : snap.windows[w] # NONE => snap.windows[w].rect \in Rectangle
    /\ placed \in [App -> Nat]
    /\ stage = "idle" => put = {}

PlaceInv == Places /\ PlacedInReach

LEMMA PlaceInit == ASSUME DesktopAssumption, SessionAssumption, Init PROVE PlaceInv
  <1>1. PICK s \in Session : snap = RowsOf(s)
    BY DEF Init
  <1> DEFINE row(w) == WindowRow(w, s.doc[w], s.rect[w])
  <1>2. snap.displays = s.displays /\ \E T : snap.windows = [w \in Window |-> IF w \in T THEN row(w) ELSE NONE]
    BY <1>1 DEF RowsOf
  <1>3. \A w \in Window : row(w).rect = s.rect[w] /\ s.rect[w] \in Rectangle
    BY DEF WindowRow, SessionAssumption
  <1> HIDE DEF row
  <1>4. \A w \in Window : snap.windows[w] # NONE => snap.windows[w].rect \in Rectangle
    BY <1>2, <1>3
  <1>5. snap.displays \subseteq Display
    BY <1>2 DEF SessionAssumption
  <1> QED BY <1>4, <1>5 DEF Init, InitDesktop, PlaceInv, Places, PlacedInReach

LEMMA MonitorsStay ==
    ASSUME monitors \subseteq Display, WindowAct \/ UserDocks
    PROVE  monitors' \subseteq Display
  BY DEF WindowAct, UserDocks

\* A step that places nothing and does not plan.
LEMMA PlaceElsewhere ==
    ASSUME PlaceInv, monitors' \subseteq Display, UNCHANGED <<snap, screens, placed, put>>,
           stage' = "idle" => stage = "idle"
    PROVE  PlaceInv'
  BY DEF PlaceInv, Places, PlacedInReach, InReach

\* A plan, before anything is placed.
LEMMA PlacePlan ==
    ASSUME PlaceInv, Confirm \/ RestoreAtStartup
    PROVE  PlaceInv'
  <1>1. /\ stage = "idle" /\ stage' = "browsers" /\ screens' = monitors
        /\ UNCHANGED <<monitors, snap, placed, put>>
    BY DEF Confirm, RestoreAtStartup, EnumerateDisplays, desktopVars, historyVars
  <1>2. put' = {}
    BY <1>1 DEF PlaceInv, Places
  <1> QED BY <1>1, <1>2 DEF PlaceInv, Places, PlacedInReach

LEMMA MappedRowInReach ==
    ASSUME ScreenAssumption, RestoreAssumption, Places, screens # {},
           NEW w \in Window, snap.windows[w] # NONE
    PROVE  InReach(Mapped(w))
  <1> DEFINE key == snap.windows[w].display \cap screens
  <1>1. snap.windows[w].rect \in Rectangle /\ screens \subseteq Display /\ key \in SUBSET screens
    BY DEF Places
  <1>2. DpiOf(w) \in Nat \ {0}
    <2> DEFINE on == snap.windows[w].display \cap snap.displays
    <2>1. CASE on = {}
      BY <2>1 DEF DpiOf, RestoreAssumption
    <2>2. CASE on # {}
      <3>1. (CHOOSE d \in on : TRUE) \in Display
        BY <2>2 DEF Places
      <3> QED BY <2>2, <3>1, ScreenIs DEF DpiOf
    <2> QED BY <2>1, <2>2
  <1>3. Mapped(w) = MapToCurrent(snap.windows[w].rect, key, DpiOf(w), screens)
    BY DEF Mapped
  <1> HIDE DEF key
  <1> QED BY <1>1, <1>2, <1>3, MappedInReach

LEMMA PlacePoll ==
    ASSUME DesktopAssumption, ScreenAssumption, RestoreAssumption, PlaceInv, Poll
    PROVE  PlaceInv'
  <1> DEFINE slots == UNION {{a} \X Targets(a) : a \in App}
             given(s) == Mapped(Wanted(s[1])[s[2]])
  <1>1. PICK ok \in SUBSET slots :
            /\ put' = put \cup {given(s) : s \in ok}
            /\ placed' = [a \in App |-> placed[a] + Cardinality({s \in ok : s[1] = a})]
    BY DEF Poll
  <1>2. stage = "place" /\ stage' # "idle" /\ UNCHANGED <<monitors, snap, screens>>
    BY DEF Poll, planVars
  <1>3. ASSUME NEW a \in App
        PROVE  Targets(a) \subseteq 1 .. Len(Wanted(a)) /\ IsFiniteSet(Targets(a))
    <2>1. placed[a] \in Nat /\ Len(Wanted(a)) \in Nat
      BY WantedIs DEF PlaceInv, Places
    <2>2. Targets(a) \subseteq 1 .. Len(Wanted(a))
      BY <2>1 DEF Targets
    <2>3. IsFiniteSet(1 .. Len(Wanted(a)))
      BY <2>1, FS_Interval
    <2> QED BY <2>2, <2>3, FS_Subset
  <1>4. \A s \in slots : s[1] \in App /\ s[2] \in Targets(s[1]) /\ s = <<s[1], s[2]>>
    OBVIOUS
  <1> HIDE DEF slots
  <1>5. ASSUME screens # {}, NEW s \in ok
        PROVE  InReach(given(s))
    <2>1. s[1] \in App /\ s[2] \in 1 .. Len(Wanted(s[1]))
      BY <1>3, <1>4
    <2> DEFINE w == Wanted(s[1])[s[2]]
    <2>2. w \in Window /\ snap.windows[w] # NONE
      BY <2>1, WantedIs
    <2> HIDE DEF w
    <2>3. InReach(Mapped(w))
      BY <1>5, <2>2, MappedRowInReach DEF PlaceInv
    <2> QED BY <2>3 DEF w
  <1>6. ASSUME NEW a \in App
        PROVE  Cardinality({s \in ok : s[1] = a}) \in Nat
    <2> DEFINE mine == {s \in ok : s[1] = a}
    <2>1. IsFiniteSet({a} \X Targets(a))
      BY <1>3, FS_Singleton, FS_Product
    <2>2. mine \subseteq {a} \X Targets(a)
      BY <1>4
    <2>3. IsFiniteSet(mine)
      BY <2>1, <2>2, FS_Subset
    <2> QED BY <2>3, FS_CardinalityType
  <1>7. placed' \in [App -> Nat]
    <2>1. \A a \in App : placed[a] \in Nat
      BY DEF PlaceInv, Places
    <2> QED BY <1>1, <1>6, <2>1
  <1> HIDE DEF given
  <1>8. PlacedInReach'
    <2>1. \A r : InReach(r)' <=> InReach(r)
      BY <1>2 DEF InReach
    <2>2. ASSUME screens # {}, NEW r \in put' PROVE InReach(r)
      BY <1>1, <1>5, <2>2 DEF PlaceInv, PlacedInReach
    <2> QED BY <1>2, <2>1, <2>2 DEF PlacedInReach
  <1> QED BY <1>2, <1>7, <1>8 DEF PlaceInv, Places

LEMMA PlaceStep ==
    ASSUME DesktopAssumption, ScreenAssumption, RestoreAssumption, PlaceInv, [Next]_vars
    PROVE  PlaceInv'
  <1>0. monitors \subseteq Display
    BY DEF PlaceInv, Places
  <1>1. CASE Before \/ During
    <2>1. monitors' \subseteq Display
      BY <1>0, <1>1, MonitorsStay DEF Before, During, desktopVars
    <2> QED BY <1>1, <2>1, PlaceElsewhere DEF Before, During, planVars, historyVars
  <1>2. CASE CacheBuilt \/ CacheExpires
    BY <1>0, <1>2, PlaceElsewhere DEF CacheBuilt, CacheExpires, desktopVars, planVars, historyVars
  <1>3. CASE Confirm \/ RestoreAtStartup
    BY <1>3, PlacePlan
  <1>4. CASE StartBrowser \/ NoApps
    BY <1>0, <1>4, PlaceElsewhere DEF StartBrowser, NoApps, desktopVars, planVars, historyVars
  <1>5. CASE Look
    BY <1>0, <1>5, PlaceElsewhere DEF Look, desktopVars, historyVars
  <1>6. CASE Handle
    <2>1. UNCHANGED <<monitors, snap, screens, placed, put>> /\ stage' # "idle"
      BY <1>6 DEF Handle, desktopVars
    <2> QED BY <1>0, <2>1, PlaceElsewhere
  <1>7. CASE Appears \/ GiveUp
    <2>1. UNCHANGED <<monitors, snap, screens, placed, put>> /\ (stage' = "idle" => stage = "idle")
      BY <1>7 DEF Appears, GiveUp, desktopVars, planVars, historyVars
    <2> QED BY <1>0, <2>1, PlaceElsewhere
  <1>8. CASE Poll
    BY <1>8, PlacePoll
  <1>9. CASE UNCHANGED vars
    BY <1>0, <1>9, PlaceElsewhere DEF vars, desktopVars, planVars, historyVars
  <1> QED BY <1>1, <1>2, <1>3, <1>4, <1>5, <1>6, <1>7, <1>8, <1>9 DEF Next

\* Every window of a restore is placed where one display shows enough of it, or
\* as much as its size and a work area allow, for any rectangles that were stored
\* and any displays, resolutions and positions there are now.
THEOREM PlacedWindowsAreInReach == Spec => []PlacedInReach
  <1>1. PlaceInv => PlacedInReach
    BY DEF PlaceInv
  <1> QED BY <1>1, PlaceInit, PlaceStep, DesktopAssumption, ScreenAssumption, SessionAssumption,
             RestoreAssumption, PTL DEF Spec
=============================================================================
