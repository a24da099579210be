----------------------------- MODULE AppRestore -----------------------------
(***************************************************************************)
(* A restore of applications and browsers on a desktop in use.             *)
(*                                                                         *)
(* The answer of the review starts a thread: under the lock it plans from  *)
(* the snapshot, captures, and works out which browsers to start; without  *)
(* it, it starts them, looks once at what is open, launches one            *)
(* application after the other, and places windows as they appear, polling *)
(* until all are placed or the budget is spent.  restore_mode "auto" does  *)
(* the part of the applications at the start of the agent.                 *)
(***************************************************************************)
EXTENDS Desktop, BrowserProfiles

CONSTANTS
    browserId,   \* App -> the browser whose extension would connect, or NONE
    DefaultDpi,  \* of a window whose display has no row
    MaxActs,     \* bound: acts of the user and of the browser
    MaxFaults    \* bound: captures, launches and placements that fail

ASSUME RestoreAssumption ==
    /\ browserId \in [App -> Browser \cup {NONE}]
    /\ DefaultDpi \in Nat \ {0}

VARIABLES acts, faults

VARIABLES
    snap,        \* the rows of the snapshot
    cache,       \* INDEX_CACHE, or NONE
    stage,       \* "idle", "browsers", "look", "launch", "place", "done"
    chosen,      \* applications the user kept
    starting,    \* browsers to be started
    todo,        \* applications not handled yet
    look,        \* what open_now said, with the truth and the index it used
    screens,     \* the displays when the restore was planned
    placed,      \* application -> windows counted as placed
    coming       \* windows of launched applications that have not appeared

VARIABLES
    asked,       \* history: what was launched, <<application, document or NONE>>
    started,     \* history: browsers started, with the windows wanted of them
    put          \* history: the rectangles given to windows

planVars == <<chosen, starting, todo, look, screens>>
historyVars == <<asked, started, put>>
vars == <<desktopVars, profileVars, acts, faults, snap, cache, stage, planVars, placed, coming, historyVars>>

Init ==
    /\ InitDesktop /\ InitProfiles
    /\ \E s \in Session : recent = s.recent /\ snap = RowsOf(s)
    /\ acts = 0 /\ faults = 0 /\ cache = NONE
    /\ stage = "idle"
    /\ chosen = {} /\ starting = {} /\ todo = {} /\ look = NONE /\ screens = {}
    /\ placed = [a \in App |-> 0] /\ coming = {}
    /\ asked = {} /\ started = {} /\ put = {}

Fault == faults < MaxFaults /\ faults' = faults + 1

-----------------------------------------------------------------------------
(* The surroundings.                                                       *)

\* Until the restore begins: the user, and the extensions of the last session.
Before ==
    /\ stage = "idle" /\ acts < MaxActs
    /\ acts' = acts + 1
    /\ \/ (WindowAct \/ UserDocks) /\ UNCHANGED profileVars
       \/ /\ \/ \E p \in Profile : Hello(p) \/ Persists(p)
             \/ \E b \in Browser, d \in Dir : UserTurnsToProfile(b, d)
          /\ UNCHANGED desktopVars
    /\ UNCHANGED <<faults, snap, cache, stage, planVars, placed, coming, historyVars>>

\* During it: the user only.
During ==
    /\ stage \notin {"idle", "done"} /\ acts < MaxActs
    /\ acts' = acts + 1
    /\ WindowAct \/ UserDocks
    /\ UNCHANGED <<profileVars, faults, snap, cache, stage, planVars, placed, coming, historyVars>>

\* A capture builds the index.
CacheBuilt ==
    /\ cache = NONE /\ stage \in {"idle", "browsers"}
    /\ cache' = RecentIndex(cache)
    /\ UNCHANGED <<desktopVars, profileVars, acts, faults, snap, stage, planVars, placed, coming, historyVars>>

CacheExpires ==
    /\ cache # NONE /\ stage \in {"idle", "browsers"}
    /\ cache' = NONE
    /\ UNCHANGED <<desktopVars, profileVars, acts, faults, snap, stage, planVars, placed, coming, historyVars>>

-----------------------------------------------------------------------------
(* Planning.                                                               *)

Row(a) == snap.apps[a]
Restorable == {a \in App : Row(a) # NONE /\ ~IsBrowser(a)}

\* The stored windows of an application, in the order of their keys.
Wanted(a) == SetToSeq({w \in Window : snap.windows[w] # NONE /\ snap.windows[w].app = a})

DpiOf(w) ==
    LET on == snap.windows[w].display \cap snap.displays
    IN  IF on = {} THEN DefaultDpi ELSE screen[CHOOSE d \in on : TRUE].dpi

Ids(apps) == {browserId[a] : a \in {b \in apps : IsBrowser(b)}} \ {NONE}
Captured == Ids({a \in App : Row(a) # NONE})

\* The browsers of the live rows: those with a window; of an earlier pass when
\* the capture failed.
RunningBrowsers ==
    LET open == Ids({appOf[w] : w \in ToSet(Enumerate(z))})
    IN  {[ids |-> open, ok |-> TRUE]} \cup {[ids |-> r, ok |-> FALSE] : r \in SUBSET Captured}

\* apply_choice, under the lock.  plan_from_snapshot leaves browsers out.
Confirm ==
    /\ stage = "idle"
    /\ \E kept \in SUBSET Restorable, tabs \in SUBSET BrowserWindow, r \in RunningBrowsers :
           /\ kept # {} \/ tabs # {}
           /\ chosen' = kept /\ todo' = kept
           /\ starting' = {[launch |-> l, wanted |-> tabs] : l \in BrowsersToLaunch(tabs, Captured, r.ids)}
           /\ IF r.ok THEN UNCHANGED faults ELSE Fault
    /\ screens' = EnumerateDisplays
    /\ stage' = "browsers"
    /\ UNCHANGED <<desktopVars, profileVars, acts, snap, cache, look, placed, coming, historyVars>>

\* restore_apps_at_startup: every application, and no browser.
RestoreAtStartup ==
    /\ stage = "idle" /\ Restorable # {}
    /\ chosen' = Restorable /\ todo' = Restorable
    /\ screens' = EnumerateDisplays
    /\ stage' = "browsers"
    /\ UNCHANGED <<desktopVars, profileVars, acts, faults, snap, cache, starting, look, placed, coming, historyVars>>

-----------------------------------------------------------------------------
(* Launching.  A launch is the windows it should bring; each may fail, that *)
(* is recorded, and the next follows.                                      *)

Launch(launches) ==
    /\ \E ok \in SUBSET launches :
           /\ coming' = coming \cup UNION ok
           /\ IF ok = launches THEN UNCHANGED faults ELSE Fault
    /\ asked' = asked \cup UNION launches

\* The line that is stored names the documents it was given.
LaunchWithCommandLine(a) ==
    Launch({IF Row(a).given = {} THEN {<<a, NONE>>} ELSE {a} \X Row(a).given})

\* The shell finds the handler of a document, or starts an executable.
LaunchViaShell(a, files) == Launch({{<<a, f>>} : f \in files})

\* A package is activated.
LaunchUwp(a) == Launch({{<<a, NONE>>}})

\* The browser of a restored session, with its profile.
LaunchWithArgs(s) ==
    /\ \/ UNCHANGED faults
       \/ Fault
    /\ started' = started \cup {s}

StartBrowser ==
    /\ stage = "browsers"
    /\ \E s \in starting : LaunchWithArgs(s) /\ starting' = starting \ {s}
    /\ UNCHANGED <<desktopVars, profileVars, acts, snap, cache, stage, chosen, todo, look, screens, placed, coming, asked, put>>

\* restore_apps begins: what is open is read once; when that fails, nothing is.
Look ==
    /\ stage = "browsers" /\ starting = {} /\ chosen # {}
    /\ \/ /\ cache' = RecentIndex(cache)
          /\ LET found == Enumerate(z)
             IN  look' = [open |-> OpenNow(found, shown, RecentIndex(cache)),
                          windows |-> ToSet(found), shown |-> shown, index |-> RecentIndex(cache)]
          /\ UNCHANGED faults
       \/ /\ Fault
          /\ look' = [open |-> [a \in App |-> {}], windows |-> {}, shown |-> shown, index |-> recent]
          /\ UNCHANGED cache
    /\ stage' = "launch"
    /\ UNCHANGED <<desktopVars, profileVars, acts, snap, chosen, starting, todo, screens, placed, coming, historyVars>>

NoApps ==
    /\ stage = "browsers" /\ starting = {} /\ chosen = {}
    /\ stage' = "done"
    /\ UNCHANGED <<desktopVars, profileVars, acts, faults, snap, cache, planVars, placed, coming, historyVars>>

MissingDocuments(a) == Row(a).documents \ UNION look.open[a]

\* An application with a window is not started again; its missing documents are opened.
Start(a) ==
    IF Row(a).tier = "D" THEN Launch({})
    ELSE IF look.open[a] # {} THEN LaunchViaShell(a, MissingDocuments(a))
    ELSE CASE Row(a).tier = "C" -> LaunchViaShell(a, Row(a).documents)
           [] Row(a).tier = "A" -> LaunchWithCommandLine(a)
           [] OTHER -> IF about[a].kind = "uwp" THEN LaunchUwp(a) ELSE LaunchViaShell(a, {NONE})

Rank(a) == CASE Row(a).tier = "A" -> 1 [] Row(a).tier = "B" -> 2
             [] Row(a).tier = "C" -> 3 [] OTHER -> 4

\* By tier, then by name, which is left open here.
Handle ==
    /\ stage = "launch"
    /\ \E a \in todo :
           /\ \A b \in todo : Rank(a) <= Rank(b)
           /\ Start(a)
           /\ todo' = todo \ {a}
           /\ stage' = IF todo' = {} THEN "place" ELSE stage
    /\ UNCHANGED <<desktopVars, profileVars, acts, snap, cache, chosen, starting, look, screens, placed, started, put>>

\* External: a launched application shows a window, or hands over to one it has.
Appears ==
    /\ \E c \in coming :
           /\ coming' = coming \ {c}
           /\ \/ \E w \in Window : appOf[w] = c[1] /\ Opens(w, c[2]) /\ UNCHANGED <<pos, monitors>>
              \/ UNCHANGED desktopVars
    /\ UNCHANGED <<profileVars, acts, faults, snap, cache, stage, planVars, placed, historyVars>>

-----------------------------------------------------------------------------
(* Placing: the windows of an application, front to back, against those    *)
(* that were stored, from the count of those placed on.                    *)

Live(a) == Among(Enumerate(z), WindowsOf(a))
ToPlace(a) == a \in chosen /\ Row(a).tier # "D" /\ placed[a] < Len(Wanted(a))
Targets(a) == IF ToPlace(a) THEN {i \in placed[a] + 1 .. Len(Wanted(a)) : i <= Len(Live(a))} ELSE {}

Mapped(w) ==
    LET row == snap.windows[w]
    IN  MapToCurrent(row.rect, row.display \cap screens, DpiOf(w), screens)

\* One poll.  A placement that fails is not counted, and does not make it poll again.
Poll ==
    /\ stage = "place"
    /\ LET slots == UNION {{a} \X Targets(a) : a \in App}
           to(s) == Live(s[1])[s[2]]
           given(s) == Mapped(Wanted(s[1])[s[2]])
       IN  \E ok \in SUBSET slots :
               /\ IF ok = slots THEN UNCHANGED faults ELSE Fault
               /\ pos' = [w \in Window |-> IF \E s \in ok : to(s) = w
                                           THEN given(CHOOSE s \in ok : to(s) = w) ELSE pos[w]]
               /\ put' = put \cup {given(s) : s \in ok}
               /\ placed' = [a \in App |-> placed[a] + Cardinality({s \in ok : s[1] = a})]
    /\ stage' = IF \E a \in App : ToPlace(a) /\ Len(Live(a)) < Len(Wanted(a)) THEN stage ELSE "done"
    /\ UNCHANGED <<z, shown, monitors, recent, profileVars, acts, snap, cache, planVars, coming, asked, started>>

\* WINDOW_BUDGET is spent.
GiveUp ==
    /\ stage = "place"
    /\ stage' = "done"
    /\ UNCHANGED <<desktopVars, profileVars, acts, faults, snap, cache, planVars, placed, coming, historyVars>>

-----------------------------------------------------------------------------
Next ==
    \/ Before \/ During \/ CacheBuilt \/ CacheExpires
    \/ Confirm \/ RestoreAtStartup \/ StartBrowser \/ Look \/ NoApps \/ Handle \/ Appears \/ Poll \/ GiveUp

Spec == Init /\ [][Next]_vars

\* A restore that looked raises no second window on what it could see: an
\* application with a window is not started, and a document one of its windows
\* shows or was given is not opened, unless the index in use knew another path,
\* or none, under its name (open_now is asked so that "a restore would" not
\* "reopen a document the user already has open", watcher/mod.rs:72).
NoSecondWindow ==
    look # NONE =>
        \A a \in chosen, w \in look.windows : appOf[w] = a =>
            /\ <<a, NONE>> \notin asked
            /\ \A doc \in ExtractDocuments(w) : <<a, doc>> \notin asked
            /\ LET doc == look.shown[w]
               IN  <<a, doc>> \in asked => look.index[nameOf[doc]] # doc

\* What a restore places can be reached on the displays it knew (place.rs:18):
\* one of them shows enough of it, or as much as there is and its work area holds.
InReach(r) ==
    \E d \in screens :
        LET t == screen[d].work
        IN  Overlap(r, screen[d].bounds) >= Smaller(Enough, Smaller(r.w, t.w) * Smaller(r.h, t.h))

PlacedInReach == screens # {} => \A r \in put : InReach(r)

\* A browser started for the windows of profiles whose own files told where they
\* live starts in the directory of that profile when it is one, and in none of
\* its choosing when they are several: no profile's tabs are asked into another.
StartsInItsProfile ==
    \A s \in started :
        LET b == s.launch.browser
            profiles == Selected(b, s.wanted)
        IN  profiles \subseteq certain =>
                s.launch.dir = IF Cardinality(profiles) = 1 THEN homeOf[CHOOSE p \in profiles : TRUE] ELSE Nowhere
=============================================================================
