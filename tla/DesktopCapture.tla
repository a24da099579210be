--------------------------- MODULE DesktopCapture ---------------------------
(***************************************************************************)
(* The desktop and the passes that write it into the live rows.            *)
(*                                                                         *)
(* A pass holds the lock of the database from its enumeration to its last  *)
(* statement, and each statement commits: a process that ends in between   *)
(* leaves what it had written.  Passes come from a sweep, from the tray,   *)
(* and from window events (hooks, a debounce thread, a worker).            *)
(***************************************************************************)
EXTENDS Desktop

CONSTANTS
    MaxActs,       \* bound: acts of the user
    MaxFaults      \* bound: agents that end, enumerations that fail

VARIABLES acts, faults

VARIABLES
    agent, hooks,  \* the agent runs, its window hooks are installed
    enabled,       \* capture_enabled
    cache,         \* INDEX_CACHE, or NONE
    raw,           \* the debounce thread has events that it has not passed on
    signal,        \* a debounced signal waits for the worker
    worker,        \* "idle", "settle", "ready", "captures"
    pass           \* the statements still to run, {} when none does

VARIABLES liveDisplays, liveApps, liveWindows

VARIABLES
    behind,        \* history: something happened that no pass has seen and no event tells of
    lastSeen       \* history: the windows of the last pass, less those that one cut off missed

pipeVars == <<raw, signal, worker>>
agentVars == <<agent, hooks, enabled>>
liveVars == <<liveDisplays, liveApps, liveWindows>>
vars == <<desktopVars, acts, faults, agentVars, cache, pipeVars, pass, liveVars, behind, lastSeen>>

-----------------------------------------------------------------------------
\* The rows and Recent items are those of a last session.
Init ==
    /\ InitDesktop
    /\ \E s \in Session :
           /\ recent = s.recent
           /\ liveApps = RowsOf(s).apps /\ liveWindows = RowsOf(s).windows
           /\ liveDisplays = s.displays
           /\ lastSeen = ToSet(Enumerate(s.open))
    /\ acts = 0 /\ faults = 0
    /\ agent = FALSE /\ hooks = FALSE /\ enabled = TRUE /\ cache = NONE
    /\ raw = FALSE /\ signal = FALSE /\ worker = "idle" /\ pass = {}
    /\ behind = TRUE

Fault == faults < MaxFaults /\ faults' = faults + 1

-----------------------------------------------------------------------------
(* The desktop (external).  What happens to a window raises an event, which *)
(* reaches the agent if its hooks are there.                                *)

Raised == raw' = (raw \/ hooks) /\ behind' = (behind \/ ~hooks)

UserActs ==
    /\ acts < MaxActs
    /\ acts' = acts + 1
    /\ \/ WindowAct /\ Raised
       \/ UserDocks /\ UNCHANGED <<raw, behind>>
    /\ UNCHANGED <<faults, agentVars, cache, signal, worker, pass, liveVars, lastSeen>>

-----------------------------------------------------------------------------
(* The statements of a pass, and the place of each in their order.  Those   *)
(* that share a place run in any order.                                    *)

Statement(place, op, key, row) == [place |-> place, op |-> op, key |-> key, row |-> row]

\* Displays are deleted and written again.
Displays ==
    {Statement(0, "no displays", NONE, NONE)} \cup
    {Statement(1, "display", d, NONE) : d \in EnumerateDisplays}

\* Window by window; an application is written before its first.
Upserts(found, index) ==
    LET first == {i \in DOMAIN found : \A j \in 1 .. i - 1 : appOf[found[j]] # appOf[found[i]]}
        app(w) == AppRow(w, DocumentsOf(found, shown, index, appOf[w]))
        row(w) == WindowRow(w, shown[w], pos[w])
    IN  {Statement(2 * i, "app", appOf[found[i]], app(found[i])) : i \in first} \cup
        {Statement(2 * i + 1, "window", found[i], row(found[i])) : i \in DOMAIN found}

\* What is stored and was not found: windows, then applications.
Gone(found) == {w \in Window : liveWindows[w] # NONE} \ ToSet(found)
GoneApps(found) == {a \in App : liveApps[a] # NONE} \ {appOf[w] : w \in ToSet(found)}

\* Mutant: applications go first.
ReapAppsFirst(found) ==
    LET last == 2 * Len(found) + 2
    IN  {Statement(last, "drop app", a, NONE) : a \in GoneApps(found)} \cup
        {Statement(last + 1, "drop window", w, NONE) : w \in Gone(found)}

Reap(found) ==
    LET last == 2 * Len(found) + 2
    IN  {Statement(last, "drop window", w, NONE) : w \in Gone(found)} \cup
        {Statement(last + 1, "drop app", a, NONE) : a \in GoneApps(found)}

\* capture_into_live, up to its first statement.  An enumeration that fails
\* writes nothing.
Begin ==
    \/ /\ cache' = RecentIndex(cache)
       /\ LET found == Enumerate(z)
          IN  /\ pass' = Displays \cup Upserts(found, RecentIndex(cache)) \cup Reap(found)
              /\ lastSeen' = lastSeen \cap ToSet(found)
       /\ behind' = FALSE
       /\ UNCHANGED faults
    \/ /\ Fault
       /\ behind' = TRUE
       /\ UNCHANGED <<cache, pass, lastSeen>>

Exec(s) ==
    /\ liveDisplays' = CASE s.op = "no displays" -> {}
                         [] s.op = "display" -> liveDisplays \cup {s.key}
                         [] OTHER -> liveDisplays
    /\ liveApps' = IF s.op \in {"app", "drop app"} THEN [liveApps EXCEPT ![s.key] = s.row] ELSE liveApps
    /\ liveWindows' = IF s.op \in {"window", "drop window"} THEN [liveWindows EXCEPT ![s.key] = s.row] ELSE liveWindows

\* The pass is over: the worker, if it was its pass, waits for a signal again.
Over == worker' = IF worker = "captures" THEN "idle" ELSE worker

\* No other is to run before it.
First(t) == \A u \in pass : t.place <= u.place

ExecuteLeaving(s) ==
    /\ pass # {}
    /\ \E t \in pass : First(t) /\ Exec(t) /\ pass' = pass \ {t}
    /\ IF pass' = {}
       THEN Over /\ lastSeen' = {w \in Window : liveWindows'[w] # NONE}
       ELSE UNCHANGED <<worker, lastSeen>>
    /\ signal' = s
    /\ UNCHANGED <<desktopVars, acts, faults, agentVars, cache, raw, behind>>

\* Mutant: what came during a capture is swallowed after it.
ExecuteSwallows == ExecuteLeaving(signal /\ Cardinality(pass) > 1)

Execute == ExecuteLeaving(signal)

\* A statement that fails ends the pass.
StatementFails ==
    /\ pass # {}
    /\ Fault
    /\ pass' = {}
    /\ Over
    /\ behind' = TRUE
    /\ UNCHANGED <<desktopVars, acts, agentVars, cache, raw, signal, liveVars, lastSeen>>

-----------------------------------------------------------------------------
(* Who asks for a pass.                                                    *)

\* The thread that sweeps, and "Capture now" of the tray: neither looks at
\* capture_enabled.
Sweep ==
    /\ agent /\ pass = {}
    /\ Begin
    /\ UNCHANGED <<desktopVars, acts, agentVars, pipeVars, liveVars>>

\* The debounce thread passes on one signal once it is quiet, or after ten seconds
\* of events, when there may be more.
DebounceEmits ==
    /\ raw
    /\ signal' = TRUE
    /\ UNCHANGED <<desktopVars, acts, faults, agentVars, cache, worker, pass, liveVars, behind, lastSeen>>
    /\ raw' \in BOOLEAN

\* The worker: lets the burst land, swallows it, then captures once.
WorkerWakes ==
    /\ worker = "idle" /\ signal
    /\ worker' = "settle" /\ signal' = FALSE
    /\ UNCHANGED <<desktopVars, acts, faults, agentVars, cache, raw, pass, liveVars, behind, lastSeen>>

WorkerSwallows ==
    /\ worker = "settle"
    /\ worker' = "ready" /\ signal' = FALSE
    /\ UNCHANGED <<desktopVars, acts, faults, agentVars, cache, raw, pass, liveVars, behind, lastSeen>>

\* What came while the worker waited for the lock is kept for the next round.
WorkerRuns ==
    /\ worker = "ready" /\ pass = {}
    /\ IF enabled THEN Begin
       ELSE behind' = TRUE /\ UNCHANGED <<faults, cache, pass, lastSeen>>
    /\ worker' = IF pass' = {} THEN "idle" ELSE "captures"
    /\ UNCHANGED <<desktopVars, acts, agentVars, raw, signal, liveVars>>

Pause ==
    /\ agent /\ hooks /\ pass = {}
    /\ acts < MaxActs /\ acts' = acts + 1
    /\ enabled' = ~enabled
    /\ UNCHANGED <<desktopVars, faults, agent, hooks, cache, pipeVars, pass, liveVars, behind, lastSeen>>

CacheExpires ==
    /\ cache # NONE
    /\ cache' = NONE
    /\ UNCHANGED <<desktopVars, acts, faults, agentVars, pipeVars, pass, liveVars, behind, lastSeen>>

-----------------------------------------------------------------------------
(* The agent starts: the thread that sweeps, then the hooks; and ends.      *)

Starts ==
    /\ ~agent
    /\ agent' = TRUE /\ cache' = NONE /\ behind' = TRUE
    /\ UNCHANGED <<desktopVars, acts, faults, hooks, enabled, pipeVars, pass, liveVars, lastSeen>>

InstallHooks ==
    /\ agent /\ ~hooks
    /\ hooks' = TRUE
    /\ UNCHANGED <<desktopVars, acts, faults, agent, enabled, cache, pipeVars, pass, liveVars, behind, lastSeen>>

Ends ==
    /\ agent
    /\ Fault
    /\ agent' = FALSE /\ hooks' = FALSE /\ cache' = NONE
    /\ raw' = FALSE /\ signal' = FALSE /\ worker' = "idle" /\ pass' = {}
    /\ behind' = TRUE
    /\ UNCHANGED <<desktopVars, acts, enabled, liveVars, lastSeen>>

Next ==
    \/ UserActs \/ Execute \/ StatementFails \/ Sweep
    \/ DebounceEmits \/ WorkerWakes \/ WorkerSwallows \/ WorkerRuns \/ Pause \/ CacheExpires \/ Starts \/ InstallHooks \/ Ends

Spec == Init /\ [][Next]_vars

-----------------------------------------------------------------------------
\* What each variable holds; a row that is to be started from its command line has
\* one to be started from, and one that is to be reopened has documents.
RowOK(row) ==
    /\ row.tier = "A" => row.command = "plain"
    /\ row.tier = "C" => row.documents # {}

TypeOK ==
    /\ z \in Seq(Window) /\ IsInjective(z)
    /\ shown \in [Window -> Doc \cup {NONE}] /\ pos \in [Window -> Rectangle]
    /\ monitors \subseteq Display /\ recent \in Index
    /\ agent \in BOOLEAN /\ enabled \in BOOLEAN /\ cache \in Index \cup {NONE}
    /\ hooks \in BOOLEAN /\ (hooks => agent) /\ (pass # {} => agent)
    /\ worker \in {"idle", "settle", "ready", "captures"} /\ (worker = "captures" => pass # {})
    /\ {raw, signal, behind} \subseteq BOOLEAN
    /\ liveDisplays \subseteq Display
    /\ liveApps \in [App -> AppRows \cup {NONE}]
    /\ \A a \in App : liveApps[a] # NONE => RowOK(liveApps[a])
    /\ liveWindows \in [Window -> WindowRows \cup {NONE}]
    /\ \A w \in Window : liveWindows[w] # NONE => liveWindows[w].app = appOf[w]
    /\ lastSeen \subseteq Window

\* When nothing is on its way, the rows are the desktop: no window event falls
\* between the hooks, the debounce thread, the worker and the pass.
Quiet == agent /\ ~behind /\ ~raw /\ ~signal /\ worker = "idle" /\ pass = {}

QuietIsCurrent ==
    Quiet =>
        LET found == Enumerate(z)
        IN  /\ \A w \in Window : liveWindows[w] # NONE <=> w \in ToSet(found)
            /\ \A w \in ToSet(found) : liveWindows[w].title = StorableTitle(w, shown[w])
                                       /\ liveWindows[w].rect = pos[w]
            /\ \A a \in App : liveApps[a] # NONE <=> \E w \in ToSet(found) : appOf[w] = a

\* Wherever a pass is cut off, what the passes before it saw and it saw too is
\* still there, and no window is left without its application.
CrashKeepsWhatIsOpen ==
    /\ \A w \in lastSeen : liveWindows[w] # NONE
    /\ \A w \in Window : liveWindows[w] # NONE => liveApps[appOf[w]] # NONE
=============================================================================
