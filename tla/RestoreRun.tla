----------------------------- MODULE RestoreRun -----------------------------
(***************************************************************************)
(* One restore, from the start of the agent to its undo: the live rows,    *)
(* the snapshots copied from them, the runs recorded in restore_runs and   *)
(* restore_items, the thread that carries out a review's answer, the       *)
(* extension that opens the missing tabs, the two halves of an undo, and   *)
(* the end of the Windows session.                                         *)
(*                                                                         *)
(* An application is running or not; a tab is a record that says which     *)
(* browser it is in, its url, and whether it is still the lazy placeholder *)
(* page.  Each carries "by", the run that opened it (0: the user), which   *)
(* no row of the code has: it is the history the properties speak of.      *)
(* A browser has one window and few tabs, where planRestore is a multiset  *)
(* difference (RestorePlan has the algorithm); which offers a browser gets *)
(* is RestoreOffer's subject and only "once per agent run" is kept here.   *)
(***************************************************************************)
EXTENDS Integers, Sequences, FiniteSets

CONSTANTS
    App,        \* applications that are not browsers
    Browser,
    Url,
    NONE,
    Mode,       \* what restore_mode may be set to: "ask", "auto"
    Retention,  \* snapshot_retention_count
    Episode     \* UNDO_EPISODE_MILLIS, in ticks

CONSTANTS MaxRuns, MaxCopies, MaxTime, MaxEvents   \* bounds of the model

ASSUME ModeAssumption == Mode \subseteq {"ask", "auto"}
ASSUME RetentionAssumption == Retention \in Nat \ {0}
ASSUME EpisodeAssumption == Episode \in Nat
ASSUME FiniteAssumption == IsFiniteSet(Browser) /\ IsFiniteSet(Url)
ASSUME BoundsAssumption == MaxRuns \in Nat /\ MaxCopies \in Nat
ASSUME NoneAssumption == NONE \notin Nat

VARIABLES
    apps,     \* apps[a]: who opened it, or NONE when it is not running
    tabs,     \* the open tabs
    live,     \* the rows of snapshot 0
    snaps,    \* the snapshots by id
    runs,     \* restore_runs with their tab rows of restore_items
    agent,    \* "down", "copying", "auto", "up"
    pending,  \* the snapshot this agent run offers, or NONE
    review,   \* "none", "open", "answered", "declined"
    claimed,  \* browsers offered a session in this agent run
    chosen,   \* apply_choice: the answer being carried out, or NONE
    up,       \* browsers whose extension is connected
    jobs,     \* restores the extensions are carrying out
    leaving,  \* while Windows ends the session: what its first flush saved; else NONE
    owed,     \* history: what the first flush of the last shutdown saved, or NONE
    made,     \* history: the tabs each run opened, as <<run, url>>
    clock,
    events    \* starts and acts of the user, for the bound

agentVars == <<agent, pending, review, claimed, chosen>>
store == <<live, snaps, runs>>
history == <<owed, made>>
bounds == <<clock, events>>
vars == <<apps, tabs, store, agentVars, up, jobs, leaving, history, bounds>>

Opener == 0 .. MaxRuns
Status == {"none", "pending", "launched", "placed", "skipped", "failed"}
Tab == [id : 1 .. MaxCopies, browser : Browser, url : Url, lazy : BOOLEAN, by : Opener]
Content == [apps : [App -> Opener \cup {NONE}], tabs : SUBSET Tab]
Nothing == [apps |-> [a \in App |-> NONE], tabs |-> {}]

Running(f) == {a \in App : f[a] # NONE}
TabsOf(S, b) == {t \in S : t.browser = b}
WithUrl(S, u) == {t \in S : t.url = u}
Urls(S) == {t.url : t \in S}
Newest(S) == CHOOSE i \in S : \A j \in S : j <= i

-----------------------------------------------------------------------------
(* Snapshots and runs.  captured_at and started_at are taken to grow with  *)
(* the id: two rows in one millisecond are not told apart.                 *)

\* Copies the live rows; nothing to copy makes no snapshot.
CreateFromLive(kind, rows) ==
    IF rows = Nothing THEN snaps
    ELSE Append(snaps, [kind |-> kind, whole |-> TRUE, apps |-> rows.apps, tabs |-> rows.tabs])

Kept == {i \in DOMAIN snaps : snaps[i].kind # "deleted"}

\* Mutant: the oldest are kept.
DoomedNewest(keep) == {i \in Kept : Cardinality({j \in Kept : j < i}) >= keep}

\* All but the newest `keep`, counting undo points and shutdown copies alike.
Doomed(keep) == {i \in Kept : Cardinality({j \in Kept : j > i}) >= keep}

Deleted == [kind |-> "deleted", whole |-> TRUE, apps |-> Nothing.apps, tabs |-> {}]

\* Mutant: a run of the same snapshot does not share its undo point.
EpisodeRunsNone(s) == {}

\* The runs whose undo point a new run of snapshot s shares.
EpisodeRuns(s) == {i \in DOMAIN runs :
    runs[i].snap = s /\ runs[i].undo # NONE /\ runs[i].started >= clock - Episode}

\* Opens a run of snapshot s, with the items a browser was offered.
\* rows: the live rows as the undo point finds them.
\* done: nothing more happens between opening and finishing the run.
BeginRun(s, rows, items, done) ==
    LET recent == EpisodeRuns(s)
        copied == CreateFromLive("pre_restore", rows)
    IN  /\ Len(runs) < MaxRuns
        /\ snaps' = IF recent = {} THEN copied ELSE snaps
        /\ runs' = Append(runs,
              [snap |-> s, started |-> clock, finished |-> done,
               undo |-> IF recent # {} THEN runs[Newest(recent)].undo
                        ELSE IF copied = snaps THEN NONE ELSE Len(copied),
               items |-> items])

NoItems == [u \in Url |-> "none"]
PendingItems(want) == [u \in Url |-> IF u \in Urls(want) THEN "pending" ELSE "none"]

\* restore_apps: starts what is not running; what runs already is left alone.
\* An application that does not start is reported, and is not among `wanted`.
Launched(wanted, n) == [a \in App |-> IF a \in wanted /\ apps[a] = NONE THEN n ELSE apps[a]]

\* capture_into_live.  It may fail, and its callers go on without it.
Captured == live' \in {live, [live EXCEPT !.apps = apps]}

Counted == events < MaxEvents /\ events' = events + 1

-----------------------------------------------------------------------------
Init ==
    /\ apps = Nothing.apps
    /\ tabs = {}
    /\ \E A \in SUBSET App, n \in [Browser -> [Url -> 0 .. MaxCopies]] :
          live = [apps |-> [a \in App |-> IF a \in A THEN 0 ELSE NONE],
                  tabs |-> {t \in Tab : t.by = 0 /\ ~t.lazy /\ t.id <= n[t.browser][t.url]}]
    /\ snaps = <<>>
    /\ runs = <<>>
    /\ agent = "down"
    /\ pending = NONE
    /\ review = "none"
    /\ claimed = {}
    /\ chosen = NONE
    /\ up = {}
    /\ jobs = {}
    /\ leaving = NONE
    /\ owed = NONE
    /\ made = {}
    /\ clock = 0
    /\ events = 0

(***************************************************************************)
(* The agent starts: it copies the live rows, table by table and outside a *)
(* transaction, before the pipe server exists.                             *)
(***************************************************************************)
PartialCopy(rows) ==
    IF rows = Nothing THEN snaps
    ELSE Append(snaps, [kind |-> "shutdown", whole |-> FALSE,
                        apps |-> Nothing.apps, tabs |-> rows.tabs])

StartCopy ==
    /\ agent = "down"
    /\ Counted
    /\ agent' = "copying"
    /\ snaps' = PartialCopy(live)
    /\ UNCHANGED <<apps, tabs, live, runs, pending, review, claimed, chosen, up, jobs,
                   leaving, history, clock>>

\* The copy ends, old snapshots are pruned, and the mode is read.
StartDone ==
    LET copied == [snaps EXCEPT ![Len(snaps)] = [@ EXCEPT !.whole = TRUE, !.apps = live.apps]]
        next == IF live = Nothing THEN snaps ELSE copied
    IN  /\ agent = "copying"
        /\ pending' = IF live = Nothing THEN NONE ELSE Len(snaps)
        /\ snaps' = [i \in DOMAIN next |-> IF i \in Doomed(Retention) THEN Deleted ELSE next[i]]
        /\ \E mode \in Mode :
              /\ agent' = IF mode = "auto" THEN "auto" ELSE "up"
              /\ review' = IF mode = "ask" /\ live # Nothing THEN "open" ELSE "none"
        /\ UNCHANGED <<apps, tabs, live, runs, claimed, chosen, up, jobs, leaving, history,
                       bounds>>

\* Mode auto: the applications come back before anything else runs.
AutoApps ==
    /\ agent = "auto"
    /\ agent' = "up"
    /\ IF pending = NONE \/ Running(snaps[pending].apps) = {}
       THEN UNCHANGED <<apps, snaps, runs>>
       ELSE /\ BeginRun(pending, live, NoItems, TRUE)
            /\ \E started \in SUBSET Running(snaps[pending].apps) :
                  apps' = Launched(started, Len(runs) + 1)
    /\ UNCHANGED <<tabs, live, pending, review, claimed, chosen, up, jobs, 
                   leaving, history, bounds>>

-----------------------------------------------------------------------------
(* A browser's offer, its restore in the extension, and the result.        *)

\* maybe_offer_restore: nothing stored spends the claim and opens no run.
OfferTo(b) ==
    LET want == TabsOf(snaps[pending].tabs, b) IN
    IF review \in {"open", "declined"} \/ pending = NONE \/ b \in claimed
    THEN UNCHANGED <<claimed, snaps, runs, jobs>>
    ELSE /\ claimed' = claimed \cup {b}
         /\ IF want = {} THEN UNCHANGED <<snaps, runs, jobs>>
            ELSE /\ BeginRun(pending, live, PendingItems(want), FALSE)
                 /\ jobs' = jobs \cup {[browser |-> b, run |-> Len(runs) + 1, want |-> want,
                                        done |-> FALSE, items |-> NoItems]}

\* The extension's port connects and its hello is answered.
Connect(b) ==
    /\ agent = "up"
    /\ leaving = NONE
    /\ b \notin up
    /\ up' = up \cup {b}
    /\ OfferTo(b)
    /\ UNCHANGED <<apps, tabs, live, agent, pending, review, chosen, leaving, history,
                   bounds>>

\* The browser's first reconcile, or any later report: its live rows are replaced.
Report(b) ==
    /\ b \in up
    /\ live' = [live EXCEPT !.tabs = (@ \ TabsOf(@, b)) \cup TabsOf(tabs, b)]
    /\ live' # live
    /\ UNCHANGED <<apps, tabs, snaps, runs, agentVars, up, jobs, leaving, history, bounds>>

\* How many of the wanted tabs on u are not open in the browser.
Short(want, b, u) ==
    Cardinality(WithUrl(want, u)) - Cardinality(WithUrl(TabsOf(tabs, b), u))

\* What is left to open: the tabs of the offer beyond those open already.
MissingSets(want, b) ==
    {M \in SUBSET want : \A u \in Url :
        Cardinality(WithUrl(M, u)) = IF Short(want, b, u) > 0 THEN Short(want, b, u) ELSE 0}

\* Mutant: what was open already is reported as opened.
OutcomesAllCreated(want, missing, failed) ==
    {[u \in Url |-> IF u \in Urls(want) THEN "launched" ELSE "none"]}

\* Mutant: the browser's own word for the status is stored.
OutcomesUnmapped(want, missing, failed) ==
    {[u \in Url |-> IF u \in Urls(want) THEN "created" ELSE "none"]}

\* Mutant: what was open already is not reported.
OutcomesCreatedOnly(want, missing, failed) ==
    LET Last(u) == (IF u \in Urls(missing \ failed) THEN {"launched"} ELSE {})
                   \cup (IF u \in Urls(failed) THEN {"failed"} ELSE {})
    IN  {f \in [Url -> Status] : \A u \in Url :
            f[u] \in (IF u \notin Urls(want) THEN {"none"}
                      ELSE IF Last(u) = {} THEN {"pending"} ELSE Last(u))}

\* The row a url is left with: rows are keyed by url, and the last result stays.
Outcomes(want, missing, failed) ==
    LET Last(u) == (IF u \in Urls(missing \ failed) THEN {"launched"} ELSE {})
                   \cup (IF u \in Urls(failed) THEN {"failed"} ELSE {})
    IN  {f \in [Url -> Status] : \A u \in Url :
            f[u] \in (IF u \notin Urls(want) THEN {"none"}
                      ELSE IF Last(u) = {} THEN {"placed"} ELSE Last(u))}

\* The tabs created: lazy placeholders, but for the one a new window opens with.
Opened(j, done) ==
    {T \in SUBSET {t \in Tab : t.browser = j.browser /\ t.by = j.run} :
        /\ \A u \in Url :
              /\ Cardinality(WithUrl(T, u)) = Cardinality(WithUrl(done, u))
              /\ \A t \in WithUrl(T, u) :
                    \A o \in WithUrl(TabsOf(tabs, j.browser), u) : o.id # t.id
        /\ \A s, t \in T : s.url = t.url /\ s.id = t.id => s = t
        /\ Cardinality({t \in T : ~t.lazy}) =
              IF T # {} /\ Urls(TabsOf(tabs, j.browser)) \cap Urls(j.want) = {} THEN 1 ELSE 0}

\* After the settling time the missing tabs are created; each may fail.
ApplyRestore(j) ==
    /\ ~j.done
    /\ \E missing \in MissingSets(j.want, j.browser) : \E failed \in SUBSET missing :
       \E T \in Opened(j, missing \ failed), f \in Outcomes(j.want, missing, failed) :
          /\ tabs' = tabs \cup T
          /\ made' = made \cup {<<t.by, t.url>> : t \in T}
          /\ jobs' = (jobs \ {j}) \cup {[j EXCEPT !.done = TRUE, !.items = f]}
    /\ UNCHANGED <<apps, store, agentVars, up, leaving, owed, bounds>>

\* restore_result; without a connection it is lost, and the run stays open.
Reply(j) ==
    /\ j.done
    /\ jobs' = jobs \ {j}
    /\ runs' = IF j.browser \in up
               THEN [runs EXCEPT ![j.run].finished = TRUE, ![j.run].items =
                        [u \in Url |-> IF j.items[u] = "none" THEN @[u] ELSE j.items[u]]]
               ELSE runs
    /\ UNCHANGED <<apps, tabs, live, snaps, agentVars, up, leaving, history, bounds>>

\* The native port breaks, or the worker is evicted in the middle of a restore.
Disconnect(b) ==
    /\ b \in up
    /\ Counted
    /\ up' = up \ {b}
    /\ jobs' \in {jobs, {j \in jobs : j.browser # b}}
    /\ UNCHANGED <<apps, tabs, store, agentVars, leaving, history, clock>>

-----------------------------------------------------------------------------
(* The review is answered, and a thread carries the answer out.            *)

\* What the review is about: the pending snapshot, else the newest candidate.
ReviewedSnapshot ==
    IF pending # NONE THEN {pending}
    ELSE {i \in DOMAIN snaps : /\ snaps[i].kind = "shutdown"
                               /\ \A j \in DOMAIN snaps : snaps[j].kind = "shutdown" => j <= i}

\* The selection is recorded; connected browsers wait for what it decided.
\* The tray asks again at any time, whatever the mode.
Answer ==
    /\ agent = "up"
    /\ chosen = NONE
    /\ \/ review = "open" /\ UNCHANGED events
       \/ review # "open" /\ Counted
    /\ ReviewedSnapshot # {}
    /\ \/ /\ review' = "declined"
          /\ UNCHANGED chosen
       \/ \E s \in ReviewedSnapshot : \E A \in SUBSET Running(snaps[s].apps) :
             /\ review' = "answered"
             /\ chosen' = [phase |-> "offer", snap |-> s, apps |-> A, waiting |-> up,
                           run |-> NONE]
    /\ UNCHANGED <<apps, tabs, store, agent, pending, claimed, up, jobs, 
                   leaving, history, clock>>

\* offer_to_connected, one browser at a time.
OfferConnected(b) ==
    /\ chosen # NONE
    /\ b \in chosen.waiting
    /\ chosen' = [chosen EXCEPT !.waiting = @ \ {b}]
    /\ IF b \in up THEN OfferTo(b) ELSE UNCHANGED <<claimed, snaps, runs, jobs>>
    /\ UNCHANGED <<apps, tabs, live, agent, pending, review, up, leaving, history, bounds>>

\* Under one database lock: capture, then open the run.
ThreadBegin ==
    /\ chosen # NONE
    /\ chosen.phase = "offer"
    /\ chosen.waiting = {}
    /\ Captured
    /\ BeginRun(chosen.snap, live', NoItems, FALSE)
    /\ chosen' = IF chosen.apps = {} THEN NONE
                 ELSE [chosen EXCEPT !.phase = "launch", !.run = Len(runs) + 1]
    /\ UNCHANGED <<apps, tabs, agent, pending, review, claimed, up, jobs, 
                   leaving, history, bounds>>

\* The applications start, without the lock, and the run is closed.
ThreadLaunch ==
    /\ chosen # NONE
    /\ chosen.phase = "launch"
    /\ \E started \in SUBSET chosen.apps : apps' = Launched(started, chosen.run)
    /\ runs' = [runs EXCEPT ![chosen.run].finished = TRUE]
    /\ chosen' = NONE
    /\ UNCHANGED <<tabs, live, snaps, agent, pending, review, claimed, up, jobs, leaving,
                   history, bounds>>

-----------------------------------------------------------------------------
(* Undo.                                                                   *)

\* Puts back the applications of the newest run's undo point; closes nothing.
UndoWindows ==
    /\ agent = "up"
    /\ runs # <<>>
    /\ runs[Len(runs)].undo # NONE
    /\ LET point == snaps[runs[Len(runs)].undo] IN
          /\ point.kind # "deleted"
          /\ \E started \in SUBSET Running(point.apps) : apps' = Launched(started, 0)
    /\ apps' # apps
    /\ UNCHANGED <<tabs, store, agentVars, up, jobs, leaving, history, bounds>>

\* closeRestoredTabs: every tab of the browser that shows one of the urls.
Matching(b, urls) == {t \in TabsOf(tabs, b) : t.url \in urls /\ ~t.lazy}

\* The tabs a run is recorded to have opened.
Launches(n) == {u \in Url : runs[n].items[u] = "launched"}

\* The undo window lists the tabs of the run that was the newest when it was
\* drawn; the run and the browser are looked up again when the user chooses,
\* and the browser is any that the run's snapshot holds a window of.  One tab
\* closed settles every tab of the run, unless the result is lost.
CloseTabs ==
    LET n == Len(runs) IN
    /\ agent = "up"
    /\ runs # <<>>
    /\ snaps[runs[n].snap].kind # "deleted"
    /\ \E i \in DOMAIN runs, t \in snaps[runs[n].snap].tabs :
       \E U \in SUBSET Launches(i) \ {{}} :
          /\ t.browser \in up
          /\ Matching(t.browser, U) # {}
          /\ tabs' = tabs \ Matching(t.browser, U)
    /\ runs' \in {runs, [runs EXCEPT ![n].items =
                    [u \in Url |-> IF @[u] = "launched" THEN "skipped" ELSE @[u]]]}
    /\ UNCHANGED <<apps, live, snaps, agentVars, up, jobs, leaving, history, bounds>>

-----------------------------------------------------------------------------
(* Capture, the user, and the ends of an agent run.                        *)

\* The periodic pass, or the one a window event asks for.
Capture ==
    /\ agent = "up"
    /\ live' = [live EXCEPT !.apps = apps]
    /\ live' # live
    /\ UNCHANGED <<apps, tabs, snaps, runs, agentVars, up, jobs, leaving, history, bounds>>

UserActs == leaving = NONE /\ Counted

UserApp(a) ==
    /\ UserActs
    /\ apps' = [apps EXCEPT ![a] = IF @ = NONE THEN 0 ELSE NONE]
    /\ UNCHANGED <<tabs, store, agentVars, up, jobs, leaving, history, clock>>

UserOpensTab(b, u) ==
    /\ UserActs
    /\ \E t \in Tab :
          /\ t.browser = b /\ t.url = u /\ t.by = 0 /\ ~t.lazy
          /\ \A o \in WithUrl(TabsOf(tabs, b), u) : o.id # t.id
          /\ tabs' = tabs \cup {t}
    /\ UNCHANGED <<apps, store, agentVars, up, jobs, leaving, history, clock>>

UserClosesTab(t) ==
    /\ UserActs
    /\ tabs' = tabs \ {t}
    /\ UNCHANGED <<apps, store, agentVars, up, jobs, leaving, history, clock>>

\* The placeholder goes to the page it stands for.
Activate(t) ==
    /\ UserActs
    /\ t.lazy
    /\ tabs' = (tabs \ {t}) \cup {[t EXCEPT !.lazy = FALSE]}
    /\ UNCHANGED <<apps, store, agentVars, up, jobs, leaving, history, clock>>

Tick ==
    /\ clock < MaxTime
    /\ runs # <<>>
    /\ clock' = clock + 1
    /\ UNCHANGED <<apps, tabs, store, agentVars, up, jobs, leaving, history, events>>

\* flush_now, when it ends within its budget: capture, then copy.
Flush ==
    /\ Captured
    /\ snaps' = CreateFromLive("shutdown", live')

\* WM_QUERYENDSESSION: a flush, or nothing when the budget runs out first.
QueryEnd ==
    /\ leaving = NONE
    /\ agent = "up"
    /\ events < MaxEvents
    /\ \/ Flush /\ leaving' = Running(live'.apps)
       \/ UNCHANGED <<live, snaps>> /\ leaving' = {}
    /\ UNCHANGED <<apps, tabs, runs, agentVars, up, jobs, history, bounds>>

\* An application leaves the session that ends.
AppExits(a) ==
    /\ leaving # NONE
    /\ apps[a] # NONE
    /\ apps' = [apps EXCEPT ![a] = NONE]
    /\ UNCHANGED <<tabs, store, agentVars, up, jobs, leaving, history, bounds>>

AgentGone ==
    /\ agent' = "down"
    /\ pending' = NONE
    /\ review' = "none"
    /\ claimed' = {}
    /\ chosen' = NONE
    /\ up' = {}

PowerGone ==
    /\ apps' = Nothing.apps
    /\ tabs' = {}
    /\ jobs' = {}
    /\ leaving' = NONE

\* WM_ENDSESSION flushes once more, perhaps cut short in the middle of the copy;
\* then the machine is off.
EndSession ==
    /\ leaving # NONE
    /\ agent = "up"
    /\ \/ Flush
       \/ Captured /\ snaps' \in {snaps, PartialCopy(live')}
    /\ AgentGone
    /\ PowerGone
    /\ owed' = leaving
    /\ UNCHANGED <<runs, made, bounds>>

\* The agent dies alone, to be started again later; or the power is cut.
Crash ==
    /\ agent # "down"
    /\ events < MaxEvents
    /\ AgentGone
    /\ \/ leaving = NONE /\ UNCHANGED <<apps, tabs, jobs, leaving>>
       \/ PowerGone
    /\ owed' = NONE
    /\ UNCHANGED <<store, made, bounds>>

Next ==
    \/ StartCopy \/ StartDone \/ AutoApps
    \/ \E b \in Browser : Connect(b) \/ Report(b) \/ Disconnect(b) \/ OfferConnected(b)
    \/ \E j \in jobs : ApplyRestore(j) \/ Reply(j)
    \/ Answer \/ ThreadBegin \/ ThreadLaunch
    \/ UndoWindows \/ CloseTabs
    \/ Capture \/ Tick
    \/ \E a \in App : UserApp(a) \/ AppExits(a)
    \/ \E b \in Browser, u \in Url : UserOpensTab(b, u)
    \/ \E t \in tabs : UserClosesTab(t) \/ Activate(t)
    \/ QueryEnd \/ EndSession \/ Crash

Spec == Init /\ [][Next]_vars

-----------------------------------------------------------------------------
(* Properties.                                                             *)

TypeOK ==
    /\ apps \in [App -> Opener \cup {NONE}]
    /\ tabs \subseteq Tab
    /\ live \in Content
    /\ \A i \in DOMAIN snaps :
          /\ snaps[i].kind \in {"shutdown", "pre_restore", "deleted"}
          /\ [apps |-> snaps[i].apps, tabs |-> snaps[i].tabs] \in Content
    /\ \A i \in DOMAIN runs :
          /\ runs[i].snap \in DOMAIN snaps
          /\ runs[i].undo \in DOMAIN snaps \cup {NONE}
          /\ runs[i].items \in [Url -> Status]
    /\ pending \in DOMAIN snaps \cup {NONE}
    /\ \A j \in jobs : j.run \in DOMAIN runs

\* The undo point of a run holds nothing that its episode opened: not what the
\* run itself opened, nor what any earlier run of the same snapshot did that
\* had an undo point and began no longer ago than an episode lasts.
UndoPredatesEpisode ==
    \A i, j \in DOMAIN runs :
        LET u == runs[j].undo IN
        (/\ u # NONE
         /\ \/ i = j
            \/ /\ i < j
               /\ runs[i].snap = runs[j].snap
               /\ runs[i].undo # NONE
               /\ runs[i].started >= runs[j].started - Episode)
        => /\ \A a \in App : snaps[u].apps[a] # i
           /\ \A t \in snaps[u].tabs : t.by # i

\* A url recorded as launched, and so listed for closing, was opened by that
\* run, whatever was open before and however its results were lost or repeated.
LaunchedWasOpened ==
    \A i \in DOMAIN runs : \A u \in Url :
        runs[i].items[u] = "launched" => <<i, u>> \in made

\* A finished run accounts for every tab of its offer.
FinishedIsSettled ==
    \A i \in DOMAIN runs :
        runs[i].finished => \A u \in Url : runs[i].items[u] # "pending"

\* No run restores a copy that a crash or the end of the session cut short,
\* and the session the agent owes is never pruned or partial.
RestoresWholeSnapshots ==
    /\ agent = "up" /\ pending # NONE => snaps[pending].kind # "deleted"
    /\ \A i \in DOMAIN runs : snaps[runs[i].snap].whole

\* shutdown.rs calls the flush pure upside: it turns up to a minute stale into
\* current for an orderly shutdown.  What it saved is what the next start owes.
ShutdownIsCurrent ==
    agent = "up" /\ owed # NONE /\ pending # NONE =>
        owed \subseteq Running(snaps[pending].apps)

=============================================================================
