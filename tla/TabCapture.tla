----------------------------- MODULE TabCapture -----------------------------
(***************************************************************************)
(* How browser tabs become rows of the live session: the extension's       *)
(* collector, outbox, reconcile alarm and native port                      *)
(* (extension/src/background), and the agent's apply_state                 *)
(* (agent/crates/sr-agent/src/server.rs, ingest.rs).                       *)
(*                                                                         *)
(* One extension instance runs in each browser profile.  Its service       *)
(* worker may be evicted between any two steps and loses everything but    *)
(* the outbox's mirror in storage.session.  Events that arrive before the  *)
(* worker has attached its listeners are lost.                             *)
(*                                                                         *)
(* A tab's content is one version; tab groups travel and are reaped like   *)
(* windows and are left out, and so are the private rules.  onMoved and    *)
(* onActivated only report a tab again.  A flush sends one message:        *)
(* splitBatches only cuts it by size.                                      *)
(***************************************************************************)
EXTENDS Naturals, Sequences, FiniteSets, SequencesExt

CONSTANTS
    Ext,         \* extension instances, each also its own profile key
    Browser,
    WindowId,
    TabId,
    Version,     \* what a tab may show
    Shown,       \* the one version of a window
    Removed,     \* the delta of a tab or window that went away
    RelayKey,    \* the profile key the relay derives from the browser process
    NoKey,       \* a connection that has not named its profile yet
    AtStart,     \* the sets of tabs a browser may start with
    MaxPending,  \* MAX_PENDING_BEFORE_FLUSH
    MaxChanges,  \* bound on what the user does
    MaxSleeps,   \* bound on evictions
    MaxDrops,    \* bound on broken pipes
    MaxPipe,     \* bound on what a reconcile adds to a pipe
    browserOf,   \* [Ext -> Browser]
    idsOf,       \* [Ext -> SUBSET WindowId]: the window ids its browser hands out
    contentOf    \* [Ext -> SUBSET Version]: what its tabs may show

TabKey == WindowId \X TabId
Entry == TabKey \cup WindowId
Delta == Version \cup {Shown, Removed}
Key == Ext \cup {RelayKey}

ASSUME CaptureAssumption ==
    /\ NoKey \notin Key /\ RelayKey \notin Ext
    /\ Removed \notin Version /\ Shown \notin Version /\ Removed # Shown
    /\ "attached" \notin Version \cup {Shown, Removed}
    /\ WindowId \cap TabKey = {} /\ WindowId \cap TabId = {}
    /\ IsFiniteSet(WindowId) /\ IsFiniteSet(TabId)
    /\ MaxPending \in Nat \ {0}
    /\ MaxChanges \in Nat /\ MaxSleeps \in Nat /\ MaxDrops \in Nat /\ MaxPipe \in Nat \ {0}
    /\ browserOf \in [Ext -> Browser]
    /\ idsOf \in [Ext -> (SUBSET WindowId) \ {{}}]
    /\ contentOf \in [Ext -> (SUBSET Version) \ {{}}]
    /\ AtStart \subseteq SUBSET TabKey
    /\ \A K \in AtStart : \A j, k \in K : j[2] = k[2] => j = k  \* a tab is in one window

\* Two profiles do not share a window id: one browser process hands them out.
ASSUME IdsAssumption == \A x, y \in Ext : x # y => idsOf[x] \cap idsOf[y] = {}

VARIABLES
    (* the browser *)
    open,      \* [Ext -> partial function TabKey -> Version]
    gone,      \* ids of closed windows and tabs, never handed out again
    (* the service worker *)
    stage,     \* "asleep", "boot" (nothing attached yet) or "up"
    events,    \* what the browser has fired and no listener has run for
    pending,   \* the outbox: partial function Entry -> Delta
    timer,     \* the debounce timer is running
    flushing,  \* "no"; "sent" or "kept": a flush waits for its last persist
    lookups,   \* tabs whose tabs.get has not been answered
    recon,     \* what a reconcile has read and not sent: at most one body
    hello,     \* a sayHello is on its way
    port,      \* "none", "up" or "backoff"
    (* storage.session *)
    mirror,
    (* the pipes: one in use, one still draining *)
    chan, ckey,
    old, okey,
    (* the agent's live rows *)
    wins,      \* partial function WindowId -> [browser, key]
    tabs,      \* partial function TabKey -> Version
    (* bounds *)
    changes, sleeps, drops,
    (* observation only *)
    unsent,    \* latest deltas heard and not posted
    overtaken, \* the running reconcile read before attach, or deltas were posted since
    trusted    \* the last reconcile stored was not overtaken, and nothing was lost since

workerVars == <<stage, events, pending, timer, flushing, lookups, recon, hello, port>>
outboxVars == <<pending, timer, flushing, hello, port, mirror, chan, unsent, overtaken>>
pipeVars == <<chan, ckey, old, okey>>
storeVars == <<wins, tabs>>
boundVars == <<changes, sleeps, drops>>
obsVars == <<unsent, overtaken, trusted>>
browserVars == <<open, gone>>
vars == <<browserVars, workerVars, mirror, pipeVars, storeVars, boundVars, obsVars>>

-----------------------------------------------------------------------------
(* Partial functions.                                                      *)

Empty == [e \in {} |-> Removed]

\* {...older, ...newer}
Merge(newer, older) ==
    [e \in DOMAIN newer \cup DOMAIN older |-> IF e \in DOMAIN newer THEN newer[e] ELSE older[e]]

Without(f, S) == [e \in DOMAIN f \ S |-> f[e]]

Windows(o) == {k[1] : k \in DOMAIN o}
Tabs(o) == {k[2] : k \in DOMAIN o}

\* Everything open, as upserts: the body of a full_state.
Body(o) == [e \in DOMAIN o \cup Windows(o) |-> IF e \in DOMAIN o THEN o[e] ELSE Shown]

Init ==
    /\ open \in [Ext -> UNION {[K -> Version] : K \in AtStart}]
    /\ \A x \in Ext : \A k \in DOMAIN open[x] : k[1] \in idsOf[x] /\ open[x][k] \in contentOf[x]
    /\ gone = [x \in Ext |-> {}]
    /\ stage = [x \in Ext |-> "asleep"]
    /\ pending = [x \in Ext |-> Empty]
    /\ timer = [x \in Ext |-> FALSE]
    /\ flushing = [x \in Ext |-> "no"]
    /\ events = [x \in Ext |-> <<>>]
    /\ lookups = [x \in Ext |-> {}]
    /\ recon = [x \in Ext |-> <<>>]
    /\ hello = [x \in Ext |-> FALSE]
    /\ port = [x \in Ext |-> "none"]
    /\ mirror = [x \in Ext |-> Empty]
    /\ chan = [x \in Ext |-> <<>>]
    /\ ckey = [x \in Ext |-> NoKey]
    /\ old = [x \in Ext |-> <<>>]
    /\ okey = [x \in Ext |-> NoKey]
    /\ wins = [w \in {} |-> NoKey]
    /\ tabs = Empty
    /\ changes = 0 /\ sleeps = 0 /\ drops = 0
    /\ unsent = [x \in Ext |-> Empty]
    /\ overtaken = [x \in Ext |-> FALSE]
    /\ trusted = [x \in Ext |-> FALSE]

-----------------------------------------------------------------------------
(* The native port.                                                        *)

Hello == [type |-> "hello", body |-> Empty, fresh |-> FALSE]
TabDelta(b) == [type |-> "tab_delta", body |-> b, fresh |-> FALSE]
FullState(b, fresh) == [type |-> "full_state", body |-> b, fresh |-> fresh]

\* send throws exactly while a reconnect is scheduled.
CanSend(x) == port[x] # "backoff"

\* Posting connects first if need be, and connecting owes a hello.  (The two
\* hellos of a hello that connects count as one.)
Post(x, m) ==
    /\ chan' = [chan EXCEPT ![x] = Append(@, m)]
    /\ hello' = [hello EXCEPT ![x] = m # Hello /\ (@ \/ port[x] = "none")]
    /\ port' = [port EXCEPT ![x] = "up"]

-----------------------------------------------------------------------------
(* The outbox.                                                             *)

\* flush, from a pending set p: posted, or put back to be tried again.  The
\* last persist is asked for at once and answered in FlushDone.
Flush(x, p) ==
    /\ timer' = [timer EXCEPT ![x] = FALSE]
    /\ IF CanSend(x)
       THEN /\ Post(x, TabDelta(p))
            /\ flushing' = [flushing EXCEPT ![x] = "sent"]
            /\ pending' = [pending EXCEPT ![x] = Empty]
            /\ mirror' = [mirror EXCEPT ![x] = Empty]
            /\ unsent' = [unsent EXCEPT ![x] = Empty]
            /\ overtaken' = [overtaken EXCEPT ![x] = TRUE]
       ELSE /\ flushing' = [flushing EXCEPT ![x] = "kept"]
            /\ pending' = [pending EXCEPT ![x] = p]
            /\ mirror' = [mirror EXCEPT ![x] = p]
            /\ unsent' = [unsent EXCEPT ![x] = p]
            /\ UNCHANGED <<chan, hello, port, overtaken>>

\* Mutants of Touch: persisted only by a flush; the older delta wins.
TouchUnsaved(x, e, d) ==
    LET p == Merge([i \in {e} |-> d], pending[x])
        full == Cardinality(DOMAIN p) >= MaxPending
    IN  IF full /\ flushing[x] = "no"
        THEN Flush(x, p)
        ELSE /\ pending' = [pending EXCEPT ![x] = p]
             /\ unsent' = [unsent EXCEPT ![x] = Merge([i \in {e} |-> d], @)]
             /\ timer' = [timer EXCEPT ![x] = @ \/ ~full]
             /\ UNCHANGED <<mirror, flushing, chan, hello, port, overtaken>>

TouchKeepsFirst(x, e, d) ==
    LET p == Merge(pending[x], [i \in {e} |-> d])
        full == Cardinality(DOMAIN p) >= MaxPending
    IN  IF full /\ flushing[x] = "no"
        THEN Flush(x, p)
        ELSE /\ pending' = [pending EXCEPT ![x] = p]
             /\ mirror' = [mirror EXCEPT ![x] = p]
             /\ unsent' = [unsent EXCEPT ![x] = p]
             /\ timer' = [timer EXCEPT ![x] = @ \/ ~full]
             /\ UNCHANGED <<flushing, chan, hello, port, overtaken>>

\* touch, after one delta: persist, then flush if full, else (re)start the timer.
Touch(x, e, d) ==
    LET p == Merge([i \in {e} |-> d], pending[x])
        full == Cardinality(DOMAIN p) >= MaxPending
    IN  IF full /\ flushing[x] = "no"
        THEN Flush(x, p)
        ELSE /\ pending' = [pending EXCEPT ![x] = p]
             /\ mirror' = [mirror EXCEPT ![x] = p]
             /\ unsent' = [unsent EXCEPT ![x] = Merge([i \in {e} |-> d], @)]
             /\ timer' = [timer EXCEPT ![x] = @ \/ ~full]
             /\ UNCHANGED <<flushing, chan, hello, port, overtaken>>

\* Every delta restarts the two seconds, so none ends within a burst of events.
FlushTimer(x) ==
    /\ timer[x]
    /\ events[x] = <<>>
    /\ IF flushing[x] # "no" \/ pending[x] = Empty
       THEN /\ timer' = [timer EXCEPT ![x] = FALSE]
            /\ UNCHANGED <<pending, flushing, hello, port, mirror, chan, unsent, overtaken>>
       ELSE Flush(x, pending[x])
    /\ UNCHANGED <<browserVars, stage, events, lookups, recon, ckey, old, okey, storeVars, boundVars, trusted>>

FlushDone(x) ==
    /\ flushing[x] # "no"
    /\ flushing' = [flushing EXCEPT ![x] = "no"]
    /\ timer' = [timer EXCEPT ![x] = @ \/ flushing[x] = "kept"]
    /\ UNCHANGED <<browserVars, stage, events, pending, lookups, recon, hello, port, mirror, pipeVars,
                   storeVars, boundVars, obsVars>>

-----------------------------------------------------------------------------
(* The user, and the events the browser fires.                             *)

\* The browser shows n.
NowOpen(x, n) ==
    /\ changes < MaxChanges
    /\ changes' = changes + 1
    /\ open' = [open EXCEPT ![x] = n]
    /\ gone' = [gone EXCEPT ![x] = @ \cup (Windows(open[x]) \ Windows(n)) \cup (Tabs(open[x]) \ Tabs(n))]

\* The browser now shows n and fires `fired`; an unattached worker misses it.
Change(x, n, fired) ==
    /\ events[x] = <<>>
    /\ NowOpen(x, n)
    /\ events' = [events EXCEPT ![x] = IF stage[x] = "up" THEN fired ELSE <<>>]
    /\ UNCHANGED <<stage, lookups, recon, ckey, old, okey, storeVars, sleeps, drops, trusted, outboxVars>>

\* windows.onCreated and onRemoved, where a change makes or ends a window.
Created(x, w) == IF w \in Windows(open[x]) THEN <<>> ELSE <<[on |-> w, says |-> Shown]>>
Closed(n, w) == IF w \in Windows(n) THEN <<>> ELSE <<[on |-> w, says |-> Removed]>>

OpenTab(x) ==
    \E w \in idsOf[x] \ gone[x], t \in TabId \ (gone[x] \cup Tabs(open[x])), v \in contentOf[x] :
        Change(x, Merge([k \in {<<w, t>>} |-> v], open[x]),
               Append(Created(x, w), [on |-> <<w, t>>, says |-> v]))

Navigate(x) ==
    \E k \in DOMAIN open[x] : \E v \in contentOf[x] \ {open[x][k]} :
        Change(x, [open[x] EXCEPT ![k] = v], <<[on |-> k, says |-> v]>>)

\* A window closes with its last tab, or with all of them at once.
CloseTabs(x) ==
    \E w \in Windows(open[x]) :
        LET its == {k \in DOMAIN open[x] : k[1] = w} IN
        \E S \in {{k} : k \in its} \cup {its} :
            LET n == Without(open[x], S) IN
            Change(x, n, SetToSeq({[on |-> k, says |-> Removed] : k \in S}) \o Closed(n, w))

\* onDetached removes the old key, then onAttached removes the new one and
\* looks the tab up.
MoveTab(x) ==
    \E k \in DOMAIN open[x] : \E w \in idsOf[x] \ (gone[x] \cup {k[1]}) :
        LET n == Merge([e \in {<<w, k[2]>>} |-> open[x][k]], Without(open[x], {k})) IN
        Change(x, n, Created(x, w)
                     \o <<[on |-> k, says |-> Removed], [on |-> <<w, k[2]>>, says |-> "attached"]>>
                     \o Closed(n, k[1]))

\* One listener runs.
Hear(x) ==
    /\ events[x] # <<>>
    /\ LET e == Head(events[x]) IN
          /\ Touch(x, e.on, IF e.says = "attached" THEN Removed ELSE e.says)
          /\ lookups' = [lookups EXCEPT ![x] =
                            IF e.says = "attached" THEN @ \cup {e.on[2]} ELSE @]
    /\ events' = [events EXCEPT ![x] = Tail(@)]
    /\ UNCHANGED <<browserVars, stage, recon, ckey, old, okey, storeVars, boundVars, trusted>>

\* The answer to a tabs.get, in order with the events: the tab where it now is.
Lookup(x) ==
    /\ events[x] = <<>>
    /\ \E t \in lookups[x] :
          /\ lookups' = [lookups EXCEPT ![x] = @ \ {t}]
          /\ \/ \E k \in DOMAIN open[x] : k[2] = t /\ Touch(x, k, open[x][k])
             \/ /\ t \notin Tabs(open[x])
                /\ UNCHANGED outboxVars
    /\ UNCHANGED <<browserVars, stage, events, recon, ckey, old, okey, storeVars, boundVars, trusted>>

-----------------------------------------------------------------------------
(* The worker's life.                                                      *)

Wake(x) ==
    /\ stage[x] = "asleep"
    /\ stage' = [stage EXCEPT ![x] = "boot"]
    /\ UNCHANGED <<browserVars, events, pending, timer, flushing, lookups, recon, hello, port, mirror,
                   pipeVars, storeVars, boundVars, obsVars>>

\* hydrate, then attach and say hello.
Boot(x) ==
    /\ stage[x] = "boot"
    /\ stage' = [stage EXCEPT ![x] = "up"]
    /\ hello' = [hello EXCEPT ![x] = TRUE]
    /\ LET p == Merge(pending[x], mirror[x]) IN
          /\ pending' = [pending EXCEPT ![x] = p]
          /\ timer' = [timer EXCEPT ![x] = p # Empty]
    /\ UNCHANGED <<browserVars, events, flushing, lookups, recon, port, mirror, pipeVars, storeVars,
                   boundVars, obsVars>>

\* Everything in memory goes; what was posted may still drain to the agent.
StopWorker(x) ==
    /\ stage[x] # "asleep"
    /\ events[x] = <<>>
    /\ old[x] = <<>>
    /\ sleeps < MaxSleeps
    /\ sleeps' = sleeps + 1
    /\ stage' = [stage EXCEPT ![x] = "asleep"]
    /\ pending' = [pending EXCEPT ![x] = Empty]
    /\ timer' = [timer EXCEPT ![x] = FALSE]
    /\ flushing' = [flushing EXCEPT ![x] = "no"]
    /\ lookups' = [lookups EXCEPT ![x] = {}]
    /\ recon' = [recon EXCEPT ![x] = <<>>]
    /\ hello' = [hello EXCEPT ![x] = FALSE]
    /\ port' = [port EXCEPT ![x] = "none"]
    /\ old' = [old EXCEPT ![x] = chan[x]]
    /\ okey' = [okey EXCEPT ![x] = ckey[x]]
    /\ chan' = [chan EXCEPT ![x] = <<>>]
    /\ ckey' = [ckey EXCEPT ![x] = NoKey]
    /\ trusted' = [trusted EXCEPT ![x] = FALSE]
    /\ UNCHANGED <<events, storeVars, drops, overtaken>>

Evict(x) == StopWorker(x) /\ UNCHANGED <<browserVars, mirror, changes, unsent>>

\* The browser exits: storage.session goes too, and nothing is reported.
Quit(x) ==
    /\ StopWorker(x)
    /\ NowOpen(x, Empty)
    /\ mirror' = [mirror EXCEPT ![x] = Empty]
    /\ unsent' = [unsent EXCEPT ![x] = Empty]

\* sayHello: after boot's attach, and whenever the port has connected.
SayHello(x) ==
    /\ hello[x]
    /\ IF CanSend(x)
       THEN Post(x, Hello)
       ELSE hello' = [hello EXCEPT ![x] = FALSE] /\ UNCHANGED <<chan, port>>
    /\ UNCHANGED <<browserVars, stage, events, pending, timer, flushing, lookups, recon, mirror, ckey, old,
                   okey, storeVars, boundVars, obsVars>>

\* The alarm (its listener is attached at once) and boot both reconcile: read
\* what is open, in order with the events, then send it.
ReconcileRead(x) ==
    /\ stage[x] # "asleep"
    /\ events[x] = <<>>
    /\ recon[x] = <<>>
    /\ Len(chan[x]) < MaxPipe
    /\ recon' = [recon EXCEPT ![x] = <<Body(open[x])>>]
    /\ overtaken' = [overtaken EXCEPT ![x] = stage[x] # "up"]
    /\ UNCHANGED <<browserVars, stage, events, pending, timer, flushing, lookups, hello, port, mirror,
                   pipeVars, storeVars, boundVars, unsent, trusted>>

ReconcileSend(x) ==
    /\ recon[x] # <<>>
    /\ recon' = [recon EXCEPT ![x] = <<>>]
    /\ IF CanSend(x)
       THEN Post(x, FullState(recon[x][1], ~overtaken[x]))
       ELSE UNCHANGED <<chan, hello, port>>
    /\ UNCHANGED <<browserVars, stage, events, pending, timer, flushing, lookups, mirror, ckey, old, okey,
                   storeVars, boundVars, obsVars>>

\* The relay or the agent goes away: what was posted and not applied is lost.
Disconnect(x) ==
    /\ port[x] = "up"
    /\ drops < MaxDrops
    /\ drops' = drops + 1
    /\ port' = [port EXCEPT ![x] = "backoff"]
    /\ chan' = [chan EXCEPT ![x] = <<>>]
    /\ ckey' = [ckey EXCEPT ![x] = NoKey]
    /\ trusted' = [trusted EXCEPT ![x] = FALSE]
    /\ UNCHANGED <<browserVars, stage, events, pending, timer, flushing, lookups, recon, hello, mirror, old,
                   okey, storeVars, changes, sleeps, unsent, overtaken>>

\* scheduleReconnect's timer.
Reconnect(x) ==
    /\ port[x] = "backoff"
    /\ port' = [port EXCEPT ![x] = "up"]
    /\ hello' = [hello EXCEPT ![x] = TRUE]
    /\ UNCHANGED <<browserVars, stage, events, pending, timer, flushing, lookups, recon, mirror, pipeVars,
                   storeVars, boundVars, obsVars>>

-----------------------------------------------------------------------------
(* The agent: apply_state, one message under the database lock.            *)

\* Mutant of WindowRows: an upsert that finds a row leaves its key.
WindowRowsKeepKey(x, key, b) ==
    LET told == {w \in DOMAIN b \cap WindowId : b[w] # Removed}
        lost == {w \in DOMAIN b \cap WindowId : b[w] = Removed}
    IN  [w \in (DOMAIN wins \cup told) \ lost |->
            IF w \in DOMAIN wins THEN wins[w] ELSE [browser |-> browserOf[x], key |-> key]]

\* Window deltas.  An upsert that finds a row corrects its key, not its browser.
WindowRows(x, key, b) ==
    LET told == {w \in DOMAIN b \cap WindowId : b[w] # Removed}
        lost == {w \in DOMAIN b \cap WindowId : b[w] = Removed}
    IN  [w \in (DOMAIN wins \cup told) \ lost |->
            [browser |-> IF w \in DOMAIN wins THEN wins[w].browser ELSE browserOf[x],
             key |-> IF w \in told THEN key ELSE wins[w].key]]

\* Tab deltas (ingest_tab).
TabRows(b) ==
    LET told == DOMAIN b \cap TabKey IN
    Without(Merge([k \in told |-> b[k]], tabs), {k \in told : b[k] = Removed})

\* Mutants of Reaped: not scoped by profile; windows are never reaped.
ReapedByBrowser(x, key, b, W, T) ==
    LET owned == {w \in DOMAIN W : W[w].browser = browserOf[x]} IN
    [wins |-> owned \ DOMAIN b,
     tabs |-> {k \in DOMAIN T : k[1] \in owned /\ k \notin DOMAIN b}]

ReapedInWindows(x, key, b, W, T) ==
    [wins |-> {}, tabs |-> {k \in DOMAIN T : k[1] \in DOMAIN b /\ k \notin DOMAIN b}]

\* reap_missing_for_browser: what this browser and profile own and did not name.
Reaped(x, key, b, W, T) ==
    LET owned == {w \in DOMAIN W : W[w] = [browser |-> browserOf[x], key |-> key]} IN
    [wins |-> owned \ DOMAIN b,
     tabs |-> {k \in DOMAIN T : k[1] \in owned /\ k \notin DOMAIN b}]

\* One message m of x, on a connection known by `key`.
Apply(x, key, m) ==
    LET W == WindowRows(x, key, m.body)
        T == TabRows(m.body)
        dead == Reaped(x, key, m.body, W, T)
    IN  /\ wins' = IF m.type = "full_state" THEN Without(W, dead.wins) ELSE W
        /\ tabs' = IF m.type = "full_state" THEN Without(T, dead.tabs) ELSE T

\* Mutants of KeyAfter: a connection that has not said hello has no profile;
\* every profile of a browser reports the same id.
KeyAfterHelloOnly(x, known, m) == IF m.type = "hello" THEN x ELSE known

KeyAfterOneId(x, known, m) ==
    IF m.type = "hello" THEN CHOOSE y \in Ext : browserOf[y] = browserOf[x]
    ELSE IF known = NoKey THEN RelayKey ELSE known

\* The profile a connection is known by once m has been read.
KeyAfter(x, known, m) ==
    IF m.type = "hello" THEN x ELSE IF known = NoKey THEN RelayKey ELSE known

Receive(x, known, m) ==
    IF m.type = "hello" THEN UNCHANGED storeVars ELSE Apply(x, KeyAfter(x, known, m), m)

Deliver(x) ==
    /\ chan[x] # <<>>
    /\ LET m == Head(chan[x]) IN
          /\ Receive(x, ckey[x], m)
          /\ chan' = [chan EXCEPT ![x] = Tail(@)]
          /\ ckey' = [ckey EXCEPT ![x] = KeyAfter(x, @, m)]
          /\ trusted' = [trusted EXCEPT ![x] =
                            IF m.type = "full_state" THEN m.fresh /\ ckey[x] = x ELSE @]
    /\ UNCHANGED <<browserVars, workerVars, mirror, old, okey, boundVars, unsent, overtaken>>

\* The same, on the pipe of the worker that stopped.
DeliverOld(x) ==
    /\ old[x] # <<>>
    /\ LET m == Head(old[x]) IN
          /\ Receive(x, okey[x], m)
          /\ old' = [old EXCEPT ![x] = Tail(@)]
          /\ okey' = [okey EXCEPT ![x] = KeyAfter(x, @, m)]
    /\ trusted' = [trusted EXCEPT ![x] = FALSE]
    /\ UNCHANGED <<browserVars, workerVars, mirror, chan, ckey, boundVars, unsent, overtaken>>

-----------------------------------------------------------------------------
UserNext(x) == OpenTab(x) \/ Navigate(x) \/ CloseTabs(x) \/ MoveTab(x)

\* What happens by itself: alarms, timers, promises, and the agent's reads.
OwnStep(x) ==
    \/ Wake(x) \/ Boot(x) \/ Hear(x) \/ Lookup(x) \/ FlushTimer(x) \/ FlushDone(x)
    \/ SayHello(x) \/ ReconcileRead(x) \/ ReconcileSend(x) \/ Reconnect(x)
    \/ Deliver(x) \/ DeliverOld(x)

Next == \E x \in Ext : UserNext(x) \/ OwnStep(x) \/ Evict(x) \/ Quit(x) \/ Disconnect(x)

Spec == Init /\ [][Next]_vars

\* Fair: the browser wakes the worker for its alarm and settles its promises,
\* timers fire, and the agent reads every pipe.
FairSpec ==
    /\ Spec
    /\ \A x \in Ext :
          /\ WF_vars(Wake(x)) /\ WF_vars(Boot(x)) /\ WF_vars(Hear(x)) /\ WF_vars(Lookup(x))
          /\ WF_vars(FlushTimer(x)) /\ WF_vars(FlushDone(x)) /\ WF_vars(SayHello(x))
          /\ WF_vars(ReconcileRead(x)) /\ WF_vars(ReconcileSend(x)) /\ WF_vars(Reconnect(x))
          /\ WF_vars(Deliver(x)) /\ WF_vars(DeliverOld(x))

-----------------------------------------------------------------------------
(* Properties.                                                             *)

IsBody(b) == DOMAIN b \subseteq Entry /\ \A e \in DOMAIN b : b[e] \in Delta
IsPipe(c) == \A i \in 1..Len(c) : c[i].type \in {"hello", "tab_delta", "full_state"} /\ IsBody(c[i].body)

TypeOK ==
    /\ \A x \in Ext :
          /\ DOMAIN open[x] \subseteq TabKey /\ gone[x] \subseteq WindowId \cup TabId
          /\ \A k \in DOMAIN open[x] : open[x][k] \in Version
          /\ \A i \in 1..Len(events[x]) :
                events[x][i].on \in Entry /\ events[x][i].says \in Delta \cup {"attached"}
          /\ IsBody(pending[x]) /\ IsBody(mirror[x]) /\ IsBody(unsent[x])
          /\ lookups[x] \subseteq TabId
          /\ Len(recon[x]) <= 1 /\ \A i \in 1..Len(recon[x]) : IsBody(recon[x][i])
          /\ IsPipe(chan[x]) /\ IsPipe(old[x])
    /\ stage \in [Ext -> {"asleep", "boot", "up"}]
    /\ timer \in [Ext -> BOOLEAN] /\ hello \in [Ext -> BOOLEAN]
    /\ flushing \in [Ext -> {"no", "sent", "kept"}]
    /\ port \in [Ext -> {"none", "up", "backoff"}]
    /\ ckey \in [Ext -> Key \cup {NoKey}] /\ okey \in [Ext -> Key \cup {NoKey}]
    /\ wins \in UNION {[W -> [browser : Browser, key : Key]] : W \in SUBSET WindowId}
    /\ DOMAIN tabs \subseteq TabKey /\ \A k \in DOMAIN tabs : tabs[k] \in Version
    /\ changes \in 0..MaxChanges /\ sleeps \in 0..MaxSleeps /\ drops \in 0..MaxDrops
    /\ overtaken \in [Ext -> BOOLEAN] /\ trusted \in [Ext -> BOOLEAN]

\* What a restore would offer x: the tabs of the windows stored under its
\* browser and profile (restore::build_payload reads them by window).
View(x) ==
    [k \in {k \in DOMAIN tabs : /\ k[1] \in DOMAIN wins
                                /\ wins[k[1]] = [browser |-> browserOf[x], key |-> x]} |-> tabs[k]]

\* Crash recovery.  Whatever a listener has heard and the port has not taken
\* is in storage.session with its latest value, in every state in which the
\* worker can be evicted (outbox.ts touch and flush, index.ts persist).
UnsentSurvives == \A x \in Ext : mirror[x] = unsent[x]

\* Provenance.  What is stored for a profile is content of that profile:
\* deltas replayed from a mirror, drained from a dead worker's pipe or sent
\* before the hello never put a tab into another profile's session.
OwnTabsOnly == \A x \in Ext : \A k \in DOMAIN View(x) : View(x)[k] \in contentOf[x]

\* Isolation.  What is stored for a profile changes only while a message of
\* that profile is applied: no browser's reconcile reaps another one's rows.
Isolation ==
    [][\A x \in Ext : View(x)' # View(x) => chan'[x] # chan[x] \/ old'[x] # old[x]]_vars

\* x's next message is a full_state of what is open, on a connection that has
\* said hello, and the step applies it.
Heals(x) ==
    /\ chan[x] # <<>> /\ chan'[x] = Tail(chan[x]) /\ boundVars' = boundVars
    /\ Head(chan[x]).type = "full_state" /\ Head(chan[x]).body = Body(open[x])
    /\ ckey[x] = x

\* One reconcile repairs everything: whatever was lost, duplicated or applied
\* out of order before, the stored session is then exactly what is open.
ReconcileHeals == [][\A x \in Ext : Heals(x) => View(x)' = open[x]]_vars

\* Nothing of what a profile did is still on its way.
Quiet(x) == events[x] = <<>> /\ lookups[x] = {} /\ pending[x] = Empty /\ chan[x] = <<>>

\* Between reconciles the deltas alone keep the store right: as long as the
\* worker hears every event, once it falls quiet the stored session is what is
\* open, however moves, closes, flushes and reconciles interleaved.
DeltasKeepUp ==
    \A x \in Ext : sleeps = 0 /\ trusted[x] /\ Quiet(x) => View(x) = open[x]

\* However often workers are evicted and pipes break, the stored session of
\* every profile in the end is what is open and stays so.
ViewConverges == \A x \in Ext : <>[](View(x) = open[x])
=============================================================================
