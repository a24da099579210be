# A verification project for Session Restore

Session Restore remembers what is open on a Windows desktop, tabs, applications and
documents, and brings it back after a restart. A Rust agent (`agent/`) captures and
stores, a browser extension (`extension/`) reports and reopens tabs, and a small relay
process connects the two. This directory holds TLA+ modules that model the parts of that
program where order, failure and concurrency decide what is right, TLC configurations
that check them on small instances, and proofs, checked by TLAPS, of the properties that
matter most for instances of every size.

`src/` below is the repository. Line numbers are those of its files. `PROJECT.json` maps every
definition of a model to the lines it was translated from, lists the hazards that the
properties were written for, and for each property a mutant of the code that breaks it.

## 1. The system

### Components, their state and their operations

| Component | State | Operations | Modelled in |
|---|---|---|---|
| **Restore offer** (`server.rs`, `ui/mod.rs`) | `PendingRestore`: snapshot, claimed keys, selection, `awaiting_review`; the registry of connections; each thread's `profile` | `hello`, `maybe_offer_restore` (claim, build, write), register and unregister, confirm, refuse, dismiss, tray restore, `offer_to_connected`, mode changes | `RestoreOffer`, abstractly `OfferPolicy` |
| **Tab capture** (`collector.ts`, `outbox.ts`, `index.ts`, `reconcile.ts`, `port.ts`; `apply_state`, `ingest.rs`) | outbox and its mirror in `storage.session`, debounce, flush in flight, port; the pipe; live rows of windows and tabs | browser events, coalescing, flush, persist, hydrate, boot, alarm reconcile, connect; apply a delta, apply and reap a full state | `TabCapture` |
| **Restore runs and undo** (`restore/mod.rs`, `restore/undo.rs`, `ui/mod.rs`, `restore.ts`) | `restore_runs`, `restore_items`, undo points, the answer's thread, restores in a browser | `begin_run`, `apply_choice`, `applyRestore`, `restore_result`, `undo_last`, `close_tabs` and its result | `RestoreRun` |
| **Snapshots and the end of the session** (`store/snapshot.rs`, `shutdown.rs`, `main.rs`) | snapshot 0 (live) and its copies | `create_from_live`, `prune`, start of the agent, flush at `WM_QUERYENDSESSION` and `WM_ENDSESSION` | `RestoreRun` |
| **Restore planning** (`plan.ts`) | none; a loop over the stored windows | `bestMatch`, consuming matches, topping up or creating | `RestorePlan` |
| **Private windows** (`ingest.rs`, `keys.rs`, `settings.rs`, `server.rs`, `index.ts`) | `tabs_private` rows of the live session and of every snapshot, `crypto_keys`, the setting and the ttl, the extension's copy of the setting | store, sweep, purge, rotate, copy, prune; set the setting, push it, acknowledge with it, drop at the source | `PrivateStore` |
| **Transport** (`sr-proto`, `sr-ipc`, `sr-relay`, `serve_on` and the connection threads of `server.rs`, `port.ts`) | the extension's port, timer and backoff; relay processes with two threads; pipe instances with two handles per end; the registry | `ensure`, `send`, `onDisconnect`; connect, forward, pump, join; accept, register, read, reply, end; a push through a second handle | `Transport` |
| **Desktop capture** (`watcher/`, `main.rs`) | live rows of applications, windows, displays; hooks, debounce thread, worker, index of Recent items | enumerate, read command lines and documents, assign a tier, the statements of a pass, sweep, capture after events, pause | `Desktop`, `DesktopCapture`; one step of `RestoreRun` |
| **Application restore** (`restore/apps.rs`, `launch.rs`, `place.rs`, `ui/mod.rs`) | what was open when the restore looked, placed counts | plan, look, launch by tier, wait for windows, map rectangles to the displays, place | `AppRestore`, `Placement`; one step of `RestoreRun` |
| **Browser launch** (`restore/mod.rs`, `browsers.rs`, `watcher/profiles.rs`, `hello` in `server.rs`) | `browser_status.profile_dir` | resolve a profile's directory at a handshake, choose browsers and profiles, start them | `BrowserProfiles` within `AppRestore` |
| **User interface** (`ui/`) | open windows | messages of the pages | their effect on the agent is an action of the module concerned |
| **Single instance**, **database**, **cipher**, **installation**, **logging**, **pages and url handling** | | | not modelled, see section 7 |

### How they interact

The extension's service worker posts `hello`, `tab_delta` and `full_state` to a native
port. The browser starts a relay for each port, which forwards frames over a named pipe to
one thread of the agent. That thread answers `hello` with the settings and, when it may,
a restore offer. The UI thread asks the user and pushes to the registered connections
what they could not have before. All threads share the database, one mutex around a
SQLite connection, and `PendingRestore`, another. The capture thread, the sweeper and the
shutdown hook use the database too. The extension opens the missing tabs and answers
with `restore_result`; the agent records it in the run that made the offer, and an undo
later asks the extension to close what was recorded.

### What is hard about it

* **Interleaving.** A browser may say hello before, while and after the user answers; an
  old relay of it may still be registered. No lock is held across the steps of an offer.
* **Workers that vanish.** A Manifest V3 worker is evicted between any two awaits and
  keeps nothing but `storage.session`. Events that fire before its listeners are attached
  are lost.
* **Messages.** Posted is not received: a broken pipe loses what it carried. State sent
  before the hello is attributed to a key the relay derived from the process.
* **Two clocks of truth.** Deltas are fast and can be lost, full states are authoritative
  but were read a few awaits before they are sent.
* **Restarts.** The agent may die between two SQL statements. The copy of the live rows
  is not a transaction. Windows ends the session while captures run.
* **Handles.** Each end of a pipe has two, in two threads, and only the last to go closes it.
* **A desktop that moves.** Windows open, turn to other documents and close between the look
  and the launch, and displays leave between plan and placement.
* **Wall-clock promises.** Private rows must go after their ttl, also when the agent was
  down, in the live session and in every copy.

### What makes each component correct

* *Offer*: nothing before the answer, nothing against it, each claim key at most once,
  every claim accounted for, nobody who waited forgotten.
* *Capture*: what was heard and not posted survives eviction; deltas alone keep the store
  right while nothing is missed; one reconcile repairs anything; no profile's session
  holds or loses tabs because of another.
* *Runs*: the undo point predates what it undoes; rows never claim what was not opened;
  finished runs are settled; partial or pruned copies are never restored.
* *Plan*: every stored window exactly once; nothing twice when the browser did it already.
* *Private windows*: rows only by consent, no longer than the ttl, always under a key that
  opens them.
* *Transport*: one live connection per extension, ended by nobody but its reader; whatever a
  relay leaves behind is given back; a connection again once an agent stays up.
* *Desktop capture*: no window event is lost on its way to the rows; a pass cut off anywhere
  keeps what it saw, and no window is left without its application.
* *Application restore*: nothing that was seen open is opened again; what is placed can be
  reached; a browser starts in the profile its windows are of.

## 2. The modules

`MC*.tla` extend a module with the values TLC needs. `*Proofs.tla` extend it with theorems.

**`RestoreOffer`** has one action per critical section: `ClaimForHello` and
`ClaimForTarget` are `PendingRestore::claim` under its lock by a connection thread and by
the UI thread, `BuildOffer` the database half of `maybe_offer_restore`, `WriteReplies` and
`WriteToTarget` the writes to a pipe, `TakeTargets` the copy of the registry. `pc[a]` says
between which two sections a thread is; `job` and `out` are its locals. `answers`, `sent`,
`writes`, `spent` and `lost` are history only. `OfferPolicy` is the abstract promise in two
variables, and `RestoreOffer` implements it under `phase`, `given` (the instance `Policy`).

**`TabCapture`** has the browser (`open`, `events`), the worker (`stage`, `pending`, `timer`,
`flushing`, `lookups`, `recon`, `hello`), the port and two pipes (one in use, one draining
after its worker died), `mirror` for `storage.session`, and the agent's rows (`wins`, `tabs`).
Steps that the code separates by an `await` are separate actions: `Hear` then `Lookup`
for an attached tab, `Flush` then `FlushDone`, `ReconcileRead` then `ReconcileSend`, `Wake`
then `Boot`. `Apply` is `apply_state` with its upserts and the reap of a full state;
`KeyAfter` is how a connection learns its profile key. A tab is a window id, a tab id and
one version of content.

**`RestoreRun`** has the desktop and the tabs as they are, the live rows, the snapshots, the
runs with the status of every url, the agent's phase, the review's answer and the thread
that carries it out, the restores in flight in browsers, and the stages of a shutdown.
A capture may fail, and its callers go on with the rows there are; any of the applications a
restore starts may not start; the copy at the start of the agent, or at the end of the session,
may be cut short (`PartialCopy`).
Every application and tab carries who opened it, which no row of the code has: the
properties are about that. A browser has one window here, so that planning is a multiset
difference; `RestorePlan` has the algorithm.

**`RestorePlan`** is `planRestore`, one turn of its loop over the stored windows per step, with
tabs as comparison keys.

**`PrivateStore`** has the rows of `tabs_private` in all snapshots, the keys, the settings
table, the agent's UI thread between setting and push, a `hello_ack` in the making, both
directions of one pipe, and the extension's outbox and settings, with the load from
storage that an alarm awaits. A crash may come between the setting and its purge
(`DieBeforePurge`) and between retiring a key and making the next (`DieRotating`).

**`Transport`** follows a port of the extension through the relay to the agent. A member of
`Relay` is a slot: a process with its threads `main` and `pump`, and the pipe instance it got.
`Held` and `ClientEnd` say which handles of each end are open, from which everything else
follows: a thread reads the end of the stream when the other end is closed (`ReadEnds`, `PumpEnds`),
and an instance can be created again when it is not counted (`CanCreate`). `Ending` and `End` are
the guard of `connection_loop` that unregisters. A frame is its size, of three: the limits differ
between relay and agent, and the source stamped on the way makes a frame larger.

**`Desktop`** is what is on the screen (`z`, `shown`, `pos`, `monitors`, `recent`), its user, and what the
code derives from one enumeration: whose a frame is (`ResolveFrameHost`), its documents, command
line, title and tier, and the rows these make (`RowsOf`). **`Placement`** has the arithmetic
of `place.rs` in whole units. Both are used by

* **`DesktopCapture`**: `pass` holds the statements of `capture_into_live` still to run, each with its place
  in their order, and each of which commits alone (`Execute` of a `First` one, `StatementFails`); `raw`, `signal` and `worker` are the hook queue, the
  debounce thread's signal and the worker that settles, swallows and captures. `behind` and
  `lastSeen` are history only;
* **`AppRestore`**: `stage` is the place in `apply_choice` and `restore_apps`: plan under the lock, start
  browsers, look once, launch by tier, poll and place. The user goes on during all of it, and a
  launched application may hand over to a window it has (`Appears`). Lists of windows are filtered by `Among`,
  which is `SelectSeq` written so that it can be reasoned about. It takes browsers and
  profiles from **`BrowserProfiles`**, where `Hello` records the directory of a profile from the
  best of three sources.

How the modules meet: `TabCapture`, `RestoreOffer` and `PrivateStore` use a channel that may lose what
it carries and connect again, which is what `Transport` shows of the port; `RestoreRun` uses
a capture and a launch of applications as one step each, which `DesktopCapture` and `AppRestore`
take apart. These are readings, not refinements: no run instantiates one in the other.

## 3. The runs

`tlc -config <cfg> <module>`; every run ends within three minutes on two workers.

| Run | Instance | What it shows |
|---|---|---|
| `offer` | two profiles of one browser, one relay key, two windows, one of them private, one trip to tray or settings, failing builds | type, consent, one offer per key, accounting, hand-over, and that every step is one of `OfferPolicy` |
| `offer_live` | two browsers, one answer, fair threads | a connection that waited is served; every claim ends |
| `capture` | one profile, two windows a tab moves between, two changes, one eviction or quit at any point | recovery of the outbox, deltas alone are enough, one reconcile heals |
| `capture_two` | two profiles of one browser that share the relay key, each starting with a tab or with no window yet, state before hello | neither profile's session holds, gains or loses anything by the other |
| `capture_live` | one eviction and one broken pipe, two changes of a tab of one window, the outbox flushed at a cap of two | the stored session converges to what is open |
| `restore` | one application, one browser, both modes, two runs, two events | undo points, honest rows, settled runs, whole snapshots |
| `plan` | every session of two windows of up to four tabs over two keys, every screen of two windows | exact restoration, nothing twice, completion in place |
| `private` | one tab, ttl 1 and 2 (asked for: 0 and 3), a sweep each tick, rotation every other, two copies, one fault | consent, ttl, keys |
| `transport` | two relays, two instances, a backoff of two steps, two faults (the agent dies, the worker is evicted, a connect throws, a frame is too large) | one live connection, ended by its reader only, instances given back, reconnection |
| `desktop` | a packaged editor with two windows, a browser, two displays; three acts of the user, one fault | the rows are the desktop when nothing is on its way; a pass cut off anywhere |
| `apps` | two windows with a document each, a browser with two profiles, two displays of different dpi; two acts, one fault | no second window, placement in reach, the right profile |
| `shutdown` (a violation) | as `restore` | the disagreement of section 6 |

**Why the bounds are enough.** Each bound is named in the module and is at least what the
hazard it is for needs. *Offers*: a race over a claim needs two threads and a user; two
profiles under one relay key and the two keys one connection can be known by need
three keys; the theorems lift all of it to any number. *Capture*: a drag needs two windows;
the coalescing cases (show, change, remove, show elsewhere) need two changes of one tab;
one eviction gives every crash point, since it may come between any two steps, and a
second one would start from a state the first leaves already. `MaxPending` 5 is above
what one change can queue, so `capture` flushes by the timer; `capture_live` has a cap of 2 and
flushes at the cap too. *Restore*: two runs are the fewest that share an episode, two events allow
one act of the user and one restart, or two lives of the agent. *Plan*: four tabs are
the fewest of which a single one is under the threshold of three in ten; two windows
on each side are the fewest that can be confused. *Private*: three ticks hold a key's
rotation, a ttl, and a sweep after it. `MaxPipe` is 1: a second message in the same
direction only waits. *Transport*: with two relays one lingers while the next connects; with
two instances one that is not given back is missed; of the two faults one makes the other's
recovery necessary. A buffer holds one frame. *Desktop*: an editor with two windows is the least
that has an application to lose with its last window only; one act before, one during and one after
a pass are the three. *Apps*: `Session` offers rectangles that lie at the edge of a display and
a narrow palette out of sight, and one unit is 40 pixels, so that `MIN_VISIBLE_W` and `MIN_VISIBLE_H`
are 3 and 1 units of it.

**Deadlock.** Checked in the capture runs and in `desktop`. Switched off where the program, or the model at
its bounds, may stop: all offers made, a plan or a restore complete, the clock at its bound, a
relay that is stuck (section 6) when nobody acts any more.

**Fairness.** Weak, and only on what the program or the browser schedules by itself. `offer_live`:
the UI thread's own steps after an answer, and each connection thread's steps
once a message has been read. Users, browsers that connect, and pipes that break are
not fair, so a browser need never say hello. No pipe write is assumed to complete
against a peer that is alive and does not read; the model leaves that peer out and
`server.rs:339` is listed as an uncovered hazard. `capture_live`: the browser delivers events and
wakes the worker for its alarm, promises settle, timers fire, and the agent reads its
pipes; evictions and broken pipes are bounded in number, not forbidden. `transport`: the minute alarm
sends (`Send`, `Post` of a frame that fits), the timer and `onDisconnect` fire, the accepting thread,
the threads of the relay and of each connection run, a frame that is being pushed is
written when the pipe takes it, and a browser kills a host that outlives its pipes (external:
Chrome and Firefox both do). Whether an agent runs and whether the user interface pushes is nobody's
duty. Which instances the system counts after a server closed its end is left open (`Counted`).

## 4. What is proved

All proofs are checked by `tlapm` with its SMT, Zenon and LS4 backends; there are no axioms. The only
assumptions are the named ones on the constants, which TLC evaluates in the runs: that identities
are distinct from "none" (`ConnAssumption`, `IdAssumption`, `RelayAssumption`, `NoneAssumption`), that tables have
their domains (`FunctionAssumption`, `SessionsAssumption`, `ScreensAssumption`), that browsers and urls are
finite in number (`FiniteAssumption`), and that counts, delays and bounds are natural numbers
(`PrivateAssumption`, `RetentionAssumption`, `EpisodeAssumption`, `BoundsAssumption`, `ModeAssumption`, `InstancesAssumption`,
`BackoffAssumption`, `FaultsAssumption`), that the tables of windows, processes and profiles have their
domains and that directories and documents are not "none" (`DesktopAssumption`, `ProfilesAssumption`), that no
enumeration lists a window twice and that a stored rectangle is one (`SessionAssumption`), that displays are finite in
number, have a resolution, and a work area inside their bounds (`ScreenAssumption`), that a window without a display row
counts as having some resolution (`RestoreAssumption`), that a tab, a window id and a
version are told apart (`CaptureAssumption`), and that two profiles share no window id
(`IdsAssumption`; see the differences in section 6 for two Firefox processes).

**`RestoreOfferProofs`**, for any number of connections, browsers, profiles, windows and snapshots:

* `TypeCorrect`: `TypeOK`. It needs `KnownAtHello`: a thread that is about to claim has a
  key, although `profile` may be unset everywhere else.
* `AtMostOneOffer`, `NothingBeforeTheAnswer`, `EveryClaimAccounted` follow from one inductive
  invariant, `ClaimInv`. `OneOfferPerKey` is not inductive: it says that two
  threads hold no key in common, and the claim step needs that what is held is in
  `offered`, that a key was written only if some offer for it was sent, and that
  whoever holds a claim is at a place of its program where it may.
* `OnlyWithConsent` uses `ConsentInv`: the selection in force is some confirmed answer or a
  refusal, and the job and the offer a thread carries were cut down by *one* answer,
  also when the user has answered again since.
* `NobodyForgotten` uses `Registered` and `HandOver`. The point of the argument is the
  moment between a hello that was turned away and the registry that the UI thread copies:
  a connection registers before it asks for an offer, so one that found the offers closed
  is either claimed for, or among the targets, or the UI thread has still to take its targets.
* `ImplementsPolicy`: every step of `RestoreOffer` is a `Decide`, a `Give`, or a stutter of
  `OfferPolicy`.

**`PrivateStoreProofs`**, for any tabs, ttl, rotation, sweep intervals and retention. The inductive
invariant `IInv` is `TypeOK` with four parts. `OffMeansPurged` is inductive once messages
are known to be well typed, because `Kept` looks at the setting when a message is applied,
not when it was sent. `Timely` relates three clocks: the sweeper is never later than its
interval while the agent runs, and it left nothing that had expired when it ran; from
this, and not from any single step, follows `PrivateKeptNoLonger`. `KeysInOrder` says that only the newest
key can be in use, and `RowsFresh` that a row was sealed before its key was due; both are
needed for `active_dek`, which looks for the newest key not retired and may be cut short.
Copies, pruning, sweeping and purging only produce rows that *descend* from rows
there were (`Descends`), which gives one lemma for all of them. `PrivateOffStoresNothing` is the action
property, from the same lemmas.

**`RestorePlanProofs`**, for sessions and screens of any size. `RankedAbove` is the argument the
planner's counting rests on: the tabs of one key have distinct ranks from 1 to how many they are
(`RanksDistinct`), so rank is a bijection, and those whose rank exceeds what is open number exactly
the difference. It needs no induction over the sequence.

* `TypeCorrect`, from `OneTurn`: what one turn of the loop does, in one place.
* `RestoredExactly`: a window of its own for each stored one, and the exact count of every tab.
  Distinct windows follow because `Best` looks only at windows not claimed.
* `PartsAreCompleted`: a part that shares a tab with a stored window shares none with another one
  (`OneHome`), so no earlier window can have claimed it, and no other open window can beat it: the
  candidates are that part alone (`OnlyItsPart`).
* `NothingCreatedTwice`: by then windows 1 to n of the stored order have claimed windows 1 to
  n of the screen, so window n + 1 is the first unclaimed one with every tab shared, and no other
  can beat it. This is where the strict comparison of `plan.ts:134` matters.

**`RestoreRunProofs`**, for any applications, browsers, urls, runs, retention and episode, with the action
each layer can disturb in a lemma of its own:

* `Typed` is the type invariant with what it needs: rows point at rows that exist, a job and the
  answer being carried out name a run that has begun. Finiteness enters once, in `NewestIsOne`:
  a set of row numbers has a newest, so `CHOOSE` in `BeginRun` chooses one. `TypeCorrect`.
* `Honest` extends the two promises about rows to the results under way: a job that
  is done says "launched" only of what it made, and covers all it was given. A result that is lost leaves
  the row pending and the run open. `LaunchedIsTrue`, `FinishedAccountsForAll`.
* `Whole` is not about runs at all but about the newest shutdown copy: it is whole, or the agent is down or
  copying *and* there are live rows to copy again (`Unsettled`). That is what makes the start
  of the agent repair a copy that was cut short before anything can restore it. `PrunedFromTheOldest`
  and `NewestIsKept` show that pruning at a retention of at least one never takes the copy
  just made, by counting. `OnlyWholeSnapshots`.
* `Predates`: the number of a run that has not begun is on no application, tab, live row or snapshot
  (`Unseen`), so a fresh undo point is free of the run's own work; a shared one is that of the newest run of the episode,
  which by the invariant is free of everything older in it. Starting times never exceed the
  clock, which is what makes "episode of an episode" one episode. `UndoGoesBack`.

**`TransportProofs`**, for any relays, instances, delays and faults: `TypeCorrect` contains that a registered
connection has its thread; `OnlyOneIsLive` needs that a timer is only set without a port;
`NobodyElseEnds` is the action property that no step but the reader's, or the agent's end,
takes a connection whose relay is well.

**`TabCaptureProofs`**, for any profiles, windows, tabs, evictions, exits and broken pipes. `Inv` has seven parts:
types and bounds (`Scalars`, `Bounds`), and one for each place a tab can be on its way from the
browser to the rows (`BrowserInv`, `OutboxInv`, `EventInv`, `PipeInv`, `Rows`).

* `NothingHeardIsLost`: a worker that is up has in memory what storage has, and storage has what was heard
  and not posted; `UnsentSurvives` alone is not inductive, because a boot copies storage into memory
  and a flush takes from memory.
* `StoredTabsAreOwn`: everything on its way (pending deltas, the mirror, the body of a reconcile that
  was read and not yet sent, both pipes) is of its own profile, and a connection is known by its own key or by
  the relay's. `OwnRows` then says that a stored window is keyed by one of these two, and its tabs are what
  its profile showed. This needs `IdsAssumption`.
* `ProfilesAreIsolated` and `OneReconcileHeals` are action properties from the same invariant: what
  `apply_state` and its reap touch is within the windows of the browser and key that sent.
* `DeltasAreEnough`: `DeltasKeepUp` speaks of a line of messages that is empty, so the invariant must say what holds
  while it is not. `Following` says, of each window and tab, that the last word on it is right, where the line runs from
  the rows through the pipe, a full state that was read and not sent, and the outbox, to the events not yet heard. An event
  tells what is open now (`EventsGood`). A word in the outbox, in a full state read or in the pipe is right unless something
  later on the line speaks of the same entry, or a `tabs.get` is out that will (`OutboxGood`, `ReadGood`, `PipeGood`).
  A row is right unless anything on the line speaks of it (`StoreGood`). A full state that a
  delta overtook does not count: its reap may take a newer row, and the rows are not `trusted` until the next. One that counts names every window that the rows and the messages
  before it speak of, or the window is gone (`Named`): this is why its reap removes what closed
  and nothing else. A tab's row may outlive its window's, and a window that closed does not open
  again (`Ids`, `Mentioned`). Once a worker was evicted `Following` says nothing, like the property:
  then the next reconcile heals (`OneReconcileHeals`). The proof uses that a browser starts with each tab in one window, the last
  conjunct of `CaptureAssumption`; ids of tabs are unique in a browser.

**`DesktopCaptureProofs`**, for any windows, applications, displays, acts of the user and faults. A pass is a set of
statements with places; what is needed of the enumeration is that it lists windows once each, in order (`Among` is
defined by recursion over its length; a least length at which a fact about it fails has none before it, so no
induction theorem is needed). `Inv` is

* `Typed`, which is `TypeOK` and the same of the rows that the statements still to run carry. `TypeCorrect`: among the
  rest, no row says "start from the command line" of one that was redacted, or "reopen" without a document.
* `Ordered`: before a window is written its application is stored or has an earlier statement; before an
  application is dropped each of its stored windows has one, and no window of it is still to be written. From this every
  prefix of a pass keeps `CrashKeepsWhatIsOpen` (`NothingLostInAPass`), which is not inductive alone: it says nothing of
  the statements to come.
* `OnCourse`, while no event, signal or worker is on its way to another pass (`Settled`): each statement still to run
  writes what is there now, and what no statement is about is right already. When a pass ends, nothing
  is left to run, so everything is right: `QuietRowsAreCurrent`. The point is the swallowed signal: `Settled`
  is false from the event to the enumeration of the pass that it caused.

**`AppRestoreProofs`**, for any desktop, session, profiles, selection and order of launches:

* `NothingOpenedTwice`: the look counts every document that a window of the application has (`LookCounts`), and
  whatever was asked for since is, for an application with a window, a stored document that
  the look did not count (`OnlyMissing`). What the user does meanwhile is in neither.
* `ProfilesKeepTheirTabs`: what a profile's last handshake was certain of is what is recorded (`Sure`); then one wanted profile gives its directory, and several give as many records, so
  none (`LaunchInHome`).
* `PlacedWindowsAreInReach`: of finitely many displays one is nearest and one shows most (`NearestIsOne`, `Most`). A
  rectangle that already shows enough stays; one that is pulled onto a work area either shows enough or is
  centred, and a centred rectangle shows the whole of the smaller of its size and the work area in each direction
  (`CentredCovers`), so no arithmetic on the distance is needed. This is why `InReach` says "enough, or as much as
  size and work area allow": a palette narrower than the least visible part has no better place.

**Model-checked only.** Liveness (`WaitingIsServed`, `ClaimsSettle`, `ViewConverges`, `InstancesReturn`, `Reconnects`): fairness and
`ENABLED` are outside the prover's reach. Facts that need
induction over data, such as what a whole outbox coalesces to for queues of every length, stay with TLC.

## 5. Mutants

Each property has a mutant in `PROJECT.json`: an operator beside the definition it replaces, which
changes it the way a slip in that code would, for instance an offer gate that forgets the
open review, a touch that keeps the first of two deltas, a reap that takes every window of the
browser, a prune that drops the newest, a purge of the live rows only. With it in place the run of the
property fails.

## 6. Where the code and its documentation disagree

Shown by a run:

* `shutdown`: the flush at `WM_ENDSESSION` captures a desktop that applications have left
  already and reaps their rows; the snapshot that the flush before it made is not what the
  next start restores (`shutdown.rs:57`, against `shutdown.rs:4-6`).

Met while modelling, from reading, and not the subject of a run:

* *Offers twice.* `server.rs:51` promises one offer per browser and profile. A connection whose
  first message precedes its hello is registered under the relay's key and keeps it there
  (`server.rs:311-313`); the hello claims under the extension's id, the UI thread under the
  registered key, and the same extension can be sent the session twice. `OneOfferPerKey` is about keys.
* *Undo of an automatic restore.* With `restore_mode` auto the undo point is copied before this agent has
  captured anything. It is the previous session, so undoing restores it once more.
* *Settings.* A `hello_ack` may read the setting before a change and be written after the push
  of the change; the extension keeps the old answer until its next hello. The agent's own check keeps `OffMeansPurged` true.
* *Pause.* Pause capture stops recording, says `README.md:275`. The minute capture
  (`main.rs:676-693`) and "Capture now" do not look at `capture_enabled`, the tray's switch is not pushed to
  the extension, and neither its deltas nor `apply_state` ask for it.
* *Offers.* Opening the review again does not hold offers back (`server.rs:68`, `ui/mod.rs:207`). On a first run
  that shows onboarding, offers wait for a review that is not open (`ui/mod.rs:175`). A claim is
  spent on a browser that has nothing stored (`server.rs:925-935`).
* *Capture.* Tabs whose window row is missing are never reaped (`server.rs:854`, docs/05:181-183). A timer that fires while a
  flush awaits its persist does nothing and nobody starts another (`outbox.ts:119`): the delta waits for the next event or
  alarm. Rows are keyed by window ids of a browser process; two Firefox processes that hand out the same ids share them
  (`server.rs:747`, `index.ts:177-179`).
* *Plan.* The matching is greedy. Stored `<<a>>, <<a, b>>` with open `{a, b}, {a}` creates `b` although it is open (`README.md:459`:
  nothing is duplicated). `NothingTwice` therefore assumes that the browser lists the windows in the stored
  order, and `CompletedInPlace` that stored windows share no tab.
* *Undo.* Tabs to close are found by url, so a tab the user opened on the same page may be the one that goes (`restore.ts:211`).
  One closed tab marks all launched tabs of the run closed (`server.rs:668-675`). An answer that names no application
  leaves its run unfinished.
* *Private windows.* `KeyManager::gc` is called only by its test (`keys.rs:15`, docs/06:76). Closing the last private window
  does not purge (docs/06:97-107): copies stay until their ttl. A shorter ttl does not shorten existing rows. One row that does not
  decrypt fails the browser's private payload (`restore/mod.rs:186`). A row of geometry is kept for a private window also
  with the setting off.
* *Transport.* The backoff never grows, because a relay that finds no agent counts as a connection (`port.ts:73`, docs/05:247). A relay whose
  stdin closes, or that is sent a frame above its own limit, joins a pump that waits for the agent
  (`sr-relay/src/main.rs:109-110`). After a closed stdin the browser kills it; after a frame that is too large the browser still sees a port, nobody
  ends the pump, and the extension stays without a connection. `Reconnects` excludes that state by name (`Stuck`).
* *Desktop capture.* Displays are deleted before they are written again, each statement for itself: after a crash in between
  windows have no display row, and their dpi counts as 96. Documents are found by file name, and the newest path of that
  name wins, also when the window shows another (`documents.rs:12-14`). `watcher/mod.rs:28-30` says browser windows are left alone; a pass writes
  rows for the top-level windows of browsers, not for those the extension reports. `fold_env` slices a path at the length of a variable's
  value, which need not be the start of a character (`identity.rs:76`). `stale_since` of docs/05:250 is not in the code.
* *Application restore.* Tier A starts the stored command line, which knows nothing of documents found in titles. A window that could not be placed is
  skipped for good when a later one of the same application could be: windows are matched by their place in the z-order and
  skipped by count (`restore/apps.rs:377-392`). Outcomes are recorded by display name, so two applications of one name share a row.
  The displays of a restore are read once, at its plan. Normal positions are in workspace coordinates and compared with screen coordinates. Enough of a window in sight
  need not include its title bar (docs/04:114); "no window within the timeout" of docs/04 is not reported. With `restore_mode` auto the database stays
  locked for the whole restore.
* *Browser launch.* A hello that finds no id on disk records the profile used last over what an earlier hello had found (`server.rs:603`), where `profiles.rs:145-147`
  leaves that to a caller that keeps the previous answer. With several profiles wanted and the directory of one known, that one is
  used, where `restore/mod.rs:383-387` says none is. `StartsInItsProfile` therefore speaks of profiles whose last hello found the id.

## 7. Not modelled

*Single instance* (a kernel mutex and two events, `single_instance.rs`), *the database* below the statement (schema, migration, integrity
check, and setting a corrupt file aside, `main.rs:743`), *cipher and DPAPI* (library code; which key sealed what is in `PrivateStore`), *installation* (one
sequential program), *logging* (nothing reads it), *the pages* (they render what they are sent), and *url normalisation*, whose result `RestorePlan` takes as given. Tab
groups travel and are reaped as windows are, and are left out. Order of tabs within a window, favicons, pinned tabs and window
states are data that no property of these modules tells apart. The wall clock of the models does not jump back. Two Firefox processes may hand
out the same window ids; `TabCapture` gives all profiles distinct ones (`IdsAssumption`). Revealing private tabs and their restore
read rows and change none. The pump's and the main thread's frames are sizes only, so a reply that is lost with
its pipe is seen in `TabCapture` and `RestoreRun`, not in `Transport`. A peer that stays alive and never
reads (`server.rs:339`) is left out everywhere.

## 8. Plan

Done: `RestoreOffer` with `OfferPolicy`, `TabCapture`, `RestoreRun`, `RestorePlan`, `PrivateStore`, `Transport`,
`DesktopCapture`, `AppRestore` with `Placement` and `BrowserProfiles`; proofs of every safety and action property that a run checks. Left:

1. the channel of `TabCapture` as a promise that `Transport` implements, by a refinement mapping;
2. the order of created tabs (`orderForCreation`) and the active tab, and tab groups.
