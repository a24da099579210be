---------------------------- MODULE PrivateStore ----------------------------
(***************************************************************************)
(* What is kept of private windows, under which key and for how long: the  *)
(* agent's tabs_private rows (ingest.rs, keys.rs, snapshot.rs), the        *)
(* setting that allows them (settings.rs), the five minute sweeper         *)
(* (main.rs), and how the setting reaches the extension that drops private *)
(* events at the source (server.rs, index.ts, collector.ts).               *)
(*                                                                         *)
(* One profile with one private window.  A row stands for its ciphertext:  *)
(* a tab, the key it was sealed under and its two times.  Eviction keeps   *)
(* the outbox (TabCapture has the mirror), a message posted to an agent    *)
(* that is down is lost, and a broken connection loses what it carried.    *)
(* Ordinary tabs and applications only matter here in that a snapshot may  *)
(* be taken for their sake.                                                *)
(***************************************************************************)
EXTENDS Integers, Sequences

CONSTANTS
    Tab,          \* tabs of the private window
    DefaultTtl, MaxTtl,  \* private_ttl_hours: 24 at first, clamped to 1..168
    TtlAsked,     \* what the settings page may send
    RotateAfter,  \* ROTATE_AFTER_MS, in ticks
    SweepEvery,   \* SWEEP_INTERVAL, in ticks
    Retention,    \* snapshot_retention_count
    MaxTime,      \* bound on the clock
    MaxCopies,    \* bound on snapshots
    MaxChanges,   \* bound on changes of settings
    MaxEvents,    \* bound on private tabs opened or changed
    MaxFaults,    \* bound on broken connections, evictions and crashes
    MaxPipe       \* bound on the messages in one direction

LIVE == 0

ASSUME PrivateAssumption ==
    /\ MaxTtl \in Nat /\ DefaultTtl \in 1..MaxTtl /\ TtlAsked \subseteq Int
    /\ RotateAfter \in Nat \ {0}
    /\ SweepEvery \in Nat \ {0}
    /\ Retention \in Nat
    /\ MaxTime \in Nat /\ MaxCopies \in Nat /\ MaxChanges \in Nat
    /\ MaxEvents \in Nat /\ MaxFaults \in Nat /\ MaxPipe \in Nat

Row == [at : Nat, tab : Tab, key : Nat, updated : Nat, expires : Nat]
DataKey == [created : Nat, retired : BOOLEAN]
Mark == {"none", "shown", "closed"}   \* what a delta says of a tab or window
Message == [kind : {"hello", "delta", "full"}, tabs : [Tab -> Mark], win : Mark]
Word == [kind : {"ack", "changed"}, private : BOOLEAN]

VARIABLES
    (* the agent's database *)
    setting,   \* capture_private_windows
    ttl,       \* private_ttl_hours
    rows,      \* tabs_private, of the live session and of every snapshot
    winRow,    \* the live browser_windows row of the private window
    made,      \* snapshots made so far: they are numbered from 1
    keys,      \* crypto_keys: a key is its place in this sequence
    (* the agent's process *)
    up, now,
    swept,     \* when the sweeper last ran
    ui,        \* "idle", or "push": a change is made and not yet told
    ack,       \* the setting a hello_ack in the making carries: {} or one
    (* the connection *)
    linked, registered, toAgent, toExt,
    (* the extension *)
    open,      \* tabs of the private window on screen
    allowed,   \* settings.capturePrivate
    stored,    \* the same in storage.session
    loading,   \* what an alarm's loadSettings read and did not take yet: {} or one
    pending,   \* the outbox, as far as the private window goes
    hello,     \* a sayHello is on its way
    (* bounds and history *)
    changes, events, faults,
    cut        \* history: the agent died between turning off and purging

database == <<setting, ttl, rows, winRow, made, keys>>
process  == <<up, now, swept, ui, ack>>
wire     == <<linked, registered, toAgent, toExt>>
worker   == <<open, allowed, stored, loading, pending, hello>>
counts   == <<changes, events, faults, cut>>
vars     == <<database, process, wire, worker, counts>>

-----------------------------------------------------------------------------
(* Keys and rows. *)

Unretired(ks) == {k \in DOMAIN ks : ~ks[k].retired}
Active(ks) == {k \in Unretired(ks) : \A j \in Unretired(ks) : j <= k}
Due(ks) == {k \in Active(ks) : now - ks[k].created >= RotateAfter}
Retired(ks) ==
    [k \in DOMAIN ks |-> [created |-> ks[k].created,
                          retired |-> ks[k].retired \/ k \in Due(ks)]]

\* Mutant: a key that is due stays in use.
ActiveDekNoRotation(ks) ==
    IF Active(ks) # {} THEN ks
    ELSE Append(ks, [created |-> now, retired |-> FALSE])

\* The active key is used, unless there is none or it is due: then it is
\* retired and a new one made.
ActiveDek(ks) ==
    IF Active(ks) \ Due(ks) # {} THEN ks
    ELSE Append(Retired(ks), [created |-> now, retired |-> FALSE])

\* What ingest_tab keeps of reported tabs: one row per live tab, replaced.
Sealed(ts, ks) ==
    {[at |-> LIVE, tab |-> t, key |-> k, updated |-> now, expires |-> now + ttl] :
        t \in ts, k \in Active(ks)}
LiveOf(ts) == {r \in rows : r.at = LIVE /\ r.tab \in ts}

\* Mutant: the agent trusts the extension to have dropped private tabs.
KeptUnasked(ts) == ts
\* A private tab is dropped when capture is off, whatever the extension sent.
Kept(ts) == IF setting THEN ts ELSE {}

CopyOf(rs, id) ==
    rs \cup {[at |-> id, tab |-> r.tab, key |-> r.key, updated |-> r.updated,
              expires |-> r.expires] : r \in {s \in rs : s.at = LIVE}}
Pruned(rs, n) == {r \in rs : r.at = LIVE \/ r.at > n - Retention}
\* Mutant: only the live session is swept.
SweptLive(rs) == {r \in rs : r.at # LIVE \/ r.expires >= now}
Swept(rs) == {r \in rs : r.expires >= now}
\* Mutant: only the live session is purged.
PurgedLive(rs) == {r \in rs : r.at # LIVE}
Purged(rs) == {r \in rs : FALSE}
\* Mutant: the hours are stored as they are typed.
ClampedNot(h) == h
Clamped(h) == IF h < 1 THEN 1 ELSE IF h > MaxTtl THEN MaxTtl ELSE h

Nothing == [t \in Tab |-> "none"]
HasWork == pending.win # "none" \/ \E t \in Tab : pending.tabs[t] # "none"
Marked(m, what) == {t \in Tab : m.tabs[t] = what}

Init ==
    /\ setting = FALSE /\ ttl = DefaultTtl /\ rows = {} /\ winRow = FALSE
    /\ made = 0 /\ keys = <<>>
    /\ up = TRUE /\ now = 0 /\ swept = 0 /\ ui = "idle" /\ ack = {}
    /\ linked = FALSE /\ registered = FALSE /\ toAgent = <<>> /\ toExt = <<>>
    /\ open = {} /\ allowed = FALSE /\ stored = FALSE /\ loading = {}
    /\ pending = [tabs |-> Nothing, win |-> "none"] /\ hello = FALSE
    /\ changes = 0 /\ events = 0 /\ faults = 0 /\ cut = FALSE

-----------------------------------------------------------------------------
(* The extension. *)

\* onCreated and onUpdated: a private tab is enqueued only while allowed, and
\* so is the window its first tab opens.
TabShown(t) ==
    /\ events < MaxEvents /\ events' = events + 1
    /\ open' = open \cup {t}
    /\ pending' = IF ~allowed THEN pending
                  ELSE [tabs |-> [pending.tabs EXCEPT ![t] = "shown"],
                        win |-> IF open = {} THEN "shown" ELSE pending.win]
    /\ UNCHANGED <<database, process, wire, allowed, stored, loading, hello,
                   changes, faults, cut>>

\* onRemoved is not gated; the last tab takes its window with it.
TabClosed(t) ==
    /\ t \in open
    /\ open' = open \ {t}
    /\ pending' = [tabs |-> [pending.tabs EXCEPT ![t] = "closed"],
                   win |-> IF open = {t} THEN "closed" ELSE pending.win]
    /\ UNCHANGED <<database, process, wire, allowed, stored, loading, hello,
                   counts>>

\* Posting connects first if need be, and connecting starts a sayHello.
Post(m) ==
    /\ Len(toAgent) < MaxPipe
    /\ linked' = up
    /\ toAgent' = IF up THEN Append(toAgent, m) ELSE toAgent
    /\ hello' = (up /\ (hello \/ ~linked))
    /\ UNCHANGED <<registered, toExt>>

Flush ==
    /\ HasWork
    /\ Post([kind |-> "delta", tabs |-> pending.tabs, win |-> pending.win])
    /\ pending' = [tabs |-> Nothing, win |-> "none"]
    /\ UNCHANGED <<database, process, open, allowed, stored, loading, counts>>

\* The alarm's handler awaits storage, and takes what it read when it comes.
AlarmLoads ==
    /\ loading = {}
    /\ loading' = {stored}
    /\ UNCHANGED <<database, process, wire, open, allowed, stored, pending,
                   hello, counts>>

AlarmReconciles ==
    /\ loading # {}
    /\ allowed' \in loading /\ loading' = {}
    /\ Post([kind |-> "full",
             tabs |-> [t \in Tab |-> IF allowed' /\ t \in open THEN "shown" ELSE "none"],
             win |-> IF allowed' /\ open # {} THEN "shown" ELSE "none"])
    /\ UNCHANGED <<database, process, open, stored, pending, counts>>

SayHello ==
    /\ hello /\ linked
    /\ Len(toAgent) < MaxPipe
    /\ toAgent' = Append(toAgent, [kind |-> "hello", tabs |-> Nothing, win |-> "none"])
    /\ hello' = FALSE
    /\ UNCHANGED <<database, process, linked, registered, toExt, open, allowed,
                   stored, loading, pending, counts>>

\* hello_ack and settings_changed: both are saved, the second also drops the
\* private deltas that wait in the outbox.  A remove is not private.
HearSettings ==
    /\ toExt # <<>>
    /\ LET w == Head(toExt) IN
        /\ allowed' = w.private /\ stored' = w.private
        /\ pending' =
             IF w.kind = "changed" /\ ~w.private
             THEN [tabs |-> [t \in Tab |-> IF pending.tabs[t] = "shown" THEN "none"
                                           ELSE pending.tabs[t]],
                   win |-> IF pending.win = "shown" THEN "none" ELSE pending.win]
             ELSE pending
    /\ toExt' = Tail(toExt)
    /\ UNCHANGED <<database, process, linked, registered, toAgent, open, loading,
                   hello, counts>>

-----------------------------------------------------------------------------
(* The agent's connection thread. *)

\* apply_state: window deltas, then tabs through ingest_tab, then for a full
\* state the reap of what it did not name, all under the database's lock.
Ingested(m) ==
    LET ts == Kept(Marked(m, "shown"))
        ks == IF ts = {} THEN keys ELSE ActiveDek(keys)
    IN  /\ keys' = ks
        /\ rows' = ((rows \ LiveOf(ts \cup Marked(m, "closed"))) \cup Sealed(ts, ks))
                     \ (IF m.kind = "full" /\ (winRow \/ m.win = "shown")
                        THEN LiveOf(Tab \ Marked(m, "shown")) ELSE {})
        /\ winRow' = (m.win = "shown" \/ (winRow /\ m.kind = "delta" /\ m.win = "none"))

\* A connection is registered by its first message.  hello reads the setting
\* for its ack and then releases the lock.
Deliver ==
    /\ up /\ toAgent # <<>> /\ ack = {}
    /\ LET m == Head(toAgent) IN
        IF m.kind = "hello"
        THEN ack' = {setting} /\ UNCHANGED <<keys, rows, winRow>>
        ELSE Ingested(m) /\ UNCHANGED ack
    /\ toAgent' = Tail(toAgent)
    /\ registered' = TRUE
    /\ UNCHANGED <<setting, ttl, made, up, now, swept, ui, linked, toExt, worker, counts>>

\* The ack is written once the restore offer has been looked for as well.
WriteAck ==
    /\ Len(toExt) < MaxPipe
    /\ \E v \in ack : toExt' = Append(toExt, [kind |-> "ack", private |-> v])
    /\ ack' = {}
    /\ UNCHANGED <<database, up, now, swept, ui, linked, registered, toAgent,
                   worker, counts>>

-----------------------------------------------------------------------------
(* The agent's UI thread: settings and onboarding windows. *)

\* SetCapturePrivate: turning it off deletes what was captured.
SetCapturePrivate(v) ==
    /\ up /\ ui = "idle"
    /\ changes < MaxChanges /\ changes' = changes + 1
    /\ setting' = v
    /\ rows' = IF v THEN rows ELSE Purged(rows)
    /\ cut' = (v /\ cut)
    /\ ui' = "push"
    /\ UNCHANGED <<ttl, winRow, made, keys, up, now, swept, ack, wire, worker,
                   events, faults>>

SetPrivateTtl(h) ==
    /\ up /\ ui = "idle"
    /\ changes < MaxChanges /\ changes' = changes + 1
    /\ ttl' = Clamped(h)
    /\ ui' = "push"
    /\ UNCHANGED <<setting, rows, winRow, made, keys, up, now, swept, ack, wire,
                   worker, events, faults, cut>>

\* push_settings: only this thread changes the setting, so what it reads is
\* what it wrote.  It reaches registered connections.
PushSettings ==
    /\ ui = "push" /\ ui' = "idle"
    /\ IF registered
       THEN /\ Len(toExt) < MaxPipe
            /\ toExt' = Append(toExt, [kind |-> "changed", private |-> setting])
       ELSE UNCHANGED toExt
    /\ UNCHANGED <<database, up, now, swept, ack, linked, registered, toAgent,
                   worker, counts>>

-----------------------------------------------------------------------------
(* Time, the sweeper, snapshots, restarts. *)

\* The sweeper's thread sleeps SWEEP_INTERVAL between sweeps; the time it then
\* waits for the lock is not counted.
Tick ==
    /\ now < MaxTime
    /\ up => now < swept + SweepEvery
    /\ now' = now + 1
    /\ UNCHANGED <<database, up, swept, ui, ack, wire, worker, counts>>

Sweep ==
    /\ up
    /\ rows' = Swept(rows) /\ swept' = now
    /\ UNCHANGED <<setting, ttl, winRow, made, keys, up, now, ui, ack, wire,
                   worker, counts>>

\* create_from_live, for an undo point or at the end of the session.
TakeSnapshot ==
    /\ up /\ made < MaxCopies
    /\ made' = made + 1 /\ rows' = CopyOf(rows, made + 1)
    /\ UNCHANGED <<setting, ttl, winRow, keys, process, wire, worker, counts>>

\* A start sweeps, copies the last session unless there is none, and prunes.
Start ==
    /\ ~up /\ up' = TRUE
    /\ swept' = now
    /\ made' \in IF \E r \in Swept(rows) : r.at = LIVE THEN {made + 1}
                 ELSE {made, made + 1}
    /\ made' <= MaxCopies
    /\ rows' = Pruned(IF made' = made THEN Swept(rows) ELSE CopyOf(Swept(rows), made'), made')
    /\ UNCHANGED <<setting, ttl, winRow, keys, now, ui, ack, wire, worker, counts>>

Broken == /\ linked' = FALSE /\ registered' = FALSE
          /\ toAgent' = <<>> /\ toExt' = <<>>

Fault == faults < MaxFaults /\ faults' = faults + 1

AgentDies ==
    /\ up' = FALSE /\ ui' = "idle" /\ ack' = {}
    /\ Broken /\ hello' = FALSE
    /\ UNCHANGED <<now, swept, open, allowed, stored, loading, pending>>

Die ==
    /\ up /\ Fault /\ AgentDies
    /\ UNCHANGED <<database, changes, events, cut>>

\* Two statements of one call with a crash between them: the setting is off
\* and the rows are there ...
DieBeforePurge ==
    /\ up /\ ui = "idle" /\ setting /\ Fault /\ AgentDies
    /\ changes < MaxChanges /\ changes' = changes + 1
    /\ setting' = FALSE /\ cut' = TRUE
    /\ UNCHANGED <<ttl, rows, winRow, made, keys, events>>

\* ... or the old key is retired and no new one made.
DieRotating ==
    /\ up /\ ack = {} /\ toAgent # <<>>
    /\ Kept(Marked(Head(toAgent), "shown")) # {} /\ Due(keys) # {}
    /\ Fault /\ AgentDies
    /\ keys' = Retired(keys)
    /\ UNCHANGED <<setting, ttl, rows, winRow, made, changes, events, cut>>

BreakConnection ==
    /\ linked /\ Fault /\ Broken
    /\ hello' = FALSE /\ ack' = {}
    /\ UNCHANGED <<database, up, now, swept, ui, open, allowed, stored, loading,
                   pending, changes, events, cut>>

\* A new worker takes the cached settings from storage.session and says hello.
Evict ==
    /\ Fault /\ Broken /\ ack' = {}
    /\ allowed' = stored /\ loading' = {}
    /\ hello' = FALSE
    /\ UNCHANGED <<database, up, now, swept, ui, open, stored, pending, changes,
                   events, cut>>

\* The browser quits: storage.session goes with it, and nothing is reported.
Quit ==
    /\ Fault /\ Broken /\ ack' = {}
    /\ open' = {} /\ allowed' = FALSE /\ stored' = FALSE /\ loading' = {}
    /\ pending' = [tabs |-> Nothing, win |-> "none"] /\ hello' = FALSE
    /\ UNCHANGED <<database, up, now, swept, ui, changes, events, cut>>

Next ==
    \/ \E t \in Tab : TabShown(t) \/ TabClosed(t)
    \/ Flush \/ AlarmLoads \/ AlarmReconciles \/ SayHello \/ HearSettings
    \/ Deliver \/ WriteAck
    \/ \E v \in BOOLEAN \ {setting} : SetCapturePrivate(v)
    \/ \E h \in TtlAsked : SetPrivateTtl(h)
    \/ PushSettings
    \/ Tick \/ Sweep \/ TakeSnapshot \/ Start
    \/ Die \/ DieBeforePurge \/ DieRotating
    \/ BreakConnection \/ Evict \/ Quit

Spec == Init /\ [][Next]_vars

-----------------------------------------------------------------------------
\* Types, the clamped ttl among them (settings.rs: one hour to one week).
TypeOK ==
    /\ setting \in BOOLEAN /\ ttl \in 1..MaxTtl /\ rows \subseteq Row
    /\ winRow \in BOOLEAN /\ made \in Nat /\ keys \in Seq(DataKey)
    /\ up \in BOOLEAN /\ now \in Nat /\ swept \in Nat /\ ui \in {"idle", "push"}
    /\ ack \subseteq BOOLEAN
    /\ linked \in BOOLEAN /\ registered \in BOOLEAN
    /\ toAgent \in Seq(Message) /\ toExt \in Seq(Word)
    /\ open \subseteq Tab /\ allowed \in BOOLEAN /\ stored \in BOOLEAN
    /\ loading \subseteq BOOLEAN
    /\ pending \in [tabs : [Tab -> Mark], win : Mark] /\ hello \in BOOLEAN
    /\ cut \in BOOLEAN

\* settings.rs: turning capture off deletes every private row at once, those of
\* every snapshot included, and none comes back by whatever the extensions
\* still send: rows remain only where a crash came before the purge.
OffMeansPurged == ~setting /\ ~cut => rows = {}

\* And whatever remains there is only what was there: with the setting off no
\* tab is stored that was not, and none is kept longer.
Contents(rs) == {<<r.tab, r.key, r.updated, r.expires>> : r \in rs}
OffStoresNothing ==
    [][~setting' => Contents(rows') \subseteq Contents(rows)]_vars

\* main.rs: the ttl is a promise about wall-clock time.  While the agent runs no
\* row, copied or not, is older than its ttl by more than one sweep interval.
KeptNoLonger == up => \A r \in rows : now <= r.expires + SweepEvery

\* keys.rs: every row can be opened, by a key that was not due when it sealed
\* the row, and at most the newest key is in use, whatever crashes cut short.
RowsUnderTheirKey ==
    /\ \A r \in rows : /\ r.key \in DOMAIN keys
                       /\ keys[r.key].created <= r.updated
                       /\ r.updated < keys[r.key].created + RotateAfter
    /\ \A k \in Unretired(keys) : k = Len(keys)

=============================================================================
