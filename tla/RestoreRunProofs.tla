-------------------------- MODULE RestoreRunProofs --------------------------
(***************************************************************************)
(* Theorems about restores and undo, for any number of applications,       *)
(* browsers, urls, runs and snapshots, any retention and any episode.      *)
(***************************************************************************)
EXTENDS RestoreRun, FiniteSetTheorems, SequenceTheorems, WellFoundedInduction, TLAPS

-----------------------------------------------------------------------------
(* Numbers and finite sets.                                                *)

LEMMA Least ==
    ASSUME NEW T, T \subseteq Nat, T # {}
    PROVE  \E x \in T : \A y \in T : x <= y
  <1>1. PICK x \in T : \A y \in T : ~(<<y, x>> \in OpToRel(<, Nat))
    BY NatLessThanWellFounded, WFMin
  <1>2. ASSUME NEW y \in T, y < x PROVE FALSE
    <2>1. <<y, x>> \in OpToRel(<, Nat)
      BY <1>2 DEF OpToRel
    <2> QED BY <2>1, <1>1
  <1>3. \A y \in T : ~(y < x)
    BY <1>2
  <1> QED BY <1>3

\* The newest of some rows is one of them and no older than any.
LEMMA NewestIsOne ==
    ASSUME NEW n \in Nat, NEW S, S \subseteq 1 .. n, S # {}
    PROVE  Newest(S) \in S /\ \A j \in S : j <= Newest(S)
  <1> DEFINE T == {k \in Nat : \E i \in S : k = n - i}
  <1>1. T \subseteq Nat
    OBVIOUS
  <1>2. \A i \in S : n - i \in Nat
    BY SMT
  <1>3. T # {}
    BY <1>2
  <1> HIDE DEF T
  <1>4. PICK x \in T : \A y \in T : x <= y
    BY <1>1, <1>3, Least
  <1>5. PICK i \in S : x = n - i
    BY DEF T
  <1>6. \A y \in S : n - y \in T
    BY <1>2 DEF T
  <1>7. \A y \in S : n - i <= n - y
    BY <1>4, <1>5, <1>6
  <1>8. \A y \in S : y <= i
    BY <1>7
  <1> QED BY <1>8 DEF Newest

LEMMA TabsAreFinite == IsFiniteSet(Tab)
  <1>1. IsFiniteSet(1 .. MaxCopies) /\ IsFiniteSet(Opener)
    BY FS_Interval, BoundsAssumption DEF Opener
  <1>2. IsFiniteSet(BOOLEAN)
    <2>1. BOOLEAN = {TRUE} \cup {FALSE}
      OBVIOUS
    <2>2. IsFiniteSet({TRUE}) /\ IsFiniteSet({FALSE})
      BY FS_Singleton
    <2>3. IsFiniteSet({TRUE} \cup {FALSE})
      BY <2>2, FS_Union
    <2> QED BY <2>1, <2>3
  <1> DEFINE P == (1 .. MaxCopies) \X (Browser \X (Url \X (BOOLEAN \X Opener)))
             f == [t \in Tab |-> <<t.id, <<t.browser, <<t.url, <<t.lazy, t.by>>>>>>>>]
  <1>3. IsFiniteSet(P)
    BY <1>1, <1>2, FiniteAssumption, FS_Product
  <1>4. f \in [Tab -> P]
    BY DEF Tab
  <1>5. \A s, t \in Tab : f[s] = f[t] => s = t
    BY DEF Tab
  <1>6. f \in Injection(Tab, P)
    BY <1>4, <1>5 DEF Injection, IsInjective
  <1> QED BY <1>3, <1>6, FS_Injection
-----------------------------------------------------------------------------
(* What the variables hold.                                                *)

Snapshot == [kind : {"shutdown", "pre_restore", "deleted"}, whole : BOOLEAN,
             apps : [App -> Opener \cup {NONE}], tabs : SUBSET Tab]
RunRow == [snap : Nat, started : Nat, finished : BOOLEAN, undo : Nat \cup {NONE},
           items : [Url -> Status]]
Job == [browser : Browser, run : Nat, want : SUBSET Tab, done : BOOLEAN,
        items : [Url -> Status]]
Choice == [phase : {"offer", "launch"}, snap : Nat, apps : SUBSET App,
           waiting : SUBSET Browser, run : Nat \cup {NONE}]

DesktopTyped ==
    /\ apps \in [App -> Opener \cup {NONE}]
    /\ tabs \subseteq Tab
    /\ live \in Content

StoreTyped ==
    /\ snaps \in Seq(Snapshot)
    /\ runs \in Seq(RunRow)
    /\ Len(runs) <= MaxRuns
    /\ \A i \in DOMAIN runs :
          /\ runs[i].snap \in DOMAIN snaps
          /\ runs[i].undo \in DOMAIN snaps \cup {NONE}
    /\ clock \in Nat

AgentTyped ==
    /\ pending \in DOMAIN snaps \cup {NONE}
    /\ chosen # NONE => /\ chosen \in Choice
                        /\ chosen.snap \in DOMAIN snaps
                        /\ chosen.phase = "launch" => chosen.run \in DOMAIN runs
    /\ up \subseteq Browser
    /\ agent # "up" => chosen = NONE /\ up = {}
    /\ agent = "copying" /\ live # Nothing => snaps # <<>>

JobsTyped ==
    /\ jobs \subseteq Job
    /\ \A j \in jobs : j.run \in DOMAIN runs

Typed == DesktopTyped /\ StoreTyped /\ AgentTyped /\ JobsTyped

LEMMA TypedImpliesTypeOK == Typed => TypeOK
  <1> SUFFICES ASSUME Typed PROVE TypeOK
    OBVIOUS
  <1> USE DEF Typed, DesktopTyped, StoreTyped, AgentTyped, JobsTyped
  <1>1. \A i \in DOMAIN snaps :
          /\ snaps[i].kind \in {"shutdown", "pre_restore", "deleted"}
          /\ [apps |-> snaps[i].apps, tabs |-> snaps[i].tabs] \in Content
    <2> TAKE i \in DOMAIN snaps
    <2>1. snaps[i] \in Snapshot
      OBVIOUS
    <2> QED BY <2>1 DEF Snapshot, Content
  <1>2. \A i \in DOMAIN runs : runs[i].items \in [Url -> Status]
    <2> TAKE i \in DOMAIN runs
    <2>1. runs[i] \in RunRow
      OBVIOUS
    <2> QED BY <2>1 DEF RunRow
  <1> QED BY <1>1, <1>2 DEF TypeOK

LEMMA TypedInit == Init => Typed
  <1> SUFFICES ASSUME Init PROVE Typed
    OBVIOUS
  <1>1. DesktopTyped
    <2>1. 0 \in Opener
      BY BoundsAssumption DEF Opener
    <2>2. PICK A \in SUBSET App, n \in [Browser -> [Url -> 0 .. MaxCopies]] :
            live = [apps |-> [a \in App |-> IF a \in A THEN 0 ELSE NONE],
                    tabs |-> {t \in Tab : t.by = 0 /\ ~t.lazy /\ t.id <= n[t.browser][t.url]}]
      BY DEF Init
    <2>3. live \in Content
      BY <2>1, <2>2 DEF Content
    <2> QED BY <2>3 DEF Init, DesktopTyped, Nothing
  <1>2. StoreTyped
    BY BoundsAssumption, EmptySeq DEF Init, StoreTyped
  <1>3. AgentTyped /\ JobsTyped
    BY DEF Init, AgentTyped, JobsTyped
  <1> QED BY <1>1, <1>2, <1>3 DEF Typed

-----------------------------------------------------------------------------
(* What opening a run does.                                                *)

UndoCopy(rows) ==
    [kind |-> "pre_restore", whole |-> TRUE, apps |-> rows.apps, tabs |-> rows.tabs]

NewRun(s, items, done, undo) ==
    [snap |-> s, started |-> clock, finished |-> done, undo |-> undo, items |-> items]

\* The undo point of a run is a fresh copy, or that of the newest of its episode.
Shares(s, undo) ==
    snaps' = snaps /\ \E n \in EpisodeRuns(s) :
                          undo = runs[n].undo /\ \A i \in EpisodeRuns(s) : i <= n
Fresh(s, rows, undo) ==
    /\ EpisodeRuns(s) = {}
    /\ \/ snaps' = snaps /\ undo = NONE
       \/ snaps' = Append(snaps, UndoCopy(rows)) /\ undo = Len(snaps) + 1

LEMMA CopyTyped == ASSUME NEW rows \in Content PROVE UndoCopy(rows) \in Snapshot
  BY DEF Content, Snapshot, UndoCopy

LEMMA BeginRunEffect ==
    ASSUME StoreTyped, NEW s \in DOMAIN snaps, NEW rows \in Content,
           NEW items \in [Url -> Status], NEW done \in BOOLEAN,
           BeginRun(s, rows, items, done)
    PROVE  /\ Len(runs) < MaxRuns
           /\ \E undo \in DOMAIN snaps' \cup {NONE} :
                 /\ runs' = Append(runs, NewRun(s, items, done, undo))
                 /\ Shares(s, undo) \/ Fresh(s, rows, undo)
  <1> USE DEF StoreTyped
  <1>1. CASE EpisodeRuns(s) # {}
    <2> DEFINE n == Newest(EpisodeRuns(s))
    <2>1. EpisodeRuns(s) \subseteq 1 .. Len(runs) /\ Len(runs) \in Nat
      BY LenProperties DEF EpisodeRuns
    <2>2. n \in EpisodeRuns(s) /\ \A i \in EpisodeRuns(s) : i <= n
      BY <1>1, <2>1, NewestIsOne
    <2> HIDE DEF n
    <2>3. runs[n].undo \in DOMAIN snaps \cup {NONE}
      BY <2>2 DEF EpisodeRuns
    <2>4. snaps' = snaps /\ runs' = Append(runs, NewRun(s, items, done, runs[n].undo))
      BY <1>1 DEF BeginRun, NewRun, n
    <2>5. Shares(s, runs[n].undo)
      BY <2>2, <2>4 DEF Shares
    <2> QED BY <2>3, <2>4, <2>5 DEF BeginRun
  <1>2. CASE EpisodeRuns(s) = {} /\ rows = Nothing
    <2>1. snaps' = snaps /\ runs' = Append(runs, NewRun(s, items, done, NONE))
      BY <1>2 DEF BeginRun, NewRun, CreateFromLive
    <2> QED BY <1>2, <2>1 DEF Fresh, BeginRun
  <1>3. CASE EpisodeRuns(s) = {} /\ rows # Nothing
    <2> DEFINE copied == Append(snaps, UndoCopy(rows))
    <2>1. /\ copied # snaps /\ Len(copied) = Len(snaps) + 1
          /\ Len(snaps) + 1 \in DOMAIN copied
      <3>1. copied \in Seq(Snapshot) /\ Len(copied) = Len(snaps) + 1
        BY CopyTyped, AppendProperties
      <3>2. Len(snaps) \in Nat /\ DOMAIN copied = 1 .. Len(copied)
        BY <3>1, LenProperties
      <3> QED BY <3>1, <3>2
    <2>2. CreateFromLive("pre_restore", rows) = copied
      BY <1>3 DEF CreateFromLive, UndoCopy
    <2> HIDE DEF copied
    <2>3. snaps' = copied /\ runs' = Append(runs, NewRun(s, items, done, Len(snaps) + 1))
      BY <1>3, <2>1, <2>2 DEF BeginRun, NewRun
    <2>4. Fresh(s, rows, Len(snaps) + 1)
      BY <1>3, <2>3 DEF Fresh, copied
    <2> QED BY <2>1, <2>3, <2>4 DEF BeginRun
  <1> QED BY <1>1, <1>2, <1>3

\* In particular nothing recorded changes, and the new rows are typed.
Grows(old, new) ==
    /\ DOMAIN old \subseteq DOMAIN new
    /\ \A i \in DOMAIN old : new[i] = old[i]

LEMMA AppendGrows ==
    ASSUME NEW S, NEW q \in Seq(S), NEW e \in S
    PROVE  /\ Append(q, e) \in Seq(S) /\ Grows(q, Append(q, e))
           /\ DOMAIN Append(q, e) = DOMAIN q \cup {Len(q) + 1}
           /\ Append(q, e)[Len(q) + 1] = e
           /\ Len(q) + 1 \notin DOMAIN q
  <1>1. /\ DOMAIN q = 1 .. Len(q) /\ Len(q) \in Nat
        /\ DOMAIN Append(q, e) = 1 .. Len(Append(q, e))
    BY AppendProperties, LenProperties
  <1> QED BY <1>1, AppendProperties DEF Grows

LEMMA BeginRunTyped ==
    ASSUME StoreTyped, NEW s \in DOMAIN snaps, NEW rows \in Content,
           NEW items \in [Url -> Status], NEW done \in BOOLEAN,
           BeginRun(s, rows, items, done), clock' = clock
    PROVE  /\ StoreTyped' /\ Grows(snaps, snaps') /\ Grows(runs, runs')
           /\ DOMAIN runs' = DOMAIN runs \cup {Len(runs) + 1}
           /\ Len(runs) + 1 \in Opener /\ Len(runs) + 1 \notin DOMAIN runs
           /\ \E undo \in DOMAIN snaps' \cup {NONE} :
                 /\ runs'[Len(runs) + 1] = NewRun(s, items, done, undo)
                 /\ Shares(s, undo) \/ Fresh(s, rows, undo)
  <1>1. PICK undo \in DOMAIN snaps' \cup {NONE} :
            /\ runs' = Append(runs, NewRun(s, items, done, undo))
            /\ Shares(s, undo) \/ Fresh(s, rows, undo)
    BY BeginRunEffect
  <1>2. snaps' = snaps \/ snaps' = Append(snaps, UndoCopy(rows))
    BY <1>1 DEF Shares, Fresh
  <1>3. /\ snaps' \in Seq(Snapshot) /\ Grows(snaps, snaps')
        /\ DOMAIN snaps' \subseteq Nat
    <2>1. snaps \in Seq(Snapshot) /\ Grows(snaps, snaps)
      BY DEF StoreTyped, Grows
    <2>2. snaps' \in Seq(Snapshot) /\ Grows(snaps, snaps')
      <3>1. /\ Append(snaps, UndoCopy(rows)) \in Seq(Snapshot)
            /\ Grows(snaps, Append(snaps, UndoCopy(rows)))
        BY <2>1, CopyTyped, AppendGrows
      <3> QED BY <1>2, <2>1, <3>1
    <2>3. DOMAIN snaps' = 1 .. Len(snaps')
      BY <2>2, LenProperties
    <2> QED BY <2>2, <2>3
  <1>4. NewRun(s, items, done, undo) \in RunRow
    <2>1. s \in Nat
      BY <1>3 DEF Grows
    <2>2. undo \in Nat \cup {NONE}
      BY <1>3
    <2> QED BY <2>1, <2>2 DEF NewRun, RunRow, StoreTyped
  <1>5. /\ runs' \in Seq(RunRow) /\ Grows(runs, runs')
        /\ DOMAIN runs' = DOMAIN runs \cup {Len(runs) + 1}
        /\ runs'[Len(runs) + 1] = NewRun(s, items, done, undo)
        /\ Len(runs) + 1 \notin DOMAIN runs
    BY <1>1, <1>4, AppendGrows DEF StoreTyped
  <1>6. Len(runs') = Len(runs) + 1 /\ Len(runs) \in Nat /\ Len(runs) < MaxRuns
    BY <1>1, <1>4, AppendProperties, LenProperties, BeginRunEffect DEF StoreTyped
  <1>7. \A i \in DOMAIN runs' :
            /\ runs'[i].snap \in DOMAIN snaps'
            /\ runs'[i].undo \in DOMAIN snaps' \cup {NONE}
    <2> TAKE i \in DOMAIN runs'
    <2>1. CASE i \in DOMAIN runs
      BY <1>3, <1>5, <2>1 DEF Grows, StoreTyped
    <2>2. CASE i = Len(runs) + 1
      BY <1>3, <1>5, <2>2 DEF Grows, NewRun
    <2> QED BY <1>5, <2>1, <2>2
  <1>8. StoreTyped'
    BY <1>3, <1>5, <1>6, <1>7, BoundsAssumption DEF StoreTyped
  <1>9. Len(runs) + 1 \in Opener
    BY <1>6, BoundsAssumption DEF Opener
  <1> QED BY <1>1, <1>3, <1>5, <1>8, <1>9

-----------------------------------------------------------------------------
(* What the other operations do to the rows.                               *)

LEMMA CreateTyped ==
    ASSUME StoreTyped, NEW rows \in Content, NEW kind \in {"shutdown", "pre_restore"}
    PROVE  /\ CreateFromLive(kind, rows) \in Seq(Snapshot)
           /\ Grows(snaps, CreateFromLive(kind, rows))
  <1> DEFINE e == [kind |-> kind, whole |-> TRUE, apps |-> rows.apps, tabs |-> rows.tabs]
  <1>1. e \in Snapshot
    BY DEF Content, Snapshot
  <1>2. snaps \in Seq(Snapshot)
    BY DEF StoreTyped
  <1>3. Append(snaps, e) \in Seq(Snapshot) /\ Grows(snaps, Append(snaps, e))
    BY <1>1, <1>2, AppendGrows
  <1> QED BY <1>2, <1>3 DEF CreateFromLive, Grows

LEMMA PartialTyped ==
    ASSUME StoreTyped, NEW rows \in Content
    PROVE  /\ PartialCopy(rows) \in Seq(Snapshot) /\ Grows(snaps, PartialCopy(rows))
           /\ rows # Nothing => PartialCopy(rows) # <<>>
  <1> DEFINE e == [kind |-> "shutdown", whole |-> FALSE,
                   apps |-> Nothing.apps, tabs |-> rows.tabs]
  <1>1. e \in Snapshot
    BY DEF Content, Snapshot, Nothing
  <1>2. snaps \in Seq(Snapshot)
    BY DEF StoreTyped
  <1>3. /\ Append(snaps, e) \in Seq(Snapshot) /\ Grows(snaps, Append(snaps, e))
        /\ Append(snaps, e) # <<>>
    BY <1>1, <1>2, AppendGrows, AppendProperties
  <1> QED BY <1>2, <1>3 DEF PartialCopy, Grows

LEMMA SnapsGrow ==
    ASSUME StoreTyped, snaps' \in Seq(Snapshot), Grows(snaps, snaps'), UNCHANGED <<runs, clock>>
    PROVE  StoreTyped'
  BY DEF StoreTyped, Grows

\* One run's row is rewritten in two of its columns.
Edited(n, finished, items) ==
    /\ DOMAIN runs' = DOMAIN runs
    /\ \A i \in DOMAIN runs :
          runs'[i] = IF i = n THEN [runs[n] EXCEPT !.finished = finished, !.items = items]
                     ELSE runs[i]

LEMMA RowEdited ==
    ASSUME NEW r \in RunRow, NEW finished \in BOOLEAN, NEW items \in [Url -> Status]
    PROVE  [r EXCEPT !.finished = finished, !.items = items] \in RunRow
  <1>1. [r EXCEPT !.finished = finished] \in RunRow
    BY DEF RunRow
  <1>2. \A q \in RunRow : [q EXCEPT !.items = items] \in RunRow
    BY DEF RunRow
  <1> QED BY <1>1, <1>2

LEMMA EditTyped ==
    ASSUME StoreTyped, NEW n \in DOMAIN runs, NEW finished \in BOOLEAN,
           NEW items \in [Url -> Status], UNCHANGED <<snaps, clock>>,
           runs' = [runs EXCEPT ![n] = [@ EXCEPT !.finished = finished, !.items = items]]
    PROVE  StoreTyped' /\ Edited(n, finished, items)
  <1> DEFINE e == [runs[n] EXCEPT !.finished = finished, !.items = items]
  <1>1. runs \in Seq(RunRow) /\ DOMAIN runs = 1 .. Len(runs) /\ Len(runs) \in Nat
    BY LenProperties DEF StoreTyped
  <1>2. runs[n] \in RunRow /\ e \in RunRow
    <2>1. runs[n] \in RunRow
      BY <1>1, ElementOfSeq
    <2> QED BY <2>1, RowEdited
  <1>3. /\ runs' \in Seq(RunRow) /\ Len(runs') = Len(runs)
        /\ \A i \in DOMAIN runs : runs'[i] = IF i = n THEN e ELSE runs[i]
    <2> HIDE DEF e
    <2>1. runs' = [runs EXCEPT ![n] = e]
      BY DEF e
    <2> QED BY <1>1, <1>2, <2>1, ExceptSeq
  <1>4. DOMAIN runs' = DOMAIN runs
    BY <1>1, <1>3, LenProperties
  <1>5. \A i \in DOMAIN runs' : runs'[i].snap = runs[i].snap /\ runs'[i].undo = runs[i].undo
    BY <1>2, <1>3, <1>4 DEF RunRow
  <1> QED BY <1>3, <1>4, <1>5 DEF StoreTyped, Edited

\* The outcomes of a job name no status that is not one, and none is pending.
LEMMA OutcomesTyped ==
    ASSUME NEW want, NEW missing, NEW failed, NEW f \in Outcomes(want, missing, failed)
    PROVE  /\ f \in [Url -> Status]
           /\ \A u \in Url : /\ f[u] # "pending"
                             /\ u \in Urls(want) => f[u] # "none"
                             /\ f[u] = "launched" => u \in Urls(missing \ failed)
  BY DEF Outcomes, Status

LEMMA OfferToTyped ==
    ASSUME Typed, NEW b \in Browser, OfferTo(b), UNCHANGED <<clock, pending>>
    PROVE  StoreTyped' /\ JobsTyped' /\ Grows(snaps, snaps') /\ Grows(runs, runs')
  <1> USE DEF Typed
  <1>1. CASE UNCHANGED <<snaps, runs, jobs>>
    BY <1>1 DEF StoreTyped, JobsTyped, Grows
  <1>2. CASE ~UNCHANGED <<snaps, runs, jobs>>
    <2> DEFINE want == TabsOf(snaps[pending].tabs, b)
    <2>1. pending \in DOMAIN snaps
      BY <1>2 DEF OfferTo, AgentTyped
    <2>2. snaps[pending] \in Snapshot
      BY <2>1 DEF StoreTyped
    <2>3. want \subseteq Tab /\ live \in Content
      BY <2>2 DEF Snapshot, TabsOf, DesktopTyped
    <2> HIDE DEF want
    <2>4. /\ BeginRun(pending, live, PendingItems(want), FALSE)
          /\ jobs' = jobs \cup {[browser |-> b, run |-> Len(runs) + 1, want |-> want,
                                 done |-> FALSE, items |-> NoItems]}
      BY <1>2 DEF OfferTo, want
    <2>5. NoItems \in [Url -> Status] /\ PendingItems(want) \in [Url -> Status]
      BY DEF NoItems, PendingItems, Status
    <2>6. /\ StoreTyped' /\ Grows(snaps, snaps') /\ Grows(runs, runs')
          /\ Len(runs) + 1 \in DOMAIN runs' /\ Len(runs) + 1 \in Opener
      BY <2>1, <2>3, <2>4, <2>5, BeginRunTyped
    <2>7. [browser |-> b, run |-> Len(runs) + 1, want |-> want,
           done |-> FALSE, items |-> NoItems] \in Job
      BY <2>3, <2>5, <2>6 DEF Job, Opener
    <2>8. \A j \in jobs' : j \in Job /\ j.run \in DOMAIN runs'
      <3> TAKE j \in jobs'
      <3>1. CASE j \in jobs
        BY <2>6, <3>1 DEF JobsTyped, Grows
      <3>2. CASE j \notin jobs
        <4>1. j = [browser |-> b, run |-> Len(runs) + 1, want |-> want,
                   done |-> FALSE, items |-> NoItems]
          BY <2>4, <3>2
        <4> QED BY <2>6, <2>7, <4>1
      <3> QED BY <3>1, <3>2
    <2> QED BY <2>6, <2>8 DEF JobsTyped
  <1> QED BY <1>1, <1>2

-----------------------------------------------------------------------------
(* Each action keeps the types.                                            *)

LEMMA Actions ==
    ASSUME Next
    PROVE  \/ StartCopy \/ StartDone \/ AutoApps
           \/ \E b \in Browser : Connect(b)
           \/ \E b \in Browser : Report(b)
           \/ \E b \in Browser : Disconnect(b)
           \/ \E b \in Browser : OfferConnected(b)
           \/ \E j \in jobs : ApplyRestore(j)
           \/ \E j \in jobs : Reply(j)
           \/ Answer \/ ThreadBegin \/ ThreadLaunch \/ UndoWindows \/ CloseTabs
           \/ Capture \/ Tick
           \/ \E a \in App : UserApp(a)
           \/ \E a \in App : AppExits(a)
           \/ \E b \in Browser, u \in Url : UserOpensTab(b, u)
           \/ \E t \in tabs : UserClosesTab(t)
           \/ \E t \in tabs : Activate(t)
           \/ QueryEnd \/ EndSession \/ Crash
  BY DEF Next

LEMMA AgentKept ==
    ASSUME AgentTyped, UNCHANGED <<agentVars, up>>, Grows(snaps, snaps'), Grows(runs, runs'),
           agent = "copying" => UNCHANGED <<live, snaps>>
    PROVE  AgentTyped'
  BY DEF AgentTyped, agentVars, Grows

LEMMA JobsKept ==
    ASSUME JobsTyped, jobs' \subseteq jobs, DOMAIN runs \subseteq DOMAIN runs'
    PROVE  JobsTyped'
  BY DEF JobsTyped

LEMMA StoreKept ==
    ASSUME StoreTyped, UNCHANGED <<snaps, runs, clock>>
    PROVE  StoreTyped' /\ Grows(snaps, snaps') /\ Grows(runs, runs')
  BY DEF StoreTyped, Grows

LEMMA LaunchedTyped ==
    ASSUME DesktopTyped, NEW wanted, NEW n \in Opener
    PROVE  Launched(wanted, n) \in [App -> Opener \cup {NONE}]
  BY DEF DesktopTyped, Launched

LEMMA CapturedTyped ==
    ASSUME DesktopTyped, Captured
    PROVE  live' \in Content
  BY DEF DesktopTyped, Captured, Content

LEMMA ZeroOpens == 0 \in Opener
  BY BoundsAssumption DEF Opener

LEMMA RunOpens ==
    ASSUME StoreTyped, NEW n \in DOMAIN runs
    PROVE  n \in Opener
  <1>1. DOMAIN runs = 1 .. Len(runs) /\ Len(runs) \in Nat
    BY LenProperties DEF StoreTyped
  <1> QED BY <1>1, BoundsAssumption DEF StoreTyped, Opener

LEMMA StartCopyTyped == ASSUME Typed, StartCopy PROVE Typed'
  <1> USE DEF Typed
  <1>1. live \in Content
    BY DEF DesktopTyped
  <1>2. /\ snaps' \in Seq(Snapshot) /\ Grows(snaps, snaps')
        /\ live # Nothing => snaps' # <<>>
    BY <1>1, PartialTyped DEF StartCopy
  <1>3. StoreTyped' /\ Grows(runs, runs')
    BY <1>2, SnapsGrow DEF StartCopy, Grows
  <1>4. DesktopTyped' /\ JobsTyped'
    BY <1>3 DEF StartCopy, DesktopTyped, JobsTyped, Grows
  <1>5. AgentTyped'
    BY <1>2, <1>3 DEF StartCopy, AgentTyped, Grows
  <1> QED BY <1>3, <1>4, <1>5

\* The row that is completed, and the rows that pruning leaves.
LEMMA StartDoneRows ==
    ASSUME Typed, StartDone
    PROVE  /\ snaps' \in Seq(Snapshot) /\ DOMAIN snaps' = DOMAIN snaps
           /\ \A i \in DOMAIN snaps :
                 snaps'[i] = IF i \in Doomed(Retention) THEN Deleted
                             ELSE IF live # Nothing /\ i = Len(snaps)
                             THEN [snaps[i] EXCEPT !.whole = TRUE, !.apps = live.apps]
                             ELSE snaps[i]
           /\ live # Nothing => Len(snaps) \in DOMAIN snaps
  <1> DEFINE e == [snaps[Len(snaps)] EXCEPT !.whole = TRUE, !.apps = live.apps]
             copied == [snaps EXCEPT ![Len(snaps)] = e]
             next == IF live = Nothing THEN snaps ELSE copied
  <1>1. /\ snaps \in Seq(Snapshot) /\ live \in Content
        /\ DOMAIN snaps = 1 .. Len(snaps) /\ Len(snaps) \in Nat
    BY LenProperties DEF Typed, StoreTyped, DesktopTyped
  <1>2. live # Nothing => Len(snaps) \in 1 .. Len(snaps)
    BY <1>1, EmptySeq DEF Typed, AgentTyped, StartDone
  <1>3. live # Nothing => e \in Snapshot
    <2> SUFFICES ASSUME live # Nothing PROVE e \in Snapshot
      OBVIOUS
    <2>1. snaps[Len(snaps)] \in Snapshot /\ live.apps \in [App -> Opener \cup {NONE}]
      BY <1>1, <1>2, ElementOfSeq DEF Content
    <2>2. \A r \in Snapshot : [r EXCEPT !.whole = TRUE] \in Snapshot
      BY DEF Snapshot
    <2>3. \A r \in Snapshot : [r EXCEPT !.apps = live.apps] \in Snapshot
      BY <2>1 DEF Snapshot
    <2> QED BY <2>1, <2>2, <2>3
  <1>4. /\ next \in Seq(Snapshot) /\ Len(next) = Len(snaps)
        /\ \A i \in 1 .. Len(snaps) :
              next[i] = IF live # Nothing /\ i = Len(snaps) THEN e ELSE snaps[i]
    <2> HIDE DEF e
    <2>1. CASE live = Nothing
      BY <1>1, <2>1
    <2>2. CASE live # Nothing
      <3>1. Len(snaps) \in 1 .. Len(snaps) /\ e \in Snapshot
        BY <1>2, <1>3, <2>2
      <3>2. /\ copied \in Seq(Snapshot) /\ Len(copied) = Len(snaps)
            /\ \A i \in 1 .. Len(snaps) : copied[i] = IF i = Len(snaps) THEN e ELSE snaps[i]
        BY <1>1, <3>1, ExceptSeq
      <3> QED BY <2>2, <3>2
    <2> QED BY <2>1, <2>2
  <1>5. DOMAIN next = 1 .. Len(snaps) /\ \A i \in 1 .. Len(snaps) : next[i] \in Snapshot
    BY <1>1, <1>4, LenProperties, ElementOfSeq
  <1>6. snaps' = [i \in 1 .. Len(snaps) |-> IF i \in Doomed(Retention) THEN Deleted ELSE next[i]]
    BY <1>1, <1>5 DEF StartDone
  <1>7. Deleted \in Snapshot
    BY DEF Deleted, Snapshot, Nothing
  <1> HIDE DEF next, e
  <1>8. snaps' \in Seq(Snapshot)
    BY <1>1, <1>5, <1>6, <1>7
  <1>9. DOMAIN snaps' = DOMAIN snaps
    BY <1>1, <1>6
  <1>10. \A i \in DOMAIN snaps : snaps'[i] = IF i \in Doomed(Retention) THEN Deleted
                                              ELSE IF live # Nothing /\ i = Len(snaps)
                                              THEN e ELSE snaps[i]
    BY <1>1, <1>4, <1>6
  <1> QED BY <1>1, <1>2, <1>8, <1>9, <1>10 DEF e

LEMMA StartDoneTyped == ASSUME Typed, StartDone PROVE Typed'
  <1> USE DEF Typed
  <1>1. snaps' \in Seq(Snapshot) /\ DOMAIN snaps' = DOMAIN snaps
    BY StartDoneRows
  <1>2. StoreTyped'
    BY <1>1 DEF StartDone, StoreTyped, bounds
  <1>3. DesktopTyped' /\ JobsTyped'
    BY DEF StartDone, DesktopTyped, JobsTyped
  <1>4. pending' \in DOMAIN snaps' \cup {NONE}
    BY <1>1, StartDoneRows DEF StartDone
  <1>5. agent' # "copying" /\ chosen' = NONE /\ up' = {}
    BY DEF StartDone, AgentTyped
  <1> QED BY <1>2, <1>3, <1>4, <1>5 DEF AgentTyped

LEMMA AutoAppsTyped == ASSUME Typed, AutoApps PROVE Typed'
  <1> USE DEF Typed
  <1>1. CASE UNCHANGED <<apps, snaps, runs>>
    <2>1. StoreTyped' /\ Grows(snaps, snaps') /\ Grows(runs, runs')
      BY <1>1, StoreKept DEF AutoApps, bounds
    <2>2. DesktopTyped' /\ JobsTyped'
      BY <1>1 DEF AutoApps, DesktopTyped, JobsTyped
    <2>3. AgentTyped'
      BY <1>1 DEF AutoApps, AgentTyped
    <2> QED BY <2>1, <2>2, <2>3
  <1>2. CASE ~UNCHANGED <<apps, snaps, runs>>
    <2>1. pending \in DOMAIN snaps /\ live \in Content
      BY <1>2 DEF AutoApps, AgentTyped, DesktopTyped
    <2>2. BeginRun(pending, live, NoItems, TRUE)
      BY <1>2 DEF AutoApps
    <2>3. NoItems \in [Url -> Status]
      BY DEF NoItems, Status
    <2>4. StoreTyped' /\ Grows(snaps, snaps') /\ Grows(runs, runs') /\ Len(runs) + 1 \in Opener
      BY <2>1, <2>2, <2>3, BeginRunTyped DEF AutoApps, bounds
    <2>5. DesktopTyped'
      <3>1. PICK started : apps' = Launched(started, Len(runs) + 1)
        BY <1>2 DEF AutoApps
      <3>2. apps' \in [App -> Opener \cup {NONE}]
        BY <2>4, <3>1, LaunchedTyped
      <3> QED BY <3>2 DEF AutoApps, DesktopTyped
    <2>6. JobsTyped'
      BY <2>4 DEF AutoApps, JobsTyped, Grows
    <2>7. AgentTyped'
      BY <2>4 DEF AutoApps, AgentTyped, Grows
    <2> QED BY <2>4, <2>5, <2>6, <2>7
  <1> QED BY <1>1, <1>2

LEMMA ConnectTyped == ASSUME Typed, NEW b \in Browser, Connect(b) PROVE Typed'
  <1> USE DEF Typed
  <1>1. StoreTyped' /\ JobsTyped' /\ Grows(snaps, snaps') /\ Grows(runs, runs')
    BY OfferToTyped DEF Connect, bounds
  <1>2. DesktopTyped'
    BY DEF Connect, DesktopTyped
  <1>3. AgentTyped'
    BY <1>1 DEF Connect, AgentTyped, Grows
  <1> QED BY <1>1, <1>2, <1>3

LEMMA OfferConnectedTyped == ASSUME Typed, NEW b \in Browser, OfferConnected(b) PROVE Typed'
  <1> USE DEF Typed
  <1>1. StoreTyped' /\ JobsTyped' /\ Grows(snaps, snaps') /\ Grows(runs, runs')
    <2>1. CASE OfferTo(b)
      BY <2>1, OfferToTyped DEF OfferConnected, bounds
    <2>2. CASE UNCHANGED <<claimed, snaps, runs, jobs>>
      BY <2>2, StoreKept, JobsKept DEF OfferConnected, bounds
    <2> QED BY <2>1, <2>2 DEF OfferConnected
  <1>2. DesktopTyped'
    BY DEF OfferConnected, DesktopTyped
  <1>3. chosen \in Choice /\ chosen' = [chosen EXCEPT !.waiting = @ \ {b}]
    BY DEF OfferConnected, AgentTyped
  <1>4. /\ chosen' \in Choice /\ chosen'.snap = chosen.snap /\ chosen'.phase = chosen.phase
        /\ chosen'.run = chosen.run
    BY <1>3 DEF Choice
  <1>5. AgentTyped'
    BY <1>1, <1>4 DEF OfferConnected, AgentTyped, Grows
  <1> QED BY <1>1, <1>2, <1>5

LEMMA ReportTyped == ASSUME Typed, NEW b \in Browser, Report(b) PROVE Typed'
  <1> USE DEF Typed
  <1>1. StoreTyped' /\ Grows(snaps, snaps') /\ Grows(runs, runs')
    BY StoreKept DEF Report, bounds
  <1>2. DesktopTyped'
    BY DEF Report, DesktopTyped, Content, TabsOf
  <1>3. agent = "up"
    BY DEF Report, AgentTyped
  <1>4. AgentTyped' /\ JobsTyped'
    BY <1>1, <1>3, AgentKept, JobsKept DEF Report, Grows
  <1> QED BY <1>1, <1>2, <1>4

LEMMA DisconnectTyped == ASSUME Typed, NEW b \in Browser, Disconnect(b) PROVE Typed'
  <1> USE DEF Typed
  <1>1. StoreTyped' /\ Grows(snaps, snaps') /\ Grows(runs, runs')
    BY StoreKept DEF Disconnect, store
  <1>2. DesktopTyped'
    BY DEF Disconnect, DesktopTyped, store
  <1>3. AgentTyped' /\ JobsTyped'
    BY <1>1, JobsKept DEF Disconnect, AgentTyped, store, agentVars, Grows
  <1> QED BY <1>1, <1>2, <1>3

LEMMA ApplyRestoreTyped == ASSUME Typed, NEW j \in jobs, ApplyRestore(j) PROVE Typed'
  <1> USE DEF Typed
  <1>1. \E missing, failed, T : \E f \in Outcomes(j.want, missing, failed) :
            /\ T \in Opened(j, missing \ failed)
            /\ tabs' = tabs \cup T
            /\ jobs' = (jobs \ {j}) \cup {[j EXCEPT !.done = TRUE, !.items = f]}
    BY DEF ApplyRestore
  <1>2. PICK missing, failed, T, f :
            /\ f \in Outcomes(j.want, missing, failed)
            /\ T \in Opened(j, missing \ failed)
            /\ tabs' = tabs \cup T
            /\ jobs' = (jobs \ {j}) \cup {[j EXCEPT !.done = TRUE, !.items = f]}
    BY <1>1
  <1>3. StoreTyped' /\ Grows(snaps, snaps') /\ Grows(runs, runs')
    BY StoreKept DEF ApplyRestore, store, bounds
  <1>4. DesktopTyped'
    BY <1>2 DEF ApplyRestore, DesktopTyped, Opened, store
  <1>5. j \in Job /\ j.run \in DOMAIN runs
    BY DEF JobsTyped
  <1>6. f \in [Url -> Status]
    BY <1>2, OutcomesTyped
  <1>7. [j EXCEPT !.done = TRUE, !.items = f] \in Job
        /\ [j EXCEPT !.done = TRUE, !.items = f].run = j.run
    <2>1. [j EXCEPT !.done = TRUE] \in Job /\ [j EXCEPT !.done = TRUE].run = j.run
      BY <1>5 DEF Job
    <2>2. \A q \in Job : [q EXCEPT !.items = f] \in Job /\ [q EXCEPT !.items = f].run = q.run
      BY <1>6 DEF Job
    <2> QED BY <2>1, <2>2
  <1>8. JobsTyped'
    BY <1>2, <1>3, <1>5, <1>7 DEF JobsTyped, Grows
  <1>9. AgentTyped'
    BY <1>3, AgentKept DEF ApplyRestore, store
  <1> QED BY <1>3, <1>4, <1>8, <1>9

\* What a reply makes of the run's row.
LEMMA ReplyRows ==
    ASSUME Typed, NEW j \in jobs, Reply(j)
    PROVE  /\ StoreTyped' /\ j.run \in DOMAIN runs
           /\ \/ UNCHANGED runs
              \/ Edited(j.run, TRUE, [u \in Url |-> IF j.items[u] = "none" THEN runs[j.run].items[u]
                                                     ELSE j.items[u]])
  <1>1. j \in Job /\ j.run \in DOMAIN runs
    BY DEF Typed, JobsTyped
  <1>2. CASE UNCHANGED runs
    BY <1>1, <1>2, StoreKept DEF Reply, Typed, bounds
  <1>3. CASE ~UNCHANGED runs
    <2> DEFINE items == [u \in Url |-> IF j.items[u] = "none" THEN runs[j.run].items[u]
                                       ELSE j.items[u]]
    <2>1. runs[j.run] \in RunRow
      BY <1>1 DEF Typed, StoreTyped
    <2>2. items \in [Url -> Status]
      BY <1>1, <2>1 DEF Job, RunRow
    <2>3. runs' = [runs EXCEPT ![j.run] = [@ EXCEPT !.finished = TRUE, !.items = items]]
      BY <1>3 DEF Reply
    <2> HIDE DEF items
    <2>4. StoreTyped' /\ Edited(j.run, TRUE, items)
      BY <1>1, <2>2, <2>3, EditTyped DEF Reply, Typed, bounds
    <2> QED BY <1>1, <2>4 DEF items
  <1> QED BY <1>2, <1>3

LEMMA ReplyTyped == ASSUME Typed, NEW j \in jobs, Reply(j) PROVE Typed'
  <1> USE DEF Typed
  <1>1. StoreTyped' /\ DOMAIN runs' = DOMAIN runs
    BY ReplyRows DEF Edited
  <1>2. DesktopTyped'
    BY DEF Reply, DesktopTyped
  <1>3. JobsTyped'
    BY <1>1, JobsKept DEF Reply
  <1>4. AgentTyped'
    BY <1>1 DEF Reply, AgentTyped, agentVars
  <1> QED BY <1>1, <1>2, <1>3, <1>4

LEMMA ReviewedTyped == ASSUME Typed PROVE ReviewedSnapshot \subseteq DOMAIN snaps
  BY DEF Typed, AgentTyped, ReviewedSnapshot

LEMMA AnswerTyped == ASSUME Typed, Answer PROVE Typed'
  <1> USE DEF Typed
  <1>1. StoreTyped' /\ DesktopTyped' /\ JobsTyped'
    BY DEF Answer, StoreTyped, DesktopTyped, JobsTyped, store
  <1>2. AgentTyped'
    <2>1. CASE UNCHANGED chosen
      BY <2>1 DEF Answer, AgentTyped, store
    <2>2. CASE ~UNCHANGED chosen
      <3>1. PICK s \in ReviewedSnapshot : \E A \in SUBSET Running(snaps[s].apps) :
               chosen' = [phase |-> "offer", snap |-> s, apps |-> A, waiting |-> up, run |-> NONE]
        BY <2>2 DEF Answer
      <3>2. PICK A \in SUBSET Running(snaps[s].apps) :
               chosen' = [phase |-> "offer", snap |-> s, apps |-> A, waiting |-> up, run |-> NONE]
        BY <3>1
      <3>3. s \in DOMAIN snaps /\ s \in Nat /\ A \subseteq App
        BY ReviewedTyped, LenProperties DEF StoreTyped, Running
      <3>4. chosen' \in Choice /\ chosen'.snap = s /\ chosen'.phase = "offer"
        BY <3>2, <3>3 DEF Choice, AgentTyped
      <3> QED BY <3>3, <3>4 DEF Answer, AgentTyped, store
    <2> QED BY <2>1, <2>2
  <1> QED BY <1>1, <1>2

LEMMA ThreadBeginTyped == ASSUME Typed, ThreadBegin PROVE Typed'
  <1> USE DEF Typed
  <1>1. live' \in Content
    BY CapturedTyped DEF ThreadBegin
  <1>2. PICK rows \in Content : rows = live'
    BY <1>1
  <1>3. NoItems \in [Url -> Status]
    BY DEF NoItems, Status
  <1>4. chosen \in Choice /\ chosen.snap \in DOMAIN snaps /\ chosen.phase = "offer"
    BY DEF ThreadBegin, AgentTyped
  <1>5. BeginRun(chosen.snap, rows, NoItems, FALSE)
    BY <1>2 DEF ThreadBegin
  <1>6. /\ StoreTyped' /\ Grows(snaps, snaps') /\ Grows(runs, runs')
        /\ Len(runs) + 1 \in DOMAIN runs' /\ Len(runs) + 1 \in Opener
    BY <1>3, <1>4, <1>5, BeginRunTyped DEF ThreadBegin, bounds
  <1>7. DesktopTyped'
    BY <1>1 DEF ThreadBegin, DesktopTyped
  <1>8. JobsTyped'
    BY <1>6, JobsKept DEF ThreadBegin, Grows
  <1>9. agent = "up"
    BY DEF ThreadBegin, AgentTyped
  <1>10. CASE chosen' = NONE
    BY <1>6, <1>7, <1>8, <1>9, <1>10 DEF ThreadBegin, AgentTyped, Grows
  <1>11. CASE chosen' = [chosen EXCEPT !.phase = "launch", !.run = Len(runs) + 1]
    <2>1. Len(runs) + 1 \in Nat
      BY <1>6 DEF Opener
    <2>2. \A c \in Choice : /\ [c EXCEPT !.phase = "launch"] \in Choice
                            /\ [c EXCEPT !.phase = "launch"].snap = c.snap
      BY DEF Choice
    <2>3. \A c \in Choice : /\ [c EXCEPT !.run = Len(runs) + 1] \in Choice
                            /\ [c EXCEPT !.run = Len(runs) + 1].snap = c.snap
                            /\ [c EXCEPT !.run = Len(runs) + 1].run = Len(runs) + 1
      BY <2>1 DEF Choice
    <2>4. /\ chosen' \in Choice /\ chosen'.snap = chosen.snap
          /\ chosen'.run = Len(runs) + 1
      BY <1>4, <1>11, <2>2, <2>3
    <2> QED BY <1>4, <1>6, <1>7, <1>8, <1>9, <2>4 DEF ThreadBegin, AgentTyped, Grows
  <1> QED BY <1>6, <1>7, <1>8, <1>10, <1>11 DEF ThreadBegin

LEMMA ThreadLaunchTyped ==
    ASSUME Typed, ThreadLaunch
    PROVE  Typed' /\ chosen.run \in DOMAIN runs /\ Edited(chosen.run, TRUE, runs[chosen.run].items)
  <1> USE DEF Typed
  <1>1. chosen \in Choice /\ chosen.run \in DOMAIN runs /\ agent = "up"
    BY DEF ThreadLaunch, AgentTyped
  <1>2. runs[chosen.run] \in RunRow
    BY <1>1 DEF StoreTyped
  <1>3. runs' = [runs EXCEPT ![chosen.run] =
                    [@ EXCEPT !.finished = TRUE, !.items = runs[chosen.run].items]]
    <2>1. \A r \in RunRow : [r EXCEPT !.finished = TRUE] =
                            [r EXCEPT !.finished = TRUE, !.items = r.items]
      BY DEF RunRow
    <2>2. runs' = [runs EXCEPT ![chosen.run] = [@ EXCEPT !.finished = TRUE]]
      BY DEF ThreadLaunch
    <2> QED BY <1>2, <2>1, <2>2
  <1>4. StoreTyped' /\ Edited(chosen.run, TRUE, runs[chosen.run].items)
    BY <1>1, <1>2, <1>3, EditTyped DEF ThreadLaunch, bounds, RunRow
  <1>5. PICK started : apps' = Launched(started, chosen.run)
    BY DEF ThreadLaunch
  <1>6. DesktopTyped'
    BY <1>1, <1>5, RunOpens, LaunchedTyped DEF ThreadLaunch, DesktopTyped
  <1>7. JobsTyped' /\ AgentTyped'
    BY <1>1, <1>4 DEF ThreadLaunch, JobsTyped, AgentTyped, Edited
  <1> QED BY <1>1, <1>4, <1>6, <1>7

LEMMA UndoWindowsTyped == ASSUME Typed, UndoWindows PROVE Typed'
  <1> USE DEF Typed
  <1>1. PICK started : apps' = Launched(started, 0)
    BY DEF UndoWindows
  <1>2. DesktopTyped'
    BY <1>1, ZeroOpens, LaunchedTyped DEF UndoWindows, DesktopTyped, store
  <1>3. StoreTyped' /\ Grows(snaps, snaps') /\ Grows(runs, runs')
    BY StoreKept DEF UndoWindows, store, bounds
  <1>4. AgentTyped' /\ JobsTyped'
    BY <1>3, AgentKept, JobsKept DEF UndoWindows, store, Grows
  <1> QED BY <1>2, <1>3, <1>4

\* Closing settles launched tabs, or nothing when the result is lost.
LEMMA CloseTabsRows ==
    ASSUME Typed, CloseTabs
    PROVE  /\ StoreTyped'
           /\ \/ UNCHANGED runs
              \/ \E n \in DOMAIN runs :
                    Edited(n, runs[n].finished,
                           [u \in Url |-> IF runs[n].items[u] = "launched" THEN "skipped"
                                          ELSE runs[n].items[u]])
  <1>1. CASE UNCHANGED runs
    BY <1>1, StoreKept DEF CloseTabs, Typed, bounds
  <1>2. CASE ~UNCHANGED runs
    <2> DEFINE n == Len(runs)
               items == [u \in Url |-> IF runs[n].items[u] = "launched" THEN "skipped"
                                       ELSE runs[n].items[u]]
    <2>1. n \in DOMAIN runs
      BY LenProperties, EmptySeq DEF CloseTabs, Typed, StoreTyped
    <2>2. runs[n] \in RunRow
      BY <2>1 DEF Typed, StoreTyped
    <2>3. items \in [Url -> Status] /\ runs[n].finished \in BOOLEAN
      BY <2>2 DEF RunRow, Status
    <2>4. runs' = [runs EXCEPT ![n] = [@ EXCEPT !.items = items]]
      <3>1. runs' = [runs EXCEPT ![n].items =
                        [u \in Url |-> IF @[u] = "launched" THEN "skipped" ELSE @[u]]]
        BY <1>2 DEF CloseTabs
      <3> QED BY <3>1
    <2> HIDE DEF items, n
    <2>5. runs' = [runs EXCEPT ![n] =
                      [@ EXCEPT !.finished = runs[n].finished, !.items = items]]
      <3>1. \A r \in RunRow : [r EXCEPT !.items = items] =
                              [r EXCEPT !.finished = r.finished, !.items = items]
        BY DEF RunRow
      <3> QED BY <2>2, <2>4, <3>1
    <2>6. StoreTyped' /\ Edited(n, runs[n].finished, items)
      BY <2>1, <2>3, <2>5, EditTyped DEF CloseTabs, Typed, bounds
    <2> QED BY <2>1, <2>6 DEF items
  <1> QED BY <1>1, <1>2

LEMMA CloseTabsTyped == ASSUME Typed, CloseTabs PROVE Typed'
  <1> USE DEF Typed
  <1>1. StoreTyped' /\ DOMAIN runs' = DOMAIN runs
    BY CloseTabsRows DEF Edited
  <1>2. DesktopTyped'
    BY DEF CloseTabs, DesktopTyped
  <1>3. AgentTyped' /\ JobsTyped'
    BY <1>1, JobsKept DEF CloseTabs, AgentTyped, agentVars
  <1> QED BY <1>1, <1>2, <1>3

LEMMA CaptureTyped == ASSUME Typed, Capture PROVE Typed'
  <1> USE DEF Typed
  <1>1. StoreTyped' /\ Grows(snaps, snaps') /\ Grows(runs, runs')
    BY StoreKept DEF Capture, bounds
  <1>2. DesktopTyped'
    BY DEF Capture, DesktopTyped, Content
  <1>3. AgentTyped' /\ JobsTyped'
    BY <1>1, AgentKept, JobsKept DEF Capture, Grows
  <1> QED BY <1>1, <1>2, <1>3

\* What only the user, or the end of the session, does to the desktop.
LEMMA DesktopTypedStep ==
    ASSUME Typed, UNCHANGED <<store, agentVars, up, jobs, clock>>,
           apps' \in [App -> Opener \cup {NONE}], tabs' \subseteq Tab
    PROVE  Typed'
  <1>1. StoreTyped' /\ Grows(snaps, snaps') /\ Grows(runs, runs')
    BY StoreKept DEF Typed, store
  <1>2. AgentTyped' /\ JobsTyped'
    BY <1>1, AgentKept, JobsKept DEF Typed, store, Grows
  <1> QED BY <1>1, <1>2 DEF Typed, DesktopTyped, store

LEMMA UserTyped ==
    ASSUME Typed,
           \/ \E a \in App : UserApp(a) \/ AppExits(a)
           \/ \E b \in Browser, u \in Url : UserOpensTab(b, u)
           \/ \E t \in tabs : UserClosesTab(t) \/ Activate(t)
    PROVE  Typed'
  <1>1. apps \in [App -> Opener \cup {NONE}] /\ tabs \subseteq Tab
    BY DEF Typed, DesktopTyped
  <1>2. CASE \E a \in App : UserApp(a) \/ AppExits(a)
    BY <1>1, <1>2, ZeroOpens, DesktopTypedStep DEF UserApp, AppExits, bounds
  <1>3. CASE \E b \in Browser, u \in Url : UserOpensTab(b, u)
    BY <1>1, <1>3, DesktopTypedStep DEF UserOpensTab
  <1>4. CASE \E t \in tabs : UserClosesTab(t)
    BY <1>1, <1>4, DesktopTypedStep DEF UserClosesTab
  <1>5. CASE \E t \in tabs : Activate(t)
    <2>1. PICK t \in tabs : Activate(t)
      BY <1>5
    <2>2. [t EXCEPT !.lazy = FALSE] \in Tab
      BY <1>1 DEF Tab
    <2> QED BY <1>1, <2>1, <2>2, DesktopTypedStep DEF Activate
  <1> QED BY <1>2, <1>3, <1>4, <1>5

LEMMA TickTyped == ASSUME Typed, Tick PROVE Typed'
  <1> USE DEF Typed
  <1>1. StoreTyped'
    BY DEF Tick, StoreTyped, store
  <1>2. DesktopTyped' /\ JobsTyped'
    BY DEF Tick, DesktopTyped, JobsTyped, store
  <1>3. AgentTyped'
    BY DEF Tick, AgentTyped, store, agentVars
  <1> QED BY <1>1, <1>2, <1>3

LEMMA FlushTyped ==
    ASSUME Typed, Captured, UNCHANGED <<runs, clock>>,
           snaps' \in {snaps, PartialCopy(live'), CreateFromLive("shutdown", live')}
    PROVE  StoreTyped' /\ Grows(snaps, snaps') /\ live' \in Content
  <1>1. live' \in Content
    BY CapturedTyped DEF Typed
  <1>2. PICK rows \in Content : rows = live'
    BY <1>1
  <1>3. snaps' \in {snaps, PartialCopy(rows), CreateFromLive("shutdown", rows)}
    BY <1>2
  <1>4. snaps' \in Seq(Snapshot) /\ Grows(snaps, snaps')
    BY <1>3, PartialTyped, CreateTyped DEF Typed, StoreTyped, Grows
  <1> QED BY <1>1, <1>4, SnapsGrow DEF Typed

LEMMA QueryEndTyped == ASSUME Typed, QueryEnd PROVE Typed'
  <1> USE DEF Typed
  <1>1. /\ Captured /\ UNCHANGED <<runs, clock>>
        /\ snaps' \in {snaps, CreateFromLive("shutdown", live')}
    BY DEF QueryEnd, Flush, Captured, bounds
  <1>2. StoreTyped' /\ Grows(snaps, snaps') /\ live' \in Content
    BY <1>1, FlushTyped
  <1>3. DesktopTyped'
    BY <1>2 DEF QueryEnd, DesktopTyped
  <1>4. agent = "up"
    BY DEF QueryEnd
  <1>5. AgentTyped' /\ JobsTyped'
    BY <1>2, <1>4, AgentKept, JobsKept DEF QueryEnd, Grows
  <1> QED BY <1>2, <1>3, <1>5

LEMMA EndSessionTyped == ASSUME Typed, EndSession PROVE Typed'
  <1> USE DEF Typed
  <1>1. /\ Captured /\ UNCHANGED <<runs, clock>>
        /\ snaps' \in {snaps, PartialCopy(live'), CreateFromLive("shutdown", live')}
    BY DEF EndSession, Flush, bounds
  <1>2. StoreTyped' /\ Grows(snaps, snaps') /\ live' \in Content
    BY <1>1, FlushTyped
  <1>3. DesktopTyped'
    BY <1>2 DEF EndSession, PowerGone, Nothing, DesktopTyped
  <1>4. AgentTyped'
    BY DEF EndSession, AgentGone, AgentTyped
  <1>5. JobsTyped'
    BY DEF EndSession, PowerGone, JobsTyped
  <1> QED BY <1>2, <1>3, <1>4, <1>5

LEMMA CrashTyped == ASSUME Typed, Crash PROVE Typed'
  <1> USE DEF Typed
  <1>1. StoreTyped' /\ Grows(snaps, snaps') /\ Grows(runs, runs')
    BY StoreKept DEF Crash, store, bounds
  <1>2. DesktopTyped'
    BY DEF Crash, PowerGone, Nothing, DesktopTyped, store
  <1>3. AgentTyped'
    BY DEF Crash, AgentGone, AgentTyped
  <1>4. jobs' \subseteq jobs
    BY DEF Crash, PowerGone
  <1>5. JobsTyped'
    BY <1>1, <1>4, JobsKept DEF Grows
  <1> QED BY <1>1, <1>2, <1>3, <1>5

LEMMA TypedNext == Typed /\ [Next]_vars => Typed'
  <1> SUFFICES ASSUME Typed, [Next]_vars PROVE Typed'
    OBVIOUS
  <1>1. CASE UNCHANGED vars
    <2>1. UNCHANGED <<store, agentVars, up, jobs, clock>> /\ UNCHANGED <<apps, tabs>>
      BY <1>1 DEF vars, bounds
    <2> QED BY <2>1, DesktopTypedStep DEF Typed, DesktopTyped
  <1>2. CASE Next
    BY <1>2, Actions, StartCopyTyped, StartDoneTyped, AutoAppsTyped, ConnectTyped,
       ReportTyped, DisconnectTyped, OfferConnectedTyped, ApplyRestoreTyped, ReplyTyped,
       AnswerTyped, ThreadBeginTyped, ThreadLaunchTyped, UndoWindowsTyped, CloseTabsTyped,
       CaptureTyped, TickTyped, UserTyped, QueryEndTyped, EndSessionTyped, CrashTyped
  <1> QED BY <1>1, <1>2

LEMMA AlwaysTyped == Spec => []Typed
  BY TypedInit, TypedNext, PTL DEF Spec

\* The tables, the agent's state and the desktop are what they should be: every
\* run names a snapshot that exists, and its undo point does, or there is none.
THEOREM TypeCorrect == Spec => []TypeOK
  BY AlwaysTyped, TypedImpliesTypeOK, PTL

-----------------------------------------------------------------------------
(* The rows of a run say what happened.  A pending row belongs to a restore *)
(* whose result will name it, so that the result settles the run; what a   *)
(* result calls launched was opened before the result was made.            *)

JobHonest(j) ==
    \A u \in Url :
        /\ runs[j.run].items[u] = "pending" => u \in Urls(j.want)
        /\ j.done => /\ j.items[u] # "pending"
                     /\ u \in Urls(j.want) => j.items[u] # "none"
                     /\ j.items[u] = "launched" => <<j.run, u>> \in made

Honest ==
    /\ FinishedIsSettled
    /\ LaunchedWasOpened
    /\ \A j \in jobs : JobHonest(j)
    /\ chosen # NONE /\ chosen.phase = "launch" =>
          \A u \in Url : runs[chosen.run].items[u] # "pending"

ChoiceKept ==
    chosen' # NONE /\ chosen'.phase = "launch" =>
        chosen # NONE /\ chosen.phase = "launch" /\ chosen'.run = chosen.run

LEMMA HonestInit == Init => Honest
  BY DEF Init, Honest, FinishedIsSettled, LaunchedWasOpened

LEMMA HonestKept ==
    ASSUME Honest, UNCHANGED <<runs, made>>, jobs' \subseteq jobs, ChoiceKept
    PROVE  Honest'
  BY DEF Honest, FinishedIsSettled, LaunchedWasOpened, JobHonest, ChoiceKept

\* A run begins: it is settled if it is born finished, and has opened nothing.
LEMMA HonestBegins ==
    ASSUME Typed, Honest, NEW n, Grows(runs, runs'), DOMAIN runs' = DOMAIN runs \cup {n},
           \A u \in Url : runs'[n].items[u] # "launched",
           runs'[n].finished => \A u \in Url : runs'[n].items[u] # "pending",
           \A j \in jobs' : j \in jobs \/ (~j.done /\ j.run = n /\ \A u \in Url :
                                runs'[n].items[u] = "pending" => u \in Urls(j.want)),
           UNCHANGED made,
           chosen' # NONE /\ chosen'.phase = "launch" =>
               \/ chosen # NONE /\ chosen.phase = "launch" /\ chosen'.run = chosen.run
               \/ chosen'.run = n /\ \A u \in Url : runs'[n].items[u] # "pending"
    PROVE  Honest'
  <1>1. \A i \in DOMAIN runs' : (i \in DOMAIN runs /\ runs'[i] = runs[i]) \/ i = n
    BY DEF Grows
  <1>2. FinishedIsSettled'
    BY <1>1 DEF Honest, FinishedIsSettled
  <1>3. LaunchedWasOpened'
    BY <1>1 DEF Honest, LaunchedWasOpened
  <1>4. \A j \in jobs' : JobHonest(j)'
    <2> TAKE j \in jobs'
    <2>1. CASE j \in jobs
      <3>1. runs'[j.run] = runs[j.run]
        BY <2>1 DEF Typed, JobsTyped, Grows
      <3> QED BY <2>1, <3>1 DEF Honest, JobHonest
    <2>2. CASE j \notin jobs
      BY <2>2 DEF JobHonest
    <2> QED BY <2>1, <2>2
  <1>5. chosen' # NONE /\ chosen'.phase = "launch" =>
            \A u \in Url : runs'[chosen'.run].items[u] # "pending"
    <2>1. CASE chosen # NONE /\ chosen.phase = "launch" /\ chosen'.run = chosen.run
      <3>1. runs'[chosen.run] = runs[chosen.run]
        BY <2>1 DEF Typed, AgentTyped, Grows
      <3> QED BY <2>1, <3>1 DEF Honest
    <2> QED BY <2>1
  <1> QED BY <1>2, <1>3, <1>4, <1>5 DEF Honest

\* A row is edited: nothing becomes pending, what becomes launched was opened,
\* and a run that is finished has nothing pending.
LEMMA HonestEdits ==
    ASSUME Typed, Honest, NEW n \in DOMAIN runs, NEW finished \in BOOLEAN, NEW items,
           Edited(n, finished, items),
           \A u \in Url : /\ items[u] = "pending" => runs[n].items[u] = "pending"
                          /\ items[u] = "launched" => <<n, u>> \in made
                          /\ finished => items[u] # "pending",
           jobs' \subseteq jobs, UNCHANGED made, ChoiceKept
    PROVE  Honest'
  <1>1. runs[n] \in RunRow
    BY DEF Typed, StoreTyped
  <1>2. [runs[n] EXCEPT !.finished = finished, !.items = items].finished = finished
        /\ [runs[n] EXCEPT !.finished = finished, !.items = items].items = items
    BY <1>1 DEF RunRow
  <1>3. /\ DOMAIN runs' = DOMAIN runs
        /\ \A i \in DOMAIN runs : \/ i # n /\ runs'[i] = runs[i]
                                  \/ i = n /\ runs'[i].finished = finished /\ runs'[i].items = items
    BY <1>2 DEF Edited
  <1>4. FinishedIsSettled'
    BY <1>3 DEF Honest, FinishedIsSettled
  <1>5. LaunchedWasOpened'
    BY <1>3 DEF Honest, LaunchedWasOpened
  <1>6. \A i \in DOMAIN runs : \A u \in Url :
            runs'[i].items[u] = "pending" => runs[i].items[u] = "pending"
    BY <1>3
  <1>7. \A j \in jobs' : JobHonest(j)'
    BY <1>6 DEF Honest, JobHonest, Typed, JobsTyped
  <1>8. chosen' # NONE /\ chosen'.phase = "launch" =>
            \A u \in Url : runs'[chosen'.run].items[u] # "pending"
    BY <1>6 DEF Honest, ChoiceKept, Typed, AgentTyped
  <1> QED BY <1>4, <1>5, <1>7, <1>8 DEF Honest

LEMMA OfferToHonest ==
    ASSUME Typed, Honest, NEW b \in Browser, OfferTo(b), UNCHANGED <<clock, made>>, ChoiceKept
    PROVE  Honest'
  <1>1. CASE UNCHANGED <<snaps, runs, jobs>>
    BY <1>1, HonestKept
  <1>2. CASE ~UNCHANGED <<snaps, runs, jobs>>
    <2> DEFINE want == TabsOf(snaps[pending].tabs, b)
               n == Len(runs) + 1
               job == [browser |-> b, run |-> n, want |-> want, done |-> FALSE, items |-> NoItems]
    <2>1. pending \in DOMAIN snaps /\ live \in Content
      BY <1>2 DEF OfferTo, Typed, AgentTyped, DesktopTyped
    <2>2. BeginRun(pending, live, PendingItems(want), FALSE) /\ jobs' = jobs \cup {job}
      BY <1>2 DEF OfferTo
    <2> HIDE DEF want
    <2>3. PendingItems(want) \in [Url -> Status]
      BY DEF PendingItems, Status
    <2>4. /\ Grows(runs, runs') /\ DOMAIN runs' = DOMAIN runs \cup {n}
          /\ \E undo : runs'[n] = NewRun(pending, PendingItems(want), FALSE, undo)
      BY <2>1, <2>2, <2>3, BeginRunTyped DEF Typed
    <2>5. runs'[n].finished = FALSE /\ runs'[n].items = PendingItems(want)
      BY <2>4 DEF NewRun
    <2>6. \A u \in Url : /\ runs'[n].items[u] # "launched"
                         /\ runs'[n].items[u] = "pending" => u \in Urls(want)
      BY <2>5 DEF PendingItems
    <2>7. \A j \in jobs' : j \in jobs \/ (~j.done /\ j.run = n /\ j.want = want)
      BY <2>2
    <2> HIDE DEF n, job
    <2> QED BY <2>4, <2>5, <2>6, <2>7, HonestBegins DEF ChoiceKept
  <1> QED BY <1>1, <1>2

LEMMA AutoAppsHonest == ASSUME Typed, Honest, AutoApps PROVE Honest'
  <1>1. jobs' = jobs /\ made' = made /\ chosen' = chosen
    BY DEF AutoApps, history
  <1>2. CASE UNCHANGED runs
    BY <1>1, <1>2, HonestKept DEF ChoiceKept
  <1>3. CASE ~UNCHANGED runs
    <2>1. pending \in DOMAIN snaps /\ live \in Content
      BY <1>3 DEF AutoApps, Typed, AgentTyped, DesktopTyped
    <2>2. BeginRun(pending, live, NoItems, TRUE) /\ clock' = clock
      BY <1>3 DEF AutoApps, bounds
    <2>3. NoItems \in [Url -> Status]
      BY DEF NoItems, Status
    <2>4. /\ Grows(runs, runs') /\ DOMAIN runs' = DOMAIN runs \cup {Len(runs) + 1}
          /\ \E undo : runs'[Len(runs) + 1] = NewRun(pending, NoItems, TRUE, undo)
      BY <2>1, <2>2, <2>3, BeginRunTyped DEF Typed
    <2>5. \A u \in Url : runs'[Len(runs) + 1].items[u] = "none"
      BY <2>4 DEF NewRun, NoItems
    <2> QED BY <1>1, <2>4, <2>5, HonestBegins
  <1> QED BY <1>2, <1>3

LEMMA ThreadBeginHonest == ASSUME Typed, Honest, ThreadBegin PROVE Honest'
  <1>1. jobs' = jobs /\ made' = made /\ clock' = clock
    BY DEF ThreadBegin, history, bounds
  <1>2. live' \in Content
    BY CapturedTyped DEF ThreadBegin, Typed
  <1>3. PICK rows \in Content : rows = live'
    BY <1>2
  <1>4. chosen \in Choice /\ chosen.snap \in DOMAIN snaps
    BY DEF ThreadBegin, Typed, AgentTyped
  <1>5. BeginRun(chosen.snap, rows, NoItems, FALSE)
    BY <1>3 DEF ThreadBegin
  <1>6. NoItems \in [Url -> Status]
    BY DEF NoItems, Status
  <1>7. /\ Grows(runs, runs') /\ DOMAIN runs' = DOMAIN runs \cup {Len(runs) + 1}
        /\ \E undo : runs'[Len(runs) + 1] = NewRun(chosen.snap, NoItems, FALSE, undo)
    BY <1>1, <1>4, <1>5, <1>6, BeginRunTyped DEF Typed
  <1>8. \A u \in Url : runs'[Len(runs) + 1].items[u] = "none"
    BY <1>7 DEF NewRun, NoItems
  <1>9. chosen' # NONE => chosen'.run = Len(runs) + 1
    <2>1. [chosen EXCEPT !.phase = "launch", !.run = Len(runs) + 1].run = Len(runs) + 1
      BY <1>4 DEF Choice
    <2> QED BY <2>1 DEF ThreadBegin
  <1> QED BY <1>1, <1>7, <1>8, <1>9, HonestBegins

LEMMA ReplyHonest == ASSUME Typed, Honest, NEW j \in jobs, Reply(j) PROVE Honest'
  <1>1. jobs' \subseteq jobs /\ made' = made /\ ChoiceKept /\ j.done
    BY DEF Reply, history, agentVars, ChoiceKept
  <1>2. CASE UNCHANGED runs
    BY <1>1, <1>2, HonestKept
  <1>3. CASE ~UNCHANGED runs
    <2> DEFINE items == [u \in Url |-> IF j.items[u] = "none" THEN runs[j.run].items[u]
                                       ELSE j.items[u]]
    <2>1. j.run \in DOMAIN runs /\ Edited(j.run, TRUE, items)
      BY <1>3, ReplyRows
    <2>2. \A u \in Url :
             /\ items[u] = "pending" => runs[j.run].items[u] = "pending"
             /\ items[u] = "launched" => <<j.run, u>> \in made
             /\ items[u] # "pending"
      <3> TAKE u \in Url
      <3>1. CASE j.items[u] = "none"
        <4>1. runs[j.run].items[u] # "pending"
          BY <1>1, <3>1 DEF Honest, JobHonest
        <4>2. runs[j.run].items[u] = "launched" => <<j.run, u>> \in made
          BY <2>1 DEF Honest, LaunchedWasOpened
        <4> QED BY <3>1, <4>1, <4>2
      <3>2. CASE j.items[u] # "none"
        BY <1>1, <3>2 DEF Honest, JobHonest
      <3> QED BY <3>1, <3>2
    <2> HIDE DEF items
    <2>3. PICK yes \in BOOLEAN : yes = TRUE
      OBVIOUS
    <2>4. Edited(j.run, yes, items)
      BY <2>1, <2>3
    <2> QED BY <1>1, <2>1, <2>2, <2>4, HonestEdits
  <1> QED BY <1>2, <1>3

LEMMA ThreadLaunchHonest == ASSUME Typed, Honest, ThreadLaunch PROVE Honest'
  <1>1. jobs' = jobs /\ made' = made /\ ChoiceKept
    BY DEF ThreadLaunch, history, ChoiceKept
  <1>2. chosen.run \in DOMAIN runs /\ Edited(chosen.run, TRUE, runs[chosen.run].items)
    BY ThreadLaunchTyped
  <1>3. \A u \in Url : /\ runs[chosen.run].items[u] # "pending"
                       /\ runs[chosen.run].items[u] = "launched" => <<chosen.run, u>> \in made
    BY <1>2 DEF ThreadLaunch, Honest, LaunchedWasOpened
  <1>4. PICK yes \in BOOLEAN : yes = TRUE
    OBVIOUS
  <1>5. Edited(chosen.run, yes, runs[chosen.run].items)
    BY <1>2, <1>4
  <1> QED BY <1>1, <1>2, <1>3, <1>5, HonestEdits

LEMMA CloseTabsHonest == ASSUME Typed, Honest, CloseTabs PROVE Honest'
  <1>1. jobs' = jobs /\ made' = made /\ ChoiceKept
    BY DEF CloseTabs, history, agentVars, ChoiceKept
  <1>2. CASE UNCHANGED runs
    BY <1>1, <1>2, HonestKept
  <1>3. CASE ~UNCHANGED runs
    <2>1. PICK n \in DOMAIN runs :
             Edited(n, runs[n].finished,
                    [u \in Url |-> IF runs[n].items[u] = "launched" THEN "skipped"
                                   ELSE runs[n].items[u]])
      BY <1>3, CloseTabsRows
    <2> DEFINE items == [u \in Url |-> IF runs[n].items[u] = "launched" THEN "skipped"
                                       ELSE runs[n].items[u]]
    <2>2. runs[n] \in RunRow
      BY DEF Typed, StoreTyped
    <2>3. runs[n].finished \in BOOLEAN
      BY <2>2 DEF RunRow
    <2>4. \A u \in Url :
             /\ items[u] = "pending" => runs[n].items[u] = "pending"
             /\ items[u] # "launched"
             /\ runs[n].finished => items[u] # "pending"
      BY DEF Honest, FinishedIsSettled
    <2>5. Edited(n, runs[n].finished, items)
      BY <2>1
    <2> HIDE DEF items
    <2> QED BY <1>1, <2>3, <2>4, <2>5, HonestEdits
  <1> QED BY <1>2, <1>3

LEMMA ApplyRestoreHonest == ASSUME Typed, Honest, NEW j \in jobs, ApplyRestore(j) PROVE Honest'
  <1>1. PICK missing, failed, T, f :
            /\ missing \in MissingSets(j.want, j.browser)
            /\ f \in Outcomes(j.want, missing, failed)
            /\ T \in Opened(j, missing \ failed)
            /\ made' = made \cup {<<t.by, t.url>> : t \in T}
            /\ jobs' = (jobs \ {j}) \cup {[j EXCEPT !.done = TRUE, !.items = f]}
    BY DEF ApplyRestore
  <1>2. /\ UNCHANGED runs /\ chosen' = chosen /\ made \subseteq made'
    BY <1>1 DEF ApplyRestore, store, agentVars
  <1>3. j \in Job /\ j.run \in DOMAIN runs
    BY DEF Typed, JobsTyped
  <1>4. \A u \in Url : f[u] = "launched" => <<j.run, u>> \in made'
    <2> SUFFICES ASSUME NEW u \in Url, f[u] = "launched" PROVE <<j.run, u>> \in made'
      OBVIOUS
    <2> DEFINE done == missing \ failed
    <2>1. u \in Urls(done)
      BY <1>1, OutcomesTyped
    <2>2. WithUrl(done, u) # {}
      BY <2>1 DEF Urls, WithUrl
    <2>3. WithUrl(done, u) \subseteq Tab
      BY <1>1, <1>3 DEF MissingSets, WithUrl, Job
    <2>4. IsFiniteSet(WithUrl(done, u))
      BY <2>3, TabsAreFinite, FS_Subset
    <2>5. Cardinality(WithUrl(done, u)) # 0
      BY <2>2, <2>4, FS_EmptySet
    <2>6. Cardinality(WithUrl(T, u)) = Cardinality(WithUrl(done, u))
      BY <1>1 DEF Opened
    <2>7. WithUrl(T, u) # {}
      BY <2>5, <2>6, FS_EmptySet
    <2>8. PICK t \in T : t.url = u
      BY <2>7 DEF WithUrl
    <2>9. t.by = j.run
      BY <1>1 DEF Opened
    <2> QED BY <1>1, <2>8, <2>9
  <1> DEFINE k == [j EXCEPT !.done = TRUE, !.items = f]
  <1>5. k.run = j.run /\ k.want = j.want /\ k.items = f
    BY <1>3 DEF Job
  <1>6. \A i \in jobs' : JobHonest(i)'
    <2> TAKE i \in jobs'
    <2>1. CASE i \in jobs
      BY <1>2, <2>1 DEF Honest, JobHonest
    <2>2. CASE i = k
      <3>1. JobHonest(j)
        BY DEF Honest
      <3>2. \A u \in Url : f[u] # "pending" /\ (u \in Urls(j.want) => f[u] # "none")
        BY <1>1, OutcomesTyped
      <3> HIDE DEF k
      <3> QED BY <1>2, <1>4, <1>5, <2>2, <3>1, <3>2 DEF JobHonest
    <2> QED BY <1>1, <2>1, <2>2
  <1>7. FinishedIsSettled' /\ LaunchedWasOpened'
    BY <1>2 DEF Honest, FinishedIsSettled, LaunchedWasOpened
  <1> QED BY <1>2, <1>6, <1>7 DEF Honest

LEMMA HonestNext == Typed /\ Honest /\ [Next]_vars => Honest'
  <1> SUFFICES ASSUME Typed, Honest, [Next]_vars PROVE Honest'
    OBVIOUS
  <1>1. CASE UNCHANGED vars
    BY <1>1, HonestKept DEF vars, store, agentVars, history, ChoiceKept
  <1>2. CASE StartCopy \/ StartDone
    BY <1>2, HonestKept DEF StartCopy, StartDone, history, ChoiceKept
  <1>3. CASE \E b \in Browser : Connect(b) \/ OfferConnected(b)
    <2>1. PICK b \in Browser : Connect(b) \/ OfferConnected(b)
      BY <1>3
    <2>2. made' = made /\ clock' = clock
      BY <2>1 DEF Connect, OfferConnected, history, bounds
    <2>3. ChoiceKept
      <3>1. CASE Connect(b)
        BY <3>1 DEF Connect, ChoiceKept
      <3>2. CASE OfferConnected(b)
        <4>1. chosen \in Choice /\ chosen' = [chosen EXCEPT !.waiting = @ \ {b}]
          BY <3>2 DEF OfferConnected, Typed, AgentTyped
        <4>2. chosen # NONE /\ chosen'.phase = chosen.phase /\ chosen'.run = chosen.run
          BY <3>2, <4>1 DEF OfferConnected, Choice
        <4> QED BY <4>2 DEF ChoiceKept
      <3> QED BY <2>1, <3>1, <3>2
    <2>4. OfferTo(b) \/ UNCHANGED <<runs, jobs>>
      BY <2>1 DEF Connect, OfferConnected
    <2> QED BY <2>2, <2>3, <2>4, OfferToHonest, HonestKept
  <1>4. CASE \E b \in Browser : Report(b) \/ Disconnect(b)
    BY <1>4, HonestKept DEF Report, Disconnect, store, agentVars, history, ChoiceKept
  <1>5. CASE Answer
    <2>1. ChoiceKept
      BY <1>5 DEF Answer, ChoiceKept
    <2> QED BY <1>5, <2>1, HonestKept DEF Answer, store, history
  <1>6. CASE UndoWindows \/ Capture \/ Tick
    BY <1>6, HonestKept DEF UndoWindows, Capture, Tick, store, agentVars, history, ChoiceKept
  <1>7. CASE \/ \E a \in App : UserApp(a) \/ AppExits(a)
             \/ \E b \in Browser, u \in Url : UserOpensTab(b, u)
             \/ \E t \in tabs : UserClosesTab(t) \/ Activate(t)
    BY <1>7, HonestKept DEF UserApp, AppExits, UserOpensTab, UserClosesTab, Activate,
       store, agentVars, history, ChoiceKept
  <1>8. CASE QueryEnd \/ EndSession \/ Crash
    BY <1>8, HonestKept DEF QueryEnd, EndSession, Crash, AgentGone, PowerGone, store,
       agentVars, history, ChoiceKept
  <1> QED BY <1>1, <1>2, <1>3, <1>4, <1>5, <1>6, <1>7, <1>8, Actions, AutoAppsHonest,
          ThreadBeginHonest, ReplyHonest, ThreadLaunchHonest, CloseTabsHonest,
          ApplyRestoreHonest

LEMMA AlwaysHonest == Spec => []Honest
  BY AlwaysTyped, HonestInit, HonestNext, PTL DEF Spec

\* A url recorded as launched was opened by that run, whatever was open before,
\* and however results were lost, repeated or late.
THEOREM LaunchedIsTrue == Spec => []LaunchedWasOpened
  <1>1. Honest => LaunchedWasOpened
    BY DEF Honest
  <1> QED BY <1>1, AlwaysHonest, PTL

\* A finished run accounts for every tab of its offer.
THEOREM FinishedAccountsForAll == Spec => []FinishedIsSettled
  <1>1. Honest => FinishedIsSettled
    BY DEF Honest
  <1> QED BY <1>1, AlwaysHonest, PTL

-----------------------------------------------------------------------------
(* No run restores a copy that was cut short.  The newest shutdown copy is  *)
(* whole, or it describes rows that are there still, and the agent will     *)
(* copy those again before it looks for a snapshot to restore.              *)

NewestWhole ==
    \A i \in DOMAIN snaps :
        /\ snaps[i].kind = "shutdown"
        /\ \A j \in DOMAIN snaps : snaps[j].kind = "shutdown" => j <= i
        => snaps[i].whole

Unsettled == agent \in {"down", "copying"} /\ live # Nothing

Whole ==
    /\ \A i \in DOMAIN runs : snaps[runs[i].snap].whole
    /\ pending # NONE => /\ snaps[pending].whole
                         /\ agent \in {"auto", "up"} => snaps[pending].kind # "deleted"
    /\ chosen # NONE => snaps[chosen.snap].whole
    /\ NewestWhole \/ Unsettled
    /\ agent = "copying" /\ live # Nothing => snaps[Len(snaps)].kind = "shutdown"

LEMMA WholeImplies == Whole => RestoresWholeSnapshots
  BY DEF Whole, RestoresWholeSnapshots

LEMMA WholeInit == Init => Whole
  BY DEF Init, Whole, NewestWhole

\* Steps that leave the snapshots or add a whole one.
AddsWhole == snaps' = snaps \/ \E e \in Snapshot : e.whole /\ snaps' = Append(snaps, e)

LEMMA WholeKept ==
    ASSUME Typed, Whole, AddsWhole,
           \A i \in DOMAIN runs' : runs'[i].snap \in DOMAIN snaps /\ snaps[runs'[i].snap].whole,
           pending' = NONE \/ (pending' = pending /\ (agent' \in {"auto", "up"} => agent \in {"auto", "up"})),
           chosen' # NONE => chosen'.snap \in DOMAIN snaps /\ snaps[chosen'.snap].whole,
           Unsettled => agent' \in {"down", "copying"} /\ live' = live,
           agent' = "copying" => agent = "copying" /\ live' = live /\ snaps' = snaps
    PROVE  Whole'
  <1>1. snaps \in Seq(Snapshot) /\ DOMAIN snaps = 1 .. Len(snaps) /\ Len(snaps) \in Nat
    BY LenProperties DEF Typed, StoreTyped
  <1>2. Grows(snaps, snaps')
    BY <1>1, AppendGrows DEF AddsWhole, Grows
  <1>3. NewestWhole => NewestWhole'
    <2>1. CASE snaps' = snaps
      BY <2>1 DEF NewestWhole
    <2>2. CASE \E e \in Snapshot : e.whole /\ snaps' = Append(snaps, e)
      <3>1. PICK e \in Snapshot : e.whole /\ snaps' = Append(snaps, e)
        BY <2>2
      <3>2. /\ DOMAIN snaps' = DOMAIN snaps \cup {Len(snaps) + 1}
            /\ snaps'[Len(snaps) + 1] = e
        BY <1>1, <3>1, AppendGrows
      <3> SUFFICES ASSUME NewestWhole, NEW i \in DOMAIN snaps', snaps'[i].kind = "shutdown",
                          \A j \in DOMAIN snaps' : snaps'[j].kind = "shutdown" => j <= i
                   PROVE  snaps'[i].whole
        BY DEF NewestWhole
      <3>3. CASE i = Len(snaps) + 1
        BY <3>1, <3>2, <3>3
      <3>4. CASE i \in DOMAIN snaps
        BY <1>2, <3>4 DEF NewestWhole, Grows
      <3> QED BY <3>2, <3>3, <3>4
    <2> QED BY <2>1, <2>2 DEF AddsWhole
  <1>4. NewestWhole' \/ Unsettled'
    BY <1>3 DEF Whole, Unsettled
  <1>5. \A i \in DOMAIN runs' : snaps'[runs'[i].snap].whole
    BY <1>2 DEF Grows
  <1>6. pending' # NONE => snaps'[pending'] = snaps[pending'] /\ pending' = pending
    BY <1>2 DEF Typed, AgentTyped, Grows
  <1>7. pending' # NONE => /\ snaps'[pending'].whole
                           /\ agent' \in {"auto", "up"} => snaps'[pending'].kind # "deleted"
    BY <1>6 DEF Whole
  <1>8. chosen' # NONE => snaps'[chosen'.snap].whole
    BY <1>2 DEF Grows
  <1>9. agent' = "copying" /\ live' # Nothing => snaps'[Len(snaps')].kind = "shutdown"
    BY DEF Whole
  <1> QED BY <1>4, <1>5, <1>7, <1>8, <1>9 DEF Whole

LEMMA RunsWhole ==
    ASSUME Typed, Whole
    PROVE  \A i \in DOMAIN runs : runs[i].snap \in DOMAIN snaps /\ snaps[runs[i].snap].whole
  BY DEF Typed, StoreTyped, Whole

LEMMA ChosenWhole ==
    ASSUME Typed, Whole
    PROVE  chosen # NONE => chosen.snap \in DOMAIN snaps /\ snaps[chosen.snap].whole
  BY DEF Typed, AgentTyped, Whole

LEMMA CreateIsWhole ==
    ASSUME NEW rows \in Content, NEW kind \in {"shutdown", "pre_restore"}
    PROVE  \/ CreateFromLive(kind, rows) = snaps
           \/ \E e \in Snapshot : e.whole /\ CreateFromLive(kind, rows) = Append(snaps, e)
  <1> DEFINE e == [kind |-> kind, whole |-> TRUE, apps |-> rows.apps, tabs |-> rows.tabs]
  <1>1. e \in Snapshot /\ e.whole
    BY DEF Content, Snapshot
  <1>2. CreateFromLive(kind, rows) \in {snaps, Append(snaps, e)}
    BY DEF CreateFromLive
  <1> HIDE DEF e
  <1> QED BY <1>1, <1>2

\* A run of a whole snapshot begins.
LEMMA BeginsWhole ==
    ASSUME Typed, Whole, NEW s \in DOMAIN snaps, snaps[s].whole, NEW rows \in Content,
           NEW items \in [Url -> Status], NEW done \in BOOLEAN,
           BeginRun(s, rows, items, done), clock' = clock
    PROVE  /\ AddsWhole
           /\ \A i \in DOMAIN runs' : runs'[i].snap \in DOMAIN snaps /\ snaps[runs'[i].snap].whole
  <1>1. PICK undo \in DOMAIN snaps' \cup {NONE} :
            /\ runs'[Len(runs) + 1] = NewRun(s, items, done, undo)
            /\ Shares(s, undo) \/ Fresh(s, rows, undo)
    BY BeginRunTyped DEF Typed
  <1>2. UndoCopy(rows) \in Snapshot /\ UndoCopy(rows).whole
    BY CopyTyped DEF UndoCopy
  <1>3. AddsWhole
    BY <1>1, <1>2 DEF Shares, Fresh, AddsWhole
  <1>4. Grows(runs, runs') /\ DOMAIN runs' = DOMAIN runs \cup {Len(runs) + 1}
    BY BeginRunTyped DEF Typed
  <1>5. runs'[Len(runs) + 1].snap = s
    BY <1>1 DEF NewRun
  <1> QED BY <1>3, <1>4, <1>5, RunsWhole DEF Grows

LEMMA StartCopyWhole == ASSUME Typed, Whole, StartCopy PROVE Whole'
  <1>1. CASE live = Nothing
    <2>1. snaps' = snaps
      BY <1>1 DEF StartCopy, PartialCopy
    <2>2. NewestWhole
      BY <1>1 DEF Whole, Unsettled
    <2> QED BY <1>1, <2>1, <2>2 DEF StartCopy, Whole, NewestWhole
  <1>2. CASE live # Nothing
    <2> DEFINE e == [kind |-> "shutdown", whole |-> FALSE,
                     apps |-> Nothing.apps, tabs |-> live.tabs]
    <2>1. snaps' = Append(snaps, e)
      BY <1>2 DEF StartCopy, PartialCopy
    <2>2. e \in Snapshot /\ e.kind = "shutdown"
      BY DEF Typed, DesktopTyped, Content, Snapshot, Nothing
    <2> HIDE DEF e
    <2>3. snaps \in Seq(Snapshot)
      BY DEF Typed, StoreTyped
    <2>4. Grows(snaps, snaps') /\ snaps'[Len(snaps')] = e
      BY <2>1, <2>2, <2>3, AppendGrows, AppendProperties
    <2>5. \A i \in DOMAIN runs : snaps'[runs[i].snap].whole
      BY <2>4, RunsWhole DEF Grows
    <2>6. pending # NONE => snaps'[pending].whole
      BY <2>4 DEF Whole, Typed, AgentTyped, Grows
    <2>7. chosen = NONE
      BY DEF StartCopy, Typed, AgentTyped
    <2> QED BY <1>2, <2>2, <2>4, <2>5, <2>6, <2>7 DEF StartCopy, Whole, Unsettled
  <1> QED BY <1>1, <1>2

\* Pruning takes the oldest: what survives had fewer after it than are kept.
LEMMA PrunedFromTheOldest ==
    ASSUME Typed, NEW i \in Kept, NEW j \in Doomed(Retention), i < j
    PROVE  i \in Doomed(Retention)
  <1> DEFINE after(k) == {m \in Kept : m > k}
  <1>1. DOMAIN snaps = 1 .. Len(snaps) /\ Len(snaps) \in Nat
    BY LenProperties DEF Typed, StoreTyped
  <1>2. IsFiniteSet(after(i)) /\ Kept \subseteq Nat
    <2>1. Kept \subseteq 1 .. Len(snaps)
      BY <1>1 DEF Kept
    <2>2. IsFiniteSet(1 .. Len(snaps))
      BY <1>1, FS_Interval
    <2>3. after(i) \subseteq 1 .. Len(snaps)
      BY <2>1
    <2> QED BY <2>1, <2>2, <2>3, FS_Subset
  <1>3. j \in Kept /\ Cardinality(after(j)) >= Retention
    BY DEF Doomed
  <1>4. after(j) \subseteq after(i)
    <2>1. i \in Nat /\ j \in Nat
      BY <1>2, <1>3
    <2>2. \A m \in Kept : m \in Nat /\ (m > j => m > i)
      BY <1>2, <2>1
    <2> QED BY <2>2
  <1> HIDE DEF after
  <1>5. /\ Cardinality(after(j)) <= Cardinality(after(i))
        /\ Cardinality(after(j)) \in Nat /\ Cardinality(after(i)) \in Nat
    BY <1>2, <1>4, FS_Subset, FS_CardinalityType
  <1>6. Cardinality(after(i)) >= Retention
    BY <1>3, <1>5, RetentionAssumption
  <1> QED BY <1>6 DEF Doomed, after

LEMMA NewestIsKept ==
    ASSUME Typed
    PROVE  Len(snaps) \notin Doomed(Retention)
  <1>1. DOMAIN snaps = 1 .. Len(snaps) /\ Len(snaps) \in Nat
    BY LenProperties DEF Typed, StoreTyped
  <1>2. {m \in Kept : m > Len(snaps)} = {}
    BY <1>1 DEF Kept
  <1>3. ~(Cardinality({m \in Kept : m > Len(snaps)}) >= Retention)
    BY <1>2, FS_EmptySet, RetentionAssumption
  <1> QED BY <1>3 DEF Doomed

LEMMA StartDoneWhole == ASSUME Typed, Whole, StartDone PROVE Whole'
  <1>1. DOMAIN snaps = 1 .. Len(snaps) /\ Len(snaps) \in Nat /\ DOMAIN snaps' = DOMAIN snaps
    BY LenProperties, StartDoneRows DEF Typed, StoreTyped
  <1>2. Deleted.whole /\ Deleted.kind = "deleted"
    BY DEF Deleted
  <1>3. \A i \in DOMAIN snaps : snaps[i] \in Snapshot
    BY DEF Typed, StoreTyped
  <1>4. \A r \in Snapshot : /\ [r EXCEPT !.whole = TRUE, !.apps = live.apps].whole
                            /\ [r EXCEPT !.whole = TRUE, !.apps = live.apps].kind = r.kind
    BY DEF Snapshot
  <1>5. \A i \in DOMAIN snaps : snaps[i].whole => snaps'[i].whole
    BY <1>2, <1>3, <1>4, StartDoneRows
  <1>6. \A i \in DOMAIN runs' : snaps'[runs'[i].snap].whole
    BY <1>5, RunsWhole DEF StartDone
  <1>7. chosen' = NONE /\ agent' # "copying"
    BY DEF StartDone, Typed, AgentTyped
  <1>8. CASE live # Nothing
    <2> DEFINE k == Len(snaps)
    <2>1. k \in DOMAIN snaps /\ pending' = k /\ snaps[k].kind = "shutdown"
      BY <1>8, StartDoneRows DEF StartDone, Whole
    <2>2. snaps'[k].whole /\ snaps'[k].kind = "shutdown"
      BY <1>3, <1>4, <1>8, <2>1, NewestIsKept, StartDoneRows
    <2>3. NewestWhole'
      <3> SUFFICES ASSUME NEW i \in DOMAIN snaps',
                          \A j \in DOMAIN snaps' : snaps'[j].kind = "shutdown" => j <= i
                   PROVE  snaps'[i].whole
        BY DEF NewestWhole
      <3>1. k <= i /\ i \in 1 .. k
        BY <1>1, <2>1, <2>2
      <3>2. i = k
        BY <1>1, <3>1
      <3> QED BY <2>2, <3>2
    <2> QED BY <1>6, <1>7, <2>1, <2>2, <2>3 DEF Whole
  <1>9. CASE live = Nothing
    <2>1. pending' = NONE
      BY <1>9 DEF StartDone
    <2>2. NewestWhole
      BY <1>9 DEF Whole, Unsettled
    <2>3. NewestWhole'
      <3> SUFFICES ASSUME NEW i \in DOMAIN snaps', snaps'[i].kind = "shutdown",
                          \A j \in DOMAIN snaps' : snaps'[j].kind = "shutdown" => j <= i
                   PROVE  snaps'[i].whole
        BY DEF NewestWhole
      <3>1. i \notin Doomed(Retention) /\ snaps'[i] = snaps[i]
        BY <1>1, <1>2, <1>9, StartDoneRows
      <3>2. i \in Kept
        BY <1>1, <3>1 DEF Kept
      <3>3. ASSUME NEW j \in DOMAIN snaps, snaps[j].kind = "shutdown" PROVE j <= i
        <4>1. CASE j \in Doomed(Retention)
          <5>1. ~(i < j)
            BY <3>1, <3>2, <4>1, PrunedFromTheOldest
          <5> QED BY <1>1, <5>1
        <4>2. CASE j \notin Doomed(Retention)
          BY <1>1, <1>9, <3>3, <4>2, StartDoneRows
        <4> QED BY <4>1, <4>2
      <3>4. snaps[i].whole
        BY <1>1, <2>2, <3>1, <3>3 DEF NewestWhole
      <3> QED BY <3>1, <3>4
    <2> QED BY <1>6, <1>7, <2>1, <2>3 DEF Whole
  <1> QED BY <1>8, <1>9

LEMMA EndSessionWhole == ASSUME Typed, Whole, EndSession PROVE Whole'
  <1>1. live' \in Content
    BY CapturedTyped DEF EndSession, Flush, Typed
  <1>2. PICK rows \in Content : rows = live'
    BY <1>1
  <1>3. /\ runs' = runs /\ pending' = NONE /\ chosen' = NONE /\ agent' = "down"
        /\ agent = "up"
    BY DEF EndSession, AgentGone
  <1>4. snaps' \in {snaps, PartialCopy(rows), CreateFromLive("shutdown", rows)}
    BY <1>2 DEF EndSession, Flush
  <1>5. CASE AddsWhole
    BY <1>3, <1>5, RunsWhole, WholeKept DEF Unsettled
  <1>6. CASE ~AddsWhole
    <2>1. snaps' = PartialCopy(rows)
      BY <1>4, <1>6, CreateIsWhole DEF AddsWhole
    <2>2. rows # Nothing
      BY <1>6, <2>1 DEF PartialCopy, AddsWhole
    <2>3. Unsettled'
      BY <1>2, <1>3, <2>2 DEF Unsettled
    <2>4. Grows(snaps, snaps')
      BY <2>1, PartialTyped DEF Typed
    <2>5. \A i \in DOMAIN runs' : snaps'[runs'[i].snap].whole
      BY <1>3, <2>4, RunsWhole DEF Grows
    <2> QED BY <1>3, <2>3, <2>5 DEF Whole
  <1> QED BY <1>5, <1>6

LEMMA OfferToWhole ==
    ASSUME Typed, Whole, NEW b \in Browser, OfferTo(b), UNCHANGED clock
    PROVE  /\ AddsWhole
           /\ \A i \in DOMAIN runs' : runs'[i].snap \in DOMAIN snaps /\ snaps[runs'[i].snap].whole
  <1>1. CASE UNCHANGED <<snaps, runs, jobs>>
    BY <1>1, RunsWhole DEF AddsWhole
  <1>2. CASE ~UNCHANGED <<snaps, runs, jobs>>
    <2> DEFINE want == TabsOf(snaps[pending].tabs, b)
    <2>1. /\ pending \in DOMAIN snaps /\ live \in Content /\ snaps[pending].whole
          /\ BeginRun(pending, live, PendingItems(want), FALSE)
      BY <1>2 DEF OfferTo, Whole, Typed, AgentTyped, DesktopTyped
    <2>2. PendingItems(want) \in [Url -> Status]
      BY DEF PendingItems, Status
    <2> QED BY <2>1, <2>2, BeginsWhole
  <1> QED BY <1>1, <1>2

LEMMA AutoAppsWhole == ASSUME Typed, Whole, AutoApps PROVE Whole'
  <1>1. /\ AddsWhole
        /\ \A i \in DOMAIN runs' : runs'[i].snap \in DOMAIN snaps /\ snaps[runs'[i].snap].whole
    <2>1. CASE UNCHANGED <<snaps, runs>>
      BY <2>1, RunsWhole DEF AddsWhole
    <2>2. CASE ~UNCHANGED <<snaps, runs>>
      <3>1. /\ pending \in DOMAIN snaps /\ live \in Content /\ snaps[pending].whole
            /\ BeginRun(pending, live, NoItems, TRUE) /\ clock' = clock
        BY <2>2 DEF AutoApps, Whole, Typed, AgentTyped, DesktopTyped, bounds
      <3>2. NoItems \in [Url -> Status]
        BY DEF NoItems, Status
      <3> QED BY <3>1, <3>2, BeginsWhole
    <2> QED BY <2>1, <2>2
  <1> QED BY <1>1, ChosenWhole, WholeKept DEF AutoApps, Unsettled

LEMMA ThreadBeginWhole == ASSUME Typed, Whole, ThreadBegin PROVE Whole'
  <1>1. live' \in Content
    BY CapturedTyped DEF ThreadBegin, Typed
  <1>2. PICK rows \in Content : rows = live'
    BY <1>1
  <1>3. /\ chosen \in Choice /\ chosen.snap \in DOMAIN snaps /\ snaps[chosen.snap].whole
        /\ agent = "up"
    BY ChosenWhole DEF ThreadBegin, Typed, AgentTyped
  <1>4. BeginRun(chosen.snap, rows, NoItems, FALSE) /\ clock' = clock
    BY <1>2 DEF ThreadBegin, bounds
  <1>5. NoItems \in [Url -> Status]
    BY DEF NoItems, Status
  <1>6. /\ AddsWhole
        /\ \A i \in DOMAIN runs' : runs'[i].snap \in DOMAIN snaps /\ snaps[runs'[i].snap].whole
    BY <1>3, <1>4, <1>5, BeginsWhole
  <1>7. chosen' # NONE => chosen'.snap = chosen.snap
    <2>1. [chosen EXCEPT !.phase = "launch", !.run = Len(runs) + 1].snap = chosen.snap
      BY <1>3 DEF Choice
    <2> QED BY <2>1 DEF ThreadBegin
  <1> QED BY <1>3, <1>6, <1>7, WholeKept DEF ThreadBegin, Unsettled

\* What the review is about is whole: pending, or the newest shutdown copy.
LEMMA ReviewedWhole ==
    ASSUME Typed, Whole, agent = "up", NEW s \in ReviewedSnapshot
    PROVE  s \in DOMAIN snaps /\ snaps[s].whole
  <1>1. NewestWhole
    BY DEF Whole, Unsettled
  <1> QED BY <1>1, ReviewedTyped DEF ReviewedSnapshot, NewestWhole, Whole

LEMMA AnswerWhole == ASSUME Typed, Whole, Answer PROVE Whole'
  <1>1. UNCHANGED <<snaps, runs, pending, agent, live>> /\ agent = "up"
    BY DEF Answer, store
  <1>2. chosen' # NONE => chosen'.snap \in DOMAIN snaps /\ snaps[chosen'.snap].whole
    BY <1>1, ReviewedWhole, ChosenWhole DEF Answer
  <1> QED BY <1>1, <1>2, RunsWhole, WholeKept DEF AddsWhole, Unsettled

\* A row that is edited keeps the snapshot it is of.
LEMMA EditsWhole ==
    ASSUME Typed, Whole, NEW n \in DOMAIN runs, NEW finished, NEW items, Edited(n, finished, items)
    PROVE  \A i \in DOMAIN runs' : runs'[i].snap \in DOMAIN snaps /\ snaps[runs'[i].snap].whole
  <1>1. runs[n] \in RunRow
    BY DEF Typed, StoreTyped
  <1>2. [runs[n] EXCEPT !.finished = finished, !.items = items].snap = runs[n].snap
    BY <1>1 DEF RunRow
  <1> QED BY <1>2, RunsWhole DEF Edited

LEMMA WholeNext == Typed /\ Whole /\ [Next]_vars => Whole'
  <1> SUFFICES ASSUME Typed, Whole, [Next]_vars PROVE Whole'
    OBVIOUS
  <1> USE RunsWhole, ChosenWhole
  <1>1. CASE UNCHANGED vars
    BY <1>1, WholeKept DEF vars, store, agentVars, AddsWhole, Unsettled
  <1>2. CASE \E b \in Browser : Connect(b) \/ OfferConnected(b)
    <2>1. PICK b \in Browser : Connect(b) \/ OfferConnected(b)
      BY <1>2
    <2>2. (OfferTo(b) /\ UNCHANGED clock) \/ UNCHANGED <<snaps, runs>>
      BY <2>1 DEF Connect, OfferConnected, bounds
    <2>3. /\ AddsWhole
          /\ \A i \in DOMAIN runs' : runs'[i].snap \in DOMAIN snaps /\ snaps[runs'[i].snap].whole
      BY <2>2, OfferToWhole DEF AddsWhole
    <2>4. chosen' # NONE => chosen # NONE /\ chosen'.snap = chosen.snap
      <3>1. CASE Connect(b)
        BY <3>1 DEF Connect
      <3>2. CASE OfferConnected(b)
        BY <3>2 DEF OfferConnected, Typed, AgentTyped, Choice
      <3> QED BY <2>1, <3>1, <3>2
    <2>5. /\ agent = "up" /\ UNCHANGED <<agent, pending, live>>
      BY <2>1 DEF Connect, OfferConnected, Typed, AgentTyped
    <2> QED BY <2>3, <2>4, <2>5, WholeKept DEF Unsettled
  <1>3. CASE \E b \in Browser : Report(b)
    BY <1>3, WholeKept DEF Report, agentVars, AddsWhole, Unsettled, Typed, AgentTyped
  <1>4. CASE \/ \E b \in Browser : Disconnect(b)
             \/ \E j \in jobs : ApplyRestore(j)
             \/ UndoWindows \/ Tick
    BY <1>4, WholeKept DEF Disconnect, ApplyRestore, UndoWindows, Tick, store, agentVars,
       AddsWhole, Unsettled
  <1>5. CASE \E j \in jobs : Reply(j)
    <2>1. PICK j \in jobs : Reply(j)
      BY <1>5
    <2>2. \A i \in DOMAIN runs' : runs'[i].snap \in DOMAIN snaps /\ snaps[runs'[i].snap].whole
      BY <2>1, ReplyRows, EditsWhole
    <2> QED BY <2>1, <2>2, WholeKept DEF Reply, agentVars, AddsWhole, Unsettled
  <1>6. CASE ThreadLaunch
    <2>1. \A i \in DOMAIN runs' : runs'[i].snap \in DOMAIN snaps /\ snaps[runs'[i].snap].whole
      BY <1>6, ThreadLaunchTyped, EditsWhole
    <2> QED BY <1>6, <2>1, WholeKept DEF ThreadLaunch, AddsWhole, Unsettled
  <1>7. CASE CloseTabs
    <2>1. \A i \in DOMAIN runs' : runs'[i].snap \in DOMAIN snaps /\ snaps[runs'[i].snap].whole
      BY <1>7, CloseTabsRows, EditsWhole
    <2> QED BY <1>7, <2>1, WholeKept DEF CloseTabs, agentVars, AddsWhole, Unsettled
  <1>8. CASE Capture
    BY <1>8, WholeKept DEF Capture, agentVars, AddsWhole, Unsettled
  <1>9. CASE \/ \E a \in App : UserApp(a) \/ AppExits(a)
             \/ \E b \in Browser, u \in Url : UserOpensTab(b, u)
             \/ \E t \in tabs : UserClosesTab(t) \/ Activate(t)
    BY <1>9, WholeKept DEF UserApp, AppExits, UserOpensTab, UserClosesTab, Activate,
       store, agentVars, AddsWhole, Unsettled
  <1>10. CASE QueryEnd
    <2>1. live' \in Content
      BY <1>10, CapturedTyped DEF QueryEnd, Flush, Typed, DesktopTyped
    <2>2. PICK rows \in Content : rows = live'
      BY <2>1
    <2>3. snaps' \in {snaps, CreateFromLive("shutdown", rows)}
      BY <1>10, <2>2 DEF QueryEnd, Flush
    <2>4. AddsWhole
      BY <2>3, CreateIsWhole DEF AddsWhole
    <2> QED BY <1>10, <2>4, WholeKept DEF QueryEnd, agentVars, Unsettled
  <1>11. CASE Crash
    BY <1>11, WholeKept DEF Crash, AgentGone, store, AddsWhole, Unsettled
  <1> QED BY <1>1, <1>2, <1>3, <1>4, <1>5, <1>6, <1>7, <1>8, <1>9, <1>10, <1>11, Actions,
          StartCopyWhole, StartDoneWhole, EndSessionWhole, AutoAppsWhole, ThreadBeginWhole,
          AnswerWhole

LEMMA AlwaysWhole == Spec => []Whole
  BY AlwaysTyped, WholeInit, WholeNext, PTL DEF Spec

\* No run restores a copy that a crash or the end of the session cut short, and
\* the session the agent owes is neither pruned nor partial.
THEOREM OnlyWholeSnapshots == Spec => []RestoresWholeSnapshots
  BY AlwaysWhole, WholeImplies, PTL

-----------------------------------------------------------------------------
(* An undo point predates its episode.  A run's number is on nothing until  *)
(* the run begins, so what is copied then holds nothing of it; and a run    *)
(* that shares an undo point takes the one of the newest run of its         *)
(* episode, which that run shares with all that came before it.             *)

Clean(c, n) ==
    /\ \A a \in App : c.apps[a] # n
    /\ \A t \in c.tabs : t.by # n

\* The numbers of the runs to come.
Later == {n \in Nat : n # 0 /\ n \notin DOMAIN runs}

Unseen ==
    \A n \in Later :
        /\ \A a \in App : apps[a] # n
        /\ \A t \in tabs : t.by # n
        /\ Clean(live, n)
        /\ \A i \in DOMAIN snaps : Clean(snaps[i], n)

Episodes ==
    /\ \A i \in DOMAIN runs : runs[i].started <= clock
    /\ \A i \in DOMAIN runs : runs[i].undo # NONE => snaps[runs[i].undo].kind # "shutdown"
    /\ UndoPredatesEpisode

Predates == Unseen /\ Episodes

LEMMA PredatesInit == Init => Predates
  <1> SUFFICES ASSUME Init PROVE Predates
    OBVIOUS
  <1>1. \A a \in App : apps[a] = NONE
    BY DEF Init, Nothing
  <1>2. \A a \in App : live.apps[a] \in {0, NONE}
    BY DEF Init
  <1>3. \A t \in live.tabs : t.by = 0
    BY DEF Init
  <1>4. Unseen
    BY <1>1, <1>2, <1>3, NoneAssumption DEF Unseen, Later, Clean, Init
  <1>5. Episodes
    BY DEF Init, Episodes, UndoPredatesEpisode
  <1> QED BY <1>4, <1>5 DEF Predates

\* What a step puts on the desktop, in the live rows and in the snapshots.
DesktopStep ==
    /\ \A a \in App : apps'[a] \in {apps[a], NONE, 0} \cup DOMAIN runs'
    /\ \A t \in tabs' : t.by \in {0} \cup DOMAIN runs' \/ \E s \in tabs : s.by = t.by
LiveStep ==
    /\ \A a \in App : live'.apps[a] \in {live.apps[a], apps[a]}
    /\ live'.tabs \subseteq live.tabs \cup tabs
SnapsStep ==
    \A i \in DOMAIN snaps' :
        /\ \A a \in App : \/ snaps'[i].apps[a] \in {NONE, live'.apps[a]}
                          \/ i \in DOMAIN snaps /\ snaps'[i].apps[a] = snaps[i].apps[a]
        /\ \A t \in snaps'[i].tabs : t \in live'.tabs \/ (i \in DOMAIN snaps /\ t \in snaps[i].tabs)

LEMMA UnseenKept ==
    ASSUME Unseen, DOMAIN runs \subseteq DOMAIN runs', DesktopStep, LiveStep, SnapsStep
    PROVE  Unseen'
  <1> SUFFICES ASSUME NEW n \in Later'
               PROVE  /\ \A a \in App : apps'[a] # n
                      /\ \A t \in tabs' : t.by # n
                      /\ Clean(live', n)
                      /\ \A i \in DOMAIN snaps' : Clean(snaps'[i], n)
    BY DEF Unseen, Later, Clean
  <1>1. n \in Later /\ n # 0 /\ n # NONE /\ n \notin DOMAIN runs'
    BY NoneAssumption DEF Later
  <1>2. /\ \A a \in App : apps[a] # n
        /\ \A t \in tabs : t.by # n
        /\ Clean(live, n)
        /\ \A i \in DOMAIN snaps : Clean(snaps[i], n)
    BY <1>1 DEF Unseen
  <1>3. \A a \in App : apps'[a] # n
    BY <1>1, <1>2 DEF DesktopStep
  <1>4. \A t \in tabs' : t.by # n
    BY <1>1, <1>2 DEF DesktopStep
  <1>5. Clean(live', n)
    BY <1>2 DEF Clean, LiveStep
  <1>6. ASSUME NEW i \in DOMAIN snaps' PROVE Clean(snaps'[i], n)
    BY <1>1, <1>2, <1>5 DEF Clean, SnapsStep
  <1> QED BY <1>3, <1>4, <1>5, <1>6

\* The snapshots that are not shutdown copies stay as they are, or are deleted.
UndosStep ==
    \A i \in DOMAIN snaps : snaps[i].kind # "shutdown" =>
        i \in DOMAIN snaps' /\ snaps'[i] \in {snaps[i], Deleted}

LEMMA EpisodesKept ==
    ASSUME Typed, Episodes, UndosStep, clock' \in Nat, clock <= clock',
           DOMAIN runs' = DOMAIN runs,
           \A i \in DOMAIN runs : /\ runs'[i].snap = runs[i].snap
                                  /\ runs'[i].started = runs[i].started
                                  /\ runs'[i].undo = runs[i].undo
    PROVE  Episodes'
  <1>1. /\ \A i \in DOMAIN runs : runs[i].started \in Nat
        /\ clock \in Nat
    <2>1. \A i \in DOMAIN runs : runs[i] \in RunRow
      BY DEF Typed, StoreTyped
    <2>2. \A r \in RunRow : r.started \in Nat
      BY DEF RunRow
    <2> QED BY <2>1, <2>2 DEF Typed, StoreTyped
  <1>2. \A i \in DOMAIN runs' : runs'[i].started <= clock'
    BY <1>1 DEF Episodes
  <1>3. ASSUME NEW i \in DOMAIN runs, runs[i].undo # NONE
        PROVE  snaps'[runs[i].undo] \in {snaps[runs[i].undo], Deleted}
    <2>1. runs[i].undo \in DOMAIN snaps /\ snaps[runs[i].undo].kind # "shutdown"
      BY <1>3 DEF Typed, StoreTyped, Episodes
    <2> QED BY <2>1 DEF UndosStep
  <1>4. \A i \in DOMAIN runs' : runs'[i].undo # NONE => snaps'[runs'[i].undo].kind # "shutdown"
    BY <1>3 DEF Episodes, Deleted
  <1>5. \A i \in DOMAIN runs : i # NONE
    <2>1. DOMAIN runs = 1 .. Len(runs)
      BY LenProperties DEF Typed, StoreTyped
    <2> QED BY <2>1, NoneAssumption
  <1>6. \A i \in DOMAIN runs : Clean(Deleted, i)
    BY <1>5 DEF Clean, Deleted, Nothing
  <1>7. UndoPredatesEpisode'
    <2> SUFFICES ASSUME NEW i \in DOMAIN runs, NEW j \in DOMAIN runs,
                        runs[j].undo # NONE,
                        \/ i = j
                        \/ /\ i < j /\ runs[i].snap = runs[j].snap /\ runs[i].undo # NONE
                           /\ runs[i].started >= runs[j].started - Episode
                 PROVE  Clean(snaps'[runs[j].undo], i)
      BY DEF UndoPredatesEpisode, Clean
    <2>1. Clean(snaps[runs[j].undo], i)
      BY DEF Episodes, UndoPredatesEpisode, Clean
    <2> QED BY <1>3, <1>6, <2>1
  <1> QED BY <1>2, <1>4, <1>7 DEF Episodes

LEMMA RowTyped ==
    ASSUME Typed, NEW i \in DOMAIN runs
    PROVE  /\ runs[i].started \in Nat /\ clock \in Nat /\ i \in Nat
           /\ runs[i].undo # NONE => runs[i].undo \in DOMAIN snaps
  <1>1. runs[i] \in RunRow
    BY DEF Typed, StoreTyped
  <1>2. DOMAIN runs = 1 .. Len(runs)
    BY LenProperties DEF Typed, StoreTyped
  <1> QED BY <1>1, <1>2 DEF RunRow, Typed, StoreTyped

\* A run begins: what its undo point holds is older than its episode.
LEMMA BeginsEpisodes ==
    ASSUME Typed, Predates, NEW s \in DOMAIN snaps, NEW rows \in Content,
           NEW items \in [Url -> Status], NEW done \in BOOLEAN,
           BeginRun(s, rows, items, done), clock' = clock,
           \A n \in Later : Clean(rows, n)
    PROVE  Episodes'
  <1> DEFINE m == Len(runs) + 1
  <1>1. /\ StoreTyped' /\ Grows(snaps, snaps') /\ Grows(runs, runs')
        /\ DOMAIN runs' = DOMAIN runs \cup {m} /\ m \notin DOMAIN runs
        /\ DOMAIN runs = 1 .. Len(runs) /\ Len(runs) \in Nat
    <2>1. DOMAIN runs = 1 .. Len(runs) /\ Len(runs) \in Nat
      BY LenProperties DEF Typed, StoreTyped
    <2> QED BY <2>1, BeginRunTyped DEF Typed
  <1>2. PICK undo \in DOMAIN snaps' \cup {NONE} :
            /\ runs'[m] = NewRun(s, items, done, undo)
            /\ Shares(s, undo) \/ Fresh(s, rows, undo)
    BY BeginRunTyped DEF Typed
  <1>3. m \in Later /\ \A i \in DOMAIN runs' : i <= m
    BY <1>1 DEF Later
  <1> HIDE DEF m
  <1>4. \A i \in DOMAIN runs : runs'[i] = runs[i]
    BY <1>1 DEF Grows
  <1>5. /\ runs'[m].snap = s /\ runs'[m].started = clock /\ runs'[m].undo = undo
    BY <1>2 DEF NewRun
  <1>6. \A i \in DOMAIN runs : runs[i].undo # NONE => snaps'[runs[i].undo] = snaps[runs[i].undo]
    BY <1>1, RowTyped DEF Grows
  <1>7. \A i \in DOMAIN runs : /\ i \in EpisodeRuns(s) =>
                                    /\ runs[i].snap = s /\ runs[i].undo # NONE
                                    /\ runs[i].started >= clock - Episode
                               /\ /\ runs[i].snap = s /\ runs[i].undo # NONE
                                  /\ runs[i].started >= clock - Episode
                                  => i \in EpisodeRuns(s)
    BY DEF EpisodeRuns
  <1>8. undo # NONE => snaps'[undo].kind # "shutdown" /\ Clean(snaps'[undo], m)
    <2> SUFFICES ASSUME undo # NONE PROVE snaps'[undo].kind # "shutdown" /\ Clean(snaps'[undo], m)
      OBVIOUS
    <2>1. CASE Shares(s, undo)
      <3>1. PICK n \in EpisodeRuns(s) : undo = runs[n].undo
        BY <2>1 DEF Shares
      <3>2. n \in DOMAIN runs /\ snaps' = snaps /\ undo \in DOMAIN snaps
        BY <2>1, <3>1, RowTyped DEF Shares, EpisodeRuns
      <3> QED BY <1>3, <3>1, <3>2 DEF Predates, Episodes, Unseen
    <2>2. CASE Fresh(s, rows, undo)
      <3>1. snaps' = Append(snaps, UndoCopy(rows)) /\ undo = Len(snaps) + 1
        BY <2>2 DEF Fresh
      <3>2. snaps'[undo] = UndoCopy(rows)
        BY <3>1, CopyTyped, AppendGrows DEF Typed, StoreTyped
      <3> QED BY <1>3, <3>2 DEF UndoCopy, Clean
    <2> QED BY <1>2, <2>1, <2>2
  <1>9. ASSUME NEW i \in DOMAIN runs, i \in EpisodeRuns(s), undo # NONE
        PROVE  Clean(snaps'[undo], i)
    <2>1. Shares(s, undo)
      BY <1>2, <1>9 DEF Fresh
    <2>2. PICK n \in EpisodeRuns(s) : undo = runs[n].undo /\ \A k \in EpisodeRuns(s) : k <= n
      BY <2>1 DEF Shares
    <2>3. n \in DOMAIN runs /\ snaps' = snaps
      BY <2>1, <2>2 DEF Shares, EpisodeRuns
    <2>4. i = n \/ (i < n /\ runs[i].snap = runs[n].snap /\ runs[i].undo # NONE
                    /\ runs[i].started >= runs[n].started - Episode)
      <3>1. i <= n /\ i \in Nat /\ n \in Nat
        BY <1>9, <2>2, <2>3, RowTyped
      <3>2. /\ runs[i].snap = s /\ runs[n].snap = s /\ runs[i].undo # NONE
            /\ runs[i].started >= clock - Episode
        BY <1>7, <1>9, <2>2, <2>3
      <3>3. runs[n].started <= clock
        BY <2>3 DEF Predates, Episodes
      <3>4. runs[i].started \in Nat /\ runs[n].started \in Nat /\ clock \in Nat
        BY <2>3, RowTyped
      <3> QED BY <3>1, <3>2, <3>3, <3>4, EpisodeAssumption
    <2> QED BY <1>9, <2>2, <2>3, <2>4 DEF Predates, Episodes, UndoPredatesEpisode, Clean
  <1>10. UndoPredatesEpisode'
    <2> SUFFICES ASSUME NEW i \in DOMAIN runs', NEW j \in DOMAIN runs',
                        runs'[j].undo # NONE,
                        \/ i = j
                        \/ /\ i < j /\ runs'[i].snap = runs'[j].snap /\ runs'[i].undo # NONE
                           /\ runs'[i].started >= runs'[j].started - Episode
                 PROVE  Clean(snaps'[runs'[j].undo], i)
      BY DEF UndoPredatesEpisode, Clean
    <2>1. CASE j \in DOMAIN runs
      <3>1. i \in DOMAIN runs
        <4>1. i <= j /\ i \in Nat /\ j \in Nat
          BY <1>1, <1>3 DEF m
        <4> QED BY <1>1, <2>1, <4>1 DEF m
      <3> QED BY <1>4, <1>6, <2>1, <3>1 DEF Predates, Episodes, UndoPredatesEpisode, Clean
    <2>2. CASE j = m /\ i = m
      BY <1>5, <1>8, <2>2
    <2>3. CASE j = m /\ i \in DOMAIN runs
      <3>1. i # m
        BY <1>1, <2>3
      <3>2. i \in EpisodeRuns(s)
        BY <1>4, <1>5, <1>7, <2>3, <3>1
      <3> QED BY <1>5, <1>9, <2>3, <3>2
    <2> QED BY <1>1, <2>1, <2>2, <2>3
  <1>11. \A i \in DOMAIN runs' : runs'[i].started <= clock'
    <2>1. clock \in Nat
      BY DEF Typed, StoreTyped
    <2> QED BY <1>1, <1>4, <1>5, <2>1 DEF Predates, Episodes
  <1>12. \A i \in DOMAIN runs' : runs'[i].undo # NONE => snaps'[runs'[i].undo].kind # "shutdown"
    BY <1>1, <1>4, <1>5, <1>6, <1>8 DEF Predates, Episodes
  <1> QED BY <1>10, <1>11, <1>12 DEF Episodes

\* Steps that leave the snapshots and the runs alone.
LEMMA Quiet ==
    ASSUME Typed, Predates, UNCHANGED <<snaps, runs>>, clock' \in Nat, clock <= clock',
           DesktopStep, LiveStep
    PROVE  Predates'
  <1>1. SnapsStep /\ UndosStep
    BY DEF SnapsStep, UndosStep
  <1>2. Unseen'
    BY <1>1, UnseenKept DEF Predates
  <1>3. Episodes'
    BY <1>1, EpisodesKept DEF Predates
  <1> QED BY <1>2, <1>3 DEF Predates

\* Steps that edit a row of restore_runs.
LEMMA EditPredates ==
    ASSUME Typed, Predates, NEW n \in DOMAIN runs, NEW finished, NEW items,
           Edited(n, finished, items), UNCHANGED <<snaps, clock, live>>, DesktopStep
    PROVE  Predates'
  <1>1. runs[n] \in RunRow
    BY DEF Typed, StoreTyped
  <1>2. /\ [runs[n] EXCEPT !.finished = finished, !.items = items].snap = runs[n].snap
        /\ [runs[n] EXCEPT !.finished = finished, !.items = items].started = runs[n].started
        /\ [runs[n] EXCEPT !.finished = finished, !.items = items].undo = runs[n].undo
    BY <1>1 DEF RunRow
  <1>3. SnapsStep /\ UndosStep /\ LiveStep
    BY DEF SnapsStep, UndosStep, LiveStep
  <1>4. Unseen'
    BY <1>3, UnseenKept DEF Predates, Edited
  <1>5. clock \in Nat
    BY DEF Typed, StoreTyped
  <1>6. /\ DOMAIN runs' = DOMAIN runs
        /\ \A i \in DOMAIN runs : /\ runs'[i].snap = runs[i].snap
                                 /\ runs'[i].started = runs[i].started
                                 /\ runs'[i].undo = runs[i].undo
    BY <1>2 DEF Edited
  <1>7. Episodes'
    BY <1>3, <1>5, <1>6, EpisodesKept DEF Predates
  <1> QED BY <1>4, <1>7 DEF Predates

\* Steps that copy the live rows and begin no run.
LEMMA CopyPredates ==
    ASSUME Typed, Predates, UNCHANGED <<runs, clock>>, DesktopStep, LiveStep, live' \in Content,
           snaps' \in {snaps, PartialCopy(live'), CreateFromLive("shutdown", live')}
    PROVE  Predates'
  <1>1. PICK rows \in Content : rows = live'
    OBVIOUS
  <1>2. snaps' \in {snaps, PartialCopy(rows), CreateFromLive("shutdown", rows)}
    BY <1>1
  <1>3. snaps' \in Seq(Snapshot) /\ Grows(snaps, snaps')
    BY <1>2, PartialTyped, CreateTyped DEF Typed, StoreTyped, Grows
  <1>4. SnapsStep
    <2>1. CASE snaps' = snaps
      BY <2>1 DEF SnapsStep
    <2>2. CASE snaps' # snaps
      <3>1. PICK e \in Snapshot : /\ snaps' = Append(snaps, e) /\ e.tabs = rows.tabs
                                  /\ e.apps \in {rows.apps, Nothing.apps}
        <4>1. /\ [kind |-> "shutdown", whole |-> FALSE, apps |-> Nothing.apps,
                  tabs |-> rows.tabs] \in Snapshot
              /\ [kind |-> "shutdown", whole |-> TRUE, apps |-> rows.apps,
                  tabs |-> rows.tabs] \in Snapshot
          BY DEF Snapshot, Content, Nothing
        <4> QED BY <1>2, <2>2, <4>1 DEF PartialCopy, CreateFromLive
      <3>2. /\ DOMAIN snaps' = DOMAIN snaps \cup {Len(snaps) + 1}
            /\ snaps'[Len(snaps) + 1] = e
            /\ \A i \in DOMAIN snaps : snaps'[i] = snaps[i]
        BY <3>1, AppendGrows DEF Typed, StoreTyped, Grows
      <3>3. \A a \in App : e.apps[a] \in {NONE, live'.apps[a]}
        BY <1>1, <3>1 DEF Nothing
      <3> SUFFICES ASSUME NEW i \in DOMAIN snaps'
                   PROVE  /\ \A a \in App : \/ snaps'[i].apps[a] \in {NONE, live'.apps[a]}
                                            \/ i \in DOMAIN snaps /\ snaps'[i].apps[a] = snaps[i].apps[a]
                          /\ \A t \in snaps'[i].tabs : t \in live'.tabs \/ (i \in DOMAIN snaps /\ t \in snaps[i].tabs)
        BY DEF SnapsStep
      <3>4. CASE i \in DOMAIN snaps
        BY <3>2, <3>4
      <3>5. CASE i = Len(snaps) + 1
        <4>1. snaps'[i] = e /\ e.tabs = live'.tabs
          BY <1>1, <3>1, <3>2, <3>5
        <4> QED BY <3>3, <4>1
      <3> QED BY <3>2, <3>4, <3>5
    <2> QED BY <2>1, <2>2
  <1>5. UndosStep
    BY <1>3 DEF UndosStep, Grows
  <1>6. Unseen'
    BY <1>4, UnseenKept DEF Predates
  <1>7. clock \in Nat
    BY DEF Typed, StoreTyped
  <1>8. Episodes'
    BY <1>5, <1>7, EpisodesKept DEF Predates
  <1> QED BY <1>6, <1>8 DEF Predates

\* Steps that begin a run; what they open carries its number.
LEMMA BeginsPredates ==
    ASSUME Typed, Predates, NEW s \in DOMAIN snaps, live' \in Content,
           NEW items \in [Url -> Status], NEW done \in BOOLEAN,
           BeginRun(s, live', items, done), clock' = clock, DesktopStep, LiveStep
    PROVE  Predates'
  <1>1. PICK rows \in Content : rows = live'
    OBVIOUS
  <1>2. BeginRun(s, rows, items, done)
    BY <1>1
  <1>3. \A n \in Later : Clean(rows, n)
    BY <1>1 DEF Predates, Unseen, Clean, LiveStep
  <1>4. Episodes'
    BY <1>2, <1>3, BeginsEpisodes
  <1>5. DOMAIN runs \subseteq DOMAIN runs'
    BY <1>2, BeginRunTyped DEF Typed
  <1>6. SnapsStep
    <2>1. snaps' = snaps \/ snaps' = Append(snaps, UndoCopy(rows))
      BY <1>2, BeginRunTyped DEF Typed, Shares, Fresh
    <2>2. CASE snaps' = snaps
      BY <2>2 DEF SnapsStep
    <2>3. CASE snaps' = Append(snaps, UndoCopy(rows))
      <3>1. /\ DOMAIN snaps' = DOMAIN snaps \cup {Len(snaps) + 1}
            /\ snaps'[Len(snaps) + 1] = UndoCopy(rows)
            /\ \A i \in DOMAIN snaps : snaps'[i] = snaps[i]
        BY <2>3, CopyTyped, AppendGrows DEF Typed, StoreTyped, Grows
      <3> SUFFICES ASSUME NEW i \in DOMAIN snaps'
                   PROVE  /\ \A a \in App : \/ snaps'[i].apps[a] \in {NONE, live'.apps[a]}
                                            \/ i \in DOMAIN snaps /\ snaps'[i].apps[a] = snaps[i].apps[a]
                          /\ \A t \in snaps'[i].tabs : t \in live'.tabs \/ (i \in DOMAIN snaps /\ t \in snaps[i].tabs)
        BY DEF SnapsStep
      <3>2. CASE i \in DOMAIN snaps
        BY <3>1, <3>2
      <3>3. CASE i = Len(snaps) + 1
        <4>1. snaps'[i].apps = live'.apps /\ snaps'[i].tabs = live'.tabs
          BY <1>1, <3>1, <3>3 DEF UndoCopy
        <4> QED BY <4>1
      <3> QED BY <3>1, <3>2, <3>3
    <2> QED BY <2>1, <2>2, <2>3
  <1>7. Unseen'
    BY <1>5, <1>6, UnseenKept DEF Predates
  <1> QED BY <1>4, <1>7 DEF Predates

LEMMA CapturedStep == ASSUME Captured, live \in Content PROVE LiveStep
  BY DEF Captured, LiveStep, Content

LEMMA LaunchedStep ==
    ASSUME NEW wanted, NEW n, n = 0 \/ n \in DOMAIN runs', apps' = Launched(wanted, n),
           tabs' = tabs
    PROVE  DesktopStep
  BY DEF Launched, DesktopStep

LEMMA StartDonePredates == ASSUME Typed, Whole, Predates, StartDone PROVE Predates'
  <1>1. UNCHANGED <<apps, tabs, live, runs, clock>> /\ agent = "copying"
    BY DEF StartDone, bounds
  <1>2. /\ DOMAIN snaps' = DOMAIN snaps
        /\ \A i \in DOMAIN snaps :
              \/ snaps'[i] = Deleted
              \/ /\ live # Nothing /\ i = Len(snaps)
                 /\ snaps'[i] = [snaps[i] EXCEPT !.whole = TRUE, !.apps = live.apps]
              \/ snaps'[i] = snaps[i]
    BY StartDoneRows
  <1>3. live # Nothing => snaps[Len(snaps)].kind = "shutdown"
    BY <1>1 DEF Whole
  <1>4. UndosStep
    BY <1>2, <1>3 DEF UndosStep
  <1>5. ASSUME NEW i \in DOMAIN snaps'
        PROVE  /\ \A a \in App : \/ snaps'[i].apps[a] \in {NONE, live'.apps[a]}
                                 \/ i \in DOMAIN snaps /\ snaps'[i].apps[a] = snaps[i].apps[a]
               /\ \A t \in snaps'[i].tabs : t \in live'.tabs \/ (i \in DOMAIN snaps /\ t \in snaps[i].tabs)
    <2>1. snaps[i] \in Snapshot
      <3>1. i \in DOMAIN snaps /\ snaps \in Seq(Snapshot)
        BY <1>2 DEF Typed, StoreTyped
      <3> QED BY <3>1
    <2>2. CASE snaps'[i] = Deleted
      BY <2>2 DEF Deleted, Nothing
    <2>3. CASE snaps'[i] = [snaps[i] EXCEPT !.whole = TRUE, !.apps = live.apps]
      <3>1. snaps'[i].apps = live'.apps /\ snaps'[i].tabs = snaps[i].tabs
        BY <1>1, <2>1, <2>3 DEF Snapshot
      <3> QED BY <1>2, <3>1
    <2>4. CASE snaps'[i] = snaps[i]
      BY <1>2, <2>4
    <2> QED BY <1>2, <2>2, <2>3, <2>4
  <1>6. SnapsStep
    BY <1>5 DEF SnapsStep
  <1>7. DesktopStep /\ LiveStep
    BY <1>1 DEF DesktopStep, LiveStep
  <1>8. Unseen'
    BY <1>1, <1>6, <1>7, UnseenKept DEF Predates
  <1>9. clock \in Nat
    BY DEF Typed, StoreTyped
  <1>10. Episodes'
    BY <1>1, <1>4, <1>9, EpisodesKept DEF Predates
  <1> QED BY <1>8, <1>10 DEF Predates

LEMMA OfferToPredates ==
    ASSUME Typed, Predates, NEW b \in Browser, OfferTo(b), UNCHANGED <<clock, live, apps, tabs>>
    PROVE  Predates'
  <1>1. DesktopStep /\ LiveStep /\ clock \in Nat /\ live \in Content
    BY DEF DesktopStep, LiveStep, Typed, StoreTyped, DesktopTyped
  <1>2. CASE UNCHANGED <<snaps, runs>>
    BY <1>1, <1>2, Quiet
  <1>3. CASE ~UNCHANGED <<snaps, runs>>
    <2> DEFINE want == TabsOf(snaps[pending].tabs, b)
    <2>1. /\ pending \in DOMAIN snaps /\ BeginRun(pending, live', PendingItems(want), FALSE)
      BY <1>3 DEF OfferTo, Typed, AgentTyped
    <2>2. PendingItems(want) \in [Url -> Status]
      BY DEF PendingItems, Status
    <2> HIDE DEF want
    <2>3. PICK no \in BOOLEAN : no = FALSE
      OBVIOUS
    <2> QED BY <1>1, <2>1, <2>2, <2>3, BeginsPredates
  <1> QED BY <1>2, <1>3

LEMMA AutoAppsPredates == ASSUME Typed, Predates, AutoApps PROVE Predates'
  <1>1. /\ UNCHANGED <<tabs, live, clock>> /\ clock \in Nat /\ live' \in Content /\ LiveStep
    BY DEF AutoApps, bounds, Typed, StoreTyped, DesktopTyped, LiveStep
  <1>2. CASE UNCHANGED <<apps, snaps, runs>>
    BY <1>1, <1>2, Quiet DEF DesktopStep
  <1>3. CASE ~UNCHANGED <<apps, snaps, runs>>
    <2>1. /\ pending \in DOMAIN snaps /\ BeginRun(pending, live', NoItems, TRUE)
          /\ \E started : apps' = Launched(started, Len(runs) + 1)
      BY <1>1, <1>3 DEF AutoApps, Typed, AgentTyped
    <2>2. NoItems \in [Url -> Status]
      BY DEF NoItems, Status
    <2>3. PICK yes \in BOOLEAN : yes = TRUE
      OBVIOUS
    <2>4. BeginRun(pending, live', NoItems, yes)
      BY <2>1, <2>3
    <2>5. Len(runs) + 1 \in DOMAIN runs'
      <3>1. PICK rows \in Content : rows = live'
        BY <1>1
      <3>2. BeginRun(pending, rows, NoItems, yes)
        BY <2>4, <3>1
      <3> QED BY <1>1, <2>1, <2>2, <3>2, BeginRunTyped DEF Typed
    <2>6. DesktopStep
      BY <1>1, <2>1, <2>5, LaunchedStep
    <2> QED BY <1>1, <2>1, <2>2, <2>4, <2>6, BeginsPredates
  <1> QED BY <1>2, <1>3

LEMMA ThreadBeginPredates == ASSUME Typed, Predates, ThreadBegin PROVE Predates'
  <1>1. /\ UNCHANGED <<apps, tabs, clock>> /\ live \in Content /\ live' \in Content
        /\ chosen.snap \in DOMAIN snaps /\ BeginRun(chosen.snap, live', NoItems, FALSE)
    BY CapturedTyped DEF ThreadBegin, bounds, Typed, DesktopTyped, AgentTyped
  <1>2. DesktopStep /\ LiveStep
    BY <1>1, CapturedStep DEF ThreadBegin, DesktopStep
  <1>3. NoItems \in [Url -> Status]
    BY DEF NoItems, Status
  <1>4. PICK no \in BOOLEAN : no = FALSE
    OBVIOUS
  <1> QED BY <1>1, <1>2, <1>3, <1>4, BeginsPredates

LEMMA PredatesNext == Typed /\ Whole /\ Predates /\ [Next]_vars => Predates'
  <1> SUFFICES ASSUME Typed, Whole, Predates, [Next]_vars PROVE Predates'
    OBVIOUS
  <1> clock \in Nat /\ live \in Content
    BY DEF Typed, StoreTyped, DesktopTyped
  <1>1. CASE UNCHANGED vars
    BY <1>1, Quiet DEF vars, store, bounds, DesktopStep, LiveStep
  <1>2. CASE StartCopy
    <2>1. UNCHANGED <<apps, tabs, live, runs, clock>> /\ snaps' = PartialCopy(live')
      BY <1>2 DEF StartCopy
    <2> QED BY <2>1, CopyPredates DEF DesktopStep, LiveStep
  <1>3. CASE \E b \in Browser : Connect(b) \/ OfferConnected(b)
    <2>1. PICK b \in Browser : Connect(b) \/ OfferConnected(b)
      BY <1>3
    <2>2. UNCHANGED <<apps, tabs, live, clock>>
      BY <2>1 DEF Connect, OfferConnected, bounds
    <2>3. CASE OfferTo(b)
      BY <2>2, <2>3, OfferToPredates
    <2>4. CASE UNCHANGED <<snaps, runs>>
      BY <2>2, <2>4, Quiet DEF DesktopStep, LiveStep
    <2> QED BY <2>1, <2>3, <2>4 DEF Connect, OfferConnected
  <1>4. CASE \E b \in Browser : Report(b)
    <2>1. LiveStep
      BY <1>4 DEF Report, LiveStep, Content, TabsOf
    <2> QED BY <1>4, <2>1, Quiet DEF Report, bounds, DesktopStep
  <1>5. CASE \/ \E b \in Browser : Disconnect(b)
             \/ Answer
    BY <1>5, Quiet DEF Disconnect, Answer, store, DesktopStep, LiveStep
  <1>6. CASE \E j \in jobs : ApplyRestore(j)
    <2>1. PICK j \in jobs : ApplyRestore(j)
      BY <1>6
    <2>2. PICK T : (\A t \in T : t.by = j.run) /\ tabs' = tabs \cup T
      BY <2>1 DEF ApplyRestore, Opened
    <2>3. j.run \in DOMAIN runs'
      BY <2>1 DEF Typed, JobsTyped, ApplyRestore, store
    <2>4. UNCHANGED <<apps, live, snaps, runs, clock>>
      BY <2>1 DEF ApplyRestore, store, bounds
    <2> QED BY <2>2, <2>3, <2>4, Quiet DEF DesktopStep, LiveStep
  <1>7. CASE \E j \in jobs : Reply(j)
    <2>1. PICK j \in jobs : Reply(j)
      BY <1>7
    <2>2. UNCHANGED <<apps, tabs, live, snaps, clock>>
      BY <2>1 DEF Reply, bounds
    <2>3. DesktopStep /\ LiveStep
      BY <2>2 DEF DesktopStep, LiveStep
    <2>4. CASE UNCHANGED runs
      BY <2>2, <2>3, <2>4, Quiet
    <2>5. CASE \E finished, items : j.run \in DOMAIN runs /\ Edited(j.run, finished, items)
      BY <2>2, <2>3, <2>5, EditPredates
    <2> QED BY <2>1, <2>4, <2>5, ReplyRows
  <1>8. CASE ThreadLaunch
    <2>1. /\ UNCHANGED <<tabs, live, snaps, clock>> /\ chosen.run \in DOMAIN runs
          /\ Edited(chosen.run, TRUE, runs[chosen.run].items)
          /\ \E started : apps' = Launched(started, chosen.run)
      BY <1>8, ThreadLaunchTyped DEF ThreadLaunch, bounds
    <2>2. DesktopStep
      BY <2>1, LaunchedStep DEF Edited
    <2> QED BY <2>1, <2>2, EditPredates
  <1>9. CASE UndoWindows
    <2>1. /\ UNCHANGED <<tabs, live, snaps, runs, clock>>
          /\ \E started : apps' = Launched(started, 0)
      BY <1>9 DEF UndoWindows, store, bounds
    <2> QED BY <2>1, LaunchedStep, Quiet DEF LiveStep
  <1>10. CASE CloseTabs
    <2>1. UNCHANGED <<apps, live, snaps, clock>> /\ tabs' \subseteq tabs
      BY <1>10 DEF CloseTabs, bounds
    <2>2. DesktopStep /\ LiveStep
      BY <2>1 DEF DesktopStep, LiveStep
    <2>3. CASE UNCHANGED runs
      BY <2>1, <2>2, <2>3, Quiet
    <2>4. CASE \E n \in DOMAIN runs : \E finished, items : Edited(n, finished, items)
      BY <2>1, <2>2, <2>4, EditPredates
    <2> QED BY <1>10, <2>3, <2>4, CloseTabsRows
  <1>11. CASE Capture
    <2>1. LiveStep
      BY <1>11 DEF Capture, LiveStep, Content
    <2> QED BY <1>11, <2>1, Quiet DEF Capture, bounds, DesktopStep
  <1>12. CASE Tick
    <2>1. clock' \in Nat /\ clock <= clock'
      BY <1>12 DEF Tick
    <2> QED BY <1>12, <2>1, Quiet DEF Tick, store, DesktopStep, LiveStep
  <1>13. CASE \/ \E a \in App : UserApp(a) \/ AppExits(a)
              \/ \E b \in Browser, u \in Url : UserOpensTab(b, u)
              \/ \E t \in tabs : UserClosesTab(t)
    <2>1. UNCHANGED <<live, snaps, runs, clock>>
      BY <1>13 DEF UserApp, AppExits, UserOpensTab, UserClosesTab, store, bounds
    <2>2. apps \in [App -> Opener \cup {NONE}]
      BY DEF Typed, DesktopTyped
    <2>3. DesktopStep
      BY <1>13, <2>2 DEF UserApp, AppExits, UserOpensTab, UserClosesTab, DesktopStep
    <2> QED BY <2>1, <2>3, Quiet DEF LiveStep
  <1>14. CASE \E t \in tabs : Activate(t)
    <2>1. PICK t \in tabs : Activate(t)
      BY <1>14
    <2>2. t \in Tab
      BY DEF Typed, DesktopTyped
    <2>3. [t EXCEPT !.lazy = FALSE].by = t.by
      BY <2>2 DEF Tab
    <2>4. DesktopStep
      BY <2>1, <2>3 DEF Activate, DesktopStep
    <2> QED BY <2>1, <2>4, Quiet DEF Activate, store, LiveStep
  <1>15. CASE QueryEnd
    <2>1. /\ UNCHANGED <<apps, tabs, runs, clock>> /\ Captured
          /\ snaps' \in {snaps, CreateFromLive("shutdown", live')}
      BY <1>15 DEF QueryEnd, Flush, Captured, bounds
    <2>2. live' \in Content /\ LiveStep /\ DesktopStep
      BY <2>1, CapturedTyped, CapturedStep DEF Typed, DesktopStep
    <2> QED BY <2>1, <2>2, CopyPredates
  <1>16. CASE EndSession
    <2>1. /\ UNCHANGED <<runs, clock>> /\ Captured /\ apps' = Nothing.apps /\ tabs' = {}
          /\ snaps' \in {snaps, PartialCopy(live'), CreateFromLive("shutdown", live')}
      BY <1>16 DEF EndSession, Flush, PowerGone, bounds
    <2>2. live' \in Content /\ LiveStep
      BY <2>1, CapturedTyped, CapturedStep DEF Typed
    <2>3. DesktopStep
      BY <2>1 DEF DesktopStep, Nothing
    <2> QED BY <2>1, <2>2, <2>3, CopyPredates
  <1>17. CASE Crash
    BY <1>17, Quiet DEF Crash, PowerGone, store, bounds, DesktopStep, LiveStep, Nothing
  <1> QED BY <1>1, <1>2, <1>3, <1>4, <1>5, <1>6, <1>7, <1>8, <1>9, <1>10, <1>11, <1>12, <1>13,
          <1>14, <1>15, <1>16, <1>17, Actions, StartDonePredates, AutoAppsPredates,
          ThreadBeginPredates

\* Undoing a restore puts back what was there before the whole episode: no undo
\* point holds an application or a tab that a run of its episode opened.
THEOREM UndoGoesBack == Spec => []UndoPredatesEpisode
  <1>1. Spec => []Predates
    BY AlwaysTyped, AlwaysWhole, PredatesInit, PredatesNext, PTL DEF Spec
  <1>2. Predates => UndoPredatesEpisode
    BY DEF Predates, Episodes
  <1> QED BY <1>1, <1>2, PTL
=============================================================================
