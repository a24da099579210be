-------------------------- MODULE TabCaptureProofs --------------------------
(***************************************************************************)
(* Theorems about tab capture, for any number of profiles, windows and     *)
(* tabs, and any number of evictions and broken pipes.                     *)
(***************************************************************************)
EXTENDS TabCapture, FiniteSetTheorems, SequenceTheorems, TLAPS

(* What each part of a profile holds is of that profile: its own windows   *)
(* and tabs, showing what it may show.                                     *)

OwnEntry(x) == idsOf[x] \cup (idsOf[x] \X TabId)
OwnOpen(x) == UNION {[K -> contentOf[x]] : K \in SUBSET (idsOf[x] \X TabId)}

\* A window is only shown or removed; a tab is never "shown".
Fits(e, d) == (e \in WindowId => d \in {Shown, Removed}) /\ (e \in TabKey => d # Shown)

OwnBody(x) ==
    {b \in UNION {[D -> contentOf[x] \cup {Shown, Removed}] : D \in SUBSET OwnEntry(x)} :
        \A e \in DOMAIN b : Fits(e, b[e])}

OwnEvent(x) ==
    {v \in [on : OwnEntry(x), says : contentOf[x] \cup {Shown, Removed, "attached"}] : Fits(v.on, v.says)}

OwnMsg(x) == [type : {"hello", "tab_delta", "full_state"}, body : OwnBody(x), fresh : BOOLEAN]

-----------------------------------------------------------------------------
(* Bodies.                                                                 *)

LEMMA ConstantTypes ==
    ASSUME NEW x \in Ext
    PROVE  /\ idsOf[x] \subseteq WindowId /\ contentOf[x] \subseteq Version /\ browserOf[x] \in Browser
           /\ OwnEntry(x) \subseteq Entry
           /\ contentOf[x] \cup {Shown, Removed} \subseteq Delta
  BY CaptureAssumption DEF OwnEntry, Entry, TabKey, Delta

LEMMA BodyIntro ==
    ASSUME NEW x \in Ext, NEW b, b = [e \in DOMAIN b |-> b[e]],
           \A e \in DOMAIN b : e \in OwnEntry(x) /\ b[e] \in contentOf[x] \cup {Shown, Removed}
                                 /\ Fits(e, b[e])
    PROVE  b \in OwnBody(x)
  <1>1. b \in [DOMAIN b -> contentOf[x] \cup {Shown, Removed}]
    OBVIOUS
  <1> QED
    BY <1>1 DEF OwnBody

LEMMA BodyElim ==
    ASSUME NEW x \in Ext, NEW b \in OwnBody(x)
    PROVE  /\ b = [e \in DOMAIN b |-> b[e]]
           /\ \A e \in DOMAIN b : e \in OwnEntry(x) /\ b[e] \in contentOf[x] \cup {Shown, Removed}
                                    /\ Fits(e, b[e])
           /\ IsBody(b)
  <1>1. PICK D \in SUBSET OwnEntry(x) : b \in [D -> contentOf[x] \cup {Shown, Removed}]
    BY DEF OwnBody
  <1>2. DOMAIN b = D /\ b = [e \in DOMAIN b |-> b[e]]
    BY <1>1
  <1>3. \A e \in DOMAIN b : e \in OwnEntry(x) /\ b[e] \in contentOf[x] \cup {Shown, Removed} /\ Fits(e, b[e])
    BY <1>1, <1>2 DEF OwnBody
  <1> QED
    BY <1>2, <1>3, ConstantTypes DEF IsBody

LEMMA EmptyIsBody == ASSUME NEW x \in Ext PROVE Empty \in OwnBody(x)
  <1>1. DOMAIN Empty = {} /\ Empty = [e \in DOMAIN Empty |-> Empty[e]]
    BY DEF Empty
  <1> QED
    BY <1>1, BodyIntro

LEMMA MergeBody ==
    ASSUME NEW x \in Ext, NEW p \in OwnBody(x), NEW q \in OwnBody(x)
    PROVE  Merge(p, q) \in OwnBody(x)
  <1>1. /\ DOMAIN Merge(p, q) = DOMAIN p \cup DOMAIN q
        /\ Merge(p, q) = [e \in DOMAIN Merge(p, q) |-> Merge(p, q)[e]]
        /\ \A e \in DOMAIN Merge(p, q) : Merge(p, q)[e] = IF e \in DOMAIN p THEN p[e] ELSE q[e]
    BY DEF Merge
  <1>2. \A e \in DOMAIN Merge(p, q) :
            e \in OwnEntry(x) /\ Merge(p, q)[e] \in contentOf[x] \cup {Shown, Removed} /\ Fits(e, Merge(p, q)[e])
    BY <1>1, BodyElim
  <1> QED
    BY <1>1, <1>2, BodyIntro

LEMMA SingleBody ==
    ASSUME NEW x \in Ext, NEW e \in OwnEntry(x), NEW d \in contentOf[x] \cup {Shown, Removed}, Fits(e, d)
    PROVE  [i \in {e} |-> d] \in OwnBody(x)
  <1> DEFINE b == [i \in {e} |-> d]
  <1>1. DOMAIN b = {e} /\ b = [i \in DOMAIN b |-> b[i]] /\ b[e] = d
    OBVIOUS
  <1> HIDE DEF b
  <1>2. b \in OwnBody(x)
    BY <1>1, BodyIntro
  <1> QED
    BY <1>2 DEF b

LEMMA MergeEmpty ==
    ASSUME NEW x \in Ext, NEW b \in OwnBody(x) PROVE Merge(Empty, b) = b
  <1>1. DOMAIN Empty = {} /\ b = [e \in DOMAIN b |-> b[e]]
    BY BodyElim DEF Empty
  <1>2. Merge(Empty, b) = [e \in DOMAIN b |-> b[e]]
    BY <1>1 DEF Merge
  <1> QED
    BY <1>1, <1>2

LEMMA OpenElim ==
    ASSUME NEW x \in Ext, NEW o \in OwnOpen(x)
    PROVE  /\ o = [k \in DOMAIN o |-> o[k]]
           /\ DOMAIN o \subseteq idsOf[x] \X TabId /\ DOMAIN o \subseteq TabKey
           /\ \A k \in DOMAIN o : o[k] \in contentOf[x]
           /\ Windows(o) \subseteq idsOf[x] /\ Tabs(o) \subseteq TabId
           /\ IsFiniteSet(DOMAIN o)
  <1>1. PICK K \in SUBSET (idsOf[x] \X TabId) : o \in [K -> contentOf[x]]
    BY DEF OwnOpen
  <1>2. idsOf[x] \X TabId \subseteq TabKey
    BY ConstantTypes DEF TabKey
  <1>3. IsFiniteSet(TabKey)
    BY FS_Product, CaptureAssumption DEF TabKey
  <1>4. IsFiniteSet(K)
    BY <1>2, <1>3, FS_Subset
  <1>5. \A k \in K : k[1] \in idsOf[x] /\ k[2] \in TabId
    OBVIOUS
  <1>6. DOMAIN o = K
    BY <1>1
  <1> QED
    BY <1>1, <1>2, <1>4, <1>5, <1>6 DEF Windows, Tabs

LEMMA OpenIntro ==
    ASSUME NEW x \in Ext, NEW o, o = [k \in DOMAIN o |-> o[k]],
           \A k \in DOMAIN o : k \in idsOf[x] \X TabId /\ o[k] \in contentOf[x]
    PROVE  o \in OwnOpen(x)
  <1>1. o \in [DOMAIN o -> contentOf[x]]
    OBVIOUS
  <1> QED
    BY <1>1 DEF OwnOpen

LEMMA OpenIsBody ==
    ASSUME NEW x \in Ext, NEW o \in OwnOpen(x)
    PROVE  /\ Body(o) \in OwnBody(x)
           /\ DOMAIN Body(o) = DOMAIN o \cup Windows(o)
           /\ \A k \in DOMAIN o : Body(o)[k] = o[k]
           /\ \A w \in Windows(o) : Body(o)[w] = Shown
  <1>1. /\ DOMAIN Body(o) = DOMAIN o \cup Windows(o)
        /\ Body(o) = [e \in DOMAIN Body(o) |-> Body(o)[e]]
        /\ \A e \in DOMAIN Body(o) : Body(o)[e] = IF e \in DOMAIN o THEN o[e] ELSE Shown
    BY DEF Body
  <1>2. \A e \in DOMAIN o : e \in TabKey /\ e \in OwnEntry(x) /\ o[e] \in contentOf[x]
    BY OpenElim DEF OwnEntry
  <1>3. \A w \in Windows(o) : w \in WindowId /\ w \in OwnEntry(x) /\ w \notin TabKey /\ w \notin DOMAIN o
    BY OpenElim, ConstantTypes, CaptureAssumption DEF OwnEntry
  <1>4. \A e \in TabKey : e \notin WindowId
    BY CaptureAssumption
  <1>5. \A v \in contentOf[x] : v # Shown
    BY ConstantTypes, CaptureAssumption
  <1>6. \A e \in DOMAIN Body(o) :
            e \in OwnEntry(x) /\ Body(o)[e] \in contentOf[x] \cup {Shown, Removed} /\ Fits(e, Body(o)[e])
    BY <1>1, <1>2, <1>3, <1>4, <1>5 DEF Fits
  <1>7. Body(o) \in OwnBody(x)
    BY <1>1, <1>6, BodyIntro
  <1> QED
    BY <1>1, <1>3, <1>7

-----------------------------------------------------------------------------
(* The invariant, in parts that different actions disturb.                 *)

Scalars ==
    /\ stage \in [Ext -> {"asleep", "boot", "up"}]
    /\ timer \in [Ext -> BOOLEAN] /\ hello \in [Ext -> BOOLEAN]
    /\ flushing \in [Ext -> {"no", "sent", "kept"}]
    /\ port \in [Ext -> {"none", "up", "backoff"}]
    /\ overtaken \in [Ext -> BOOLEAN] /\ trusted \in [Ext -> BOOLEAN]

Bounds == changes \in 0 .. MaxChanges /\ sleeps \in 0 .. MaxSleeps /\ drops \in 0 .. MaxDrops

BrowserInv ==
    /\ DOMAIN open = Ext /\ DOMAIN gone = Ext
    /\ \A x \in Ext : open[x] \in OwnOpen(x) /\ gone[x] \subseteq WindowId \cup TabId

\* What was heard and not posted is in the mirror; a worker that is up has it
\* in memory too, one that is not has nothing.
OutboxCell(x) ==
    /\ mirror[x] \in OwnBody(x) /\ unsent[x] = mirror[x]
    /\ stage[x] = "up" => pending[x] = mirror[x]
    /\ stage[x] # "up" => pending[x] = Empty /\ ~timer[x] /\ flushing[x] = "no"

OutboxInv ==
    /\ DOMAIN pending = Ext /\ DOMAIN mirror = Ext /\ DOMAIN unsent = Ext
    /\ \A x \in Ext : OutboxCell(x)

EventCell(x) ==
    /\ events[x] \in Seq(OwnEvent(x)) /\ lookups[x] \subseteq TabId
    /\ stage[x] # "up" => events[x] = <<>> /\ lookups[x] = {}

EventInv ==
    /\ DOMAIN events = Ext /\ DOMAIN lookups = Ext
    /\ \A x \in Ext : EventCell(x)

\* A connection is known by its own profile's key or the relay's.
PipeCell(x) ==
    /\ recon[x] = <<>> \/ \E b \in OwnBody(x) : recon[x] = <<b>>
    /\ chan[x] \in Seq(OwnMsg(x)) /\ old[x] \in Seq(OwnMsg(x))
    /\ ckey[x] \in {x, RelayKey, NoKey} /\ okey[x] \in {x, RelayKey, NoKey}

PipeInv ==
    /\ DOMAIN recon = Ext /\ DOMAIN chan = Ext /\ DOMAIN old = Ext
    /\ ckey \in [Ext -> Key \cup {NoKey}] /\ okey \in [Ext -> Key \cup {NoKey}]
    /\ \A x \in Ext : PipeCell(x)

Rows ==
    /\ wins = [w \in DOMAIN wins |-> wins[w]] /\ DOMAIN wins \subseteq WindowId
    /\ \A w \in DOMAIN wins : wins[w] \in [browser : Browser, key : Key]
    /\ DOMAIN tabs \subseteq TabKey /\ \A k \in DOMAIN tabs : tabs[k] \in Version

Inv == Scalars /\ Bounds /\ BrowserInv /\ OutboxInv /\ EventInv /\ PipeInv /\ Rows

LEMMA InitInv == Init => Inv
  <1> SUFFICES ASSUME Init PROVE Inv
    OBVIOUS
  <1>1. Scalars
    BY DEF Init, Scalars
  <1>2. Bounds
    BY CaptureAssumption DEF Init, Bounds
  <1>3. BrowserInv
    <2>1. DOMAIN open = Ext /\ DOMAIN gone = Ext /\ \A x \in Ext : gone[x] = {}
      BY DEF Init
    <2>2. ASSUME NEW x \in Ext PROVE open[x] \in OwnOpen(x)
      <3>1. PICK K \in AtStart : open[x] \in [K -> Version]
        BY DEF Init
      <3>2. \A k \in DOMAIN open[x] : k[1] \in idsOf[x] /\ open[x][k] \in contentOf[x]
        BY DEF Init
      <3>3. K \subseteq TabKey
        BY CaptureAssumption
      <3>4. \A k \in DOMAIN open[x] : k \in idsOf[x] \X TabId
        BY <3>1, <3>2, <3>3 DEF TabKey
      <3> QED
        BY <3>1, <3>2, <3>4, OpenIntro
    <2> QED
      BY <2>1, <2>2 DEF BrowserInv
  <1>4. OutboxInv
    BY EmptyIsBody DEF Init, OutboxInv, OutboxCell
  <1>5. EventInv
    BY DEF Init, EventInv, EventCell
  <1>6. PipeInv
    BY DEF Init, PipeInv, PipeCell
  <1>7. Rows
    BY DEF Init, Rows, Empty
  <1> QED
    BY <1>1, <1>2, <1>3, <1>4, <1>5, <1>6, <1>7 DEF Inv

-----------------------------------------------------------------------------
(* What the outbox does.                                                   *)

LEMMA DeltaIsMsg ==
    ASSUME NEW x \in Ext, NEW b \in OwnBody(x)
    PROVE  TabDelta(b) \in OwnMsg(x) /\ \A fresh \in BOOLEAN : FullState(b, fresh) \in OwnMsg(x)
  BY DEF TabDelta, FullState, OwnMsg

LEMMA HelloIsMsg == ASSUME NEW x \in Ext PROVE Hello \in OwnMsg(x)
  BY EmptyIsBody DEF Hello, OwnMsg

LEMMA PostSends ==
    ASSUME Scalars, NEW x \in Ext, NEW m, Post(x, m)
    PROVE  /\ chan' = [chan EXCEPT ![x] = Append(@, m)]
           /\ hello' \in [Ext -> BOOLEAN] /\ port' \in [Ext -> {"none", "up", "backoff"}]
  <1>1. (m # Hello /\ (hello[x] \/ port[x] = "none")) \in BOOLEAN
    BY DEF Scalars
  <1>2. hello' \in [Ext -> BOOLEAN]
    BY <1>1 DEF Scalars, Post
  <1> QED
    BY <1>2 DEF Scalars, Post

\* One step of x's outbox: the same body is in memory, in the mirror and in
\* unsent, and the pipe got at most one message of x.
OutboxStep(x) ==
    /\ DOMAIN pending' = Ext /\ DOMAIN mirror' = Ext /\ DOMAIN unsent' = Ext
    /\ pending'[x] \in OwnBody(x) /\ mirror'[x] = pending'[x] /\ unsent'[x] = pending'[x]
    /\ \A y \in Ext \ {x} :
          pending'[y] = pending[y] /\ mirror'[y] = mirror[y] /\ unsent'[y] = unsent[y]
    /\ \/ chan' = chan
       \/ \E m \in OwnMsg(x) : chan' = [chan EXCEPT ![x] = Append(@, m)]
    /\ timer' \in [Ext -> BOOLEAN]
    /\ \A y \in Ext \ {x} : timer'[y] = timer[y] /\ flushing'[y] = flushing[y]
    /\ hello' \in [Ext -> BOOLEAN] /\ port' \in [Ext -> {"none", "up", "backoff"}]
    /\ flushing' \in [Ext -> {"no", "sent", "kept"}] /\ overtaken' \in [Ext -> BOOLEAN]

LEMMA FlushSteps ==
    ASSUME Scalars, OutboxInv, NEW x \in Ext, NEW p \in OwnBody(x), Flush(x, p)
    PROVE  OutboxStep(x)
  <1>1. timer' \in [Ext -> BOOLEAN] /\ \A y \in Ext \ {x} : timer'[y] = timer[y] /\ flushing'[y] = flushing[y]
    BY DEF Flush, Scalars
  <1>2. CASE CanSend(x)
    <2>1. Post(x, TabDelta(p)) /\ TabDelta(p) \in OwnMsg(x) /\ Empty \in OwnBody(x)
      BY <1>2, DeltaIsMsg, EmptyIsBody DEF Flush
    <2>2. /\ chan' = [chan EXCEPT ![x] = Append(@, TabDelta(p))]
          /\ hello' \in [Ext -> BOOLEAN] /\ port' \in [Ext -> {"none", "up", "backoff"}]
      BY <2>1, PostSends
    <2>3. flushing' \in [Ext -> {"no", "sent", "kept"}] /\ overtaken' \in [Ext -> BOOLEAN]
      BY <1>2 DEF Flush, Scalars
    <2>4. /\ pending' = [pending EXCEPT ![x] = Empty]
          /\ mirror' = [mirror EXCEPT ![x] = Empty]
          /\ unsent' = [unsent EXCEPT ![x] = Empty]
      BY <1>2 DEF Flush
    <2>5. /\ DOMAIN pending' = Ext /\ DOMAIN mirror' = Ext /\ DOMAIN unsent' = Ext
          /\ pending'[x] = Empty /\ mirror'[x] = Empty /\ unsent'[x] = Empty
          /\ \A y \in Ext \ {x} :
                pending'[y] = pending[y] /\ mirror'[y] = mirror[y] /\ unsent'[y] = unsent[y]
      BY <2>4 DEF OutboxInv
    <2> QED
      BY <1>1, <2>1, <2>2, <2>3, <2>5 DEF OutboxStep
  <1>3. CASE ~CanSend(x)
    <2>1. flushing' \in [Ext -> {"no", "sent", "kept"}] /\ overtaken' \in [Ext -> BOOLEAN]
      BY <1>3 DEF Flush, Scalars
    <2> QED
      BY <1>1, <1>3, <2>1 DEF Flush, OutboxStep, OutboxInv, Scalars
  <1> QED
    BY <1>2, <1>3

LEMMA TouchSteps ==
    ASSUME Scalars, OutboxInv, NEW x \in Ext, stage[x] = "up", NEW e \in OwnEntry(x),
           NEW d \in contentOf[x] \cup {Shown, Removed}, Fits(e, d), Touch(x, e, d)
    PROVE  OutboxStep(x)
  <1> DEFINE p == Merge([i \in {e} |-> d], pending[x])
             full == Cardinality(DOMAIN p) >= MaxPending
  <1>1. pending[x] = mirror[x] /\ unsent[x] = mirror[x] /\ mirror[x] \in OwnBody(x)
    BY DEF OutboxInv, OutboxCell
  <1>2. p \in OwnBody(x)
    BY <1>1, SingleBody, MergeBody
  <1>3. CASE full /\ flushing[x] = "no"
    <2>1. Flush(x, p)
      BY <1>3 DEF Touch
    <2> QED
      BY <2>1, <1>2, FlushSteps
  <1>4. CASE ~(full /\ flushing[x] = "no")
    <2>1. /\ pending' = [pending EXCEPT ![x] = p]
          /\ mirror' = [mirror EXCEPT ![x] = p]
          /\ unsent' = [unsent EXCEPT ![x] = Merge([i \in {e} |-> d], unsent[x])]
          /\ timer' = [timer EXCEPT ![x] = timer[x] \/ ~full]
          /\ UNCHANGED <<flushing, chan, hello, port, overtaken>>
      BY <1>4 DEF Touch
    <2>2. unsent' = [unsent EXCEPT ![x] = p]
      BY <2>1, <1>1
    <2>3. (timer[x] \/ ~full) \in BOOLEAN
      BY DEF Scalars
    <2> HIDE DEF p, full
    <2>4. timer' \in [Ext -> BOOLEAN] /\ \A y \in Ext \ {x} : timer'[y] = timer[y]
      BY <2>1, <2>3 DEF Scalars
    <2> QED
      BY <2>1, <2>2, <2>4, <1>2 DEF OutboxStep, OutboxInv, Scalars
  <1> QED
    BY <1>3, <1>4

-----------------------------------------------------------------------------
(* What the user does, and what the browser fires.                         *)

LEMMA SetToSeqType ==
    ASSUME NEW S, IsFiniteSet(S) PROVE SetToSeq(S) \in Seq(S)
  <1>1. PICK n \in Nat : ExistsBijection(1 .. n, S)
    BY FS_NatBijection
  <1>2. Cardinality(S) = n
    BY <1>1, FS_CountingElements
  <1>3. PICK f : f \in Bijection(1 .. n, S)
    BY <1>1 DEF ExistsBijection
  <1>4. f \in [1 .. Cardinality(S) -> S] /\ IsInjective(f)
    BY <1>2, <1>3 DEF Bijection, Injection, IsInjective
  <1>5. SetToSeq(S) \in [1 .. Cardinality(S) -> S]
    BY <1>4 DEF SetToSeq
  <1>6. Cardinality(S) \in Nat
    BY <1>2
  <1> QED
    BY <1>5, <1>6, SeqDef

LEMMA TabIsOwn ==
    ASSUME NEW x \in Ext, NEW k \in idsOf[x] \X TabId
    PROVE  /\ k \in OwnEntry(x) /\ k \in TabKey /\ k \notin WindowId
           /\ k[1] \in idsOf[x] /\ k[2] \in TabId
           /\ \A v \in contentOf[x] \cup {Removed, "attached"} : [on |-> k, says |-> v] \in OwnEvent(x)
  <1>1. k \in OwnEntry(x) /\ k \in TabKey /\ k[1] \in idsOf[x] /\ k[2] \in TabId
    BY ConstantTypes DEF OwnEntry, TabKey
  <1>2. k \notin WindowId
    BY <1>1, CaptureAssumption
  <1>3. \A v \in contentOf[x] \cup {Removed, "attached"} : v # Shown
    BY ConstantTypes, CaptureAssumption
  <1>4. ASSUME NEW v \in contentOf[x] \cup {Removed, "attached"}
        PROVE  [on |-> k, says |-> v] \in OwnEvent(x)
    BY <1>1, <1>2, <1>3, <1>4 DEF OwnEvent, Fits
  <1> QED
    BY <1>1, <1>2, <1>4

LEMMA WindowIsOwn ==
    ASSUME NEW x \in Ext, NEW w \in idsOf[x], NEW d \in {Shown, Removed}
    PROVE  [on |-> w, says |-> d] \in OwnEvent(x)
  <1>1. w \in OwnEntry(x) /\ w \in WindowId /\ w \notin TabKey
    BY ConstantTypes, CaptureAssumption DEF OwnEntry
  <1> QED
    BY <1>1 DEF OwnEvent, Fits

LEMMA WindowEvents ==
    ASSUME NEW x \in Ext, NEW w \in idsOf[x], NEW n
    PROVE  Created(x, w) \in Seq(OwnEvent(x)) /\ Closed(n, w) \in Seq(OwnEvent(x))
  <1>1. [on |-> w, says |-> Shown] \in OwnEvent(x) /\ [on |-> w, says |-> Removed] \in OwnEvent(x)
    BY WindowIsOwn
  <1>2. ASSUME NEW v \in OwnEvent(x) PROVE <<v>> \in Seq(OwnEvent(x)) /\ <<>> \in Seq(OwnEvent(x))
    OBVIOUS
  <1> QED
    BY <1>1, <1>2 DEF Created, Closed

\* Whatever the user does is a Change to tabs of the profile, and the browser
\* fires events of the profile.
OwnChange(x) == \E n \in OwnOpen(x) : \E fired \in Seq(OwnEvent(x)) : Change(x, n, fired)

LEMMA WithoutOpen ==
    ASSUME NEW x \in Ext, NEW o \in OwnOpen(x), NEW S PROVE Without(o, S) \in OwnOpen(x)
  <1>1. /\ DOMAIN Without(o, S) = DOMAIN o \ S
        /\ Without(o, S) = [e \in DOMAIN Without(o, S) |-> Without(o, S)[e]]
        /\ \A e \in DOMAIN Without(o, S) : Without(o, S)[e] = o[e]
    BY DEF Without
  <1> QED
    BY <1>1, OpenElim, OpenIntro

LEMMA MergeOpen ==
    ASSUME NEW x \in Ext, NEW o \in OwnOpen(x), NEW k \in idsOf[x] \X TabId, NEW v \in contentOf[x]
    PROVE  Merge([e \in {k} |-> v], o) \in OwnOpen(x)
  <1> DEFINE f == [e \in {k} |-> v]
  <1>1. DOMAIN f = {k} /\ f[k] = v
    OBVIOUS
  <1> HIDE DEF f
  <1>2. /\ DOMAIN Merge(f, o) = DOMAIN f \cup DOMAIN o
        /\ Merge(f, o) = [e \in DOMAIN Merge(f, o) |-> Merge(f, o)[e]]
        /\ \A e \in DOMAIN Merge(f, o) : Merge(f, o)[e] = IF e \in DOMAIN f THEN f[e] ELSE o[e]
    BY DEF Merge
  <1>3. \A e \in DOMAIN Merge(f, o) : e \in idsOf[x] \X TabId /\ Merge(f, o)[e] \in contentOf[x]
    BY <1>1, <1>2, OpenElim
  <1>4. Merge(f, o) \in OwnOpen(x)
    BY <1>2, <1>3, OpenIntro
  <1> QED
    BY <1>4 DEF f

LEMMA OpenTabIsOwn == ASSUME BrowserInv, NEW x \in Ext, OpenTab(x) PROVE OwnChange(x)
  <1>1. PICK w \in idsOf[x] \ gone[x], t \in TabId \ (gone[x] \cup Tabs(open[x])), v \in contentOf[x] :
            Change(x, Merge([k \in {<<w, t>>} |-> v], open[x]),
                   Append(Created(x, w), [on |-> <<w, t>>, says |-> v]))
    BY DEF OpenTab
  <1>2. Merge([k \in {<<w, t>>} |-> v], open[x]) \in OwnOpen(x)
    BY MergeOpen DEF BrowserInv
  <1>3. [on |-> <<w, t>>, says |-> v] \in OwnEvent(x)
    BY TabIsOwn
  <1>4. Append(Created(x, w), [on |-> <<w, t>>, says |-> v]) \in Seq(OwnEvent(x))
    BY <1>3, WindowEvents, AppendProperties
  <1> QED
    BY <1>1, <1>2, <1>4 DEF OwnChange

LEMMA NavigateIsOwn == ASSUME BrowserInv, NEW x \in Ext, Navigate(x) PROVE OwnChange(x)
  <1>1. PICK k \in DOMAIN open[x] : \E v \in contentOf[x] \ {open[x][k]} :
            Change(x, [open[x] EXCEPT ![k] = v], <<[on |-> k, says |-> v]>>)
    BY DEF Navigate
  <1>2. PICK v \in contentOf[x] \ {open[x][k]} :
            Change(x, [open[x] EXCEPT ![k] = v], <<[on |-> k, says |-> v]>>)
    BY <1>1
  <1>3. /\ open[x] \in OwnOpen(x) /\ k \in idsOf[x] \X TabId
        /\ \A e \in DOMAIN open[x] : e \in idsOf[x] \X TabId /\ open[x][e] \in contentOf[x]
    BY OpenElim DEF BrowserInv
  <1> DEFINE n == [open[x] EXCEPT ![k] = v]
  <1>4. /\ DOMAIN n = DOMAIN open[x] /\ n = [e \in DOMAIN n |-> n[e]]
        /\ \A e \in DOMAIN n : n[e] = IF e = k THEN v ELSE open[x][e]
    OBVIOUS
  <1> HIDE DEF n
  <1>5. n \in OwnOpen(x)
    BY <1>3, <1>4, OpenIntro
  <1>6. [on |-> k, says |-> v] \in OwnEvent(x)
    BY <1>3, TabIsOwn
  <1>7. <<[on |-> k, says |-> v]>> \in Seq(OwnEvent(x))
    BY <1>6
  <1> QED
    BY <1>2, <1>5, <1>7 DEF OwnChange, n

LEMMA CloseTabsIsOwn == ASSUME BrowserInv, NEW x \in Ext, CloseTabs(x) PROVE OwnChange(x)
  <1>1. PICK w \in Windows(open[x]) :
            LET its == {k \in DOMAIN open[x] : k[1] = w} IN
            \E S \in {{k} : k \in its} \cup {its} :
                LET n == Without(open[x], S) IN
                Change(x, n, SetToSeq({[on |-> k, says |-> Removed] : k \in S}) \o Closed(n, w))
    BY DEF CloseTabs
  <1> DEFINE its == {k \in DOMAIN open[x] : k[1] = w}
  <1>2. PICK S \in {{k} : k \in its} \cup {its} :
            Change(x, Without(open[x], S),
                   SetToSeq({[on |-> k, says |-> Removed] : k \in S}) \o Closed(Without(open[x], S), w))
    BY <1>1
  <1>3. /\ open[x] \in OwnOpen(x) /\ w \in idsOf[x] /\ IsFiniteSet(DOMAIN open[x])
        /\ DOMAIN open[x] \subseteq idsOf[x] \X TabId
    BY OpenElim DEF BrowserInv
  <1>4. S \subseteq DOMAIN open[x]
    OBVIOUS
  <1>5. IsFiniteSet(S)
    BY <1>3, <1>4, FS_Subset
  <1> DEFINE E == {[on |-> k, says |-> Removed] : k \in S}
  <1>6. IsFiniteSet(E)
    <2> DEFINE f == [k \in S |-> [on |-> k, says |-> Removed]]
    <2>1. f \in Surjection(S, E)
      BY DEF Surjection
    <2> QED
      BY <1>5, <2>1, FS_Surjection
  <1>7. \A k \in S : [on |-> k, says |-> Removed] \in OwnEvent(x)
    BY <1>3, <1>4, TabIsOwn
  <1>8. E \subseteq OwnEvent(x)
    BY <1>7
  <1>9. Without(open[x], S) \in OwnOpen(x)
    BY <1>3, WithoutOpen
  <1> HIDE DEF E
  <1>10. SetToSeq(E) \in Seq(OwnEvent(x))
    BY <1>6, <1>8, SetToSeqType, SeqMonotonic
  <1>11. SetToSeq(E) \o Closed(Without(open[x], S), w) \in Seq(OwnEvent(x))
    BY <1>3, <1>10, WindowEvents, ConcatProperties
  <1> QED
    BY <1>2, <1>9, <1>11 DEF OwnChange, E

LEMMA MoveTabIsOwn == ASSUME BrowserInv, NEW x \in Ext, MoveTab(x) PROVE OwnChange(x)
  <1>1. PICK k \in DOMAIN open[x] : \E w \in idsOf[x] \ (gone[x] \cup {k[1]}) :
            LET n == Merge([e \in {<<w, k[2]>>} |-> open[x][k]], Without(open[x], {k})) IN
            Change(x, n, Created(x, w)
                         \o <<[on |-> k, says |-> Removed], [on |-> <<w, k[2]>>, says |-> "attached"]>>
                         \o Closed(n, k[1]))
    BY DEF MoveTab
  <1>2. PICK w \in idsOf[x] \ (gone[x] \cup {k[1]}) :
            LET n == Merge([e \in {<<w, k[2]>>} |-> open[x][k]], Without(open[x], {k})) IN
            Change(x, n, Created(x, w)
                         \o <<[on |-> k, says |-> Removed], [on |-> <<w, k[2]>>, says |-> "attached"]>>
                         \o Closed(n, k[1]))
    BY <1>1
  <1> DEFINE n == Merge([e \in {<<w, k[2]>>} |-> open[x][k]], Without(open[x], {k}))
             two == <<[on |-> k, says |-> Removed], [on |-> <<w, k[2]>>, says |-> "attached"]>>
  <1>3. open[x] \in OwnOpen(x) /\ k \in idsOf[x] \X TabId /\ open[x][k] \in contentOf[x]
    BY OpenElim DEF BrowserInv
  <1>4. k[1] \in idsOf[x] /\ k[2] \in TabId /\ <<w, k[2]>> \in idsOf[x] \X TabId
    BY <1>3
  <1>5. n \in OwnOpen(x)
    BY <1>3, <1>4, WithoutOpen, MergeOpen
  <1>6. [on |-> k, says |-> Removed] \in OwnEvent(x) /\ [on |-> <<w, k[2]>>, says |-> "attached"] \in OwnEvent(x)
    BY <1>3, <1>4, TabIsOwn
  <1>7. two \in Seq(OwnEvent(x))
    BY <1>6
  <1>8. Change(x, n, Created(x, w) \o two \o Closed(n, k[1]))
    BY <1>2
  <1> HIDE DEF n, two
  <1>9. Created(x, w) \in Seq(OwnEvent(x)) /\ Closed(n, k[1]) \in Seq(OwnEvent(x))
    BY <1>4, WindowEvents
  <1>10. Created(x, w) \o two \o Closed(n, k[1]) \in Seq(OwnEvent(x))
    BY <1>7, <1>9, ConcatProperties
  <1> QED
    BY <1>5, <1>8, <1>10 DEF OwnChange

LEMMA UserChanges == ASSUME BrowserInv, NEW x \in Ext, UserNext(x) PROVE OwnChange(x)
  BY OpenTabIsOwn, NavigateIsOwn, CloseTabsIsOwn, MoveTabIsOwn DEF UserNext

-----------------------------------------------------------------------------
(* The steps that disturb each part.                                       *)

OtherStep(x) ==
    \/ Wake(x) \/ Boot(x) \/ FlushDone(x) \/ SayHello(x) \/ ReconcileRead(x) \/ ReconcileSend(x)
    \/ Reconnect(x) \/ Disconnect(x) \/ Deliver(x) \/ DeliverOld(x)

LEMMA Actions ==
    ASSUME Inv, Next
    PROVE  \E x \in Ext :
              \/ OwnChange(x) \/ Hear(x) \/ Lookup(x) \/ FlushTimer(x)
              \/ Evict(x) \/ Quit(x) \/ OtherStep(x)
  <1>1. PICK x \in Ext : UserNext(x) \/ OwnStep(x) \/ Evict(x) \/ Quit(x) \/ Disconnect(x)
    BY DEF Next
  <1>2. UserNext(x) => OwnChange(x)
    BY UserChanges DEF Inv
  <1> QED
    BY <1>1, <1>2 DEF OwnStep, OtherStep

LEMMA HearSteps ==
    ASSUME Scalars, OutboxInv, EventInv, NEW x \in Ext, Hear(x)
    PROVE  OutboxStep(x) /\ EventInv' /\ stage[x] = "up"
  <1> DEFINE e == Head(events[x])
  <1>1. events[x] \in Seq(OwnEvent(x)) /\ events[x] # <<>> /\ stage[x] = "up"
    BY DEF Hear, EventInv, EventCell, Scalars
  <1>2. e \in OwnEvent(x) /\ Tail(events[x]) \in Seq(OwnEvent(x))
    BY <1>1, HeadTailProperties
  <1>3. /\ e.on \in OwnEntry(x) /\ e.says \in contentOf[x] \cup {Shown, Removed, "attached"}
        /\ Fits(e.on, e.says)
    BY <1>2 DEF OwnEvent
  <1> DEFINE d == IF e.says = "attached" THEN Removed ELSE e.says
  <1>4. Touch(x, e.on, d)
    BY DEF Hear
  <1>5. /\ lookups' = [lookups EXCEPT ![x] = IF e.says = "attached" THEN @ \cup {e.on[2]} ELSE @]
        /\ events' = [events EXCEPT ![x] = Tail(@)] /\ stage' = stage
    BY DEF Hear
  <1> HIDE DEF e
  <1>6. d \in contentOf[x] \cup {Shown, Removed} /\ Fits(e.on, d)
    BY <1>3, CaptureAssumption DEF Fits
  <1>7. OutboxStep(x)
    BY <1>1, <1>3, <1>4, <1>6, TouchSteps
  <1>8. e.says = "attached" => e.on[2] \in TabId
    <2>1. "attached" \notin {Shown, Removed}
      BY CaptureAssumption
    <2>2. e.says = "attached" => e.on \in idsOf[x] \X TabId
      BY <1>3, <2>1, ConstantTypes DEF Fits, OwnEntry
    <2> QED
      BY <2>2
  <1>9. ASSUME NEW y \in Ext PROVE EventCell(y)'
    <2>1. CASE y = x
      <3>1. events'[x] = Tail(events[x])
        BY <1>5 DEF EventInv
      <3>2. lookups'[x] \subseteq TabId
        BY <1>5, <1>8 DEF EventInv, EventCell
      <3> QED
        BY <2>1, <3>1, <3>2, <1>1, <1>2, <1>5 DEF EventCell
    <2>2. CASE y # x
      BY <2>2, <1>5 DEF EventInv, EventCell
    <2> QED
      BY <2>1, <2>2
  <1>10. EventInv'
    BY <1>5, <1>9 DEF EventInv
  <1> QED
    BY <1>1, <1>7, <1>10

LEMMA LookupSteps ==
    ASSUME Scalars, BrowserInv, OutboxInv, EventInv, NEW x \in Ext, Lookup(x)
    PROVE  (OutboxStep(x) \/ UNCHANGED outboxVars) /\ EventInv' /\ stage[x] = "up"
  <1>1. PICK t \in lookups[x] :
            /\ lookups' = [lookups EXCEPT ![x] = @ \ {t}]
            /\ \/ \E k \in DOMAIN open[x] : k[2] = t /\ Touch(x, k, open[x][k])
               \/ /\ t \notin Tabs(open[x])
                  /\ UNCHANGED outboxVars
    BY DEF Lookup
  <1>2. events' = events /\ stage' = stage
    BY DEF Lookup
  <1>3. stage[x] = "up"
    BY DEF EventInv, EventCell
  <1>4. EventInv'
    BY <1>1, <1>2 DEF EventInv, EventCell
  <1>5. ASSUME NEW k \in DOMAIN open[x], Touch(x, k, open[x][k]) PROVE OutboxStep(x)
    <2>1. k \in idsOf[x] \X TabId /\ open[x][k] \in contentOf[x]
      BY OpenElim DEF BrowserInv
    <2>2. k \in OwnEntry(x) /\ k \notin WindowId
      BY <2>1, TabIsOwn
    <2>3. open[x][k] # Shown
      BY <2>1, ConstantTypes, CaptureAssumption
    <2>4. Fits(k, open[x][k])
      BY <2>2, <2>3 DEF Fits
    <2> QED
      BY <1>3, <1>5, <2>1, <2>2, <2>4, TouchSteps
  <1> QED
    BY <1>1, <1>3, <1>4, <1>5

LEMMA FlushTimerSteps ==
    ASSUME Scalars, OutboxInv, NEW x \in Ext, FlushTimer(x)
    PROVE  stage[x] = "up" /\ OutboxStep(x)
  <1>1. stage[x] = "up" /\ timer[x]
    BY DEF FlushTimer, OutboxInv, OutboxCell
  <1>2. pending[x] = mirror[x] /\ unsent[x] = mirror[x] /\ mirror[x] \in OwnBody(x)
    BY <1>1 DEF OutboxInv, OutboxCell
  <1>3. CASE Flush(x, pending[x])
    BY <1>1, <1>2, <1>3, FlushSteps
  <1>4. CASE /\ timer' = [timer EXCEPT ![x] = FALSE]
             /\ UNCHANGED <<pending, flushing, hello, port, mirror, chan, unsent, overtaken>>
    <2>1. timer' \in [Ext -> BOOLEAN] /\ \A y \in Ext \ {x} : timer'[y] = timer[y] /\ flushing'[y] = flushing[y]
      BY <1>4 DEF Scalars
    <2>2. /\ pending' = pending /\ mirror' = mirror /\ unsent' = unsent /\ chan' = chan
          /\ hello' = hello /\ port' = port /\ flushing' = flushing /\ overtaken' = overtaken
      BY <1>4
    <2>3. /\ hello' \in [Ext -> BOOLEAN] /\ port' \in [Ext -> {"none", "up", "backoff"}]
          /\ flushing' \in [Ext -> {"no", "sent", "kept"}] /\ overtaken' \in [Ext -> BOOLEAN]
      BY <2>2 DEF Scalars
    <2>4. /\ DOMAIN pending' = Ext /\ DOMAIN mirror' = Ext /\ DOMAIN unsent' = Ext
          /\ pending'[x] \in OwnBody(x) /\ mirror'[x] = pending'[x] /\ unsent'[x] = pending'[x]
          /\ \A y \in Ext \ {x} :
                pending'[y] = pending[y] /\ mirror'[y] = mirror[y] /\ unsent'[y] = unsent[y]
      BY <1>2, <2>2 DEF OutboxInv
    <2>5. chan' = chan
      BY <1>4
    <2> QED
      BY <1>1, <2>1, <2>3, <2>4, <2>5 DEF OutboxStep
  <1> QED
    BY <1>1, <1>3, <1>4 DEF FlushTimer

LEMMA StopSteps ==
    ASSUME BrowserInv, NEW x \in Ext, Evict(x) \/ Quit(x)
    PROVE  /\ StopWorker(x) /\ BrowserInv'
           /\ changes' \in {changes, changes + 1} /\ (changes' = changes \/ changes < MaxChanges)
           /\ \/ mirror' = mirror /\ unsent' = unsent
              \/ /\ mirror' = [mirror EXCEPT ![x] = Empty]
                 /\ unsent' = [unsent EXCEPT ![x] = Empty]
  <1>1. CASE Evict(x)
    BY <1>1 DEF Evict, browserVars, BrowserInv
  <1>2. CASE Quit(x)
    <2>1. /\ open' = [open EXCEPT ![x] = Empty]
          /\ gone' = [gone EXCEPT ![x] = @ \cup (Windows(open[x]) \ Windows(Empty))
                                            \cup (Tabs(open[x]) \ Tabs(Empty))]
          /\ changes < MaxChanges /\ changes' = changes + 1
      BY <1>2 DEF Quit, NowOpen
    <2>2. Empty \in OwnOpen(x)
      BY OpenIntro DEF Empty
    <2>3. Windows(open[x]) \subseteq WindowId /\ Tabs(open[x]) \subseteq TabId
      BY OpenElim, ConstantTypes DEF BrowserInv
    <2>4. BrowserInv'
      BY <2>1, <2>2, <2>3 DEF BrowserInv
    <2> QED
      BY <1>2, <2>1, <2>4 DEF Quit
  <1> QED
    BY <1>1, <1>2

LEMMA ChangeSteps ==
    ASSUME BrowserInv, EventInv, NEW x \in Ext, OwnChange(x)
    PROVE  /\ BrowserInv' /\ EventInv'
           /\ changes < MaxChanges /\ changes' = changes + 1
           /\ UNCHANGED <<stage, recon, ckey, old, okey, storeVars, sleeps, drops, trusted, outboxVars>>
  <1>1. PICK n \in OwnOpen(x) : \E fired \in Seq(OwnEvent(x)) : Change(x, n, fired)
    BY DEF OwnChange
  <1>2. PICK fired \in Seq(OwnEvent(x)) : Change(x, n, fired)
    BY <1>1
  <1>3. /\ open' = [open EXCEPT ![x] = n]
        /\ gone' = [gone EXCEPT ![x] = @ \cup (Windows(open[x]) \ Windows(n)) \cup (Tabs(open[x]) \ Tabs(n))]
    BY <1>2 DEF Change, NowOpen
  <1>4. Windows(open[x]) \subseteq WindowId /\ Tabs(open[x]) \subseteq TabId
    BY OpenElim, ConstantTypes DEF BrowserInv
  <1>5. BrowserInv'
    BY <1>3, <1>4 DEF BrowserInv
  <1>6. /\ events' = [events EXCEPT ![x] = IF stage[x] = "up" THEN fired ELSE <<>>]
        /\ lookups' = lookups /\ stage' = stage
    BY <1>2 DEF Change
  <1>7. EventInv'
    BY <1>6 DEF EventInv, EventCell
  <1> QED
    BY <1>2, <1>5, <1>7 DEF Change, NowOpen

-----------------------------------------------------------------------------
(* Each part of the invariant is preserved.                                *)

LEMMA ScalarStep == ASSUME Inv, Next PROVE Scalars' /\ Bounds'
  <1>1. PICK x \in Ext :
            \/ OwnChange(x) \/ Hear(x) \/ Lookup(x) \/ FlushTimer(x)
            \/ Evict(x) \/ Quit(x) \/ OtherStep(x)
    BY Actions
  <1> USE DEF Inv
  <1>2. ASSUME UNCHANGED boundVars PROVE Bounds'
    BY <1>2 DEF Bounds, boundVars
  <1>3. ASSUME OutboxStep(x) \/ UNCHANGED outboxVars, UNCHANGED <<stage, trusted>> PROVE Scalars'
    BY <1>3 DEF Scalars, OutboxStep, outboxVars
  <1>4. CASE OwnChange(x)
    <2>1. /\ changes < MaxChanges /\ changes' = changes + 1
          /\ UNCHANGED <<stage, sleeps, drops, trusted, outboxVars>>
      BY <1>4, ChangeSteps
    <2>2. Scalars'
      BY <2>1 DEF Scalars, outboxVars, OutboxStep, Flush
    <2>3. Bounds'
      BY <2>1, CaptureAssumption DEF Bounds
    <2> QED
      BY <2>2, <2>3
  <1>5. CASE Hear(x)
    <2>1. OutboxStep(x)
      BY <1>5, HearSteps
    <2>2. UNCHANGED <<stage, trusted>> /\ UNCHANGED boundVars
      BY <1>5 DEF Hear
    <2> QED
      BY <1>2, <1>3, <2>1, <2>2
  <1>6. CASE Lookup(x)
    <2>1. OutboxStep(x) \/ UNCHANGED outboxVars
      BY <1>6, LookupSteps
    <2>2. UNCHANGED <<stage, trusted>> /\ UNCHANGED boundVars
      BY <1>6 DEF Lookup
    <2> QED
      BY <1>2, <1>3, <2>1, <2>2
  <1>7. CASE FlushTimer(x)
    <2>1. OutboxStep(x)
      BY <1>7, FlushTimerSteps
    <2>2. UNCHANGED <<stage, trusted>> /\ UNCHANGED boundVars
      BY <1>7 DEF FlushTimer
    <2> QED
      BY <1>2, <1>3, <2>1, <2>2
  <1>8. CASE Evict(x) \/ Quit(x)
    <2>1. /\ StopWorker(x)
          /\ changes' \in {changes, changes + 1} /\ (changes' = changes \/ changes < MaxChanges)
      BY <1>8, StopSteps
    <2>2. Scalars'
      BY <2>1 DEF StopWorker, Scalars
    <2>3. Bounds'
      BY <2>1, CaptureAssumption DEF StopWorker, Bounds
    <2> QED
      BY <2>2, <2>3
  <1>9. CASE OtherStep(x)
    <2>1. CASE Wake(x)
      BY <1>2, <2>1 DEF Wake, Scalars, obsVars
    <2>2. CASE Boot(x)
      <3>1. \A p : (p # Empty) \in BOOLEAN
        OBVIOUS
      <3> QED
        BY <1>2, <2>2, <3>1 DEF Boot, Scalars, obsVars
    <2>3. CASE FlushDone(x)
      <3>1. (timer[x] \/ flushing[x] = "kept") \in BOOLEAN
        BY DEF Scalars
      <3> QED
        BY <1>2, <2>3, <3>1 DEF FlushDone, Scalars, obsVars
    <2>4. CASE SayHello(x)
      <3>1. hello' \in [Ext -> BOOLEAN] /\ port' \in [Ext -> {"none", "up", "backoff"}]
        <4>1. CASE Post(x, Hello)
          BY <4>1, PostSends
        <4>2. CASE hello' = [hello EXCEPT ![x] = FALSE] /\ UNCHANGED <<chan, port>>
          BY <4>2 DEF Scalars
        <4> QED
          BY <2>4, <4>1, <4>2 DEF SayHello
      <3> QED
        BY <1>2, <2>4, <3>1 DEF SayHello, Scalars, obsVars
    <2>5. CASE ReconcileRead(x)
      BY <1>2, <2>5 DEF ReconcileRead, Scalars
    <2>6. CASE ReconcileSend(x)
      <3>1. hello' \in [Ext -> BOOLEAN] /\ port' \in [Ext -> {"none", "up", "backoff"}]
        <4>1. CASE CanSend(x)
          <5>1. Post(x, FullState(recon[x][1], ~overtaken[x]))
            BY <2>6, <4>1 DEF ReconcileSend
          <5> QED
            BY <5>1, PostSends
        <4>2. CASE ~CanSend(x)
          BY <2>6, <4>2 DEF ReconcileSend, Scalars
        <4> QED
          BY <4>1, <4>2
      <3> QED
        BY <1>2, <2>6, <3>1 DEF ReconcileSend, Scalars, obsVars
    <2>7. CASE Reconnect(x)
      BY <1>2, <2>7 DEF Reconnect, Scalars, obsVars
    <2>8. CASE Disconnect(x)
      BY <2>8, CaptureAssumption DEF Disconnect, Scalars, Bounds
    <2>9. CASE Deliver(x)
      <3>1. \A m \in OwnMsg(x) : (m.fresh /\ ckey[x] = x) \in BOOLEAN
        BY DEF OwnMsg
      <3>2. Head(chan[x]) \in OwnMsg(x)
        BY <2>9, HeadTailProperties DEF Deliver, PipeInv, PipeCell
      <3>3. trusted' \in [Ext -> BOOLEAN]
        BY <2>9, <3>1, <3>2 DEF Deliver, Scalars
      <3> QED
        BY <1>2, <2>9, <3>3 DEF Deliver, Scalars, workerVars
    <2>10. CASE DeliverOld(x)
      BY <1>2, <2>10 DEF DeliverOld, Scalars, workerVars
    <2> QED
      BY <1>9, <2>1, <2>2, <2>3, <2>4, <2>5, <2>6, <2>7, <2>8, <2>9, <2>10 DEF OtherStep
  <1> QED
    BY <1>1, <1>4, <1>5, <1>6, <1>7, <1>8, <1>9

LEMMA OutboxFrame ==
    ASSUME OutboxInv, NEW x \in Ext, OutboxStep(x), stage[x] = "up", stage' = stage
    PROVE  OutboxInv'
  <1>1. ASSUME NEW y \in Ext PROVE OutboxCell(y)'
    <2>1. CASE y = x
      BY <2>1 DEF OutboxStep, OutboxCell
    <2>2. CASE y # x
      BY <2>2 DEF OutboxStep, OutboxInv, OutboxCell
    <2> QED
      BY <2>1, <2>2
  <1> QED
    BY <1>1 DEF OutboxStep, OutboxInv

\* What is in memory and not posted changes only with a listener, a timer, a
\* boot or the end of the worker.
LEMMA OutboxInvStep == ASSUME Inv, Next PROVE OutboxInv'
  <1>1. PICK x \in Ext :
            \/ OwnChange(x) \/ Hear(x) \/ Lookup(x) \/ FlushTimer(x)
            \/ Evict(x) \/ Quit(x) \/ OtherStep(x)
    BY Actions
  <1> USE DEF Inv
  <1>2. ASSUME UNCHANGED <<stage, pending, timer, flushing, mirror, unsent>> PROVE OutboxInv'
    BY <1>2 DEF OutboxInv, OutboxCell
  <1>3. CASE OwnChange(x)
    BY <1>2, <1>3, ChangeSteps DEF outboxVars
  <1>4. CASE Hear(x)
    <2>1. stage' = stage
      BY <1>4 DEF Hear
    <2> QED
      BY <1>4, <2>1, HearSteps, OutboxFrame
  <1>5. CASE Lookup(x)
    <2>1. stage' = stage
      BY <1>5 DEF Lookup
    <2>2. UNCHANGED outboxVars => UNCHANGED <<pending, timer, flushing, mirror, unsent>>
      BY DEF outboxVars
    <2> QED
      BY <1>2, <1>5, <2>1, <2>2, LookupSteps, OutboxFrame
  <1>6. CASE FlushTimer(x)
    <2>1. stage' = stage
      BY <1>6 DEF FlushTimer
    <2> QED
      BY <1>6, <2>1, FlushTimerSteps, OutboxFrame
  <1>7. CASE Evict(x) \/ Quit(x)
    <2>1. /\ stage' = [stage EXCEPT ![x] = "asleep"]
          /\ pending' = [pending EXCEPT ![x] = Empty]
          /\ timer' = [timer EXCEPT ![x] = FALSE]
          /\ flushing' = [flushing EXCEPT ![x] = "no"]
      BY <1>7, StopSteps DEF StopWorker
    <2>2. \/ mirror' = mirror /\ unsent' = unsent
          \/ /\ mirror' = [mirror EXCEPT ![x] = Empty]
             /\ unsent' = [unsent EXCEPT ![x] = Empty]
      BY <1>7, StopSteps
    <2>3. ASSUME NEW y \in Ext PROVE OutboxCell(y)'
      <3>1. mirror'[y] \in OwnBody(y) /\ unsent'[y] = mirror'[y]
        BY <2>2, EmptyIsBody DEF OutboxInv, OutboxCell
      <3>2. CASE y = x
        BY <2>1, <3>1, <3>2 DEF OutboxInv, OutboxCell, Scalars
      <3>3. CASE y # x
        <4>1. /\ stage'[y] = stage[y] /\ pending'[y] = pending[y] /\ mirror'[y] = mirror[y]
              /\ timer'[y] = timer[y] /\ flushing'[y] = flushing[y]
          BY <2>1, <2>2, <3>3 DEF OutboxInv, Scalars
        <4> QED
          BY <3>1, <4>1 DEF OutboxInv, OutboxCell
      <3> QED
        BY <3>2, <3>3
    <2> QED
      BY <2>1, <2>2, <2>3 DEF OutboxInv
  <1>8. CASE OtherStep(x)
    <2>1. CASE Wake(x)
      BY <2>1 DEF Wake, OutboxInv, OutboxCell, Scalars, obsVars
    <2>2. CASE Boot(x)
      <3>1. /\ stage[x] = "boot" /\ stage' = [stage EXCEPT ![x] = "up"]
            /\ pending' = [pending EXCEPT ![x] = Merge(pending[x], mirror[x])]
            /\ \A y \in Ext \ {x} : timer'[y] = timer[y]
            /\ mirror' = mirror /\ unsent' = unsent /\ flushing' = flushing
        BY <2>2 DEF Boot, obsVars, Scalars
      <3>2. Merge(pending[x], mirror[x]) = mirror[x]
        BY <3>1, MergeEmpty DEF OutboxInv, OutboxCell
      <3> QED
        BY <3>1, <3>2 DEF OutboxInv, OutboxCell, Scalars
    <2>3. CASE FlushDone(x)
      <3>1. /\ UNCHANGED <<stage, pending, mirror, unsent>>
            /\ timer' = [timer EXCEPT ![x] = timer[x] \/ flushing[x] = "kept"]
            /\ flushing[x] # "no" /\ flushing' = [flushing EXCEPT ![x] = "no"]
        BY <2>3 DEF FlushDone, obsVars
      <3> QED
        BY <3>1 DEF OutboxInv, OutboxCell, Scalars
    <2>4. CASE SayHello(x) \/ ReconcileRead(x) \/ ReconcileSend(x) \/ Reconnect(x) \/ Disconnect(x)
      BY <1>2, <2>4 DEF SayHello, ReconcileRead, ReconcileSend, Reconnect, Disconnect, obsVars
    <2>5. CASE Deliver(x) \/ DeliverOld(x)
      BY <1>2, <2>5 DEF Deliver, DeliverOld, workerVars
    <2> QED
      BY <1>8, <2>1, <2>2, <2>3, <2>4, <2>5 DEF OtherStep
  <1> QED
    BY <1>1, <1>3, <1>4, <1>5, <1>6, <1>7, <1>8

LEMMA BrowserAndEventStep == ASSUME Inv, Next PROVE BrowserInv' /\ EventInv'
  <1>1. PICK x \in Ext :
            \/ OwnChange(x) \/ Hear(x) \/ Lookup(x) \/ FlushTimer(x)
            \/ Evict(x) \/ Quit(x) \/ OtherStep(x)
    BY Actions
  <1> USE DEF Inv
  <1>2. ASSUME UNCHANGED browserVars PROVE BrowserInv'
    BY <1>2 DEF BrowserInv, browserVars
  <1>3. ASSUME UNCHANGED <<stage, events, lookups>> PROVE EventInv'
    BY <1>3 DEF EventInv, EventCell
  <1>4. CASE OwnChange(x)
    BY <1>4, ChangeSteps
  <1>5. CASE Hear(x)
    BY <1>2, <1>5, HearSteps DEF Hear
  <1>6. CASE Lookup(x)
    BY <1>2, <1>6, LookupSteps DEF Lookup
  <1>7. CASE FlushTimer(x)
    BY <1>2, <1>3, <1>7 DEF FlushTimer
  <1>8. CASE Evict(x) \/ Quit(x)
    <2>1. /\ stage' = [stage EXCEPT ![x] = "asleep"] /\ events[x] = <<>>
          /\ events' = events /\ lookups' = [lookups EXCEPT ![x] = {}]
      BY <1>8, StopSteps DEF StopWorker
    <2>2. EventInv'
      BY <2>1 DEF EventInv, EventCell, Scalars
    <2> QED
      BY <1>8, <2>2, StopSteps
  <1>9. CASE OtherStep(x)
    <2>1. CASE Wake(x) \/ Boot(x)
      <3>1. /\ UNCHANGED <<events, lookups>> /\ UNCHANGED browserVars
            /\ stage[x] # "up" /\ stage' \in {[stage EXCEPT ![x] = "boot"], [stage EXCEPT ![x] = "up"]}
        BY <2>1 DEF Wake, Boot
      <3>2. EventInv'
        BY <3>1 DEF EventInv, EventCell, Scalars
      <3> QED
        BY <1>2, <3>1, <3>2
    <2>2. CASE FlushDone(x) \/ SayHello(x) \/ ReconcileRead(x) \/ ReconcileSend(x) \/ Reconnect(x) \/ Disconnect(x)
      BY <1>2, <1>3, <2>2 DEF FlushDone, SayHello, ReconcileRead, ReconcileSend, Reconnect, Disconnect
    <2>3. CASE Deliver(x) \/ DeliverOld(x)
      BY <1>2, <1>3, <2>3 DEF Deliver, DeliverOld, workerVars
    <2> QED
      BY <1>9, <2>1, <2>2, <2>3 DEF OtherStep
  <1> QED
    BY <1>1, <1>4, <1>5, <1>6, <1>7, <1>8, <1>9

\* Messages enter a pipe only at its end and only from its own profile.
LEMMA AppendOwn ==
    ASSUME PipeInv, NEW x \in Ext, NEW m \in OwnMsg(x),
           chan' = [chan EXCEPT ![x] = Append(@, m)], UNCHANGED <<recon, old, ckey, okey>>
    PROVE  PipeInv'
  <1>1. Append(chan[x], m) \in Seq(OwnMsg(x))
    BY AppendProperties DEF PipeInv, PipeCell
  <1>2. ASSUME NEW y \in Ext PROVE chan'[y] \in Seq(OwnMsg(y))
    <2>1. CASE y = x
      BY <1>1, <2>1 DEF PipeInv
    <2>2. CASE y # x
      BY <2>2 DEF PipeInv, PipeCell
    <2> QED
      BY <2>1, <2>2
  <1> QED
    BY <1>2 DEF PipeInv, PipeCell

LEMMA KeyStays ==
    ASSUME NEW x \in Ext, NEW known \in {x, RelayKey, NoKey}, NEW m
    PROVE  /\ KeyAfter(x, known, m) \in {x, RelayKey}
           /\ m.type # "hello" /\ known = x => KeyAfter(x, known, m) = x
  BY CaptureAssumption DEF KeyAfter, Key

LEMMA PipeStep == ASSUME Inv, Next PROVE PipeInv'
  <1>1. PICK x \in Ext :
            \/ OwnChange(x) \/ Hear(x) \/ Lookup(x) \/ FlushTimer(x)
            \/ Evict(x) \/ Quit(x) \/ OtherStep(x)
    BY Actions
  <1> USE DEF Inv
  <1>2. ASSUME UNCHANGED <<recon, chan, old, ckey, okey>> PROVE PipeInv'
    BY <1>2 DEF PipeInv, PipeCell
  <1>3. ASSUME OutboxStep(x), UNCHANGED <<recon, old, ckey, okey>> PROVE PipeInv'
    BY <1>2, <1>3, AppendOwn DEF OutboxStep
  <1>4. CASE OwnChange(x)
    BY <1>2, <1>4, ChangeSteps DEF outboxVars
  <1>5. CASE Hear(x)
    <2>1. UNCHANGED <<recon, old, ckey, okey>>
      BY <1>5 DEF Hear
    <2> QED
      BY <1>3, <1>5, <2>1, HearSteps
  <1>6. CASE Lookup(x)
    <2>1. UNCHANGED <<recon, old, ckey, okey>>
      BY <1>6 DEF Lookup
    <2>2. UNCHANGED outboxVars => chan' = chan
      BY DEF outboxVars
    <2> QED
      BY <1>2, <1>3, <1>6, <2>1, <2>2, LookupSteps
  <1>7. CASE FlushTimer(x)
    <2>1. UNCHANGED <<recon, old, ckey, okey>>
      BY <1>7 DEF FlushTimer
    <2> QED
      BY <1>3, <1>7, <2>1, FlushTimerSteps
  <1>8. CASE Evict(x) \/ Quit(x)
    <2>1. /\ recon' = [recon EXCEPT ![x] = <<>>]
          /\ old' = [old EXCEPT ![x] = chan[x]] /\ okey' = [okey EXCEPT ![x] = ckey[x]]
          /\ chan' = [chan EXCEPT ![x] = <<>>] /\ ckey' = [ckey EXCEPT ![x] = NoKey]
      BY <1>8, StopSteps DEF StopWorker
    <2>2. ASSUME NEW y \in Ext PROVE PipeCell(y)'
      <3>1. CASE y = x
        <4>1. /\ recon'[x] = <<>> /\ old'[x] = chan[x] /\ okey'[x] = ckey[x]
              /\ chan'[x] = <<>> /\ ckey'[x] = NoKey
          BY <2>1 DEF PipeInv
        <4> QED
          BY <3>1, <4>1 DEF PipeInv, PipeCell
      <3>2. CASE y # x
        <4>1. /\ recon'[y] = recon[y] /\ old'[y] = old[y] /\ okey'[y] = okey[y]
              /\ chan'[y] = chan[y] /\ ckey'[y] = ckey[y]
          BY <2>1, <3>2 DEF PipeInv
        <4> QED
          BY <4>1 DEF PipeInv, PipeCell
      <3> QED
        BY <3>1, <3>2
    <2> QED
      BY <2>1, <2>2 DEF PipeInv
  <1>9. CASE OtherStep(x)
    <2>1. CASE Wake(x) \/ Boot(x) \/ FlushDone(x) \/ Reconnect(x)
      BY <1>2, <2>1 DEF Wake, Boot, FlushDone, Reconnect, pipeVars
    <2>2. CASE SayHello(x)
      <3>1. UNCHANGED <<recon, old, ckey, okey>>
        BY <2>2 DEF SayHello
      <3>2. CASE Post(x, Hello)
        <4>1. chan' = [chan EXCEPT ![x] = Append(@, Hello)]
          BY <3>2 DEF Post
        <4> QED
          BY <3>1, <4>1, HelloIsMsg, AppendOwn
      <3>3. CASE chan' = chan
        BY <1>2, <3>1, <3>3
      <3> QED
        BY <2>2, <3>2, <3>3 DEF SayHello
    <2>3. CASE ReconcileRead(x)
      <3>1. /\ recon' = [recon EXCEPT ![x] = <<Body(open[x])>>]
            /\ UNCHANGED <<chan, old, ckey, okey>>
        BY <2>3 DEF ReconcileRead, pipeVars
      <3>2. Body(open[x]) \in OwnBody(x)
        BY OpenIsBody DEF BrowserInv
      <3> QED
        BY <3>1, <3>2 DEF PipeInv, PipeCell
    <2>4. CASE ReconcileSend(x)
      <3>1. PICK b \in OwnBody(x) : recon[x] = <<b>>
        BY <2>4 DEF ReconcileSend, PipeInv, PipeCell
      <3>2. /\ recon' = [recon EXCEPT ![x] = <<>>] /\ UNCHANGED <<old, ckey, okey>>
            /\ \/ chan' = [chan EXCEPT ![x] = Append(@, FullState(b, ~overtaken[x]))]
               \/ chan' = chan
        BY <2>4, <3>1 DEF ReconcileSend, Post
      <3>3. FullState(b, ~overtaken[x]) \in OwnMsg(x)
        BY DeltaIsMsg
      <3>4. Append(chan[x], FullState(b, ~overtaken[x])) \in Seq(OwnMsg(x))
        BY <3>3, AppendProperties DEF PipeInv, PipeCell
      <3>5. ASSUME NEW y \in Ext PROVE chan'[y] \in Seq(OwnMsg(y))
        BY <3>2, <3>4 DEF PipeInv, PipeCell
      <3> QED
        BY <3>2, <3>5 DEF PipeInv, PipeCell
    <2>5. CASE Disconnect(x)
      <3>1. /\ chan' = [chan EXCEPT ![x] = <<>>] /\ ckey' = [ckey EXCEPT ![x] = NoKey]
            /\ UNCHANGED <<recon, old, okey>>
        BY <2>5 DEF Disconnect
      <3> QED
        BY <3>1 DEF PipeInv, PipeCell
    <2>6. CASE Deliver(x)
      <3>1. /\ chan[x] # <<>> /\ chan' = [chan EXCEPT ![x] = Tail(@)]
            /\ ckey' = [ckey EXCEPT ![x] = KeyAfter(x, @, Head(chan[x]))]
            /\ UNCHANGED <<recon, old, okey>>
        BY <2>6 DEF Deliver, workerVars
      <3>2. Tail(chan[x]) \in Seq(OwnMsg(x))
        BY <3>1, HeadTailProperties DEF PipeInv, PipeCell
      <3>3. KeyAfter(x, ckey[x], Head(chan[x])) \in {x, RelayKey}
        BY KeyStays DEF PipeInv, PipeCell
      <3>4. ckey' \in [Ext -> Key \cup {NoKey}]
        BY <3>1, <3>3 DEF PipeInv, Key
      <3> QED
        BY <3>1, <3>2, <3>3, <3>4 DEF PipeInv, PipeCell
    <2>7. CASE DeliverOld(x)
      <3>1. /\ old[x] # <<>> /\ old' = [old EXCEPT ![x] = Tail(@)]
            /\ okey' = [okey EXCEPT ![x] = KeyAfter(x, @, Head(old[x]))]
            /\ UNCHANGED <<recon, chan, ckey>>
        BY <2>7 DEF DeliverOld, workerVars
      <3>2. Tail(old[x]) \in Seq(OwnMsg(x))
        BY <3>1, HeadTailProperties DEF PipeInv, PipeCell
      <3>3. KeyAfter(x, okey[x], Head(old[x])) \in {x, RelayKey}
        BY KeyStays DEF PipeInv, PipeCell
      <3>4. okey' \in [Ext -> Key \cup {NoKey}]
        BY <3>1, <3>3 DEF PipeInv, Key
      <3> QED
        BY <3>1, <3>2, <3>3, <3>4 DEF PipeInv, PipeCell
    <2> QED
      BY <1>9, <2>1, <2>2, <2>3, <2>4, <2>5, <2>6, <2>7 DEF OtherStep
  <1> QED
    BY <1>1, <1>4, <1>5, <1>6, <1>7, <1>8, <1>9

-----------------------------------------------------------------------------
(* What the agent does with one message.                                   *)

LEMMA TabRowsAre ==
    ASSUME NEW b
    PROVE  LET T == TabRows(b)
               told == DOMAIN b \cap TabKey
           IN  /\ T = [k \in DOMAIN T |-> T[k]]
               /\ DOMAIN T = (DOMAIN tabs \cup told) \ {k \in told : b[k] = Removed}
               /\ \A k \in DOMAIN T : T[k] = IF k \in told THEN b[k] ELSE tabs[k]
  <1> DEFINE told == DOMAIN b \cap TabKey
             f == [k \in told |-> b[k]]
             M == Merge(f, tabs)
  <1>1. DOMAIN f = told /\ \A k \in told : f[k] = b[k]
    OBVIOUS
  <1>2. DOMAIN M = told \cup DOMAIN tabs /\ \A k \in DOMAIN M : M[k] = IF k \in told THEN b[k] ELSE tabs[k]
    BY <1>1 DEF Merge
  <1>3. TabRows(b) = Without(M, {k \in told : b[k] = Removed})
    BY DEF TabRows
  <1> HIDE DEF M
  <1> QED
    BY <1>2, <1>3 DEF Without

\* What is left after a message: rows that were there or that it told of.
LEMMA ApplyLeaves ==
    ASSUME NEW x, NEW key, NEW m, Apply(x, key, m)
    PROVE  LET W == WindowRows(x, key, m.body)
               T == TabRows(m.body)
           IN  /\ wins' = [w \in DOMAIN wins' |-> wins'[w]]
               /\ DOMAIN wins' \subseteq DOMAIN W /\ \A w \in DOMAIN wins' : wins'[w] = W[w]
               /\ DOMAIN tabs' \subseteq DOMAIN T /\ \A k \in DOMAIN tabs' : tabs'[k] = T[k]
               /\ \A w \in DOMAIN W \ DOMAIN wins' :
                     w \notin DOMAIN m.body /\ W[w] = [browser |-> browserOf[x], key |-> key]
               /\ \A k \in DOMAIN T \ DOMAIN tabs' :
                     /\ k[1] \in DOMAIN W /\ k \notin DOMAIN m.body
                     /\ W[k[1]] = [browser |-> browserOf[x], key |-> key]
  <1> DEFINE W == WindowRows(x, key, m.body)
             T == TabRows(m.body)
  <1>1. W = [w \in DOMAIN W |-> W[w]]
    BY DEF WindowRows
  <1>2. /\ wins' = IF m.type = "full_state" THEN Without(W, Reaped(x, key, m.body, W, T).wins) ELSE W
        /\ tabs' = IF m.type = "full_state" THEN Without(T, Reaped(x, key, m.body, W, T).tabs) ELSE T
    BY DEF Apply
  <1> HIDE DEF W, T
  <1>3. LET owned == {w \in DOMAIN W : W[w] = [browser |-> browserOf[x], key |-> key]} IN
        /\ Reaped(x, key, m.body, W, T).wins = owned \ DOMAIN m.body
        /\ Reaped(x, key, m.body, W, T).tabs = {k \in DOMAIN T : k[1] \in owned /\ k \notin DOMAIN m.body}
    BY DEF Reaped
  <1>4. CASE m.type = "full_state"
    <2> DEFINE dw == Reaped(x, key, m.body, W, T).wins
               dt == Reaped(x, key, m.body, W, T).tabs
    <2>1. wins' = Without(W, dw) /\ tabs' = Without(T, dt)
      BY <1>2, <1>4
    <2>2. /\ \A w \in dw : /\ w \in DOMAIN W /\ w \notin DOMAIN m.body
                           /\ W[w] = [browser |-> browserOf[x], key |-> key]
          /\ \A k \in dt : /\ k[1] \in DOMAIN W /\ k \notin DOMAIN m.body
                           /\ W[k[1]] = [browser |-> browserOf[x], key |-> key]
      BY <1>3
    <2> HIDE DEF dw, dt
    <2>3. /\ wins' = [w \in DOMAIN wins' |-> wins'[w]]
          /\ DOMAIN wins' \subseteq DOMAIN W /\ \A w \in DOMAIN wins' : wins'[w] = W[w]
          /\ DOMAIN tabs' \subseteq DOMAIN T /\ \A k \in DOMAIN tabs' : tabs'[k] = T[k]
      BY <2>1 DEF Without
    <2>4. /\ \A w \in DOMAIN W \ DOMAIN wins' : w \in dw
          /\ \A k \in DOMAIN T \ DOMAIN tabs' : k \in dt
      BY <2>1 DEF Without
    <2> QED
      BY <2>2, <2>3, <2>4 DEF W, T
  <1>5. CASE m.type # "full_state"
    <2>1. wins' = W /\ tabs' = T
      BY <1>2, <1>5
    <2> QED
      BY <2>1, <1>1 DEF W, T
  <1> QED
    BY <1>4, <1>5

\* m is a message of x, read on a connection known by key.
Told(x, m, key) == m \in OwnMsg(x) /\ key \in {x, RelayKey}

LEMMA OwnBodyEntries ==
    ASSUME NEW x \in Ext, NEW b \in OwnBody(x)
    PROVE  /\ \A w \in DOMAIN b \cap WindowId : w \in idsOf[x]
           /\ \A k \in DOMAIN b \cap TabKey :
                 k \in idsOf[x] \X TabId /\ b[k] \in contentOf[x] \cup {Removed}
  <1>1. \A e \in DOMAIN b : e \in OwnEntry(x) /\ b[e] \in contentOf[x] \cup {Shown, Removed} /\ Fits(e, b[e])
    BY BodyElim
  <1>2. \A w \in WindowId : w \notin TabKey
    BY CaptureAssumption
  <1>3. \A k \in idsOf[x] \X TabId : k \in TabKey
    BY TabIsOwn
  <1> QED
    BY <1>1, <1>2, <1>3, ConstantTypes DEF OwnEntry, Fits

LEMMA WinsAfter ==
    ASSUME Rows, NEW x \in Ext, NEW key, NEW m, Told(x, m, key), Apply(x, key, m)
    PROVE  /\ wins' = [w \in DOMAIN wins' |-> wins'[w]]
           /\ \A w \in DOMAIN wins' :
                 \/ /\ w \in DOMAIN m.body /\ w \in idsOf[x]
                    /\ wins'[w] = [browser |-> IF w \in DOMAIN wins THEN wins[w].browser ELSE browserOf[x],
                                   key |-> key]
                 \/ w \in DOMAIN wins /\ w \notin DOMAIN m.body /\ wins'[w] = wins[w]
           /\ \A w \in DOMAIN wins \ DOMAIN wins' :
                 w \in DOMAIN m.body \/ wins[w] = [browser |-> browserOf[x], key |-> key]
  <1> DEFINE b == m.body
             W == WindowRows(x, key, b)
             told == {w \in DOMAIN b \cap WindowId : b[w] # Removed}
             lost == {w \in DOMAIN b \cap WindowId : b[w] = Removed}
  <1>1. b \in OwnBody(x)
    BY DEF Told, OwnMsg
  <1>2. \A w \in DOMAIN b \cap WindowId : w \in idsOf[x]
    BY <1>1, OwnBodyEntries
  <1>3. /\ DOMAIN W = (DOMAIN wins \cup told) \ lost
        /\ \A w \in DOMAIN W :
              W[w] = [browser |-> IF w \in DOMAIN wins THEN wins[w].browser ELSE browserOf[x],
                      key |-> IF w \in told THEN key ELSE wins[w].key]
    BY DEF WindowRows
  <1>4. /\ wins' = [w \in DOMAIN wins' |-> wins'[w]]
        /\ DOMAIN wins' \subseteq DOMAIN W /\ \A w \in DOMAIN wins' : wins'[w] = W[w]
        /\ \A w \in DOMAIN W \ DOMAIN wins' : W[w] = [browser |-> browserOf[x], key |-> key]
    BY ApplyLeaves
  <1>5. DOMAIN wins \subseteq WindowId /\ \A w \in DOMAIN wins : wins[w] \in [browser : Browser, key : Key]
    BY DEF Rows
  <1>6. \A w \in DOMAIN b \cap WindowId : w \in told \/ w \in lost
    OBVIOUS
  <1>7. told \subseteq DOMAIN b \cap WindowId /\ lost \subseteq DOMAIN b \cap WindowId
    OBVIOUS
  <1> HIDE DEF b, W, told, lost
  <1>8. ASSUME NEW w \in DOMAIN W
        PROVE  \/ /\ w \in DOMAIN b /\ w \in idsOf[x]
                  /\ W[w] = [browser |-> IF w \in DOMAIN wins THEN wins[w].browser ELSE browserOf[x],
                             key |-> key]
               \/ w \in DOMAIN wins /\ w \notin DOMAIN b /\ W[w] = wins[w]
    <2>1. CASE w \in told
      BY <2>1, <1>2, <1>3, <1>7
    <2>2. CASE w \notin told
      <3>1. w \in DOMAIN wins /\ w \notin DOMAIN b
        BY <2>2, <1>3, <1>5, <1>6
      <3>2. W[w] = [browser |-> wins[w].browser, key |-> wins[w].key]
        BY <2>2, <3>1, <1>3
      <3>3. wins[w] = [browser |-> wins[w].browser, key |-> wins[w].key]
        BY <3>1, <1>5
      <3> QED
        BY <3>1, <3>2, <3>3
    <2> QED
      BY <2>1, <2>2
  <1>9. ASSUME NEW w \in DOMAIN wins \ DOMAIN wins'
        PROVE  w \in DOMAIN b \/ wins[w] = [browser |-> browserOf[x], key |-> key]
    <2>1. CASE w \in DOMAIN W
      BY <2>1, <1>4, <1>8
    <2>2. CASE w \notin DOMAIN W
      BY <2>2, <1>3, <1>7
    <2> QED
      BY <2>1, <2>2
  <1> QED
    BY <1>4, <1>8, <1>9 DEF b

\* Tab k is stored as message m of x tells it.
FromMessage(x, m, k) ==
    /\ k \in DOMAIN m.body /\ k \in idsOf[x] \X TabId
    /\ tabs'[k] = m.body[k] /\ m.body[k] \in contentOf[x]

TabsTold(x, m) ==
    \A k \in DOMAIN tabs' :
        \/ FromMessage(x, m, k)
        \/ k \in DOMAIN tabs /\ k \notin DOMAIN m.body /\ tabs'[k] = tabs[k]

LEMMA TabsAfter ==
    ASSUME Rows, NEW x \in Ext, NEW key, NEW m, Told(x, m, key), Apply(x, key, m)
    PROVE  /\ TabsTold(x, m)
           /\ \A k \in DOMAIN tabs \ DOMAIN tabs' :
                 \/ k \in DOMAIN m.body \/ k[1] \in DOMAIN m.body
                 \/ k[1] \in DOMAIN wins /\ wins[k[1]] = [browser |-> browserOf[x], key |-> key]
  <1> DEFINE b == m.body
             W == WindowRows(x, key, b)
             T == TabRows(b)
             told == DOMAIN b \cap TabKey
  <1>1. \A k \in told : k \in idsOf[x] \X TabId /\ b[k] \in contentOf[x] \cup {Removed}
    BY OwnBodyEntries DEF Told, OwnMsg
  <1>2. /\ DOMAIN T = (DOMAIN tabs \cup told) \ {k \in told : b[k] = Removed}
        /\ \A k \in DOMAIN T : T[k] = IF k \in told THEN b[k] ELSE tabs[k]
    BY TabRowsAre
  <1>3. /\ DOMAIN tabs' \subseteq DOMAIN T /\ \A k \in DOMAIN tabs' : tabs'[k] = T[k]
        /\ \A k \in DOMAIN T \ DOMAIN tabs' :
              k[1] \in DOMAIN W /\ W[k[1]] = [browser |-> browserOf[x], key |-> key]
    BY ApplyLeaves
  <1>4. DOMAIN tabs \subseteq TabKey /\ told \subseteq DOMAIN b
    BY DEF Rows
  <1>5. \A k \in DOMAIN tabs : k \in DOMAIN b <=> k \in told
    BY <1>4
  <1>6. \A w \in DOMAIN W : w \notin DOMAIN b => w \in DOMAIN wins /\ W[w] = wins[w]
    <2>1. /\ DOMAIN W \subseteq DOMAIN wins \cup DOMAIN b
          /\ \A w \in DOMAIN W : w \notin DOMAIN b => W[w] = [browser |-> wins[w].browser, key |-> wins[w].key]
      BY DEF WindowRows
    <2>2. \A w \in DOMAIN wins : wins[w] = [browser |-> wins[w].browser, key |-> wins[w].key]
      BY DEF Rows
    <2> HIDE DEF W
    <2> QED
      BY <2>1, <2>2
  <1> HIDE DEF b, W, T, told
  <1>7. ASSUME NEW k \in DOMAIN tabs'
        PROVE  \/ FromMessage(x, m, k)
               \/ k \in DOMAIN tabs /\ k \notin DOMAIN b /\ tabs'[k] = tabs[k]
    <2>1. CASE k \in told
      BY <2>1, <1>1, <1>2, <1>3, <1>4 DEF FromMessage, b
    <2>2. CASE k \notin told
      BY <2>2, <1>2, <1>3, <1>5
    <2> QED
      BY <2>1, <2>2
  <1>8. ASSUME NEW k \in DOMAIN tabs \ DOMAIN tabs', k \notin DOMAIN b, k[1] \notin DOMAIN b
        PROVE  k[1] \in DOMAIN wins /\ wins[k[1]] = [browser |-> browserOf[x], key |-> key]
    <2>1. k \in DOMAIN T
      BY <1>2, <1>4, <1>8
    <2> QED
      BY <2>1, <1>3, <1>6, <1>8
  <1> QED
    BY <1>7, <1>8 DEF b, TabsTold

\* The first half of TabsAfter, for one tab.
LEMMA TabAfter ==
    ASSUME Rows, NEW x \in Ext, NEW key, NEW m, Told(x, m, key), Apply(x, key, m), NEW k \in DOMAIN tabs'
    PROVE  \/ FromMessage(x, m, k)
           \/ k \in DOMAIN tabs /\ k \notin DOMAIN m.body /\ tabs'[k] = tabs[k]
  <1>1. TabsTold(x, m)
    BY TabsAfter
  <1> QED BY <1>1 DEF TabsTold

\* A step stores something only by reading one message of one profile's pipe.
LEMMA StoreSteps ==
    ASSUME Inv, [Next]_vars
    PROVE  \/ UNCHANGED storeVars
           \/ \E x \in Ext : \E m \in OwnMsg(x) : \E key \in {x, RelayKey} :
                 /\ Apply(x, key, m) /\ Told(x, m, key)
                 /\ chan'[x] # chan[x] \/ old'[x] # old[x]
  <1>1. CASE UNCHANGED vars
    BY <1>1 DEF vars
  <1>2. CASE Next
    <2>1. PICK x \in Ext :
              \/ OwnChange(x) \/ Hear(x) \/ Lookup(x) \/ FlushTimer(x)
              \/ Evict(x) \/ Quit(x) \/ OtherStep(x)
      BY <1>2, Actions
    <2>2. CASE OwnChange(x)
      BY <2>2, ChangeSteps DEF Inv
    <2>3. CASE Hear(x) \/ Lookup(x) \/ FlushTimer(x)
      BY <2>3 DEF Hear, Lookup, FlushTimer
    <2>4. CASE Evict(x) \/ Quit(x)
      BY <2>4, StopSteps DEF StopWorker, Inv
    <2>5. CASE Wake(x) \/ Boot(x) \/ FlushDone(x) \/ SayHello(x) \/ ReconcileRead(x) \/ ReconcileSend(x)
                 \/ Reconnect(x) \/ Disconnect(x)
      BY <2>5 DEF Wake, Boot, FlushDone, SayHello, ReconcileRead, ReconcileSend, Reconnect, Disconnect
    <2>6. ASSUME NEW c \in Seq(OwnMsg(x)), c # <<>>, NEW known \in {x, RelayKey, NoKey},
                 Receive(x, known, Head(c))
          PROVE  /\ Tail(c) # c
                 /\ \/ UNCHANGED storeVars
                    \/ \E m \in OwnMsg(x) : \E key \in {x, RelayKey} : Apply(x, key, m) /\ Told(x, m, key)
      <3>1. Head(c) \in OwnMsg(x) /\ Tail(c) # c
        <4>1. Len(Tail(c)) # Len(c)
          BY <2>6, HeadTailProperties, LenProperties
        <4> QED
          BY <2>6, <4>1, HeadTailProperties
      <3>2. KeyAfter(x, known, Head(c)) \in {x, RelayKey}
        BY KeyStays
      <3> QED
        BY <2>6, <3>1, <3>2 DEF Receive, Told
    <2>7. CASE Deliver(x)
      <3>1. /\ chan[x] \in Seq(OwnMsg(x)) /\ ckey[x] \in {x, RelayKey, NoKey}
            /\ chan[x] # <<>> /\ Receive(x, ckey[x], Head(chan[x]))
            /\ chan'[x] = Tail(chan[x])
        BY <2>7 DEF Deliver, Inv, PipeInv, PipeCell
      <3> QED
        BY <2>6, <3>1
    <2>8. CASE DeliverOld(x)
      <3>1. /\ old[x] \in Seq(OwnMsg(x)) /\ okey[x] \in {x, RelayKey, NoKey}
            /\ old[x] # <<>> /\ Receive(x, okey[x], Head(old[x]))
            /\ old'[x] = Tail(old[x])
        BY <2>8 DEF DeliverOld, Inv, PipeInv, PipeCell
      <3> QED
        BY <2>6, <3>1
    <2> QED
      BY <2>1, <2>2, <2>3, <2>4, <2>5, <2>7, <2>8 DEF OtherStep
  <1> QED
    BY <1>1, <1>2

LEMMA RowStep == ASSUME Inv, [Next]_vars PROVE Rows'
  <1>1. CASE UNCHANGED storeVars
    BY <1>1 DEF Rows, storeVars, Inv
  <1>2. ASSUME NEW x \in Ext, NEW m \in OwnMsg(x), NEW key \in {x, RelayKey},
               Apply(x, key, m), Told(x, m, key)
        PROVE  Rows'
    <2>1. /\ idsOf[x] \subseteq WindowId /\ contentOf[x] \subseteq Version
          /\ browserOf[x] \in Browser /\ key \in Key
      BY ConstantTypes DEF Key
    <2>2. Rows
      BY DEF Inv
    <2>3. wins' = [w \in DOMAIN wins' |-> wins'[w]]
      BY <1>2, <2>2, WinsAfter
    <2>4. ASSUME NEW w \in DOMAIN wins'
          PROVE  w \in WindowId /\ wins'[w] \in [browser : Browser, key : Key]
      <3>1. CASE /\ w \in DOMAIN m.body /\ w \in idsOf[x]
                 /\ wins'[w] = [browser |-> IF w \in DOMAIN wins THEN wins[w].browser ELSE browserOf[x],
                                key |-> key]
        <4>1. (IF w \in DOMAIN wins THEN wins[w].browser ELSE browserOf[x]) \in Browser
          BY <2>1, <2>2 DEF Rows
        <4> QED
          BY <3>1, <4>1, <2>1
      <3>2. CASE w \in DOMAIN wins /\ wins'[w] = wins[w]
        BY <3>2, <2>2 DEF Rows
      <3> QED
        BY <1>2, <2>2, <3>1, <3>2, WinsAfter
    <2>5. ASSUME NEW k \in DOMAIN tabs'
          PROVE  \/ FromMessage(x, m, k)
                 \/ k \in DOMAIN tabs /\ k \notin DOMAIN m.body /\ tabs'[k] = tabs[k]
      BY <1>2, <2>2, TabAfter, Zenon
    <2>6. ASSUME NEW k \in DOMAIN tabs' PROVE k \in TabKey /\ tabs'[k] \in Version
      <3>1. CASE FromMessage(x, m, k)
        BY <3>1, <2>1 DEF TabKey, FromMessage
      <3>2. CASE k \in DOMAIN tabs /\ tabs'[k] = tabs[k]
        BY <3>2, <2>2 DEF Rows
      <3> QED
        BY <2>5, <3>1, <3>2
    <2> QED
      BY <2>3, <2>4, <2>6 DEF Rows
  <1> QED
    BY <1>1, <1>2, StoreSteps

LEMMA InvStep == Inv /\ [Next]_vars => Inv'
  <1>1. ASSUME Inv, UNCHANGED vars PROVE Inv'
    <2> USE <1>1 DEF Inv
    <2>1. Scalars' /\ Bounds'
      BY DEF vars, workerVars, boundVars, obsVars, Scalars, Bounds
    <2>2. BrowserInv'
      BY DEF vars, browserVars, BrowserInv
    <2>3. OutboxInv'
      BY DEF vars, workerVars, obsVars, OutboxInv, OutboxCell
    <2>4. EventInv'
      BY DEF vars, workerVars, EventInv, EventCell
    <2>5. PipeInv'
      BY DEF vars, workerVars, pipeVars, PipeInv, PipeCell
    <2>6. Rows'
      BY DEF vars, storeVars, Rows
    <2> QED
      BY <2>1, <2>2, <2>3, <2>4, <2>5, <2>6
  <1>2. ASSUME Inv, Next PROVE Inv'
    BY <1>2, ScalarStep, OutboxInvStep, BrowserAndEventStep, PipeStep, RowStep DEF Inv
  <1> QED
    BY <1>1, <1>2

LEMMA AlwaysInv == Spec => []Inv
  BY InitInv, InvStep, PTL DEF Spec

-----------------------------------------------------------------------------
(* Type correctness and crash recovery.                                    *)

LEMMA PipeIsTyped ==
    ASSUME NEW x \in Ext, NEW c \in Seq(OwnMsg(x)) PROVE IsPipe(c)
  <1>1. ASSUME NEW i \in 1 .. Len(c)
        PROVE  c[i].type \in {"hello", "tab_delta", "full_state"} /\ IsBody(c[i].body)
    <2>1. c[i] \in OwnMsg(x)
      BY ElementOfSeq
    <2>2. c[i].type \in {"hello", "tab_delta", "full_state"} /\ c[i].body \in OwnBody(x)
      BY <2>1 DEF OwnMsg
    <2> QED
      BY <2>2, BodyElim
  <1> QED
    BY <1>1 DEF IsPipe

LEMMA InvIsTyped == Inv => TypeOK
  <1> SUFFICES ASSUME Inv PROVE TypeOK
    OBVIOUS
  <1> USE DEF Inv
  <1>1. ASSUME NEW x \in Ext
        PROVE  /\ DOMAIN open[x] \subseteq TabKey /\ gone[x] \subseteq WindowId \cup TabId
               /\ \A k \in DOMAIN open[x] : open[x][k] \in Version
    BY OpenElim, ConstantTypes DEF BrowserInv
  <1>2. ASSUME NEW x \in Ext, NEW i \in 1 .. Len(events[x])
        PROVE  events[x][i].on \in Entry /\ events[x][i].says \in Delta \cup {"attached"}
    <2>1. events[x][i] \in OwnEvent(x)
      BY ElementOfSeq DEF EventInv, EventCell
    <2> QED
      BY <2>1, ConstantTypes DEF OwnEvent
  <1>3. ASSUME NEW x \in Ext
        PROVE  /\ IsBody(pending[x]) /\ IsBody(mirror[x]) /\ IsBody(unsent[x])
               /\ lookups[x] \subseteq TabId
    <2>1. mirror[x] \in OwnBody(x) /\ pending[x] \in OwnBody(x) /\ unsent[x] \in OwnBody(x)
      BY EmptyIsBody DEF OutboxInv, OutboxCell
    <2> QED
      BY <2>1, BodyElim DEF EventInv, EventCell
  <1>4. ASSUME NEW x \in Ext
        PROVE  Len(recon[x]) <= 1 /\ \A i \in 1 .. Len(recon[x]) : IsBody(recon[x][i])
    <2>1. CASE recon[x] = <<>>
      BY <2>1
    <2>2. CASE recon[x] # <<>>
      <3>1. PICK b \in OwnBody(x) : recon[x] = <<b>>
        BY <2>2 DEF PipeInv, PipeCell
      <3>2. IsBody(b)
        BY BodyElim
      <3> QED
        BY <3>1, <3>2
    <2> QED
      BY <2>1, <2>2
  <1>5. ASSUME NEW x \in Ext PROVE IsPipe(chan[x]) /\ IsPipe(old[x])
    BY PipeIsTyped DEF PipeInv, PipeCell
  <1>6. ckey \in [Ext -> Key \cup {NoKey}] /\ okey \in [Ext -> Key \cup {NoKey}]
    BY DEF PipeInv
  <1>7. wins \in UNION {[W -> [browser : Browser, key : Key]] : W \in SUBSET WindowId}
    <2>1. wins \in [DOMAIN wins -> [browser : Browser, key : Key]] /\ DOMAIN wins \in SUBSET WindowId
      BY DEF Rows
    <2> QED
      BY <2>1
  <1> QED
    BY <1>1, <1>2, <1>3, <1>4, <1>5, <1>6, <1>7 DEF TypeOK, Scalars, Bounds, Rows

\* Everything that is stored, in flight or pending is well formed: a delta
\* names a tab or a window, a message carries a body, and a row has a browser
\* and a profile.
THEOREM TypeCorrect == Spec => []TypeOK
  BY AlwaysInv, InvIsTyped, PTL

\* Whatever a listener has heard and the port has not taken is in
\* storage.session, in every state in which the worker can be evicted.
THEOREM NothingHeardIsLost == Spec => []UnsentSurvives
  <1>1. Inv => UnsentSurvives
    BY DEF Inv, OutboxInv, OutboxCell, UnsentSurvives
  <1> QED
    BY <1>1, AlwaysInv, PTL

-----------------------------------------------------------------------------
(* Provenance and isolation.                                               *)

\* A stored window is known by its own profile's key or the relay's, and the
\* tabs stored in it show what that profile may show.
OwnRows ==
    /\ \A w \in DOMAIN wins : \E x \in Ext :
          w \in idsOf[x] /\ wins[w].browser = browserOf[x] /\ wins[w].key \in {x, RelayKey}
    /\ \A k \in DOMAIN tabs : \E x \in Ext : k[1] \in idsOf[x] /\ tabs[k] \in contentOf[x]

LEMMA OneOwner ==
    ASSUME NEW x \in Ext, NEW y \in Ext, NEW w \in idsOf[x], w \in idsOf[y] PROVE x = y
  BY IdsAssumption

LEMMA OwnRowsStep == ASSUME Inv, OwnRows, [Next]_vars PROVE OwnRows'
  <1>1. CASE UNCHANGED storeVars
    BY <1>1 DEF OwnRows, storeVars
  <1>2. ASSUME NEW x \in Ext, NEW m \in OwnMsg(x), NEW key \in {x, RelayKey},
               Apply(x, key, m), Told(x, m, key)
        PROVE  OwnRows'
    <2>1. Rows
      BY DEF Inv
    <2>2. \A w \in DOMAIN wins' :
              \/ /\ w \in DOMAIN m.body /\ w \in idsOf[x]
                 /\ wins'[w] = [browser |-> IF w \in DOMAIN wins THEN wins[w].browser ELSE browserOf[x],
                                key |-> key]
              \/ w \in DOMAIN wins /\ w \notin DOMAIN m.body /\ wins'[w] = wins[w]
      BY <1>2, <2>1, WinsAfter
    <2>3. ASSUME NEW w \in DOMAIN wins'
          PROVE  \E y \in Ext : w \in idsOf[y] /\ wins'[w].browser = browserOf[y] /\ wins'[w].key \in {y, RelayKey}
      <3>1. CASE /\ w \in idsOf[x]
                 /\ wins'[w] = [browser |-> IF w \in DOMAIN wins THEN wins[w].browser ELSE browserOf[x],
                                key |-> key]
        <4>1. w \in DOMAIN wins => wins[w].browser = browserOf[x]
          BY <3>1, OneOwner DEF OwnRows
        <4>2. wins'[w].browser = browserOf[x] /\ wins'[w].key = key
          BY <3>1, <4>1
        <4> QED
          BY <3>1, <4>2
      <3>2. CASE w \in DOMAIN wins /\ wins'[w] = wins[w]
        BY <3>2 DEF OwnRows
      <3> QED
        BY <2>2, <3>1, <3>2
    <2>4. ASSUME NEW k \in DOMAIN tabs'
          PROVE  \/ FromMessage(x, m, k)
                 \/ k \in DOMAIN tabs /\ k \notin DOMAIN m.body /\ tabs'[k] = tabs[k]
      BY <1>2, <2>1, TabAfter, Zenon
    <2>5. ASSUME NEW k \in DOMAIN tabs'
          PROVE  \E y \in Ext : k[1] \in idsOf[y] /\ tabs'[k] \in contentOf[y]
      <3>1. CASE FromMessage(x, m, k)
        BY <3>1, TabIsOwn DEF FromMessage
      <3>2. CASE k \in DOMAIN tabs /\ tabs'[k] = tabs[k]
        BY <3>2 DEF OwnRows
      <3> QED
        BY <2>4, <3>1, <3>2
    <2> QED
      BY <2>3, <2>5 DEF OwnRows
  <1> QED
    BY <1>1, <1>2, StoreSteps

LEMMA AlwaysOwnRows == Spec => []OwnRows
  <1>1. Init => OwnRows
    BY DEF Init, OwnRows, Empty
  <1>2. Inv /\ OwnRows /\ [Next]_vars => OwnRows'
    BY OwnRowsStep
  <1> QED
    BY <1>1, <1>2, AlwaysInv, PTL DEF Spec

\* The tabs of View(x) are the stored tabs of x's windows.
Mine(x, k) == k[1] \in DOMAIN wins /\ wins[k[1]] = [browser |-> browserOf[x], key |-> x]

LEMMA ViewIs ==
    ASSUME NEW x
    PROVE  /\ View(x) = [k \in DOMAIN View(x) |-> tabs[k]]
           /\ \A k : k \in DOMAIN View(x) <=> k \in DOMAIN tabs /\ Mine(x, k)
  BY DEF View, Mine

LEMMA MineIsOwn ==
    ASSUME OwnRows, NEW x \in Ext, NEW k, Mine(x, k) PROVE k[1] \in idsOf[x]
  BY CaptureAssumption DEF OwnRows, Mine, Key

\* What is stored for a profile is content of that profile, whatever was
\* replayed from a mirror, drained from a dead worker's pipe or sent before the
\* hello.
THEOREM StoredTabsAreOwn == Spec => []OwnTabsOnly
  <1>1. OwnRows => OwnTabsOnly
    <2> SUFFICES ASSUME OwnRows, NEW x \in Ext, NEW k \in DOMAIN View(x)
                 PROVE  View(x)[k] \in contentOf[x]
      BY DEF OwnTabsOnly
    <2>1. k \in DOMAIN tabs /\ Mine(x, k) /\ View(x)[k] = tabs[k]
      BY ViewIs
    <2>2. k[1] \in idsOf[x]
      BY <2>1, MineIsOwn
    <2> QED
      BY <2>1, <2>2, OneOwner DEF OwnRows
  <1> QED
    BY <1>1, AlwaysOwnRows, PTL

\* A message of one profile leaves what is stored for another one alone.
LEMMA OthersStay ==
    ASSUME Inv, OwnRows, OwnRows', NEW x \in Ext, NEW y \in Ext, x # y,
           NEW m \in OwnMsg(y), NEW key \in {y, RelayKey}, Apply(y, key, m), Told(y, m, key)
    PROVE  View(x)' = View(x)
  <1>1. Rows /\ m.body \in OwnBody(y) /\ key # x
    BY CaptureAssumption DEF Inv, OwnMsg, Key
  <1>2. ASSUME NEW w \in idsOf[x] PROVE w \notin DOMAIN m.body /\ w \notin idsOf[y]
    <2>1. w \in WindowId /\ w \notin idsOf[y]
      BY OneOwner, ConstantTypes
    <2> QED
      BY <1>1, <2>1, OwnBodyEntries
  <1>3. ASSUME NEW k \in TabKey, k[1] \in idsOf[x] PROVE k \notin DOMAIN m.body
    <2>1. ASSUME k \in DOMAIN m.body PROVE FALSE
      <3>1. k \in idsOf[y] \X TabId
        BY <1>1, <1>3, <2>1, OwnBodyEntries
      <3> QED
        BY <1>2, <1>3, <3>1, TabIsOwn
    <2> QED
      BY <2>1
  <1>4. /\ \A w \in DOMAIN wins' :
              w \in idsOf[y] \/ (w \in DOMAIN wins /\ wins'[w] = wins[w])
        /\ \A w \in DOMAIN wins \ DOMAIN wins' :
              w \in DOMAIN m.body \/ wins[w] = [browser |-> browserOf[y], key |-> key]
    BY <1>1, WinsAfter
  <1>5. /\ \A k \in DOMAIN tabs' :
              FromMessage(y, m, k) \/ (k \in DOMAIN tabs /\ tabs'[k] = tabs[k])
        /\ \A k \in DOMAIN tabs \ DOMAIN tabs' :
              \/ k \in DOMAIN m.body \/ k[1] \in DOMAIN m.body
              \/ k[1] \in DOMAIN wins /\ wins[k[1]] = [browser |-> browserOf[y], key |-> key]
    BY <1>1, TabsAfter DEF TabsTold
  <1>6. ASSUME NEW k \in DOMAIN tabs, Mine(x, k)
        PROVE  k \in DOMAIN tabs' /\ Mine(x, k)' /\ tabs'[k] = tabs[k]
    <2>1. k[1] \in idsOf[x] /\ k \in TabKey
      BY <1>1, <1>6, MineIsOwn DEF Rows
    <2>2. k \notin DOMAIN m.body /\ k[1] \notin DOMAIN m.body /\ k[1] \notin idsOf[y]
      BY <2>1, <1>2, <1>3
    <2>3. k[1] \in DOMAIN wins /\ wins[k[1]] # [browser |-> browserOf[y], key |-> key]
      BY <1>1, <1>6 DEF Mine
    <2>4. Mine(x, k)'
      BY <1>4, <1>6, <2>2, <2>3 DEF Mine
    <2> QED
      BY <1>5, <2>2, <2>3, <2>4 DEF FromMessage
  <1>7. ASSUME NEW k \in DOMAIN tabs', Mine(x, k)'
        PROVE  k \in DOMAIN tabs /\ Mine(x, k) /\ tabs'[k] = tabs[k]
    <2>1. k[1] \in DOMAIN wins' /\ wins'[k[1]] = [browser |-> browserOf[x], key |-> x]
      BY <1>7 DEF Mine
    <2>2. k[1] \in idsOf[x]
      BY <2>1, CaptureAssumption DEF OwnRows, Key
    <2>3. k[1] \notin idsOf[y]
      BY <1>2, <2>2
    <2>4. Mine(x, k)
      BY <1>4, <2>1, <2>3 DEF Mine
    <2>5. ~FromMessage(y, m, k)
      BY <2>3, TabIsOwn DEF FromMessage
    <2> QED
      BY <1>5, <2>4, <2>5
  <1>8. /\ View(x) = [k \in DOMAIN View(x) |-> tabs[k]]
        /\ \A k : k \in DOMAIN View(x) <=> k \in DOMAIN tabs /\ Mine(x, k)
    BY ViewIs
  <1>9. /\ View(x)' = [k \in DOMAIN View(x)' |-> tabs'[k]]
        /\ \A k : k \in DOMAIN View(x)' <=> k \in DOMAIN tabs' /\ Mine(x, k)'
    BY DEF View, Mine
  <1>10. DOMAIN View(x)' = DOMAIN View(x)
    BY <1>6, <1>7, <1>8, <1>9
  <1>11. \A k \in DOMAIN View(x) : tabs'[k] = tabs[k]
    BY <1>6, <1>8
  <1> QED
    BY <1>8, <1>9, <1>10, <1>11

\* What is stored for a profile changes only while a message of that profile is
\* applied: no reconcile of another profile reaps its rows.
THEOREM ProfilesAreIsolated == Spec => Isolation
  <1>1. Inv /\ OwnRows /\ OwnRows' /\ [Next]_vars =>
            [\A x \in Ext : View(x)' # View(x) => chan'[x] # chan[x] \/ old'[x] # old[x]]_vars
    <2> SUFFICES ASSUME Inv, OwnRows, OwnRows', [Next]_vars, NEW x \in Ext,
                        View(x)' # View(x)
                 PROVE  chan'[x] # chan[x] \/ old'[x] # old[x]
      OBVIOUS
    <2>1. ~UNCHANGED storeVars
      BY DEF View, storeVars
    <2>2. PICK y \in Ext : \E m \in OwnMsg(y) : \E key \in {y, RelayKey} :
              Apply(y, key, m) /\ Told(y, m, key) /\ (chan'[y] # chan[y] \/ old'[y] # old[y])
      BY <2>1, StoreSteps
    <2>3. y = x
      BY <2>2, OthersStay
    <2> QED
      BY <2>2, <2>3
  <1> QED
    BY <1>1, AlwaysInv, AlwaysOwnRows, PTL DEF Spec, Isolation

-----------------------------------------------------------------------------
(* One reconcile repairs everything.                                       *)

LEMMA TailIsShorter ==
    ASSUME NEW S, NEW c \in Seq(S), c # <<>>
    PROVE  Tail(c) # c /\ \A m \in S : Append(c, m) # Tail(c)
  <1>1. PICK n \in Nat : Len(c) = n /\ n > 0
    BY LenProperties, EmptySeq
  <1>2. Len(Tail(c)) = n - 1
    BY <1>1, HeadTailProperties
  <1>3. n - 1 # n /\ n + 1 # n - 1
    BY <1>1
  <1>4. ASSUME NEW m \in S PROVE Append(c, m) # Tail(c)
    <2>1. Len(Append(c, m)) = n + 1
      BY <1>1, AppendProperties
    <2> QED
      BY <1>2, <1>3, <2>1, Zenon
  <1>5. Tail(c) # c
    BY <1>1, <1>2, <1>3, Zenon
  <1> QED
    BY <1>4, <1>5

\* The head of a pipe goes, with no bound touched, only when the agent reads it.
LEMMA HealsDelivers ==
    ASSUME Inv, Next, NEW x \in Ext, Heals(x) PROVE Deliver(x)
  <1>1. /\ chan[x] # <<>> /\ chan[x] \in Seq(OwnMsg(x)) /\ chan'[x] = Tail(chan[x])
        /\ boundVars' = boundVars
    BY DEF Heals, Inv, PipeInv, PipeCell
  <1>2. chan'[x] # chan[x] /\ \A m \in OwnMsg(x) : chan'[x] # Append(chan[x], m)
    BY <1>1, TailIsShorter
  <1>3. changes' = changes /\ sleeps' = sleeps /\ drops' = drops
    BY <1>1 DEF boundVars
  <1>4. changes + 1 # changes /\ sleeps + 1 # sleeps /\ drops + 1 # drops
    BY CaptureAssumption DEF Inv, Bounds
  <1>5. PICK y \in Ext :
            \/ OwnChange(y) \/ Hear(y) \/ Lookup(y) \/ FlushTimer(y)
            \/ Evict(y) \/ Quit(y) \/ OtherStep(y)
    BY Actions
  <1>6. ASSUME chan' = chan PROVE FALSE
    BY <1>2, <1>6
  <1>7. ASSUME NEW m \in OwnMsg(y), chan' = [chan EXCEPT ![y] = Append(@, m)] PROVE FALSE
    BY <1>2, <1>7 DEF Inv, PipeInv
  <1>8. ~OutboxStep(y)
    BY <1>6, <1>7 DEF OutboxStep
  <1>9. ~OwnChange(y)
    BY <1>3, <1>4, ChangeSteps DEF Inv
  <1>10. ~Hear(y) /\ ~FlushTimer(y)
    BY <1>8, HearSteps, FlushTimerSteps DEF Inv
  <1>11. ~Lookup(y)
    BY <1>6, <1>8, LookupSteps DEF Inv, outboxVars
  <1>12. ~Evict(y) /\ ~Quit(y)
    BY <1>3, <1>4, StopSteps DEF Inv, StopWorker
  <1>13. ~Wake(y) /\ ~Boot(y) /\ ~FlushDone(y) /\ ~ReconcileRead(y) /\ ~Reconnect(y)
    BY <1>6 DEF Wake, Boot, FlushDone, ReconcileRead, Reconnect, pipeVars
  <1>14. ~SayHello(y)
    <2>1. SayHello(y) => chan' = chan \/ chan' = [chan EXCEPT ![y] = Append(@, Hello)]
      BY DEF SayHello, Post
    <2> QED
      BY <1>6, <1>7, <2>1, HelloIsMsg
  <1>15. ~ReconcileSend(y)
    <2> SUFFICES ASSUME ReconcileSend(y) PROVE FALSE
      OBVIOUS
    <2>1. PICK b \in OwnBody(y) : recon[y] = <<b>>
      BY DEF ReconcileSend, Inv, PipeInv, PipeCell
    <2>2. chan' = chan \/ chan' = [chan EXCEPT ![y] = Append(@, FullState(b, ~overtaken[y]))]
      BY <2>1 DEF ReconcileSend, Post
    <2>3. FullState(b, ~overtaken[y]) \in OwnMsg(y)
      BY DeltaIsMsg
    <2> QED
      BY <1>6, <1>7, <2>2, <2>3
  <1>16. ~Disconnect(y)
    BY <1>3, <1>4 DEF Disconnect
  <1>17. ~DeliverOld(y)
    BY <1>6 DEF DeliverOld
  <1>18. Deliver(y) => y = x
    BY <1>2 DEF Deliver
  <1> QED
    BY <1>5, <1>9, <1>10, <1>11, <1>12, <1>13, <1>14, <1>15, <1>16, <1>17, <1>18 DEF OtherStep

\* A full_state leaves no tab in the windows it owns that it does not name.
LEMMA FullStateReaps ==
    ASSUME NEW x, NEW key, NEW m, m.type = "full_state", Apply(x, key, m)
    PROVE  \A k \in DOMAIN tabs' :
              k[1] \in DOMAIN wins' /\ wins'[k[1]] = [browser |-> browserOf[x], key |-> key]
                  => k \in DOMAIN m.body
  <1> DEFINE W == WindowRows(x, key, m.body)
             T == TabRows(m.body)
             owned == {w \in DOMAIN W : W[w] = [browser |-> browserOf[x], key |-> key]}
             dead == {k \in DOMAIN T : k[1] \in owned /\ k \notin DOMAIN m.body}
  <1>1. tabs' = Without(T, dead) /\ wins' = Without(W, owned \ DOMAIN m.body)
    BY DEF Apply, Reaped
  <1> HIDE DEF W, T
  <1>2. DOMAIN tabs' = DOMAIN T \ dead
    BY <1>1 DEF Without
  <1>3. \A w \in DOMAIN wins' : w \in DOMAIN W /\ wins'[w] = W[w]
    BY <1>1 DEF Without
  <1> QED
    BY <1>2, <1>3

\* What a message upserts is there after it, also if it reaps.
LEMMA NamedStay ==
    ASSUME NEW x, NEW key, NEW m, Apply(x, key, m)
    PROVE  /\ \A w \in DOMAIN m.body \cap WindowId : m.body[w] # Removed => w \in DOMAIN wins'
           /\ \A k \in DOMAIN m.body \cap TabKey : m.body[k] # Removed => k \in DOMAIN tabs'
  <1>1. \A w \in DOMAIN m.body \cap WindowId :
            m.body[w] # Removed => w \in DOMAIN WindowRows(x, key, m.body)
    BY DEF WindowRows
  <1>2. \A k \in DOMAIN m.body \cap TabKey : m.body[k] # Removed => k \in DOMAIN TabRows(m.body)
    <2> DEFINE b == m.body
    <2>1. DOMAIN TabRows(b) = (DOMAIN tabs \cup (DOMAIN b \cap TabKey))
                                 \ {k \in DOMAIN b \cap TabKey : b[k] = Removed}
      BY TabRowsAre
    <2> QED BY <2>1
  <1>3. \A w \in DOMAIN WindowRows(x, key, m.body) \ DOMAIN wins' : w \notin DOMAIN m.body
    BY ApplyLeaves
  <1>4. \A k \in DOMAIN TabRows(m.body) \ DOMAIN tabs' : k \notin DOMAIN m.body
    BY ApplyLeaves
  <1> QED
    BY <1>1, <1>2, <1>3, <1>4

LEMMA HealStep ==
    ASSUME Inv, OwnRows, Next, NEW x \in Ext, Heals(x)
    PROVE  View(x)' = open[x]
  <1> DEFINE o == open[x]
             m == Head(chan[x])
             b == m.body
             ours == [browser |-> browserOf[x], key |-> x]
  <1>1. /\ m.type = "full_state" /\ b = Body(o) /\ Apply(x, x, m) /\ Told(x, m, x)
    <2>1. Deliver(x) /\ ckey[x] = x /\ m.type = "full_state" /\ b = Body(o)
      BY HealsDelivers DEF Heals
    <2>2. Receive(x, x, m) /\ m.type # "hello" /\ KeyAfter(x, x, m) = x
      BY <2>1, KeyStays DEF Deliver
    <2>3. m \in OwnMsg(x)
      BY <2>1, HeadTailProperties DEF Deliver, Inv, PipeInv, PipeCell
    <2> QED
      BY <2>1, <2>2, <2>3 DEF Receive, Told
  <1>2. /\ o \in OwnOpen(x)
        /\ DOMAIN b = DOMAIN o \cup Windows(o)
        /\ \A k \in DOMAIN o : b[k] = o[k]
        /\ \A w \in Windows(o) : b[w] = Shown
    <2>1. o \in OwnOpen(x)
      BY DEF Inv, BrowserInv
    <2>2. b = Body(o)
      BY <1>1
    <2> HIDE DEF o, b
    <2> QED
      BY <2>1, <2>2, OpenIsBody
  <1>3. /\ o = [k \in DOMAIN o |-> o[k]] /\ DOMAIN o \subseteq TabKey
        /\ Windows(o) \subseteq idsOf[x] /\ Windows(o) \subseteq WindowId
        /\ \A k \in DOMAIN o : k[1] \in Windows(o) /\ o[k] # Removed
    <2>1. \A k \in DOMAIN o : k[1] \in Windows(o)
      BY DEF Windows
    <2> QED
      BY <1>2, <2>1, OpenElim, ConstantTypes, CaptureAssumption
  <1>4. Shown # Removed /\ \A w \in WindowId : w \notin TabKey
    BY CaptureAssumption
  <1>5. Rows /\ DOMAIN tabs' \subseteq TabKey
    BY RowStep DEF Inv, Rows
  <1> HIDE DEF m, o
  <1>6. /\ \A w \in DOMAIN b \cap WindowId : b[w] # Removed => w \in DOMAIN wins'
        /\ \A k \in DOMAIN b \cap TabKey : b[k] # Removed => k \in DOMAIN tabs'
    BY <1>1, NamedStay
  <1>7. ASSUME NEW w \in Windows(o) PROVE w \in DOMAIN wins' /\ wins'[w] = ours
    <2>1. w \in DOMAIN b /\ w \in DOMAIN wins'
      BY <1>2, <1>3, <1>4, <1>6
    <2>2. wins'[w] = [browser |-> IF w \in DOMAIN wins THEN wins[w].browser ELSE browserOf[x], key |-> x]
      BY <1>1, <1>5, <2>1, WinsAfter
    <2>3. w \in DOMAIN wins => wins[w].browser = browserOf[x]
      BY <1>3, OneOwner DEF OwnRows
    <2> QED
      BY <2>1, <2>2, <2>3
  <1>8. ASSUME NEW k \in DOMAIN o PROVE k \in DOMAIN tabs' /\ tabs'[k] = o[k]
    <2>1. k \in DOMAIN b /\ b[k] = o[k] /\ k \in DOMAIN tabs'
      BY <1>2, <1>3, <1>6
    <2>2. FromMessage(x, m, k)
      BY <1>1, <1>5, <2>1, TabAfter
    <2> QED
      BY <2>1, <2>2 DEF FromMessage
  <1>9. ASSUME NEW k \in DOMAIN tabs', k[1] \in DOMAIN wins', wins'[k[1]] = ours
        PROVE  k \in DOMAIN o
    <2>1. k \in DOMAIN b
      BY <1>1, <1>9, FullStateReaps
    <2>2. k \notin Windows(o)
      BY <1>3, <1>4, <1>5
    <2> QED
      BY <1>2, <2>1, <2>2
  <1>10. /\ View(x)' = [k \in DOMAIN View(x)' |-> tabs'[k]]
         /\ \A k : k \in DOMAIN View(x)' <=> /\ k \in DOMAIN tabs' /\ k[1] \in DOMAIN wins'
                                              /\ wins'[k[1]] = ours
    BY DEF View
  <1> HIDE DEF ours
  <1>11. DOMAIN View(x)' = DOMAIN o
    BY <1>3, <1>7, <1>8, <1>9, <1>10
  <1>12. View(x)' = [k \in DOMAIN o |-> o[k]]
    BY <1>8, <1>10, <1>11
  <1> QED
    BY <1>3, <1>12 DEF o

\* Whatever was lost, duplicated or applied out of order before: when a
\* full_state of what is open is applied on a connection that has said hello,
\* the stored session is exactly what is open.
THEOREM OneReconcileHeals == Spec => ReconcileHeals
  <1>1. Inv /\ OwnRows /\ [Next]_vars => [\A x \in Ext : Heals(x) => View(x)' = open[x]]_vars
    BY HealStep
  <1> QED
    BY <1>1, AlwaysInv, AlwaysOwnRows, PTL DEF Spec, ReconcileHeals
-----------------------------------------------------------------------------
(* Between reconciles the deltas keep the store right.  What profile x did *)
(* is told by a line of messages: its rows, the pipe, a full state that    *)
(* was read and not sent, the outbox, the events.  The invariant is about  *)
(* the last word on each window and tab along this line.                   *)

Own(x) == [browser |-> browserOf[x], key |-> x]

\* What a delta on e would say now.
Is(x, e) ==
    IF e \in DOMAIN open[x] THEN open[x][e] ELSE IF e \in Windows(open[x]) THEN Shown ELSE Removed

\* A tabs.get is out that will tell of tab e.
Awaited(x, e) == e \in DOMAIN open[x] /\ e[2] \in lookups[x]

Good(x, e, d) == d = Is(x, e) \/ Awaited(x, e)

Fired(x, e) == \E i \in 1 .. Len(events[x]) : events[x][i].on = e
Heard(x, e) == e \in DOMAIN pending[x] \/ Fired(x, e)

\* A full_state counts when no delta was posted since it was read.
Fresh(m) == m.type = "full_state" /\ m.fresh
Speaks(m, e) == (m.type = "tab_delta" /\ e \in DOMAIN m.body) \/ Fresh(m)
Word(b, e) == IF e \in DOMAIN b THEN b[e] ELSE Removed

Silent(c, e) == \A j \in 1 .. Len(c) : ~Speaks(c[j], e)

\* The last word of pipe c on e is d.
LastWord(c, e, d) ==
    \E i \in 1 .. Len(c) :
        /\ Speaks(c[i], e) /\ d = Word(c[i].body, e)
        /\ \A j \in 1 .. Len(c) : j > i => ~Speaks(c[j], e)

\* The row of e is as e is.  A tab that is not open may be left in a window that is gone.
Stored(x, e) ==
    /\ e \in WindowId => (e \in Windows(open[x]) <=> e \in DOMAIN wins /\ wins[e] = Own(x))
    /\ e \in TabKey => IF e \in DOMAIN open[x] THEN e \in DOMAIN tabs /\ tabs[e] = open[x][e]
                       ELSE e \in DOMAIN tabs => e[1] \notin Windows(open[x])

WindowOf(e) == IF e \in WindowId THEN e ELSE e[1]
Mentions(b) == {WindowOf(e) : e \in DOMAIN b}
StoreMentions(x) == {w \in idsOf[x] : w \in DOMAIN wins \/ \E k \in DOMAIN tabs : k[1] = w}
Past(x) == Windows(open[x]) \cup gone[x]
Running(x) == recon[x] # <<>> /\ ~overtaken[x]
Upserts(b) == \A e \in DOMAIN b : b[e] # Removed

\* Before the listeners are attached nothing was heard, read or posted that counts.
Unattached(x) ==
    /\ old[x] = <<>>
    /\ stage[x] # "up" => /\ ~trusted[x] /\ mirror[x] = Empty /\ ~Running(x)
                          /\ \A e \in Entry : Silent(chan[x], e)

\* No window that closed opens again, and no tab is in two windows.
Ids(x) ==
    /\ Windows(open[x]) \cap gone[x] = {}
    /\ \A j, k \in DOMAIN open[x] : j[2] = k[2] => j = k

EventsGood(x) ==
    \A i \in 1 .. Len(events[x]) :
        IF events[x][i].says = "attached" THEN events[x][i].on \in DOMAIN open[x]
        ELSE events[x][i].says = Is(x, events[x][i].on)

OutboxGood(x) == \A e \in DOMAIN pending[x] : Fired(x, e) \/ Good(x, e, pending[x][e])

ReadGood(x) == Running(x) => \A e \in Entry : Heard(x, e) \/ Good(x, e, Word(recon[x][1], e))

PipeGood(x) == \A e \in Entry, d \in Delta : LastWord(chan[x], e, d) => Heard(x, e) \/ Good(x, e, d)

StoreGood(x) ==
    trusted[x] =>
        /\ ckey[x] = x
        /\ \A w \in Windows(open[x]) \cap DOMAIN wins : wins[w] = Own(x)
        /\ \A e \in OwnEntry(x) : Silent(chan[x], e) => Heard(x, e) \/ Awaited(x, e) \/ Stored(x, e)

\* Nothing speaks of a window that has not been open, so a new one is new to all.
Mentioned(x) ==
    /\ StoreMentions(x) \subseteq Past(x)
    /\ \A i \in 1 .. Len(chan[x]) : Mentions(chan[x][i].body) \subseteq Past(x)
    /\ Mentions(pending[x]) \subseteq Past(x)
    /\ \A i \in 1 .. Len(events[x]) : WindowOf(events[x][i].on) \in Past(x)
    /\ recon[x] # <<>> => Mentions(recon[x][1]) \subseteq Past(x) /\ Upserts(recon[x][1])

\* When full state b is applied, every window that the rows speak of is in it or is gone.
Names(x, b, w) == w \in DOMAIN b \cup gone[x]

Named(x) ==
    /\ Running(x) =>
          /\ \A w \in StoreMentions(x) : Names(x, recon[x][1], w)
          /\ \A i \in 1 .. Len(chan[x]) : \A w \in Mentions(chan[x][i].body) : Names(x, recon[x][1], w)
    /\ \A j \in 1 .. Len(chan[x]) : Fresh(chan[x][j]) =>
          /\ Upserts(chan[x][j].body)
          /\ \A w \in StoreMentions(x) : Names(x, chan[x][j].body, w)
          /\ \A i \in 1 .. Len(chan[x]) : i < j =>
                \A w \in Mentions(chan[x][i].body) : Names(x, chan[x][j].body, w)

Line(x) == EventsGood(x) /\ OutboxGood(x) /\ ReadGood(x) /\ PipeGood(x) /\ StoreGood(x)
Cell(x) == Unattached(x) /\ Ids(x) /\ Line(x) /\ Mentioned(x) /\ Named(x)
Following == sleeps = 0 => \A x \in Ext : Cell(x)

-----------------------------------------------------------------------------
(* The last word of a pipe.                                                *)

LEMMA AppendIs ==
    ASSUME NEW S, NEW c \in Seq(S), NEW m \in S
    PROVE  /\ Len(c) \in Nat /\ Len(Append(c, m)) = Len(c) + 1
           /\ \A i \in 1 .. Len(c) : Append(c, m)[i] = c[i]
           /\ Append(c, m)[Len(c) + 1] = m
  BY AppendProperties, LenProperties

LEMMA TailIs ==
    ASSUME NEW S, NEW c \in Seq(S), c # <<>>
    PROVE  /\ Len(c) \in Nat /\ Len(c) >= 1 /\ Len(Tail(c)) = Len(c) - 1
           /\ \A i \in 1 .. Len(Tail(c)) : Tail(c)[i] = c[i + 1]
           /\ Head(c) = c[1]
  <1>1. Len(c) \in Nat /\ Len(c) # 0
    BY LenProperties, EmptySeq
  <1> QED BY <1>1, HeadTailProperties

LEMMA SilentAppend ==
    ASSUME NEW S, NEW c \in Seq(S), NEW m \in S, NEW e
    PROVE  Silent(Append(c, m), e) <=> Silent(c, e) /\ ~Speaks(m, e)
  <1>1. /\ Len(c) \in Nat /\ Len(Append(c, m)) = Len(c) + 1
        /\ \A i \in 1 .. Len(c) : Append(c, m)[i] = c[i]
        /\ Append(c, m)[Len(c) + 1] = m
    BY AppendIs
  <1>2. ASSUME NEW j \in 1 .. Len(c) + 1 PROVE j \in 1 .. Len(c) \/ j = Len(c) + 1
    BY <1>1
  <1>3. 1 .. Len(c) \subseteq 1 .. Len(c) + 1 /\ Len(c) + 1 \in 1 .. Len(c) + 1
    BY <1>1
  <1> QED BY <1>1, <1>2, <1>3 DEF Silent

LEMMA SilentTail ==
    ASSUME NEW S, NEW c \in Seq(S), c # <<>>, NEW e
    PROVE  Silent(c, e) <=> ~Speaks(Head(c), e) /\ Silent(Tail(c), e)
  <1>1. /\ Len(c) \in Nat /\ Len(c) >= 1 /\ Len(Tail(c)) = Len(c) - 1
        /\ \A i \in 1 .. Len(Tail(c)) : Tail(c)[i] = c[i + 1]
        /\ Head(c) = c[1]
    BY TailIs
  <1>2. ASSUME NEW j \in 1 .. Len(c), j # 1 PROVE j - 1 \in 1 .. Len(Tail(c)) /\ Tail(c)[j - 1] = c[j]
    BY <1>1, <1>2
  <1>3. \A i \in 1 .. Len(Tail(c)) : i + 1 \in 1 .. Len(c)
    BY <1>1
  <1>4. 1 \in 1 .. Len(c)
    BY <1>1
  <1> QED BY <1>1, <1>2, <1>3, <1>4 DEF Silent

LEMMA LastOfAppend ==
    ASSUME NEW S, NEW c \in Seq(S), NEW m \in S, NEW e, NEW d, LastWord(Append(c, m), e, d)
    PROVE  (Speaks(m, e) /\ d = Word(m.body, e)) \/ (~Speaks(m, e) /\ LastWord(c, e, d))
  <1> DEFINE a == Append(c, m)
  <1>1. /\ Len(c) \in Nat /\ Len(a) = Len(c) + 1
        /\ \A i \in 1 .. Len(c) : a[i] = c[i]
        /\ a[Len(c) + 1] = m
    BY AppendIs
  <1>2. PICK i \in 1 .. Len(a) :
            /\ Speaks(a[i], e) /\ d = Word(a[i].body, e)
            /\ \A j \in 1 .. Len(a) : j > i => ~Speaks(a[j], e)
    BY DEF LastWord
  <1> HIDE DEF a
  <1>3. CASE i = Len(c) + 1
    BY <1>1, <1>2, <1>3
  <1>4. CASE i # Len(c) + 1
    <2>1. i \in 1 .. Len(c) /\ Len(c) + 1 > i /\ Len(c) + 1 \in 1 .. Len(a)
      BY <1>1, <1>4
    <2>2. ~Speaks(m, e)
      BY <1>1, <1>2, <2>1
    <2>3. \A j \in 1 .. Len(c) : j \in 1 .. Len(a)
      BY <1>1
    <2> QED BY <1>1, <1>2, <2>1, <2>2, <2>3 DEF LastWord
  <1> QED BY <1>3, <1>4

LEMMA LastOfTail ==
    ASSUME NEW S, NEW c \in Seq(S), c # <<>>, NEW e, NEW d, LastWord(Tail(c), e, d)
    PROVE  LastWord(c, e, d)
  <1>1. /\ Len(c) \in Nat /\ Len(c) >= 1 /\ Len(Tail(c)) = Len(c) - 1
        /\ \A i \in 1 .. Len(Tail(c)) : Tail(c)[i] = c[i + 1]
    BY TailIs
  <1> DEFINE t == Tail(c)
  <1>2. PICK i \in 1 .. Len(t) :
            /\ Speaks(t[i], e) /\ d = Word(t[i].body, e)
            /\ \A j \in 1 .. Len(t) : j > i => ~Speaks(t[j], e)
    BY DEF LastWord
  <1>3. i + 1 \in 1 .. Len(c) /\ t[i] = c[i + 1]
    BY <1>1
  <1>4. ASSUME NEW j \in 1 .. Len(c), j > i + 1 PROVE ~Speaks(c[j], e)
    <2>1. j - 1 \in 1 .. Len(t) /\ j - 1 > i /\ (j - 1) + 1 = j
      BY <1>1, <1>4
    <2>2. t[j - 1] = c[j]
      BY <1>1, <2>1
    <2> QED BY <1>2, <2>1, <2>2
  <1> HIDE DEF t
  <1> QED BY <1>2, <1>3, <1>4 DEF LastWord

LEMMA HeadIsLast ==
    ASSUME NEW S, NEW c \in Seq(S), c # <<>>, NEW e, Speaks(Head(c), e), Silent(Tail(c), e)
    PROVE  LastWord(c, e, Word(Head(c).body, e))
  <1>1. /\ Len(c) \in Nat /\ Len(c) >= 1 /\ Len(Tail(c)) = Len(c) - 1
        /\ \A i \in 1 .. Len(Tail(c)) : Tail(c)[i] = c[i + 1]
        /\ Head(c) = c[1]
    BY TailIs
  <1>2. ASSUME NEW j \in 1 .. Len(c), j > 1 PROVE ~Speaks(c[j], e)
    <2>1. j - 1 \in 1 .. Len(Tail(c)) /\ (j - 1) + 1 = j
      BY <1>1, <1>2
    <2> QED BY <1>1, <2>1 DEF Silent
  <1>3. 1 \in 1 .. Len(c)
    BY <1>1
  <1> QED BY <1>1, <1>2, <1>3 DEF LastWord

-----------------------------------------------------------------------------
(* Steps that leave the line of x alone.                                   *)

\* Everything of x but its timers, its port and its rows; the worker may get
\* on with its boot and drop what it has read.
SameFor(x) ==
    /\ open'[x] = open[x] /\ gone'[x] = gone[x] /\ (stage'[x] # "up" => stage[x] # "up")
    /\ events'[x] = events[x] /\ pending'[x] = pending[x] /\ lookups'[x] = lookups[x]
    /\ recon'[x] \in {recon[x], <<>>} /\ chan'[x] = chan[x] /\ ckey'[x] = ckey[x] /\ old'[x] = old[x]
    /\ mirror'[x] = mirror[x] /\ overtaken'[x] = overtaken[x] /\ trusted'[x] = trusted[x]

\* The rows of x's open windows stay, and others may only go.
RowsKeep(x) ==
    /\ StoreMentions(x)' \subseteq StoreMentions(x)
    /\ \A w \in Windows(open[x]) \cap DOMAIN wins' : w \in DOMAIN wins /\ wins'[w] = wins[w]
    /\ trusted[x] => \A e \in OwnEntry(x) : Stored(x, e) => Stored(x, e)'

LEMMA SameRowsKeep ==
    ASSUME NEW x, open'[x] = open[x], UNCHANGED storeVars PROVE RowsKeep(x)
  <1>1. wins' = wins /\ tabs' = tabs
    BY DEF storeVars
  <1>2. StoreMentions(x)' = StoreMentions(x)
    BY <1>1 DEF StoreMentions
  <1>3. ASSUME NEW e PROVE Stored(x, e)' <=> Stored(x, e)
    BY <1>1 DEF Stored
  <1> QED BY <1>1, <1>2, <1>3 DEF RowsKeep

LEMMA Framed ==
    ASSUME NEW x, Cell(x), SameFor(x), RowsKeep(x) PROVE Cell(x)'
  <1>1. Unattached(x)' /\ Ids(x)'
    BY DEF Cell, SameFor, Unattached, Ids, Running
  <1>2. /\ \A e : Is(x, e)' = Is(x, e) /\ (Awaited(x, e)' <=> Awaited(x, e)) /\ (Heard(x, e)' <=> Heard(x, e))
        /\ \A e : Fired(x, e)' <=> Fired(x, e)
        /\ Past(x)' = Past(x) /\ (Running(x)' => Running(x) /\ recon'[x] = recon[x])
    BY DEF SameFor, Is, Awaited, Heard, Fired, Past, Running
  <1>3. \A e, d : Good(x, e, d)' <=> Good(x, e, d)
    BY <1>2 DEF Good
  <1>4. EventsGood(x)'
    BY <1>2 DEF Cell, Line, SameFor, EventsGood
  <1>5. OutboxGood(x)'
    BY <1>2, <1>3 DEF Cell, Line, SameFor, OutboxGood
  <1>6. ReadGood(x)'
    BY <1>2, <1>3 DEF Cell, Line, SameFor, ReadGood
  <1>7. PipeGood(x)'
    BY <1>2, <1>3 DEF Cell, Line, SameFor, PipeGood
  <1>8. StoreGood(x)'
    <2>1. ASSUME trusted[x], NEW e \in OwnEntry(x), Silent(chan[x], e)
          PROVE  Heard(x, e)' \/ Awaited(x, e)' \/ Stored(x, e)'
      BY <1>2, <2>1 DEF Cell, Line, StoreGood, RowsKeep
    <2>2. ASSUME trusted[x], NEW w \in Windows(open[x]) \cap DOMAIN wins'
          PROVE  wins'[w] = Own(x)
      BY <2>2 DEF Cell, Line, StoreGood, RowsKeep
    <2>3. trusted[x] => ckey[x] = x
      BY DEF Cell, Line, StoreGood
    <2> QED BY <2>1, <2>2, <2>3 DEF SameFor, StoreGood
  <1>9. Mentioned(x)'
    <2>1. StoreMentions(x)' \subseteq Past(x)
      BY DEF Cell, Mentioned, RowsKeep
    <2> QED BY <1>2, <2>1 DEF Cell, Mentioned, SameFor
  <1>10. Named(x)'
    <2>1. \A b, w : Names(x, b, w)' <=> Names(x, b, w)
      BY DEF SameFor, Names
    <2>2. ASSUME Running(x)
          PROVE  /\ \A w \in StoreMentions(x)' : Names(x, recon[x][1], w)
                 /\ \A i \in 1 .. Len(chan[x]) : \A w \in Mentions(chan[x][i].body) : Names(x, recon[x][1], w)
      BY <2>2 DEF Cell, Named, RowsKeep
    <2>3. ASSUME NEW j \in 1 .. Len(chan[x]), Fresh(chan[x][j])
          PROVE  /\ Upserts(chan[x][j].body)
                 /\ \A w \in StoreMentions(x)' : Names(x, chan[x][j].body, w)
                 /\ \A i \in 1 .. Len(chan[x]) : i < j =>
                       \A w \in Mentions(chan[x][i].body) : Names(x, chan[x][j].body, w)
      BY <2>3 DEF Cell, Named, RowsKeep
    <2> QED BY <1>2, <2>1, <2>2, <2>3 DEF SameFor, Named
  <1> QED BY <1>1, <1>4, <1>5, <1>6, <1>7, <1>8, <1>9, <1>10 DEF Cell, Line

-----------------------------------------------------------------------------
(* What a listener, a lookup or the timer does to the line.                *)

\* The outbox is now p, or p was posted.
OutboxMoves(x, p) ==
    \/ pending'[x] = p /\ chan'[x] = chan[x] /\ overtaken'[x] = overtaken[x]
    \/ pending'[x] = Empty /\ chan'[x] = Append(chan[x], TabDelta(p)) /\ overtaken'[x]

LEMMA FlushMoves ==
    ASSUME Inv, NEW x \in Ext, NEW p, Flush(x, p)
    PROVE  OutboxMoves(x, p)
  <1>1. CASE CanSend(x)
    <2>1. /\ pending' = [pending EXCEPT ![x] = Empty] /\ overtaken' = [overtaken EXCEPT ![x] = TRUE]
          /\ chan' = [chan EXCEPT ![x] = Append(@, TabDelta(p))]
      BY <1>1 DEF Flush, Post
    <2>2. x \in DOMAIN pending /\ x \in DOMAIN overtaken /\ x \in DOMAIN chan
      BY DEF Inv, OutboxInv, PipeInv, Scalars
    <2>3. pending'[x] = Empty /\ overtaken'[x] /\ chan'[x] = Append(chan[x], TabDelta(p))
      BY <2>1, <2>2
    <2> QED BY <2>3 DEF OutboxMoves
  <1>2. CASE ~CanSend(x)
    BY <1>2 DEF Flush, OutboxMoves, Inv, OutboxInv, PipeInv, Scalars
  <1> QED BY <1>1, <1>2

\* p is the outbox of x with one delta more.
Touched(x, e, d, p) == p = Merge([i \in {e} |-> d], pending[x])

\* All that is used of it.
Reads(x, e, d, p) ==
    /\ DOMAIN p = {e} \cup DOMAIN pending[x] /\ p[e] = d
    /\ \A f \in DOMAIN pending[x] : f # e => p[f] = pending[x][f]

LEMMA TouchMoves ==
    ASSUME Inv, NEW x \in Ext, NEW e, NEW d, Touch(x, e, d), NEW p, Touched(x, e, d, p)
    PROVE  OutboxMoves(x, p)
  <1> DEFINE full == Cardinality(DOMAIN p) >= MaxPending
  <1>1. CASE full /\ flushing[x] = "no"
    <2>1. Flush(x, p)
      BY <1>1 DEF Touch, Touched
    <2> QED BY <2>1, FlushMoves
  <1>2. CASE ~(full /\ flushing[x] = "no")
    <2>1. pending' = [pending EXCEPT ![x] = p] /\ UNCHANGED <<chan, overtaken>>
      BY <1>2 DEF Touch, Touched
    <2> QED BY <2>1 DEF OutboxMoves, Inv, OutboxInv
  <1> QED BY <1>1, <1>2

LEMMA TouchedReads == ASSUME NEW x, NEW e, NEW d, NEW p, Touched(x, e, d, p) PROVE Reads(x, e, d, p)
  <1> DEFINE s == [i \in {e} |-> d]
  <1>1. DOMAIN s = {e} /\ s[e] = d
    OBVIOUS
  <1> HIDE DEF s
  <1>2. /\ DOMAIN Merge(s, pending[x]) = {e} \cup DOMAIN pending[x]
        /\ Merge(s, pending[x])[e] = d
        /\ \A f \in DOMAIN pending[x] : f # e => Merge(s, pending[x])[f] = pending[x][f]
    BY <1>1 DEF Merge
  <1> QED BY <1>2 DEF s, Touched, Reads

\* The rest of x's line while the outbox moves.
LineStays(x) ==
    /\ open'[x] = open[x] /\ gone'[x] = gone[x] /\ stage'[x] = stage[x] /\ stage[x] = "up"
    /\ recon'[x] = recon[x] /\ ckey'[x] = ckey[x] /\ old'[x] = old[x] /\ trusted'[x] = trusted[x]
    /\ UNCHANGED storeVars

\* p says what is so; whatever was heard is in p or still to be heard.
Says(x, p) ==
    /\ \A e \in DOMAIN p : Fired(x, e)' \/ Good(x, e, p[e])'
    /\ \A e : Heard(x, e) => e \in DOMAIN p \/ Fired(x, e)'
    /\ \A e : Awaited(x, e) => e \in DOMAIN p \/ Awaited(x, e)'
    /\ Mentions(p) \subseteq Past(x)
    /\ \A i \in 1 .. Len(events'[x]) : WindowOf(events'[x][i].on) \in Past(x)

LEMMA DeltaSpeaks ==
    ASSUME NEW p, NEW e
    PROVE  /\ Speaks(TabDelta(p), e) <=> e \in DOMAIN p
           /\ ~Fresh(TabDelta(p)) /\ TabDelta(p).body = p
           /\ e \in DOMAIN p => Word(p, e) = p[e]
  BY DEF Speaks, Fresh, TabDelta, Word

LEMMA MovesLine ==
    ASSUME Inv, NEW x \in Ext, Cell(x), NEW p \in OwnBody(x), OutboxMoves(x, p), LineStays(x),
           EventsGood(x)', Says(x, p)
    PROVE  Cell(x)'
  <1>1. chan[x] \in Seq(OwnMsg(x)) /\ TabDelta(p) \in OwnMsg(x)
    BY DeltaIsMsg DEF Inv, PipeInv, PipeCell
  <1>2. /\ \A e : Is(x, e)' = Is(x, e)
        /\ Past(x)' = Past(x) /\ StoreMentions(x)' = StoreMentions(x)
        /\ \A e : Stored(x, e)' <=> Stored(x, e)
        /\ \A b, w : Names(x, b, w)' <=> Names(x, b, w)
    <2>1. wins' = wins /\ tabs' = tabs /\ open'[x] = open[x] /\ gone'[x] = gone[x]
      BY DEF LineStays, storeVars
    <2>2. \A e : Is(x, e)' = Is(x, e) /\ (Stored(x, e)' <=> Stored(x, e))
      BY <2>1 DEF Is, Stored
    <2> QED BY <2>1, <2>2 DEF Past, StoreMentions, Names
  <1>3. ASSUME NEW e, e \notin DOMAIN p, ~Fired(x, e)'
        PROVE  /\ ~Heard(x, e) /\ (Awaited(x, e) => Awaited(x, e)')
               /\ \A d : Good(x, e, d) => Good(x, e, d)'
    BY <1>2, <1>3 DEF Says, Good
  <1>4. Unattached(x)' /\ Ids(x)'
    BY DEF Cell, LineStays, Unattached, Ids
  <1>5. CASE pending'[x] = p /\ chan'[x] = chan[x] /\ overtaken'[x] = overtaken[x]
    <2>1. \A e : ~Heard(x, e)' => e \notin DOMAIN p /\ ~Fired(x, e)'
      BY <1>5 DEF Heard
    <2>2. OutboxGood(x)'
      BY <1>5 DEF OutboxGood, Says
    <2>3. Running(x)' <=> Running(x)
      BY <1>5 DEF Running, LineStays
    <2>4. ReadGood(x)'
      BY <1>3, <2>1, <2>3 DEF Cell, Line, ReadGood, LineStays
    <2>5. PipeGood(x)'
      BY <1>3, <1>5, <2>1 DEF Cell, Line, PipeGood
    <2>6. StoreGood(x)'
      <3>1. ASSUME trusted[x], NEW e \in OwnEntry(x), Silent(chan[x], e)
            PROVE  Heard(x, e)' \/ Awaited(x, e)' \/ Stored(x, e)'
        BY <1>2, <1>3, <2>1, <3>1 DEF Cell, Line, StoreGood
      <3>2. trusted[x] => ckey[x] = x /\ \A w \in Windows(open[x]) \cap DOMAIN wins : wins[w] = Own(x)
        BY DEF Cell, Line, StoreGood
      <3> QED BY <1>5, <3>1, <3>2 DEF LineStays, storeVars, StoreGood
    <2>7. Mentioned(x)'
      BY <1>2, <1>5 DEF Cell, Mentioned, LineStays, Says
    <2>8. Named(x)'
      BY <1>2, <1>5, <2>3 DEF Cell, Named, LineStays
    <2> QED BY <1>4, <2>2, <2>4, <2>5, <2>6, <2>7, <2>8 DEF Cell, Line
  <1>6. CASE pending'[x] = Empty /\ chan'[x] = Append(chan[x], TabDelta(p)) /\ overtaken'[x]
    <2> DEFINE c == chan[x]
               m == TabDelta(p)
    <2>1. OutboxGood(x)' /\ ~Running(x)'
      BY <1>6 DEF OutboxGood, Empty, Running
    <2>2. ReadGood(x)'
      BY <2>1 DEF ReadGood
    <2>3. PipeGood(x)'
      <3>1. ASSUME NEW e \in Entry, NEW d \in Delta, LastWord(Append(c, m), e, d)
            PROVE  Heard(x, e)' \/ Good(x, e, d)'
        <4>1. CASE e \in DOMAIN p /\ d = p[e]
          BY <4>1 DEF Says, Heard
        <4>2. CASE e \notin DOMAIN p /\ LastWord(c, e, d)
          BY <1>3, <4>2 DEF Cell, Line, PipeGood, Heard
        <4> QED BY <1>1, <3>1, <4>1, <4>2, LastOfAppend, DeltaSpeaks
      <3> QED BY <1>6, <3>1 DEF PipeGood
    <2>4. StoreGood(x)'
      <3>1. ASSUME trusted[x], NEW e \in OwnEntry(x), Silent(Append(c, m), e)
            PROVE  Heard(x, e)' \/ Awaited(x, e)' \/ Stored(x, e)'
        <4>1. Silent(c, e) /\ e \notin DOMAIN p
          BY <1>1, <3>1, SilentAppend, DeltaSpeaks
        <4> QED BY <1>2, <1>3, <3>1, <4>1 DEF Cell, Line, StoreGood, Heard
      <3>2. trusted[x] => ckey[x] = x /\ \A w \in Windows(open[x]) \cap DOMAIN wins : wins[w] = Own(x)
        BY DEF Cell, Line, StoreGood
      <3> QED BY <1>6, <3>1, <3>2 DEF LineStays, storeVars, StoreGood
    <2>5. /\ Len(c) \in Nat /\ Len(Append(c, m)) = Len(c) + 1
          /\ \A i \in 1 .. Len(c) : Append(c, m)[i] = c[i]
          /\ Append(c, m)[Len(c) + 1] = m
      BY <1>1, AppendIs
    <2>6. m.body = p /\ ~Fresh(m)
      BY DeltaSpeaks
    <2>7. \A i \in 1 .. Len(c) + 1 : i \in 1 .. Len(c) \/ i = Len(c) + 1
      BY <2>5
    <2> HIDE DEF m
    <2>8. Mentioned(x)'
      <3>1. ASSUME NEW i \in 1 .. Len(chan'[x]) PROVE Mentions(chan'[x][i].body) \subseteq Past(x)
        BY <1>6, <2>5, <2>6, <2>7 DEF m, Cell, Mentioned, Says
      <3>2. Mentions(pending'[x]) = {}
        BY <1>6 DEF Mentions, Empty
      <3> QED BY <1>2, <3>1, <3>2 DEF Cell, Mentioned, LineStays, Says
    <2>9. Named(x)'
      <3>1. ASSUME NEW j \in 1 .. Len(chan'[x]), Fresh(chan'[x][j])
            PROVE  j \in 1 .. Len(c) /\ chan'[x][j] = c[j]
        BY <1>6, <2>5, <2>6, <2>7, <3>1 DEF m
      <3>2. ASSUME NEW j \in 1 .. Len(c), NEW i \in 1 .. Len(chan'[x]), i < j
            PROVE  i \in 1 .. Len(c) /\ chan'[x][i] = c[i]
        BY <1>6, <2>5, <3>2 DEF m
      <3> QED BY <1>2, <2>1, <3>1, <3>2 DEF Cell, Named
    <2> QED BY <1>4, <2>1, <2>2, <2>3, <2>4, <2>8, <2>9 DEF Cell, Line
  <1> QED BY <1>5, <1>6 DEF OutboxMoves

LEMMA TouchedIsOwn ==
    ASSUME Inv, NEW x \in Ext, stage[x] = "up", NEW e \in OwnEntry(x),
           NEW d \in contentOf[x] \cup {Shown, Removed}, Fits(e, d), NEW p, Touched(x, e, d, p)
    PROVE  p \in OwnBody(x)
  <1>1. pending[x] \in OwnBody(x)
    BY DEF Inv, OutboxInv, OutboxCell
  <1> QED BY <1>1, SingleBody, MergeBody DEF Touched

\* What is pending is good once it is heard again, and so is one word more.
LEMMA TouchSays ==
    ASSUME NEW x \in Ext, Cell(x), NEW e, NEW d, LineStays(x),
           NEW p, Touched(x, e, d, p),
           Fired(x, e)' \/ Good(x, e, d)',
           \A f : Fired(x, f) => f = e \/ Fired(x, f)',
           \A f : Awaited(x, f) => f = e \/ Awaited(x, f)',
           WindowOf(e) \in Past(x),
           \A i \in 1 .. Len(events'[x]) : WindowOf(events'[x][i].on) \in Past(x)
    PROVE  Says(x, p)
  <1>1. /\ DOMAIN p = {e} \cup DOMAIN pending[x]
        /\ p[e] = d /\ \A f \in DOMAIN pending[x] : f # e => p[f] = pending[x][f]
    <2>1. Reads(x, e, d, p)
      BY TouchedReads
    <2> QED BY <2>1 DEF Reads
  <1>2. \A f : Is(x, f)' = Is(x, f)
    BY DEF Is, LineStays
  <1>3. ASSUME NEW f \in DOMAIN p PROVE Fired(x, f)' \/ Good(x, f, p[f])'
    <2>1. CASE f = e
      BY <1>1, <2>1
    <2>2. CASE f # e
      <3>1. f \in DOMAIN pending[x] /\ p[f] = pending[x][f]
        BY <1>1, <2>2
      <3>2. Fired(x, f) \/ Good(x, f, p[f])
        BY <3>1 DEF Cell, Line, OutboxGood
      <3> QED BY <1>2, <2>2, <3>2 DEF Good
    <2> QED BY <2>1, <2>2
  <1>4. Mentions(p) \subseteq Past(x)
    BY <1>1 DEF Mentions, Cell, Mentioned
  <1>5. \A f : Heard(x, f) => f \in DOMAIN p \/ Fired(x, f)'
    BY <1>1 DEF Heard
  <1> QED BY <1>1, <1>3, <1>4, <1>5 DEF Says

LEMMA HearKeeps ==
    ASSUME Inv, NEW x \in Ext, Cell(x), Hear(x) PROVE Cell(x)'
  <1>0. PICK v : v = Head(events[x])
    OBVIOUS
  <1> DEFINE d == IF v.says = "attached" THEN Removed ELSE v.says
  <1>p. PICK p : Touched(x, v.on, d, p)
    BY DEF Touched
  <1>1. events[x] \in Seq(OwnEvent(x)) /\ events[x] # <<>> /\ v \in OwnEvent(x) /\ stage[x] = "up"
    <2>1. events[x] \in Seq(OwnEvent(x)) /\ events[x] # <<>> /\ stage[x] = "up"
      BY DEF Hear, Inv, EventInv, EventCell
    <2> QED BY <1>0, <2>1, HeadTailProperties
  <1>2. /\ Len(events[x]) \in Nat /\ Len(events[x]) >= 1 /\ Len(Tail(events[x])) = Len(events[x]) - 1
        /\ \A i \in 1 .. Len(Tail(events[x])) : Tail(events[x])[i] = events[x][i + 1]
        /\ v = events[x][1]
    BY <1>0, <1>1, TailIs
  <1>3. /\ Touch(x, v.on, d)
        /\ events'[x] = Tail(events[x])
        /\ lookups'[x] = IF v.says = "attached" THEN lookups[x] \cup {v.on[2]} ELSE lookups[x]
    BY <1>0 DEF Hear, Inv, EventInv
  <1>4. LineStays(x)
    BY <1>1 DEF Hear, LineStays, browserVars, storeVars
  <1>5. v.on \in OwnEntry(x) /\ d \in contentOf[x] \cup {Shown, Removed} /\ Fits(v.on, d)
    <2>1. /\ v.on \in OwnEntry(x) /\ v.says \in contentOf[x] \cup {Shown, Removed, "attached"}
          /\ Fits(v.on, v.says)
      BY <1>1 DEF OwnEvent
    <2> QED BY <2>1, CaptureAssumption DEF Fits
  <1>6. p \in OwnBody(x)
    BY <1>p, <1>1, <1>5, TouchedIsOwn
  <1>7. OutboxMoves(x, p)
    BY <1>p, <1>3, TouchMoves
  <1>8. \A i \in 1 .. Len(events'[x]) : i + 1 \in 1 .. Len(events[x]) /\ events'[x][i] = events[x][i + 1]
    BY <1>2, <1>3
  <1>9. \A e : Is(x, e)' = Is(x, e)
    BY <1>4 DEF Is, LineStays
  <1>10. EventsGood(x)'
    BY <1>4, <1>8, <1>9 DEF Cell, Line, EventsGood, LineStays
  <1>11. Fired(x, v.on)' \/ Good(x, v.on, d)'
    <2>1. 1 \in 1 .. Len(events[x])
      BY <1>2
    <2>2. IF v.says = "attached" THEN v.on \in DOMAIN open[x] ELSE v.says = Is(x, v.on)
      BY <1>2, <2>1 DEF Cell, Line, EventsGood
    <2>3. v.says = "attached" => Awaited(x, v.on)'
      BY <1>3, <1>4, <2>2 DEF Awaited, LineStays
    <2> QED BY <1>9, <2>2, <2>3 DEF Good
  <1>12. ASSUME NEW f, Fired(x, f) PROVE f = v.on \/ Fired(x, f)'
    <2>1. PICK i \in 1 .. Len(events[x]) : events[x][i].on = f
      BY <1>12 DEF Fired
    <2>2. CASE i = 1
      BY <1>2, <2>1, <2>2
    <2>3. CASE i # 1
      <3>1. i - 1 \in 1 .. Len(Tail(events[x])) /\ (i - 1) + 1 = i
        BY <1>2, <2>3
      <3> QED BY <1>2, <1>3, <2>1, <3>1 DEF Fired
    <2> QED BY <2>2, <2>3
  <1>13. \A f : Awaited(x, f) => Awaited(x, f)'
    BY <1>3, <1>4 DEF Awaited, LineStays
  <1>14. /\ WindowOf(v.on) \in Past(x)
         /\ \A i \in 1 .. Len(events'[x]) : WindowOf(events'[x][i].on) \in Past(x)
    <2>1. 1 \in 1 .. Len(events[x])
      BY <1>2
    <2> QED BY <1>2, <1>8, <2>1 DEF Cell, Mentioned
  <1> HIDE DEF d
  <1>15. Says(x, p)
    BY <1>p, <1>4, <1>11, <1>12, <1>13, <1>14, TouchSays
  <1> QED BY <1>4, <1>6, <1>7, <1>10, <1>15, MovesLine

\* Without an event to come, what is pending is said as it is.
LEMMA PendingSays ==
    ASSUME NEW x \in Ext, Cell(x), LineStays(x), events[x] = <<>>, events'[x] = <<>>,
           NEW p, p = pending[x],
           \A f : Awaited(x, f) => Awaited(x, f)'
    PROVE  Says(x, p) /\ EventsGood(x)'
  <1>1. \A f : Is(x, f)' = Is(x, f)
    BY DEF Is, LineStays
  <1>2. \A f : ~Fired(x, f)
    BY DEF Fired
  <1>3. \A f \in DOMAIN p : Good(x, f, p[f])'
    BY <1>1, <1>2 DEF Cell, Line, OutboxGood, Good
  <1>4. EventsGood(x)'
    BY DEF EventsGood
  <1>5. \A i \in 1 .. Len(events'[x]) : WindowOf(events'[x][i].on) \in Past(x)
    OBVIOUS
  <1> QED BY <1>2, <1>3, <1>4, <1>5 DEF Says, Heard, Cell, Mentioned

LEMMA FlushTimerKeeps ==
    ASSUME Inv, NEW x \in Ext, Cell(x), FlushTimer(x) PROVE Cell(x)'
  <1>0. PICK p : p = pending[x]
    OBVIOUS
  <1>1. stage[x] = "up"
    BY FlushTimerSteps DEF Inv
  <1>2. LineStays(x) /\ events[x] = <<>> /\ events'[x] = <<>> /\ lookups' = lookups
    BY <1>1 DEF FlushTimer, LineStays, browserVars, storeVars
  <1>3. \A f : Awaited(x, f) => Awaited(x, f)'
    BY <1>2 DEF Awaited, LineStays
  <1>4. Says(x, p) /\ EventsGood(x)'
    BY <1>0, <1>2, <1>3, PendingSays
  <1>5. pending[x] \in OwnBody(x)
    BY <1>1 DEF Inv, OutboxInv, OutboxCell
  <1>6. OutboxMoves(x, pending[x])
    <2>1. CASE Flush(x, pending[x])
      BY <2>1, FlushMoves
    <2>2. CASE UNCHANGED <<pending, chan, overtaken>>
      BY <2>2 DEF OutboxMoves
    <2> QED BY <2>1, <2>2 DEF FlushTimer
  <1> QED BY <1>0, <1>2, <1>4, <1>5, <1>6, MovesLine

LEMMA LookupKeeps ==
    ASSUME Inv, NEW x \in Ext, Cell(x), Lookup(x) PROVE Cell(x)'
  <1>1. stage[x] = "up"
    BY LookupSteps DEF Inv
  <1>2. PICK t \in lookups[x] :
            /\ lookups' = [lookups EXCEPT ![x] = @ \ {t}]
            /\ \/ \E k \in DOMAIN open[x] : k[2] = t /\ Touch(x, k, open[x][k])
               \/ /\ t \notin Tabs(open[x])
                  /\ UNCHANGED outboxVars
    BY DEF Lookup
  <1>3. LineStays(x) /\ events[x] = <<>> /\ events'[x] = <<>>
    BY <1>1 DEF Lookup, LineStays, browserVars, storeVars
  <1>4. lookups'[x] = lookups[x] \ {t}
    BY <1>2 DEF Inv, EventInv
  <1>5. ASSUME NEW k \in DOMAIN open[x], k[2] = t, Touch(x, k, open[x][k]) PROVE Cell(x)'
    <2>d. PICK d : d = open[x][k]
      OBVIOUS
    <2>p. PICK p : Touched(x, k, d, p)
      BY DEF Touched
    <2>1. k \in idsOf[x] \X TabId /\ open[x][k] \in contentOf[x]
      BY OpenElim DEF Inv, BrowserInv
    <2>2. k \in OwnEntry(x) /\ k \notin WindowId /\ open[x][k] # Shown
      BY <2>1, TabIsOwn, ConstantTypes, CaptureAssumption
    <2>3. Fits(k, open[x][k])
      BY <2>2 DEF Fits
    <2>4. p \in OwnBody(x)
      BY <2>d, <2>p, <1>1, <2>1, <2>2, <2>3, TouchedIsOwn
    <2>5. OutboxMoves(x, p)
      BY <2>d, <2>p, <1>5, TouchMoves
    <2>6. Good(x, k, d)'
      BY <2>d, <1>3 DEF Good, Is, LineStays
    <2>7. \A f : Awaited(x, f) => f = k \/ Awaited(x, f)'
      BY <1>3, <1>4, <1>5 DEF Awaited, LineStays, Cell, Ids
    <2>8. \A f : ~Fired(x, f)
      BY <1>3 DEF Fired
    <2>9. WindowOf(k) \in Past(x)
      BY <2>2 DEF WindowOf, Past, Windows
    <2>10. \A i \in 1 .. Len(events'[x]) : WindowOf(events'[x][i].on) \in Past(x)
      BY <1>3
    <2>11. EventsGood(x)'
      BY <1>3 DEF EventsGood
    <2>12. Says(x, p)
      BY <2>p, <1>3, <2>6, <2>7, <2>8, <2>9, <2>10, TouchSays
    <2> QED BY <1>3, <2>4, <2>5, <2>11, <2>12, MovesLine
  <1>6. ASSUME t \notin Tabs(open[x]), UNCHANGED outboxVars PROVE Cell(x)'
    <2>0. PICK p : p = pending[x]
      OBVIOUS
    <2>1. \A f : Awaited(x, f) => Awaited(x, f)'
      BY <1>3, <1>4, <1>6 DEF Awaited, LineStays, Tabs
    <2>2. Says(x, p) /\ EventsGood(x)'
      BY <2>0, <1>3, <2>1, PendingSays
    <2>3. OutboxMoves(x, pending[x])
      BY <1>6 DEF OutboxMoves, outboxVars
    <2>4. pending[x] \in OwnBody(x)
      BY <1>1 DEF Inv, OutboxInv, OutboxCell
    <2> QED BY <2>0, <1>3, <2>2, <2>3, <2>4, MovesLine
  <1> QED BY <1>2, <1>5, <1>6

-----------------------------------------------------------------------------
(* The worker's own steps.                                                 *)

LEMMA QuietStepKeeps ==
    ASSUME Inv, NEW x \in Ext, Cell(x), Wake(x) \/ Boot(x) \/ FlushDone(x) \/ Reconnect(x) PROVE Cell(x)'
  <1>1. CASE Wake(x)
    <2>1. stage[x] # "up" /\ storeVars' = storeVars
      BY <1>1 DEF Wake
    <2>2. SameFor(x)
      BY <1>1, <2>1 DEF Wake, SameFor, browserVars, pipeVars, obsVars
    <2> QED BY <2>1, <2>2, Framed, SameRowsKeep DEF SameFor
  <1>2. CASE Boot(x)
    <2>1. pending[x] = Empty /\ mirror[x] = Empty /\ stage[x] # "up"
      BY <1>2 DEF Boot, Inv, OutboxInv, OutboxCell, Cell, Unattached
    <2>2. Merge(pending[x], mirror[x]) = Empty
      BY <2>1, EmptyIsBody, MergeEmpty
    <2>3. pending' = [pending EXCEPT ![x] = Empty] /\ stage' = [stage EXCEPT ![x] = "up"]
      BY <1>2, <2>2 DEF Boot
    <2>4. pending'[x] = pending[x] /\ stage'[x] = "up"
      BY <2>1, <2>3 DEF Inv, OutboxInv, Scalars
    <2>5. SameFor(x) /\ storeVars' = storeVars
      BY <1>2, <2>4 DEF Boot, SameFor, browserVars, pipeVars, obsVars
    <2> QED BY <2>5, Framed, SameRowsKeep DEF SameFor
  <1>3. CASE FlushDone(x) \/ Reconnect(x)
    <2>1. SameFor(x) /\ storeVars' = storeVars
      BY <1>3 DEF FlushDone, Reconnect, SameFor, browserVars, pipeVars, obsVars
    <2> QED BY <2>1, Framed, SameRowsKeep DEF SameFor
  <1> QED BY <1>1, <1>2, <1>3

\* All but the pipe and what was read stays.
AllButPipe(x) ==
    /\ open'[x] = open[x] /\ gone'[x] = gone[x] /\ stage'[x] = stage[x]
    /\ events'[x] = events[x] /\ pending'[x] = pending[x] /\ lookups'[x] = lookups[x]
    /\ ckey'[x] = ckey[x] /\ old'[x] = old[x] /\ mirror'[x] = mirror[x]
    /\ overtaken'[x] = overtaken[x] /\ trusted'[x] = trusted[x] /\ UNCHANGED storeVars

LEMMA LineIsSame ==
    ASSUME NEW x, AllButPipe(x)
    PROVE  /\ \A e : (Stored(x, e)' <=> Stored(x, e)) /\ (Awaited(x, e)' <=> Awaited(x, e))
           /\ \A e : (Heard(x, e)' <=> Heard(x, e)) /\ (Fired(x, e)' <=> Fired(x, e)) /\ Is(x, e)' = Is(x, e)
           /\ \A e, d : Good(x, e, d)' <=> Good(x, e, d)
           /\ \A b, w : Names(x, b, w)' <=> Names(x, b, w)
           /\ Past(x)' = Past(x) /\ StoreMentions(x)' = StoreMentions(x)
           /\ (Ids(x) => Ids(x)') /\ (EventsGood(x) => EventsGood(x)') /\ (OutboxGood(x) => OutboxGood(x)')
  <1>1. wins' = wins /\ tabs' = tabs
    BY DEF AllButPipe, storeVars
  <1>2. \A e : (Stored(x, e)' <=> Stored(x, e)) /\ (Awaited(x, e)' <=> Awaited(x, e))
    BY <1>1 DEF AllButPipe, Stored, Awaited
  <1>3. \A e : (Heard(x, e)' <=> Heard(x, e)) /\ (Fired(x, e)' <=> Fired(x, e)) /\ Is(x, e)' = Is(x, e)
    BY DEF AllButPipe, Heard, Fired, Is
  <1>4. \A e, d : Good(x, e, d)' <=> Good(x, e, d)
    BY <1>2, <1>3 DEF Good
  <1>5. /\ \A b, w : Names(x, b, w)' <=> Names(x, b, w)
        /\ Past(x)' = Past(x) /\ StoreMentions(x)' = StoreMentions(x) /\ (Ids(x) => Ids(x)')
    BY <1>1 DEF AllButPipe, Names, Past, StoreMentions, Ids
  <1>6. EventsGood(x) => EventsGood(x)'
    BY <1>3 DEF AllButPipe, EventsGood
  <1>7. OutboxGood(x) => OutboxGood(x)'
    BY <1>3, <1>4 DEF AllButPipe, OutboxGood
  <1> QED BY <1>2, <1>3, <1>4, <1>5, <1>6, <1>7

\* What x posts last: a message that speaks of nothing, or all that was read.
Tells(x, m) ==
    \/ /\ \A e : ~Speaks(m, e)
       /\ ~Fresh(m) /\ Mentions(m.body) \subseteq Past(x)
       /\ recon'[x] = <<>> \/ (recon'[x] = recon[x] /\ Mentions(m.body) = {})
    \/ Running(x) /\ recon'[x] = <<>> /\ Fresh(m) /\ m.body = recon[x][1]

LEMMA PostKeeps ==
    ASSUME NEW x, Cell(x), AllButPipe(x), NEW S, chan[x] \in Seq(S), NEW m \in S,
           chan'[x] = Append(chan[x], m), Tells(x, m), Unattached(x)'
    PROVE  Cell(x)'
  <1> DEFINE c == chan[x]
  <1>1. /\ Len(c) \in Nat /\ Len(Append(c, m)) = Len(c) + 1
        /\ \A i \in 1 .. Len(c) : Append(c, m)[i] = c[i]
        /\ Append(c, m)[Len(c) + 1] = m
    BY AppendIs
  <1>2. /\ \A e : (Stored(x, e)' <=> Stored(x, e)) /\ (Awaited(x, e)' <=> Awaited(x, e))
        /\ \A e : (Heard(x, e)' <=> Heard(x, e))
        /\ \A e, d : Good(x, e, d)' <=> Good(x, e, d)
        /\ \A b, w : Names(x, b, w)' <=> Names(x, b, w)
        /\ Past(x)' = Past(x) /\ StoreMentions(x)' = StoreMentions(x)
    BY LineIsSame
  <1>3. Ids(x)' /\ EventsGood(x)' /\ OutboxGood(x)'
    BY LineIsSame DEF Cell, Line
  <1>4. Running(x)' => Running(x) /\ recon'[x] = recon[x] /\ Mentions(m.body) = {}
    BY DEF Tells, Running, AllButPipe
  <1>5. ReadGood(x)'
    BY <1>2, <1>4 DEF Cell, Line, ReadGood
  <1>6. PipeGood(x)'
    <2>1. ASSUME NEW e \in Entry, NEW d \in Delta, LastWord(Append(c, m), e, d)
          PROVE  Heard(x, e) \/ Good(x, e, d)
      <3>1. CASE Speaks(m, e) /\ d = Word(m.body, e)
        <4>1. Running(x) /\ m.body = recon[x][1]
          BY <3>1 DEF Tells
        <4> QED BY <3>1, <4>1 DEF Cell, Line, ReadGood
      <3>2. CASE LastWord(c, e, d)
        BY <3>2 DEF Cell, Line, PipeGood
      <3> QED BY <2>1, <3>1, <3>2, LastOfAppend
    <2> QED BY <1>2, <2>1 DEF PipeGood
  <1>7. StoreGood(x)'
    <2>1. ASSUME NEW e, Silent(Append(c, m), e) PROVE Silent(c, e)
      BY <2>1, SilentAppend
    <2>2. ASSUME trusted[x], NEW e \in OwnEntry(x), Silent(Append(c, m), e)
          PROVE  Heard(x, e)' \/ Awaited(x, e)' \/ Stored(x, e)'
      BY <1>2, <2>1, <2>2 DEF Cell, Line, StoreGood
    <2>3. trusted[x] => ckey[x] = x /\ \A w \in Windows(open[x]) \cap DOMAIN wins : wins[w] = Own(x)
      BY DEF Cell, Line, StoreGood
    <2> QED BY <2>2, <2>3 DEF AllButPipe, storeVars, StoreGood
  <1>8. \A i \in 1 .. Len(c) + 1 : i \in 1 .. Len(c) \/ i = Len(c) + 1
    BY <1>1
  <1>9. Mentioned(x)'
    <2>1. Mentions(m.body) \subseteq Past(x)
      BY DEF Tells, Cell, Mentioned, Running
    <2>2. ASSUME NEW i \in 1 .. Len(chan'[x]) PROVE Mentions(chan'[x][i].body) \subseteq Past(x)
      BY <1>1, <1>8, <2>1 DEF Cell, Mentioned
    <2>3. recon'[x] # <<>> => recon'[x] = recon[x]
      BY DEF Tells
    <2> QED BY <1>2, <2>2, <2>3 DEF Cell, Mentioned, AllButPipe
  <1>10. Named(x)'
    <2>1. ASSUME Running(x)'
          PROVE  /\ \A w \in StoreMentions(x) : Names(x, recon'[x][1], w)
                 /\ \A i \in 1 .. Len(chan'[x]) : \A w \in Mentions(chan'[x][i].body) :
                       Names(x, recon'[x][1], w)
      BY <1>1, <1>4, <1>8, <2>1 DEF Cell, Named
    <2>2. ASSUME NEW j \in 1 .. Len(chan'[x]), Fresh(chan'[x][j])
          PROVE  /\ Upserts(chan'[x][j].body)
                 /\ \A w \in StoreMentions(x) : Names(x, chan'[x][j].body, w)
                 /\ \A i \in 1 .. Len(chan'[x]) : i < j =>
                       \A w \in Mentions(chan'[x][i].body) : Names(x, chan'[x][j].body, w)
      <3>1. CASE j = Len(c) + 1
        <4>1. Fresh(m) /\ chan'[x][j] = m
          BY <1>1, <2>2, <3>1
        <4>2. Running(x) /\ m.body = recon[x][1]
          BY <4>1 DEF Tells
        <4>3. Upserts(m.body)
          BY <4>2 DEF Cell, Mentioned, Running
        <4>4. ASSUME NEW i \in 1 .. Len(chan'[x]), i < j PROVE i \in 1 .. Len(c) /\ chan'[x][i] = c[i]
          BY <1>1, <3>1, <4>4
        <4> QED BY <4>1, <4>2, <4>3, <4>4 DEF Cell, Named
      <3>2. CASE j \in 1 .. Len(c)
        <4>1. chan'[x][j] = c[j]
          BY <1>1, <3>2
        <4>2. ASSUME NEW i \in 1 .. Len(chan'[x]), i < j PROVE i \in 1 .. Len(c) /\ chan'[x][i] = c[i]
          BY <1>1, <3>2, <4>2
        <4> QED BY <2>2, <3>2, <4>1, <4>2 DEF Cell, Named
      <3> QED BY <1>1, <1>8, <3>1, <3>2
    <2> QED BY <1>2, <2>1, <2>2 DEF Named
  <1> QED BY <1>3, <1>5, <1>6, <1>7, <1>9, <1>10 DEF Cell, Line

LEMMA SayHelloKeeps ==
    ASSUME Inv, NEW x \in Ext, Cell(x), SayHello(x) PROVE Cell(x)'
  <1>1. CASE CanSend(x)
    <2>1. AllButPipe(x) /\ recon'[x] = recon[x]
      BY <1>1 DEF SayHello, AllButPipe, browserVars, storeVars, obsVars
    <2>2. chan[x] \in Seq(OwnMsg(x)) /\ Hello \in OwnMsg(x) /\ chan'[x] = Append(chan[x], Hello)
      BY <1>1, HelloIsMsg DEF SayHello, Post, Inv, PipeInv, PipeCell
    <2>3. /\ \A e : ~Speaks(Hello, e)
          /\ ~Fresh(Hello) /\ Mentions(Hello.body) = {}
      BY DEF Speaks, Fresh, Hello, Mentions, Empty
    <2>4. Unattached(x)'
      BY <2>1, <2>2, <2>3, SilentAppend DEF Cell, Unattached, AllButPipe, Running
    <2>5. Tells(x, Hello)
      BY <2>1, <2>3 DEF Tells
    <2> QED BY <2>1, <2>2, <2>4, <2>5, PostKeeps
  <1>2. CASE ~CanSend(x)
    <2>1. SameFor(x) /\ storeVars' = storeVars
      BY <1>2 DEF SayHello, SameFor, browserVars, obsVars
    <2> QED BY <2>1, Framed, SameRowsKeep DEF SameFor
  <1> QED BY <1>1, <1>2

LEMMA ReconcileSendKeeps ==
    ASSUME Inv, NEW x \in Ext, Cell(x), ReconcileSend(x) PROVE Cell(x)'
  <1>0. recon[x] # <<>> /\ recon'[x] = <<>>
    BY DEF ReconcileSend, Inv, PipeInv
  <1>1. CASE CanSend(x)
    <2>1. PICK b \in OwnBody(x) : recon[x] = <<b>>
      BY <1>0 DEF Inv, PipeInv, PipeCell
    <2>2. PICK m : m = FullState(b, ~overtaken[x])
      OBVIOUS
    <2>3. recon[x][1] = b /\ overtaken[x] \in BOOLEAN
      BY <2>1 DEF Inv, Scalars
    <2>4. AllButPipe(x)
      BY <1>1 DEF ReconcileSend, AllButPipe, browserVars, storeVars, obsVars
    <2>5. chan[x] \in Seq(OwnMsg(x)) /\ m \in OwnMsg(x) /\ chan'[x] = Append(chan[x], m)
      BY <1>1, <2>2, <2>3, DeltaIsMsg DEF ReconcileSend, Post, Inv, PipeInv, PipeCell
    <2>6. m.type = "full_state" /\ m.body = b /\ m.fresh = ~overtaken[x]
      BY <2>2 DEF FullState
    <2>7. /\ Fresh(m) <=> ~overtaken[x]
          /\ \A e : Speaks(m, e) <=> Fresh(m)
      BY <2>3, <2>6 DEF Speaks, Fresh
    <2>8. Unattached(x)'
      BY <1>0, <2>4, <2>5, <2>7, SilentAppend DEF Cell, Unattached, AllButPipe, Running
    <2>9. Tells(x, m)
      <3>1. CASE overtaken[x]
        BY <1>0, <2>3, <2>6, <2>7, <3>1 DEF Tells, Cell, Mentioned
      <3>2. CASE ~overtaken[x]
        BY <1>0, <2>3, <2>6, <2>7, <3>2 DEF Tells, Running
      <3> QED BY <3>1, <3>2
    <2> QED BY <2>4, <2>5, <2>8, <2>9, PostKeeps
  <1>2. CASE ~CanSend(x)
    <2>1. SameFor(x) /\ storeVars' = storeVars
      BY <1>0, <1>2 DEF ReconcileSend, SameFor, browserVars, obsVars
    <2> QED BY <2>1, Framed, SameRowsKeep DEF SameFor
  <1> QED BY <1>1, <1>2

LEMMA BodyIsOpen ==
    ASSUME NEW x \in Ext, NEW o \in OwnOpen(x)
    PROVE  /\ Upserts(Body(o))
           /\ Mentions(Body(o)) \subseteq Windows(o)
           /\ Windows(o) \subseteq DOMAIN Body(o)
           /\ \A e : Word(Body(o), e) = IF e \in DOMAIN o THEN o[e]
                                        ELSE IF e \in Windows(o) THEN Shown ELSE Removed
  <1>1. /\ DOMAIN Body(o) = DOMAIN o \cup Windows(o)
        /\ \A k \in DOMAIN o : Body(o)[k] = o[k]
        /\ \A w \in Windows(o) : Body(o)[w] = Shown
    BY OpenIsBody
  <1>2. /\ \A k \in DOMAIN o : k \in TabKey /\ k \notin WindowId /\ o[k] # Removed /\ k[1] \in Windows(o)
        /\ \A w \in Windows(o) : w \in WindowId
    <2>1. \A k \in DOMAIN o : k \in TabKey /\ o[k] \in contentOf[x] /\ k[1] \in Windows(o)
      BY OpenElim DEF Windows
    <2>2. \A w \in Windows(o) : w \in WindowId
      BY OpenElim, ConstantTypes
    <2> QED BY <2>1, <2>2, ConstantTypes, CaptureAssumption
  <1>3. Upserts(Body(o))
    BY <1>1, <1>2, CaptureAssumption DEF Upserts
  <1>4. Mentions(Body(o)) \subseteq Windows(o)
    BY <1>1, <1>2 DEF Mentions, WindowOf
  <1>5. \A e : Word(Body(o), e) = IF e \in DOMAIN o THEN o[e]
                                  ELSE IF e \in Windows(o) THEN Shown ELSE Removed
    BY <1>1 DEF Word
  <1> QED BY <1>1, <1>3, <1>4, <1>5

LEMMA ReconcileReadKeeps ==
    ASSUME Inv, NEW x \in Ext, Cell(x), ReconcileRead(x) PROVE Cell(x)'
  <1>0. PICK b : b = Body(open[x])
    OBVIOUS
  <1>1. /\ Upserts(b) /\ Mentions(b) \subseteq Windows(open[x]) /\ Windows(open[x]) \subseteq DOMAIN b
        /\ \A e : Word(b, e) = Is(x, e)
    BY <1>0, BodyIsOpen DEF Is, Inv, BrowserInv
  <1>2. /\ recon'[x] = <<b>> /\ recon'[x][1] = b
        /\ overtaken'[x] = (stage[x] # "up")
    BY <1>0 DEF ReconcileRead, Inv, PipeInv, Scalars
  <1>3. /\ open' = open /\ gone' = gone /\ stage' = stage /\ events' = events /\ pending' = pending
        /\ lookups' = lookups /\ chan' = chan /\ ckey' = ckey /\ old' = old /\ mirror' = mirror
        /\ trusted' = trusted /\ wins' = wins /\ tabs' = tabs
    BY DEF ReconcileRead, browserVars, pipeVars, storeVars
  <1>4. Unattached(x)'
    BY <1>2, <1>3 DEF Cell, Unattached, Running
  <1>5. /\ \A e : (Stored(x, e)' <=> Stored(x, e)) /\ (Awaited(x, e)' <=> Awaited(x, e))
        /\ \A e : (Heard(x, e)' <=> Heard(x, e)) /\ (Fired(x, e)' <=> Fired(x, e)) /\ Is(x, e)' = Is(x, e)
        /\ Past(x)' = Past(x) /\ StoreMentions(x)' = StoreMentions(x) /\ Ids(x)'
    BY <1>3 DEF Stored, Awaited, Heard, Fired, Is, Past, StoreMentions, Ids, Cell
  <1>6. /\ \A e, d : Good(x, e, d)' <=> Good(x, e, d)
        /\ \A c, w : Names(x, c, w)' <=> Names(x, c, w)
    BY <1>3, <1>5 DEF Good, Names
  <1>7. EventsGood(x)'
    BY <1>3, <1>5 DEF Cell, Line, EventsGood
  <1>8. OutboxGood(x)'
    BY <1>3, <1>5, <1>6 DEF Cell, Line, OutboxGood
  <1>9. ReadGood(x)'
    BY <1>1, <1>2, <1>5 DEF ReadGood, Good
  <1>10. PipeGood(x)'
    BY <1>3, <1>5, <1>6 DEF Cell, Line, PipeGood
  <1>11. StoreGood(x)'
    BY <1>3, <1>5 DEF Cell, Line, StoreGood
  <1>12. Mentioned(x)'
    <2>1. Mentions(b) \subseteq Past(x)
      BY <1>1 DEF Past
    <2> QED BY <1>1, <1>2, <1>3, <1>5, <2>1 DEF Cell, Mentioned
  <1>13. Named(x)'
    <2>1. \A w \in Past(x) : Names(x, b, w)
      BY <1>1 DEF Past, Names
    <2>2. /\ \A w \in StoreMentions(x) : Names(x, b, w)
          /\ \A i \in 1 .. Len(chan[x]) : \A w \in Mentions(chan[x][i].body) : Names(x, b, w)
      BY <2>1 DEF Cell, Mentioned
    <2> QED BY <1>2, <1>3, <1>5, <1>6, <2>2 DEF Cell, Named
  <1> QED BY <1>4, <1>5, <1>7, <1>8, <1>9, <1>10, <1>11, <1>12, <1>13 DEF Cell, Line

LEMMA DisconnectKeeps ==
    ASSUME Inv, NEW x \in Ext, Cell(x), Disconnect(x) PROVE Cell(x)'
  <1>1. /\ open' = open /\ gone' = gone /\ stage' = stage /\ events' = events /\ pending' = pending
        /\ lookups' = lookups /\ recon' = recon /\ overtaken' = overtaken /\ old' = old /\ mirror' = mirror
        /\ wins' = wins /\ tabs' = tabs
        /\ chan'[x] = <<>> /\ ~trusted'[x]
    BY DEF Disconnect, browserVars, storeVars, Inv, PipeInv, Scalars
  <1>2. /\ \A e : (Awaited(x, e)' <=> Awaited(x, e)) /\ (Heard(x, e)' <=> Heard(x, e))
        /\ \A e : (Fired(x, e)' <=> Fired(x, e)) /\ Is(x, e)' = Is(x, e)
        /\ Past(x)' = Past(x) /\ StoreMentions(x)' = StoreMentions(x) /\ Ids(x)'
        /\ Running(x)' <=> Running(x)
    BY <1>1 DEF Awaited, Heard, Fired, Is, Past, StoreMentions, Ids, Cell, Running
  <1>3. /\ \A e, d : Good(x, e, d)' <=> Good(x, e, d)
        /\ \A b, w : Names(x, b, w)' <=> Names(x, b, w)
    BY <1>1, <1>2 DEF Good, Names
  <1>4. /\ Len(chan'[x]) = 0
        /\ \A i \in 1 .. Len(chan'[x]) : FALSE
    BY <1>1
  <1>5. Unattached(x)'
    BY <1>1, <1>2, <1>4 DEF Cell, Unattached, Silent
  <1>6. EventsGood(x)'
    BY <1>1, <1>2 DEF Cell, Line, EventsGood
  <1>7. OutboxGood(x)'
    BY <1>1, <1>2, <1>3 DEF Cell, Line, OutboxGood
  <1>8. ReadGood(x)'
    BY <1>1, <1>2, <1>3 DEF Cell, Line, ReadGood
  <1>9. PipeGood(x)' /\ StoreGood(x)'
    BY <1>1, <1>4 DEF PipeGood, LastWord, StoreGood
  <1>10. Mentioned(x)'
    BY <1>1, <1>2, <1>4 DEF Cell, Mentioned
  <1>11. Named(x)'
    BY <1>1, <1>2, <1>3, <1>4 DEF Cell, Named
  <1> QED BY <1>2, <1>5, <1>6, <1>7, <1>8, <1>9, <1>10, <1>11 DEF Cell, Line
-----------------------------------------------------------------------------
(* The agent reads a message of x.                                         *)

\* A full_state leaves no window of its own that it does not name; a delta
\* takes only the rows that it names.
LEMMA FullStateReapsWindows ==
    ASSUME NEW x, NEW key, NEW m, m.type = "full_state", Apply(x, key, m)
    PROVE  \A w \in DOMAIN wins' : wins'[w] = [browser |-> browserOf[x], key |-> key] => w \in DOMAIN m.body
  <1> DEFINE W == WindowRows(x, key, m.body)
             owned == {w \in DOMAIN W : W[w] = [browser |-> browserOf[x], key |-> key]}
  <1>1. wins' = Without(W, owned \ DOMAIN m.body)
    BY DEF Apply, Reaped
  <1> HIDE DEF W
  <1>2. DOMAIN wins' = DOMAIN W \ (owned \ DOMAIN m.body) /\ \A w \in DOMAIN wins' : wins'[w] = W[w]
    BY <1>1 DEF Without
  <1> QED BY <1>2

LEMMA DeltaTakes ==
    ASSUME NEW x, NEW key, NEW m, m.type # "full_state", Apply(x, key, m)
    PROVE  /\ \A w \in DOMAIN wins : w \notin DOMAIN m.body => w \in DOMAIN wins'
           /\ \A k \in DOMAIN tabs : k \notin DOMAIN m.body => k \in DOMAIN tabs'
           /\ \A w \in DOMAIN m.body \cap WindowId : m.body[w] = Removed => w \notin DOMAIN wins'
  <1>1. wins' = WindowRows(x, key, m.body) /\ tabs' = TabRows(m.body)
    BY DEF Apply
  <1>2. DOMAIN wins' = (DOMAIN wins \cup {w \in DOMAIN m.body \cap WindowId : m.body[w] # Removed})
                          \ {w \in DOMAIN m.body \cap WindowId : m.body[w] = Removed}
    BY <1>1 DEF WindowRows
  <1>3. DOMAIN tabs' = (DOMAIN tabs \cup (DOMAIN m.body \cap TabKey))
                          \ {k \in DOMAIN m.body \cap TabKey : m.body[k] = Removed}
    BY <1>1, TabRowsAre
  <1> QED BY <1>2, <1>3

\* m is stored for x, known by its own key.
StoredOwn(x, m) == Rows /\ OwnRows /\ Told(x, m, x) /\ Apply(x, x, m)

LEMMA WindowsAreAsTold ==
    ASSUME NEW x \in Ext, NEW m, StoredOwn(x, m)
    PROVE  \A w \in DOMAIN wins' : w \in DOMAIN m.body \/ (w \in DOMAIN wins /\ wins'[w] = wins[w])
  BY WinsAfter DEF StoredOwn

LEMMA TabsAreAsTold ==
    ASSUME NEW x \in Ext, NEW m, StoredOwn(x, m)
    PROVE  \A k \in DOMAIN tabs' : FromMessage(x, m, k) \/ (k \in DOMAIN tabs /\ tabs'[k] = tabs[k])
  <1>1. Rows /\ Told(x, m, x) /\ Apply(x, x, m)
    BY DEF StoredOwn
  <1>2. ASSUME NEW k \in DOMAIN tabs'
        PROVE  FromMessage(x, m, k) \/ (k \in DOMAIN tabs /\ tabs'[k] = tabs[k])
    BY <1>1, TabAfter, Zenon
  <1> QED BY <1>2

LEMMA TabIsAsTold ==
    ASSUME NEW x \in Ext, NEW m, StoredOwn(x, m), NEW k \in DOMAIN m.body, k \in TabKey
    PROVE  IF m.body[k] = Removed THEN k \notin DOMAIN tabs' ELSE k \in DOMAIN tabs' /\ tabs'[k] = m.body[k]
  <1>1. \A j \in DOMAIN tabs' : FromMessage(x, m, j) \/ j \notin DOMAIN m.body
    BY TabsAfter DEF StoredOwn, TabsTold
  <1>2. k \in DOMAIN tabs' => tabs'[k] = m.body[k] /\ m.body[k] # Removed
    BY <1>1, ConstantTypes, CaptureAssumption DEF FromMessage
  <1>3. m.body[k] # Removed => k \in DOMAIN tabs'
    BY NamedStay DEF StoredOwn
  <1> QED BY <1>2, <1>3

LEMMA ToldWindowIsOwn ==
    ASSUME NEW x \in Ext, NEW m, StoredOwn(x, m), NEW w \in DOMAIN m.body, w \in DOMAIN wins'
    PROVE  wins'[w] = Own(x)
  <1>1. /\ w \in idsOf[x]
        /\ wins'[w] = [browser |-> IF w \in DOMAIN wins THEN wins[w].browser ELSE browserOf[x], key |-> x]
    BY WinsAfter DEF StoredOwn
  <1>2. w \in DOMAIN wins => wins[w].browser = browserOf[x]
    BY <1>1, OneOwner DEF StoredOwn, OwnRows
  <1> QED BY <1>1, <1>2 DEF Own

LEMMA MessageMentions ==
    ASSUME Rows, NEW x \in Ext, NEW key, NEW m, Told(x, m, key), Apply(x, key, m)
    PROVE  StoreMentions(x)' \subseteq StoreMentions(x) \cup Mentions(m.body)
  <1>1. \A w \in DOMAIN wins' : w \in DOMAIN m.body \/ w \in DOMAIN wins
    BY WinsAfter
  <1>2. \A k \in DOMAIN tabs' : FromMessage(x, m, k) \/ k \in DOMAIN tabs
    BY TabsAfter DEF TabsTold
  <1>3. ASSUME NEW w \in idsOf[x], w \in DOMAIN m.body PROVE w \in Mentions(m.body)
    <2>1. w \in WindowId
      BY ConstantTypes
    <2> QED BY <1>3, <2>1 DEF Mentions, WindowOf
  <1>4. ASSUME NEW k, FromMessage(x, m, k) PROVE k[1] \in Mentions(m.body)
    <2>1. k \in DOMAIN m.body /\ k \notin WindowId
      BY <1>4, TabIsOwn DEF FromMessage
    <2> QED BY <2>1 DEF Mentions, WindowOf
  <1>5. ASSUME NEW w \in StoreMentions(x)' PROVE w \in StoreMentions(x) \cup Mentions(m.body)
    <2>1. w \in idsOf[x] /\ (w \in DOMAIN wins' \/ \E k \in DOMAIN tabs' : k[1] = w)
      BY DEF StoreMentions
    <2>2. CASE w \in DOMAIN wins'
      BY <1>1, <1>3, <2>1, <2>2 DEF StoreMentions
    <2>3. CASE \E k \in DOMAIN tabs' : k[1] = w
      <3>1. PICK k \in DOMAIN tabs' : k[1] = w
        BY <2>3
      <3> QED BY <1>2, <1>4, <2>1, <3>1 DEF StoreMentions
    <2> QED BY <2>1, <2>2, <2>3
  <1> QED BY <1>5

\* What is open in a profile: its windows are window ids, its tabs are not.
LEMMA OpenKinds ==
    ASSUME Inv, NEW x \in Ext
    PROVE  /\ \A k \in DOMAIN open[x] : /\ k \in OwnEntry(x) /\ k \in TabKey /\ k \notin WindowId
                                        /\ k[1] \in Windows(open[x])
                                        /\ open[x][k] # Removed /\ open[x][k] # Shown
           /\ \A w \in Windows(open[x]) : w \in OwnEntry(x) /\ w \in WindowId /\ w \notin TabKey /\ w \in idsOf[x]
           /\ \A e \in OwnEntry(x) : e \in Entry /\ (e \in WindowId \/ e \in TabKey)
           /\ \A e \in OwnEntry(x) : e \in TabKey => e[1] \in idsOf[x] /\ e \notin WindowId
           /\ \A e \in OwnEntry(x) : e \in WindowId => e \in idsOf[x] /\ e \notin TabKey
  <1>1. open[x] \in OwnOpen(x)
    BY DEF Inv, BrowserInv
  <1>2. ASSUME NEW k \in DOMAIN open[x]
        PROVE  /\ k \in OwnEntry(x) /\ k \in TabKey /\ k \notin WindowId
               /\ k[1] \in Windows(open[x])
               /\ open[x][k] # Removed /\ open[x][k] # Shown
    <2>1. k \in idsOf[x] \X TabId /\ open[x][k] \in contentOf[x] /\ k[1] \in Windows(open[x])
      BY <1>1, OpenElim DEF Windows
    <2> QED BY <2>1, TabIsOwn, ConstantTypes, CaptureAssumption
  <1>3. ASSUME NEW w \in Windows(open[x])
        PROVE  w \in OwnEntry(x) /\ w \in WindowId /\ w \notin TabKey /\ w \in idsOf[x]
    <2>1. w \in idsOf[x]
      BY <1>1, OpenElim
    <2> QED BY <2>1, ConstantTypes, CaptureAssumption DEF OwnEntry
  <1>4. \A e \in OwnEntry(x) : e \in Entry /\ (e \in WindowId \/ e \in TabKey)
    BY ConstantTypes DEF Entry
  <1>5. ASSUME NEW e \in OwnEntry(x), e \in TabKey PROVE e[1] \in idsOf[x] /\ e \notin WindowId
    <2>1. e \notin WindowId
      BY <1>5, CaptureAssumption
    <2>2. e \in idsOf[x] \X TabId
      BY <2>1, ConstantTypes DEF OwnEntry
    <2> QED BY <2>1, <2>2
  <1>6. ASSUME NEW e \in OwnEntry(x), e \in WindowId PROVE e \in idsOf[x] /\ e \notin TabKey
    <2>1. e \notin TabKey
      BY <1>6, CaptureAssumption
    <2> QED BY <2>1, TabIsOwn DEF OwnEntry
  <1> QED BY <1>2, <1>3, <1>4, <1>5, <1>6

\* A delta that says what is so stores it.
LEMMA DeltaStores ==
    ASSUME Inv, NEW x \in Ext, NEW m, StoredOwn(x, m), m.type # "full_state", NEW e \in OwnEntry(x),
           e \in DOMAIN m.body => m.body[e] = Is(x, e),
           e \notin DOMAIN m.body => Stored(x, e),
           open'[x] = open[x]
    PROVE  Stored(x, e)'
  <1>1. /\ \A w \in DOMAIN wins : w \notin DOMAIN m.body => w \in DOMAIN wins'
        /\ \A k \in DOMAIN tabs : k \notin DOMAIN m.body => k \in DOMAIN tabs'
        /\ \A w \in DOMAIN m.body \cap WindowId : m.body[w] = Removed => w \notin DOMAIN wins'
    BY DeltaTakes DEF StoredOwn
  <1>2. \A w \in DOMAIN wins' : w \in DOMAIN m.body \/ (w \in DOMAIN wins /\ wins'[w] = wins[w])
    BY WindowsAreAsTold
  <1>3. \A k \in DOMAIN tabs' : FromMessage(x, m, k) \/ (k \in DOMAIN tabs /\ tabs'[k] = tabs[k])
    BY TabsAreAsTold
  <1>4. CASE e \in WindowId
    <2>1. e \notin TabKey /\ e \notin DOMAIN open[x]
      BY <1>4, OpenKinds
    <2>2. CASE e \in DOMAIN m.body
      <3>1. CASE e \in Windows(open[x])
        <4>1. m.body[e] # Removed
          BY <2>1, <2>2, <3>1, CaptureAssumption DEF Is
        <4>2. e \in DOMAIN wins'
          BY <1>4, <2>2, <4>1, NamedStay DEF StoredOwn
        <4>3. wins'[e] = Own(x)
          BY <2>2, <4>2, ToldWindowIsOwn
        <4> QED BY <2>1, <3>1, <4>2, <4>3 DEF Stored, Own
      <3>2. CASE e \notin Windows(open[x])
        <4>1. e \notin DOMAIN wins'
          BY <1>1, <1>4, <2>1, <2>2, <3>2 DEF Is
        <4> QED BY <2>1, <3>2, <4>1 DEF Stored, Own
      <3> QED BY <3>1, <3>2
    <2>3. CASE e \notin DOMAIN m.body
      <3>1. Stored(x, e)
        BY <2>3
      <3>2. /\ e \in DOMAIN wins <=> e \in DOMAIN wins'
            /\ e \in DOMAIN wins' => wins'[e] = wins[e]
        BY <1>1, <1>2, <2>3
      <3> QED BY <1>4, <2>1, <3>1, <3>2 DEF Stored, Own
    <2> QED BY <2>2, <2>3
  <1>5. CASE e \in TabKey
    <2>1. e \notin WindowId /\ e \notin Windows(open[x])
      BY <1>5, OpenKinds
    <2>2. CASE e \in DOMAIN m.body
      <3>1. IF m.body[e] = Removed THEN e \notin DOMAIN tabs' ELSE e \in DOMAIN tabs' /\ tabs'[e] = m.body[e]
        BY <1>5, <2>2, TabIsAsTold
      <3>2. IF e \in DOMAIN open[x] THEN m.body[e] = open[x][e] /\ m.body[e] # Removed ELSE m.body[e] = Removed
        BY <2>1, <2>2, OpenKinds DEF Is
      <3> QED BY <2>1, <3>1, <3>2 DEF Stored
    <2>3. CASE e \notin DOMAIN m.body
      <3>1. Stored(x, e)
        BY <2>3
      <3>2. /\ e \in DOMAIN tabs <=> e \in DOMAIN tabs'
            /\ e \in DOMAIN tabs' => tabs'[e] = tabs[e]
        BY <1>1, <1>3, <2>3 DEF FromMessage
      <3> QED BY <2>1, <1>5, <3>1, <3>2 DEF Stored
    <2> QED BY <2>2, <2>3
  <1> QED BY <1>4, <1>5, OpenKinds

\* So does a full_state, and it reaps the rest.
LEMMA FullStateStores ==
    ASSUME Inv, NEW x \in Ext, Cell(x), NEW m, StoredOwn(x, m), m.type = "full_state", Upserts(m.body),
           \A w \in StoreMentions(x) : Names(x, m.body, w),
           open'[x] = open[x]
    PROVE  /\ \A w \in Windows(open[x]) \cap DOMAIN wins' : wins'[w] = Own(x)
           /\ \A e \in OwnEntry(x) : Word(m.body, e) = Is(x, e) => Stored(x, e)'
  <1>1. \A w \in DOMAIN wins' : w \in DOMAIN m.body \/ (w \in DOMAIN wins /\ wins'[w] = wins[w])
    BY WindowsAreAsTold
  <1>2. \A w \in Windows(open[x]) : w \in StoreMentions(x) => w \in DOMAIN m.body
    BY DEF Names, Cell, Ids
  <1>3. ASSUME NEW w \in Windows(open[x]), w \in DOMAIN wins' PROVE wins'[w] = Own(x)
    <2>1. w \in idsOf[x]
      BY OpenKinds
    <2>2. w \in DOMAIN m.body
      BY <1>1, <1>2, <1>3, <2>1 DEF StoreMentions
    <2> QED BY <1>3, <2>2, ToldWindowIsOwn
  <1>4. \A w \in DOMAIN m.body \cap WindowId : w \in DOMAIN wins'
    BY NamedStay DEF StoredOwn, Upserts
  <1>5. ASSUME NEW e \in OwnEntry(x), Word(m.body, e) = Is(x, e) PROVE Stored(x, e)'
    <2>1. CASE e \in WindowId
      <3>1. e \notin TabKey /\ e \notin DOMAIN open[x]
        BY <2>1, OpenKinds
      <3>2. CASE e \in Windows(open[x])
        <4>1. e \in DOMAIN m.body
          BY <1>5, <3>1, <3>2, CaptureAssumption DEF Is, Word
        <4> QED BY <1>3, <1>4, <2>1, <3>1, <3>2, <4>1 DEF Stored, Own
      <3>3. CASE e \notin Windows(open[x])
        <4>1. e \notin DOMAIN m.body
          BY <1>5, <3>1, <3>3 DEF Is, Word, Upserts
        <4>2. ~(e \in DOMAIN wins' /\ wins'[e] = Own(x))
          BY <4>1, FullStateReapsWindows DEF StoredOwn, Own
        <4> QED BY <3>1, <3>3, <4>2 DEF Stored, Own
      <3> QED BY <3>2, <3>3
    <2>2. CASE e \in TabKey
      <3>1. e \notin WindowId /\ e \notin Windows(open[x]) /\ e[1] \in idsOf[x]
        BY <2>2, OpenKinds
      <3>2. CASE e \in DOMAIN open[x]
        <4>1. e \in DOMAIN m.body /\ m.body[e] = open[x][e] /\ m.body[e] # Removed
          BY <1>5, <3>2, OpenKinds DEF Is, Word
        <4>2. e \in DOMAIN tabs' /\ tabs'[e] = open[x][e]
          BY <2>2, <4>1, TabIsAsTold
        <4> QED BY <3>1, <3>2, <4>2 DEF Stored
      <3>3. CASE e \notin DOMAIN open[x]
        <4>1. e \notin DOMAIN m.body
          BY <1>5, <3>1, <3>3 DEF Is, Word, Upserts
        <4>2. ASSUME e \in DOMAIN tabs', e[1] \in Windows(open[x]) PROVE FALSE
          <5>1. e \in DOMAIN tabs
            BY <4>1, <4>2, TabAfter DEF StoredOwn, FromMessage
          <5>2. e[1] \in DOMAIN m.body
            BY <1>2, <3>1, <4>2, <5>1 DEF StoreMentions
          <5>3. e[1] \in DOMAIN wins' /\ wins'[e[1]] = Own(x)
            BY <1>3, <1>4, <4>2, <5>2, OpenKinds
          <5> QED BY <4>1, <4>2, <5>3, FullStateReaps DEF StoredOwn, Own
        <4> QED BY <3>1, <3>3, <4>2 DEF Stored
      <3> QED BY <3>2, <3>3
    <2> QED BY <2>1, <2>2, OpenKinds
  <1> QED BY <1>3, <1>5

\* What reading message m of x does to its line.
Reading(x, m) ==
    /\ open'[x] = open[x] /\ gone'[x] = gone[x] /\ stage'[x] = stage[x]
    /\ events'[x] = events[x] /\ pending'[x] = pending[x] /\ lookups'[x] = lookups[x]
    /\ recon'[x] = recon[x] /\ old'[x] = old[x] /\ mirror'[x] = mirror[x] /\ overtaken'[x] = overtaken[x]
    /\ chan[x] \in Seq(OwnMsg(x)) /\ chan[x] # <<>> /\ m = Head(chan[x]) /\ m \in OwnMsg(x)
    /\ chan'[x] = Tail(chan[x])
    /\ ckey[x] \in {x, RelayKey, NoKey} /\ ckey'[x] = KeyAfter(x, ckey[x], m)
    /\ trusted'[x] = IF m.type = "full_state" THEN m.fresh /\ ckey[x] = x ELSE trusted[x]
    /\ Receive(x, ckey[x], m)

LEMMA DeliverReads ==
    ASSUME Inv, NEW x \in Ext, Deliver(x), NEW m, m = Head(chan[x]) PROVE Reading(x, m)
  <1>1. /\ chan[x] \in Seq(OwnMsg(x)) /\ chan[x] # <<>> /\ ckey[x] \in {x, RelayKey, NoKey}
        /\ DOMAIN chan = Ext /\ DOMAIN ckey = Ext /\ DOMAIN trusted = Ext
    BY DEF Deliver, Inv, PipeInv, PipeCell, Scalars
  <1>2. m \in OwnMsg(x)
    BY <1>1, HeadTailProperties
  <1>3. /\ chan'[x] = Tail(chan[x]) /\ ckey'[x] = KeyAfter(x, ckey[x], m) /\ Receive(x, ckey[x], m)
    BY <1>1 DEF Deliver
  <1>4. trusted'[x] = IF m.type = "full_state" THEN m.fresh /\ ckey[x] = x ELSE trusted[x]
    BY <1>1 DEF Deliver
  <1>5. /\ open' = open /\ gone' = gone /\ stage' = stage /\ events' = events /\ pending' = pending
        /\ lookups' = lookups /\ recon' = recon /\ old' = old /\ mirror' = mirror /\ overtaken' = overtaken
    BY DEF Deliver, browserVars, workerVars
  <1> QED BY <1>1, <1>2, <1>3, <1>4, <1>5 DEF Reading

\* What is read is mentioned where it was: in the rows or in the message.
LEMMA ReadingMentions ==
    ASSUME Inv, NEW x \in Ext, NEW m, Reading(x, m)
    PROVE  StoreMentions(x)' \subseteq StoreMentions(x) \cup Mentions(m.body)
  <1>1. CASE m.type = "hello"
    <2>1. wins' = wins /\ tabs' = tabs
      BY <1>1 DEF Reading, Receive, storeVars
    <2> QED BY <2>1 DEF StoreMentions
  <1>2. CASE m.type # "hello"
    <2>1. PICK key : key = KeyAfter(x, ckey[x], m)
      OBVIOUS
    <2>2. key \in {x, RelayKey}
      BY <2>1, KeyStays DEF Reading
    <2>3. Apply(x, key, m) /\ Told(x, m, key)
      BY <1>2, <2>1, <2>2 DEF Reading, Receive, Told
    <2> QED BY <2>3, MessageMentions DEF Inv
  <1> QED BY <1>1, <1>2

\* A trusted line is read under x's own key.
LEMMA ReadingOwn ==
    ASSUME Inv, OwnRows, NEW x \in Ext, NEW m, Reading(x, m), m.type # "hello", ckey[x] = x
    PROVE  StoredOwn(x, m)
  <1>1. KeyAfter(x, ckey[x], m) = x
    BY KeyStays
  <1> QED BY <1>1 DEF Reading, Receive, Told, StoredOwn, Inv

LEMMA ReadingKeepsStore ==
    ASSUME Inv, OwnRows, NEW x \in Ext, Cell(x), NEW m, Reading(x, m) PROVE StoreGood(x)'
  <1> DEFINE c == chan[x]
  <1>0. c \in Seq(OwnMsg(x)) /\ c # <<>> /\ m = Head(c) /\ m \in OwnMsg(x)
    BY DEF Reading
  <1>1. \A e : (Heard(x, e)' <=> Heard(x, e)) /\ (Awaited(x, e)' <=> Awaited(x, e))
    BY DEF Reading, Heard, Fired, Awaited
  <1>2. SUFFICES ASSUME trusted'[x]
                 PROVE  /\ ckey'[x] = x
                        /\ \A w \in Windows(open[x]) \cap DOMAIN wins' : wins'[w] = Own(x)
                        /\ \A e \in OwnEntry(x) :
                              Silent(Tail(c), e) => Heard(x, e) \/ Awaited(x, e) \/ Stored(x, e)'
    BY <1>1 DEF Reading, StoreGood
  <1>3. m.type = "hello" => m.type # "full_state" /\ m.type # "tab_delta"
    OBVIOUS
  <1>4. ckey[x] = x /\ (m.type # "full_state" => trusted[x]) /\ (m.type = "full_state" => m.fresh)
    BY <1>2 DEF Reading, Cell, Line, StoreGood
  <1>5. ckey'[x] = x
    BY <1>4, KeyStays DEF Reading, KeyAfter
  <1>6. ASSUME NEW e \in OwnEntry(x), Silent(Tail(c), e), Speaks(m, e)
        PROVE  Heard(x, e) \/ Awaited(x, e) \/ Word(m.body, e) = Is(x, e)
    <2>1. PICK d : d = Word(m.body, e)
      OBVIOUS
    <2>2. LastWord(c, e, d)
      BY <1>0, <1>6, <2>1, HeadIsLast
    <2>3. d \in Delta /\ e \in Entry
      <3>1. IsBody(m.body)
        BY <1>0, BodyElim DEF OwnMsg
      <3> QED BY <2>1, <3>1, ConstantTypes DEF Word, IsBody, Delta
    <2> QED BY <2>1, <2>2, <2>3 DEF Cell, Line, PipeGood, Good
  <1>7. CASE m.type = "hello"
    <2>1. wins' = wins /\ tabs' = tabs /\ open'[x] = open[x]
      BY <1>7 DEF Reading, Receive, storeVars
    <2>2. \A e : Stored(x, e)' <=> Stored(x, e)
      BY <2>1 DEF Stored
    <2>3. \A e : ~Speaks(m, e)
      BY <1>3, <1>7 DEF Speaks, Fresh
    <2>4. \A e : Silent(Tail(c), e) => Silent(c, e)
      BY <1>0, <2>3, SilentTail
    <2> QED BY <1>3, <1>4, <1>5, <1>7, <2>1, <2>2, <2>4 DEF Cell, Line, StoreGood
  <1>8. CASE m.type = "tab_delta"
    <2>1. StoredOwn(x, m) /\ m.type # "full_state" /\ trusted[x]
      BY <1>4, <1>8, ReadingOwn
    <2>2. ASSUME NEW w \in Windows(open[x]) \cap DOMAIN wins' PROVE wins'[w] = Own(x)
      <3>1. CASE w \in DOMAIN m.body
        BY <2>1, <3>1, ToldWindowIsOwn
      <3>2. CASE w \notin DOMAIN m.body
        BY <2>1, <3>2, WindowsAreAsTold DEF Cell, Line, StoreGood
      <3> QED BY <3>1, <3>2
    <2>3. ASSUME NEW e \in OwnEntry(x), Silent(Tail(c), e), ~Heard(x, e), ~Awaited(x, e)
          PROVE  Stored(x, e)'
      <3>1. e \in DOMAIN m.body => m.body[e] = Is(x, e)
        BY <1>6, <1>8, <2>3 DEF Speaks, Word
      <3>2. e \notin DOMAIN m.body => Stored(x, e)
        <4>1. e \notin DOMAIN m.body => ~Speaks(m, e)
          BY <1>8 DEF Speaks, Fresh
        <4>2. e \notin DOMAIN m.body => Silent(c, e)
          BY <1>0, <2>3, <4>1, SilentTail
        <4> QED BY <2>1, <2>3, <4>2 DEF Cell, Line, StoreGood
      <3>3. open'[x] = open[x]
        BY DEF Reading
      <3> QED BY <2>1, <3>1, <3>2, <3>3, DeltaStores
    <2> QED BY <1>5, <2>2, <2>3
  <1>9. CASE m.type = "full_state"
    <2>1. StoredOwn(x, m) /\ m.fresh /\ Fresh(m)
      BY <1>4, <1>9, ReadingOwn DEF Fresh
    <2>2. Upserts(m.body) /\ \A w \in StoreMentions(x) : Names(x, m.body, w)
      <3>1. Len(c) \in Nat /\ Len(c) >= 1 /\ m = c[1]
        BY <1>0, TailIs
      <3>2. 1 \in 1 .. Len(c)
        BY <3>1
      <3> QED BY <2>1, <3>1, <3>2 DEF Cell, Named
    <2>3. open'[x] = open[x]
      BY DEF Reading
    <2>4. /\ \A w \in Windows(open[x]) \cap DOMAIN wins' : wins'[w] = Own(x)
          /\ \A e \in OwnEntry(x) : Word(m.body, e) = Is(x, e) => Stored(x, e)'
      BY <1>9, <2>1, <2>2, <2>3, FullStateStores
    <2>5. \A e : Speaks(m, e)
      BY <2>1 DEF Speaks
    <2> QED BY <1>5, <1>6, <2>4, <2>5
  <1> QED BY <1>0, <1>7, <1>8, <1>9 DEF OwnMsg

LEMMA DeliverKeeps ==
    ASSUME Inv, OwnRows, NEW x \in Ext, Cell(x), Deliver(x) PROVE Cell(x)'
  <1>0. PICK m : m = Head(chan[x])
    OBVIOUS
  <1> DEFINE c == chan[x]
  <1>1. Reading(x, m)
    BY <1>0, DeliverReads
  <1>2. c \in Seq(OwnMsg(x)) /\ c # <<>> /\ chan'[x] = Tail(c)
    BY <1>1 DEF Reading
  <1>3. /\ Len(c) \in Nat /\ Len(c) >= 1 /\ Len(Tail(c)) = Len(c) - 1
        /\ \A i \in 1 .. Len(Tail(c)) : Tail(c)[i] = c[i + 1]
        /\ m = c[1]
    BY <1>0, <1>2, TailIs
  <1>4. 1 \in 1 .. Len(c) /\ \A i \in 1 .. Len(Tail(c)) : i + 1 \in 1 .. Len(c) /\ 1 < i + 1
    BY <1>3
  <1>5. /\ \A e : (Awaited(x, e)' <=> Awaited(x, e)) /\ (Heard(x, e)' <=> Heard(x, e))
        /\ \A e : (Fired(x, e)' <=> Fired(x, e)) /\ Is(x, e)' = Is(x, e)
        /\ Past(x)' = Past(x) /\ Ids(x)' /\ (Running(x)' <=> Running(x))
    BY <1>1 DEF Reading, Awaited, Heard, Fired, Is, Past, Ids, Cell, Running
  <1>6. /\ \A e, d : Good(x, e, d)' <=> Good(x, e, d)
        /\ \A b, w : Names(x, b, w)' <=> Names(x, b, w)
    BY <1>1, <1>5 DEF Reading, Good, Names
  <1>7. Unattached(x)'
    <2>1. ASSUME stage[x] # "up" PROVE ~trusted'[x] /\ \A e \in Entry : Silent(Tail(c), e)
      <3>1. \A e \in Entry : ~Speaks(m, e) /\ Silent(Tail(c), e)
        BY <1>0, <1>2, <2>1, SilentTail DEF Cell, Unattached
      <3>2. PICK e \in idsOf[x] : e \in Entry
        BY CaptureAssumption, ConstantTypes DEF Entry
      <3>3. ~Fresh(m)
        BY <3>1, <3>2 DEF Speaks
      <3> QED BY <1>1, <2>1, <3>1, <3>3 DEF Reading, Fresh, Cell, Unattached
    <2> QED BY <1>1, <1>2, <1>5, <2>1 DEF Reading, Cell, Unattached
  <1>8. EventsGood(x)'
    BY <1>1, <1>5 DEF Reading, Cell, Line, EventsGood
  <1>9. OutboxGood(x)'
    BY <1>1, <1>5, <1>6 DEF Reading, Cell, Line, OutboxGood
  <1>10. ReadGood(x)'
    BY <1>1, <1>5, <1>6 DEF Reading, Cell, Line, ReadGood
  <1>11. PipeGood(x)'
    BY <1>2, <1>5, <1>6, LastOfTail DEF Cell, Line, PipeGood
  <1>12. StoreGood(x)'
    BY <1>1, ReadingKeepsStore
  <1>13. StoreMentions(x)' \subseteq StoreMentions(x) \cup Mentions(m.body)
    BY <1>1, ReadingMentions
  <1>14. Mentioned(x)'
    <2>1. Mentions(m.body) \subseteq Past(x)
      BY <1>3, <1>4 DEF Cell, Mentioned
    <2>2. ASSUME NEW i \in 1 .. Len(Tail(c)) PROVE Mentions(Tail(c)[i].body) \subseteq Past(x)
      BY <1>3, <1>4 DEF Cell, Mentioned
    <2> QED BY <1>1, <1>2, <1>5, <1>13, <2>1, <2>2 DEF Reading, Cell, Mentioned
  <1>15. Named(x)'
    <2>1. ASSUME Running(x)
          PROVE  /\ \A w \in StoreMentions(x)' : Names(x, recon[x][1], w)
                 /\ \A i \in 1 .. Len(Tail(c)) : \A w \in Mentions(Tail(c)[i].body) : Names(x, recon[x][1], w)
      <3>1. \A w \in Mentions(m.body) : Names(x, recon[x][1], w)
        BY <1>3, <1>4, <2>1 DEF Cell, Named
      <3> QED BY <1>3, <1>4, <1>13, <2>1, <3>1 DEF Cell, Named
    <2>2. ASSUME NEW j \in 1 .. Len(Tail(c)), Fresh(Tail(c)[j])
          PROVE  /\ Upserts(Tail(c)[j].body)
                 /\ \A w \in StoreMentions(x)' : Names(x, Tail(c)[j].body, w)
                 /\ \A i \in 1 .. Len(Tail(c)) : i < j =>
                       \A w \in Mentions(Tail(c)[i].body) : Names(x, Tail(c)[j].body, w)
      <3>1. PICK k \in 1 .. Len(c) : k = j + 1 /\ c[k] = Tail(c)[j] /\ 1 < k
        BY <1>3, <1>4
      <3>2. \A w \in Mentions(m.body) : Names(x, c[k].body, w)
        BY <1>3, <1>4, <2>2, <3>1 DEF Cell, Named
      <3>3. ASSUME NEW i \in 1 .. Len(Tail(c)), i < j
            PROVE  i + 1 \in 1 .. Len(c) /\ i + 1 < k /\ Tail(c)[i] = c[i + 1]
        BY <1>3, <1>4, <3>1, <3>3
      <3>4. /\ Upserts(c[k].body)
            /\ \A w \in StoreMentions(x) : Names(x, c[k].body, w)
            /\ \A i \in 1 .. Len(c) : i < k => \A w \in Mentions(c[i].body) : Names(x, c[k].body, w)
        BY <2>2, <3>1 DEF Cell, Named
      <3> QED BY <1>13, <3>1, <3>2, <3>3, <3>4
    <2> QED BY <1>1, <1>2, <1>5, <1>6, <2>1, <2>2 DEF Reading, Named
  <1> QED BY <1>5, <1>7, <1>8, <1>9, <1>10, <1>11, <1>12, <1>14, <1>15 DEF Cell, Line
-----------------------------------------------------------------------------
(* The line of x while another profile y steps.                            *)

\* y's outbox leaves x's line alone.
OutboxApart(x) ==
    pending'[x] = pending[x] /\ mirror'[x] = mirror[x] /\ chan'[x] = chan[x] /\ overtaken'[x] = overtaken[x]

LEMMA FlushApart ==
    ASSUME Inv, NEW x \in Ext, NEW y \in Ext, x # y, NEW p, Flush(y, p) PROVE OutboxApart(x)
  <1>1. CASE CanSend(y)
    BY <1>1 DEF Flush, Post, OutboxApart, Inv, OutboxInv, PipeInv, Scalars
  <1>2. CASE ~CanSend(y)
    BY <1>2 DEF Flush, OutboxApart, Inv, OutboxInv, PipeInv, Scalars
  <1> QED BY <1>1, <1>2

LEMMA TouchApart ==
    ASSUME Inv, NEW x \in Ext, NEW y \in Ext, x # y, NEW e, NEW d, Touch(y, e, d) PROVE OutboxApart(x)
  <1> DEFINE p == Merge([i \in {e} |-> d], pending[y])
             full == Cardinality(DOMAIN p) >= MaxPending
  <1>1. CASE full /\ flushing[y] = "no"
    BY <1>1, FlushApart DEF Touch
  <1>2. CASE ~(full /\ flushing[y] = "no")
    <2>1. /\ pending' = [pending EXCEPT ![y] = p] /\ mirror' = [mirror EXCEPT ![y] = p]
          /\ chan' = chan /\ overtaken' = overtaken
      BY <1>2 DEF Touch
    <2> HIDE DEF p
    <2> QED BY <2>1 DEF OutboxApart, Inv, OutboxInv
  <1> QED BY <1>1, <1>2

LEMMA OutboxStepApart ==
    ASSUME Inv, NEW x \in Ext, NEW y \in Ext, x # y, Hear(y) \/ Lookup(y) \/ FlushTimer(y)
    PROVE  SameFor(x) /\ storeVars' = storeVars
  <1>1. CASE Hear(y)
    <2>1. OutboxApart(x)
      BY <1>1, TouchApart DEF Hear
    <2> QED BY <1>1, <2>1 DEF Hear, SameFor, OutboxApart, browserVars, Inv, EventInv
  <1>2. CASE Lookup(y)
    <2>1. OutboxApart(x)
      <3>1. CASE UNCHANGED outboxVars
        BY <3>1 DEF outboxVars, OutboxApart
      <3>2. CASE \E e, d : Touch(y, e, d)
        BY <3>2, TouchApart
      <3> QED BY <1>2, <3>1, <3>2 DEF Lookup
    <2>2. lookups'[x] = lookups[x]
      BY <1>2 DEF Lookup, Inv, EventInv
    <2> QED BY <1>2, <2>1, <2>2 DEF Lookup, SameFor, OutboxApart, browserVars
  <1>3. CASE FlushTimer(y)
    <2>1. OutboxApart(x)
      <3>1. CASE UNCHANGED <<pending, mirror, chan, overtaken>>
        BY <3>1 DEF OutboxApart
      <3>2. CASE Flush(y, pending[y])
        BY <3>2, FlushApart
      <3> QED BY <1>3, <3>1, <3>2 DEF FlushTimer
    <2> QED BY <1>3, <2>1 DEF FlushTimer, SameFor, OutboxApart, browserVars
  <1> QED BY <1>1, <1>2, <1>3

LEMMA ChangeApart ==
    ASSUME Inv, NEW x \in Ext, NEW y \in Ext, x # y, NEW n, NEW fired, Change(y, n, fired)
    PROVE  SameFor(x) /\ storeVars' = storeVars
  <1>1. open'[x] = open[x] /\ gone'[x] = gone[x] /\ events'[x] = events[x]
    BY DEF Change, NowOpen, Inv, BrowserInv, EventInv
  <1> QED BY <1>1 DEF Change, SameFor, outboxVars

LEMMA WorkerStepApart ==
    ASSUME Inv, NEW x \in Ext, NEW y \in Ext, x # y,
           \/ Wake(y) \/ Boot(y) \/ FlushDone(y) \/ SayHello(y) \/ ReconcileRead(y) \/ ReconcileSend(y)
           \/ Reconnect(y) \/ Disconnect(y)
    PROVE  SameFor(x) /\ storeVars' = storeVars
  <1> USE DEF SameFor, browserVars, pipeVars, obsVars
  <1>1. CASE Wake(y) \/ Boot(y) \/ FlushDone(y) \/ Reconnect(y)
    BY <1>1 DEF Wake, Boot, FlushDone, Reconnect, Inv, Scalars, OutboxInv
  <1>2. CASE SayHello(y)
    BY <1>2 DEF SayHello, Post, Inv, PipeInv
  <1>3. CASE ReconcileRead(y)
    BY <1>3 DEF ReconcileRead, Inv, PipeInv, Scalars
  <1>4. CASE ReconcileSend(y)
    BY <1>4 DEF ReconcileSend, Post, Inv, PipeInv
  <1>5. CASE Disconnect(y)
    BY <1>5 DEF Disconnect, Inv, PipeInv, Scalars
  <1> QED BY <1>1, <1>2, <1>3, <1>4, <1>5

\* The rows of x that a message of y finds stay as they are.
LEMMA RowsApart ==
    ASSUME Inv, NEW x \in Ext, NEW y \in Ext, x # y, Cell(x), open'[x] = open[x],
           NEW key, NEW m, Told(y, m, key), Apply(y, key, m)
    PROVE  RowsKeep(x)
  <1>1. Rows /\ m.body \in OwnBody(y) /\ key # x
    BY CaptureAssumption DEF Inv, Told, OwnMsg, Key
  <1>2. ASSUME NEW w \in idsOf[x] PROVE w \notin DOMAIN m.body /\ w \notin idsOf[y]
    <2>1. w \in WindowId /\ w \notin idsOf[y]
      BY OneOwner, ConstantTypes
    <2> QED BY <1>1, <2>1, OwnBodyEntries
  <1>3. ASSUME NEW k \in TabKey, k[1] \in idsOf[x] PROVE k \notin DOMAIN m.body /\ ~FromMessage(y, m, k)
    <2>1. k \notin idsOf[y] \X TabId
      BY <1>2, <1>3, TabIsOwn
    <2> QED BY <1>1, <2>1, OwnBodyEntries DEF FromMessage
  <1>4. /\ \A w \in DOMAIN wins' : w \in idsOf[y] \/ (w \in DOMAIN wins /\ wins'[w] = wins[w])
        /\ \A w \in DOMAIN wins \ DOMAIN wins' :
              w \in DOMAIN m.body \/ wins[w] = [browser |-> browserOf[y], key |-> key]
    BY <1>1, WinsAfter
  <1>5. /\ \A k \in DOMAIN tabs' : FromMessage(y, m, k) \/ (k \in DOMAIN tabs /\ tabs'[k] = tabs[k])
        /\ \A k \in DOMAIN tabs \ DOMAIN tabs' :
              \/ k \in DOMAIN m.body \/ k[1] \in DOMAIN m.body
              \/ k[1] \in DOMAIN wins /\ wins[k[1]] = [browser |-> browserOf[y], key |-> key]
    BY <1>1, TabsAfter DEF TabsTold
  <1>6. Own(x) # [browser |-> browserOf[y], key |-> key]
    BY <1>1 DEF Own
  <1>7. \A w \in idsOf[x] \cap DOMAIN wins' : w \in DOMAIN wins /\ wins'[w] = wins[w]
    BY <1>2, <1>4
  <1>8. \A k \in DOMAIN tabs' : k[1] \in idsOf[x] => k \in DOMAIN tabs /\ tabs'[k] = tabs[k]
    BY <1>2, <1>5, TabIsOwn DEF FromMessage
  <1>9. \A w \in Windows(open[x]) : w \in idsOf[x]
    BY OpenKinds
  <1>10. StoreMentions(x)' \subseteq StoreMentions(x)
    BY <1>7, <1>8 DEF StoreMentions
  <1>11. ASSUME trusted[x], NEW e \in OwnEntry(x), Stored(x, e) PROVE Stored(x, e)'
    <2>1. CASE e \in WindowId
      <3>1. e \in idsOf[x] /\ e \notin TabKey
        BY <2>1, OpenKinds
      <3>2. e \in DOMAIN wins /\ wins[e] = Own(x) => e \in DOMAIN wins' /\ wins'[e] = Own(x)
        BY <1>2, <1>4, <1>6, <1>7, <3>1
      <3>3. e \in DOMAIN wins' => e \in DOMAIN wins /\ wins'[e] = wins[e]
        BY <1>7, <3>1
      <3> QED BY <1>11, <2>1, <3>1, <3>2, <3>3 DEF Stored, Own
    <2>2. CASE e \in TabKey
      <3>1. e[1] \in idsOf[x] /\ e \notin WindowId
        BY <2>2, OpenKinds
      <3>2. e \in DOMAIN tabs' => e \in DOMAIN tabs /\ tabs'[e] = tabs[e]
        BY <1>8, <3>1
      <3>3. CASE e \in DOMAIN open[x]
        <4>1. e[1] \in Windows(open[x])
          BY <3>3 DEF Windows
        <4>2. e[1] \in DOMAIN wins => wins[e[1]] = Own(x)
          BY <1>11, <4>1 DEF Cell, Line, StoreGood
        <4>3. e \in DOMAIN tabs /\ tabs[e] = open[x][e]
          BY <1>11, <2>2, <3>3 DEF Stored
        <4>4. e \in DOMAIN tabs'
          BY <1>2, <1>3, <1>5, <1>6, <2>2, <3>1, <4>2, <4>3
        <4> QED BY <3>1, <3>2, <3>3, <4>3, <4>4 DEF Stored
      <3>4. CASE e \notin DOMAIN open[x]
        BY <1>11, <2>2, <3>1, <3>2, <3>4 DEF Stored
      <3> QED BY <3>3, <3>4
    <2> QED BY <2>1, <2>2, OpenKinds
  <1> QED BY <1>7, <1>9, <1>10, <1>11 DEF RowsKeep

LEMMA DeliverApart ==
    ASSUME Inv, NEW x \in Ext, NEW y \in Ext, x # y, Cell(x), Deliver(y) PROVE Cell(x)'
  <1>0. PICK m : m = Head(chan[y])
    OBVIOUS
  <1>1. Reading(y, m)
    BY <1>0, DeliverReads
  <1>2. SameFor(x)
    BY DEF Deliver, SameFor, browserVars, workerVars, Inv, PipeInv, Scalars
  <1>3. open'[x] = open[x]
    BY <1>2 DEF SameFor
  <1>4. CASE m.type = "hello"
    <2>1. storeVars' = storeVars
      BY <1>1, <1>4 DEF Reading, Receive
    <2> QED BY <1>2, <1>3, <2>1, SameRowsKeep, Framed
  <1>5. CASE m.type # "hello"
    <2>1. PICK key : key = KeyAfter(y, ckey[y], m)
      OBVIOUS
    <2>2. key \in {y, RelayKey}
      BY <1>1, <2>1, KeyStays DEF Reading
    <2>3. Apply(y, key, m) /\ Told(y, m, key)
      BY <1>1, <1>5, <2>1, <2>2 DEF Reading, Receive, Told
    <2>4. RowsKeep(x)
      BY <1>3, <2>3, RowsApart
    <2> QED BY <1>2, <2>4, Framed
  <1> QED BY <1>4, <1>5
-----------------------------------------------------------------------------
(* What the user does.                                                     *)

In(s, v) == \E i \in 1 .. Len(s) : s[i] = v

LEMMA InAppend ==
    ASSUME NEW S, NEW s \in Seq(S), NEW u \in S, NEW v
    PROVE  In(Append(s, u), v) <=> In(s, v) \/ v = u
  <1>1. /\ Len(s) \in Nat /\ Len(Append(s, u)) = Len(s) + 1
        /\ \A i \in 1 .. Len(s) : Append(s, u)[i] = s[i]
        /\ Append(s, u)[Len(s) + 1] = u
    BY AppendIs
  <1>2. \A i \in 1 .. Len(s) + 1 : i \in 1 .. Len(s) \/ i = Len(s) + 1
    BY <1>1
  <1>3. 1 .. Len(s) \subseteq 1 .. Len(s) + 1 /\ Len(s) + 1 \in 1 .. Len(s) + 1
    BY <1>1
  <1> QED BY <1>1, <1>2, <1>3 DEF In

LEMMA InConcat ==
    ASSUME NEW S, NEW s \in Seq(S), NEW t \in Seq(S), NEW v
    PROVE  In(s \o t, v) <=> In(s, v) \/ In(t, v)
  <1>1. /\ Len(s) \in Nat /\ Len(t) \in Nat /\ Len(s \o t) = Len(s) + Len(t)
        /\ \A i \in 1 .. Len(s) + Len(t) : (s \o t)[i] = IF i <= Len(s) THEN s[i] ELSE t[i - Len(s)]
    BY ConcatProperties, LenProperties
  <1>2. ASSUME NEW i \in 1 .. Len(s \o t), (s \o t)[i] = v PROVE In(s, v) \/ In(t, v)
    <2>1. CASE i <= Len(s)
      <3>1. i \in 1 .. Len(s)
        BY <1>1, <2>1
      <3> QED BY <1>1, <1>2, <2>1, <3>1 DEF In
    <2>2. CASE ~(i <= Len(s))
      <3>1. i - Len(s) \in 1 .. Len(t)
        BY <1>1, <2>2
      <3> QED BY <1>1, <1>2, <2>2, <3>1 DEF In
    <2> QED BY <2>1, <2>2
  <1>3. ASSUME NEW i \in 1 .. Len(s), s[i] = v PROVE In(s \o t, v)
    <2>1. i \in 1 .. Len(s \o t) /\ i <= Len(s)
      BY <1>1
    <2> QED BY <1>1, <1>3, <2>1 DEF In
  <1>4. ASSUME NEW i \in 1 .. Len(t), t[i] = v PROVE In(s \o t, v)
    <2>1. /\ i + Len(s) \in 1 .. Len(s \o t) /\ ~(i + Len(s) <= Len(s))
          /\ (i + Len(s)) - Len(s) = i
      BY <1>1
    <2>2. (s \o t)[i + Len(s)] = t[i]
      BY <1>1, <2>1
    <2> QED BY <1>4, <2>1, <2>2 DEF In
  <1> QED BY <1>2, <1>3, <1>4 DEF In

LEMMA InSmall ==
    ASSUME NEW v
    PROVE  /\ ~In(<<>>, v)
           /\ \A a : In(<<a>>, v) <=> v = a
           /\ \A a, b : In(<<a, b>>, v) <=> v = a \/ v = b
  <1>1. ~In(<<>>, v)
    BY DEF In
  <1>2. ASSUME NEW a PROVE In(<<a>>, v) <=> v = a
    <2>1. Len(<<a>>) = 1 /\ <<a>>[1] = a /\ \A i \in 1 .. 1 : i = 1
      OBVIOUS
    <2> QED BY <2>1 DEF In
  <1>3. ASSUME NEW a, NEW b PROVE In(<<a, b>>, v) <=> v = a \/ v = b
    <2>1. Len(<<a, b>>) = 2 /\ <<a, b>>[1] = a /\ <<a, b>>[2] = b /\ \A i \in 1 .. 2 : i = 1 \/ i = 2
      OBVIOUS
    <2>2. 1 \in 1 .. 2 /\ 2 \in 1 .. 2
      OBVIOUS
    <2> QED BY <2>1, <2>2 DEF In
  <1> QED BY <1>1, <1>2, <1>3

LEMMA InSetToSeq ==
    ASSUME NEW S, IsFiniteSet(S), NEW v PROVE In(SetToSeq(S), v) <=> v \in S
  <1>1. PICK n \in Nat : ExistsBijection(1 .. n, S)
    BY FS_NatBijection
  <1>2. Cardinality(S) = n
    BY <1>1, FS_CountingElements
  <1>3. PICK f : f \in Bijection(1 .. n, S)
    BY <1>1 DEF ExistsBijection
  <1>4. f \in [1 .. Cardinality(S) -> S] /\ IsInjective(f)
    BY <1>2, <1>3 DEF Bijection, Injection, IsInjective
  <1>5. PICK q : q = SetToSeq(S)
    OBVIOUS
  <1>6. q \in [1 .. n -> S] /\ IsInjective(q)
    BY <1>2, <1>4, <1>5 DEF SetToSeq
  <1>7. q \in Injection(1 .. n, S)
    BY <1>6 DEF Injection, IsInjective
  <1>8. Cardinality(1 .. n) = n
    BY FS_Interval
  <1>9. q \in Surjection(1 .. n, S)
    BY <1>2, <1>7, <1>8, FS_Injection
  <1>10. Len(q) = n
    <2>1. q \in Seq(S)
      BY <1>6, SeqDef
    <2>2. Len(q) \in Nat /\ 1 .. Len(q) = 1 .. n
      BY <1>6, <2>1, LenProperties
    <2>3. n > 0 => n \in 1 .. Len(q)
      BY <2>2
    <2>4. Len(q) > 0 => Len(q) \in 1 .. n
      BY <2>2
    <2> QED BY <2>2, <2>3, <2>4
  <1> QED BY <1>5, <1>6, <1>9, <1>10 DEF In, Surjection

\* The browser shows n from now on, and what it fires tells all of it: what no
\* event is about stays as it is.
SameIn(x, n, e) ==
    /\ e \in DOMAIN n <=> e \in DOMAIN open[x]
    /\ e \in DOMAIN n => n[e] = open[x][e]
    /\ e \in Windows(n) <=> e \in Windows(open[x])

Tell(n, v) ==
    IF v.says = "attached" THEN v.on \in DOMAIN n
    ELSE v.says = IF v.on \in DOMAIN n THEN n[v.on] ELSE IF v.on \in Windows(n) THEN Shown ELSE Removed

Reported(x, n, fired) ==
    /\ n \in OwnOpen(x)
    /\ \A e : (\A v : In(fired, v) => v.on # e) => SameIn(x, n, e)
    /\ \A v : In(fired, v) => Tell(n, v) /\ WindowOf(v.on) \in Windows(open[x]) \cup Windows(n)
    /\ \A w \in Windows(n) : w \in gone[x] => w \in Windows(open[x])
    /\ \A j, k \in DOMAIN n : j[2] = k[2] => j = k

LEMMA ChangedOpen ==
    ASSUME Inv, NEW x \in Ext, Cell(x), NEW n, NEW fired, Change(x, n, fired), Reported(x, n, fired)
    PROVE  /\ open'[x] = n /\ gone[x] \subseteq gone'[x]
           /\ Windows(open[x]) \subseteq Windows(n) \cup gone'[x]
           /\ Windows(n) \cap gone'[x] = {}
           /\ events[x] = <<>> /\ events'[x] = IF stage[x] = "up" THEN fired ELSE <<>>
  <1>1. /\ open'[x] = n
        /\ gone'[x] = gone[x] \cup (Windows(open[x]) \ Windows(n)) \cup (Tabs(open[x]) \ Tabs(n))
        /\ events[x] = <<>> /\ events'[x] = IF stage[x] = "up" THEN fired ELSE <<>>
    BY DEF Change, NowOpen, Inv, BrowserInv, EventInv
  <1>2. \A w \in Windows(n) : w \in WindowId
    BY OpenElim, ConstantTypes DEF Reported
  <1>3. \A t \in Tabs(open[x]) : t \in TabId
    BY OpenElim DEF Inv, BrowserInv
  <1>4. \A w \in Windows(n) : w \notin gone[x]
    BY DEF Reported, Cell, Ids
  <1>5. \A t \in TabId : t \notin WindowId
    BY CaptureAssumption
  <1> QED BY <1>1, <1>2, <1>3, <1>4, <1>5

LEMMA ChangeKeeps ==
    ASSUME Inv, NEW x \in Ext, Cell(x), NEW n, NEW fired, Change(x, n, fired), Reported(x, n, fired)
    PROVE  Cell(x)'
  <1>1. /\ open'[x] = n /\ gone[x] \subseteq gone'[x]
        /\ Windows(open[x]) \subseteq Windows(n) \cup gone'[x]
        /\ Windows(n) \cap gone'[x] = {}
        /\ events[x] = <<>> /\ events'[x] = IF stage[x] = "up" THEN fired ELSE <<>>
    BY ChangedOpen
  <1>2. /\ stage' = stage /\ lookups' = lookups /\ recon' = recon /\ ckey' = ckey /\ old' = old
        /\ wins' = wins /\ tabs' = tabs /\ trusted' = trusted /\ pending' = pending /\ mirror' = mirror
        /\ chan' = chan /\ overtaken' = overtaken
    BY DEF Change, storeVars, outboxVars
  <1>3. /\ Past(x) \subseteq Past(x)' /\ StoreMentions(x)' = StoreMentions(x) /\ (Running(x)' <=> Running(x))
        /\ \A b, w : Names(x, b, w) => Names(x, b, w)'
    BY <1>1, <1>2 DEF Past, StoreMentions, Running, Names
  <1>4. Unattached(x)'
    BY <1>2, <1>3 DEF Cell, Unattached
  <1>5. Ids(x)'
    BY <1>1 DEF Ids, Reported
  <1>6. Named(x)'
    BY <1>2, <1>3 DEF Cell, Named
  <1>7. ASSUME NEW i \in 1 .. Len(events'[x])
        PROVE  stage[x] = "up" /\ In(fired, events'[x][i])
    <2>1. stage[x] = "up"
      BY <1>1
    <2> QED BY <1>1, <2>1 DEF In
  <1>8. EventsGood(x)'
    <2>1. ASSUME NEW i \in 1 .. Len(events'[x]), NEW v, v = events'[x][i]
          PROVE  IF v.says = "attached" THEN v.on \in DOMAIN open'[x] ELSE v.says = Is(x, v.on)'
      <3>1. Tell(n, v)
        BY <1>7, <2>1 DEF Reported
      <3> QED BY <1>1, <3>1 DEF Tell, Is
    <2> QED BY <2>1 DEF EventsGood
  <1>9. Mentioned(x)'
    <2>1. ASSUME NEW i \in 1 .. Len(events'[x]) PROVE WindowOf(events'[x][i].on) \in Past(x)'
      <3>1. WindowOf(events'[x][i].on) \in Windows(open[x]) \cup Windows(n)
        BY <1>7 DEF Reported
      <3> QED BY <1>1, <3>1 DEF Past
    <2> QED BY <1>2, <1>3, <2>1 DEF Cell, Mentioned
  <1>10. CASE stage[x] # "up"
    <2>1. pending[x] = Empty
      BY <1>10 DEF Inv, OutboxInv, OutboxCell
    <2>2. OutboxGood(x)'
      BY <1>2, <2>1 DEF OutboxGood, Empty
    <2>3. ReadGood(x)' /\ StoreGood(x)'
      BY <1>2, <1>3, <1>10 DEF Cell, Unattached, ReadGood, StoreGood
    <2>4. PipeGood(x)'
      BY <1>2, <1>10 DEF Cell, Unattached, PipeGood, LastWord, Silent
    <2> QED BY <1>4, <1>5, <1>6, <1>8, <1>9, <2>2, <2>3, <2>4 DEF Cell, Line
  <1>11. CASE stage[x] = "up"
    <2>1. ASSUME NEW e, ~Fired(x, e)' PROVE SameIn(x, n, e)
      <3>1. \A v : In(fired, v) => v.on # e
        BY <1>1, <1>11, <2>1 DEF Fired, In
      <3> QED BY <3>1 DEF Reported
    <2>2. ASSUME NEW e, ~Fired(x, e)'
          PROVE  /\ ~Fired(x, e) /\ (Heard(x, e) => Heard(x, e)') /\ (Awaited(x, e) => Awaited(x, e)')
                 /\ \A d : Good(x, e, d) => Good(x, e, d)'
      <3>1. SameIn(x, n, e)
        BY <2>1, <2>2
      <3>2. ~Fired(x, e) /\ (Heard(x, e) => Heard(x, e)')
        BY <1>1, <1>2 DEF Fired, Heard
      <3>3. Is(x, e)' = Is(x, e) /\ (Awaited(x, e) => Awaited(x, e)')
        BY <1>1, <1>2, <3>1 DEF SameIn, Is, Awaited
      <3> QED BY <3>2, <3>3 DEF Good
    <2>3. \A e : Fired(x, e)' => Heard(x, e)'
      BY DEF Heard
    <2>4. OutboxGood(x)'
      BY <1>2, <2>2 DEF Cell, Line, OutboxGood
    <2>5. ReadGood(x)'
      BY <1>2, <1>3, <2>2, <2>3 DEF Cell, Line, ReadGood
    <2>6. PipeGood(x)'
      BY <1>2, <2>2, <2>3 DEF Cell, Line, PipeGood
    <2>7. ASSUME NEW w \in Windows(n), w \in StoreMentions(x) PROVE w \in Windows(open[x])
      BY <1>1, <2>7 DEF Cell, Mentioned, Past
    <2>8. \A w \in Windows(n) : w \in idsOf[x]
      BY OpenElim DEF Reported
    <2>9. ASSUME NEW e \in OwnEntry(x), ~Fired(x, e)', Stored(x, e) PROVE Stored(x, e)'
      <3>1. SameIn(x, n, e)
        BY <2>1, <2>9
      <3>2. CASE e \in WindowId
        <4>1. e \notin TabKey
          BY <3>2, OpenKinds
        <4> QED BY <1>1, <1>2, <2>9, <3>1, <3>2, <4>1 DEF Stored, SameIn, Own
      <3>3. CASE e \in TabKey
        <4>1. e \notin WindowId /\ e[1] \in idsOf[x]
          BY <3>3, OpenKinds
        <4>2. e \in DOMAIN tabs => e[1] \in StoreMentions(x)
          BY <4>1 DEF StoreMentions
        <4>3. e \in DOMAIN tabs /\ e[1] \in Windows(n) => e[1] \in Windows(open[x])
          BY <2>7, <4>2
        <4>4. CASE e \in DOMAIN n
          BY <1>1, <1>2, <2>9, <3>1, <3>3, <4>1, <4>4 DEF Stored, SameIn
        <4>5. CASE e \notin DOMAIN n
          BY <1>1, <1>2, <2>9, <3>1, <3>3, <4>1, <4>3, <4>5 DEF Stored, SameIn
        <4> QED BY <4>4, <4>5
      <3> QED BY <3>2, <3>3, OpenKinds
    <2>10. StoreGood(x)'
      <3>1. ASSUME trusted[x], NEW e \in OwnEntry(x), Silent(chan[x], e)
            PROVE  Heard(x, e)' \/ Awaited(x, e)' \/ Stored(x, e)'
        BY <2>2, <2>3, <2>9, <3>1 DEF Cell, Line, StoreGood
      <3>2. ASSUME trusted[x], NEW w \in Windows(n) \cap DOMAIN wins PROVE wins[w] = Own(x)
        <4>1. w \in Windows(open[x])
          BY <2>7, <2>8 DEF StoreMentions
        <4> QED BY <3>2, <4>1 DEF Cell, Line, StoreGood
      <3>3. trusted[x] => ckey[x] = x
        BY DEF Cell, Line, StoreGood
      <3> QED BY <1>1, <1>2, <3>1, <3>2, <3>3 DEF StoreGood, Own
    <2> QED BY <1>4, <1>5, <1>6, <1>8, <1>9, <2>4, <2>5, <2>6, <2>10 DEF Cell, Line
  <1> QED BY <1>10, <1>11

\* Events on a tab of x, and on a window.
LEMMA EventIs ==
    ASSUME NEW x \in Ext, NEW k \in idsOf[x] \X TabId, NEW d
    PROVE  /\ [on |-> k, says |-> d].on = k /\ [on |-> k, says |-> d].says = d
           /\ WindowOf(k) = k[1] /\ k \notin WindowId /\ k[1] \in idsOf[x] /\ k[1] \in WindowId
           /\ \A v \in contentOf[x] \cup {Shown, Removed} : v # "attached"
  <1>1. k \notin WindowId /\ k[1] \in idsOf[x]
    BY TabIsOwn
  <1>2. \A v \in contentOf[x] \cup {Shown, Removed} : v # "attached"
    BY ConstantTypes, CaptureAssumption
  <1> QED BY <1>1, <1>2, ConstantTypes DEF WindowOf

LEMMA WindowEventIs ==
    ASSUME NEW x \in Ext, NEW w \in idsOf[x], NEW o \in OwnOpen(x), NEW v
    PROVE  /\ w \in WindowId /\ WindowOf(w) = w /\ w \notin DOMAIN o
           /\ In(Created(x, w), v) <=> w \notin Windows(open[x]) /\ v = [on |-> w, says |-> Shown]
           /\ In(Closed(o, w), v) <=> w \notin Windows(o) /\ v = [on |-> w, says |-> Removed]
           /\ Shown # "attached" /\ Removed # "attached"
  <1>1. w \in WindowId /\ Shown # "attached" /\ Removed # "attached"
    BY ConstantTypes, CaptureAssumption
  <1>2. \A k \in DOMAIN o : k \in TabKey
    BY OpenElim
  <1>3. w \notin DOMAIN o
    BY <1>1, <1>2, CaptureAssumption
  <1>4. In(Created(x, w), v) <=> w \notin Windows(open[x]) /\ v = [on |-> w, says |-> Shown]
    BY InSmall DEF Created
  <1>5. In(Closed(o, w), v) <=> w \notin Windows(o) /\ v = [on |-> w, says |-> Removed]
    BY InSmall DEF Closed
  <1> QED BY <1>1, <1>3, <1>4, <1>5 DEF WindowOf

LEMMA OpenTabReports ==
    ASSUME Inv, NEW x \in Ext, Cell(x), OpenTab(x)
    PROVE  \E n, fired : Change(x, n, fired) /\ Reported(x, n, fired)
  <1>1. PICK w \in idsOf[x] \ gone[x], t \in TabId \ (gone[x] \cup Tabs(open[x])), v \in contentOf[x] :
            Change(x, Merge([k \in {<<w, t>>} |-> v], open[x]),
                   Append(Created(x, w), [on |-> <<w, t>>, says |-> v]))
    BY DEF OpenTab
  <1> DEFINE f == [k \in {<<w, t>>} |-> v]
  <1>2. PICK k : k = <<w, t>>
    OBVIOUS
  <1>3. PICK o : o = open[x]
    OBVIOUS
  <1>4. PICK n : n = Merge(f, o)
    OBVIOUS
  <1>5. PICK fired : fired = Append(Created(x, w), [on |-> k, says |-> v])
    OBVIOUS
  <1>6. o \in OwnOpen(x) /\ k \in idsOf[x] \X TabId /\ k[1] = w /\ k[2] = t
    BY <1>2, <1>3 DEF Inv, BrowserInv
  <1>7. n \in OwnOpen(x)
    BY <1>2, <1>4, <1>6, MergeOpen
  <1>8. /\ DOMAIN n = DOMAIN o \cup {k} /\ n[k] = v
        /\ \A j \in DOMAIN o : j # k => n[j] = o[j]
    <2>1. DOMAIN f = {k} /\ f[k] = v
      BY <1>2
    <2> HIDE DEF f
    <2> QED BY <1>4, <2>1 DEF Merge
  <1>9. /\ [on |-> k, says |-> v].on = k /\ [on |-> k, says |-> v].says = v
        /\ WindowOf(k) = w /\ k \notin WindowId /\ v # "attached"
    BY <1>6, EventIs
  <1>10. /\ w \in WindowId /\ WindowOf(w) = w /\ w \notin DOMAIN n
         /\ \A u : In(Created(x, w), u) <=> w \notin Windows(open[x]) /\ u = [on |-> w, says |-> Shown]
         /\ Shown # "attached"
    BY <1>7, WindowEventIs
  <1>11. Windows(n) = Windows(o) \cup {w}
    BY <1>6, <1>8 DEF Windows
  <1>12. ASSUME NEW u
         PROVE  In(fired, u) <=> \/ w \notin Windows(o) /\ u = [on |-> w, says |-> Shown]
                                 \/ u = [on |-> k, says |-> v]
    <2>1. Created(x, w) \in Seq(OwnEvent(x)) /\ [on |-> k, says |-> v] \in OwnEvent(x)
      BY <1>6, WindowEvents, TabIsOwn
    <2> QED BY <1>3, <1>5, <1>10, <2>1, InAppend
  <1>13. ASSUME NEW e, \A u : In(fired, u) => u.on # e PROVE SameIn(x, n, e)
    <2>1. e # k
      BY <1>9, <1>12, <1>13
    <2>2. w \notin Windows(o) => e # w
      <3>1. [on |-> w, says |-> Shown].on = w
        OBVIOUS
      <3> QED BY <1>12, <1>13, <3>1
    <2> QED BY <1>3, <1>8, <1>11, <2>1, <2>2 DEF SameIn
  <1>14. ASSUME NEW u, In(fired, u)
         PROVE  Tell(n, u) /\ WindowOf(u.on) \in Windows(open[x]) \cup Windows(n)
    <2>1. CASE u = [on |-> w, says |-> Shown]
      <3>1. u.on = w /\ u.says = Shown
        BY <2>1
      <3> QED BY <1>10, <1>11, <3>1 DEF Tell
    <2>2. CASE u = [on |-> k, says |-> v]
      <3>1. u.on = k /\ u.says = v
        BY <2>2
      <3> QED BY <1>8, <1>9, <1>11, <3>1 DEF Tell
    <2> QED BY <1>12, <1>14, <2>1, <2>2
  <1>15. \A i \in Windows(n) : i \in gone[x] => i \in Windows(open[x])
    BY <1>3, <1>11
  <1>16. \A i, j \in DOMAIN n : i[2] = j[2] => i = j
    <2>1. \A j \in DOMAIN o : j[2] # t
      BY <1>3 DEF Tabs
    <2> QED BY <1>3, <1>6, <1>8, <2>1 DEF Cell, Ids
  <1>17. Change(x, n, fired)
    BY <1>1, <1>2, <1>3, <1>4, <1>5
  <1>18. Reported(x, n, fired)
    BY <1>7, <1>13, <1>14, <1>15, <1>16 DEF Reported
  <1> QED BY <1>17, <1>18

LEMMA NavigateReports ==
    ASSUME Inv, NEW x \in Ext, Cell(x), Navigate(x)
    PROVE  \E n, fired : Change(x, n, fired) /\ Reported(x, n, fired)
  <1>1. PICK k \in DOMAIN open[x] : \E v \in contentOf[x] \ {open[x][k]} :
            Change(x, [open[x] EXCEPT ![k] = v], <<[on |-> k, says |-> v]>>)
    BY DEF Navigate
  <1>2. PICK v \in contentOf[x] \ {open[x][k]} :
            Change(x, [open[x] EXCEPT ![k] = v], <<[on |-> k, says |-> v]>>)
    BY <1>1
  <1>3. PICK o : o = open[x]
    OBVIOUS
  <1>4. PICK n : n = [o EXCEPT ![k] = v]
    OBVIOUS
  <1>5. PICK fired : fired = <<[on |-> k, says |-> v]>>
    OBVIOUS
  <1>6. /\ o \in OwnOpen(x) /\ k \in DOMAIN o /\ k \in idsOf[x] \X TabId
        /\ \A e \in DOMAIN o : e \in idsOf[x] \X TabId /\ o[e] \in contentOf[x]
    BY <1>3, OpenElim DEF Inv, BrowserInv
  <1>7. /\ DOMAIN n = DOMAIN o /\ n = [e \in DOMAIN n |-> n[e]]
        /\ \A e \in DOMAIN n : n[e] = IF e = k THEN v ELSE o[e]
    BY <1>4, <1>6, OpenElim
  <1>8. n \in OwnOpen(x)
    BY <1>6, <1>7, OpenIntro
  <1>9. Windows(n) = Windows(o)
    BY <1>7 DEF Windows
  <1>10. \A u : In(fired, u) <=> u = [on |-> k, says |-> v]
    BY <1>5, InSmall
  <1>11. /\ [on |-> k, says |-> v].on = k /\ [on |-> k, says |-> v].says = v
         /\ WindowOf(k) = k[1] /\ v # "attached" /\ k[1] \in Windows(o)
    BY <1>6, EventIs DEF Windows
  <1>12. ASSUME NEW e, \A u : In(fired, u) => u.on # e PROVE SameIn(x, n, e)
    <2>1. e # k
      BY <1>10, <1>11, <1>12
    <2> QED BY <1>3, <1>7, <1>9, <2>1 DEF SameIn
  <1>13. ASSUME NEW u, In(fired, u)
         PROVE  Tell(n, u) /\ WindowOf(u.on) \in Windows(open[x]) \cup Windows(n)
    <2>1. u.on = k /\ u.says = v
      BY <1>10, <1>11, <1>13
    <2> QED BY <1>6, <1>7, <1>9, <1>11, <2>1 DEF Tell
  <1>14. \A i, j \in DOMAIN n : i[2] = j[2] => i = j
    BY <1>3, <1>7 DEF Cell, Ids
  <1>15. Change(x, n, fired)
    BY <1>2, <1>3, <1>4, <1>5
  <1>16. Reported(x, n, fired)
    BY <1>3, <1>8, <1>9, <1>12, <1>13, <1>14 DEF Reported
  <1> QED BY <1>15, <1>16

LEMMA CloseTabsReports ==
    ASSUME Inv, NEW x \in Ext, Cell(x), CloseTabs(x)
    PROVE  \E n, fired : Change(x, n, fired) /\ Reported(x, n, fired)
  <1>1. PICK w \in Windows(open[x]) :
            LET its == {k \in DOMAIN open[x] : k[1] = w} IN
            \E S \in {{k} : k \in its} \cup {its} :
                LET n == Without(open[x], S) IN
                Change(x, n, SetToSeq({[on |-> k, says |-> Removed] : k \in S}) \o Closed(n, w))
    BY DEF CloseTabs
  <1> DEFINE its == {k \in DOMAIN open[x] : k[1] = w}
  <1>2. PICK S \in {{k} : k \in its} \cup {its} :
            Change(x, Without(open[x], S),
                   SetToSeq({[on |-> k, says |-> Removed] : k \in S}) \o Closed(Without(open[x], S), w))
    BY <1>1
  <1>3. PICK o : o = open[x]
    OBVIOUS
  <1>4. PICK n : n = Without(o, S)
    OBVIOUS
  <1>5. PICK E : E = {[on |-> k, says |-> Removed] : k \in S}
    OBVIOUS
  <1>6. PICK fired : fired = SetToSeq(E) \o Closed(n, w)
    OBVIOUS
  <1>7. /\ o \in OwnOpen(x) /\ w \in idsOf[x] /\ IsFiniteSet(DOMAIN o)
        /\ DOMAIN o \subseteq idsOf[x] \X TabId
    BY <1>3, OpenElim DEF Inv, BrowserInv
  <1>8. \A k \in S : k \in DOMAIN o /\ k[1] = w /\ k \in idsOf[x] \X TabId
    BY <1>3, <1>7
  <1>9. n \in OwnOpen(x)
    BY <1>4, <1>7, WithoutOpen
  <1>10. DOMAIN n = DOMAIN o \ S /\ \A k \in DOMAIN n : n[k] = o[k]
    BY <1>4 DEF Without
  <1>11. IsFiniteSet(E)
    <2> DEFINE f == [k \in S |-> [on |-> k, says |-> Removed]]
    <2>1. f \in Surjection(S, E)
      BY <1>5 DEF Surjection
    <2>2. IsFiniteSet(S)
      BY <1>7, <1>8, FS_Subset
    <2> QED BY <2>1, <2>2, FS_Surjection
  <1>12. E \subseteq OwnEvent(x)
    BY <1>5, <1>8, TabIsOwn
  <1>13. /\ SetToSeq(E) \in Seq(OwnEvent(x)) /\ Closed(n, w) \in Seq(OwnEvent(x))
    BY <1>7, <1>11, <1>12, SetToSeqType, SeqMonotonic, WindowEvents
  <1>14. /\ w \in WindowId /\ WindowOf(w) = w /\ w \notin DOMAIN n /\ Removed # "attached"
         /\ \A u : In(Closed(n, w), u) <=> w \notin Windows(n) /\ u = [on |-> w, says |-> Removed]
    BY <1>7, <1>9, WindowEventIs
  <1>15. ASSUME NEW u
         PROVE  In(fired, u) <=> \/ u \in E
                                 \/ w \notin Windows(n) /\ u = [on |-> w, says |-> Removed]
    BY <1>6, <1>11, <1>13, <1>14, InConcat, InSetToSeq
  <1>16. ASSUME NEW e, e \in Windows(o), e # w PROVE e \in Windows(n)
    <2>1. PICK k \in DOMAIN o : k[1] = e
      BY <1>16 DEF Windows
    <2>2. k \in DOMAIN n
      BY <1>8, <1>10, <1>16, <2>1
    <2> QED BY <2>1, <2>2 DEF Windows
  <1>17. Windows(n) \subseteq Windows(o)
    BY <1>10 DEF Windows
  <1>18. ASSUME NEW e, \A u : In(fired, u) => u.on # e PROVE SameIn(x, n, e)
    <2>1. e \notin S
      <3>1. SUFFICES ASSUME e \in S PROVE FALSE
        OBVIOUS
      <3>2. [on |-> e, says |-> Removed] \in E /\ [on |-> e, says |-> Removed].on = e
        BY <1>5, <3>1
      <3> QED BY <1>15, <1>18, <3>2
    <2>2. w \notin Windows(n) => e # w
      <3>1. [on |-> w, says |-> Removed].on = w
        OBVIOUS
      <3> QED BY <1>15, <1>18, <3>1
    <2>3. e \in Windows(n) <=> e \in Windows(o)
      BY <1>16, <1>17, <2>2
    <2> QED BY <1>3, <1>10, <2>1, <2>3 DEF SameIn
  <1>19. w \in Windows(o)
    BY <1>3
  <1>20. ASSUME NEW u, In(fired, u)
         PROVE  Tell(n, u) /\ WindowOf(u.on) \in Windows(open[x]) \cup Windows(n)
    <2>1. CASE u \in E
      <3>1. PICK k \in S : u = [on |-> k, says |-> Removed]
        BY <1>5, <2>1
      <3>2. u.on = k /\ u.says = Removed
        BY <3>1
      <3>3. k \notin DOMAIN n /\ k \notin WindowId /\ WindowOf(k) = w
        BY <1>8, <1>10, EventIs
      <3>4. k \notin Windows(n)
        BY <1>9, <3>3, OpenElim, ConstantTypes
      <3> QED BY <1>3, <1>14, <1>19, <3>2, <3>3, <3>4 DEF Tell
    <2>2. CASE w \notin Windows(n) /\ u = [on |-> w, says |-> Removed]
      <3>1. u.on = w /\ u.says = Removed
        BY <2>2
      <3> QED BY <1>3, <1>14, <1>19, <2>2, <3>1 DEF Tell
    <2> QED BY <1>15, <1>20, <2>1, <2>2
  <1>21. \A i, j \in DOMAIN n : i[2] = j[2] => i = j
    BY <1>3, <1>10 DEF Cell, Ids
  <1>22. Change(x, n, fired)
    BY <1>2, <1>3, <1>4, <1>5, <1>6
  <1>23. Reported(x, n, fired)
    BY <1>3, <1>9, <1>17, <1>18, <1>20, <1>21 DEF Reported
  <1> QED BY <1>22, <1>23

LEMMA MoveTabReports ==
    ASSUME Inv, NEW x \in Ext, Cell(x), MoveTab(x)
    PROVE  \E n, fired : Change(x, n, fired) /\ Reported(x, n, fired)
  <1>1. PICK k \in DOMAIN open[x] : \E w \in idsOf[x] \ (gone[x] \cup {k[1]}) :
            LET n == Merge([e \in {<<w, k[2]>>} |-> open[x][k]], Without(open[x], {k})) IN
            Change(x, n, Created(x, w)
                         \o <<[on |-> k, says |-> Removed], [on |-> <<w, k[2]>>, says |-> "attached"]>>
                         \o Closed(n, k[1]))
    BY DEF MoveTab
  <1>2. PICK w \in idsOf[x] \ (gone[x] \cup {k[1]}) :
            LET n == Merge([e \in {<<w, k[2]>>} |-> open[x][k]], Without(open[x], {k})) IN
            Change(x, n, Created(x, w)
                         \o <<[on |-> k, says |-> Removed], [on |-> <<w, k[2]>>, says |-> "attached"]>>
                         \o Closed(n, k[1]))
    BY <1>1
  <1>3. PICK o : o = open[x]
    OBVIOUS
  <1>4. PICK to : to = <<w, k[2]>>
    OBVIOUS
  <1>5. PICK rest : rest = Without(o, {k})
    OBVIOUS
  <1>6. PICK n : n = Merge([e \in {to} |-> o[k]], rest)
    OBVIOUS
  <1> DEFINE left == [on |-> k, says |-> Removed]
             came == [on |-> to, says |-> "attached"]
             from == k[1]
  <1>7. PICK fired : fired = Created(x, w) \o <<left, came>> \o Closed(n, from)
    OBVIOUS
  <1>8. Change(x, n, fired)
    BY <1>2, <1>3, <1>4, <1>5, <1>6, <1>7
  <1>9. /\ o \in OwnOpen(x) /\ k \in DOMAIN o /\ k \in idsOf[x] \X TabId /\ o[k] \in contentOf[x]
        /\ to \in idsOf[x] \X TabId /\ to[1] = w /\ to[2] = k[2] /\ from \in idsOf[x] /\ from # w /\ to # k
    <2>1. /\ o \in OwnOpen(x) /\ k \in DOMAIN o /\ k \in idsOf[x] \X TabId /\ o[k] \in contentOf[x]
      BY <1>3, OpenElim DEF Inv, BrowserInv
    <2>2. k[1] \in idsOf[x] /\ k[2] \in TabId
      BY <2>1
    <2> QED BY <1>4, <2>1, <2>2
  <1>10. rest \in OwnOpen(x) /\ n \in OwnOpen(x)
    BY <1>5, <1>6, <1>9, WithoutOpen, MergeOpen
  <1>11. DOMAIN rest = DOMAIN o \ {k} /\ \A j \in DOMAIN rest : rest[j] = o[j]
    BY <1>5 DEF Without
  <1>12. /\ DOMAIN n = {to} \cup (DOMAIN o \ {k}) /\ n[to] = o[k]
         /\ \A j \in DOMAIN o : j # k /\ j # to => n[j] = o[j]
    <2> DEFINE f == [e \in {to} |-> o[k]]
    <2>1. DOMAIN f = {to} /\ f[to] = o[k]
      OBVIOUS
    <2> HIDE DEF f
    <2> QED BY <1>6, <1>11, <2>1 DEF Merge
  <1>13. /\ left.on = k /\ left.says = Removed /\ came.on = to /\ came.says = "attached"
         /\ WindowOf(k) = from /\ k \notin WindowId /\ WindowOf(to) = w /\ Removed # "attached"
    BY <1>9, EventIs
  <1>14. left \in OwnEvent(x) /\ came \in OwnEvent(x)
    BY <1>9, TabIsOwn
  <1> HIDE DEF left, came, from
  <1>15. /\ w \in WindowId /\ WindowOf(w) = w /\ w \notin DOMAIN n
         /\ \A u : In(Created(x, w), u) <=> w \notin Windows(open[x]) /\ u = [on |-> w, says |-> Shown]
         /\ Shown # "attached"
    BY <1>10, WindowEventIs
  <1>16. /\ from \in WindowId /\ WindowOf(from) = from /\ from \notin DOMAIN n
         /\ \A u : In(Closed(n, from), u) <=> from \notin Windows(n) /\ u = [on |-> from, says |-> Removed]
    BY <1>9, <1>10, WindowEventIs
  <1>17. ASSUME NEW u
         PROVE  In(fired, u) <=> \/ w \notin Windows(o) /\ u = [on |-> w, says |-> Shown]
                                 \/ u = left \/ u = came
                                 \/ from \notin Windows(n) /\ u = [on |-> from, says |-> Removed]
    <2>1. Created(x, w) \in Seq(OwnEvent(x)) /\ Closed(n, from) \in Seq(OwnEvent(x))
      BY <1>9, WindowEvents
    <2>2. <<left, came>> \in Seq(OwnEvent(x)) /\ (In(<<left, came>>, u) <=> u = left \/ u = came)
      BY <1>14, InSmall
    <2> DEFINE first == Created(x, w) \o <<left, came>>
    <2>3. first \in Seq(OwnEvent(x)) /\ fired = first \o Closed(n, from)
      BY <1>7, <2>1, <2>2, ConcatProperties
    <2>4. In(first, u) <=> In(Created(x, w), u) \/ In(<<left, came>>, u)
      BY <2>1, <2>2, InConcat
    <2> HIDE DEF first
    <2>5. In(fired, u) <=> In(first, u) \/ In(Closed(n, from), u)
      BY <2>1, <2>3, InConcat
    <2> QED BY <1>3, <1>15, <1>16, <2>2, <2>4, <2>5
  <1>18. w \in Windows(n) /\ from \in Windows(o) /\ k[1] = from
    BY <1>9, <1>12 DEF Windows, from
  <1>19. ASSUME NEW e, e \in Windows(o), e # from PROVE e \in Windows(n)
    <2>1. PICK j \in DOMAIN o : j[1] = e
      BY <1>19 DEF Windows
    <2>2. j \in DOMAIN n
      BY <1>12, <1>18, <1>19, <2>1
    <2> QED BY <2>1, <2>2 DEF Windows
  <1>20. ASSUME NEW e, e \in Windows(n), e # w PROVE e \in Windows(o)
    <2>1. PICK j \in DOMAIN n : j[1] = e
      BY <1>20 DEF Windows
    <2>2. j \in DOMAIN o
      BY <1>9, <1>12, <1>20, <2>1
    <2> QED BY <2>1, <2>2 DEF Windows
  <1>21. ASSUME NEW e, \A u : In(fired, u) => u.on # e PROVE SameIn(x, n, e)
    <2>1. e # k /\ e # to
      BY <1>13, <1>17, <1>21
    <2>2. (w \notin Windows(o) => e # w) /\ (from \notin Windows(n) => e # from)
      <3>1. [on |-> w, says |-> Shown].on = w /\ [on |-> from, says |-> Removed].on = from
        OBVIOUS
      <3> QED BY <1>17, <1>21, <3>1
    <2>3. e \in Windows(n) <=> e \in Windows(o)
      BY <1>18, <1>19, <1>20, <2>2
    <2> QED BY <1>3, <1>12, <2>1, <2>3 DEF SameIn
  <1>22. ASSUME NEW u, In(fired, u)
         PROVE  Tell(n, u) /\ WindowOf(u.on) \in Windows(open[x]) \cup Windows(n)
    <2>1. CASE u = [on |-> w, says |-> Shown]
      <3>1. u.on = w /\ u.says = Shown
        BY <2>1
      <3> QED BY <1>15, <1>18, <3>1 DEF Tell
    <2>2. CASE u = left
      <3>1. k \notin DOMAIN n
        BY <1>9, <1>12
      <3>2. k \notin Windows(n)
        BY <1>10, <1>13, OpenElim, ConstantTypes
      <3> QED BY <1>3, <1>13, <1>18, <2>2, <3>1, <3>2 DEF Tell
    <2>3. CASE u = came
      BY <1>12, <1>13, <1>18, <2>3 DEF Tell
    <2>4. CASE from \notin Windows(n) /\ u = [on |-> from, says |-> Removed]
      <3>1. u.on = from /\ u.says = Removed
        BY <2>4
      <3> QED BY <1>3, <1>13, <1>16, <1>18, <2>4, <3>1 DEF Tell
    <2> QED BY <1>17, <1>22, <2>1, <2>2, <2>3, <2>4
  <1>23. \A i, j \in DOMAIN n : i[2] = j[2] => i = j
    BY <1>3, <1>9, <1>12 DEF Cell, Ids
  <1>24. \A i \in Windows(n) : i \in gone[x] => i \in Windows(open[x])
    BY <1>3, <1>20
  <1>25. Reported(x, n, fired)
    BY <1>10, <1>21, <1>22, <1>23, <1>24 DEF Reported
  <1> QED BY <1>8, <1>25

LEMMA UserNextKeeps ==
    ASSUME Inv, NEW x \in Ext, Cell(x), UserNext(x) PROVE Cell(x)'
  <1>1. \E n, fired : Change(x, n, fired) /\ Reported(x, n, fired)
    BY OpenTabReports, NavigateReports, CloseTabsReports, MoveTabReports DEF UserNext
  <1> QED BY <1>1, ChangeKeeps

LEMMA UserNextApart ==
    ASSUME Inv, NEW x \in Ext, NEW y \in Ext, x # y, UserNext(y) PROVE SameFor(x) /\ storeVars' = storeVars
  <1>1. PICK n, fired : Change(y, n, fired)
    BY UserChanges DEF OwnChange, Inv
  <1> QED BY <1>1, ChangeApart

-----------------------------------------------------------------------------
(* The deltas keep up.                                                     *)

LEMMA InitFollows == Init => Following
  <1> SUFFICES ASSUME Init, NEW x \in Ext PROVE Cell(x)
    BY DEF Following
  <1>1. /\ gone[x] = {} /\ stage[x] = "asleep" /\ pending[x] = Empty /\ events[x] = <<>> /\ recon[x] = <<>>
        /\ mirror[x] = Empty /\ chan[x] = <<>> /\ old[x] = <<>> /\ ~trusted[x]
        /\ DOMAIN wins = {} /\ DOMAIN tabs = {}
    BY DEF Init, Empty
  <1>2. Len(events[x]) = 0 /\ Len(chan[x]) = 0 /\ \A i \in 1 .. 0 : FALSE
    BY <1>1
  <1>3. DOMAIN pending[x] = {} /\ ~Running(x) /\ StoreMentions(x) = {}
    BY <1>1 DEF Empty, Running, StoreMentions
  <1>4. Unattached(x)
    BY <1>1, <1>2, <1>3 DEF Unattached, Silent
  <1>5. Ids(x)
    <2>1. PICK K \in AtStart : open[x] \in [K -> Version]
      BY DEF Init
    <2> QED BY <1>1, <2>1, CaptureAssumption DEF Ids
  <1>6. EventsGood(x) /\ OutboxGood(x) /\ ReadGood(x) /\ PipeGood(x) /\ StoreGood(x)
    BY <1>1, <1>2, <1>3 DEF EventsGood, OutboxGood, ReadGood, PipeGood, LastWord, StoreGood
  <1>7. Mentioned(x)
    BY <1>1, <1>2, <1>3 DEF Mentioned, Mentions
  <1>8. Named(x)
    BY <1>2, <1>3 DEF Named
  <1> QED BY <1>4, <1>5, <1>6, <1>7, <1>8 DEF Cell, Line

LEMMA FollowingStep == ASSUME Inv, OwnRows, Following, Next PROVE Following'
  <1> SUFFICES ASSUME sleeps' = 0, NEW x \in Ext PROVE Cell(x)'
    BY DEF Following
  <1>1. PICK y \in Ext : UserNext(y) \/ OwnStep(y) \/ Evict(y) \/ Quit(y) \/ Disconnect(y)
    BY DEF Next
  <1>2. CASE Evict(y) \/ Quit(y)
    <2>1. sleeps' = sleeps + 1 /\ sleeps \in Nat
      BY <1>2, StopSteps, CaptureAssumption DEF StopWorker, Inv, Bounds
    <2> QED BY <2>1
  <1>3. CASE UserNext(y) \/ OwnStep(y) \/ Disconnect(y)
    <2>1. sleeps' = sleeps
      <3>1. CASE UserNext(y)
        BY <3>1, UserChanges, ChangeSteps DEF Inv
      <3>2. CASE OwnStep(y) \/ Disconnect(y)
        BY <3>2 DEF OwnStep, boundVars, Wake, Boot, Hear, Lookup, FlushTimer, FlushDone, SayHello,
                    ReconcileRead, ReconcileSend, Reconnect, Deliver, DeliverOld, Disconnect
      <3> QED BY <1>3, <3>1, <3>2
    <2>2. \A z \in Ext : Cell(z)
      BY <2>1 DEF Following
    <2>3. ~DeliverOld(y)
      BY <2>2 DEF DeliverOld, Cell, Unattached
    <2>4. CASE y = x
      BY <1>3, <2>2, <2>3, <2>4, UserNextKeeps, QuietStepKeeps, HearKeeps, LookupKeeps, FlushTimerKeeps,
         SayHelloKeeps, ReconcileReadKeeps, ReconcileSendKeeps, DisconnectKeeps, DeliverKeeps DEF OwnStep
    <2>5. CASE y # x
      <3>1. CASE Deliver(y)
        BY <2>2, <2>5, <3>1, DeliverApart
      <3>2. CASE ~Deliver(y)
        <4>1. SameFor(x) /\ storeVars' = storeVars
          BY <1>3, <2>3, <2>5, <3>2, UserNextApart, OutboxStepApart, WorkerStepApart DEF OwnStep
        <4>2. open'[x] = open[x]
          BY <4>1 DEF SameFor
        <4> QED BY <2>2, <4>1, <4>2, SameRowsKeep, Framed
      <3> QED BY <3>1, <3>2
    <2> QED BY <2>4, <2>5
  <1> QED BY <1>1, <1>2, <1>3

LEMMA FollowingStutters == ASSUME Following, UNCHANGED vars PROVE Following'
  <1> SUFFICES ASSUME sleeps' = 0, NEW x \in Ext PROVE Cell(x)'
    BY DEF Following
  <1>1. sleeps' = sleeps /\ storeVars' = storeVars /\ open'[x] = open[x]
    BY DEF vars, boundVars, browserVars
  <1>2. SameFor(x)
    BY DEF vars, SameFor, browserVars, workerVars, pipeVars, obsVars
  <1> QED BY <1>1, <1>2, SameRowsKeep, Framed DEF Following

\* When nothing is on its way, every entry is stored as it is.
LEMMA FollowedIsStored == ASSUME Inv, OwnRows, Following PROVE DeltasKeepUp
  <1> SUFFICES ASSUME NEW x \in Ext, sleeps = 0, trusted[x], Quiet(x) PROVE View(x) = open[x]
    BY DEF DeltasKeepUp
  <1>1. events[x] = <<>> /\ lookups[x] = {} /\ pending[x] = Empty /\ chan[x] = <<>>
    BY DEF Quiet
  <1>2. ASSUME NEW e \in OwnEntry(x) PROVE Stored(x, e)
    <2>1. Silent(chan[x], e) /\ ~Heard(x, e) /\ ~Awaited(x, e)
      BY <1>1 DEF Silent, Heard, Fired, Awaited, Empty
    <2> QED BY <2>1 DEF Following, Cell, Line, StoreGood
  <1>3. Own(x) = [browser |-> browserOf[x], key |-> x]
    BY DEF Own
  <1>4. ASSUME NEW k, k \in DOMAIN tabs, Mine(x, k) PROVE k \in DOMAIN open[x] /\ tabs[k] = open[x][k]
    <2>1. k \in TabKey /\ k[1] \in idsOf[x]
      BY <1>4, MineIsOwn DEF Inv, Rows
    <2>2. k \in idsOf[x] \X TabId
      BY <2>1 DEF TabKey
    <2>3. k \in OwnEntry(x) /\ k[1] \in OwnEntry(x) /\ k[1] \in WindowId
      BY <2>1, <2>2, ConstantTypes DEF OwnEntry
    <2>4. k[1] \in Windows(open[x])
      BY <1>2, <1>3, <1>4, <2>3 DEF Mine, Stored
    <2> QED BY <1>2, <1>4, <2>1, <2>3, <2>4 DEF Stored
  <1>5. ASSUME NEW k \in DOMAIN open[x] PROVE k \in DOMAIN tabs /\ Mine(x, k)
    <2>1. k \in OwnEntry(x) /\ k \in TabKey /\ k[1] \in Windows(open[x])
      BY OpenKinds
    <2>2. k[1] \in OwnEntry(x) /\ k[1] \in WindowId
      BY <2>1, OpenKinds
    <2>3. k[1] \in DOMAIN wins /\ wins[k[1]] = Own(x)
      BY <1>2, <2>1, <2>2 DEF Stored
    <2>4. k \in DOMAIN tabs
      BY <1>2, <2>1 DEF Stored
    <2> QED BY <1>3, <2>3, <2>4 DEF Mine
  <1>6. /\ View(x) = [k \in DOMAIN View(x) |-> tabs[k]]
        /\ \A k : k \in DOMAIN View(x) <=> k \in DOMAIN tabs /\ Mine(x, k)
    BY ViewIs
  <1>7. open[x] = [k \in DOMAIN open[x] |-> open[x][k]]
    BY OpenElim DEF Inv, BrowserInv
  <1>8. DOMAIN View(x) = DOMAIN open[x]
    BY <1>4, <1>5, <1>6
  <1>9. \A k \in DOMAIN open[x] : tabs[k] = open[x][k]
    BY <1>4, <1>5
  <1> QED BY <1>6, <1>7, <1>8, <1>9

\* As long as the worker hears every event, once it falls quiet the stored
\* session is what is open, however moves, closes, flushes, lookups and
\* reconciles interleaved: the deltas between two reconciles are enough.
THEOREM DeltasAreEnough == Spec => []DeltasKeepUp
  <1>1. Inv /\ OwnRows /\ Following /\ [Next]_vars => Following'
    BY FollowingStep, FollowingStutters
  <1>2. Inv /\ OwnRows /\ Following => DeltasKeepUp
    BY FollowedIsStored
  <1> QED BY InitFollows, <1>1, <1>2, AlwaysInv, AlwaysOwnRows, PTL DEF Spec
=============================================================================
