------------------------- MODULE PrivateStoreProofs -------------------------
(***************************************************************************)
(* Theorems about PrivateStore, for any tabs, ttl, rotation and sweep      *)
(* intervals.                                                              *)
(***************************************************************************)
EXTENDS PrivateStore, TLAPS

-----------------------------------------------------------------------------
(* Keys. *)

\* What is true of crypto_keys between two calls: no key is from the future
\* and at most the newest is in use.
KeysInOrder(ks) ==
    /\ ks \in Seq(DataKey)
    /\ \A k \in DOMAIN ks : ks[k].created <= now
    /\ \A k \in Unretired(ks) : k = Len(ks)

\* active_dek only ever adds a key, and the one it returns is not due.
LEMMA RetiredSound ==
    ASSUME now \in Nat, RotateAfter \in Nat \ {0}, NEW ks, KeysInOrder(ks)
    PROVE  /\ KeysInOrder(Retired(ks))
           /\ Len(Retired(ks)) = Len(ks)
           /\ DOMAIN Retired(ks) = DOMAIN ks
           /\ \A k \in DOMAIN ks : Retired(ks)[k].created = ks[k].created
           /\ Active(ks) \ Due(ks) = {} => Unretired(Retired(ks)) = {}
  <1>1. ks \in Seq(DataKey)
    BY DEF KeysInOrder
  <1>2. \A k \in DOMAIN ks : /\ Retired(ks)[k].created = ks[k].created
                             /\ Retired(ks)[k].retired = (ks[k].retired \/ k \in Due(ks))
                             /\ Retired(ks)[k] \in DataKey
    <2> TAKE k \in DOMAIN ks
    <2>1. ks[k] \in DataKey
      BY <1>1
    <2>2. (ks[k].retired \/ k \in Due(ks)) \in BOOLEAN /\ ks[k].created \in Nat
      BY <2>1 DEF DataKey
    <2>3. Retired(ks)[k] = [created |-> ks[k].created, retired |-> ks[k].retired \/ k \in Due(ks)]
      BY DEF Retired
    <2> QED
      BY <2>2, <2>3 DEF DataKey
  <1>3. DOMAIN Retired(ks) = DOMAIN ks /\ DOMAIN ks = 1..Len(ks) /\ Len(ks) \in Nat
    BY <1>1 DEF Retired
  <1>4. Retired(ks) \in Seq(DataKey) /\ Len(Retired(ks)) = Len(ks)
    <2>1. Retired(ks) \in [1..Len(ks) -> DataKey]
      BY <1>2, <1>3 DEF Retired
    <2> QED
      BY <2>1, <1>3
  <1>5. Unretired(Retired(ks)) \subseteq Unretired(ks)
    BY <1>2, <1>3 DEF Unretired
  <1>6. \A k \in Unretired(ks) : k \in Active(ks)
    <2>1. \A k \in Unretired(ks) : k = Len(ks)
      BY DEF KeysInOrder
    <2> QED
      BY <2>1, <1>3 DEF Active
  <1>7. Active(ks) \ Due(ks) = {} => Unretired(Retired(ks)) = {}
    <2> SUFFICES ASSUME Active(ks) \ Due(ks) = {}, NEW k \in Unretired(Retired(ks))
                 PROVE FALSE
      OBVIOUS
    <2>1. k \in Unretired(ks)
      BY <1>5
    <2>2. k \in Due(ks)
      BY <1>6, <2>1
    <2>3. k \in DOMAIN ks /\ ~Retired(ks)[k].retired
      BY <1>3 DEF Unretired
    <2> QED
      BY <2>2, <2>3, <1>2
  <1> QED
    BY <1>2, <1>3, <1>4, <1>5, <1>7 DEF KeysInOrder

\* active_dek returns a stored key that is not due, and leaves the older keys as old as they were.
LEMMA ActiveDekSound ==
    ASSUME now \in Nat, RotateAfter \in Nat \ {0}, NEW ks, KeysInOrder(ks)
    PROVE  /\ KeysInOrder(ActiveDek(ks))
           /\ DOMAIN ks \subseteq DOMAIN ActiveDek(ks)
           /\ \A k \in DOMAIN ks : ActiveDek(ks)[k].created = ks[k].created
           /\ \A k \in Active(ActiveDek(ks)) :
                 /\ k \in DOMAIN ActiveDek(ks)
                 /\ ActiveDek(ks)[k].created <= now
                 /\ now < ActiveDek(ks)[k].created + RotateAfter
  <1>1. ks \in Seq(DataKey)
    BY DEF KeysInOrder
  <1>2. CASE Active(ks) \ Due(ks) # {}
    <2>1. ActiveDek(ks) = ks
      BY <1>2 DEF ActiveDek
    <2>2. \A k \in Active(ks) : k = Len(ks)
      BY DEF KeysInOrder, Active
    <2>3. \A k \in Active(ks) : k \notin Due(ks)
      BY <1>2, <2>2
    <2>4. ASSUME NEW k \in Active(ks)
          PROVE  k \in DOMAIN ks /\ ks[k].created <= now /\ now < ks[k].created + RotateAfter
      <3>1. k \in DOMAIN ks
        BY DEF Active, Unretired
      <3>2. ks[k].created \in Nat
        <4>1. ks[k] \in DataKey
          BY <3>1, <1>1
        <4> QED
          BY <4>1 DEF DataKey
      <3>3. ~(now - ks[k].created >= RotateAfter)
        BY <2>3 DEF Due
      <3> QED
        BY <3>1, <3>2, <3>3 DEF KeysInOrder
    <2> QED
      BY <2>1, <2>4
  <1>3. CASE Active(ks) \ Due(ks) = {}
    <2> DEFINE new == [created |-> now, retired |-> FALSE]
               os == Retired(ks)
    <2>1. ActiveDek(ks) = Append(os, new)
      BY <1>3 DEF ActiveDek
    <2>2. /\ KeysInOrder(os) /\ Len(os) = Len(ks) /\ DOMAIN os = DOMAIN ks
          /\ \A k \in DOMAIN ks : os[k].created = ks[k].created
          /\ Unretired(os) = {}
      BY <1>3, RetiredSound
    <2>3. new \in DataKey
      BY DEF DataKey
    <2>4. os \in Seq(DataKey) /\ DOMAIN os = 1..Len(os) /\ Len(os) \in Nat
      BY <2>2 DEF KeysInOrder
    <2> HIDE DEF os
    <2> DEFINE ns == Append(os, new)
    <2>5. /\ ns \in Seq(DataKey)
          /\ Len(ns) = Len(os) + 1
          /\ DOMAIN ns = 1..(Len(os) + 1)
          /\ ns[Len(os) + 1] = new
          /\ \A k \in 1..Len(os) : ns[k] = os[k]
      BY <2>3, <2>4
    <2> HIDE DEF ns
    <2>6. ASSUME NEW k \in DOMAIN ns
          PROVE  /\ ns[k].created <= now
                 /\ ~ns[k].retired <=> k = Len(os) + 1
      <3>1. CASE k = Len(os) + 1
        BY <3>1, <2>5
      <3>2. CASE k \in 1..Len(os)
        <4>1. ns[k] = os[k] /\ os[k].created <= now /\ k # Len(os) + 1
          BY <3>2, <2>2, <2>4, <2>5 DEF KeysInOrder
        <4>2. os[k].retired
          BY <3>2, <2>2, <2>4 DEF Unretired
        <4> QED
          BY <4>1, <4>2
      <3> QED
        BY <3>1, <3>2, <2>4, <2>5
    <2>7. Unretired(ns) = {Len(os) + 1}
      BY <2>4, <2>5, <2>6 DEF Unretired
    <2>8. Active(ns) = {Len(os) + 1}
      BY <2>4, <2>7 DEF Active
    <2>9. KeysInOrder(ns)
      BY <2>5, <2>6, <2>7 DEF KeysInOrder
    <2>10. ActiveDek(ks) = ns
      BY <2>1 DEF ns
    <2>11. ns[Len(os) + 1].created = now /\ now < now + RotateAfter
      BY <2>5
    <2>12. \A k \in DOMAIN ks : k \in DOMAIN ns /\ ns[k].created = ks[k].created
      BY <2>2, <2>4, <2>5
    <2> QED
      BY <2>4, <2>5, <2>8, <2>9, <2>10, <2>11, <2>12
  <1> QED
    BY <1>2, <1>3

-----------------------------------------------------------------------------
(* The inductive invariant. *)

\* Every row can be opened by a key that was not due when it sealed the row.
RowsFresh ==
    \A r \in rows : /\ r.key \in DOMAIN keys
                    /\ keys[r.key].created <= r.updated
                    /\ r.updated < keys[r.key].created + RotateAfter

\* The sweeper is never late, and left nothing that had expired.
Timely ==
    /\ swept <= now
    /\ up => now <= swept + SweepEvery
    /\ \A r \in rows : swept <= r.expires

IInv == TypeOK /\ OffMeansPurged /\ Timely /\ KeysInOrder(keys) /\ RowsFresh

\* Rows that come from rows: the same tab, key and times in any snapshot.
Descends(new, old) ==
    \A r \in new : /\ r \in Row
                   /\ \E s \in old : /\ r.tab = s.tab /\ r.key = s.key
                                     /\ r.updated = s.updated /\ r.expires = s.expires

\* A snapshot's copies have the key, the time and the expiry of the rows they copy.
LEMMA CopyDescends ==
    ASSUME NEW rs, rs \subseteq Row, NEW n \in Nat
    PROVE  Descends(CopyOf(rs, n), rs)
  <1> SUFFICES ASSUME NEW r \in CopyOf(rs, n)
               PROVE  /\ r \in Row
                      /\ \E s \in rs : /\ r.tab = s.tab /\ r.key = s.key
                                       /\ r.updated = s.updated /\ r.expires = s.expires
    BY DEF Descends
  <1>1. CASE r \in rs
    BY <1>1
  <1>2. CASE r \notin rs
    <2>1. PICK s \in rs : r = [at |-> n, tab |-> s.tab, key |-> s.key,
                               updated |-> s.updated, expires |-> s.expires]
      BY <1>2 DEF CopyOf
    <2>2. s \in Row
      OBVIOUS
    <2>3. r \in Row
      BY <2>1, <2>2 DEF Row
    <2> QED
      BY <2>1, <2>3
  <1> QED
    BY <1>1, <1>2

\* Deleting rows makes none younger.
LEMMA SubsetDescends ==
    ASSUME NEW rs, rs \subseteq Row, NEW new, new \subseteq rs
    PROVE  Descends(new, rs)
  BY DEF Descends

\* Copying and deleting in turn is still copying and deleting.
LEMMA DescendsTransitive ==
    ASSUME NEW a, NEW b, NEW c, Descends(c, b), Descends(b, a)
    PROVE  Descends(c, a)
  BY DEF Descends

\* Steps that leave the rows, the keys and the clock alone.
LEMMA StoreUntouched ==
    ASSUME IInv, TypeOK',
           UNCHANGED <<setting, rows, keys, up, now, swept, cut>>
    PROVE  IInv'
  BY DEF IInv, OffMeansPurged, Timely, KeysInOrder, Unretired, RowsFresh

\* Rows that only descend from earlier ones stay under keys that are stored, and within their ttl.
LEMMA DescendsFresh ==
    ASSUME IInv, keys' = keys, Descends(rows', rows)
    PROVE  /\ RowsFresh'
           /\ \A r \in rows' : swept <= r.expires
           /\ rows = {} => rows' = {}
  <1>1. ASSUME NEW r \in rows'
        PROVE  /\ r.key \in DOMAIN keys
               /\ keys[r.key].created <= r.updated
               /\ r.updated < keys[r.key].created + RotateAfter
               /\ swept <= r.expires
    <2>1. PICK s \in rows : r.key = s.key /\ r.updated = s.updated /\ r.expires = s.expires
      BY DEF Descends
    <2> QED
      BY <2>1 DEF IInv, RowsFresh, Timely
  <1>2. rows = {} => rows' = {}
    BY DEF Descends
  <1> QED
    BY <1>1, <1>2 DEF RowsFresh

\* The first start of the agent: no keys and no rows.
LEMMA InitIInv ==
    ASSUME PrivateAssumption, Init
    PROVE  IInv
  <1>1. TypeOK
    <2>1. pending \in [tabs : [Tab -> Mark], win : Mark]
      BY DEF Init, Nothing, Mark
    <2>2. ttl \in 1..MaxTtl
      BY DEF PrivateAssumption, Init
    <2>3. keys \in Seq(DataKey) /\ toAgent \in Seq(Message) /\ toExt \in Seq(Word)
      BY DEF Init
    <2> QED
      BY <2>1, <2>2, <2>3 DEF Init, TypeOK
  <1>2. OffMeansPurged /\ RowsFresh
    BY DEF Init, OffMeansPurged, RowsFresh
  <1>3. Timely
    BY DEF PrivateAssumption, Init, Timely
  <1>4. KeysInOrder(keys)
    BY DEF Init, KeysInOrder, Unretired
  <1> QED
    BY <1>1, <1>2, <1>3, <1>4 DEF IInv

-----------------------------------------------------------------------------
(* Types. *)

\* A broken pipe leaves the connection well typed.
LEMMA BrokenType ==
    ASSUME Broken
    PROVE  /\ linked' \in BOOLEAN /\ registered' \in BOOLEAN
           /\ toAgent' \in Seq(Message) /\ toExt' \in Seq(Word)
  <1>1. toAgent' \in Seq(Message) /\ toExt' \in Seq(Word)
    BY DEF Broken
  <1>2. linked' \in BOOLEAN /\ registered' \in BOOLEAN
    BY DEF Broken
  <1> QED
    BY <1>1, <1>2

\* So does a message posted to it.
LEMMA PostType ==
    ASSUME TypeOK, NEW m \in Message, Post(m)
    PROVE  /\ linked' \in BOOLEAN /\ hello' \in BOOLEAN
           /\ toAgent' \in Seq(Message)
  <1>1. linked' \in BOOLEAN
    BY Zenon DEF TypeOK, Post
  <1>2. hello' \in BOOLEAN
    <2>1. hello' = (up /\ (hello \/ ~linked))
      BY DEF Post
    <2> QED
      BY <2>1, Zenon
  <1>3. toAgent' \in Seq(Message)
    <2>1. toAgent \in Seq(Message)
      BY DEF TypeOK
    <2>2. Append(toAgent, m) \in Seq(Message)
      BY <2>1
    <2> QED
      BY <2>1, <2>2 DEF Post
  <1> QED
    BY <1>1, <1>2, <1>3

\* So does a flush.
LEMMA FlushType ==
    ASSUME IInv, Flush
    PROVE  TypeOK'
  <1> DEFINE m == [kind |-> "delta", tabs |-> pending.tabs, win |-> pending.win]
  <1>1. TypeOK /\ pending \in [tabs : [Tab -> Mark], win : Mark]
    BY DEF IInv, TypeOK
  <1>2. m \in Message
    BY <1>1 DEF Message
  <1>3. Post(m)
    BY DEF Flush
  <1>4. linked' \in BOOLEAN /\ hello' \in BOOLEAN /\ toAgent' \in Seq(Message)
    BY <1>1, <1>2, <1>3, PostType
  <1>5. registered' = registered /\ toExt' = toExt
    BY <1>3 DEF Post
  <1>6. pending' \in [tabs : [Tab -> Mark], win : Mark]
    BY DEF Flush, Nothing, Mark
  <1> QED
    BY <1>1, <1>4, <1>5, <1>6 DEF TypeOK, Flush, database, process, counts

\* AlarmReconciles keeps the types.
LEMMA AlarmReconcilesType ==
    ASSUME IInv, AlarmReconciles
    PROVE  TypeOK'
  <1> DEFINE m == [kind |-> "full",
                   tabs |-> [t \in Tab |-> IF allowed' /\ t \in open THEN "shown" ELSE "none"],
                   win |-> IF allowed' /\ open # {} THEN "shown" ELSE "none"]
  <1>1. TypeOK
    BY DEF IInv
  <1>2. m \in Message
    BY DEF Message, Mark
  <1>3. Post(m)
    BY DEF AlarmReconciles
  <1>4. linked' \in BOOLEAN /\ hello' \in BOOLEAN /\ toAgent' \in Seq(Message)
    BY <1>1, <1>2, <1>3, PostType
  <1>5. registered' = registered /\ toExt' = toExt
    BY <1>3 DEF Post
  <1>6. allowed' \in BOOLEAN /\ loading' \subseteq BOOLEAN
    BY <1>1 DEF AlarmReconciles, TypeOK
  <1> QED
    BY <1>1, <1>4, <1>5, <1>6 DEF TypeOK, AlarmReconciles, database, process, counts

\* SayHello keeps the types.
LEMMA SayHelloType ==
    ASSUME IInv, SayHello
    PROVE  TypeOK'
  <1> DEFINE m == [kind |-> "hello", tabs |-> Nothing, win |-> "none"]
  <1>1. TypeOK
    BY DEF IInv
  <1>2. m \in Message
    BY DEF Message, Nothing, Mark
  <1>3. toAgent' = Append(toAgent, m) /\ toAgent \in Seq(Message)
    BY <1>1 DEF SayHello, TypeOK
  <1>4. toAgent' \in Seq(Message)
    BY <1>2, <1>3
  <1>5. hello' \in BOOLEAN
    BY DEF SayHello
  <1> QED
    BY <1>1, <1>4, <1>5 DEF TypeOK, SayHello, database, process, counts

\* HearSettings keeps the types.
LEMMA HearSettingsType ==
    ASSUME IInv, HearSettings
    PROVE  TypeOK'
  <1>1. TypeOK /\ toExt \in Seq(Word) /\ toExt # <<>>
    BY DEF IInv, TypeOK, HearSettings
  <1> DEFINE w == Head(toExt)
  <1>2. w \in Word /\ Tail(toExt) \in Seq(Word)
    BY <1>1
  <1>3. w.private \in BOOLEAN
    BY <1>2 DEF Word
  <1>4. allowed' = w.private /\ stored' = w.private /\ toExt' = Tail(toExt)
    BY DEF HearSettings
  <1>5. pending' \in [tabs : [Tab -> Mark], win : Mark]
    <2>1. pending \in [tabs : [Tab -> Mark], win : Mark]
      BY <1>1 DEF TypeOK
    <2>2. [tabs |-> [t \in Tab |-> IF pending.tabs[t] = "shown" THEN "none" ELSE pending.tabs[t]],
           win |-> IF pending.win = "shown" THEN "none" ELSE pending.win]
            \in [tabs : [Tab -> Mark], win : Mark]
      BY <2>1 DEF Mark
    <2> QED
      BY <2>1, <2>2 DEF HearSettings
  <1>6. allowed' \in BOOLEAN /\ stored' \in BOOLEAN /\ toExt' \in Seq(Word)
    BY <1>2, <1>3, <1>4
  <1> QED
    BY <1>1, <1>5, <1>6 DEF TypeOK, HearSettings, database, process, counts

\* PushSettings keeps the types.
LEMMA PushSettingsType ==
    ASSUME IInv, PushSettings
    PROVE  TypeOK'
  <1> DEFINE w == [kind |-> "changed", private |-> setting]
  <1>1. TypeOK /\ toExt \in Seq(Word) /\ setting \in BOOLEAN
    BY DEF IInv, TypeOK
  <1>2. w \in Word
    BY <1>1 DEF Word
  <1>3. Append(toExt, w) \in Seq(Word)
    BY <1>1, <1>2
  <1>4. toExt' \in Seq(Word)
    BY <1>1, <1>3 DEF PushSettings
  <1> QED
    BY <1>1, <1>4 DEF TypeOK, PushSettings, database, worker, counts

\* TabShown keeps the types.
LEMMA TabShownType ==
    ASSUME IInv, NEW t \in Tab, TabShown(t)
    PROVE  TypeOK'
  BY DEF IInv, TypeOK, TabShown, database, process, wire, worker, Mark

\* TabClosed keeps the types.
LEMMA TabClosedType ==
    ASSUME IInv, NEW t \in Tab, TabClosed(t)
    PROVE  TypeOK'
  BY DEF IInv, TypeOK, TabClosed, database, process, wire, counts, Mark

\* AlarmLoads keeps the types.
LEMMA AlarmLoadsType ==
    ASSUME IInv, AlarmLoads
    PROVE  TypeOK'
  BY DEF IInv, TypeOK, AlarmLoads, database, process, wire, counts

\* WriteAck keeps the types.
LEMMA WriteAckType ==
    ASSUME IInv, WriteAck
    PROVE  TypeOK'
  BY DEF IInv, TypeOK, WriteAck, database, worker, counts, Word

\* Tick keeps the types.
LEMMA TickType ==
    ASSUME IInv, Tick
    PROVE  TypeOK'
  BY DEF IInv, TypeOK, Tick, database, wire, worker, counts

\* AgentDies keeps the types.
LEMMA AgentDiesType ==
    ASSUME TypeOK, AgentDies
    PROVE  /\ up' = FALSE /\ now' = now /\ swept' = swept
           /\ ui' \in {"idle", "push"} /\ ack' \subseteq BOOLEAN
           /\ linked' \in BOOLEAN /\ registered' \in BOOLEAN /\ hello' \in BOOLEAN
           /\ toAgent' \in Seq(Message) /\ toExt' \in Seq(Word)
           /\ open' \subseteq Tab /\ allowed' \in BOOLEAN /\ stored' \in BOOLEAN
           /\ loading' \subseteq BOOLEAN
           /\ pending' \in [tabs : [Tab -> Mark], win : Mark]
  <1>1. Broken
    BY DEF AgentDies
  <1>2. /\ linked' \in BOOLEAN /\ registered' \in BOOLEAN
        /\ toAgent' \in Seq(Message) /\ toExt' \in Seq(Word)
    BY <1>1, BrokenType
  <1> QED
    BY <1>2 DEF TypeOK, AgentDies

\* Die keeps the types.
LEMMA DieType ==
    ASSUME IInv, Die
    PROVE  TypeOK'
  <1>1. TypeOK /\ AgentDies
    BY DEF IInv, Die
  <1>2. UNCHANGED <<setting, ttl, rows, winRow, made, keys, cut>> /\ up' \in BOOLEAN
    BY <1>1, AgentDiesType DEF Die, database
  <1> QED
    BY <1>1, <1>2, AgentDiesType DEF TypeOK

\* DieBeforePurge keeps the types.
LEMMA DieBeforePurgeType ==
    ASSUME IInv, DieBeforePurge
    PROVE  TypeOK'
  <1>1. TypeOK /\ AgentDies
    BY DEF IInv, DieBeforePurge
  <1>2. /\ UNCHANGED <<ttl, rows, winRow, made, keys>> /\ up' \in BOOLEAN
        /\ setting' \in BOOLEAN /\ cut' \in BOOLEAN
    BY <1>1, AgentDiesType DEF DieBeforePurge
  <1> QED
    BY <1>1, <1>2, AgentDiesType DEF TypeOK

\* BreakConnection keeps the types.
LEMMA BreakConnectionType ==
    ASSUME IInv, BreakConnection
    PROVE  TypeOK'
  <1>1. TypeOK /\ Broken
    BY DEF IInv, BreakConnection
  <1>2. hello' \in BOOLEAN /\ ack' \subseteq BOOLEAN
    BY DEF BreakConnection
  <1> QED
    BY <1>1, <1>2, BrokenType DEF TypeOK, BreakConnection, database

\* Evict keeps the types.
LEMMA EvictType ==
    ASSUME IInv, Evict
    PROVE  TypeOK'
  <1>1. TypeOK /\ Broken
    BY DEF IInv, Evict
  <1>2. hello' \in BOOLEAN /\ ack' \subseteq BOOLEAN /\ loading' \subseteq BOOLEAN
    BY DEF Evict
  <1>3. allowed' \in BOOLEAN
    BY <1>1 DEF Evict, TypeOK
  <1> QED
    BY <1>1, <1>2, <1>3, BrokenType DEF TypeOK, Evict, database

\* Quit keeps the types.
LEMMA QuitType ==
    ASSUME IInv, Quit
    PROVE  TypeOK'
  <1>1. TypeOK /\ Broken
    BY DEF IInv, Quit
  <1>2. /\ hello' \in BOOLEAN /\ ack' \subseteq BOOLEAN /\ loading' \subseteq BOOLEAN
        /\ allowed' \in BOOLEAN /\ stored' \in BOOLEAN /\ open' \subseteq Tab
    BY DEF Quit
  <1>3. pending' \in [tabs : [Tab -> Mark], win : Mark]
    BY DEF Quit, Nothing, Mark
  <1> QED
    BY <1>1, <1>2, <1>3, BrokenType DEF TypeOK, Quit, database

-----------------------------------------------------------------------------
(* Steps that change the store, the clock or the setting. *)

\* SetCapturePrivate preserves the inductive invariant.
LEMMA SetCapturePrivateStep ==
    ASSUME IInv, NEW v \in BOOLEAN, SetCapturePrivate(v)
    PROVE  IInv'
  <1>1. TypeOK
    BY DEF IInv
  <1>2. rows' = IF v THEN rows ELSE {}
    BY DEF SetCapturePrivate, Purged
  <1>3. cut' \in BOOLEAN
    BY Zenon DEF SetCapturePrivate
  <1>4. TypeOK'
    <2>1. rows' \subseteq Row
      BY <1>1, <1>2 DEF TypeOK
    <2> QED
      BY <1>1, <1>3, <2>1 DEF TypeOK, SetCapturePrivate, wire, worker
  <1>5. rows' \subseteq rows
    BY <1>2
  <1>6. OffMeansPurged'
    BY <1>2 DEF SetCapturePrivate, OffMeansPurged
  <1>7. UNCHANGED <<keys, now, swept, up>>
    BY DEF SetCapturePrivate
  <1>8. Timely'
    BY <1>5, <1>7 DEF IInv, Timely
  <1>9. RowsFresh' /\ KeysInOrder(keys)'
    BY <1>5, <1>7 DEF IInv, RowsFresh, KeysInOrder, Unretired
  <1> QED
    BY <1>4, <1>6, <1>8, <1>9 DEF IInv

\* set_private_ttl clamps to what a ttl may be.
LEMMA ClampedType ==
    ASSUME PrivateAssumption, NEW h \in TtlAsked
    PROVE  Clamped(h) \in 1..MaxTtl
  BY DEF PrivateAssumption, Clamped

\* SetPrivateTtl preserves the inductive invariant.
LEMMA SetPrivateTtlStep ==
    ASSUME PrivateAssumption, IInv, NEW h \in TtlAsked, SetPrivateTtl(h)
    PROVE  IInv'
  <1>1. TypeOK
    BY DEF IInv
  <1>2. ttl' \in 1..MaxTtl
    BY ClampedType DEF SetPrivateTtl
  <1>3. TypeOK'
    BY <1>1, <1>2 DEF TypeOK, SetPrivateTtl, wire, worker
  <1> QED
    BY <1>3, StoreUntouched DEF SetPrivateTtl

\* Tick preserves the inductive invariant.
LEMMA TickStep ==
    ASSUME PrivateAssumption, IInv, Tick
    PROVE  IInv'
  <1>1. TypeOK'
    BY TickType
  <1>2. /\ now' = now + 1 /\ now \in Nat /\ swept \in Nat /\ SweepEvery \in Nat
        /\ UNCHANGED <<setting, rows, keys, up, swept, cut>>
    BY DEF PrivateAssumption, IInv, TypeOK, Tick, database, counts
  <1>3. Timely'
    BY <1>2 DEF IInv, Timely, Tick
  <1>4. KeysInOrder(keys)'
    <2>1. \A k \in DOMAIN keys : keys[k].created <= now + 1
      <3> TAKE k \in DOMAIN keys
      <3>1. keys[k] \in DataKey /\ keys[k].created <= now
        BY DEF IInv, TypeOK, KeysInOrder
      <3> QED
        BY <3>1, <1>2 DEF DataKey
    <2> QED
      BY <1>2, <2>1 DEF IInv, KeysInOrder, Unretired
  <1>5. OffMeansPurged' /\ RowsFresh'
    BY <1>2 DEF IInv, OffMeansPurged, RowsFresh
  <1> QED
    BY <1>1, <1>3, <1>4, <1>5 DEF IInv

\* A sweep only deletes, and leaves no row that has expired.
LEMMA SweptFacts ==
    ASSUME TypeOK
    PROVE  /\ Swept(rows) \subseteq rows
           /\ \A r \in Swept(rows) : now <= r.expires
  <1>1. \A r \in rows : r.expires \in Nat /\ now \in Nat
    BY DEF TypeOK, Row
  <1> QED
    BY <1>1 DEF Swept

\* Sweep preserves the inductive invariant.
LEMMA SweepStep ==
    ASSUME PrivateAssumption, IInv, Sweep
    PROVE  IInv'
  <1>1. TypeOK /\ rows' = Swept(rows) /\ swept' = now
    BY DEF IInv, Sweep
  <1>2. rows' \subseteq rows /\ \A r \in rows' : now <= r.expires
    BY <1>1, SweptFacts
  <1>3. TypeOK'
    BY <1>1, <1>2 DEF TypeOK, Sweep, wire, worker, counts
  <1>4. UNCHANGED <<setting, keys, now, up, cut>>
    BY DEF Sweep, counts
  <1>5. Timely'
    <2>1. now \in Nat /\ SweepEvery \in Nat
      BY <1>1 DEF TypeOK, PrivateAssumption
    <2> QED
      BY <1>1, <1>2, <1>4, <2>1 DEF Timely
  <1>6. OffMeansPurged'
    BY <1>2, <1>4 DEF IInv, OffMeansPurged
  <1>7. RowsFresh' /\ KeysInOrder(keys)'
    BY <1>2, <1>4 DEF IInv, RowsFresh, KeysInOrder, Unretired
  <1> QED
    BY <1>3, <1>5, <1>6, <1>7 DEF IInv

\* TakeSnapshot preserves the inductive invariant.
LEMMA TakeSnapshotStep ==
    ASSUME IInv, TakeSnapshot
    PROVE  IInv'
  <1>1. TypeOK /\ made' = made + 1 /\ rows' = CopyOf(rows, made + 1)
    BY DEF IInv, TakeSnapshot
  <1>2. rows \subseteq Row /\ made \in Nat
    BY <1>1 DEF TypeOK
  <1>3. Descends(rows', rows)
    BY <1>1, <1>2, CopyDescends
  <1>4. UNCHANGED <<setting, keys, up, now, swept, cut>>
    BY DEF TakeSnapshot, process, counts
  <1>5. rows' \subseteq Row
    BY <1>3 DEF Descends
  <1>6. TypeOK'
    BY <1>1, <1>2, <1>5 DEF TypeOK, TakeSnapshot, process, wire, worker, counts
  <1>7. /\ RowsFresh'
        /\ \A r \in rows' : swept <= r.expires
        /\ rows = {} => rows' = {}
    BY <1>3, <1>4, DescendsFresh
  <1>8. OffMeansPurged' /\ Timely'
    BY <1>4, <1>7 DEF IInv, OffMeansPurged, Timely
  <1>9. KeysInOrder(keys)'
    BY <1>4 DEF IInv, KeysInOrder, Unretired
  <1> QED
    BY <1>6, <1>7, <1>8, <1>9 DEF IInv

\* Start preserves the inductive invariant.
LEMMA StartStep ==
    ASSUME PrivateAssumption, IInv, Start
    PROVE  IInv'
  <1>1. TypeOK /\ rows \subseteq Row /\ made \in Nat /\ now \in Nat
    BY DEF IInv, TypeOK
  <1>2. Swept(rows) \subseteq rows /\ \A r \in Swept(rows) : now <= r.expires
    BY <1>1, SweptFacts
  <1>3. made' \in {made, made + 1} /\ made' \in Nat
    BY <1>1 DEF Start
  <1> DEFINE base == IF made' = made THEN Swept(rows) ELSE CopyOf(Swept(rows), made')
  <1>4. Descends(base, Swept(rows))
    <2>1. Swept(rows) \subseteq Row
      BY <1>1, <1>2
    <2> QED
      BY <1>3, <2>1, SubsetDescends, CopyDescends
  <1>5. rows' \subseteq base
    BY DEF Start, Pruned
  <1>6. Descends(rows', Swept(rows))
    BY <1>4, <1>5 DEF Descends
  <1>7. Descends(rows', rows) /\ \A r \in rows' : now <= r.expires
    BY <1>2, <1>6 DEF Descends
  <1>8. UNCHANGED <<setting, keys, now, cut>> /\ swept' = now /\ up' = TRUE
    BY DEF Start, counts
  <1>9. TypeOK'
    <2>1. rows' \subseteq Row
      BY <1>7 DEF Descends
    <2> QED
      BY <1>1, <1>3, <1>8, <2>1 DEF TypeOK, Start, wire, worker, counts
  <1>10. RowsFresh' /\ (rows = {} => rows' = {})
    BY <1>7, <1>8, DescendsFresh
  <1>11. OffMeansPurged'
    BY <1>8, <1>10 DEF IInv, OffMeansPurged
  <1>12. Timely'
    BY <1>1, <1>7, <1>8 DEF Timely, PrivateAssumption
  <1>13. KeysInOrder(keys)'
    BY <1>8 DEF IInv, KeysInOrder, Unretired
  <1> QED
    BY <1>9, <1>10, <1>11, <1>12, <1>13 DEF IInv

\* Die preserves the inductive invariant.
LEMMA DieStep ==
    ASSUME IInv, Die
    PROVE  IInv'
  <1>1. TypeOK'
    BY DieType
  <1>2. UNCHANGED <<setting, rows, keys, now, swept, cut>> /\ up' = FALSE
    BY DEF Die, AgentDies, database
  <1>3. OffMeansPurged' /\ Timely' /\ KeysInOrder(keys)' /\ RowsFresh'
    BY <1>2 DEF IInv, OffMeansPurged, Timely, KeysInOrder, Unretired, RowsFresh
  <1> QED
    BY <1>1, <1>3 DEF IInv

\* DieBeforePurge preserves the inductive invariant.
LEMMA DieBeforePurgeStep ==
    ASSUME IInv, DieBeforePurge
    PROVE  IInv'
  <1>1. TypeOK'
    BY DieBeforePurgeType
  <1>2. UNCHANGED <<rows, keys, now, swept>> /\ up' = FALSE /\ cut' = TRUE
    BY DEF DieBeforePurge, AgentDies
  <1>3. OffMeansPurged' /\ Timely' /\ KeysInOrder(keys)' /\ RowsFresh'
    BY <1>2 DEF IInv, OffMeansPurged, Timely, KeysInOrder, Unretired, RowsFresh
  <1> QED
    BY <1>1, <1>3 DEF IInv

\* A key retired without a successor still opens its rows.
LEMMA DieRotatingStep ==
    ASSUME PrivateAssumption, IInv, DieRotating
    PROVE  IInv'
  <1>1. /\ TypeOK /\ AgentDies /\ keys' = Retired(keys) /\ now \in Nat
        /\ RotateAfter \in Nat \ {0} /\ KeysInOrder(keys)
    BY DEF IInv, DieRotating, TypeOK, PrivateAssumption
  <1>2. /\ KeysInOrder(Retired(keys))
        /\ DOMAIN Retired(keys) = DOMAIN keys
        /\ \A k \in DOMAIN keys : Retired(keys)[k].created = keys[k].created
    BY <1>1, RetiredSound
  <1>3. /\ UNCHANGED <<setting, ttl, rows, winRow, made, now, swept, cut>>
        /\ up' = FALSE
    BY DEF DieRotating, AgentDies
  <1>4. keys' \in Seq(DataKey)
    BY <1>1, <1>2 DEF KeysInOrder
  <1>5. TypeOK'
    BY <1>1, <1>3, <1>4, AgentDiesType DEF TypeOK
  <1>6. KeysInOrder(keys)'
    BY <1>1, <1>2, <1>3 DEF KeysInOrder, Unretired
  <1>7. RowsFresh'
    BY <1>1, <1>2, <1>3 DEF IInv, RowsFresh
  <1>8. OffMeansPurged' /\ Timely'
    BY <1>3 DEF IInv, OffMeansPurged, Timely
  <1> QED
    BY <1>5, <1>6, <1>7, <1>8 DEF IInv

-----------------------------------------------------------------------------
(* A message of the extension. *)

\* What one message leaves in the tables.
LEMMA IngestedSound ==
    ASSUME PrivateAssumption, IInv, NEW m \in Message, Ingested(m),
           UNCHANGED <<setting, now>>
    PROVE  /\ keys' \in Seq(DataKey) /\ rows' \subseteq Row /\ winRow' \in BOOLEAN
           /\ KeysInOrder(keys)'
           /\ RowsFresh'
           /\ \A r \in rows' : swept <= r.expires
           /\ ~setting => rows' \subseteq rows
  <1> DEFINE ts == Kept(Marked(m, "shown"))
             ks == IF ts = {} THEN keys ELSE ActiveDek(keys)
  <1>1. /\ now \in Nat /\ swept \in Nat /\ swept <= now /\ ttl \in Nat
        /\ RotateAfter \in Nat \ {0} /\ KeysInOrder(keys) /\ rows \subseteq Row
        /\ \A r \in rows : swept <= r.expires
    BY DEF PrivateAssumption, IInv, TypeOK, Timely
  <1>2. ts \subseteq Tab /\ (~setting => ts = {})
    BY DEF Kept, Marked
  <1>3. keys' = ks
    BY DEF Ingested
  <1>4. \A r \in rows' : r \in rows \/ r \in Sealed(ts, ks)
    BY DEF Ingested
  <1>5. winRow' \in BOOLEAN
    <2>1. winRow' = (m.win = "shown" \/ (winRow /\ m.kind = "delta" /\ m.win = "none"))
      BY DEF Ingested
    <2> QED
      BY <2>1, Zenon
  <1> HIDE DEF ts
  <1>6. /\ KeysInOrder(ks)
        /\ DOMAIN keys \subseteq DOMAIN ks
        /\ \A k \in DOMAIN keys : ks[k].created = keys[k].created
        /\ ts # {} => \A k \in Active(ks) : /\ k \in DOMAIN ks
                                            /\ ks[k].created <= now
                                            /\ now < ks[k].created + RotateAfter
    BY <1>1, ActiveDekSound
  <1> HIDE DEF ks
  <1>7. ks \in Seq(DataKey)
    BY <1>6 DEF KeysInOrder
  <1>8. ASSUME NEW r \in Sealed(ts, ks)
        PROVE  /\ r \in Row /\ swept <= r.expires /\ ts # {}
               /\ r.key \in DOMAIN ks
               /\ ks[r.key].created <= r.updated
               /\ r.updated < ks[r.key].created + RotateAfter
    <2>1. PICK t \in ts : \E k \in Active(ks) :
            r = [at |-> LIVE, tab |-> t, key |-> k, updated |-> now, expires |-> now + ttl]
      BY DEF Sealed
    <2>2. PICK k \in Active(ks) :
            r = [at |-> LIVE, tab |-> t, key |-> k, updated |-> now, expires |-> now + ttl]
      BY <2>1
    <2>3. k \in DOMAIN ks /\ ks[k].created <= now /\ now < ks[k].created + RotateAfter
      BY <1>6, <2>1
    <2>4. k \in Nat
      BY <1>7, <2>3
    <2>5. t \in Tab
      BY <1>2, <2>1
    <2>6. r \in Row
      BY <1>1, <2>2, <2>4, <2>5 DEF Row, LIVE
    <2> QED
      BY <1>1, <2>1, <2>2, <2>3, <2>6
  <1>9. ASSUME NEW r \in rows
        PROVE  /\ r.key \in DOMAIN ks
               /\ ks[r.key].created <= r.updated
               /\ r.updated < ks[r.key].created + RotateAfter
    BY <1>6 DEF IInv, RowsFresh
  <1>10. rows' \subseteq Row /\ \A r \in rows' : swept <= r.expires
    BY <1>1, <1>4, <1>8
  <1>11. RowsFresh'
    BY <1>3, <1>4, <1>8, <1>9 DEF RowsFresh
  <1>12. ~setting => rows' \subseteq rows
    BY <1>2, <1>4, <1>8
  <1>13. KeysInOrder(keys)'
    BY <1>3, <1>6 DEF KeysInOrder, Unretired
  <1> QED
    BY <1>3, <1>5, <1>7, <1>10, <1>11, <1>12, <1>13

\* Deliver preserves the inductive invariant.
LEMMA DeliverStep ==
    ASSUME PrivateAssumption, IInv, Deliver
    PROVE  IInv'
  <1>1. TypeOK /\ toAgent \in Seq(Message) /\ toAgent # <<>>
    BY DEF IInv, TypeOK, Deliver
  <1> DEFINE m == Head(toAgent)
  <1>2. m \in Message /\ Tail(toAgent) \in Seq(Message)
    BY <1>1
  <1>3. /\ toAgent' \in Seq(Message) /\ registered' \in BOOLEAN
        /\ UNCHANGED <<setting, ttl, made, up, now, swept, ui, linked, toExt, cut,
                       open, allowed, stored, loading, pending, hello>>
    BY <1>2 DEF Deliver, worker, counts
  <1>4. CASE m.kind = "hello"
    <2>1. ack' = {setting} /\ UNCHANGED <<keys, rows, winRow>>
      BY <1>4 DEF Deliver
    <2>2. ack' \subseteq BOOLEAN
      BY <1>1, <2>1 DEF TypeOK
    <2>3. TypeOK'
      BY <1>1, <1>3, <2>1, <2>2 DEF TypeOK
    <2> QED
      BY <1>3, <2>1, <2>3, StoreUntouched
  <1>5. CASE m.kind # "hello"
    <2>1. Ingested(m) /\ ack' = ack
      BY <1>5 DEF Deliver
    <2>2. /\ keys' \in Seq(DataKey) /\ rows' \subseteq Row /\ winRow' \in BOOLEAN
          /\ KeysInOrder(keys)'
          /\ RowsFresh'
          /\ \A r \in rows' : swept <= r.expires
          /\ ~setting => rows' \subseteq rows
      BY <1>2, <1>3, <2>1, IngestedSound
    <2>3. TypeOK'
      BY <1>1, <1>3, <2>1, <2>2 DEF TypeOK
    <2>4. OffMeansPurged' /\ Timely'
      BY <1>3, <2>2 DEF IInv, OffMeansPurged, Timely
    <2> QED
      BY <2>2, <2>3, <2>4 DEF IInv
  <1> QED
    BY <1>4, <1>5

-----------------------------------------------------------------------------
(* The theorems. *)

\* Every action preserves the inductive invariant.
LEMMA NextIInv ==
    ASSUME PrivateAssumption, IInv, Next
    PROVE  IInv'
  <1>1. ASSUME NEW t \in Tab, TabShown(t) PROVE IInv'
    <2>1. TypeOK'
      BY <1>1, TabShownType
    <2> QED
      BY <1>1, <2>1, StoreUntouched DEF TabShown, database, process
  <1>2. ASSUME NEW t \in Tab, TabClosed(t) PROVE IInv'
    <2>1. TypeOK'
      BY <1>2, TabClosedType
    <2> QED
      BY <1>2, <2>1, StoreUntouched DEF TabClosed, database, process, counts
  <1>3. CASE Flush
    <2>1. TypeOK'
      BY <1>3, FlushType
    <2> QED
      BY <1>3, <2>1, StoreUntouched DEF Flush, database, process, counts
  <1>4. CASE AlarmLoads
    <2>1. TypeOK'
      BY <1>4, AlarmLoadsType
    <2> QED
      BY <1>4, <2>1, StoreUntouched DEF AlarmLoads, database, process, counts
  <1>5. CASE AlarmReconciles
    <2>1. TypeOK'
      BY <1>5, AlarmReconcilesType
    <2> QED
      BY <1>5, <2>1, StoreUntouched DEF AlarmReconciles, database, process, counts
  <1>6. CASE SayHello
    <2>1. TypeOK'
      BY <1>6, SayHelloType
    <2> QED
      BY <1>6, <2>1, StoreUntouched DEF SayHello, database, process, counts
  <1>7. CASE HearSettings
    <2>1. TypeOK'
      BY <1>7, HearSettingsType
    <2> QED
      BY <1>7, <2>1, StoreUntouched DEF HearSettings, database, process, counts
  <1>8. CASE WriteAck
    <2>1. TypeOK'
      BY <1>8, WriteAckType
    <2> QED
      BY <1>8, <2>1, StoreUntouched DEF WriteAck, database, counts
  <1>9. CASE PushSettings
    <2>1. TypeOK'
      BY <1>9, PushSettingsType
    <2> QED
      BY <1>9, <2>1, StoreUntouched DEF PushSettings, database, counts
  <1>10. CASE BreakConnection
    <2>1. TypeOK'
      BY <1>10, BreakConnectionType
    <2> QED
      BY <1>10, <2>1, StoreUntouched DEF BreakConnection, database
  <1>11. CASE Evict
    <2>1. TypeOK'
      BY <1>11, EvictType
    <2> QED
      BY <1>11, <2>1, StoreUntouched DEF Evict, database
  <1>12. CASE Quit
    <2>1. TypeOK'
      BY <1>12, QuitType
    <2> QED
      BY <1>12, <2>1, StoreUntouched DEF Quit, database
  <1>13. ASSUME NEW v \in BOOLEAN \ {setting}, SetCapturePrivate(v) PROVE IInv'
    BY <1>13, SetCapturePrivateStep
  <1>14. ASSUME NEW h \in TtlAsked, SetPrivateTtl(h) PROVE IInv'
    BY <1>14, SetPrivateTtlStep
  <1> QED
    BY <1>1, <1>2, <1>3, <1>4, <1>5, <1>6, <1>7, <1>8, <1>9, <1>10, <1>11, <1>12,
       <1>13, <1>14, DeliverStep, TickStep, SweepStep, TakeSnapshotStep, StartStep,
       DieStep, DieBeforePurgeStep, DieRotatingStep
    DEF Next

\* The invariant of the specification.
THEOREM StoreInvariant == Spec => []IInv
  <1>1. PrivateAssumption
    BY PrivateAssumption
  <1>2. Init => IInv
    BY <1>1, InitIInv
  <1>3. IInv /\ [Next]_vars => IInv'
    <2> SUFFICES ASSUME IInv, [Next]_vars
                 PROVE  IInv'
      OBVIOUS
    <2>1. CASE Next
      BY <1>1, <2>1, NextIInv
    <2>2. CASE UNCHANGED vars
      <3>1. UNCHANGED <<setting, ttl, rows, winRow, made, keys, up, now, swept, ui, ack,
                        linked, registered, toAgent, toExt, open, allowed, stored,
                        loading, pending, hello, cut>>
        BY <2>2 DEF vars, database, process, wire, worker, counts
      <3>2. TypeOK'
        BY <3>1 DEF IInv, TypeOK
      <3> QED
        BY <3>1, <3>2, StoreUntouched
    <2> QED
      BY <2>1, <2>2
  <1> QED
    BY <1>2, <1>3, PTL DEF Spec

\* Every value has its type, private_ttl_hours its bounds (settings.rs).
THEOREM TypeCorrect == Spec => []TypeOK
  <1>1. IInv => TypeOK
    BY DEF IInv
  <1> QED
    BY <1>1, StoreInvariant, PTL

\* Off means purged: whatever messages are under way, no private row is left or
\* comes back once SetCapturePrivate has purged them (settings.rs, ingest.rs).
THEOREM PrivateOnlyByConsent == Spec => []OffMeansPurged
  <1>1. IInv => OffMeansPurged
    BY DEF IInv
  <1> QED
    BY <1>1, StoreInvariant, PTL

\* No row of any snapshot outlives its ttl by more than one sweep interval while
\* the agent runs (main.rs, sweep_expired_private).
THEOREM PrivateKeptNoLonger == Spec => []KeptNoLonger
  <1>1. IInv => KeptNoLonger
    <2> SUFFICES ASSUME IInv, up, NEW r \in rows
                 PROVE  now <= r.expires + SweepEvery
      BY DEF KeptNoLonger
    <2>1. swept <= r.expires /\ now <= swept + SweepEvery
      BY DEF IInv, Timely
    <2>2. swept \in Nat /\ now \in Nat /\ r.expires \in Nat /\ SweepEvery \in Nat
      BY PrivateAssumption DEF PrivateAssumption, IInv, TypeOK, Row
    <2> QED
      BY <2>1, <2>2
  <1> QED
    BY <1>1, StoreInvariant, PTL

\* Every row of every snapshot has the key that sealed it, which was not due
\* then, and no old key is in use (keys.rs, active_dek).
THEOREM PrivateRowsReadable == Spec => []RowsUnderTheirKey
  <1>1. IInv => RowsUnderTheirKey
    BY DEF IInv, RowsFresh, KeysInOrder, RowsUnderTheirKey
  <1> QED
    BY <1>1, StoreInvariant, PTL

-----------------------------------------------------------------------------
(* The action property. *)

\* A copy has nothing its original has not.
LEMMA DescendsContents ==
    ASSUME NEW new, NEW old, Descends(new, old)
    PROVE  Contents(new) \subseteq Contents(old)
  <1> SUFFICES ASSUME NEW c \in Contents(new)
               PROVE  c \in Contents(old)
    OBVIOUS
  <1>1. PICK r \in new : c = <<r.tab, r.key, r.updated, r.expires>>
    BY DEF Contents
  <1>2. PICK s \in old : /\ r.tab = s.tab /\ r.key = s.key
                         /\ r.updated = s.updated /\ r.expires = s.expires
    BY DEF Descends
  <1>3. c = <<s.tab, s.key, s.updated, s.expires>>
    BY <1>1, <1>2
  <1> QED
    BY <1>3 DEF Contents

\* Fewer rows, less content.
LEMMA SubsetContents ==
    ASSUME NEW new, NEW old, new \subseteq old
    PROVE  Contents(new) \subseteq Contents(old)
  BY DEF Contents

\* The rows of a step: only a message, and only with the setting on, adds more
\* than copies.
LEMMA NextContents ==
    ASSUME PrivateAssumption, IInv, Next, ~setting'
    PROVE  Contents(rows') \subseteq Contents(rows)
  <1>1. TypeOK /\ rows \subseteq Row /\ made \in Nat
    BY DEF IInv, TypeOK
  <1>2. CASE rows' = rows
    BY <1>2
  <1>3. ASSUME NEW v \in BOOLEAN, SetCapturePrivate(v) PROVE rows' \subseteq rows
    BY <1>3 DEF SetCapturePrivate, Purged
  <1>4. CASE Sweep
    <2>1. rows' \subseteq rows
      BY <1>1, <1>4, SweptFacts DEF Sweep
    <2> QED
      BY <2>1, SubsetContents
  <1>5. CASE TakeSnapshot
    <2>1. Descends(rows', rows)
      BY <1>1, <1>5, CopyDescends DEF TakeSnapshot
    <2> QED
      BY <2>1, DescendsContents
  <1>6. CASE Start
    <2>1. Swept(rows) \subseteq rows /\ Swept(rows) \subseteq Row
      BY <1>1, SweptFacts
    <2>2. made' \in {made, made + 1} /\ made' \in Nat
      BY <1>1, <1>6 DEF Start
    <2>3. rows' \subseteq (IF made' = made THEN Swept(rows) ELSE CopyOf(Swept(rows), made'))
      BY <1>6 DEF Start, Pruned
    <2>4. Contents(CopyOf(Swept(rows), made')) \subseteq Contents(Swept(rows))
      BY <2>1, <2>2, CopyDescends, DescendsContents
    <2>5. Contents(Swept(rows)) \subseteq Contents(rows)
      BY <2>1, SubsetContents
    <2>6. CASE made' = made
      <3>1. rows' \subseteq Swept(rows)
        BY <2>3, <2>6
      <3> QED
        BY <2>5, <3>1, SubsetContents
    <2>7. CASE made' # made
      <3>1. rows' \subseteq CopyOf(Swept(rows), made')
        BY <2>3, <2>7
      <3>2. Contents(rows') \subseteq Contents(CopyOf(Swept(rows), made'))
        BY <3>1, SubsetContents
      <3> QED
        BY <2>4, <2>5, <3>2
    <2> QED
      BY <2>6, <2>7
  <1>7. CASE Deliver
    <2>1. toAgent \in Seq(Message) /\ toAgent # <<>>
      BY <1>1, <1>7 DEF TypeOK, Deliver
    <2>2. Head(toAgent) \in Message
      BY <2>1
    <2>3. UNCHANGED <<setting, now>>
      BY <1>7 DEF Deliver
    <2>4. CASE Head(toAgent).kind = "hello"
      BY <1>2, <1>7, <2>4 DEF Deliver
    <2>5. CASE Head(toAgent).kind # "hello"
      <3>1. Ingested(Head(toAgent))
        BY <1>7, <2>5 DEF Deliver
      <3>2. rows' \subseteq rows
        BY <2>2, <2>3, <3>1, IngestedSound
      <3> QED
        BY <3>2, SubsetContents
    <2> QED
      BY <2>4, <2>5
  <1>8. CASE \E t \in Tab : TabShown(t) \/ TabClosed(t)
    <2>1. rows' = rows
      BY <1>8 DEF TabShown, TabClosed, database
    <2> QED
      BY <1>2, <2>1
  <1>9. CASE Flush \/ AlarmLoads \/ AlarmReconciles \/ SayHello \/ HearSettings
             \/ WriteAck \/ PushSettings \/ Tick \/ Die
    <2>1. rows' = rows
      BY <1>9 DEF Flush, AlarmLoads, AlarmReconciles, SayHello, HearSettings,
                  WriteAck, PushSettings, Tick, Die, database
    <2> QED
      BY <1>2, <2>1
  <1>10. CASE DieBeforePurge \/ DieRotating \/ BreakConnection \/ Evict \/ Quit
              \/ \E h \in TtlAsked : SetPrivateTtl(h)
    <2>1. rows' = rows
      BY <1>10 DEF DieBeforePurge, DieRotating, BreakConnection, Evict, Quit,
                   SetPrivateTtl, database
    <2> QED
      BY <1>2, <2>1
  <1>11. CASE \E v \in BOOLEAN \ {setting} : SetCapturePrivate(v)
    <2>1. rows' \subseteq rows
      BY <1>3, <1>11
    <2> QED
      BY <2>1, SubsetContents
  <1> QED
    BY <1>4, <1>5, <1>6, <1>7, <1>8, <1>9, <1>10, <1>11 DEF Next

\* With the setting off no step stores a tab that was not stored, nor keeps one
\* longer: rows a crash left behind are only ever copied or deleted (ingest.rs).
THEOREM PrivateOffStoresNothing == Spec => OffStoresNothing
  <1>1. PrivateAssumption
    BY PrivateAssumption
  <1>2. IInv /\ [Next]_vars => [~setting' => Contents(rows') \subseteq Contents(rows)]_vars
    <2> SUFFICES ASSUME IInv, [Next]_vars, vars' # vars, ~setting'
                 PROVE  Contents(rows') \subseteq Contents(rows)
      OBVIOUS
    <2>1. Next
      OBVIOUS
    <2> QED
      BY <1>1, <2>1, NextContents
  <1> QED
    BY <1>2, StoreInvariant, PTL DEF Spec, OffStoresNothing

=============================================================================
