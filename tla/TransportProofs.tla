-------------------------- MODULE TransportProofs --------------------------
(***************************************************************************)
(* Theorems about the connection, for any number of relays and instances,  *)
(* any delays and any number of faults.                                    *)
(***************************************************************************)
EXTENDS Transport, TLAPS

\* The disjuncts of Next, one by one.
LEMMA Actions ==
    ASSUME Next
    PROVE  \/ TimerFires \/ PortLost \/ Evict
           \/ \E f \in Frame : Send(f)
           \/ \E f \in Frame : Post(f)
           \/ \E r \in Relay : BrowserKills(r)
           \/ \E r \in Relay : Connect(r)
           \/ \E r \in Relay : Forward(r)
           \/ \E r \in Relay : LeaveLoop(r)
           \/ \E r \in Relay : Joined(r)
           \/ \E r \in Relay : PumpFrame(r)
           \/ \E r \in Relay : PumpEnds(r)
           \/ \E r \in Relay : Read(r)
           \/ \E r \in Relay : ReadEnds(r)
           \/ \E r \in Relay : Reply(r)
           \/ \E r \in Relay : TakeWriter(r)
           \/ Start \/ Die \/ Create \/ Retry \/ Wait \/ Accept \/ PushFrame
  BY DEF Next, Extension, RelayStep, Connection, Listener

-----------------------------------------------------------------------------
(* Type correctness.  That an entry of the registry has a thread is part of *)
(* it: every way a connection ends takes its entry out.                     *)

LEMMA FromZero == 0 \in 0 .. Len(Backoff) /\ 0 \in 0 .. MaxFaults
  BY BackoffAssumption, FaultsAssumption

LEMMA FaultCounted == ASSUME TypeOK, Fault PROVE faults' \in 0 .. MaxFaults
  BY FaultsAssumption DEF TypeOK, Fault

LEMMA TypeInit == Init => TypeOK
  <1> SUFFICES ASSUME Init PROVE TypeOK
    OBVIOUS
  <1>1. /\ main \in [Relay -> {"off", "start", "loop", "join", "gone"}]
        /\ pump \in [Relay -> {"off", "read", "done"}]
        /\ piped \in [Relay -> BOOLEAN]
        /\ stdin \in [Relay -> Frame \cup {NONE}]
        /\ toAgent \in [Relay -> {"fits", "edge", NONE}]
        /\ toRelay \in [Relay -> BOOLEAN]
    BY DEF Init
  <1>2. /\ srv \in [Relay -> {"none", "reading", "replying"}]
        /\ reg \in [Relay -> BOOLEAN]
        /\ \A r \in Relay : reg[r] => srv[r] # "none"
    BY DEF Init
  <1>3. attempt \in 0 .. Len(Backoff) /\ faults \in 0 .. MaxFaults
    BY FromZero DEF Init
  <1> QED
    BY <1>1, <1>2, <1>3 DEF Init, TypeOK

LEMMA ConnectNativeType ==
    ASSUME TypeOK, NEW f \in Frame \cup {NONE}, ConnectNative(f), UNCHANGED agentVars
    PROVE  TypeOK'
  <1>1. PICK r \in Relay :
            /\ port' = r /\ attempt' = 0 /\ timer' = FALSE
            /\ main' = [main EXCEPT ![r] = "start"] /\ pump' = [pump EXCEPT ![r] = "off"]
            /\ piped' = [piped EXCEPT ![r] = TRUE] /\ stdin' = [stdin EXCEPT ![r] = f]
            /\ toAgent' = [toAgent EXCEPT ![r] = NONE] /\ toRelay' = [toRelay EXCEPT ![r] = FALSE]
            /\ Charge(f)
    BY DEF ConnectNative
  <1>2. faults' \in 0 .. MaxFaults
    BY <1>1, FaultCounted DEF TypeOK, Charge
  <1> QED
    BY <1>1, <1>2, FromZero DEF TypeOK, agentVars

LEMMA ScheduleType ==
    ASSUME TypeOK, NEW set \in BOOLEAN, ScheduleReconnect(set)
    PROVE  timer' = TRUE /\ attempt' \in 0 .. Len(Backoff)
  BY BackoffAssumption DEF TypeOK, ScheduleReconnect, Capped

LEMMA ConnectThrowsType ==
    ASSUME TypeOK, ConnectThrows, UNCHANGED agentVars
    PROVE  TypeOK'
  <1>1. timer' = TRUE /\ attempt' \in 0 .. Len(Backoff)
    BY ScheduleType DEF ConnectThrows
  <1>2. faults' \in 0 .. MaxFaults
    BY FaultCounted DEF ConnectThrows
  <1> QED
    BY <1>1, <1>2 DEF TypeOK, ConnectThrows, relayVars, pipeVars, agentVars

\* A connection that ends leaves the registry.
LEMMA EndType ==
    ASSUME TypeOK, NEW r \in Relay, End(r),
           UNCHANGED <<portVars, relayVars, agent, accepting, first, client, push, faults>>
    PROVE  TypeOK'
  BY DEF TypeOK, End, portVars, relayVars

LEMMA TypeStep == TypeOK /\ [Next]_vars => TypeOK'
  <1> SUFFICES ASSUME TypeOK, [Next]_vars PROVE TypeOK'
    OBVIOUS
  <1>1. CASE TimerFires
    BY <1>1, ConnectNativeType, ConnectThrowsType DEF TimerFires
  <1>2. CASE PortLost
    <2>1. timer' = TRUE /\ attempt' \in 0 .. Len(Backoff)
      BY <1>2, ScheduleType DEF PortLost, TypeOK
    <2> QED
      BY <1>2, <2>1 DEF TypeOK, PortLost, pipeVars, agentVars
  <1>3. CASE Evict
    <2>1. faults' \in 0 .. MaxFaults
      BY <1>3, FaultCounted DEF Evict
    <2> QED
      BY <1>3, <2>1, FromZero DEF TypeOK, Evict, pipeVars, agentVars
  <1>4. CASE \E f \in Frame : Send(f)
    BY <1>4, ConnectNativeType, ConnectThrowsType DEF Send
  <1>5. ASSUME NEW f \in Frame, Post(f) PROVE TypeOK'
    <2>1. faults' \in 0 .. MaxFaults
      BY <1>5, FaultCounted DEF TypeOK, Post, Charge
    <2> QED
      BY <1>5, <2>1 DEF TypeOK, Post, portVars, pipeVars, agentVars
  <1>6. CASE \E r \in Relay : BrowserKills(r)
    BY <1>6 DEF TypeOK, BrowserKills, portVars, pipeVars, agentVars
  <1>7. CASE \E r \in Relay : Connect(r)
    BY <1>7 DEF TypeOK, Connect, portVars, pipeVars
  <1>8. CASE \E r \in Relay : Forward(r)
    BY <1>8 DEF TypeOK, Forward, portVars, agentVars
  <1>9. CASE \E r \in Relay : LeaveLoop(r)
    BY <1>9 DEF TypeOK, LeaveLoop, portVars, pipeVars, agentVars
  <1>10. CASE \E r \in Relay : Joined(r)
    BY <1>10 DEF TypeOK, Joined, portVars, pipeVars, agentVars
  <1>11. CASE \E r \in Relay : PumpFrame(r)
    BY <1>11 DEF TypeOK, PumpFrame, portVars, agentVars
  <1>12. CASE \E r \in Relay : PumpEnds(r)
    BY <1>12 DEF TypeOK, PumpEnds, portVars, pipeVars, agentVars
  <1>13. CASE \E r \in Relay : Read(r)
    BY <1>13 DEF TypeOK, Read, portVars, relayVars
  <1>14. CASE \E r \in Relay : ReadEnds(r)
    BY <1>14, EndType DEF ReadEnds
  <1>15. ASSUME NEW r \in Relay, Reply(r) PROVE TypeOK'
    <2>1. CASE End(r)
      BY <1>15, <2>1, EndType DEF Reply
    <2>2. CASE toRelay' = [toRelay EXCEPT ![r] = TRUE] /\ srv' = [srv EXCEPT ![r] = "reading"]
               /\ UNCHANGED <<reg, toAgent>>
      BY <1>15, <2>2 DEF TypeOK, Reply, portVars, relayVars
    <2> QED
      BY <1>15, <2>1, <2>2 DEF Reply
  <1>16. CASE \E r \in Relay : TakeWriter(r)
    BY <1>16 DEF TypeOK, TakeWriter, portVars, relayVars, pipeVars
  <1>17. CASE Start
    BY <1>17 DEF TypeOK, Start, portVars, relayVars, pipeVars
  <1>18. CASE Die
    <2>1. faults' \in 0 .. MaxFaults
      BY <1>18, FaultCounted DEF Die
    <2> QED
      BY <1>18, <2>1 DEF TypeOK, Die, portVars, relayVars, pipeVars
  <1>19. CASE Create
    BY <1>19 DEF TypeOK, Create, portVars, relayVars, pipeVars
  <1>20. CASE Retry
    BY <1>20 DEF TypeOK, Retry, portVars, relayVars, pipeVars
  <1>21. CASE Wait
    BY <1>21 DEF TypeOK, Wait, portVars, relayVars, pipeVars
  <1>22. CASE Accept
    BY <1>22 DEF TypeOK, Accept, portVars, relayVars, pipeVars
  <1>23. CASE PushFrame
    BY <1>23 DEF TypeOK, PushFrame, DropWriter, portVars, relayVars
  <1>24. CASE UNCHANGED vars
    BY <1>24 DEF TypeOK, vars, portVars, relayVars, pipeVars, agentVars
  <1> QED
    BY <1>1, <1>2, <1>3, <1>4, <1>5, <1>6, <1>7, <1>8, <1>9, <1>10, <1>11, <1>12, <1>13,
       <1>14, <1>15, <1>16, <1>17, <1>18, <1>19, <1>20, <1>21, <1>22, <1>23, <1>24, Actions

\* Every reachable state is well typed, and whatever is registered has its
\* thread (ConnectionGuard).
THEOREM TypeCorrect == Spec => []TypeOK
  <1> QED
    BY TypeInit, TypeStep, PTL DEF Spec

-----------------------------------------------------------------------------
(* One live connection.  A relay is started only when there is no port: ensure *)
(* looks for one, and a timer is set only without one.                        *)

\* A new port is the only relay whose pipes the browser holds.
LEMMA ConnectNativeLive ==
    ASSUME TypeOK, OneLiveConnection, port = NONE, NEW f, ConnectNative(f)
    PROVE  OneLiveConnection'
  BY RelayAssumption DEF TypeOK, OneLiveConnection, ConnectNative

LEMMA ConnectThrowsLive ==
    ASSUME OneLiveConnection, port = NONE, ConnectThrows
    PROVE  OneLiveConnection'
  BY DEF OneLiveConnection, ConnectThrows, relayVars

LEMMA LiveStep == TypeOK /\ OneLiveConnection /\ [Next]_vars => OneLiveConnection'
  <1> SUFFICES ASSUME TypeOK, OneLiveConnection, [Next]_vars PROVE OneLiveConnection'
    OBVIOUS
  <1>1. CASE TimerFires
    <2>1. port = NONE
      BY <1>1 DEF TimerFires, OneLiveConnection
    <2> QED
      BY <1>1, <2>1, ConnectNativeLive, ConnectThrowsLive DEF TimerFires
  <1>2. CASE PortLost
    BY <1>2 DEF TypeOK, OneLiveConnection, PortLost
  <1>3. CASE Evict
    BY <1>3 DEF TypeOK, OneLiveConnection, Evict
  <1>4. CASE \E f \in Frame : Send(f)
    BY <1>4, ConnectNativeLive, ConnectThrowsLive DEF Send, MayConnect
  <1>5. CASE UNCHANGED <<port, timer, piped>>
    BY <1>5 DEF OneLiveConnection
  <1>6. ASSUME NEW r \in Relay,
               Connect(r) \/ Forward(r) \/ LeaveLoop(r) \/ Joined(r) \/ PumpFrame(r) \/ PumpEnds(r)
                 \/ Read(r) \/ ReadEnds(r) \/ Reply(r) \/ TakeWriter(r) \/ BrowserKills(r)
        PROVE  UNCHANGED <<port, timer, piped>>
    BY <1>6 DEF Connect, Forward, LeaveLoop, Joined, PumpFrame, PumpEnds, Read, ReadEnds, Reply,
                TakeWriter, BrowserKills, portVars, relayVars
  <1>7. ASSUME \/ \E f \in Frame : Post(f)
               \/ Start \/ Die \/ Create \/ Retry \/ Wait \/ Accept \/ PushFrame
        PROVE  UNCHANGED <<port, timer, piped>>
    BY <1>7 DEF Post, Start, Die, Create, Retry, Wait, Accept, PushFrame, portVars, relayVars
  <1>8. UNCHANGED vars => UNCHANGED <<port, timer, piped>>
    BY DEF vars, portVars, relayVars
  <1> QED
    BY <1>1, <1>2, <1>3, <1>4, <1>5, <1>6, <1>7, <1>8, Actions

\* One extension never has two relays whose pipes its browser holds, whatever
\* is lost or evicted: a push to the registry reaches it once.
THEOREM OnlyOneIsLive == Spec => []OneLiveConnection
  <1>1. Init => OneLiveConnection
    BY DEF Init, OneLiveConnection
  <1> QED
    BY <1>1, LiveStep, TypeCorrect, PTL DEF Spec

-----------------------------------------------------------------------------
(* What ends a connection.                                                 *)

LEMMA OnlyReaderStep ==
    ASSUME TypeOK, [Next]_vars, NEW r \in Relay, srv[r] # "none", srv'[r] = "none"
    PROVE  ~ClientEnd(r) \/ toAgent[r] = "edge" \/ ~agent'
  <1>1. CASE Die
    BY <1>1 DEF Die
  <1>2. CASE Accept
    BY <1>2 DEF Accept, TypeOK
  <1>3. ASSUME NEW q \in Relay, Read(q) PROVE FALSE
    BY <1>3 DEF Read, TypeOK
  <1>4. ASSUME NEW q \in Relay, ReadEnds(q) PROVE ~ClientEnd(r) \/ toAgent[r] = "edge"
    <2>1. q = r
      BY <1>4 DEF ReadEnds, End, TypeOK
    <2> QED
      BY <1>4, <2>1 DEF ReadEnds, Ending
  <1>5. ASSUME NEW q \in Relay, Reply(q) PROVE ~ClientEnd(r)
    <2>1. q = r
      BY <1>5 DEF Reply, End, TypeOK
    <2> QED
      BY <1>5, <2>1 DEF Reply, TypeOK
  <1>6. ASSUME NEW q \in Relay,
               Connect(q) \/ Forward(q) \/ LeaveLoop(q) \/ Joined(q) \/ PumpFrame(q) \/ PumpEnds(q)
                 \/ TakeWriter(q) \/ BrowserKills(q)
        PROVE  FALSE
    BY <1>6 DEF Connect, Forward, LeaveLoop, Joined, PumpFrame, PumpEnds, TakeWriter, BrowserKills,
                agentVars
  <1>7. ASSUME NEW f \in Frame, Send(f) \/ Post(f) PROVE FALSE
    BY <1>7 DEF Send, Post, agentVars
  <1>8. ASSUME TimerFires \/ PortLost \/ Evict \/ Start \/ Create \/ Retry \/ Wait \/ PushFrame
        PROVE  FALSE
    BY <1>8 DEF TimerFires, PortLost, Evict, Start, Create, Retry, Wait, PushFrame, DropWriter, agentVars
  <1>9. UNCHANGED vars => FALSE
    BY DEF vars, agentVars
  <1> QED
    BY <1>1, <1>2, <1>3, <1>4, <1>5, <1>6, <1>7, <1>8, <1>9, Actions

\* Neither the handle of the UI thread nor another connection ends a connection
\* whose relay is well (the writer is a duplicate that does not own the
\* disconnect).
THEOREM NobodyElseEnds == Spec => OnlyTheReaderEnds
  <1>1. TypeOK /\ [Next]_vars =>
            [\A r \in Relay : srv[r] # "none" /\ srv'[r] = "none" =>
                ~ClientEnd(r) \/ toAgent[r] = "edge" \/ ~agent']_vars
    BY OnlyReaderStep
  <1> QED
    BY <1>1, TypeCorrect, PTL DEF Spec, OnlyTheReaderEnds
=============================================================================
