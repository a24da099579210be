----------------------------- MODULE Transport -----------------------------
(***************************************************************************)
(* The path between the extension and the agent: the native port, the     *)
(* relay process the browser starts for it, and the named pipe.            *)
(*                                                                         *)
(* A relay has two threads, "main" from its stdin to the pipe and "pump"   *)
(* from the pipe to its stdout, each with a handle of its own on the       *)
(* client end.  The agent has one thread that accepts, one per connection  *)
(* that reads and replies, and the UI thread, which may write to a         *)
(* connection through a second handle of the server end.  A slot of Relay  *)
(* is a process and the pipe instance it is connected to; it is used again *)
(* when both are gone.                                                     *)
(*                                                                         *)
(* A frame is its size: one that fits, one that fits the limit of the      *)
(* relay but not, once the source is stamped on it, that of the agent, and *)
(* one beyond both.  Every buffer on the way holds one frame: a second one *)
(* only waits.  What the frames say is the subject of TabCapture,          *)
(* RestoreOffer and PrivateStore.                                          *)
(***************************************************************************)
EXTENDS Integers, FiniteSets, Sequences

CONSTANTS
    Relay,
    NONE,
    MaxInstances,   \* MAX_INSTANCES
    Backoff         \* BACKOFF_MS

CONSTANT MaxFaults  \* bound: agents that die, workers evicted, connects that throw, frames too large

ASSUME RelayAssumption == NONE \notin Relay
ASSUME InstancesAssumption == MaxInstances \in Nat \ {0}
ASSUME BackoffAssumption == Backoff \in Seq(Nat) /\ Backoff # <<>>
ASSUME FaultsAssumption == MaxFaults \in Nat

VARIABLES
    port,      \* the relay of the port the extension holds, or NONE
    timer,     \* a reconnect is scheduled
    attempt,   \* the step of the backoff, counted up to its last
    main,      \* "off", "start", "loop", "join", "gone": a relay and its main thread
    pump,      \* "off", "read", "done"
    piped,     \* the browser holds its ends of the relay's stdin and stdout
    stdin,     \* the frame in it, or NONE
    toAgent,   \* the frame in the pipe towards the agent, or NONE
    toRelay,   \* a frame is in the pipe towards the relay
    agent,     \* the agent runs
    accepting, \* serve_on: "off", "create", "made", "wait", "sleep"
    first,     \* the next instance claims the name
    client,    \* the relay connected to the instance that is being accepted, or NONE
    srv,       \* connection threads: "none", "reading", "replying"
    reg,       \* the connection is in the registry
    push,      \* the connection whose writer the UI thread holds, or NONE
    faults

portVars == <<port, timer, attempt>>
relayVars == <<main, pump, piped, stdin>>
pipeVars == <<toAgent, toRelay>>
agentVars == <<agent, accepting, first, client, srv, reg, push>>
vars == <<portVars, relayVars, pipeVars, agentVars, faults>>

Frame == {"fits", "edge", "huge"}

-----------------------------------------------------------------------------
(* Handles.  The reader of a connection owns the disconnect; the writer is *)
(* a duplicate, held by the connection thread and by whoever pushes.       *)

ServerEnd(r) == srv[r] # "none" \/ client = r
ClientEnd(r) == main[r] = "loop" \/ pump[r] = "read"
Held(r) == ServerEnd(r) \/ push = r
Exists(r) == Held(r) \/ ClientEnd(r)

\* The system may count an instance whose server is gone while a relay still
\* has it open, or may not.
Counted == {S \in SUBSET {r \in Relay : Exists(r)} : \A r \in Relay : Held(r) => r \in S}

CanCreate(S) == IF first THEN S = {} ELSE Cardinality(S) < MaxInstances

\* Mutant: synchronous handles, where a write waits for the read that is
\* parked on the same file object.
MayWriteSync(r) == toAgent[r] = NONE /\ (pump[r] = "read" => toRelay[r])

\* Overlapped handles, where it does not.
MayWrite(r) == toAgent[r] = NONE

-----------------------------------------------------------------------------
Init ==
    /\ port = NONE /\ timer = FALSE /\ attempt = 0
    /\ main = [r \in Relay |-> "off"]
    /\ pump = [r \in Relay |-> "off"]
    /\ piped = [r \in Relay |-> FALSE]
    /\ stdin = [r \in Relay |-> NONE]
    /\ toAgent = [r \in Relay |-> NONE]
    /\ toRelay = [r \in Relay |-> FALSE]
    /\ agent = FALSE /\ accepting = "off" /\ first = TRUE /\ client = NONE
    /\ srv = [r \in Relay |-> "none"]
    /\ reg = [r \in Relay |-> FALSE]
    /\ push = NONE
    /\ faults = 0

Fault == faults < MaxFaults /\ faults' = faults + 1

-----------------------------------------------------------------------------
(* The extension.                                                          *)

Capped(n) == IF n < Len(Backoff) THEN n ELSE Len(Backoff)

\* set: whether a timer is set already.
ScheduleReconnect(set) ==
    /\ timer' = TRUE
    /\ attempt' = IF set THEN attempt ELSE Capped(attempt + 1)

Charge(f) == IF f \in {NONE, "fits"} THEN UNCHANGED faults ELSE Fault

Free(r) == main[r] \in {"off", "gone"} /\ ~Exists(r) /\ port # r

\* connectNative starts a relay; f is posted right away, or NONE.
ConnectNative(f) ==
    \E r \in Relay :
        /\ Free(r)
        /\ port' = r
        /\ attempt' = 0
        /\ timer' = FALSE
        /\ main' = [main EXCEPT ![r] = "start"]
        /\ pump' = [pump EXCEPT ![r] = "off"]
        /\ piped' = [piped EXCEPT ![r] = TRUE]
        /\ stdin' = [stdin EXCEPT ![r] = f]
        /\ toAgent' = [toAgent EXCEPT ![r] = NONE]
        /\ toRelay' = [toRelay EXCEPT ![r] = FALSE]
        /\ Charge(f)

\* The host is not registered: connectNative throws.
ConnectThrows ==
    /\ Fault
    /\ ScheduleReconnect(FALSE)
    /\ UNCHANGED <<port, relayVars, pipeVars>>

\* Mutant: the port that is there is not looked at.
MayConnectAgain == ~timer

\* ensure does nothing while there is a port or a timer.
MayConnect == port = NONE /\ ~timer

\* send: ensure, then postMessage.  While only a timer is set it throws, and
\* the outbox keeps what it had.
Send(f) ==
    /\ MayConnect
    /\ ConnectNative(f) \/ ConnectThrows
    /\ UNCHANGED agentVars

\* A relay that has stopped reading takes nothing any more.
Post(f) ==
    /\ port # NONE
    /\ main[port] \in {"start", "loop"} => stdin[port] = NONE
    /\ stdin' = IF main[port] \in {"start", "loop"} THEN [stdin EXCEPT ![port] = f] ELSE stdin
    /\ Charge(f)
    /\ UNCHANGED <<portVars, main, pump, piped, pipeVars, agentVars>>

TimerFires ==
    /\ timer
    /\ \/ ConnectNative(NONE)
       \/ ConnectThrows
    /\ UNCHANGED agentVars

\* onDisconnect.
PortLost ==
    /\ port # NONE
    /\ main[port] = "gone"
    /\ port' = NONE
    /\ piped' = [piped EXCEPT ![port] = FALSE]
    /\ ScheduleReconnect(timer)
    /\ UNCHANGED <<main, pump, stdin, pipeVars, agentVars, faults>>

\* The worker is evicted with its port, timer and attempt, or the browser quits.
Evict ==
    /\ Fault
    /\ port # NONE \/ timer \/ attempt > 0
    /\ port' = NONE /\ timer' = FALSE /\ attempt' = 0
    /\ piped' = [r \in Relay |-> piped[r] /\ r # port]
    /\ UNCHANGED <<main, pump, stdin, pipeVars, agentVars>>

\* External: a browser kills a relay that does not exit once its pipes are closed.
BrowserKills(r) ==
    /\ ~piped[r]
    /\ main[r] \in {"start", "loop", "join"}
    /\ main' = [main EXCEPT ![r] = "gone"]
    /\ pump' = [pump EXCEPT ![r] = "done"]
    /\ stdin' = [stdin EXCEPT ![r] = NONE]
    /\ UNCHANGED <<portVars, piped, pipeVars, agentVars, faults>>

-----------------------------------------------------------------------------
(* The relay.                                                              *)

\* An instance listens for whoever comes first.
Listening == accepting \in {"made", "wait"} /\ client = NONE

\* Without one the relay says agent_unavailable and exits.
Connect(r) ==
    /\ main[r] = "start"
    /\ \/ /\ Listening
          /\ client' = r
          /\ main' = [main EXCEPT ![r] = "loop"]
          /\ pump' = [pump EXCEPT ![r] = "read"]
          /\ UNCHANGED stdin
       \/ /\ ~Listening
          /\ main' = [main EXCEPT ![r] = "gone"]
          /\ stdin' = [stdin EXCEPT ![r] = NONE]
          /\ UNCHANGED <<pump, client>>
    /\ UNCHANGED <<portVars, piped, pipeVars, agent, accepting, first, srv, reg, push, faults>>

\* stdin to the pipe, the source stamped on the way; a frame within the limit.
Forward(r) ==
    /\ main[r] = "loop"
    /\ stdin[r] \in {"fits", "edge"}
    /\ ServerEnd(r)
    /\ MayWrite(r)
    /\ toAgent' = [toAgent EXCEPT ![r] = stdin[r]]
    /\ stdin' = [stdin EXCEPT ![r] = NONE]
    /\ UNCHANGED <<portVars, main, pump, piped, toRelay, agentVars, faults>>

\* stdin is closed, or a frame is too large, or the pipe takes none: the
\* main thread drops its handle and waits for the pump.
StdinEnds(r) == stdin[r] = NONE /\ ~piped[r]
Refused(r) == stdin[r] = "huge" \/ (stdin[r] # NONE /\ ~ServerEnd(r))

LeaveLoop(r) ==
    /\ main[r] = "loop"
    /\ StdinEnds(r) \/ Refused(r)
    /\ main' = [main EXCEPT ![r] = "join"]
    /\ stdin' = [stdin EXCEPT ![r] = NONE]
    /\ UNCHANGED <<portVars, pump, piped, pipeVars, agentVars, faults>>

Joined(r) ==
    /\ main[r] = "join"
    /\ pump[r] = "done"
    /\ main' = [main EXCEPT ![r] = "gone"]
    /\ UNCHANGED <<portVars, pump, piped, stdin, pipeVars, agentVars, faults>>

\* The pump writes a frame to stdout, or ends when the browser has closed it.
PumpFrame(r) ==
    /\ pump[r] = "read"
    /\ toRelay[r]
    /\ toRelay' = [toRelay EXCEPT ![r] = FALSE]
    /\ pump' = IF piped[r] THEN pump ELSE [pump EXCEPT ![r] = "done"]
    /\ UNCHANGED <<portVars, main, piped, stdin, toAgent, agentVars, faults>>

\* Nothing is left to read and the other end is closed.
PumpEnds(r) ==
    /\ pump[r] = "read"
    /\ ~toRelay[r]
    /\ ~ServerEnd(r)
    /\ pump' = [pump EXCEPT ![r] = "done"]
    /\ UNCHANGED <<portVars, main, piped, stdin, pipeVars, agentVars, faults>>

-----------------------------------------------------------------------------
(* The agent.                                                              *)

Start ==
    /\ ~agent
    /\ agent' = TRUE /\ accepting' = "create" /\ first' = TRUE
    /\ UNCHANGED <<portVars, relayVars, pipeVars, client, srv, reg, push, faults>>

\* A process that dies closes its handles; what it wrote can still be read.
Die ==
    /\ agent
    /\ Fault
    /\ agent' = FALSE /\ accepting' = "off" /\ client' = NONE /\ push' = NONE
    /\ srv' = [r \in Relay |-> "none"]
    /\ reg' = [r \in Relay |-> FALSE]
    /\ UNCHANGED <<portVars, relayVars, pipeVars, first>>

\* accept_one, up to CreateNamedPipe.
Create ==
    /\ accepting = "create"
    /\ \E S \in Counted : accepting' = IF CanCreate(S) THEN "made" ELSE "sleep"
    /\ UNCHANGED <<portVars, relayVars, pipeVars, agent, first, client, srv, reg, push, faults>>

Retry ==
    /\ accepting = "sleep"
    /\ accepting' = "create"
    /\ UNCHANGED <<portVars, relayVars, pipeVars, agent, first, client, srv, reg, push, faults>>

\* ConnectNamedPipe with nobody there yet.
Wait ==
    /\ accepting = "made"
    /\ client = NONE
    /\ accepting' = "wait"
    /\ UNCHANGED <<portVars, relayVars, pipeVars, agent, first, client, srv, reg, push, faults>>

\* A client that came before ConnectNamedPipe is connected like any other,
\* one that came and went is an error, and the instance is closed.
Gone == accepting = "made" /\ ~ClientEnd(client)

Accept ==
    /\ accepting \in {"made", "wait"}
    /\ client # NONE
    /\ \/ /\ Gone
          /\ accepting' = "sleep"
          /\ UNCHANGED <<srv, first>>
       \/ /\ ~Gone
          /\ accepting' = "create"
          /\ first' = FALSE
          /\ srv' = [srv EXCEPT ![client] = "reading"]
    /\ client' = NONE
    /\ UNCHANGED <<portVars, relayVars, pipeVars, agent, reg, push, faults>>

\* Mutant: only a clean end takes the connection out of the registry.
EndUnguarded(r) ==
    /\ srv' = [srv EXCEPT ![r] = "none"]
    /\ reg' = [reg EXCEPT ![r] = @ /\ toAgent[r] # NONE]
    /\ toRelay' = [toRelay EXCEPT ![r] = FALSE]
    /\ toAgent' = [toAgent EXCEPT ![r] = NONE]

\* The connection is unregistered, however it ends; then the reader disconnects
\* the pipe, which discards what is in it.
End(r) ==
    /\ srv' = [srv EXCEPT ![r] = "none"]
    /\ reg' = [reg EXCEPT ![r] = FALSE]
    /\ toRelay' = [toRelay EXCEPT ![r] = FALSE]
    /\ toAgent' = [toAgent EXCEPT ![r] = NONE]

\* Registered with the first message, before it is handled; some are answered.
Read(r) ==
    /\ srv[r] = "reading"
    /\ toAgent[r] = "fits"
    /\ toAgent' = [toAgent EXCEPT ![r] = NONE]
    /\ reg' = [reg EXCEPT ![r] = TRUE]
    /\ \E next \in {"reading", "replying"} : srv' = [srv EXCEPT ![r] = next]
    /\ UNCHANGED <<portVars, relayVars, toRelay, agent, accepting, first, client, push, faults>>

\* Mutant: a pipe that reads nothing is read again.
EndingNever(r) == toAgent[r] = "edge"

\* A frame above the limit, or the end of the stream.
Ending(r) == toAgent[r] = "edge" \/ (toAgent[r] = NONE /\ ~ClientEnd(r))

ReadEnds(r) ==
    /\ srv[r] = "reading"
    /\ Ending(r)
    /\ End(r)
    /\ UNCHANGED <<portVars, relayVars, agent, accepting, first, client, push, faults>>

\* write_one: an error ends the connection.
Reply(r) ==
    /\ srv[r] = "replying"
    /\ \/ /\ ClientEnd(r)
          /\ ~toRelay[r]
          /\ toRelay' = [toRelay EXCEPT ![r] = TRUE]
          /\ srv' = [srv EXCEPT ![r] = "reading"]
          /\ UNCHANGED <<reg, toAgent>>
       \/ /\ ~ClientEnd(r)
          /\ End(r)
    /\ UNCHANGED <<portVars, relayVars, agent, accepting, first, client, push, faults>>

\* The UI thread copies the registry and writes to a connection: an error is
\* logged, the handle is given up either way.
TakeWriter(r) ==
    /\ push = NONE
    /\ reg[r]
    /\ push' = r
    /\ UNCHANGED <<portVars, relayVars, pipeVars, agent, accepting, first, client, srv, reg, faults>>

\* Mutant: every handle owns the disconnect.
DropWriterOwning == push' = NONE /\ srv' = [srv EXCEPT ![push] = "none"]

\* Dropping a duplicate closes it and leaves the connection alone.
DropWriter == push' = NONE /\ UNCHANGED srv

PushFrame ==
    /\ push # NONE
    /\ \/ /\ ServerEnd(push) /\ ClientEnd(push)
          /\ ~toRelay[push]
          /\ toRelay' = [toRelay EXCEPT ![push] = TRUE]
       \/ /\ ~(ServerEnd(push) /\ ClientEnd(push))
          /\ UNCHANGED toRelay
    /\ DropWriter
    /\ UNCHANGED <<portVars, relayVars, toAgent, agent, accepting, first, client, reg, faults>>

-----------------------------------------------------------------------------
Extension == TimerFires \/ PortLost \/ Evict \/ \E f \in Frame : Send(f) \/ Post(f)

RelayStep(r) ==
    Connect(r) \/ Forward(r) \/ LeaveLoop(r) \/ Joined(r) \/ PumpFrame(r) \/ PumpEnds(r)

Listener == Create \/ Retry \/ Wait \/ Accept

Connection(r) == Read(r) \/ ReadEnds(r) \/ Reply(r)

Next ==
    \/ Extension
    \/ \E r \in Relay : BrowserKills(r) \/ RelayStep(r) \/ Connection(r) \/ TakeWriter(r)
    \/ Start \/ Die \/ Listener \/ PushFrame

Spec == Init /\ [][Next]_vars

\* The minute alarm sends a full state, timers and onDisconnect fire, threads run.
\* Whether an agent starts, and whether the UI thread pushes, is nobody's duty.
Fairness ==
    /\ WF_vars(Send("fits")) /\ WF_vars(Post("fits"))
    /\ WF_vars(TimerFires) /\ WF_vars(PortLost)
    /\ WF_vars(Listener) /\ WF_vars(PushFrame)
    /\ \A r \in Relay :
        /\ WF_vars(BrowserKills(r)) /\ WF_vars(Connect(r))
        /\ WF_vars(Forward(r) \/ LeaveLoop(r) \/ Joined(r))
        /\ WF_vars(PumpFrame(r) \/ PumpEnds(r))
        /\ WF_vars(Connection(r))

FairSpec == Spec /\ Fairness

-----------------------------------------------------------------------------
TypeOK ==
    /\ port \in Relay \cup {NONE} /\ timer \in BOOLEAN /\ attempt \in 0 .. Len(Backoff)
    /\ main \in [Relay -> {"off", "start", "loop", "join", "gone"}]
    /\ pump \in [Relay -> {"off", "read", "done"}]
    /\ piped \in [Relay -> BOOLEAN]
    /\ stdin \in [Relay -> Frame \cup {NONE}]
    /\ toAgent \in [Relay -> {"fits", "edge", NONE}]
    /\ toRelay \in [Relay -> BOOLEAN]
    /\ agent \in BOOLEAN /\ first \in BOOLEAN
    /\ accepting \in {"off", "create", "made", "wait", "sleep"}
    /\ agent <=> accepting # "off"
    /\ client \in Relay \cup {NONE} /\ push \in Relay \cup {NONE}
    /\ srv \in [Relay -> {"none", "reading", "replying"}]
    /\ reg \in [Relay -> BOOLEAN]
    /\ \A r \in Relay : reg[r] => srv[r] # "none"
    /\ faults \in 0 .. MaxFaults

\* One extension has one live connection: whatever else of it the agent still has
\* registered, its browser has already closed, so a push cannot reach two.
OneLiveConnection ==
    /\ \A r \in Relay : piped[r] => r = port
    /\ timer => port = NONE

\* A connection whose relay is well ends only with the agent, or for a frame
\* that is too large: neither the UI thread's handle nor another connection ends it.
OnlyTheReaderEnds ==
    [][\A r \in Relay : srv[r] # "none" /\ srv'[r] = "none" =>
        ~ClientEnd(r) \/ toAgent[r] = "edge" \/ ~agent']_vars

\* What a relay leaves behind is given back: handles on both ends, the thread
\* and its entry in the registry, so that the instances do not run out.
InstancesReturn == \A r \in Relay : Exists(r) /\ ~piped[r] ~> ~Exists(r)

Served == port # NONE /\ reg[port] /\ piped[port]

\* Whatever was lost before, once an agent stays up the extension is connected to
\* it and registered, again and again.  A frame above the relay's own limit is the
\* exception: its main thread leaves the loop and joins a pump that nothing ends,
\* while the browser still sees a port.
Stuck == \E r \in Relay : stdin[r] = "huge"
Reconnects == <>[]agent /\ []~Stuck => []<>Served
=============================================================================
