---------------------------- MODULE RestoreOffer ----------------------------
(***************************************************************************)
(* The restore offer of one agent run: PendingRestore, the registry of     *)
(* relay connections, the connection threads that answer `hello`, and the  *)
(* UI thread that asks the user and then serves the browsers that were     *)
(* made to wait (agent/crates/sr-agent/src/server.rs and ui/mod.rs).       *)
(*                                                                         *)
(* A connection slot is one relay pipe.  Two slots may belong to the same  *)
(* extension (the old pipe has not been noticed dead when the extension    *)
(* reconnects).  Every step below is one critical section of the code: the *)
(* connections lock, the pending_restore lock, the database lock, or one   *)
(* write to a pipe.                                                        *)
(*                                                                         *)
(* Options are sets of at most one element.  Tabs are abstracted to the    *)
(* windows that hold them, and the run rows written while an offer is      *)
(* built belong to RestoreRun.  A pipe write is one step: a peer that is   *)
(* alive and never reads is not modelled.                                  *)
(***************************************************************************)
EXTENDS Naturals

CONSTANTS
    Conn,        \* connection slots
    UI,          \* the UI thread
    NoConn,      \* stands for a pipe whose thread has ended
    Browser,
    Key,         \* profile keys
    NoKey,       \* `None`, or a hello without a profile_id
    Profile,     \* the browser profiles the extensions really run in
    Window,      \* stored windows that are not private
    Snapshot,    \* snapshots the run may hold pending
    NoSnapshot,
    Ticks,       \* the sets of windows the user may tick (bounds the state space)
    MaxEvents,   \* bound on trips to the tray menu and the settings window
    DbMayFail,   \* TRUE when a database call may fail while an offer is built
    browserOf,   \* [Conn -> Browser]
    profileOf,   \* [Conn -> Profile]
    relayKey,    \* [Conn -> Key]: what resolve_profile finds for the browser pid
    helloIds,    \* [Conn -> SUBSET (Key \cup {NoKey})]: what a hello may report
    stored,      \* [Snapshot -> [Browser \X Key -> SUBSET Window]]
    privateIn    \* [Snapshot -> SUBSET (Browser \X Key)]: holds private windows

Actor == Conn \cup {UI}
Label == {"closed", "reading", "hello", "init", "idle", "turn_off", "targets", "offer",
          "build", "write"}
ClaimKey == Browser \X Key
Mode == {"ask", "auto", "off"}
Choice == [declined : BOOLEAN, windows : SUBSET Window, private : BOOLEAN]
Job == [key : ClaimKey, sel : SUBSET Choice]
Offer == [key : ClaimKey, windows : SUBSET Window, private : BOOLEAN]
Target == [conn : Conn \cup {NoConn}, key : ClaimKey]
Delivery == [to : Profile, key : ClaimKey, windows : SUBSET Window, private : BOOLEAN]

ASSUME ConnAssumption ==
    /\ UI \notin Conn /\ NoConn \notin Conn /\ NoKey \notin Key
    /\ NoSnapshot \notin Snapshot
    /\ Ticks \subseteq SUBSET Window
    /\ MaxEvents \in Nat
    /\ DbMayFail \in BOOLEAN

ASSUME FunctionAssumption ==
    /\ browserOf \in [Conn -> Browser]
    /\ profileOf \in [Conn -> Profile]
    /\ relayKey \in [Conn -> Key]
    /\ helloIds \in [Conn -> SUBSET (Key \cup {NoKey})]
    /\ stored \in [Snapshot -> [ClaimKey -> SUBSET Window]]
    /\ privateIn \in [Snapshot -> SUBSET ClaimKey]

\* An extension keeps the one id it generated, or fails to read it.
ASSUME IdAssumption ==
    \A c \in Conn : \A i, j \in helloIds[c] \ {NoKey} : i = j

VARIABLES
    (* the settings table *)
    mode,          \* restore_mode
    (* PendingRestore *)
    snapshot_id,
    offered,       \* claim keys already claimed
    selection,     \* Option<BrowserSelection>
    awaiting,      \* awaiting_review
    (* connections and their threads *)
    registry,      \* [Conn -> Key \cup {NoKey}]: the key it was registered under
    profile,       \* [Conn -> Key \cup {NoKey}]: the thread's own `profile`
    peer,          \* [Conn -> BOOLEAN]: the relay still holds the other end
    pc, job, out,  \* [Actor -> ...]: where it is, its claim, its built offer
    (* the UI thread *)
    review,        \* a review window is open
    targets,       \* connections offer_to_connected has still to visit
    target,        \* the one it is visiting (at most one)
    events,        \* how often the user went to the tray or the settings
    (* observation only: no action reads these *)
    heard,         \* connections whose hello has reached the pending lock
    answers,       \* confirmed choices the user has made
    asked,         \* the run started in mode "ask"
    sent,          \* offers written to a live pipe
    writes,        \* [ClaimKey -> Nat]: how many
    spent,         \* claims that ended with nothing to send
    lost           \* claims whose offer could not be built or written

settings == <<mode>>
pendingVars == <<snapshot_id, offered, selection, awaiting>>
connVars == <<registry, profile, peer>>
workVars == <<pc, job, out>>
uiVars == <<review, targets, target, events>>
obsVars == <<heard, answers, asked, sent, writes, spent, lost>>
vars == <<settings, pendingVars, connVars, workVars, uiVars, obsVars>>

-----------------------------------------------------------------------------
(* Agent start: `run` builds PendingRestore from the mode it read.         *)

Init ==
    /\ mode \in Mode
    /\ snapshot_id \in Snapshot \cup {NoSnapshot}
    /\ offered = {}
    /\ selection = {}
    /\ awaiting = (mode = "ask" /\ snapshot_id # NoSnapshot)
    /\ registry = [c \in Conn |-> NoKey]
    /\ profile = [c \in Conn |-> NoKey]
    /\ peer = [c \in Conn |-> FALSE]
    /\ pc = [a \in Actor |-> IF a = UI THEN "init" ELSE "closed"]
    /\ job = [a \in Actor |-> {}]
    /\ out = [a \in Actor |-> {}]
    /\ review = FALSE
    /\ targets = {}
    /\ target = {}
    /\ events = 0
    /\ heard = {}
    /\ answers = {}
    /\ asked = (mode = "ask")
    /\ sent = {}
    /\ writes = [k \in ClaimKey |-> 0]
    /\ spent = {}
    /\ lost = {}

-----------------------------------------------------------------------------
(* maybe_offer_restore, shared by connection threads and the UI thread.    *)

\* Mutants: the gate forgets the open review, or forgets the refusal.
OffersOpenUnasked == \A s \in selection : ~s.declined
OffersOpenRefused == ~awaiting

\* The gate under the pending_restore lock.
OffersOpen ==
    /\ ~awaiting
    /\ \A s \in selection : ~s.declined

\* Mutant: the claim is not looked up first.
ClaimableAgain(k) == OffersOpen /\ snapshot_id # NoSnapshot

Claimable(k) ==
    /\ OffersOpen
    /\ snapshot_id # NoSnapshot
    /\ k \notin offered

\* Mutant: a hello that is turned away consumes its claim all the same.
ClaimStepEager(a, k) ==
    /\ offered' = offered \cup {k}
    /\ IF Claimable(k)
       THEN /\ job' = [job EXCEPT ![a] = {[key |-> k, sel |-> selection]}]
            /\ pc' = [pc EXCEPT ![a] = "build"]
       ELSE /\ pc' = [pc EXCEPT ![a] = "write"]
            /\ UNCHANGED job

\* Takes the claim if it may; otherwise there is no offer to build.
ClaimStep(a, k) ==
    \/ /\ Claimable(k)
       /\ offered' = offered \cup {k}
       /\ job' = [job EXCEPT ![a] = {[key |-> k, sel |-> selection]}]
       /\ pc' = [pc EXCEPT ![a] = "build"]
    \/ /\ ~Claimable(k)
       /\ pc' = [pc EXCEPT ![a] = "write"]
       /\ UNCHANGED <<offered, job>>

\* An exact match, else the only stored profile, else none.
EffectiveProfile(b, k) ==
    LET content == stored[snapshot_id]
        Stored == {e \in Key : content[<<b, e>>] # {} \/ <<b, e>> \in privateIn[snapshot_id]}
    IN  {e \in Stored : e = k \/ (k \notin Stored /\ Stored = {e})}

\* Mutant: the review's choice is not applied.
PayloadWhole(j) ==
    LET b == j.key[1] IN
    {w \in Window :
        \E e \in EffectiveProfile(b, j.key[2]) : w \in stored[snapshot_id][<<b, e>>]}

\* The ordinary windows an offer would hold, after the review's choice.
Payload(j) ==
    LET b == j.key[1] IN
    {w \in Window :
        /\ \E e \in EffectiveProfile(b, j.key[2]) : w \in stored[snapshot_id][<<b, e>>]
        /\ \A s \in j.sel : w \in s.windows}

PrivateTicked(j) ==
    /\ \E s \in j.sel : s.private
    /\ \E e \in EffectiveProfile(j.key[1], j.key[2]) : <<j.key[1], e>> \in privateIn[snapshot_id]

\* Restoring is on and something is stored that the user did not untick.
Sendable(j) == mode # "off" /\ Payload(j) # {}

\* What building may return.  Private rows may have expired or been purged.
Built(j) ==
    IF ~Sendable(j)
    THEN {{}}
    ELSE {{[key |-> j.key, windows |-> Payload(j), private |-> p]} :
             p \in {FALSE, PrivateTicked(j)}}
         \cup (IF DbMayFail THEN {{}} ELSE {})

\* Mutant: a claim taken while restoring is off waits for it to be on.
BuildOfferWhenOn(a) ==
    /\ pc[a] = "build"
    /\ mode # "off"
    /\ \E j \in job[a] : \E o \in Built(j) :
          /\ out' = [out EXCEPT ![a] = o]
          /\ spent' = IF o = {} /\ ~Sendable(j) THEN spent \cup {j.key} ELSE spent
          /\ lost' = IF o = {} /\ Sendable(j) THEN lost \cup {j.key} ELSE lost
    /\ job' = [job EXCEPT ![a] = {}]
    /\ pc' = [pc EXCEPT ![a] = "write"]
    /\ UNCHANGED <<settings, pendingVars, connVars, uiVars, heard, answers, asked, sent, writes>>

\* The database half.  Nothing to send leaves the claim taken.
BuildOffer(a) ==
    /\ pc[a] = "build"
    /\ \E j \in job[a] : \E o \in Built(j) :
          /\ out' = [out EXCEPT ![a] = o]
          /\ spent' = IF o = {} /\ ~Sendable(j) THEN spent \cup {j.key} ELSE spent
          /\ lost' = IF o = {} /\ Sendable(j) THEN lost \cup {j.key} ELSE lost
    /\ job' = [job EXCEPT ![a] = {}]
    /\ pc' = [pc EXCEPT ![a] = "write"]
    /\ UNCHANGED <<settings, pendingVars, connVars, uiVars, heard, answers, asked, sent, writes>>

\* Writing what was built to a pipe: it arrives, or the claim is lost.
Deliver(a, c) ==
    /\ sent' = sent \cup {[to |-> profileOf[c], key |-> o.key, windows |-> o.windows,
                           private |-> o.private] : o \in out[a]}
    /\ writes' = [k \in ClaimKey |-> writes[k] + (IF \E o \in out[a] : o.key = k THEN 1 ELSE 0)]
    /\ UNCHANGED <<spent, lost>>

Lose(a) ==
    /\ lost' = lost \cup {o.key : o \in out[a]}
    /\ UNCHANGED <<sent, writes, spent>>

-----------------------------------------------------------------------------
(* Connection threads.                                                     *)

Connect(c) ==
    /\ pc[c] = "closed"
    /\ peer' = [peer EXCEPT ![c] = TRUE]
    /\ profile' = [profile EXCEPT ![c] = NoKey]
    /\ pc' = [pc EXCEPT ![c] = "reading"]
    /\ UNCHANGED <<settings, pendingVars, registry, job, out, uiVars, obsVars>>

\* The key the thread uses once a hello reporting `id` has been read.
ProfileAfterHello(c, id) ==
    IF id # NoKey THEN id
    ELSE IF profile[c] = NoKey THEN relayKey[c] ELSE profile[c]

\* Mutant: a connection is registered after its first message is dispatched.
RegisterLate(c, k) ==
    registry' = IF registry[c] = NoKey /\ profile[c] # NoKey
                THEN [registry EXCEPT ![c] = k] ELSE registry

\* Registered before dispatch, under the key known at the first message, and
\* never again.
Register(c, k) ==
    registry' = IF registry[c] = NoKey THEN [registry EXCEPT ![c] = k] ELSE registry

\* A hello: the extension's own id wins for the rest of the connection.
ReadHello(c) ==
    /\ pc[c] = "reading"
    /\ peer[c]
    /\ \E id \in helloIds[c] :
          /\ profile' = [profile EXCEPT ![c] = ProfileAfterHello(c, id)]
          /\ Register(c, ProfileAfterHello(c, id))
    /\ pc' = [pc EXCEPT ![c] = "hello"]
    /\ UNCHANGED <<settings, pendingVars, peer, job, out, uiVars, obsVars>>

\* tab_delta, full_state and the results: they touch no offer state.
ReadState(c) ==
    LET k == IF profile[c] = NoKey THEN relayKey[c] ELSE profile[c] IN
    /\ pc[c] = "reading"
    /\ peer[c]
    /\ profile' = [profile EXCEPT ![c] = k]
    /\ Register(c, k)
    /\ UNCHANGED <<settings, pendingVars, peer, workVars, uiVars, obsVars>>

ClaimForHello(c) ==
    /\ pc[c] = "hello"
    /\ ClaimStep(c, <<browserOf[c], profile[c]>>)
    /\ heard' = heard \cup {c}
    /\ UNCHANGED <<settings, snapshot_id, selection, awaiting, connVars, out, uiVars,
                   answers, asked, sent, writes, spent, lost>>

\* What the UI thread's copied writers have become once c's pipe is closed.
Unplug(c, T) ==
    {[conn |-> IF t.conn = c THEN NoConn ELSE t.conn, key |-> t.key] : t \in T}

\* The connection thread ends: ConnectionGuard unregisters, the pipe is closed
\* under any writer that was cloned from it.
EndThread(c) ==
    /\ registry' = [registry EXCEPT ![c] = NoKey]
    /\ peer' = [peer EXCEPT ![c] = FALSE]
    /\ pc' = [pc EXCEPT ![c] = "closed"]
    /\ targets' = Unplug(c, targets)
    /\ target' = Unplug(c, target)
    /\ heard' = heard \ {c}

\* hello_ack, and the offer if there is one.  A failed write ends the thread.
WriteReplies(c) ==
    /\ pc[c] = "write"
    /\ out' = [out EXCEPT ![c] = {}]
    /\ \/ /\ peer[c]
          /\ Deliver(c, c)
          /\ pc' = [pc EXCEPT ![c] = "reading"]
          /\ UNCHANGED <<registry, peer, targets, target, heard>>
       \/ /\ ~peer[c]
          /\ Lose(c)
          /\ EndThread(c)
    /\ UNCHANGED <<settings, pendingVars, profile, job, review, events, answers, asked>>

\* The browser, the worker or the relay goes away; the thread finds out later.
PeerGone(c) ==
    /\ peer[c]
    /\ peer' = [peer EXCEPT ![c] = FALSE]
    /\ UNCHANGED <<settings, pendingVars, registry, profile, workVars, uiVars, obsVars>>

ReadClosed(c) ==
    /\ pc[c] = "reading"
    /\ ~peer[c]
    /\ EndThread(c)
    /\ UNCHANGED <<settings, pendingVars, profile, job, out, review, events, answers, asked,
                   sent, writes, spent, lost>>

-----------------------------------------------------------------------------
(* The UI thread.                                                          *)

\* The first event: the welcome window pre-empts the review, and either may
\* fail to open.
StartUi ==
    /\ pc[UI] = "init"
    /\ pc' = [pc EXCEPT ![UI] = "idle"]
    /\ review' \in {FALSE, awaiting}
    /\ UNCHANGED <<settings, pendingVars, connVars, job, out, targets, target, events, obsVars>>

UserEvent == events < MaxEvents /\ events' = events + 1

\* Tray: Restore last session.
TrayRestore ==
    /\ pc[UI] = "idle"
    /\ ~review
    /\ review' = TRUE
    /\ UserEvent
    /\ UNCHANGED <<settings, pendingVars, connVars, workVars, targets, target, obsVars>>

\* set_selection, for each of the page's three buttons.
SetSelection(choice) ==
    /\ selection' = {choice}
    /\ awaiting' = FALSE

Confirm ==
    /\ pc[UI] = "idle"
    /\ review
    /\ \E ws \in Ticks, p \in BOOLEAN :
          LET choice == [declined |-> FALSE, windows |-> ws, private |-> p] IN
          /\ SetSelection(choice)
          /\ answers' = answers \cup {choice}
    /\ review' = FALSE
    /\ pc' = [pc EXCEPT ![UI] = "targets"]
    /\ UNCHANGED <<settings, snapshot_id, offered, connVars, job, out, targets, target, events,
                   heard, asked, sent, writes, spent, lost>>

Refusal == [declined |-> TRUE, windows |-> {}, private |-> FALSE]

\* "Not now" stops there; "never" turns restoring off as well.
Refuse ==
    /\ pc[UI] = "idle"
    /\ review
    /\ SetSelection(Refusal)
    /\ review' = FALSE
    /\ pc' \in {pc, [pc EXCEPT ![UI] = "turn_off"]}
    /\ UNCHANGED <<settings, snapshot_id, offered, connVars, job, out, targets, target, events, obsVars>>

TurnOff ==
    /\ pc[UI] = "turn_off"
    /\ mode' = "off"
    /\ pc' = [pc EXCEPT ![UI] = "idle"]
    /\ UNCHANGED <<pendingVars, connVars, job, out, uiVars, obsVars>>

\* Closing the review window: review_dismissed, then offer_to_connected.
Dismiss ==
    /\ pc[UI] = "idle"
    /\ review
    /\ SetSelection(Refusal)
    /\ review' = FALSE
    /\ pc' = [pc EXCEPT ![UI] = "targets"]
    /\ UNCHANGED <<settings, snapshot_id, offered, connVars, job, out, targets, target, events, obsVars>>

\* Mutant: the claim key forgets the browser.
TakeTargetsByProfile ==
    /\ pc[UI] = "targets"
    /\ targets' = {[conn |-> c, key |-> registry[c]] : c \in {d \in Conn : registry[d] # NoKey}}
    /\ pc' = [pc EXCEPT ![UI] = "offer"]
    /\ UNCHANGED <<settings, pendingVars, connVars, job, out, review, target, events, obsVars>>

\* offer_to_connected copies the registry under its lock and lets it go.
TakeTargets ==
    /\ pc[UI] = "targets"
    /\ targets' = {[conn |-> c, key |-> <<browserOf[c], registry[c]>>] :
                     c \in {d \in Conn : registry[d] # NoKey}}
    /\ pc' = [pc EXCEPT ![UI] = "offer"]
    /\ UNCHANGED <<settings, pendingVars, connVars, job, out, review, target, events, obsVars>>

ClaimForTarget ==
    /\ pc[UI] = "offer"
    /\ \E t \in targets :
          /\ ClaimStep(UI, t.key)
          /\ target' = {t}
          /\ targets' = targets \ {t}
    /\ UNCHANGED <<settings, snapshot_id, selection, awaiting, connVars, out, review, events, obsVars>>

\* Mutant: the first write that fails ends the loop over the connections.
WriteToTargetOrStop ==
    /\ pc[UI] = "write"
    /\ \E t \in target :
          IF t.conn \in Conn /\ peer[t.conn]
          THEN Deliver(UI, t.conn) /\ pc' = [pc EXCEPT ![UI] = "offer"]
          ELSE Lose(UI) /\ pc' = [pc EXCEPT ![UI] = "idle"]
    /\ out' = [out EXCEPT ![UI] = {}]
    /\ target' = {}
    /\ UNCHANGED <<settings, pendingVars, connVars, job, review, targets, events, heard, answers, asked>>

WriteToTarget ==
    /\ pc[UI] = "write"
    /\ \E t \in target :
          IF t.conn \in Conn /\ peer[t.conn] THEN Deliver(UI, t.conn) ELSE Lose(UI)
    /\ out' = [out EXCEPT ![UI] = {}]
    /\ target' = {}
    /\ pc' = [pc EXCEPT ![UI] = "offer"]
    /\ UNCHANGED <<settings, pendingVars, connVars, job, review, targets, events, heard, answers, asked>>

OffersDone ==
    /\ pc[UI] = "offer"
    /\ targets = {}
    /\ pc' = [pc EXCEPT ![UI] = "idle"]
    /\ UNCHANGED <<settings, pendingVars, connVars, job, out, uiVars, obsVars>>

\* The settings window.
SetRestoreMode ==
    /\ pc[UI] = "idle"
    /\ mode' \in Mode \ {mode}
    /\ UserEvent
    /\ UNCHANGED <<pendingVars, connVars, workVars, review, targets, target, obsVars>>

-----------------------------------------------------------------------------
\* What a connection thread does on its own once a message has arrived.
ThreadStep(c) == ClaimForHello(c) \/ BuildOffer(c) \/ WriteReplies(c) \/ ReadClosed(c)

\* What the UI thread does on its own once an event has been handled.
UiStep ==
    \/ StartUi \/ TurnOff \/ TakeTargets \/ ClaimForTarget \/ BuildOffer(UI)
    \/ WriteToTarget \/ OffersDone

ConnNext(c) == Connect(c) \/ ReadHello(c) \/ ReadState(c) \/ PeerGone(c) \/ ThreadStep(c)
UserNext == TrayRestore \/ Confirm \/ Refuse \/ Dismiss \/ SetRestoreMode

Next == (\E c \in Conn : ConnNext(c)) \/ UiStep \/ UserNext

Spec == Init /\ [][Next]_vars

\* Threads are scheduled; the user, the browser and the network owe nothing.
Fairness == WF_vars(UiStep) /\ \A c \in Conn : WF_vars(ThreadStep(c))
FairSpec == Spec /\ Fairness

-----------------------------------------------------------------------------
(* Properties.                                                             *)

TypeOK ==
    /\ mode \in Mode
    /\ snapshot_id \in Snapshot \cup {NoSnapshot}
    /\ offered \in SUBSET ClaimKey
    /\ selection \in SUBSET Choice
    /\ awaiting \in BOOLEAN
    /\ registry \in [Conn -> Key \cup {NoKey}]
    /\ profile \in [Conn -> Key \cup {NoKey}]
    /\ peer \in [Conn -> BOOLEAN]
    /\ pc \in [Actor -> Label]
    /\ job \in [Actor -> SUBSET Job]
    /\ out \in [Actor -> SUBSET Offer]
    /\ review \in BOOLEAN
    /\ targets \in SUBSET Target
    /\ target \in SUBSET Target
    /\ events \in Nat
    /\ heard \in SUBSET Conn
    /\ answers \in SUBSET Choice
    /\ asked \in BOOLEAN
    /\ sent \in SUBSET Delivery
    /\ writes \in [ClaimKey -> Nat]
    /\ spent \in SUBSET ClaimKey
    /\ lost \in SUBSET ClaimKey

\* Claims and built offers an actor is working on.
Holding(a) == {j.key : j \in job[a]} \cup {o.key : o \in out[a]}

\* While the review is unanswered nothing is claimed, built or sent, whatever
\* the connection threads were doing (server.rs, maybe_offer_restore).
NoOfferWhileAsking ==
    awaiting => /\ offered = {}
                /\ sent = {}
                /\ \A a \in Actor : Holding(a) = {}

\* A run that started in mode "ask" sends a browser only windows the user
\* ticked in one confirmed answer; and no run at all sends private windows
\* unless a confirmed answer ticked them (ADR-0004).
ConsentBacked ==
    \A s \in sent :
        /\ asked => \E a \in answers : s.windows \subseteq a.windows /\ (s.private => a.private)
        /\ s.private => \E a \in answers : a.private

\* A claim key is being served by at most one thread, and its offer is written
\* at most once (PendingRestore.claim).
OneOfferPerKey ==
    /\ \A a, b \in Actor : a # b => Holding(a) \cap Holding(b) = {}
    /\ \A k \in ClaimKey : writes[k] <= 1

\* Every claim is in a thread's hands, or was sent, or ended without an offer;
\* and nothing is sent that was never claimed.
ClaimsAccountedFor ==
    \A k \in ClaimKey :
        k \in offered <=> \/ \E a \in Actor : k \in Holding(a)
                          \/ \E s \in sent : s.key = k
                          \/ k \in spent \cup lost

ClaimedFor(c) ==
    \/ <<browserOf[c], registry[c]>> \in offered
    \/ <<browserOf[c], profile[c]>> \in offered

\* The hand-over between a hello that was made to wait and the UI thread that
\* serves it: once offers are open and the UI thread is idle, no connection
\* whose hello was turned away is left without a claim.
NoForgottenConnection ==
    (OffersOpen /\ snapshot_id # NoSnapshot /\ pc[UI] \in {"init", "idle"}) =>
        \A c \in heard : ClaimedFor(c)

\* The abstract promise: one offer per key, never before or against the answer.
Policy == INSTANCE OfferPolicy WITH
    ClaimKey <- ClaimKey,
    phase <- IF awaiting THEN "asking"
             ELSE IF \E s \in selection : s.declined THEN "refused" ELSE "open",
    given <- offered

PolicySpec == Policy!Spec

\* A connection that was made to wait is served once offers open, unless it
\* goes away or the user refuses after all.
WaitingIsServed ==
    \A c \in Conn :
        (c \in heard /\ OffersOpen /\ snapshot_id # NoSnapshot) ~>
            (ClaimedFor(c) \/ c \notin heard \/ ~OffersOpen)

\* No claim is left in a thread's hands for ever.
ClaimsSettle ==
    \A k \in ClaimKey :
        (k \in offered) ~> (k \in spent \cup lost \/ \E s \in sent : s.key = k)
=============================================================================
