------------------------- MODULE RestoreOfferProofs -------------------------
(***************************************************************************)
(* Theorems about RestoreOffer, for any connections, keys, snapshots and   *)
(* answers.                                                                *)
(***************************************************************************)
EXTENDS RestoreOffer, TLAPS

-----------------------------------------------------------------------------
(* Type correctness.                                                       *)

\* A thread that has read a hello knows a profile to claim for.
KnownAtHello == \A c \in Conn : pc[c] = "hello" => profile[c] # NoKey

\* The agent starts well typed.
LEMMA InitTypeOK == Init => TypeOK
  <1> SUFFICES ASSUME Init PROVE TypeOK
    OBVIOUS
  <1>1. awaiting \in BOOLEAN /\ asked \in BOOLEAN
    BY Zenon DEF Init
  <1>2. pc \in [Actor -> Label] /\ job \in [Actor -> SUBSET Job] /\ out \in [Actor -> SUBSET Offer]
    BY DEF Init, Label
  <1>3. /\ registry \in [Conn -> Key \cup {NoKey}]
        /\ profile \in [Conn -> Key \cup {NoKey}]
        /\ peer \in [Conn -> BOOLEAN]
        /\ writes \in [ClaimKey -> Nat]
    BY DEF Init
  <1> QED
    BY <1>1, <1>2, <1>3 DEF Init, TypeOK

\* A claim taken or refused keeps the types.
LEMMA ClaimStepType ==
    ASSUME TypeOK, NEW a \in Actor, NEW k \in ClaimKey, ClaimStep(a, k)
    PROVE  /\ offered' \in SUBSET ClaimKey
           /\ job' \in [Actor -> SUBSET Job]
           /\ pc' \in [Actor -> Label]
  BY DEF TypeOK, ClaimStep, Job, Label

\* What is built for a claim is a job or an offer.
LEMMA BuiltType ==
    ASSUME NEW j \in Job, NEW o \in Built(j)
    PROVE  o \in SUBSET Offer /\ j.key \in ClaimKey
  <1>1. j.key \in ClaimKey
    BY DEF Job
  <1>2. Payload(j) \in SUBSET Window
    BY DEF Payload
  <1>3. PrivateTicked(j) \in BOOLEAN
    BY DEF PrivateTicked
  <1>4. CASE ~Sendable(j)
    BY <1>1, <1>4 DEF Built
  <1>5. CASE Sendable(j)
    <2>1. CASE o = {}
      BY <1>1, <2>1
    <2>2. CASE o # {}
      <3>1. PICK p \in {FALSE, PrivateTicked(j)} :
              o = {[key |-> j.key, windows |-> Payload(j), private |-> p]}
        BY <1>5, <2>2 DEF Built
      <3>2. p \in BOOLEAN
        BY <1>3
      <3> QED
        BY <1>1, <1>2, <3>1, <3>2 DEF Offer
    <2> QED
      BY <2>1, <2>2
  <1> QED
    BY <1>4, <1>5

\* Building an offer keeps the types, whichever way it ends.
LEMMA BuildOfferType ==
    ASSUME TypeOK, NEW a \in Actor, BuildOffer(a)
    PROVE  TypeOK'
  <1>1. PICK j \in job[a] : \E o \in Built(j) :
          /\ out' = [out EXCEPT ![a] = o]
          /\ spent' = IF o = {} /\ ~Sendable(j) THEN spent \cup {j.key} ELSE spent
          /\ lost' = IF o = {} /\ Sendable(j) THEN lost \cup {j.key} ELSE lost
    BY DEF BuildOffer
  <1>2. PICK o \in Built(j) :
          /\ out' = [out EXCEPT ![a] = o]
          /\ spent' = IF o = {} /\ ~Sendable(j) THEN spent \cup {j.key} ELSE spent
          /\ lost' = IF o = {} /\ Sendable(j) THEN lost \cup {j.key} ELSE lost
    BY <1>1
  <1>3. j \in Job
    BY DEF TypeOK
  <1>4. o \in SUBSET Offer /\ j.key \in ClaimKey
    BY <1>3, BuiltType
  <1>5. job' \in [Actor -> SUBSET Job] /\ pc' \in [Actor -> Label]
    BY DEF TypeOK, BuildOffer, Label
  <1> QED
    BY <1>2, <1>4, <1>5 DEF TypeOK, BuildOffer, settings, pendingVars, connVars, uiVars

\* Deliver keeps the types.
LEMMA DeliverType ==
    ASSUME TypeOK, NEW a \in Actor, NEW c \in Conn, Deliver(a, c)
    PROVE  /\ sent' \in SUBSET Delivery
           /\ writes' \in [ClaimKey -> Nat]
           /\ spent' = spent /\ lost' = lost
  <1>1. sent' \in SUBSET Delivery
    BY FunctionAssumption DEF TypeOK, Deliver, Delivery, Offer
  <1>2. writes' \in [ClaimKey -> Nat]
    BY DEF TypeOK, Deliver
  <1> QED
    BY <1>1, <1>2 DEF Deliver

\* Lose keeps the types.
LEMMA LoseType ==
    ASSUME TypeOK, NEW a \in Actor, Lose(a)
    PROVE  /\ lost' \in SUBSET ClaimKey
           /\ sent' = sent /\ writes' = writes /\ spent' = spent
  BY DEF TypeOK, Lose, Offer

\* EndThread keeps the types.
LEMMA EndThreadType ==
    ASSUME TypeOK, NEW c \in Conn, EndThread(c)
    PROVE  /\ registry' \in [Conn -> Key \cup {NoKey}]
           /\ peer' \in [Conn -> BOOLEAN]
           /\ pc' \in [Actor -> Label]
           /\ targets' \in SUBSET Target /\ target' \in SUBSET Target
           /\ heard' \in SUBSET Conn
  <1>1. \A T \in SUBSET Target : Unplug(c, T) \in SUBSET Target
    BY DEF Target, Unplug
  <1>2. targets' \in SUBSET Target /\ target' \in SUBSET Target
    BY <1>1 DEF TypeOK, EndThread
  <1> QED
    BY <1>2 DEF TypeOK, EndThread, Actor, Label

\* ConnNext keeps the types.
LEMMA ConnNextType ==
    ASSUME TypeOK, KnownAtHello, NEW c \in Conn, ConnNext(c)
    PROVE  TypeOK'
  <1> USE DEF pendingVars, settings, uiVars, obsVars, connVars, workVars
  <1>0. c \in Actor
    BY DEF Actor
  <1>1. CASE Connect(c)
    BY <1>0, <1>1 DEF TypeOK, Connect, Label
  <1>2. CASE ReadHello(c)
    <2>1. \A id \in helloIds[c] : ProfileAfterHello(c, id) \in Key \cup {NoKey}
      BY FunctionAssumption DEF TypeOK, ProfileAfterHello
    <2> QED
      BY <1>0, <1>2, <2>1 DEF TypeOK, ReadHello, Register, Label
  <1>3. CASE ReadState(c)
    <2> DEFINE k == IF profile[c] = NoKey THEN relayKey[c] ELSE profile[c]
    <2>1. k \in Key \cup {NoKey}
      BY FunctionAssumption DEF TypeOK
    <2>2. /\ profile' = [profile EXCEPT ![c] = k]
          /\ Register(c, k)
          /\ UNCHANGED <<settings, pendingVars, peer, workVars, uiVars, obsVars>>
      BY <1>3 DEF ReadState
    <2> QED
      BY <2>1, <2>2 DEF TypeOK, Register
  <1>4. CASE PeerGone(c)
    BY <1>4 DEF TypeOK, PeerGone
  <1>5. CASE ClaimForHello(c)
    <2>1. <<browserOf[c], profile[c]>> \in ClaimKey
      BY <1>5, FunctionAssumption DEF TypeOK, ClaimKey, KnownAtHello, ClaimForHello
    <2> QED
      BY <1>0, <1>5, <2>1, ClaimStepType DEF TypeOK, ClaimForHello
  <1>6. CASE BuildOffer(c)
    BY <1>0, <1>6, BuildOfferType
  <1>7. CASE WriteReplies(c)
    BY <1>0, <1>7, DeliverType, LoseType, EndThreadType DEF TypeOK, WriteReplies, Label
  <1>8. CASE ReadClosed(c)
    BY <1>0, <1>8, EndThreadType DEF TypeOK, ReadClosed
  <1> QED
    BY <1>1, <1>2, <1>3, <1>4, <1>5, <1>6, <1>7, <1>8 DEF ConnNext, ThreadStep

\* UiStep keeps the types.
LEMMA UiStepType ==
    ASSUME TypeOK, UiStep
    PROVE  TypeOK'
  <1> USE DEF pendingVars, settings, uiVars, obsVars, connVars, workVars
  <1>0. UI \in Actor
    BY DEF Actor
  <1>1. CASE StartUi
    <2>1. review' \in BOOLEAN
      BY <1>1 DEF StartUi, TypeOK
    <2> QED
      BY <1>0, <1>1, <2>1 DEF TypeOK, StartUi, Label
  <1>2. CASE TurnOff
    BY <1>0, <1>2 DEF TypeOK, TurnOff, Label, Mode
  <1>3. CASE TakeTargets
    <2>1. targets' \in SUBSET Target
      BY <1>3, FunctionAssumption DEF TypeOK, TakeTargets, Target, ClaimKey
    <2> QED
      BY <1>0, <1>3, <2>1 DEF TypeOK, TakeTargets, Label
  <1>4. CASE ClaimForTarget
    <2>1. PICK t \in targets : ClaimStep(UI, t.key) /\ target' = {t} /\ targets' = targets \ {t}
      BY <1>4 DEF ClaimForTarget
    <2>2. t \in Target /\ t.key \in ClaimKey
      BY DEF TypeOK, Target
    <2> QED
      BY <1>0, <1>4, <2>1, <2>2, ClaimStepType DEF TypeOK, ClaimForTarget
  <1>5. CASE BuildOffer(UI)
    BY <1>0, <1>5, BuildOfferType
  <1>6. CASE WriteToTarget
    <2>1. /\ sent' \in SUBSET Delivery
          /\ writes' \in [ClaimKey -> Nat]
          /\ spent' \in SUBSET ClaimKey
          /\ lost' \in SUBSET ClaimKey
      <3>1. PICK t \in target : IF t.conn \in Conn /\ peer[t.conn] THEN Deliver(UI, t.conn) ELSE Lose(UI)
        BY <1>6 DEF WriteToTarget
      <3> QED
        BY <1>0, <3>1, DeliverType, LoseType DEF TypeOK
    <2> QED
      BY <1>0, <1>6, <2>1 DEF TypeOK, WriteToTarget, Label
  <1>7. CASE OffersDone
    BY <1>0, <1>7 DEF TypeOK, OffersDone, Label
  <1> QED
    BY <1>1, <1>2, <1>3, <1>4, <1>5, <1>6, <1>7 DEF UiStep

\* UserNext keeps the types.
LEMMA UserNextType ==
    ASSUME TypeOK, UserNext
    PROVE  TypeOK'
  <1> USE DEF pendingVars, settings, uiVars, obsVars, connVars, workVars, UserEvent
  <1>0. UI \in Actor
    BY DEF Actor
  <1>1. CASE TrayRestore
    BY <1>1, ConnAssumption DEF TypeOK, TrayRestore
  <1>2. CASE Confirm
    <2>1. PICK ws \in Ticks : \E p \in BOOLEAN :
            LET choice == [declined |-> FALSE, windows |-> ws, private |-> p] IN
            SetSelection(choice) /\ answers' = answers \cup {choice}
      BY <1>2 DEF Confirm
    <2>2. PICK p \in BOOLEAN :
            LET choice == [declined |-> FALSE, windows |-> ws, private |-> p] IN
            SetSelection(choice) /\ answers' = answers \cup {choice}
      BY <2>1
    <2>3. [declined |-> FALSE, windows |-> ws, private |-> p] \in Choice
      BY ConnAssumption DEF Choice
    <2>4. selection' \in SUBSET Choice /\ answers' \in SUBSET Choice /\ awaiting' \in BOOLEAN
      BY <2>2, <2>3 DEF SetSelection, TypeOK
    <2> QED
      BY <1>0, <1>2, <2>4 DEF TypeOK, Confirm, Label
  <1>3. CASE Refuse \/ Dismiss
    <2>1. selection' \in SUBSET Choice /\ awaiting' \in BOOLEAN
      <3>1. SetSelection(Refusal)
        BY <1>3 DEF Refuse, Dismiss
      <3>2. Refusal \in Choice
        BY DEF Refusal, Choice
      <3> QED
        BY <3>1, <3>2 DEF SetSelection
    <2>2. pc' \in [Actor -> Label]
      BY <1>0, <1>3 DEF TypeOK, Refuse, Dismiss, Label
    <2> QED
      BY <1>3, <2>1, <2>2 DEF TypeOK, Refuse, Dismiss
  <1>4. CASE SetRestoreMode
    BY <1>4, ConnAssumption DEF TypeOK, SetRestoreMode
  <1> QED
    BY <1>1, <1>2, <1>3, <1>4 DEF UserNext

\* A step of nothing keeps the types.
LEMMA StutterType == TypeOK /\ UNCHANGED vars => TypeOK'
  BY DEF TypeOK, vars, pendingVars, settings, uiVars, obsVars, connVars, workVars

\* No step makes a thread claim before it knows a profile.
LEMMA KnownStep == TypeOK /\ KnownAtHello /\ [Next]_vars => KnownAtHello'
  <1> SUFFICES ASSUME TypeOK, KnownAtHello, [Next]_vars
               PROVE  KnownAtHello'
    OBVIOUS
  <1>0. UI \in Actor /\ Conn \subseteq Actor /\ UI \notin Conn
    BY ConnAssumption DEF Actor
  <1>1. ASSUME NEW c \in Conn, ReadHello(c)
        PROVE  KnownAtHello'
    <2>1. \A id \in helloIds[c] : ProfileAfterHello(c, id) # NoKey
      BY ConnAssumption, FunctionAssumption DEF ProfileAfterHello
    <2>2. PICK id \in helloIds[c] : profile' = [profile EXCEPT ![c] = ProfileAfterHello(c, id)]
      BY <1>1 DEF ReadHello
    <2>3. pc' = [pc EXCEPT ![c] = "hello"]
      BY <1>1 DEF ReadHello
    <2> QED
      BY <1>0, <2>1, <2>2, <2>3 DEF TypeOK, KnownAtHello
  <1>2. ASSUME NEW c \in Conn, Connect(c) \/ ReadState(c) \/ PeerGone(c) \/ ThreadStep(c)
        PROVE  KnownAtHello'
    <2>1. \A d \in Conn : pc'[d] = "hello" => pc[d] = "hello" /\ (c = d => ReadState(c) \/ PeerGone(c))
      BY <1>0, <1>2 DEF TypeOK, Connect, ReadState, PeerGone, ThreadStep, ClaimForHello, ClaimStep,
         BuildOffer, WriteReplies, ReadClosed, EndThread, workVars
    <2>2. \A d \in Conn : d # c => profile'[d] = profile[d]
      BY <1>2 DEF TypeOK, Connect, ReadState, PeerGone, ThreadStep, ClaimForHello, BuildOffer,
         WriteReplies, ReadClosed, connVars
    <2>3. ReadState(c) => pc[c] # "hello"
      BY DEF ReadState
    <2>4. PeerGone(c) => profile' = profile
      BY DEF PeerGone
    <2> QED
      BY <2>1, <2>2, <2>3, <2>4 DEF KnownAtHello
  <1>3. CASE UiStep
    <2>1. profile' = profile
      BY <1>3 DEF UiStep, StartUi, TurnOff, TakeTargets, ClaimForTarget, BuildOffer, WriteToTarget,
         OffersDone, connVars
    <2>2. \A d \in Conn : pc'[d] = pc[d]
      BY <1>0, <1>3 DEF TypeOK, UiStep, StartUi, TurnOff, TakeTargets, ClaimForTarget, ClaimStep,
         BuildOffer, WriteToTarget, OffersDone
    <2> QED
      BY <2>1, <2>2 DEF KnownAtHello
  <1>4. CASE UserNext
    <2>1. profile' = profile
      BY <1>4 DEF UserNext, TrayRestore, Confirm, Refuse, Dismiss, SetRestoreMode, connVars
    <2>2. \A d \in Conn : pc'[d] = pc[d]
      BY <1>0, <1>4 DEF TypeOK, UserNext, TrayRestore, Confirm, Refuse, Dismiss, SetRestoreMode,
         workVars
    <2> QED
      BY <2>1, <2>2 DEF KnownAtHello
  <1>5. CASE UNCHANGED vars
    BY <1>5 DEF KnownAtHello, vars, connVars, workVars
  <1> QED
    BY <1>1, <1>2, <1>3, <1>4, <1>5 DEF Next, ConnNext

\* Every step keeps the types.
LEMMA NextType == TypeOK /\ KnownAtHello /\ [Next]_vars => TypeOK'
  BY ConnNextType, UiStepType, UserNextType, StutterType DEF Next

\* Every reachable state is well typed, and hello's key is known.
LEMMA TypeInvariant == Spec => [](TypeOK /\ KnownAtHello)
  <1>1. Init => KnownAtHello
    BY ConnAssumption DEF Init, KnownAtHello, Actor
  <1> QED
    BY InitTypeOK, NextType, KnownStep, <1>1, PTL DEF Spec

\* Every reachable state is well typed: claims are of claim keys, what the UI
\* thread holds of a connection is that connection or nothing, and the
\* counters never leave the naturals.
THEOREM TypeCorrect == Spec => []TypeOK
  BY TypeInvariant, PTL

-----------------------------------------------------------------------------
(* Claims: who holds one, and where it ends.                               *)

\* A thread holds a claim only between taking it and having written it.
HeldInOrder ==
    \A a \in Actor :
        /\ job[a] # {} => pc[a] = "build"
        /\ out[a] # {} => pc[a] = "write"
        /\ \A i, j \in job[a] : i = j

\* What has been written once is in nobody's hands.
WrittenOnce ==
    \A k \in ClaimKey :
        /\ writes[k] <= 1
        /\ writes[k] # 0 => k \in offered /\ \A a \in Actor : k \notin Holding(a)

HeldByOne == \A a, b \in Actor : a # b => Holding(a) \cap Holding(b) = {}

ClaimInv ==
    /\ HeldInOrder
    /\ HeldByOne
    /\ WrittenOnce
    /\ ClaimsAccountedFor
    /\ NoOfferWhileAsking

\* Steps that leave every claim where it is.
Aside ==
    /\ UNCHANGED <<offered, job, out, sent, writes, spent, lost>>
    /\ awaiting' => awaiting
    /\ \A a \in Actor : pc[a] \in {"build", "write"} => pc'[a] = pc[a]

\* An actor serves claim keys only.
LEMMA HoldingType ==
    ASSUME TypeOK, NEW a \in Actor
    PROVE  Holding(a) \subseteq ClaimKey
  BY DEF TypeOK, Holding, Job, Offer

\* Steps that touch no claim.
LEMMA AsideKeepsClaims ==
    ASSUME TypeOK, ClaimInv, Aside
    PROVE  ClaimInv'
  <1>1. \A a \in Actor : Holding(a)' = Holding(a)
    BY DEF Aside, Holding
  <1>2. HeldInOrder'
    BY DEF ClaimInv, HeldInOrder, Aside
  <1>3. HeldByOne' /\ WrittenOnce' /\ ClaimsAccountedFor' /\ NoOfferWhileAsking'
    BY <1>1 DEF ClaimInv, HeldByOne, WrittenOnce, ClaimsAccountedFor, NoOfferWhileAsking, Aside
  <1> QED
    BY <1>2, <1>3 DEF ClaimInv

\* A claim is granted only when nobody has it.
LEMMA ClaimKeepsClaims ==
    ASSUME TypeOK, ClaimInv, NEW a \in Actor, NEW k \in ClaimKey, ClaimStep(a, k),
           pc[a] \notin {"build", "write"},
           UNCHANGED <<awaiting, out, sent, writes, spent, lost>>
    PROVE  ClaimInv'
  <1>1. CASE ~Claimable(k)
    <2>1. Aside
      BY <1>1 DEF Aside, ClaimStep, TypeOK
    <2> QED
      BY <2>1, AsideKeepsClaims
  <1>2. CASE Claimable(k)
    <2>1. /\ offered' = offered \cup {k} /\ k \notin offered /\ ~awaiting
          /\ job' = [job EXCEPT ![a] = {[key |-> k, sel |-> selection]}]
          /\ pc' = [pc EXCEPT ![a] = "build"]
      BY <1>2 DEF ClaimStep, Claimable, OffersOpen
    <2>2. job[a] = {} /\ out[a] = {}
      BY DEF ClaimInv, HeldInOrder
    <2>3. Holding(a)' = {k} /\ Holding(a) = {}
      <3>1. job'[a] = {[key |-> k, sel |-> selection]} /\ out'[a] = {}
        BY <2>1, <2>2 DEF TypeOK
      <3> QED
        BY <2>2, <3>1 DEF Holding
    <2>4. \A b \in Actor : b # a => Holding(b)' = Holding(b)
      BY <2>1 DEF Holding, TypeOK
    <2>5. \A b \in Actor : k \notin Holding(b)
      BY <2>1 DEF ClaimInv, ClaimsAccountedFor
    <2>6. HeldInOrder'
      BY <2>1, <2>2 DEF ClaimInv, HeldInOrder, TypeOK
    <2>7. HeldByOne'
      BY <2>3, <2>4, <2>5 DEF ClaimInv, HeldByOne
    <2>8. WrittenOnce'
      BY <2>1, <2>3, <2>4 DEF ClaimInv, WrittenOnce, TypeOK
    <2>9. ClaimsAccountedFor'
      <3>1. \A x : (\E b \in Actor : x \in Holding(b)') <=> (\E b \in Actor : x \in Holding(b)) \/ x = k
        BY <2>3, <2>4
      <3> QED
        BY <2>1, <3>1 DEF ClaimInv, ClaimsAccountedFor
    <2>10. NoOfferWhileAsking'
      BY <2>1 DEF NoOfferWhileAsking
    <2> QED
      BY <2>6, <2>7, <2>8, <2>9, <2>10 DEF ClaimInv
  <1> QED
    BY <1>1, <1>2

\* A claim ends in an offer to write or is accounted for.
LEMMA BuildKeepsClaims ==
    ASSUME TypeOK, ClaimInv, NEW a \in Actor, BuildOffer(a)
    PROVE  ClaimInv'
  <1>1. PICK j \in job[a] : \E o \in Built(j) :
          /\ out' = [out EXCEPT ![a] = o]
          /\ spent' = IF o = {} /\ ~Sendable(j) THEN spent \cup {j.key} ELSE spent
          /\ lost' = IF o = {} /\ Sendable(j) THEN lost \cup {j.key} ELSE lost
    BY DEF BuildOffer
  <1>2. PICK o \in Built(j) :
          /\ out' = [out EXCEPT ![a] = o]
          /\ spent' = IF o = {} /\ ~Sendable(j) THEN spent \cup {j.key} ELSE spent
          /\ lost' = IF o = {} /\ Sendable(j) THEN lost \cup {j.key} ELSE lost
    BY <1>1
  <1>3. \A f \in o : f.key = j.key
    BY DEF Built
  <1>4. /\ job' = [job EXCEPT ![a] = {}] /\ pc' = [pc EXCEPT ![a] = "write"]
        /\ UNCHANGED <<offered, awaiting, sent, writes>>
    BY DEF BuildOffer, pendingVars
  <1>5. job[a] = {j} /\ out[a] = {}
    BY DEF ClaimInv, HeldInOrder, BuildOffer
  <1>6. Holding(a) = {j.key}
    BY <1>5 DEF Holding
  <1>7. Holding(a)' = IF o = {} THEN {} ELSE {j.key}
    BY <1>2, <1>3, <1>4 DEF Holding, TypeOK
  <1>8. \A b \in Actor : b # a => Holding(b)' = Holding(b)
    BY <1>2, <1>4 DEF Holding, TypeOK
  <1>9. spent' \cup lost' = IF o = {} THEN spent \cup lost \cup {j.key} ELSE spent \cup lost
    BY <1>2
  <1>10. HeldInOrder'
    BY <1>2, <1>4, <1>5 DEF ClaimInv, HeldInOrder, TypeOK
  <1>11. HeldByOne' /\ WrittenOnce'
    BY <1>4, <1>6, <1>7, <1>8 DEF ClaimInv, HeldByOne, WrittenOnce
  <1>12. ClaimsAccountedFor'
    <2>1. \A x : (\E b \in Actor : x \in Holding(b)') \/ (o = {} /\ x = j.key)
                   <=> (\E b \in Actor : x \in Holding(b))
      BY <1>6, <1>7, <1>8
    <2>2. \A x : x \in spent' \cup lost' <=> x \in spent \cup lost \/ (o = {} /\ x = j.key)
      BY <1>9
    <2>3. ASSUME NEW k \in ClaimKey
          PROVE  k \in offered <=> \/ \E b \in Actor : k \in Holding(b)
                                   \/ \E s \in sent : s.key = k
                                   \/ k \in spent \cup lost
      BY DEF ClaimInv, ClaimsAccountedFor
    <2>4. ASSUME NEW k \in ClaimKey
          PROVE  k \in offered <=> \/ \E b \in Actor : k \in Holding(b)'
                                   \/ \E s \in sent : s.key = k
                                   \/ k \in spent' \cup lost'
      <3>1. (\E b \in Actor : k \in Holding(b)') \/ (o = {} /\ k = j.key)
               <=> (\E b \in Actor : k \in Holding(b))
        BY <2>1
      <3>2. k \in spent' \cup lost' <=> k \in spent \cup lost \/ (o = {} /\ k = j.key)
        BY <2>2
      <3>3. k \in offered <=> \/ \E b \in Actor : k \in Holding(b)
                              \/ \E s \in sent : s.key = k
                              \/ k \in spent \cup lost
        BY <2>3
      <3> QED
        BY <3>1, <3>2, <3>3, SMT
    <2> QED
      BY <1>4, <2>4 DEF ClaimsAccountedFor
  <1>13. NoOfferWhileAsking'
    BY <1>4, <1>6 DEF ClaimInv, NoOfferWhileAsking
  <1> QED
    BY <1>10, <1>11, <1>12, <1>13 DEF ClaimInv

\* Writing an offer, or failing to, empties the thread's hands.
LEMMA WriteKeepsClaims ==
    ASSUME TypeOK, ClaimInv, NEW a \in Actor,
           Lose(a) \/ \E c \in Conn : Deliver(a, c),
           out' = [out EXCEPT ![a] = {}],
           UNCHANGED <<offered, awaiting, job>>,
           pc[a] = "write",
           \A b \in Actor : b # a => pc'[b] = pc[b]
    PROVE  ClaimInv'
  <1>1. job[a] = {} /\ job'[a] = {} /\ out'[a] = {}
    BY DEF ClaimInv, HeldInOrder, TypeOK
  <1>2. Holding(a)' = {} /\ Holding(a) = {o.key : o \in out[a]}
    BY <1>1 DEF Holding
  <1>3. \A b \in Actor : b # a => Holding(b)' = Holding(b)
    BY DEF Holding, TypeOK
  <1>4. HeldInOrder'
    BY <1>1 DEF ClaimInv, HeldInOrder, TypeOK
  <1>5. HeldByOne'
    BY <1>2, <1>3 DEF ClaimInv, HeldByOne
  <1>6. Holding(a) \subseteq offered /\ Holding(a) \subseteq ClaimKey
    BY HoldingType DEF ClaimInv, ClaimsAccountedFor
  <1>7. WrittenOnce'
    <2>1. ASSUME NEW k \in ClaimKey
          PROVE  writes'[k] = writes[k] \/ (writes'[k] = writes[k] + 1 /\ k \in Holding(a))
      BY <1>2 DEF Lose, Deliver, TypeOK
    <2>2. ASSUME NEW k \in ClaimKey, k \in Holding(a)
          PROVE  writes[k] = 0 /\ \A b \in Actor : k \notin Holding(b)'
      BY <1>2, <1>3, <2>2 DEF ClaimInv, WrittenOnce, HeldByOne
    <2>3. \A k \in ClaimKey, b \in Actor : k \in Holding(b)' => k \in Holding(b)
      BY <1>2, <1>3
    <2> QED
      BY <1>6, <2>1, <2>2, <2>3 DEF ClaimInv, WrittenOnce, TypeOK
  <1>8. ClaimsAccountedFor'
    <2>1. ASSUME NEW k \in ClaimKey
          PROVE  (\E s \in sent' : s.key = k) \/ k \in spent' \cup lost'
                   <=> (\E s \in sent : s.key = k) \/ k \in spent \cup lost \/ k \in Holding(a)
      <3>1. CASE Lose(a)
        BY <1>2, <3>1 DEF Lose
      <3>2. ASSUME NEW c \in Conn, Deliver(a, c)
            PROVE  (\E s \in sent' : s.key = k) <=> (\E s \in sent : s.key = k) \/ k \in Holding(a)
        <4> DEFINE Sent(o) == [to |-> profileOf[c], key |-> o.key, windows |-> o.windows,
                               private |-> o.private]
        <4>1. sent' = sent \cup {Sent(o) : o \in out[a]}
          BY <3>2 DEF Deliver
        <4>2. \A o \in out[a] : Sent(o).key = o.key
          OBVIOUS
        <4> HIDE DEF Sent
        <4> QED
          BY <1>2, <4>1, <4>2
      <3> QED
        BY <3>1, <3>2 DEF Deliver
    <2>2. \A x : (\E b \in Actor : x \in Holding(b)') \/ x \in Holding(a)
                   <=> (\E b \in Actor : x \in Holding(b))
      BY <1>2, <1>3
    <2>3. offered' = offered
      OBVIOUS
    <2>4. ASSUME NEW k \in ClaimKey
          PROVE  k \in offered <=> \/ \E b \in Actor : k \in Holding(b)'
                                   \/ \E s \in sent' : s.key = k
                                   \/ k \in spent' \cup lost'
      <3>1. (\E s \in sent' : s.key = k) \/ k \in spent' \cup lost'
               <=> (\E s \in sent : s.key = k) \/ k \in spent \cup lost \/ k \in Holding(a)
        BY <2>1
      <3>2. (\E b \in Actor : k \in Holding(b)') \/ k \in Holding(a)
               <=> (\E b \in Actor : k \in Holding(b))
        BY <2>2
      <3>3. k \in offered <=> \/ \E b \in Actor : k \in Holding(b)
                              \/ \E s \in sent : s.key = k
                              \/ k \in spent \cup lost
        BY DEF ClaimInv, ClaimsAccountedFor
      <3> QED
        BY <3>1, <3>2, <3>3, SMT
    <2> QED
      BY <2>3, <2>4 DEF ClaimsAccountedFor
  <1>9. NoOfferWhileAsking'
    <2>1. CASE awaiting
      <3>1. out[a] = {} /\ offered = {} /\ sent = {}
        BY <1>2, <2>1 DEF ClaimInv, NoOfferWhileAsking
      <3>2. sent' = {}
        BY <3>1 DEF Lose, Deliver
      <3> QED
        BY <1>2, <1>3, <2>1, <3>1, <3>2 DEF ClaimInv, NoOfferWhileAsking
    <2> QED
      BY <2>1 DEF NoOfferWhileAsking
  <1> QED
    BY <1>4, <1>5, <1>7, <1>8, <1>9 DEF ClaimInv

\* Every step keeps the claims in order.
LEMMA NextKeepsClaims ==
    ASSUME TypeOK, KnownAtHello, ClaimInv, [Next]_vars
    PROVE  ClaimInv'
  <1> USE DEF pendingVars, settings, uiVars, obsVars, connVars, workVars
  <1>0. UI \in Actor /\ Conn \subseteq Actor /\ UI \notin Conn
    BY ConnAssumption DEF Actor
  <1>1. ASSUME NEW c \in Conn,
               Connect(c) \/ ReadHello(c) \/ ReadState(c) \/ PeerGone(c) \/ ReadClosed(c)
        PROVE  ClaimInv'
    <2>1. UNCHANGED <<offered, job, out, sent, writes, spent, lost, awaiting>>
      BY <1>1 DEF Connect, ReadHello, ReadState, PeerGone, ReadClosed
    <2>2. \A a \in Actor : pc[a] \in {"build", "write"} => pc'[a] = pc[a]
      BY <1>0, <1>1 DEF TypeOK, Connect, ReadHello, ReadState, PeerGone, ReadClosed, EndThread
    <2> QED
      BY <2>1, <2>2, AsideKeepsClaims DEF Aside
  <1>2. ASSUME NEW c \in Conn, ClaimForHello(c)
        PROVE  ClaimInv'
    <2>1. <<browserOf[c], profile[c]>> \in ClaimKey
      BY <1>2, FunctionAssumption DEF TypeOK, ClaimKey, KnownAtHello, ClaimForHello
    <2> QED
      BY <1>0, <1>2, <2>1, ClaimKeepsClaims DEF ClaimForHello
  <1>3. ASSUME NEW a \in Actor, BuildOffer(a)
        PROVE  ClaimInv'
    BY <1>3, BuildKeepsClaims
  <1>4. ASSUME NEW c \in Conn, WriteReplies(c)
        PROVE  ClaimInv'
    <2>1. \A b \in Actor : b # c => pc'[b] = pc[b]
      BY <1>0, <1>4 DEF TypeOK, WriteReplies, EndThread
    <2>2. Lose(c) \/ \E d \in Conn : Deliver(c, d)
      BY <1>4 DEF WriteReplies
    <2> QED
      BY <1>0, <1>4, <2>1, <2>2, WriteKeepsClaims DEF WriteReplies
  <1>5. CASE StartUi \/ TurnOff \/ TakeTargets \/ OffersDone
    <2>1. UNCHANGED <<offered, job, out, sent, writes, spent, lost, awaiting>>
      BY <1>5 DEF StartUi, TurnOff, TakeTargets, OffersDone
    <2>2. \A a \in Actor : pc[a] \in {"build", "write"} => pc'[a] = pc[a]
      BY <1>0, <1>5 DEF TypeOK, StartUi, TurnOff, TakeTargets, OffersDone
    <2> QED
      BY <2>1, <2>2, AsideKeepsClaims DEF Aside
  <1>6. CASE ClaimForTarget
    <2>1. PICK t \in targets : ClaimStep(UI, t.key)
      BY <1>6 DEF ClaimForTarget
    <2>2. t.key \in ClaimKey
      BY DEF TypeOK, Target
    <2> QED
      BY <1>0, <1>6, <2>1, <2>2, ClaimKeepsClaims DEF ClaimForTarget
  <1>7. CASE WriteToTarget
    <2>1. Lose(UI) \/ \E d \in Conn : Deliver(UI, d)
      BY <1>7 DEF WriteToTarget
    <2>2. \A b \in Actor : b # UI => pc'[b] = pc[b]
      BY <1>0, <1>7 DEF TypeOK, WriteToTarget
    <2> QED
      BY <1>0, <1>7, <2>1, <2>2, WriteKeepsClaims DEF WriteToTarget
  <1>8. CASE UserNext
    <2>1. UNCHANGED <<offered, job, out, sent, writes, spent, lost>>
      BY <1>8 DEF UserNext, TrayRestore, Confirm, Refuse, Dismiss, SetRestoreMode
    <2>2. awaiting' => awaiting
      BY <1>8 DEF UserNext, TrayRestore, Confirm, Refuse, Dismiss, SetRestoreMode, SetSelection
    <2>3. \A a \in Actor : pc[a] \in {"build", "write"} => pc'[a] = pc[a]
      BY <1>0, <1>8 DEF TypeOK, UserNext, TrayRestore, Confirm, Refuse, Dismiss, SetRestoreMode
    <2> QED
      BY <2>1, <2>2, <2>3, AsideKeepsClaims DEF Aside
  <1>9. CASE UNCHANGED vars
    BY <1>9, AsideKeepsClaims DEF Aside, vars
  <1> QED
    BY <1>0, <1>1, <1>2, <1>3, <1>4, <1>5, <1>6, <1>7, <1>8, <1>9
       DEF Next, ConnNext, ThreadStep, UiStep

\* Nothing is claimed at first.
LEMMA InitClaims == Init => ClaimInv
  BY DEF Init, ClaimInv, HeldInOrder, HeldByOne, WrittenOnce, ClaimsAccountedFor,
     NoOfferWhileAsking, Holding

\* Claims are in order in every reachable state.
LEMMA ClaimInvariant == Spec => []ClaimInv
  BY InitClaims, NextKeepsClaims, TypeInvariant, PTL DEF Spec

\* However many threads race for it, a claim key is being served by at most
\* one of them, and its offer is written to a pipe at most once.
THEOREM AtMostOneOffer == Spec => []OneOfferPerKey
  <1>1. ClaimInv => OneOfferPerKey
    BY DEF ClaimInv, OneOfferPerKey, HeldByOne, WrittenOnce
  <1> QED
    BY <1>1, ClaimInvariant, PTL

\* Nothing is claimed, built or sent while the review is unanswered, including
\* by threads that were already on their way.
THEOREM NothingBeforeTheAnswer == Spec => []NoOfferWhileAsking
  <1>1. ClaimInv => NoOfferWhileAsking
    BY DEF ClaimInv
  <1> QED
    BY <1>1, ClaimInvariant, PTL

\* No claim disappears: each is in a thread's hands, or was sent, or ended
\* without an offer.
THEOREM EveryClaimAccounted == Spec => []ClaimsAccountedFor
  <1>1. ClaimInv => ClaimsAccountedFor
    BY DEF ClaimInv
  <1> QED
    BY <1>1, ClaimInvariant, PTL

-----------------------------------------------------------------------------
(* Consent: what is sent goes back to an answer the user gave.             *)

\* The answer an offer is built from is one the user confirmed.
Confirmed(sel) == \A s, t \in sel : s \in answers /\ s = t

\* What may leave the agent, given the answers so far.
Allowed(o) ==
    /\ asked => \E a \in answers : o.windows \subseteq a.windows /\ (o.private => a.private)
    /\ o.private => \E a \in answers : a.private

ConsentInv ==
    /\ \A s, t \in selection : s = t /\ (s.declined \/ s \in answers)
    /\ asked /\ snapshot_id # NoSnapshot => awaiting \/ selection # {}
    /\ \A a \in Actor : \A j \in job[a] : Confirmed(j.sel) /\ (asked => j.sel # {})
    /\ \A a \in Actor : \A o \in out[a] : Allowed(o)
    /\ ConsentBacked

\* Steps that make no claim, build no offer and send nothing.
Quiet ==
    /\ UNCHANGED <<selection, asked, snapshot_id, awaiting, job, sent, answers>>
    /\ \A a \in Actor : out'[a] \subseteq out[a]

\* Steps that neither ask, answer, claim nor build.
LEMMA QuietKeepsConsent ==
    ASSUME ConsentInv, Quiet
    PROVE  ConsentInv'
  BY DEF ConsentInv, Quiet, Confirmed, Allowed, ConsentBacked

\* A claim is granted only with an answer or in automatic mode.
LEMMA ClaimKeepsConsent ==
    ASSUME TypeOK, ConsentInv, NEW a \in Actor, NEW k \in ClaimKey, ClaimStep(a, k),
           UNCHANGED <<selection, asked, snapshot_id, awaiting, out, sent, answers>>
    PROVE  ConsentInv'
  <1>1. CASE ~Claimable(k)
    BY <1>1, QuietKeepsConsent DEF ClaimStep, Quiet
  <1>2. CASE Claimable(k)
    <2>1. /\ ~awaiting /\ snapshot_id # NoSnapshot /\ \A s \in selection : ~s.declined
          /\ job' = [job EXCEPT ![a] = {[key |-> k, sel |-> selection]}]
      BY <1>2 DEF ClaimStep, Claimable, OffersOpen
    <2>2. Confirmed(selection) /\ (asked => selection # {})
      BY <2>1 DEF ConsentInv, Confirmed
    <2>3. \A b \in Actor : \A j \in job'[b] : Confirmed(j.sel)' /\ (asked' => j.sel # {})
      BY <2>1, <2>2 DEF ConsentInv, TypeOK, Confirmed
    <2> QED
      BY <2>3 DEF ConsentInv, Allowed, ConsentBacked
  <1> QED
    BY <1>1, <1>2

\* An offer built from a confirmed answer holds what that answer ticked.
LEMMA BuiltIsAllowed ==
    ASSUME NEW j \in Job, NEW o \in Built(j), NEW f \in o,
           Confirmed(j.sel), asked => j.sel # {}
    PROVE  Allowed(f)
  <1>1. PICK p \in {FALSE, PrivateTicked(j)} :
          f = [key |-> j.key, windows |-> Payload(j), private |-> p]
    BY DEF Built
  <1>2. f.windows = Payload(j) /\ f.private = p
    BY <1>1
  <1>3. ASSUME NEW s \in j.sel
        PROVE  s \in answers /\ f.windows \subseteq s.windows
    BY <1>2 DEF Confirmed, Payload
  <1>4. p => \E s \in j.sel : s.private
    BY DEF PrivateTicked
  <1>5. \A s, t \in j.sel : s = t
    BY DEF Confirmed
  <1>6. f.private => \E a \in answers : a.private
    BY <1>2, <1>3, <1>4
  <1>7. ASSUME asked
        PROVE  \E a \in answers : f.windows \subseteq a.windows /\ (f.private => a.private)
    <2>1. PICK s \in j.sel : TRUE
      BY <1>7
    <2>2. f.private => s.private
      BY <1>2, <1>4, <1>5
    <2> QED
      BY <1>3, <2>2
  <1> QED
    BY <1>6, <1>7 DEF Allowed

\* An offer is built from what the user answered.
LEMMA BuildKeepsConsent ==
    ASSUME TypeOK, ConsentInv, NEW a \in Actor, BuildOffer(a)
    PROVE  ConsentInv'
  <1>1. PICK j \in job[a] : \E o \in Built(j) : out' = [out EXCEPT ![a] = o]
    BY DEF BuildOffer
  <1>2. PICK o \in Built(j) : out' = [out EXCEPT ![a] = o]
    BY <1>1
  <1>3. \A f \in o : Allowed(f)
    BY BuiltIsAllowed DEF ConsentInv, TypeOK
  <1>4. \A b \in Actor : job'[b] \subseteq job[b]
    BY DEF BuildOffer, TypeOK
  <1>5. UNCHANGED <<selection, asked, snapshot_id, awaiting, sent, answers>>
    BY DEF BuildOffer, pendingVars
  <1>6. \A b \in Actor : \A f \in out'[b] : Allowed(f)
    BY <1>2, <1>3 DEF TypeOK, ConsentInv
  <1> QED
    BY <1>4, <1>5, <1>6 DEF ConsentInv, Confirmed, Allowed, ConsentBacked

\* Writing an offer changes no answer.
LEMMA DeliverKeepsConsent ==
    ASSUME TypeOK, ConsentInv, NEW a \in Actor, NEW c \in Conn, Deliver(a, c),
           out' = [out EXCEPT ![a] = {}],
           UNCHANGED <<selection, asked, snapshot_id, awaiting, job, answers>>
    PROVE  ConsentInv'
  <1>1. ASSUME NEW s \in sent'
        PROVE  Allowed(s)
    <2>1. CASE s \in sent
      BY <2>1 DEF ConsentInv, ConsentBacked, Allowed
    <2>2. CASE s \notin sent
      <3>1. PICK o \in out[a] : s = [to |-> profileOf[c], key |-> o.key, windows |-> o.windows,
                                     private |-> o.private]
        BY <2>2 DEF Deliver
      <3>2. s.windows = o.windows /\ s.private = o.private
        BY <3>1
      <3> QED
        BY <3>2 DEF ConsentInv, Allowed
    <2> QED
      BY <2>1, <2>2
  <1>2. ConsentBacked'
    BY <1>1 DEF ConsentBacked, Allowed
  <1>3. \A b \in Actor : out'[b] \subseteq out[b]
    BY DEF TypeOK
  <1> QED
    BY <1>2, <1>3 DEF ConsentInv, Confirmed, Allowed

\* No step of a connection's thread offers without consent.
LEMMA ConnKeepsConsent ==
    ASSUME TypeOK, KnownAtHello, ConsentInv, NEW c \in Conn, ConnNext(c)
    PROVE  ConsentInv'
  <1> USE DEF pendingVars, settings, uiVars, obsVars, connVars, workVars
  <1>0. c \in Actor
    BY DEF Actor
  <1>1. CASE Connect(c) \/ ReadHello(c) \/ ReadState(c) \/ PeerGone(c) \/ ReadClosed(c)
    BY <1>1, QuietKeepsConsent DEF Quiet, Connect, ReadHello, ReadState, PeerGone, ReadClosed
  <1>2. CASE ClaimForHello(c)
    <2>1. <<browserOf[c], profile[c]>> \in ClaimKey
      BY <1>2, FunctionAssumption DEF TypeOK, ClaimKey, KnownAtHello, ClaimForHello
    <2> QED
      BY <1>0, <1>2, <2>1, ClaimKeepsConsent DEF ClaimForHello
  <1>3. CASE BuildOffer(c)
    BY <1>0, <1>3, BuildKeepsConsent
  <1>4. CASE WriteReplies(c)
    <2>1. CASE Deliver(c, c)
      BY <1>0, <1>4, <2>1, DeliverKeepsConsent DEF WriteReplies
    <2>2. CASE Lose(c)
      <3>1. \A a \in Actor : out'[a] \subseteq out[a]
        BY <1>4 DEF WriteReplies, TypeOK
      <3> QED
        BY <1>4, <2>2, <3>1, QuietKeepsConsent DEF Quiet, WriteReplies, Lose
    <2> QED
      BY <1>4, <2>1, <2>2 DEF WriteReplies
  <1> QED
    BY <1>1, <1>2, <1>3, <1>4 DEF ConnNext, ThreadStep

\* Nor does one of the UI thread.
LEMMA UiKeepsConsent ==
    ASSUME TypeOK, ConsentInv, UiStep
    PROVE  ConsentInv'
  <1> USE DEF pendingVars, settings, uiVars, obsVars, connVars, workVars
  <1>0. UI \in Actor
    BY DEF Actor
  <1>1. CASE StartUi \/ TurnOff \/ TakeTargets \/ OffersDone
    BY <1>1, QuietKeepsConsent DEF Quiet, StartUi, TurnOff, TakeTargets, OffersDone
  <1>2. CASE ClaimForTarget
    <2>1. PICK t \in targets : ClaimStep(UI, t.key)
      BY <1>2 DEF ClaimForTarget
    <2>2. t.key \in ClaimKey
      BY DEF TypeOK, Target
    <2> QED
      BY <1>0, <1>2, <2>1, <2>2, ClaimKeepsConsent DEF ClaimForTarget
  <1>3. CASE BuildOffer(UI)
    BY <1>0, <1>3, BuildKeepsConsent
  <1>4. CASE WriteToTarget
    <2>1. ASSUME NEW c \in Conn, Deliver(UI, c)
          PROVE  ConsentInv'
      BY <1>0, <1>4, <2>1, DeliverKeepsConsent DEF WriteToTarget
    <2>2. CASE Lose(UI)
      <3>1. \A a \in Actor : out'[a] \subseteq out[a]
        BY <1>4 DEF WriteToTarget, TypeOK
      <3> QED
        BY <1>4, <2>2, <3>1, QuietKeepsConsent DEF Quiet, WriteToTarget, Lose
    <2> QED
      BY <1>4, <2>1, <2>2 DEF WriteToTarget
  <1> QED
    BY <1>1, <1>2, <1>3, <1>4 DEF UiStep

\* Nor does one of the user.
LEMMA UserKeepsConsent ==
    ASSUME TypeOK, ConsentInv, UserNext
    PROVE  ConsentInv'
  <1> USE DEF pendingVars, settings, uiVars, obsVars, connVars, workVars
  <1>1. CASE TrayRestore \/ SetRestoreMode
    BY <1>1, QuietKeepsConsent DEF Quiet, TrayRestore, SetRestoreMode
  <1>2. ASSUME NEW choice, SetSelection(choice), choice.declined \/ choice \in answers',
               answers \subseteq answers',
               UNCHANGED <<asked, snapshot_id, job, out, sent>>
        PROVE  ConsentInv'
    <2>1. selection' = {choice}
      BY <1>2 DEF SetSelection
    <2>2. \A o : Allowed(o) => Allowed(o)'
      BY <1>2 DEF Allowed
    <2>3. \A sel : Confirmed(sel) => Confirmed(sel)'
      BY <1>2 DEF Confirmed
    <2>4. ConsentBacked'
      BY <1>2 DEF ConsentInv, ConsentBacked
    <2> QED
      BY <1>2, <2>1, <2>2, <2>3, <2>4 DEF ConsentInv
  <1>3. CASE Confirm
    <2>1. PICK ws \in Ticks : \E p \in BOOLEAN :
            LET choice == [declined |-> FALSE, windows |-> ws, private |-> p] IN
            SetSelection(choice) /\ answers' = answers \cup {choice}
      BY <1>3 DEF Confirm
    <2>2. PICK p \in BOOLEAN :
            LET choice == [declined |-> FALSE, windows |-> ws, private |-> p] IN
            SetSelection(choice) /\ answers' = answers \cup {choice}
      BY <2>1
    <2> QED
      BY <1>2, <1>3, <2>2 DEF Confirm
  <1>4. CASE Refuse \/ Dismiss
    <2>1. SetSelection(Refusal) /\ UNCHANGED <<asked, snapshot_id, job, out, sent, answers>>
      BY <1>4 DEF Refuse, Dismiss
    <2>2. Refusal.declined
      BY DEF Refusal
    <2> QED
      BY <1>2, <2>1, <2>2
  <1> QED
    BY <1>1, <1>3, <1>4 DEF UserNext

\* Consent backs every offer in every reachable state.
LEMMA ConsentInvariant == Spec => []ConsentInv
  <1>1. Init => ConsentInv
    <2> SUFFICES ASSUME Init PROVE ConsentInv
      OBVIOUS
    <2>1. asked /\ snapshot_id # NoSnapshot => awaiting
      BY DEF Init
    <2> QED
      BY <2>1 DEF Init, ConsentInv, ConsentBacked
  <1>2. TypeOK /\ KnownAtHello /\ ConsentInv /\ [Next]_vars => ConsentInv'
    <2>1. UNCHANGED vars => Quiet
      BY DEF Quiet, vars, pendingVars, workVars, obsVars
    <2> QED
      BY <2>1, ConnKeepsConsent, UiKeepsConsent, UserKeepsConsent, QuietKeepsConsent DEF Next
  <1> QED
    BY <1>1, <1>2, TypeInvariant, PTL DEF Spec

\* A run that asks sends only windows the user ticked, all of them in one
\* confirmed answer, and private windows leave the agent in no run without an
\* answer that ticked them.
THEOREM OnlyWithConsent == Spec => []ConsentBacked
  <1>1. ConsentInv => ConsentBacked
    BY DEF ConsentInv
  <1> QED
    BY <1>1, ConsentInvariant, PTL

-----------------------------------------------------------------------------
(* The hand-over from a connection that was turned away to the UI thread.  *)

\* What a live connection knows of itself, and what the registry knows of it.
Registered ==
    \A c \in Conn :
        /\ registry[c] # NoKey => pc[c] # "closed" /\ profile[c] # NoKey
        /\ pc[c] # "closed" /\ profile[c] # NoKey =>
               registry[c] # NoKey /\ (registry[c] = profile[c] \/ profile[c] \in helloIds[c])
        /\ c \in heard => registry[c] # NoKey

\* The UI thread is on its way to c.
OnTheList(c) ==
    \/ pc[UI] = "targets"
    \/ /\ pc[UI] \in {"offer", "build", "write"}
       /\ \E t \in targets : t.key = <<browserOf[c], registry[c]>>

HandOver ==
    OffersOpen /\ snapshot_id # NoSnapshot => \A c \in heard : ClaimedFor(c) \/ OnTheList(c)

\* Steps of one connection that claim nothing and end nothing.
LEMMA ReadKeepsRegistered ==
    ASSUME TypeOK, KnownAtHello, Registered, HandOver, NEW c \in Conn,
           Connect(c) \/ ReadHello(c) \/ ReadState(c) \/ PeerGone(c)
    PROVE  Registered' /\ HandOver'
  <1> USE DEF pendingVars, settings, uiVars, obsVars, connVars, workVars
  <1>0. c \in Actor /\ UI \in Actor /\ c # UI
    BY ConnAssumption DEF Actor
  <1>1. CASE Connect(c)
    <2>1. registry[c] = NoKey /\ c \notin heard
      BY <1>1 DEF Connect, Registered
    <2>2. Registered'
      BY <1>0, <1>1, <2>1 DEF Connect, Registered, TypeOK
    <2>3. HandOver'
      BY <1>0, <1>1, <2>1 DEF Connect, HandOver, OffersOpen, ClaimedFor, OnTheList, TypeOK
    <2> QED
      BY <2>2, <2>3
  <1>2. CASE PeerGone(c)
    BY <1>2 DEF PeerGone, Registered, HandOver, OffersOpen, ClaimedFor, OnTheList
  <1>3. ASSUME NEW p \in Key,
               profile' = [profile EXCEPT ![c] = p],
               Register(c, p),
               p = profile[c] \/ profile[c] = NoKey \/ p \in helloIds[c],
               pc[c] = "reading",
               pc' = pc \/ pc' = [pc EXCEPT ![c] = "hello"],
               UNCHANGED <<pendingVars, targets, heard>>
        PROVE  Registered' /\ HandOver'
    <2>1. /\ p # NoKey
          /\ registry'[c] = IF registry[c] = NoKey THEN p ELSE registry[c]
          /\ profile'[c] = p
          /\ \A d \in Conn : d # c => registry'[d] = registry[d] /\ profile'[d] = profile[d]
      BY <1>3, ConnAssumption DEF Register, TypeOK
    <2>2. \A d \in Conn : pc'[d] # "closed" <=> pc[d] # "closed"
      BY <1>0, <1>3 DEF TypeOK, Actor
    <2>3. pc[c] # "closed" /\ pc'[UI] = pc[UI]
      BY <1>0, <1>3 DEF TypeOK
    <2>4. Registered'
      <3>1. ASSUME NEW d \in Conn, d # c
            PROVE  /\ registry'[d] # NoKey => pc'[d] # "closed" /\ profile'[d] # NoKey
                   /\ pc'[d] # "closed" /\ profile'[d] # NoKey =>
                        registry'[d] # NoKey /\ (registry'[d] = profile'[d] \/ profile'[d] \in helloIds[d])
                   /\ d \in heard' => registry'[d] # NoKey
        BY <1>3, <2>1, <2>2, <3>1 DEF Registered
      <3>2. registry'[c] # NoKey
        BY <2>1
      <3>3. registry'[c] = p \/ p \in helloIds[c]
        BY <1>3, <2>1, <2>3 DEF Registered
      <3> QED
        BY <2>1, <2>2, <2>3, <3>1, <3>2, <3>3 DEF Registered
    <2>5. ASSUME NEW d \in heard, ClaimedFor(d)
          PROVE  ClaimedFor(d)'
      <3>1. d \in Conn /\ offered' = offered
        BY <1>3 DEF TypeOK
      <3>2. CASE d # c
        BY <2>1, <2>5, <3>1, <3>2 DEF ClaimedFor
      <3>3. CASE d = c
        <4>1. registry[c] # NoKey /\ registry'[c] = registry[c] /\ profile[c] # NoKey
          BY <2>1, <3>3 DEF Registered
        <4>2. profile[c] = p \/ registry[c] = profile[c]
          BY <1>3, <2>1, <2>3, <4>1, IdAssumption DEF Registered
        <4> QED
          BY <2>1, <2>5, <3>1, <3>3, <4>1, <4>2 DEF ClaimedFor
      <3> QED
        BY <3>2, <3>3
    <2>6. ASSUME NEW d \in heard, OnTheList(d)
          PROVE  OnTheList(d)'
      <3>1. registry'[d] = registry[d]
        BY <2>1 DEF Registered, TypeOK
      <3> QED
        BY <1>3, <2>3, <2>6, <3>1 DEF OnTheList
    <2>7. HandOver'
      BY <1>3, <2>5, <2>6 DEF HandOver, OffersOpen
    <2> QED
      BY <2>4, <2>7
  <1>4. CASE ReadHello(c)
    <2>1. PICK id \in helloIds[c] :
            /\ profile' = [profile EXCEPT ![c] = ProfileAfterHello(c, id)]
            /\ Register(c, ProfileAfterHello(c, id))
      BY <1>4 DEF ReadHello
    <2> DEFINE p == ProfileAfterHello(c, id)
    <2>2. /\ p \in Key
          /\ p = profile[c] \/ profile[c] = NoKey \/ p \in helloIds[c]
      BY FunctionAssumption DEF ProfileAfterHello, TypeOK
    <2> HIDE DEF p
    <2>3. profile' = [profile EXCEPT ![c] = p] /\ Register(c, p)
      BY <2>1 DEF p
    <2> QED
      BY <1>3, <1>4, <2>2, <2>3 DEF ReadHello
  <1>5. CASE ReadState(c)
    <2> DEFINE p == IF profile[c] = NoKey THEN relayKey[c] ELSE profile[c]
    <2>1. p \in Key /\ (p = profile[c] \/ profile[c] = NoKey)
      BY FunctionAssumption DEF TypeOK
    <2>2. profile' = [profile EXCEPT ![c] = p] /\ Register(c, p)
      BY <1>5 DEF ReadState
    <2> HIDE DEF p
    <2> QED
      BY <1>3, <1>5, <2>1, <2>2 DEF ReadState
  <1> QED
    BY <1>1, <1>2, <1>4, <1>5

\* Claims only grow, so whoever is claimed for stays so while known by the
\* same keys.
LEMMA WorkKeepsRegistered ==
    ASSUME TypeOK, Registered, HandOver, NEW c \in Conn,
           pc[c] # "closed", pc'[c] # "closed",
           \A a \in Actor : a # c => pc'[a] = pc[a],
           offered \subseteq offered',
           heard' = heard \/ (heard' = heard \cup {c} /\ registry[c] # NoKey
                              /\ (OffersOpen /\ snapshot_id # NoSnapshot => ClaimedFor(c)')),
           UNCHANGED <<selection, awaiting, snapshot_id, registry, profile, targets>>
    PROVE  Registered' /\ HandOver'
  <1>1. pc'[UI] = pc[UI]
    BY ConnAssumption DEF Actor
  <1>2. Registered'
    BY DEF Registered, Actor
  <1>3. \A d \in Conn : ClaimedFor(d) => ClaimedFor(d)'
    BY DEF ClaimedFor
  <1>4. \A d \in Conn : OnTheList(d) => OnTheList(d)'
    BY <1>1 DEF OnTheList
  <1>5. heard \subseteq Conn
    BY DEF TypeOK
  <1>6. HandOver'
    BY <1>3, <1>4, <1>5 DEF HandOver, OffersOpen
  <1> QED
    BY <1>2, <1>6

\* A thread that ends unregisters its connection.
LEMMA EndKeepsRegistered ==
    ASSUME TypeOK, Registered, HandOver, NEW c \in Conn, EndThread(c),
           UNCHANGED <<pendingVars, profile>>
    PROVE  Registered' /\ HandOver'
  <1>0. UI \in Actor /\ c \in Actor /\ UI # c /\ Conn \subseteq Actor
    BY ConnAssumption DEF Actor
  <1>1. /\ registry' = [registry EXCEPT ![c] = NoKey]
        /\ pc' = [pc EXCEPT ![c] = "closed"]
        /\ heard' = heard \ {c}
        /\ targets' = Unplug(c, targets)
    BY DEF EndThread
  <1>2. Registered'
    BY <1>0, <1>1 DEF Registered, TypeOK
  <1>3. \A t \in targets : \E u \in targets' : u.key = t.key
    <2> DEFINE U(t) == [conn |-> IF t.conn = c THEN NoConn ELSE t.conn, key |-> t.key]
    <2>1. \A t \in targets : U(t) \in targets'
      BY <1>1 DEF Unplug
    <2>2. \A t \in targets : U(t).key = t.key
      OBVIOUS
    <2> HIDE DEF U
    <2> QED
      BY <2>1, <2>2
  <1>4. \A d \in heard' : d \in heard /\ d \in Conn /\ registry'[d] = registry[d] /\ pc'[UI] = pc[UI]
    BY <1>0, <1>1 DEF TypeOK
  <1>5. \A d \in heard' : (ClaimedFor(d) => ClaimedFor(d)') /\ (OnTheList(d) => OnTheList(d)')
    BY <1>3, <1>4 DEF ClaimedFor, OnTheList, pendingVars
  <1>6. HandOver'
    BY <1>4, <1>5 DEF HandOver, OffersOpen, pendingVars
  <1> QED
    BY <1>2, <1>6

\* The threads of connections keep registration and hand-over.
LEMMA ConnKeepsRegistered ==
    ASSUME TypeOK, KnownAtHello, Registered, HandOver, NEW c \in Conn, ConnNext(c)
    PROVE  Registered' /\ HandOver'
  <1> USE DEF pendingVars, settings, uiVars, obsVars, connVars, workVars
  <1>0. c \in Actor
    BY DEF Actor
  <1>1. CASE Connect(c) \/ ReadHello(c) \/ ReadState(c) \/ PeerGone(c)
    BY <1>1, ReadKeepsRegistered
  <1>2. CASE ClaimForHello(c)
    <2> DEFINE k == <<browserOf[c], profile[c]>>
    <2>1. ClaimStep(c, k) /\ pc[c] = "hello" /\ heard' = heard \cup {c}
      BY <1>2 DEF ClaimForHello
    <2>2. registry[c] # NoKey
      BY <2>1 DEF Registered, KnownAtHello
    <2>3. offered \subseteq offered' /\ (OffersOpen /\ snapshot_id # NoSnapshot => k \in offered')
      BY <2>1 DEF ClaimStep, Claimable
    <2>4. pc'[c] # "closed" /\ \A a \in Actor : a # c => pc'[a] = pc[a]
      BY <1>0, <2>1 DEF ClaimStep, TypeOK
    <2>5. UNCHANGED <<selection, awaiting, snapshot_id, registry, profile, targets>>
      BY <1>2 DEF ClaimForHello
    <2>6. OffersOpen /\ snapshot_id # NoSnapshot => ClaimedFor(c)'
      BY <2>3, <2>5 DEF ClaimedFor
    <2> QED
      BY <2>1, <2>2, <2>3, <2>4, <2>5, <2>6, WorkKeepsRegistered
  <1>3. CASE BuildOffer(c)
    <2>1. pc[c] # "closed" /\ pc'[c] # "closed" /\ \A a \in Actor : a # c => pc'[a] = pc[a]
      BY <1>0, <1>3 DEF BuildOffer, TypeOK
    <2> QED
      BY <1>3, <2>1, WorkKeepsRegistered DEF BuildOffer
  <1>4. CASE WriteReplies(c)
    <2>1. CASE EndThread(c)
      BY <1>4, <2>1, EndKeepsRegistered DEF WriteReplies
    <2>2. CASE ~EndThread(c)
      <3>1. pc[c] # "closed" /\ pc'[c] # "closed" /\ \A a \in Actor : a # c => pc'[a] = pc[a]
        BY <1>0, <1>4, <2>2 DEF WriteReplies, TypeOK
      <3> QED
        BY <1>4, <2>2, <3>1, WorkKeepsRegistered DEF WriteReplies
    <2> QED
      BY <2>1, <2>2
  <1>5. CASE ReadClosed(c)
    BY <1>5, EndKeepsRegistered DEF ReadClosed
  <1> QED
    BY <1>1, <1>2, <1>3, <1>4, <1>5 DEF ConnNext, ThreadStep

\* A step of the UI thread that serves or ends its list.
LEMMA UiKeepsHandOver ==
    ASSUME TypeOK, Registered, HandOver, UiStep
    PROVE  HandOver'
  <1> USE DEF pendingVars, settings, uiVars, obsVars, connVars, workVars
  <1>0. UI \in Actor /\ heard \subseteq Conn
    BY DEF Actor, TypeOK
  <1>1. CASE StartUi \/ TurnOff \/ OffersDone
    <2>1. UNCHANGED <<pendingVars, connVars, targets, heard>>
      BY <1>1 DEF StartUi, TurnOff, OffersDone
    <2>2. \A c \in heard : ~OnTheList(c)
      BY <1>1 DEF StartUi, TurnOff, OffersDone, OnTheList
    <2>3. \A c \in heard : ClaimedFor(c) => ClaimedFor(c)'
      BY <2>1 DEF ClaimedFor
    <2> QED
      BY <2>1, <2>2, <2>3 DEF HandOver, OffersOpen
  <1>2. CASE TakeTargets
    <2>1. ASSUME NEW c \in heard
          PROVE  OnTheList(c)'
      <3>1. c \in Conn /\ registry[c] # NoKey
        BY <1>0 DEF Registered
      <3>2. [conn |-> c, key |-> <<browserOf[c], registry[c]>>] \in targets'
        BY <1>2, <3>1 DEF TakeTargets
      <3>3. \E t \in targets' : t.key = <<browserOf[c], registry[c]>>
        BY <3>2
      <3>4. pc'[UI] = "offer" /\ registry' = registry
        BY <1>0, <1>2 DEF TakeTargets, TypeOK
      <3> QED
        BY <3>3, <3>4 DEF OnTheList
    <2> QED
      BY <1>2, <2>1 DEF HandOver, TakeTargets
  <1>3. CASE ClaimForTarget
    <2>1. PICK t \in targets : ClaimStep(UI, t.key) /\ targets' = targets \ {t}
      BY <1>3 DEF ClaimForTarget
    <2>2. pc[UI] = "offer" /\ pc'[UI] \in {"build", "write"}
      BY <1>0, <1>3, <2>1 DEF ClaimForTarget, ClaimStep, TypeOK
    <2>3. UNCHANGED <<selection, awaiting, snapshot_id, registry, profile, heard>>
      BY <1>3 DEF ClaimForTarget
    <2>4. offered \subseteq offered' /\ (OffersOpen /\ snapshot_id # NoSnapshot => t.key \in offered')
      BY <2>1 DEF ClaimStep, Claimable
    <2>5. ASSUME OffersOpen, snapshot_id # NoSnapshot, NEW c \in heard
          PROVE  ClaimedFor(c)' \/ OnTheList(c)'
      <3>1. CASE ClaimedFor(c)
        BY <2>3, <2>4, <3>1 DEF ClaimedFor
      <3>2. CASE OnTheList(c)
        <4>1. PICK u \in targets : u.key = <<browserOf[c], registry[c]>>
          BY <2>2, <3>2 DEF OnTheList
        <4>2. CASE u = t
          BY <2>3, <2>4, <2>5, <4>1, <4>2 DEF ClaimedFor
        <4>3. CASE u # t
          BY <2>1, <2>2, <2>3, <4>1, <4>3 DEF OnTheList
        <4> QED
          BY <4>2, <4>3
      <3> QED
        BY <2>5, <3>1, <3>2 DEF HandOver
    <2> QED
      BY <2>3, <2>5 DEF HandOver, OffersOpen
  <1>4. CASE BuildOffer(UI) \/ WriteToTarget
    <2>1. UNCHANGED <<pendingVars, connVars, targets, heard>>
      BY <1>4 DEF BuildOffer, WriteToTarget
    <2>2. pc[UI] \in {"build", "write"} /\ pc'[UI] \in {"write", "offer"}
      BY <1>0, <1>4 DEF BuildOffer, WriteToTarget, TypeOK
    <2>3. \A c \in heard : (ClaimedFor(c) => ClaimedFor(c)') /\ (OnTheList(c) => OnTheList(c)')
      BY <2>1, <2>2 DEF ClaimedFor, OnTheList
    <2> QED
      BY <2>1, <2>3 DEF HandOver, OffersOpen
  <1> QED
    BY <1>1, <1>2, <1>3, <1>4 DEF UiStep

\* No act of the user loses a connection that waits.
LEMMA UserKeepsHandOver ==
    ASSUME TypeOK, HandOver, UserNext
    PROVE  HandOver'
  <1> USE DEF pendingVars, settings, uiVars, obsVars, connVars, workVars
  <1>0. UI \in Actor
    BY DEF Actor
  <1>1. CASE TrayRestore \/ SetRestoreMode
    BY <1>1 DEF TrayRestore, SetRestoreMode, HandOver, OffersOpen, ClaimedFor, OnTheList
  <1>2. CASE Confirm \/ Dismiss
    <2>1. pc'[UI] = "targets"
      BY <1>0, <1>2 DEF Confirm, Dismiss, TypeOK
    <2> QED
      BY <2>1 DEF HandOver, OnTheList
  <1>3. CASE Refuse
    <2>1. selection' = {Refusal} /\ Refusal.declined
      BY <1>3 DEF Refuse, SetSelection, Refusal
    <2>2. ~OffersOpen'
      BY <2>1 DEF OffersOpen
    <2> QED
      BY <2>2 DEF HandOver
  <1> QED
    BY <1>1, <1>2, <1>3 DEF UserNext

\* Neither the UI thread nor the user touches the registry.
LEMMA UiKeepsRegistered ==
    ASSUME TypeOK, Registered, UiStep \/ UserNext
    PROVE  Registered'
  <1> USE DEF pendingVars, settings, uiVars, obsVars, connVars, workVars
  <1>1. UNCHANGED <<registry, profile, heard>>
    BY DEF UiStep, StartUi, TurnOff, TakeTargets, ClaimForTarget, BuildOffer, WriteToTarget,
       OffersDone, UserNext, TrayRestore, Confirm, Refuse, Dismiss, SetRestoreMode
  <1>2. \A c \in Conn : c \in Actor /\ c # UI
    BY ConnAssumption DEF Actor
  <1>3. \A c \in Conn : pc'[c] = pc[c]
    BY <1>2 DEF TypeOK, UiStep, StartUi, TurnOff, TakeTargets, ClaimForTarget, ClaimStep, BuildOffer,
       WriteToTarget, OffersDone, UserNext, TrayRestore, Confirm, Refuse, Dismiss, SetRestoreMode
  <1> QED
    BY <1>1, <1>3 DEF Registered

\* Registration and hand-over hold in every reachable state.
LEMMA HandOverInvariant == Spec => [](Registered /\ HandOver)
  <1>1. Init => Registered /\ HandOver
    BY ConnAssumption DEF Init, Registered, HandOver, Actor
  <1>2. TypeOK /\ KnownAtHello /\ Registered /\ HandOver /\ [Next]_vars => Registered' /\ HandOver'
    <2>1. Registered /\ HandOver /\ UNCHANGED vars => Registered' /\ HandOver'
      BY DEF vars, pendingVars, connVars, workVars, uiVars, obsVars, Registered, HandOver, OffersOpen,
         ClaimedFor, OnTheList
    <2> QED
      BY <2>1, ConnKeepsRegistered, UiKeepsHandOver, UserKeepsHandOver, UiKeepsRegistered DEF Next
  <1> QED
    BY <1>1, <1>2, TypeInvariant, PTL DEF Spec

\* A hello that is turned away while the user is being asked is not forgotten:
\* once offers are open and the UI thread is idle, a claim has been made for
\* every live connection that ever said hello, in whatever order the hello, the
\* answer and the copy of the registry fell.
THEOREM NobodyForgotten == Spec => []NoForgottenConnection
  <1>1. HandOver => NoForgottenConnection
    BY DEF HandOver, NoForgottenConnection, OnTheList
  <1> QED
    BY <1>1, HandOverInvariant, PTL

-----------------------------------------------------------------------------
(* The threads implement the abstract policy.                              *)

\* A claim, granted or refused, is a step of the policy or a stutter.
LEMMA ClaimImplementsGive ==
    ASSUME NEW a, NEW k \in ClaimKey, ClaimStep(a, k), UNCHANGED <<selection, awaiting>>
    PROVE  [Policy!Next]_(Policy!vars)
  <1>1. CASE ~Claimable(k)
    BY <1>1 DEF ClaimStep, Policy!vars
  <1>2. CASE Claimable(k)
    BY <1>2 DEF ClaimStep, Claimable, OffersOpen, Policy!Next, Policy!Give
  <1> QED
    BY <1>1, <1>2

\* An answer is the policy's decision.
LEMMA AnswerImplementsDecide ==
    ASSUME NEW choice, SetSelection(choice), UNCHANGED offered
    PROVE  [Policy!Next]_(Policy!vars)
  BY DEF SetSelection, Policy!Next, Policy!Decide

\* A step that leaves claims and answers alone is a stutter of the policy.
LEMMA OthersStutter ==
    ASSUME UNCHANGED <<offered, selection, awaiting>>
    PROVE  [Policy!Next]_(Policy!vars)
  BY DEF Policy!vars

\* Every step is one of the policy.
LEMMA NextImplementsPolicy ==
    ASSUME TypeOK, KnownAtHello, [Next]_vars
    PROVE  [Policy!Next]_(Policy!vars)
  <1> USE DEF pendingVars, settings, uiVars, obsVars, connVars, workVars
  <1>1. ASSUME NEW c \in Conn, ClaimForHello(c)
        PROVE  [Policy!Next]_(Policy!vars)
    <2>1. <<browserOf[c], profile[c]>> \in ClaimKey
      BY <1>1, FunctionAssumption DEF TypeOK, ClaimKey, KnownAtHello, ClaimForHello
    <2> QED
      BY <1>1, <2>1, ClaimImplementsGive DEF ClaimForHello
  <1>2. CASE ClaimForTarget
    <2>1. PICK t \in targets : ClaimStep(UI, t.key)
      BY <1>2 DEF ClaimForTarget
    <2>2. t.key \in ClaimKey
      BY DEF TypeOK, Target
    <2> QED
      BY <1>2, <2>1, <2>2, ClaimImplementsGive DEF ClaimForTarget
  <1>3. CASE Confirm \/ Refuse \/ Dismiss
    <2>1. UNCHANGED offered /\ \E choice : SetSelection(choice)
      BY <1>3 DEF Confirm, Refuse, Dismiss
    <2> QED
      BY <2>1, AnswerImplementsDecide
  <1>4. ASSUME NEW c \in Conn,
               \/ Connect(c) \/ ReadHello(c) \/ ReadState(c) \/ PeerGone(c)
               \/ BuildOffer(c) \/ WriteReplies(c) \/ ReadClosed(c)
        PROVE  [Policy!Next]_(Policy!vars)
    BY <1>4, OthersStutter DEF Connect, ReadHello, ReadState, PeerGone, BuildOffer, WriteReplies,
       ReadClosed
  <1>5. CASE \/ StartUi \/ TurnOff \/ TakeTargets \/ BuildOffer(UI) \/ WriteToTarget \/ OffersDone
             \/ TrayRestore \/ SetRestoreMode \/ UNCHANGED vars
    BY <1>5, OthersStutter DEF StartUi, TurnOff, TakeTargets, BuildOffer, WriteToTarget, OffersDone,
       TrayRestore, SetRestoreMode, vars
  <1> QED
    BY <1>1, <1>2, <1>3, <1>4, <1>5 DEF Next, ConnNext, ThreadStep, UiStep, UserNext

\* All the threads together keep the policy's promise: a key is given at most
\* once, only while offers are open, and never while the first answer is due.
THEOREM ImplementsPolicy == Spec => PolicySpec
  <1>1. Init => Policy!Init
    <2> SUFFICES ASSUME Init PROVE Policy!Init
      OBVIOUS
    <2>1. selection = {} /\ offered = {}
      BY DEF Init
    <2> QED
      BY <2>1 DEF Policy!Init
  <1> QED
    BY <1>1, NextImplementsPolicy, TypeInvariant, PTL DEF Spec, PolicySpec, Policy!Spec
=============================================================================
