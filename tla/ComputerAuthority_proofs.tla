---------------------- MODULE ComputerAuthority_proofs ----------------------
(***************************************************************************)
(* Proofs about ComputerAuthority, for any requests, connections and       *)
(* shares, and any bound on the retired ones.                              *)
(*                                                                         *)
(* Every step is one of a few kinds: what it does to the published state   *)
(* (PublicStep), to the sessions (SessionStep) and to the requests         *)
(* (ControlStep).  The invariant is preserved by the kinds, and each       *)
(* action is shown to be of them.                                          *)
(***************************************************************************)
EXTENDS ComputerAuthority, FiniteSetTheorems, TLAPS

USE GateAssumption, SentinelAssumption, PublicAssumption

\* h is g after some of its shares were retired: nothing is forgotten, and
\* what is no longer approved is retired, unless there was no room for it.
Retires(g, h) ==
  /\ h \in Gates /\ h.session = g.session
  /\ g.retired \subseteq h.retired
  /\ g.saturated => h.saturated
  /\ g.approved \in {NoShare, h.approved} \cup h.retired \/ h.saturated

\* Retiring one more share.
LEMMA RetireFacts ==
  ASSUME NEW g \in Gates, NEW s \in Shares
  PROVE  /\ Retires(g, Retire(g, s))
         /\ Retire(g, s).approved = g.approved
         /\ Retire(g, s).recovered = g.recovered
         /\ s \in Retire(g, s).retired \cup {NoShare} \/ Retire(g, s).saturated
<1> DEFINE full == [g EXCEPT !.saturated = TRUE]
           more == [g EXCEPT !.retired = g.retired \cup {s}]
           Sets == {S \in SUBSET Share : IsFiniteSet(S) /\ Cardinality(S) <= MaxRetired}
<1>0. /\ g.session \in Conn /\ g.recovered \in BOOLEAN /\ g.approved \in Shares
      /\ g.retired \in Sets /\ g.saturated \in BOOLEAN
  BY DEF Gates
<1>1. CASE s = NoShare \/ s \in g.retired
  BY <1>1 DEF Retires, Retire
<1>2. CASE ~(s = NoShare \/ s \in g.retired) /\ Cardinality(g.retired) >= MaxRetired
  <2>1. full \in Gates
    BY Zenon DEF Gates
  <2>2. /\ full.session = g.session /\ full.approved = g.approved
        /\ full.recovered = g.recovered /\ full.retired = g.retired /\ full.saturated
    BY DEF Gates
  <2>3. Retire(g, s) = full
    BY <1>2 DEF Retire
  <2> QED BY <2>1, <2>2, <2>3 DEF Retires
<1>3. CASE ~(s = NoShare \/ s \in g.retired) /\ ~(Cardinality(g.retired) >= MaxRetired)
  <2>1. /\ IsFiniteSet(g.retired) /\ Cardinality(g.retired) <= MaxRetired
        /\ g.retired \subseteq Share /\ s \in Share /\ s \notin g.retired
    BY <1>0, <1>3 DEF Shares
  <2>2. /\ IsFiniteSet(g.retired \cup {s})
        /\ Cardinality(g.retired \cup {s}) = Cardinality(g.retired) + 1
    BY <2>1, FS_AddElement
  <2>3. g.retired \cup {s} \in Sets
    <3>1. Cardinality(g.retired) \in Nat
      BY <2>1, FS_CardinalityType
    <3> QED BY <2>1, <2>2, <3>1, <1>3
  <2>4. more \in Gates
    BY <2>3, Zenon DEF Gates
  <2>5. /\ more.session = g.session /\ more.approved = g.approved
        /\ more.recovered = g.recovered /\ more.retired = g.retired \cup {s}
        /\ more.saturated = g.saturated
    BY DEF Gates
  <2>6. Retire(g, s) = more
    BY <1>3 DEF Retire
  <2> QED BY <2>4, <2>5, <2>6 DEF Retires
<1> QED BY <1>1, <1>2, <1>3

\* A share is stopped, and with it the session's authority.
LEMMA StopFacts ==
  ASSUME NEW g \in Gates
  PROVE  /\ Retires(g, NoteStopped(g))
         /\ NoteStopped(g).approved = NoShare
         /\ ~NoteStopped(g).recovered
<1> DEFINE h == Retire(g, g.approved)
           n == [h EXCEPT !.approved = NoShare, !.recovered = FALSE]
<1>1. g.approved \in Shares
  BY DEF Gates
<1>2. /\ Retires(g, h) /\ h.approved = g.approved
      /\ g.approved \in h.retired \cup {NoShare} \/ h.saturated
  BY <1>1, RetireFacts
<1>3. h \in Gates
  BY <1>2 DEF Retires
<1> HIDE DEF h
<1>4. n \in Gates
  BY <1>3, Zenon DEF Gates, Shares
<1>5. /\ n.session = h.session /\ n.approved = NoShare /\ n.recovered = FALSE
      /\ n.retired = h.retired /\ n.saturated = h.saturated
  BY <1>3 DEF Gates
<1>6. NoteStopped(g) = n
  BY DEF NoteStopped, h
<1> QED BY <1>2, <1>4, <1>5, <1>6 DEF Retires

\* Another revocation.
LEMMA RevokeFacts ==
  ASSUME NEW g \in Gates, NEW s \in Shares
  PROVE  /\ Retires(g, RevokeAgain(g, s))
         /\ RevokeAgain(g, s).approved = NoShare
         /\ ~RevokeAgain(g, s).recovered
<1> DEFINE n == NoteStopped(g)
<1>1. Retires(g, n) /\ n.approved = NoShare /\ ~n.recovered
  BY StopFacts
<1>2. n \in Gates
  BY <1>1 DEF Retires
<1>3. Retires(n, Retire(n, s)) /\ Retire(n, s).approved = NoShare /\ ~Retire(n, s).recovered
  BY <1>1, <1>2, RetireFacts
<1>4. RevokeAgain(g, s) = Retire(n, s)
  BY DEF RevokeAgain
<1> HIDE DEF n
<1>5. Retires(g, Retire(n, s))
  BY <1>1, <1>3 DEF Retires
<1> QED BY <1>3, <1>4, <1>5

\* An approval takes the place of the one before it.
LEMMA ApproveFacts ==
  ASSUME NEW g \in Gates, NEW s \in Share
  PROVE  /\ Retires(g, Approve(g, s))
         /\ Approve(g, s).approved = s
         /\ Approve(g, s).recovered
<1> DEFINE h == Retire(g, g.approved)
           n == [h EXCEPT !.approved = s, !.recovered = TRUE]
<1>1. g.approved \in Shares /\ s \in Shares
  BY DEF Gates, Shares
<1>2. /\ Retires(g, h) /\ h.approved = g.approved
      /\ g.approved \in h.retired \cup {NoShare} \/ h.saturated
  BY <1>1, RetireFacts
<1>3. h \in Gates
  BY <1>2 DEF Retires
<1> HIDE DEF h
<1>4. n \in Gates
  BY <1>1, <1>3, Zenon DEF Gates
<1>5. /\ n.session = h.session /\ n.approved = s /\ n.recovered
      /\ n.retired = h.retired /\ n.saturated = h.saturated
  BY <1>3 DEF Gates
<1>6. Approve(g, s) = n
  BY DEF Approve, h
<1> QED BY <1>2, <1>4, <1>5, <1>6 DEF Retires

\* A new gate.
LEMMA NewFacts ==
  ASSUME NEW c \in Conn, NEW s \in Shares
  PROVE  /\ NewGate(c, s) \in Gates /\ NewGate(c, s).session = c
         /\ NewGate(c, s).approved = NoShare /\ ~NewGate(c, s).recovered
<1> DEFINE P == {s} \ {NoShare}
<1>1. P \subseteq Share
  BY DEF Shares
<1>2. IsFiniteSet(P) /\ Cardinality(P) \in {0, 1}
  <2>1. CASE s = NoShare
    <3>1. P = {}
      BY <2>1
    <3>2. IsFiniteSet({}) /\ Cardinality({}) = 0
      BY FS_EmptySet
    <3> QED BY <3>1, <3>2
  <2>2. CASE s # NoShare
    <3>1. P = {s}
      BY <2>2
    <3>2. IsFiniteSet({s}) /\ Cardinality({s}) = 1
      BY FS_Singleton
    <3> QED BY <3>1, <3>2
  <2> QED BY <2>1, <2>2
<1>3. P \in {S \in SUBSET Share : IsFiniteSet(S) /\ Cardinality(S) <= MaxRetired}
  BY <1>1, <1>2
<1>4. NewGate(c, s) \in Gates
  BY <1>3, Zenon DEF NewGate, Gates, Shares
<1> QED BY <1>4 DEF NewGate

-----------------------------------------------------------------------------
(* The inductive invariant.                                                *)

HubType ==
  /\ current \in Conn \cup {NoConn}
  /\ phase \in [Conn -> {"new", "greeting", "marked", "open", "left"}]
  /\ waiting \subseteq Call /\ cancels \subseteq Call
  /\ answer \in [Call -> Answers]

PublicType ==
  /\ computer \in Computers \cup {NoComputer}
  /\ screen \in Screens \cup {NoScreen}
  /\ gate \in Gates \cup {NoGate}

ActionType ==
  /\ pc \in [Request -> {"idle", "admitted", "calling", "returned", "pausing", "observing",
                         "observed", "committed", "awaiting", "ending", "ended",
                         "gone"}]
  /\ method \in [Request -> Methods]
  /\ target \in [Request -> Conn \cup {NoConn}]
  /\ armed \subseteq Request /\ canceled \subseteq Request /\ unsettled \subseteq Request

TaskType ==
  /\ cleanup \in [Request -> {"none", "spawned", "stopping", "done"}]
  /\ clearing \subseteq Conn

HelperType ==
  /\ inbox \in [Conn -> Seq([call : Call, method : Methods])]
  /\ outbox \in [Conn -> Seq(Messages)]
  /\ capture \in [Conn -> Shares]
  /\ drawn \subseteq Share

HistoryType == withdrawn \subseteq Conn \X Share /\ suspect \subseteq Conn

\* TypeOK in parts.
LEMMA TypeParts ==
  TypeOK <=> HubType /\ PublicType /\ ActionType /\ TaskType /\ HelperType /\ HistoryType
  BY DEF TypeOK, HubType, PublicType, ActionType, TaskType, HelperType, HistoryType

\* The published helper has said hello and is the current one, or none is; a
\* helper that has said hello and is current is published; the state of a
\* session is cleared late only when it is not current, and it does not return.
Published == {"open", "left"}

Sessions ==
  /\ current # NoConn => phase[current] # "new"
  /\ computer # NoComputer => phase[computer.session] \in Published
  /\ computer # NoComputer /\ current # NoConn => computer.session = current
  /\ current # NoConn /\ phase[current] = "open" => computer # NoComputer
  /\ \A c \in clearing : phase[c] # "new" /\ current # c

\* A request that was admitted is for a session that was published, and only
\* such a request has a guard, a settlement or a cleanup.
Targets ==
  \A r \in Request :
    /\ pc[r] # "idle" => target[r] \in Conn /\ phase[target[r]] \in Published
    /\ r \in armed \cup unsettled \/ cleanup[r] # "none" => pc[r] # "idle"

Shape == TypeOK /\ Sessions /\ Targets

\* An approval that ended is retired in its session's gate, if the gate has room;
\* without a gate the session is over.
Final ==
  \A c \in Conn, s \in Share : <<c, s>> \in withdrawn =>
    /\ phase[c] \in Published
    /\ Gated(c) => s \in gate.retired \/ gate.saturated
    /\ ~Gated(c) => ~SessionIs(c)

Public == GateIsOfHelper /\ DisplayIsAuthorized /\ ActiveIsApproved /\ Final /\ NeverReapproved

Inv == Shape /\ Public

-----------------------------------------------------------------------------
(* The kinds of steps: what they do to the public state, to the sessions,   *)
(* and to the requests.                                                    *)

Keeps  == UNCHANGED publicVars
Clears == ClearPublicState

\* A helper is published for the first time.
Publishes ==
  \E c \in Conn, status \in Statuses :
    /\ phase[c] = "marked"
    /\ computer = NoComputer /\ computer' = [session |-> c, share |-> status]
    /\ screen' = screen /\ gate' = NoGate

\* The session loses what it showed and what was approved.
Withdraws ==
  /\ computer # NoComputer
  /\ \E status \in Statuses : status.kind # "active" /\ computer' = WithStatus(status)
  /\ screen' = NoScreen
  /\ \/ gate' = gate /\ ~Gated(computer.session)
     \/ /\ gate' \in Gates /\ gate'.session = computer.session /\ gate'.approved = NoShare
        /\ Gated(computer.session) => Retires(gate, gate')

\* A share is approved.
Approves ==
  \E c \in Conn, s \in Share :
    /\ SessionIs(c)
    /\ StartVerdict(StartGate(c), s) = "Allowed"
    /\ gate' = Approve(StartGate(c), s)
    /\ computer' = WithStatus(Reported(s))
    /\ screen' = NoScreen

\* A frame of the approved share is displayed.
Shows ==
  \E c \in Conn, s \in Share :
    /\ SessionIs(c) /\ FrameAllowed(c, s)
    /\ gate' = gate
    /\ computer' = WithStatus(Reported(s))
    /\ screen' = [from |-> c, share |-> s]

\* An observation is displayed, and recovers the session.
Observes ==
  \E c \in Conn :
    /\ SessionIs(c)
    /\ computer' = computer
    /\ gate' = IF Gated(c) THEN [gate EXCEPT !.recovered = TRUE] ELSE gate
    /\ screen' = [from |-> c, share |-> NoShare]

\* A status is believed.
Describes ==
  /\ computer # NoComputer /\ ~Gated(computer.session)
  /\ \E status \in Statuses : computer' = WithStatus(status)
  /\ UNCHANGED <<screen, gate>>

SameHelper ==
  /\ computer' = NoComputer <=> computer = NoComputer
  /\ computer # NoComputer => computer'.session = computer.session

PublicStep ==
  Keeps \/ Clears \/ Publishes \/ Withdraws \/ Approves \/ Shows \/ Observes \/ Describes

Steady ==
  /\ UNCHANGED <<current, phase>> /\ clearing' \subseteq clearing
  /\ SameHelper \/ (current = NoConn /\ computer' = NoComputer)

Closes ==
  /\ current # NoConn /\ current' = NoConn /\ phase' = phase
  /\ clearing' \subseteq clearing \cup {current}
  /\ SameHelper \/ computer' = NoComputer

\* The handler of c advances.
Advances(c) ==
  /\ clearing' = clearing
  /\ \/ /\ phase[c] = "new" /\ phase' = [phase EXCEPT ![c] = "greeting"]
        /\ current' = c /\ computer' = NoComputer
     \/ /\ phase[c] = "greeting" /\ phase' = [phase EXCEPT ![c] = "marked"]
        /\ current' = current /\ SameHelper
     \/ /\ phase[c] = "marked" /\ phase' = [phase EXCEPT ![c] = "open"]
        /\ current = c /\ current' = c
        /\ computer' # NoComputer /\ computer'.session = c
     \/ /\ phase[c] = "marked" /\ phase' = [phase EXCEPT ![c] = "greeting"]
        /\ current' = current /\ SameHelper
     \/ /\ phase[c] \in {"greeting", "open"} /\ phase' = [phase EXCEPT ![c] = "left"]
        /\ current = c /\ current' = NoConn /\ computer' = NoComputer
     \/ /\ phase[c] \in {"greeting", "open"} /\ phase' = [phase EXCEPT ![c] = "left"]
        /\ current # c /\ current' = current /\ SameHelper

SessionStep == Steady \/ Closes \/ \E c \in Conn : Advances(c)

ControlStep ==
  \A r \in Request :
    /\ pc[r] # "idle" => pc'[r] # "idle" /\ target'[r] = target[r]
    /\ pc[r] = "idle" /\ pc'[r] # "idle" => SessionIs(target'[r])
    /\ r \in armed' \cup unsettled' \/ cleanup'[r] # "none" => pc'[r] # "idle"

Kinds == PublicStep /\ SessionStep /\ ControlStep

-----------------------------------------------------------------------------
(* What the kinds of steps preserve.                                       *)

\* A helper keeps its session when its share gets another status.
LEMMA StatusFacts ==
  ASSUME computer \in Computers, NEW status \in Statuses
  PROVE  /\ WithStatus(status) \in Computers
         /\ WithStatus(status).session = computer.session
         /\ WithStatus(status).share = status
<1>1. computer # NoComputer
  OBVIOUS
<1>2. [computer EXCEPT !.share = status] \in Computers
  BY Zenon DEF Computers
<1>3. /\ [computer EXCEPT !.share = status].session = computer.session
      /\ [computer EXCEPT !.share = status].share = status
  BY DEF Computers
<1> QED BY <1>1, <1>2, <1>3 DEF WithStatus

\* The status a reported share is published with.
LEMMA ReportedType ==
  ASSUME NEW s \in Shares
  PROVE  /\ Reported(s) \in Statuses /\ Reported(s).share = s
         /\ Reported(s).kind = IF s = NoShare THEN "inactive" ELSE "active"
  BY DEF Reported, Status, Statuses, Shares

\* The gate of a session in which a share may be started.
LEMMA StartGateFacts ==
  ASSUME PublicType, NEW c \in Conn
  PROVE  /\ StartGate(c) \in Gates /\ StartGate(c).session = c
         /\ Gated(c) => StartGate(c) = gate
<1>1. NoShare \in Shares
  BY DEF Shares
<1>2. NewGate(c, NoShare) \in Gates /\ NewGate(c, NoShare).session = c
  BY <1>1, NewFacts
<1> QED BY <1>2 DEF StartGate, Gated, PublicType

\* Recovery changes nothing else.
LEMMA RecoverFacts ==
  ASSUME NEW g \in Gates, NEW h, h = [g EXCEPT !.recovered = TRUE]
  PROVE  /\ h \in Gates /\ h.recovered
         /\ h.session = g.session /\ h.approved = g.approved
         /\ h.retired = g.retired /\ h.saturated = g.saturated
<1>1. [g EXCEPT !.recovered = TRUE] \in Gates
  BY Zenon DEF Gates
<1>2. /\ [g EXCEPT !.recovered = TRUE].recovered
      /\ [g EXCEPT !.recovered = TRUE].session = g.session
      /\ [g EXCEPT !.recovered = TRUE].approved = g.approved
      /\ [g EXCEPT !.recovered = TRUE].retired = g.retired
      /\ [g EXCEPT !.recovered = TRUE].saturated = g.saturated
  BY DEF Gates
<1> QED BY <1>1, <1>2

\* The session of the gate and of the helper, and the shares of a gate.
LEMMA PublicFacts ==
  ASSUME PublicType
  PROVE  /\ computer # NoComputer => computer \in Computers /\ computer.session \in Conn
                                      /\ computer.share \in Statuses
         /\ gate # NoGate => gate \in Gates /\ gate.session \in Conn /\ gate.approved \in Shares
         /\ screen # NoScreen => screen \in Screens /\ screen.from \in Conn /\ screen.share \in Shares
  BY DEF PublicType, Computers, Gates, Screens

\* Every kind of step keeps the public state well typed.
LEMMA PublicStepType ==
  ASSUME PublicType, PublicStep
  PROVE  PublicType'
<1>1. CASE Keeps
  BY <1>1 DEF Keeps, PublicType, publicVars
<1>2. CASE Clears
  BY <1>2 DEF Clears, ClearPublicState, PublicType
<1>3. CASE Publishes
  BY <1>3 DEF Publishes, PublicType, Computers
<1>4. CASE Withdraws
  BY <1>4, PublicFacts, StatusFacts DEF Withdraws, PublicType
<1>5. CASE Approves
  <2>1. PICK c \in Conn, s \in Share :
          /\ SessionIs(c) /\ gate' = Approve(StartGate(c), s)
          /\ computer' = WithStatus(Reported(s)) /\ screen' = NoScreen
    BY <1>5 DEF Approves
  <2>2. gate' \in Gates
    BY <2>1, StartGateFacts, ApproveFacts DEF Retires
  <2>3. computer' \in Computers
    BY <2>1, PublicFacts, StatusFacts, ReportedType DEF SessionIs, Shares
  <2> QED BY <2>1, <2>2, <2>3 DEF PublicType
<1>6. CASE Shows
  <2>1. PICK c \in Conn, s \in Share :
          /\ SessionIs(c) /\ gate' = gate
          /\ computer' = WithStatus(Reported(s)) /\ screen' = [from |-> c, share |-> s]
    BY <1>6 DEF Shows
  <2>2. computer' \in Computers
    BY <2>1, PublicFacts, StatusFacts, ReportedType DEF SessionIs, Shares
  <2> QED BY <2>1, <2>2 DEF PublicType, Screens, Shares
<1>7. CASE Observes
  <2>1. PICK c \in Conn :
          /\ computer' = computer /\ screen' = [from |-> c, share |-> NoShare]
          /\ gate' = IF Gated(c) THEN [gate EXCEPT !.recovered = TRUE] ELSE gate
    BY <1>7 DEF Observes
  <2>2. gate' \in Gates \cup {NoGate}
    <3>1. CASE Gated(c)
      BY <2>1, <3>1, RecoverFacts, PublicFacts DEF Gated
    <3>2. CASE ~Gated(c)
      BY <2>1, <3>2 DEF PublicType
    <3> QED BY <3>1, <3>2
  <2> QED BY <2>1, <2>2 DEF PublicType, Screens, Shares
<1>8. CASE Describes
  BY <1>8, PublicFacts, StatusFacts DEF Describes, PublicType
<1> QED BY <1>1, <1>2, <1>3, <1>4, <1>5, <1>6, <1>7, <1>8 DEF PublicStep

\* All but two kinds of steps leave the helper where it is.
LEMMA PublicStepHelper ==
  ASSUME PublicType, Keeps \/ Withdraws \/ Approves \/ Shows \/ Observes \/ Describes
  PROVE  SameHelper
<1>1. CASE Keeps \/ Observes
  BY <1>1 DEF Keeps, Observes, SameHelper, publicVars
<1>2. ASSUME NEW status \in Statuses, computer # NoComputer, computer' = WithStatus(status)
      PROVE  SameHelper
  BY <1>2, PublicFacts, StatusFacts DEF SameHelper
<1>3. CASE Withdraws \/ Describes
  BY <1>2, <1>3 DEF Withdraws, Describes
<1>4. CASE Approves \/ Shows
  <2>1. PICK s \in Share : computer # NoComputer /\ computer' = WithStatus(Reported(s))
    BY <1>4 DEF Approves, Shows, SessionIs
  <2>2. Reported(s) \in Statuses
    BY ReportedType DEF Shares
  <2> QED BY <1>2, <2>1, <2>2
<1> QED BY <1>1, <1>3, <1>4

\* Sessions stay as they should.
LEMMA SessionStepInv ==
  ASSUME HubType, PublicType, PublicType', Sessions, clearing \subseteq Conn, SessionStep
  PROVE  Sessions' /\ \A c \in Conn : phase[c] \in Published => phase'[c] \in Published
<1>0. computer # NoComputer => computer.session \in Conn
  BY PublicFacts
<1>1. CASE Steady
  BY <1>0, <1>1 DEF Steady, SameHelper, Sessions, HubType
<1>2. CASE Closes
  <2>1. current \in Conn /\ current' = NoConn /\ phase' = phase
    BY <1>2 DEF Closes, HubType
  <2>2. computer' # NoComputer => computer # NoComputer /\ computer'.session = computer.session
    BY <1>2 DEF Closes, SameHelper
  <2>3. \A c \in clearing' : phase[c] # "new" /\ c \in Conn
    BY <1>2, <2>1 DEF Closes, Sessions
  <2>4. computer' # NoComputer => phase'[computer'.session] \in Published
    BY <2>1, <2>2 DEF Sessions
  <2>5. \A c \in clearing' : phase'[c] # "new" /\ current' # c
    BY <2>1, <2>3
  <2> QED BY <2>1, <2>4, <2>5 DEF Sessions
<1>3. ASSUME NEW c \in Conn, Advances(c)
      PROVE  Sessions' /\ \A d \in Conn : phase[d] \in Published => phase'[d] \in Published
  <2> DEFINE To(label) == phase' = [phase EXCEPT ![c] = label]
  <2>0. clearing' = clearing /\ phase \in [Conn -> {"new", "greeting", "marked", "open", "left"}]
    BY <1>3 DEF Advances, HubType
  <2>1. CASE phase[c] = "new" /\ To("greeting") /\ current' = c /\ computer' = NoComputer
    BY <1>0, <2>0, <2>1 DEF SameHelper, Sessions, HubType, Published
  <2>2. CASE phase[c] = "greeting" /\ To("marked") /\ current' = current /\ SameHelper
    BY <1>0, <2>0, <2>2 DEF SameHelper, Sessions, HubType, Published
  <2>3. CASE /\ phase[c] = "marked" /\ To("open") /\ current = c /\ current' = c
             /\ computer' # NoComputer /\ computer'.session = c
    BY <1>0, <2>0, <2>3 DEF SameHelper, Sessions, HubType, Published
  <2>4. CASE phase[c] = "marked" /\ To("greeting") /\ current' = current /\ SameHelper
    BY <1>0, <2>0, <2>4 DEF SameHelper, Sessions, HubType, Published
  <2>5. CASE /\ phase[c] \in {"greeting", "open"} /\ To("left")
             /\ current = c /\ current' = NoConn /\ computer' = NoComputer
    <3>1. \A d \in clearing' : phase'[d] # "new" /\ current' # d
      BY <2>0, <2>5 DEF Sessions
    <3>2. \A d \in Conn : phase[d] \in Published => phase'[d] \in Published
      BY <2>0, <2>5 DEF Published
    <3> QED BY <2>5, <3>1, <3>2 DEF Sessions
  <2>6. CASE /\ phase[c] \in {"greeting", "open"} /\ To("left")
             /\ current # c /\ current' = current /\ SameHelper
    BY <1>0, <2>0, <2>6 DEF SameHelper, Sessions, HubType, Published
  <2> QED BY <1>3, <2>1, <2>2, <2>3, <2>4, <2>5, <2>6 DEF Advances
<1> QED BY <1>1, <1>2, <1>3 DEF SessionStep

\* So do the targets of requests.
LEMMA ControlStepInv ==
  ASSUME PublicType, ActionType, Sessions, Targets, ControlStep,
         \A c \in Conn : phase[c] \in Published => phase'[c] \in Published
  PROVE  Targets'
<1> SUFFICES ASSUME NEW r \in Request
             PROVE  /\ pc'[r] # "idle" => target'[r] \in Conn /\ phase'[target'[r]] \in Published
                    /\ r \in armed' \cup unsettled' \/ cleanup'[r] # "none" => pc'[r] # "idle"
  BY DEF Targets
<1>1. CASE pc[r] # "idle"
  BY <1>1 DEF Targets, ControlStep
<1>2. CASE pc[r] = "idle"
  BY <1>2, PublicFacts DEF ControlStep, SessionIs, Sessions
<1> QED BY <1>1, <1>2

\* Retiring nothing.
LEMMA RetiresSame ==
  ASSUME NEW g \in Gates PROVE Retires(g, g)
  BY DEF Retires

\* Only an approval sets another share: one that is neither retired nor approved.
NewlyApproved ==
  /\ SessionIs(gate'.session) /\ gate'.approved \in Share
  /\ Gated(gate'.session) =>
       ~gate.saturated /\ gate'.approved \notin gate.retired \cup {gate.approved}

\* What a step may do to the gate: it retires shares, goes on to cover its
\* session while that is published, and is installed for a published session.
GateStep ==
  /\ gate # NoGate /\ gate' # NoGate /\ gate'.session = gate.session => Retires(gate, gate')
  /\ \A c \in Conn : Gated(c) /\ SessionIs(c)' => Gated(c)'
  /\ \A c \in Conn : Gated(c)' /\ ~Gated(c) => SessionIs(c)
  /\ \A c \in Conn : SessionIs(c)' /\ phase[c] \in Published => SessionIs(c)
  /\ gate' # NoGate /\ gate'.approved # NoShare =>
       \/ gate # NoGate /\ gate'.session = gate.session /\ gate'.approved = gate.approved
       \/ NewlyApproved

\* Every step changes the gate in the way of GateStep.
LEMMA GateStepHolds ==
  ASSUME PublicType, PublicType', GateIsOfHelper, PublicStep
  PROVE  GateStep
<1>0. gate # NoGate => gate \in Gates /\ Gated(gate.session) /\ SessionIs(gate.session)
  BY PublicFacts DEF Gated, GateIsOfHelper
<1>1. ASSUME SameHelper, gate' = gate
      PROVE  GateStep
  BY <1>0, <1>1, RetiresSame DEF GateStep, SameHelper, SessionIs, Gated
<1>2. CASE Keeps \/ Shows \/ Describes
  <2>1. SameHelper /\ gate' = gate
    BY <1>2, PublicStepHelper DEF Keeps, Shows, Describes, publicVars
  <2> QED BY <1>1, <2>1
<1>3. CASE Clears
  BY <1>3 DEF Clears, ClearPublicState, GateStep, SessionIs, Gated
<1>4. CASE Publishes
  <2>1. gate = NoGate /\ gate' = NoGate
    BY <1>0, <1>4 DEF Publishes, SessionIs
  <2>2. \A c \in Conn : SessionIs(c)' => phase[c] = "marked"
    BY <1>4 DEF Publishes, SessionIs
  <2> QED BY <2>1, <2>2 DEF GateStep, Gated, Published
<1>5. CASE Withdraws
  <2>1. SameHelper
    BY <1>5, PublicStepHelper
  <2>2. CASE gate' = gate
    BY <1>1, <2>1, <2>2
  <2>3. CASE gate' # gate
    <3>1. /\ computer # NoComputer /\ gate' \in Gates
          /\ gate'.session = computer.session /\ gate'.approved = NoShare
          /\ Gated(computer.session) => Retires(gate, gate')
      BY <1>5, <2>3 DEF Withdraws
    <3> QED BY <1>0, <2>1, <3>1 DEF GateStep, SameHelper, SessionIs, Gated
  <2> QED BY <2>2, <2>3
<1>6. CASE Approves
  <2>1. SameHelper
    BY <1>6, PublicStepHelper
  <2>2. PICK c \in Conn, s \in Share :
          /\ SessionIs(c) /\ StartVerdict(StartGate(c), s) = "Allowed"
          /\ gate' = Approve(StartGate(c), s)
    BY <1>6 DEF Approves
  <2> DEFINE g == StartGate(c)
  <2>3. g \in Gates /\ g.session = c /\ (Gated(c) => g = gate)
    BY StartGateFacts
  <2>4. ~g.saturated /\ s \notin g.retired \cup {g.approved}
    BY <2>2 DEF StartVerdict
  <2>5. gate' \in Gates /\ gate'.session = c /\ gate'.approved = s /\ Retires(g, gate')
    BY <2>2, <2>3, ApproveFacts DEF Retires
  <2>6. NewlyApproved
    BY <2>2, <2>3, <2>4, <2>5 DEF NewlyApproved
  <2>7. gate # NoGate /\ gate'.session = gate.session => Retires(gate, gate')
    BY <1>0, <2>3, <2>5
  <2> HIDE DEF g
  <2> QED BY <1>0, <2>1, <2>2, <2>5, <2>6, <2>7 DEF GateStep, SameHelper, SessionIs, Gated
<1>7. CASE Observes
  <2>1. SameHelper
    BY <1>7, PublicStepHelper
  <2>2. CASE gate' = gate
    BY <1>1, <2>1, <2>2
  <2>3. CASE gate' # gate
    <3>1. gate # NoGate /\ gate' = [gate EXCEPT !.recovered = TRUE]
      BY <1>7, <2>3 DEF Observes, Gated
    <3>2. /\ gate' \in Gates /\ gate'.session = gate.session /\ gate'.approved = gate.approved
          /\ gate'.retired = gate.retired /\ gate'.saturated = gate.saturated
      BY <1>0, <3>1, RecoverFacts
    <3>3. Retires(gate, gate')
      BY <3>2 DEF Retires
    <3> QED BY <1>0, <2>1, <3>1, <3>2, <3>3 DEF GateStep, SameHelper, SessionIs, Gated
  <2> QED BY <2>2, <2>3
<1> QED BY <1>2, <1>3, <1>4, <1>5, <1>6, <1>7 DEF PublicStep

\* The gate stays with the published helper.
LEMMA GateOfHelperStep ==
  ASSUME PublicType, PublicType', GateIsOfHelper, PublicStep, GateStep
  PROVE  GateIsOfHelper'
<1> SUFFICES ASSUME NEW c, gate' # NoGate, c = gate'.session
             PROVE  computer' # NoComputer /\ computer'.session = c
  BY DEF GateIsOfHelper, SessionIs
<1>1. c \in Conn /\ Gated(c)'
  <2>1. gate' \in Gates
    BY DEF PublicType
  <2> QED BY <2>1 DEF Gates, Gated
<1>2. SessionIs(c)
  BY <1>1 DEF GateStep, GateIsOfHelper, Gated
<1>3. ~Clears /\ ~Publishes
  BY DEF Clears, ClearPublicState, Publishes
<1>4. SameHelper
  BY <1>3, PublicStepHelper DEF PublicStep
<1> QED BY <1>2, <1>4 DEF SameHelper, SessionIs

\* An approval that ended stays retired.
LEMMA FinalStep ==
  ASSUME PublicType, PublicType', HistoryType, Sessions, GateIsOfHelper, Final, GateStep, History,
         \A c \in Conn : phase[c] \in Published => phase'[c] \in Published
  PROVE  Final'
<1> SUFFICES ASSUME NEW c \in Conn, NEW s \in Share, <<c, s>> \in withdrawn'
             PROVE  /\ phase'[c] \in Published
                    /\ Gated(c)' => s \in gate'.retired \/ gate'.saturated
                    /\ ~Gated(c)' => ~SessionIs(c)'
  BY DEF Final, Gated, SessionIs
<1>1. CASE <<c, s>> \in withdrawn
  <2>1. /\ phase[c] \in Published
        /\ Gated(c) => s \in gate.retired \/ gate.saturated
        /\ ~Gated(c) => ~SessionIs(c)
    BY <1>1 DEF Final
  <2>2. Gated(c)' => Gated(c)
    BY <2>1 DEF GateStep
  <2>3. Gated(c)' => Retires(gate, gate')
    BY <2>2 DEF GateStep, Gated
  <2>4. ~Gated(c)' => ~SessionIs(c)'
    BY <2>1 DEF GateStep
  <2> QED BY <2>1, <2>2, <2>3, <2>4 DEF Retires
<1>2. CASE <<c, s>> \notin withdrawn
  <2>1. <<c, s>> \in Ended
    BY <1>2 DEF History
  <2>2. /\ gate # NoGate /\ c = gate.session /\ s = gate.approved
        /\ gate' = NoGate \/ gate'.session # gate.session \/ gate'.approved # gate.approved
    BY <2>1 DEF Ended
  <2>3. Gated(c) /\ phase[c] \in Published
    BY <2>2 DEF Gated, GateIsOfHelper, SessionIs, Sessions
  <2>4. Gated(c)' => Retires(gate, gate') /\ gate'.approved # s
    BY <2>2 DEF GateStep, Gated
  <2> QED BY <2>2, <2>3, <2>4 DEF Retires, GateStep
<1> QED BY <1>1, <1>2

\* No approval is given twice.
LEMMA NeverReapprovedStep ==
  ASSUME PublicType, HistoryType, HistoryType', GateIsOfHelper, Final, NeverReapproved,
         GateStep, History
  PROVE  NeverReapproved'
<1> SUFFICES ASSUME gate' # NoGate, <<gate'.session, gate'.approved>> \in withdrawn'
             PROVE  FALSE
  BY DEF NeverReapproved
<1>1. gate'.approved \in Share /\ gate'.session \in Conn
  BY DEF HistoryType
<1>2. gate'.approved # NoShare
  BY <1>1
<1>3. CASE gate # NoGate /\ gate'.session = gate.session /\ gate'.approved = gate.approved
  <2>1. <<gate'.session, gate'.approved>> \notin Ended
    BY <1>3 DEF Ended
  <2>2. <<gate'.session, gate'.approved>> \in withdrawn
    BY <2>1 DEF History
  <2> QED BY <1>3, <2>2 DEF NeverReapproved
<1>4. CASE NewlyApproved
  <2> DEFINE c == gate'.session
             s == gate'.approved
  <2>1. SessionIs(c) /\ (Gated(c) => ~gate.saturated /\ s \notin gate.retired \cup {gate.approved})
    BY <1>4 DEF NewlyApproved
  <2>2. <<c, s>> \notin withdrawn
    BY <1>1, <2>1 DEF Final
  <2>3. <<c, s>> \in Ended
    BY <2>2 DEF History
  <2>4. gate # NoGate /\ c = gate.session /\ s = gate.approved
    BY <2>3 DEF Ended
  <2> QED BY <2>1, <2>4 DEF Gated
<1> QED BY <1>2, <1>3, <1>4 DEF GateStep

\* What covers a frame of s, or an observation (NoShare), of session c.
Authorized(c, s) ==
  /\ SessionIs(c) /\ ~RequiresRecovery(c)
  /\ s # NoShare => FrameAllowed(c, s)

\* Recovery does not take away what is authorized.
LEMMA RecoverKeeps ==
  ASSUME PublicType, NEW c \in Conn, computer' = computer,
         gate' = IF Gated(c) THEN [gate EXCEPT !.recovered = TRUE] ELSE gate
  PROVE  /\ ~RequiresRecovery(c)'
         /\ \A d \in Conn : Gated(d)' <=> Gated(d)
         /\ \A d \in Conn : \A s : FrameAllowed(d, s) => FrameAllowed(d, s)'
<1>1. CASE Gated(c)
  <2>1. gate \in Gates
    BY <1>1 DEF Gated, PublicType
  <2>2. /\ gate' \in Gates /\ gate'.recovered
        /\ gate'.session = gate.session /\ gate'.approved = gate.approved
    BY <1>1, <2>1, RecoverFacts
  <2> QED BY <1>1, <2>1, <2>2 DEF Gated, RequiresRecovery, FrameAllowed
<1>2. CASE ~Gated(c)
  BY <1>2 DEF Gated, RequiresRecovery, FrameAllowed
<1> QED BY <1>1, <1>2

\* What is displayed stays authorized.
LEMMA DisplayStep ==
  ASSUME PublicType, PublicType', DisplayIsAuthorized, PublicStep
  PROVE  DisplayIsAuthorized'
<1> SUFFICES ASSUME NEW c, NEW s, screen' # NoScreen, c = screen'.from, s = screen'.share
             PROVE  Authorized(c, s)'
  BY DEF DisplayIsAuthorized, Authorized, SessionIs, RequiresRecovery, FrameAllowed, Gated
<1>1. CASE Keeps
  BY <1>1 DEF Keeps, publicVars, DisplayIsAuthorized, Authorized, SessionIs, RequiresRecovery,
              FrameAllowed, Gated
<1>2. CASE Clears \/ Withdraws \/ Approves
  BY <1>2 DEF Clears, ClearPublicState, Withdraws, Approves
<1>3. CASE Publishes
  BY <1>3 DEF Publishes, DisplayIsAuthorized, SessionIs
<1>4. CASE Shows
  <2>1. SessionIs(c) /\ FrameAllowed(c, s) /\ gate' = gate
    BY <1>4 DEF Shows
  <2>2. SessionIs(c)'
    BY <1>4, <2>1, PublicStepHelper DEF SameHelper, SessionIs
  <2> QED BY <2>1, <2>2 DEF Authorized, FrameAllowed, RequiresRecovery, Gated
<1>5. CASE Observes
  <2>1. /\ SessionIs(c) /\ computer' = computer /\ s = NoShare /\ c \in Conn
        /\ gate' = IF Gated(c) THEN [gate EXCEPT !.recovered = TRUE] ELSE gate
    BY <1>5 DEF Observes
  <2>2. ~RequiresRecovery(c)'
    BY <2>1, RecoverKeeps
  <2> QED BY <2>1, <2>2 DEF Authorized, SessionIs
<1>6. CASE Describes
  <2>1. /\ screen' = screen /\ gate' = gate /\ Authorized(c, s)
    BY <1>6 DEF Describes, DisplayIsAuthorized, Authorized
  <2>2. SessionIs(c)'
    BY <1>6, <2>1, PublicStepHelper DEF SameHelper, SessionIs, Authorized
  <2> QED BY <2>1, <2>2 DEF Authorized, FrameAllowed, RequiresRecovery, Gated
<1> QED BY <1>1, <1>2, <1>3, <1>4, <1>5, <1>6 DEF PublicStep

\* A share published as active stays the approved one.
LEMMA ActiveStep ==
  ASSUME PublicType, PublicType', ActiveIsApproved, PublicStep
  PROVE  ActiveIsApproved'
<1> SUFFICES ASSUME NEW c, NEW s, computer' # NoComputer, c = computer'.session,
                    s = computer'.share.share, computer'.share.kind = "active", Gated(c)'
             PROVE  FrameAllowed(c, s)'
  BY DEF ActiveIsApproved, FrameAllowed, Gated
<1>1. CASE Keeps
  BY <1>1 DEF Keeps, publicVars, ActiveIsApproved, FrameAllowed, Gated
<1>2. CASE Clears \/ Publishes
  BY <1>2 DEF Clears, ClearPublicState, Publishes, Gated
<1>3. CASE Withdraws
  BY <1>3, PublicFacts, StatusFacts DEF Withdraws
<1>4. CASE Approves
  <2>1. PICK d \in Conn, u \in Share :
          SessionIs(d) /\ gate' = Approve(StartGate(d), u) /\ computer' = WithStatus(Reported(u))
    BY <1>4 DEF Approves
  <2>2. c = d /\ s = u
    BY <2>1, PublicFacts, StatusFacts, ReportedType DEF SessionIs, Shares
  <2>3. gate' \in Gates /\ gate'.session = c /\ gate'.approved = s /\ gate'.recovered
    BY <2>1, <2>2, StartGateFacts, ApproveFacts DEF Retires
  <2> QED BY <2>1, <2>2, <2>3 DEF FrameAllowed, Gated
<1>5. CASE Shows
  <2>1. PICK d \in Conn, u \in Share :
          SessionIs(d) /\ FrameAllowed(d, u) /\ gate' = gate /\ computer' = WithStatus(Reported(u))
    BY <1>5 DEF Shows
  <2>2. c = d /\ s = u
    BY <2>1, PublicFacts, StatusFacts, ReportedType DEF SessionIs, Shares
  <2> QED BY <2>1, <2>2 DEF FrameAllowed, Gated
<1>6. CASE Observes
  <2>1. PICK d \in Conn :
          /\ computer' = computer
          /\ gate' = IF Gated(d) THEN [gate EXCEPT !.recovered = TRUE] ELSE gate
    BY <1>6 DEF Observes
  <2>2. c \in Conn
    BY PublicFacts, <2>1
  <2>3. Gated(c)
    BY <2>1, <2>2, RecoverKeeps
  <2>4. FrameAllowed(c, s)
    BY <2>1, <2>3 DEF ActiveIsApproved
  <2> QED BY <2>1, <2>2, <2>4, RecoverKeeps
<1>7. CASE Describes
  BY <1>7, PublicFacts, StatusFacts DEF Describes, Gated
<1> QED BY <1>1, <1>2, <1>3, <1>4, <1>5, <1>6, <1>7 DEF PublicStep

\* The invariants of the public state follow from the kinds of a step.
LEMMA PublicInv ==
  ASSUME Shape, Public, PublicStep, PublicType', HistoryType', History,
         \A c \in Conn : phase[c] \in Published => phase'[c] \in Published
  PROVE  Public'
<1>1. PublicType /\ HistoryType /\ Sessions
  BY TypeParts DEF Shape
<1>2. GateStep
  BY <1>1, GateStepHolds DEF Public
<1> QED BY <1>1, <1>2, GateOfHelperStep, FinalStep, NeverReapprovedStep, DisplayStep, ActiveStep
        DEF Public

-----------------------------------------------------------------------------
(* What the operators that actions share do.                               *)

Labels == {"admitted", "calling", "returned", "pausing", "observing", "observed",
           "committed", "awaiting", "ending", "ended", "gone"}

\* A request goes on.
Moves(r) ==
  /\ pc[r] # "idle"
  /\ \E l \in Labels : pc' = [pc EXCEPT ![r] = l]
  /\ UNCHANGED <<method, target, canceled, unsettled>>
  /\ armed' \subseteq armed \cup {r}
  /\ \/ cleanup' = cleanup
     \/ \E v \in {"none", "spawned", "stopping", "done"} : cleanup' = [cleanup EXCEPT ![r] = v]

\* A request that goes on keeps the types and its target.
LEMMA MovesFacts ==
  ASSUME ActionType, TaskType, Targets, NEW r \in Request, Moves(r)
  PROVE  /\ ActionType' /\ ControlStep
         /\ cleanup' \in [Request -> {"none", "spawned", "stopping", "done"}]
<1>1. PICK l \in Labels : pc' = [pc EXCEPT ![r] = l]
  BY DEF Moves
<1>2. ActionType'
  BY <1>1 DEF Moves, ActionType, Labels
<1>3. cleanup' \in [Request -> {"none", "spawned", "stopping", "done"}]
  BY DEF Moves, TaskType
<1>4. \A q \in Request : q # r => pc'[q] = pc[q] /\ (cleanup'[q] = cleanup[q])
  BY <1>1 DEF Moves, ActionType, TaskType
<1>5. pc'[r] # "idle" /\ pc[r] # "idle"
  BY <1>1 DEF Moves, ActionType, Labels
<1>6. ControlStep
  BY <1>4, <1>5 DEF Moves, ControlStep, Targets
<1> QED BY <1>2, <1>3, <1>6

\* Nothing happens to the sessions.
LEMMA Quiet ==
  ASSUME UNCHANGED <<current, phase, clearing>>, SameHelper PROVE SessionStep
  BY DEF SessionStep, Steady

\* Nothing happens to the sessions, nor to what is published.
LEMMA KeepsQuiet ==
  ASSUME UNCHANGED <<current, phase, publicVars, clearing>> PROVE PublicStep /\ SessionStep
  BY DEF PublicStep, Keeps, publicVars, SessionStep, Steady, SameHelper

\* An answer and its parts.
LEMMA AnswerFacts ==
  ASSUME HubType, NEW k \in Call
  PROVE  answer[k] \in Answers /\ answer[k].share \in Shares
  BY DEF HubType, Answers

\* An answer of any kind is one.
LEMMA AnswerType ==
  ASSUME NEW kind \in {"none", "refused", "unknown", "malformed", "ok"}, NEW s \in Shares
  PROVE  Answer(kind, s) \in Answers
  BY DEF Answer, Answers

\* The calls of a request.
LEMMA CallType ==
  ASSUME NEW r \in Request
  PROVE  Act(r) \in Call /\ Look(r) \in Call /\ Stop(r) \in Call
  BY DEF Act, Look, Stop, Call

\* A command is enqueued, or refused.
LEMMA RelayType ==
  ASSUME HubType, HelperType, NEW k \in Call, NEW c \in Conn, NEW m \in Methods, Relay(k, c, m)
  PROVE  /\ waiting' \subseteq Call /\ answer' \in [Call -> Answers]
         /\ inbox' \in [Conn -> Seq([call : Call, method : Methods])]
<1>1. NoAnswer \in Answers /\ Refused \in Answers
  BY AnswerType DEF NoAnswer, Refused, Shares
<1>2. CASE /\ waiting' = waiting \cup {k} /\ answer' = [answer EXCEPT ![k] = NoAnswer]
           /\ inbox' = [inbox EXCEPT ![c] = Append(@, [call |-> k, method |-> m])]
  <2> DEFINE Command == [call : Call, method : Methods]
             command == [call |-> k, method |-> m]
  <2>1. command \in Command
    OBVIOUS
  <2>2. inbox[c] \in Seq(Command) /\ inbox \in [Conn -> Seq(Command)]
    BY DEF HelperType
  <2> HIDE DEF Command, command
  <2>3. Append(inbox[c], command) \in Seq(Command)
    BY <2>1, <2>2
  <2>4. inbox' = [inbox EXCEPT ![c] = Append(inbox[c], command)]
    BY <1>2 DEF command
  <2>5. inbox' \in [Conn -> Seq(Command)]
    BY <2>2, <2>3, <2>4
  <2>6. waiting' \subseteq Call /\ answer' \in [Call -> Answers]
    BY <1>1, <1>2 DEF HubType
  <2> QED BY <2>5, <2>6 DEF Command
<1>3. CASE answer' = [answer EXCEPT ![k] = Refused] /\ UNCHANGED <<waiting, inbox>>
  BY <1>1, <1>3 DEF HubType, HelperType
<1> QED BY <1>2, <1>3 DEF Relay

\* Retiring is transitive.
LEMMA RetiresTrans ==
  ASSUME NEW g, NEW h, NEW k, Retires(g, h), Retires(h, k) PROVE Retires(g, k)
  BY DEF Retires

\* The published share, if any.
LEMMA PublishedShareType ==
  ASSUME PublicType PROVE PublishedShare \in Shares
  BY PublicFacts DEF PublishedShare, Statuses, Shares

\* A revoked gate of session c.
LEMMA RevokedFacts ==
  ASSUME PublicType, NEW c \in Conn, NEW s \in Shares
  PROVE  /\ Revoked(c, s) \in Gates /\ Revoked(c, s).session = c
         /\ Revoked(c, s).approved = NoShare
         /\ Gated(c) => Retires(gate, Revoked(c, s))
<1>1. CASE Gated(c)
  BY <1>1, RevokeFacts, PublicFacts DEF Revoked, Gated, Retires
<1>2. CASE ~Gated(c)
  BY <1>2, NewFacts DEF Revoked
<1> QED BY <1>1, <1>2

\* Publication ends, and the gate is g once it was noted.
LEMMA WithdrawsByStop ==
  ASSUME PublicType, NEW c \in Conn, SessionIs(c), NEW g, NEW status \in Statuses,
         g = gate \/ (g \in Gates /\ g.session = c /\ (Gated(c) => Retires(gate, g))),
         gate' = IF g # NoGate /\ g.session = c THEN NoteStopped(g) ELSE g,
         computer' = WithStatus(status), status.kind # "active", screen' = NoScreen
  PROVE  Withdraws
<1>1. computer # NoComputer /\ computer.session = c
  BY DEF SessionIs
<1>2. CASE g = gate /\ ~Gated(c)
  BY <1>1, <1>2 DEF Withdraws, Gated
<1>3. CASE ~(g = gate /\ ~Gated(c))
  <2>1. g \in Gates /\ g.session = c /\ (Gated(c) => Retires(gate, g))
    BY <1>3, PublicFacts, RetiresSame DEF Gated
  <2>2. gate' = NoteStopped(g)
    BY <2>1
  <2>3. Retires(g, gate') /\ gate'.approved = NoShare
    BY <2>1, <2>2, StopFacts
  <2>4. gate' \in Gates /\ gate'.session = c
    BY <2>1, <2>3 DEF Retires
  <2>5. Gated(c) => Retires(gate, gate')
    BY <2>1, <2>3, RetiresTrans
  <2> QED BY <1>1, <2>3, <2>4, <2>5 DEF Withdraws
<1> QED BY <1>2, <1>3

\* A status of any kind is one.
LEMMA StatusType ==
  ASSUME NEW s \in Shares,
         NEW kind \in {"active", "pending", "inactive", "unknown", "failed", "rolledBack"}
  PROVE  Status(kind, s) \in Statuses /\ Status(kind, s).kind = kind
  BY DEF Status, Statuses

\* A mutation of unknown outcome withdraws what is published.
LEMMA UnknownStep ==
  ASSUME PublicType, NEW c, NEW m, WithdrawAfterUnknown(c, m)
  PROVE  PublicStep /\ SameHelper
<1>1. CASE UNCHANGED publicVars
  BY <1>1 DEF PublicStep, Keeps, publicVars, SameHelper
<1>2. CASE ~UNCHANGED publicVars
  <2>1. /\ SessionIs(c) /\ screen' = NoScreen
        /\ computer' = WithStatus(Status("unknown", NoShare))
        /\ gate' = Revoked(c, PublishedShare)
    BY <1>2 DEF WithdrawAfterUnknown
  <2>2. c \in Conn /\ computer # NoComputer /\ computer.session = c
    BY <2>1, PublicFacts DEF SessionIs
  <2>3. Status("unknown", NoShare) \in Statuses /\ Status("unknown", NoShare).kind = "unknown"
    BY StatusType DEF Shares
  <2>4. Withdraws
    BY <2>1, <2>2, <2>3, RevokedFacts, PublishedShareType DEF Withdraws
  <2> QED BY <2>4, PublicStepHelper DEF PublicStep
<1> QED BY <1>1, <1>2

\* A transport is revoked.
LEMMA RevokeStep ==
  ASSUME PublicType, NEW c \in Conn, RevokeTransport(c), UNCHANGED <<phase, clearing>>
  PROVE  PublicStep /\ SessionStep /\ current' \in {current, NoConn}
<1>1. CASE current # c
  BY <1>1, KeepsQuiet DEF RevokeTransport
<1>2. CASE current = c
  <2>1. current' = NoConn /\ (Clears \/ Keeps)
    BY <1>2 DEF RevokeTransport, Clears, Keeps
  <2>2. SameHelper \/ computer' = NoComputer
    BY <2>1 DEF Clears, ClearPublicState, Keeps, SameHelper, publicVars
  <2>3. Closes
    BY <1>2, <2>1, <2>2 DEF Closes
  <2> QED BY <2>1, <2>3 DEF PublicStep, SessionStep
<1> QED BY <1>1, <1>2

\* The target of a request whose helper is ready is published.
LEMMA ReadyFacts ==
  ASSUME PublicType, HubType, ActionType, Sessions, Targets, NEW r \in Request, pc[r] # "idle"
  PROVE  /\ target[r] \in Conn
         /\ Ready(target[r]) => SessionIs(target[r]) /\ current = target[r]
  BY DEF Ready, Sessions, Targets, SessionIs, Published

\* A share is rejected.
LEMMA RejectStep ==
  ASSUME PublicType, ActionType, TaskType, NEW r \in Request, NEW g, NEW s \in Shares,
         pc[r] # "idle", target[r] \in Conn, SessionIs(target[r]),
         g = gate \/ (g \in Gates /\ g.session = target[r] /\ (Gated(target[r]) => Retires(gate, g))),
         RejectShare(r, g, s), UNCHANGED <<method, target, canceled, unsettled>>
  PROVE  PublicStep /\ SameHelper /\ Moves(r)
<1>1. Status("pending", s) \in Statuses /\ Status("pending", s).kind = "pending"
  BY StatusType
<1>2. Withdraws
  BY <1>1, WithdrawsByStop DEF RejectShare
<1>3. Moves(r)
  BY DEF RejectShare, Moves, Goto, Labels
<1> QED BY <1>2, <1>3, PublicStepHelper DEF PublicStep

\* A guard is dropped.
LEMMA DropStep ==
  ASSUME PublicType, HubType, TaskType, NEW r \in Request, target[r] \in Conn, DropGuard(r),
         UNCHANGED <<phase, publicVars>>
  PROVE  /\ PublicStep /\ SessionStep
         /\ armed' \subseteq armed \cup {r} /\ clearing' \subseteq Conn
         /\ current' \in {current, NoConn}
<1>1. CASE r \in armed /\ current = target[r]
  <2>1. Closes
    BY <1>1 DEF DropGuard, Closes, SameHelper, publicVars
  <2> QED BY <1>1, <2>1 DEF DropGuard, SessionStep, PublicStep, Keeps, TaskType
<1>2. CASE ~(r \in armed /\ current = target[r])
  BY <1>2, KeepsQuiet DEF DropGuard, TaskType
<1> QED BY <1>1, <1>2

-----------------------------------------------------------------------------
(* The actions.                                                            *)

\* What is shown of each action: it is of the kinds above, and keeps the types.
Typed  == HubType' /\ ActionType' /\ TaskType' /\ HelperType'
StepOK == Kinds /\ Typed

\* Shape in parts.
LEMMA ShapeParts ==
  ASSUME Shape
  PROVE  /\ HubType /\ PublicType /\ ActionType /\ TaskType /\ HelperType /\ HistoryType
         /\ Sessions /\ Targets
  BY TypeParts DEF Shape

\* What is left alone keeps its type.
LEMMA HubSame == ASSUME HubType, UNCHANGED hubVars PROVE HubType'
  BY DEF HubType, hubVars

\* The helpers keep their types when they are left alone.
LEMMA HelperSame == ASSUME HelperType, UNCHANGED helperVars PROVE HelperType'
  BY DEF HelperType, helperVars

\* Requests that are left alone keep their targets.
LEMMA ControlSame ==
  ASSUME Targets, UNCHANGED <<actionVars, cleanup>> PROVE ControlStep
  BY DEF Targets, ControlStep, actionVars

\* A request goes on, and at most changes what is published.
LEMMA MoveOK ==
  ASSUME Shape, NEW r \in Request, Moves(r), PublicStep, SameHelper,
         UNCHANGED <<hubVars, clearing, helperVars>>
  PROVE  StepOK
<1>1. ActionType' /\ ControlStep /\ cleanup' \in [Request -> {"none", "spawned", "stopping", "done"}]
  BY ShapeParts, MovesFacts
<1>2. TaskType'
  BY <1>1, ShapeParts DEF TaskType
<1>3. HubType' /\ HelperType'
  BY ShapeParts, HubSame, HelperSame
<1>4. SessionStep
  BY Quiet DEF hubVars
<1> QED BY <1>1, <1>2, <1>3, <1>4 DEF StepOK, Typed, Kinds

\* Most steps of a request leave everything else alone.
LEMMA PlainOK ==
  ASSUME Shape, NEW r \in Request,
         Wake(r) \/ ClickReturns(r) \/ CommitTooLate(r) \/ Disarm(r) \/ AwaitCleanup(r) \/ Finish(r)
  PROVE  StepOK
<1>1. UNCHANGED <<hubVars, publicVars, clearing, helperVars>>
  BY DEF Wake, ClickReturns, CommitTooLate, Disarm, AwaitCleanup, Finish, taskVars
<1>2. Moves(r)
  BY DEF Wake, ClickReturns, CommitTooLate, Disarm, AwaitCleanup, Finish, taskVars, Moves,
     Labels, Goto
<1>3. PublicStep /\ SameHelper
  BY <1>1 DEF PublicStep, Keeps, SameHelper, publicVars
<1> QED BY <1>1, <1>2, <1>3, MoveOK

\* CallFails withdraws what is published only after an unknown outcome.
LEMMA CallFailsOK ==
  ASSUME Shape, NEW r \in Request, CallFails(r) PROVE StepOK
<1>1. Moves(r)
  BY DEF CallFails, taskVars, Moves, Labels, Goto
<1>2. PublicStep /\ SameHelper
  <2>1. CASE WithdrawAfterUnknown(target[r], method[r])
    BY <2>1, UnknownStep, ShapeParts
  <2>2. CASE UNCHANGED publicVars
    BY <2>2 DEF PublicStep, Keeps, SameHelper, publicVars
  <2> QED BY <2>1, <2>2 DEF CallFails
<1> QED BY <1>1, <1>2, MoveOK DEF CallFails, taskVars

\* The requests that commit know that their session is published.
LEMMA CommitFacts ==
  ASSUME Shape, NEW r \in Request, pc[r] # "idle"
  PROVE  /\ target[r] \in Conn
         /\ Ready(target[r]) => SessionIs(target[r])
         /\ answer[Act(r)].share \in Shares
  BY ShapeParts, ReadyFacts, CallType, AnswerFacts

\* CommitStatus describes the share of a session without a gate.
LEMMA CommitStatusOK ==
  ASSUME Shape, NEW r \in Request, CommitStatus(r) PROVE StepOK
<1> DEFINE s == answer[Act(r)].share
<1>0. target[r] \in Conn /\ (Ready(target[r]) => SessionIs(target[r])) /\ s \in Shares
  BY CommitFacts DEF CommitStatus
<1>1. Moves(r)
  BY DEF CommitStatus, taskVars, Moves, Labels, Goto
<1>2. Keeps \/ Describes
  <2>1. CASE Ready(target[r]) /\ ~Gated(target[r])
    <3>1. computer' = WithStatus(Reported(s)) /\ UNCHANGED <<screen, gate>>
      BY <2>1 DEF CommitStatus
    <3>2. computer # NoComputer /\ computer.session = target[r]
      BY <1>0, <2>1 DEF SessionIs
    <3>3. Reported(s) \in Statuses
      BY <1>0, ReportedType
    <3> QED BY <2>1, <3>1, <3>2, <3>3 DEF Describes
  <2>2. CASE ~(Ready(target[r]) /\ ~Gated(target[r]))
    BY <2>2 DEF CommitStatus, Keeps, publicVars
  <2> QED BY <2>1, <2>2
<1>3. PublicStep /\ SameHelper
  BY <1>2, PublicStepHelper, ShapeParts DEF PublicStep
<1> QED BY <1>1, <1>3, MoveOK DEF CommitStatus, taskVars

\* CommitStart approves the share or rejects it.
LEMMA CommitStartOK ==
  ASSUME Shape, NEW r \in Request, CommitStart(r) PROVE StepOK
<1> DEFINE c == target[r]
           s == answer[Act(r)].share
           g == StartGate(c)
<1>0. c \in Conn /\ SessionIs(c) /\ s \in Shares /\ pc[r] # "idle"
  BY CommitFacts DEF CommitStart
<1>1. UNCHANGED <<hubVars, method, target, canceled, unsettled, clearing, helperVars>>
  BY DEF CommitStart
<1>2. PublicStep /\ SameHelper /\ Moves(r)
  <2>1. CASE s = NoShare
    <3>1. RejectShare(r, Revoked(c, PublishedShare), PublishedShare)
      BY <2>1 DEF CommitStart
    <3>2. PublishedShare \in Shares
      BY ShapeParts, PublishedShareType
    <3>3. /\ Revoked(c, PublishedShare) \in Gates /\ Revoked(c, PublishedShare).session = c
          /\ Gated(c) => Retires(gate, Revoked(c, PublishedShare))
      BY <1>0, <3>2, ShapeParts, RevokedFacts
    <3> QED BY <1>0, <1>1, <3>1, <3>2, <3>3, ShapeParts, RejectStep
  <2>2. CASE s # NoShare /\ StartVerdict(g, s) = "Allowed"
    <3>1. /\ gate' = Approve(g, s) /\ computer' = WithStatus(Reported(s)) /\ screen' = NoScreen
          /\ Goto(r, "pausing") /\ UNCHANGED <<armed, cleanup>>
      BY <2>2 DEF CommitStart
    <3>2. s \in Share
      BY <1>0, <2>2 DEF Shares
    <3>3. Approves
      BY <1>0, <2>2, <3>1, <3>2 DEF Approves
    <3>4. Moves(r)
      BY <1>0, <1>1, <3>1 DEF Moves, Labels, Goto
    <3> QED BY <3>3, <3>4, PublicStepHelper, ShapeParts DEF PublicStep
  <2>3. CASE s # NoShare /\ StartVerdict(g, s) # "Allowed"
    <3>1. RejectShare(r, g, s)
      BY <2>3 DEF CommitStart
    <3>2. g \in Gates /\ g.session = c /\ (Gated(c) => g = gate)
      BY <1>0, ShapeParts, StartGateFacts
    <3>3. Gated(c) => Retires(gate, g)
      BY <3>2, RetiresSame
    <3> QED BY <1>0, <1>1, <3>1, <3>2, <3>3, ShapeParts, RejectStep
  <2> QED BY <2>1, <2>2, <2>3
<1> QED BY <1>1, <1>2, MoveOK

\* CommitStop withdraws the share.
LEMMA CommitStopOK ==
  ASSUME Shape, NEW r \in Request, CommitStop(r) PROVE StepOK
<1> DEFINE c == target[r]
<1>0. c \in Conn /\ SessionIs(c) /\ pc[r] # "idle"
  BY CommitFacts DEF CommitStop
<1>1. UNCHANGED <<hubVars, method, target, canceled, unsettled, clearing, helperVars>>
  BY DEF CommitStop
<1>2. CASE /\ gate' = Stopped(c) /\ computer' = WithStatus(Reported(NoShare))
           /\ screen' = NoScreen /\ Goto(r, "ending") /\ UNCHANGED <<armed, cleanup>>
  <2>1. Reported(NoShare) \in Statuses /\ Reported(NoShare).kind = "inactive"
    BY ReportedType DEF Shares
  <2>2. gate' = IF gate # NoGate /\ gate.session = c THEN NoteStopped(gate) ELSE gate
    BY <1>2 DEF Stopped, Gated
  <2>3. Withdraws
    BY <1>0, <1>2, <2>1, <2>2, ShapeParts, WithdrawsByStop
  <2>4. Moves(r)
    BY <1>0, <1>1, <1>2 DEF Moves, Labels, Goto
  <2> QED BY <1>1, <2>3, <2>4, PublicStepHelper, ShapeParts, MoveOK DEF PublicStep
<1>3. CASE RejectShare(r, Revoked(c, PublishedShare), PublishedShare)
  <2>1. PublishedShare \in Shares
    BY ShapeParts, PublishedShareType
  <2>2. /\ Revoked(c, PublishedShare) \in Gates /\ Revoked(c, PublishedShare).session = c
        /\ Gated(c) => Retires(gate, Revoked(c, PublishedShare))
    BY <1>0, <2>1, ShapeParts, RevokedFacts
  <2>3. PublicStep /\ SameHelper /\ Moves(r)
    BY <1>0, <1>1, <1>3, <2>1, <2>2, ShapeParts, RejectStep
  <2> QED BY <1>1, <2>3, MoveOK
<1> QED BY <1>2, <1>3 DEF CommitStop

\* CommitObservation displays what was observed.
LEMMA CommitObservationOK ==
  ASSUME Shape, NEW r \in Request, CommitObservation(r) PROVE StepOK
<1>0. target[r] \in Conn /\ SessionIs(target[r])
  BY CommitFacts DEF CommitObservation, ObservationAccepted
<1>1. Moves(r)
  BY DEF CommitObservation, taskVars, Moves, Labels, Goto
<1>2. Observes
  BY <1>0 DEF CommitObservation, Observes
<1> QED BY <1>1, <1>2, PublicStepHelper, ShapeParts, MoveOK DEF PublicStep, CommitObservation, taskVars

\* ObservationFails rejects a start and changes nothing else.
LEMMA ObservationFailsOK ==
  ASSUME Shape, NEW r \in Request, ObservationFails(r) PROVE StepOK
<1>0. /\ target[r] \in Conn /\ answer[Act(r)].share \in Shares /\ pc[r] # "idle"
      /\ UNCHANGED <<hubVars, method, target, canceled, unsettled, clearing, helperVars>>
  BY CommitFacts DEF ObservationFails
<1>1. CASE method[r] = "share.start" /\ Ready(target[r]) /\ SessionIs(target[r])
  <2>1. RejectShare(r, gate, answer[Act(r)].share)
    BY <1>1 DEF ObservationFails
  <2>2. PublicStep /\ SameHelper /\ Moves(r)
    BY <1>0, <1>1, <2>1, ShapeParts, RejectStep
  <2> QED BY <1>0, <2>2, MoveOK
<1>2. CASE ~(method[r] = "share.start" /\ Ready(target[r]) /\ SessionIs(target[r]))
  <2>1. UNCHANGED publicVars
    BY <1>2 DEF ObservationFails
  <2>2. Moves(r)
    BY <1>0, <1>2 DEF ObservationFails, Moves, Labels, Goto
  <2>3. PublicStep /\ SameHelper
    BY <2>1 DEF PublicStep, Keeps, SameHelper, publicVars
  <2> QED BY <1>0, <2>2, <2>3, MoveOK
<1> QED BY <1>1, <1>2

\* A request goes on, and may send a command.
LEMMA SendOK ==
  ASSUME Shape, NEW r \in Request, Dispatch(r) \/ CallObserve(r)
  PROVE  StepOK
<1>0. UNCHANGED <<current, phase, cancels, publicVars, method, target, canceled, unsettled,
                  taskVars, outbox, capture, drawn>>
  BY DEF Dispatch, CallObserve
<1>1. Moves(r)
  BY <1>0 DEF Dispatch, CallObserve, Moves, Labels, Goto, taskVars
<1>2. target[r] \in Conn /\ method[r] \in Methods
  BY CommitFacts, ShapeParts DEF Dispatch, CallObserve, ActionType
<1>3. \/ UNCHANGED <<waiting, answer, inbox>>
      \/ \E k \in Call, m \in Methods : Relay(k, target[r], m)
  <2>1. Act(r) \in Call /\ Look(r) \in Call /\ "observe" \in Methods
    BY CallType DEF Methods
  <2> QED BY <1>2, <2>1 DEF Dispatch, CallObserve, callVars
<1>4. waiting' \subseteq Call /\ answer' \in [Call -> Answers]
      /\ inbox' \in [Conn -> Seq([call : Call, method : Methods])]
  BY <1>2, <1>3, ShapeParts, RelayType DEF HubType, HelperType
<1>5. HubType' /\ HelperType' /\ TaskType'
  BY <1>0, <1>4, ShapeParts DEF HubType, HelperType, TaskType, taskVars
<1>6. ActionType' /\ ControlStep
  BY <1>1, ShapeParts, MovesFacts
<1>7. PublicStep /\ SessionStep
  BY <1>0, KeepsQuiet DEF taskVars
<1> QED BY <1>5, <1>6, <1>7 DEF StepOK, Kinds, Typed

\* InvalidResult revokes the transport.
LEMMA InvalidResultOK ==
  ASSUME Shape, NEW r \in Request, InvalidResult(r)
  PROVE  StepOK
<1>1. Moves(r)
  BY DEF InvalidResult, Moves, Labels, Goto, taskVars
<1>2. ActionType' /\ ControlStep
  BY <1>1, ShapeParts, MovesFacts
<1>3. target[r] \in Conn
  BY CommitFacts DEF InvalidResult
<1>4. PublicStep /\ SessionStep /\ current' \in {current, NoConn}
  BY <1>3, ShapeParts, RevokeStep DEF InvalidResult, taskVars
<1>5. HubType' /\ HelperType' /\ TaskType'
  BY <1>4, ShapeParts, HelperSame DEF InvalidResult, HubType, TaskType, taskVars, callVars
<1> QED BY <1>2, <1>4, <1>5 DEF StepOK, Kinds, Typed

\* A request ends, or its future is dropped where it stands.
LEMMA EndsOK ==
  ASSUME Shape, NEW r \in Request, End(r) \/ Unwind(r)
  PROVE  StepOK
<1>0. /\ DropGuard(r) /\ Goto(r, "ended") /\ pc[r] # "idle"
      /\ UNCHANGED <<phase, answer, publicVars, method, target, canceled, unsettled, cleanup, helperVars>>
      /\ waiting' \subseteq waiting /\ cancels' \subseteq cancels \cup waiting
  BY DEF End, Unwind, callVars, Live
<1>1. target[r] \in Conn
  BY <1>0, CommitFacts
<1>2. /\ PublicStep /\ SessionStep
      /\ armed' \subseteq armed \cup {r} /\ clearing' \subseteq Conn
      /\ current' \in {current, NoConn}
  BY <1>0, <1>1, ShapeParts, DropStep
<1>3. Moves(r)
  BY <1>0, <1>2 DEF Moves, Labels, Goto
<1>4. ActionType' /\ ControlStep
  BY <1>3, ShapeParts, MovesFacts
<1>5. HubType'
  BY <1>0, <1>2, ShapeParts DEF HubType
<1>6. TaskType' /\ HelperType'
  BY <1>0, <1>2, ShapeParts, HelperSame DEF TaskType
<1> QED BY <1>2, <1>4, <1>5, <1>6 DEF StepOK, Kinds, Typed

\* Admit takes the published session as the target.
LEMMA AdmitOK ==
  ASSUME Shape, NEW r \in Request, Admit(r)
  PROVE  StepOK
<1>0. PICK m \in Methods :
        /\ pc[r] = "idle" /\ pc' = [pc EXCEPT ![r] = "admitted"] /\ computer # NoComputer
        /\ method' = [method EXCEPT ![r] = m]
        /\ target' = [target EXCEPT ![r] = computer.session]
        /\ UNCHANGED <<hubVars, publicVars, armed, canceled, unsettled, taskVars, helperVars>>
  BY DEF Admit, Goto
<1>1. computer.session \in Conn
  BY <1>0, ShapeParts, PublicFacts
<1>2. ActionType'
  BY <1>0, <1>1, ShapeParts DEF ActionType
<1>3. pc'[r] # "idle" /\ target'[r] = computer.session
  BY <1>0, ShapeParts DEF ActionType
<1>4. \A q \in Request : q # r => pc'[q] = pc[q] /\ target'[q] = target[q]
  BY <1>0, ShapeParts DEF ActionType
<1>5. ControlStep
  BY <1>0, <1>3, <1>4, ShapeParts DEF ControlStep, Targets, SessionIs, taskVars
<1>6. HubType' /\ HelperType' /\ TaskType'
  BY <1>0, ShapeParts, HubSame, HelperSame DEF TaskType, taskVars
<1>7. PublicStep /\ SessionStep
  BY <1>0, KeepsQuiet DEF taskVars, hubVars
<1> QED BY <1>2, <1>5, <1>6, <1>7 DEF StepOK, Kinds, Typed

\* Cancel marks a live request.
LEMMA CancelOK ==
  ASSUME Shape, NEW r \in Request, Cancel(r)
  PROVE  StepOK
<1>0. /\ canceled' = canceled \cup {r} /\ unsettled' = unsettled \cup {r} /\ pc[r] # "idle"
      /\ UNCHANGED <<hubVars, publicVars, pc, method, target, armed, taskVars, helperVars>>
  BY DEF Cancel, Live
<1>1. ActionType'
  BY <1>0, ShapeParts DEF ActionType
<1>2. ControlStep
  BY <1>0, ShapeParts DEF ControlStep, Targets, taskVars
<1>3. HubType' /\ HelperType' /\ TaskType'
  BY <1>0, ShapeParts, HubSame, HelperSame DEF TaskType, taskVars
<1>4. PublicStep /\ SessionStep
  BY <1>0, KeepsQuiet DEF taskVars, hubVars
<1> QED BY <1>1, <1>2, <1>3, <1>4 DEF StepOK, Kinds, Typed

\* Settle withdraws what is published after a mutation.
LEMMA SettleOK ==
  ASSUME Shape, NEW r \in Request, Settle(r)
  PROVE  StepOK
<1>0. /\ unsettled' = unsettled \ {r} /\ WithdrawAfterUnknown(target[r], method[r])
      /\ UNCHANGED <<hubVars, pc, method, target, armed, canceled, taskVars, helperVars>>
  BY DEF Settle
<1>1. ActionType'
  BY <1>0, ShapeParts DEF ActionType
<1>2. ControlStep
  BY <1>0, ShapeParts DEF ControlStep, Targets, taskVars
<1>3. HubType' /\ HelperType' /\ TaskType'
  BY <1>0, ShapeParts, HubSame, HelperSame DEF TaskType, taskVars
<1>4. PublicStep /\ SameHelper
  BY <1>0, ShapeParts, UnknownStep
<1>5. SessionStep
  BY <1>0, <1>4, Quiet DEF hubVars, taskVars
<1> QED BY <1>1, <1>2, <1>3, <1>4, <1>5 DEF StepOK, Kinds, Typed

-----------------------------------------------------------------------------
(* The tasks.                                                              *)

\* A cleanup goes on.
LEMMA CleanupFacts ==
  ASSUME Shape, NEW r \in Request, cleanup[r] # "none", UNCHANGED <<actionVars, clearing>>,
         \E v \in {"stopping", "done"} : cleanup' = [cleanup EXCEPT ![r] = v]
  PROVE  target[r] \in Conn /\ ActionType' /\ TaskType' /\ ControlStep
<1>1. pc[r] # "idle" /\ target[r] \in Conn
  BY ShapeParts DEF Targets
<1>2. TaskType'
  BY ShapeParts DEF TaskType
<1>3. \A q \in Request : q # r => cleanup'[q] = cleanup[q]
  BY ShapeParts DEF TaskType
<1>4. ControlStep
  BY <1>1, <1>3, ShapeParts DEF ControlStep, Targets, actionVars
<1>5. ActionType'
  BY ShapeParts DEF ActionType, actionVars
<1> QED BY <1>1, <1>2, <1>4, <1>5

\* A cleanup withdraws what it stopped, or revokes the transport.
LEMMA CleanupOK ==
  ASSUME Shape, NEW r \in Request, CleanupStep(r)
  PROVE  StepOK
<1>0. target[r] \in Conn /\ ActionType' /\ TaskType' /\ ControlStep
  BY CleanupFacts DEF CleanupStep, CleanupCalls, CleanupConfirmed, CleanupUnproven
<1>1. CASE CleanupCalls(r)
  <2>1. Relay(Stop(r), target[r], "share.stop")
        /\ UNCHANGED <<current, phase, cancels, publicVars, clearing, outbox, capture, drawn>>
    BY <1>1 DEF CleanupCalls
  <2>2. Stop(r) \in Call /\ "share.stop" \in Methods
    BY CallType DEF Methods
  <2>3. waiting' \subseteq Call /\ answer' \in [Call -> Answers]
        /\ inbox' \in [Conn -> Seq([call : Call, method : Methods])]
    BY <1>0, <2>1, <2>2, ShapeParts, RelayType
  <2>4. HubType' /\ HelperType'
    BY <2>1, <2>3, ShapeParts DEF HubType, HelperType
  <2>5. PublicStep /\ SessionStep
    BY <2>1, KeepsQuiet
  <2> QED BY <1>0, <2>4, <2>5 DEF StepOK, Kinds, Typed
<1>2. CASE CleanupConfirmed(r)
  <2>0. UNCHANGED <<hubVars, clearing, helperVars>>
    BY <1>2 DEF CleanupConfirmed
  <2>1. Withdraws \/ Keeps
    <3>1. CASE Ready(target[r]) /\ SessionIs(target[r])
      <4>1. /\ gate' = Stopped(target[r]) /\ screen' = NoScreen
            /\ computer' = WithStatus(Status("rolledBack", NoShare))
        BY <1>2, <3>1 DEF CleanupConfirmed
      <4>2. Status("rolledBack", NoShare) \in Statuses
            /\ Status("rolledBack", NoShare).kind = "rolledBack"
        BY StatusType DEF Shares
      <4>3. gate' = IF gate # NoGate /\ gate.session = target[r] THEN NoteStopped(gate) ELSE gate
        BY <4>1 DEF Stopped, Gated
      <4>4. Withdraws
        BY <1>0, <3>1, <4>1, <4>2, <4>3, ShapeParts, WithdrawsByStop
      <4> QED BY <4>4
    <3>2. CASE ~(Ready(target[r]) /\ SessionIs(target[r]))
      BY <1>2, <3>2 DEF CleanupConfirmed, Keeps
    <3> QED BY <3>1, <3>2
  <2>3. PublicStep /\ SameHelper
    BY <2>1, ShapeParts, PublicStepHelper DEF PublicStep
  <2>4. SessionStep
    BY <2>0, <2>3, Quiet DEF hubVars
  <2> QED BY <1>0, <2>0, <2>3, <2>4, ShapeParts, HubSame, HelperSame DEF StepOK, Kinds, Typed
<1>3. CASE CleanupUnproven(r)
  <2>1. RevokeTransport(target[r])
        /\ UNCHANGED <<phase, callVars, cancels, clearing, helperVars>>
    BY <1>3 DEF CleanupUnproven
  <2>2. PublicStep /\ SessionStep /\ current' \in {current, NoConn}
    BY <1>0, <2>1, ShapeParts, RevokeStep
  <2>3. HubType' /\ HelperType'
    BY <2>1, <2>2, ShapeParts, HelperSame DEF HubType, callVars
  <2> QED BY <1>0, <2>2, <2>3 DEF StepOK, Kinds, Typed
<1> QED BY <1>1, <1>2, <1>3 DEF CleanupStep

\* The task of a dropped guard clears a session that is not current.
LEMMA ClearRevokedOK ==
  ASSUME Shape, NEW c \in Conn, ClearRevoked(c)
  PROVE  StepOK
<1>0. /\ clearing' = clearing \ {c} /\ UNCHANGED <<hubVars, actionVars, cleanup, helperVars>>
      /\ current # c
  BY ShapeParts DEF ClearRevoked, Sessions
<1>1. HubType' /\ HelperType' /\ ActionType' /\ TaskType' /\ ControlStep
  BY <1>0, ShapeParts, HubSame, HelperSame, ControlSame DEF ActionType, TaskType, actionVars
<1>2. CASE SessionIs(c)
  <2>1. ClearPublicState
    BY <1>2 DEF ClearRevoked
  <2>2. current = NoConn
    BY <1>0, <1>2, ShapeParts DEF SessionIs, Sessions
  <2>3. PublicStep /\ SessionStep
    BY <1>0, <2>1, <2>2 DEF PublicStep, Clears, ClearPublicState, SessionStep, Steady, hubVars
  <2> QED BY <1>1, <2>3 DEF StepOK, Kinds, Typed
<1>3. CASE ~SessionIs(c)
  <2>1. UNCHANGED publicVars
    BY <1>3 DEF ClearRevoked
  <2>2. PublicStep /\ SessionStep
    BY <1>0, <2>1 DEF PublicStep, Keeps, publicVars, SameHelper, SessionStep, Steady, hubVars
  <2> QED BY <1>1, <2>2 DEF StepOK, Kinds, Typed
<1> QED BY <1>2, <1>3

-----------------------------------------------------------------------------
(* The handler of a helper connection.                                     *)

\* A call is given up.
LEMMA HubGivesUpOK ==
  ASSUME Shape, NEW k \in Call, HubGivesUp(k)
  PROVE  StepOK
<1>0. /\ waiting' = waiting \ {k} /\ answer' = [answer EXCEPT ![k] = Unknown]
      /\ cancels' = cancels \cup {k}
      /\ UNCHANGED <<current, phase, publicVars, actionVars, taskVars, helperVars>>
  BY DEF HubGivesUp
<1>1. Unknown \in Answers
  BY AnswerType DEF Unknown, Shares
<1>2. HubType' /\ HelperType' /\ ActionType' /\ TaskType' /\ ControlStep
  BY <1>0, <1>1, ShapeParts, HelperSame, ControlSame DEF HubType, ActionType, TaskType, actionVars, taskVars
<1>3. PublicStep /\ SessionStep
  BY <1>0, KeepsQuiet DEF taskVars
<1> QED BY <1>2, <1>3 DEF StepOK, Kinds, Typed

\* A connection attaches, leaves, or says hello.
LEMMA ConnectionOK ==
  ASSUME Shape, NEW c \in Conn, Attach(c) \/ MarkReady(c) \/ Leave(c)
  PROVE  StepOK
<1>0. UNCHANGED <<callVars, cancels, actionVars, taskVars, helperVars>>
  BY DEF Attach, MarkReady, Leave
<1>1. HelperType' /\ ActionType' /\ TaskType' /\ ControlStep
  BY <1>0, ShapeParts, HelperSame, ControlSame DEF ActionType, TaskType, actionVars, taskVars
<1>2. HubType'
  BY <1>0, ShapeParts DEF Attach, MarkReady, Leave, HubType, callVars
<1>3. PublicStep
  BY DEF Attach, MarkReady, Leave, PublicStep, Clears, Keeps
<1>4. Advances(c)
  <2>1. CASE Attach(c)
    BY <1>0, <2>1 DEF Attach, Advances, ClearPublicState, taskVars
  <2>2. CASE MarkReady(c)
    BY <1>0, <2>2 DEF MarkReady, Advances, SameHelper, publicVars, taskVars
  <2>3. CASE Leave(c) /\ current = c
    BY <1>0, <2>3 DEF Leave, Advances, ClearPublicState, taskVars
  <2>4. CASE Leave(c) /\ current # c
    BY <1>0, <2>4 DEF Leave, Advances, SameHelper, publicVars, taskVars
  <2> QED BY <2>1, <2>2, <2>3, <2>4
<1> QED BY <1>1, <1>2, <1>3, <1>4 DEF StepOK, Kinds, Typed, SessionStep

\* PublishHello publishes a helper that is still current, the first of its session.
LEMMA PublishHelloOK ==
  ASSUME Shape, GateIsOfHelper, NEW c \in Conn, PublishHello(c)
  PROVE  StepOK
<1>0. /\ UNCHANGED <<current, callVars, cancels, screen, actionVars, taskVars, helperVars>>
      /\ phase[c] = "marked"
  BY DEF PublishHello
<1>1. HelperType' /\ ActionType' /\ TaskType' /\ ControlStep
  BY <1>0, ShapeParts, HelperSame, ControlSame DEF ActionType, TaskType, actionVars, taskVars
<1>2. HubType'
  BY <1>0, ShapeParts DEF PublishHello, HubType, callVars
<1>3. CASE current = c
  <2>1. /\ gate' = IF SessionIs(c) THEN gate ELSE NoGate
        /\ computer' = [session |-> c, share |-> Reported(capture[c])]
        /\ phase' = [phase EXCEPT ![c] = "open"]
    BY <1>3 DEF PublishHello
  <2>2. computer = NoComputer
    BY <1>0, <1>3, ShapeParts DEF Sessions, HubType, Published
  <2>3. Reported(capture[c]) \in Statuses
    BY ShapeParts, ReportedType DEF HelperType
  <2>4. computer' \in Computers
    BY <2>1, <2>3 DEF Computers
  <2>5. Publishes
    BY <1>0, <2>1, <2>2, <2>3 DEF Publishes, SessionIs
  <2>6. Advances(c)
    BY <1>0, <1>3, <2>1, <2>4 DEF Advances, taskVars
  <2> QED BY <1>1, <1>2, <2>5, <2>6 DEF StepOK, Kinds, Typed, SessionStep, PublicStep
<1>4. CASE current # c
  <2>1. /\ phase' = [phase EXCEPT ![c] = "greeting"]
        /\ UNCHANGED publicVars
    BY <1>0, <1>4 DEF PublishHello, publicVars
  <2>2. Advances(c) /\ PublicStep
    BY <1>0, <2>1 DEF Advances, SameHelper, publicVars, PublicStep, Keeps, taskVars
  <2> QED BY <1>1, <1>2, <2>2 DEF StepOK, Kinds, Typed, SessionStep
<1> QED BY <1>3, <1>4

\* The first message of a queue.
LEMMA HeadFacts ==
  ASSUME HelperType, NEW c \in Conn, outbox[c] # <<>>
  PROVE  /\ Head(outbox[c]) \in Messages
         /\ [outbox EXCEPT ![c] = Tail(@)] \in [Conn -> Seq(Messages)]
<1>1. outbox[c] \in Seq(Messages) /\ outbox \in [Conn -> Seq(Messages)]
  BY DEF HelperType
<1>2. Head(outbox[c]) \in Messages /\ Tail(outbox[c]) \in Seq(Messages)
  BY <1>1
<1> QED BY <1>1, <1>2

\* A message is handled.
LEMMA MessageOK ==
  ASSUME Shape, NEW c \in Conn, Resolve(c) \/ ShareFrame(c) \/ ShareError(c)
  PROVE  StepOK
<1> DEFINE m == Head(outbox[c])
<1>0. /\ phase[c] = "open" /\ current = c /\ outbox[c] # <<>>
      /\ outbox' = [outbox EXCEPT ![c] = Tail(@)]
      /\ UNCHANGED <<current, phase, cancels, actionVars, taskVars, inbox, capture, drawn>>
  BY DEF Resolve, ShareFrame, ShareError, hubVars
<1>1. m \in Messages /\ HelperType'
  BY <1>0, ShapeParts, HeadFacts DEF HelperType
<1>2. ActionType' /\ TaskType' /\ ControlStep
  BY <1>0, ShapeParts, ControlSame DEF ActionType, TaskType, actionVars, taskVars
<1>3. SessionIs(c)
  BY <1>0, ShapeParts DEF Sessions, SessionIs, HubType
<1>4. CASE Resolve(c)
  <2>1. m.call \in Call /\ m.answer \in Answers
    BY <1>1, <1>4 DEF Resolve, Messages
  <2>2. HubType'
    BY <1>0, <1>4, <2>1, ShapeParts DEF Resolve, HubType, callVars
  <2>3. UNCHANGED publicVars
    BY <1>4 DEF Resolve
  <2>4. PublicStep /\ SessionStep
    BY <1>0, <2>3, KeepsQuiet DEF taskVars
  <2> QED BY <1>1, <1>2, <2>2, <2>4 DEF StepOK, Kinds, Typed
<1>5. CASE ShareFrame(c)
  <2>1. m.share \in Share
    BY <1>1, <1>5 DEF ShareFrame, Messages
  <2>2. Shows \/ Keeps
    <3>1. CASE FrameAllowed(c, m.share)
      <4>1. /\ computer' = WithStatus(Reported(m.share)) /\ gate' = gate
            /\ screen' = [from |-> c, share |-> m.share]
        BY <1>5, <3>1 DEF ShareFrame
      <4> QED BY <1>3, <2>1, <3>1, <4>1 DEF Shows
    <3>2. CASE ~FrameAllowed(c, m.share)
      BY <1>5, <3>2 DEF ShareFrame, Keeps, publicVars
    <3> QED BY <3>1, <3>2
  <2>3. HubType'
    BY <1>5, ShapeParts, HubSame DEF ShareFrame
  <2>4. PublicStep /\ SameHelper
    BY <2>2, ShapeParts, PublicStepHelper DEF PublicStep
  <2>5. SessionStep
    BY <1>0, <2>4, Quiet DEF taskVars
  <2> QED BY <1>1, <1>2, <2>3, <2>4, <2>5 DEF StepOK, Kinds, Typed
<1>6. CASE ShareError(c)
  <2>1. Withdraws \/ Keeps
    <3>1. CASE ErrorAllowed(c, m.share)
      <4>1. /\ gate' = Stopped(c) /\ screen' = NoScreen
            /\ computer' = WithStatus(Status("failed", NoShare))
        BY <1>6, <3>1 DEF ShareError
      <4>2. Status("failed", NoShare) \in Statuses /\ Status("failed", NoShare).kind = "failed"
        BY StatusType DEF Shares
      <4>3. gate' = IF gate # NoGate /\ gate.session = c THEN NoteStopped(gate) ELSE gate
        BY <4>1 DEF Stopped, Gated
      <4>4. Withdraws
        BY <1>3, <4>1, <4>2, <4>3, ShapeParts, WithdrawsByStop
      <4> QED BY <4>4
    <3>2. CASE ~ErrorAllowed(c, m.share)
      BY <1>6, <3>2 DEF ShareError, Keeps, publicVars
    <3> QED BY <3>1, <3>2
  <2>2. HubType'
    BY <1>6, ShapeParts, HubSame DEF ShareError
  <2>3. PublicStep /\ SameHelper
    BY <2>1, ShapeParts, PublicStepHelper DEF PublicStep
  <2>4. SessionStep
    BY <1>0, <2>3, Quiet DEF taskVars
  <2> QED BY <1>1, <1>2, <2>2, <2>3, <2>4 DEF StepOK, Kinds, Typed
<1> QED BY <1>4, <1>5, <1>6

-----------------------------------------------------------------------------
(* The helper.                                                             *)

\* A message is sent.
LEMMA EmitType ==
  ASSUME HelperType, NEW c \in Conn, NEW m \in Messages
  PROVE  [outbox EXCEPT ![c] = Append(@, m)] \in [Conn -> Seq(Messages)]
<1>1. outbox[c] \in Seq(Messages) /\ outbox \in [Conn -> Seq(Messages)]
  BY DEF HelperType
<1>2. Append(outbox[c], m) \in Seq(Messages)
  BY <1>1
<1> QED BY <1>1, <1>2

\* A reply is sent to the queue of the helper.
LEMMA ReplyType ==
  ASSUME HelperType, NEW c \in Conn, NEW k \in Call, NEW a \in Answers, Reply(c, k, a)
  PROVE  outbox' \in [Conn -> Seq(Messages)]
<1>1. Result(k, a) \in Messages
  BY DEF Result, Messages
<1>2. [outbox EXCEPT ![c] = Append(@, Result(k, a))] \in [Conn -> Seq(Messages)]
  BY <1>1, EmitType
<1> QED BY <1>2 DEF Reply, HelperType

\* The helper changes its own state and the wire.
LEMMA HelperOK ==
  ASSUME Shape, NEW c \in Conn, HelperStep(c)
  PROVE  StepOK
<1>1. UNCHANGED <<hubVars, publicVars, actionVars, taskVars>>
  BY DEF HelperStep, Serve, EmitFrame, EmitError, HelperResets
<1>2. HubType' /\ ActionType' /\ TaskType' /\ ControlStep
  BY <1>1, ShapeParts, HubSame, ControlSame DEF ActionType, TaskType, actionVars, taskVars
<1>3. PublicStep /\ SessionStep
  BY <1>1, KeepsQuiet DEF taskVars, hubVars
<1>4. HelperType'
  <2>0. HelperType
    BY ShapeParts
  <2>1. CASE Serve(c)
    <3> DEFINE Command == [call : Call, method : Methods]
               k == Head(inbox[c]).call
    <3>1. inbox \in [Conn -> Seq(Command)] /\ inbox[c] \in Seq(Command) /\ inbox[c] # <<>>
          /\ inbox' = [inbox EXCEPT ![c] = Tail(@)]
      BY <2>0, <2>1 DEF Serve, HelperType
    <3> HIDE DEF Command
    <3>2. Head(inbox[c]) \in Command /\ Tail(inbox[c]) \in Seq(Command)
      BY <3>1
    <3>3. k \in Call
      BY <3>2 DEF Command
    <3>4. inbox' \in [Conn -> Seq(Command)]
      BY <3>1, <3>2
    <3> HIDE DEF k
    <3>5. \E a \in Answers : Reply(c, k, a)
      <4>1. /\ Refused \in Answers /\ Unknown \in Answers
            /\ Answer("ok", NoShare) \in Answers /\ Answer("malformed", NoShare) \in Answers
            /\ \A s \in Shares : Answer("ok", s) \in Answers
        BY AnswerType DEF Refused, Unknown, Shares
      <4>2. capture[c] \in Shares
        BY <2>0 DEF HelperType
      <4> QED BY <2>1, <4>1, <4>2 DEF Serve, ShareStarts, ShareStops, Mutates, Reports, k, Shares
    <3>6. outbox' \in [Conn -> Seq(Messages)]
      BY <2>0, <3>3, <3>5, ReplyType
    <3>7. capture' \in [Conn -> Shares] /\ drawn' \subseteq Share
      <4>1. \/ UNCHANGED <<capture, drawn>>
            \/ /\ \E s \in Shares : CaptureIs(c, s)
               /\ drawn' \subseteq drawn \cup Share
        BY <2>1 DEF Serve, ShareStarts, ShareStops, Mutates, Reports, Shares
      <4> QED BY <2>0, <4>1 DEF HelperType, CaptureIs
    <3> QED BY <3>4, <3>6, <3>7 DEF HelperType, Command
  <2>2. CASE EmitFrame(c)
    <3>1. Event("frame", capture[c]) \in Messages
      BY <2>0, <2>2 DEF EmitFrame, Event, Messages, HelperType, Shares
    <3> QED BY <2>0, <2>2, <3>1, EmitType DEF EmitFrame, HelperType
  <2>3. CASE EmitError(c)
    <3>1. Event("error", capture[c]) \in Messages
      BY <2>0, <2>3 DEF EmitError, Event, Messages, HelperType, Shares
    <3> QED BY <2>0, <2>3, <3>1, EmitType DEF EmitError, CaptureIs, HelperType, Shares
  <2>4. CASE HelperResets(c)
    <3> DEFINE Commands == Seq([call : Call, method : Methods])
    <3>1. <<>> \in Commands /\ <<>> \in Seq(Messages)
      OBVIOUS
    <3>2. inbox \in [Conn -> Commands] /\ outbox \in [Conn -> Seq(Messages)]
      BY <2>0 DEF HelperType
    <3> HIDE DEF Commands
    <3>3. inbox' \in [Conn -> Commands] /\ outbox' \in [Conn -> Seq(Messages)]
      BY <2>4, <3>1, <3>2 DEF HelperResets
    <3>4. capture' \in [Conn -> Shares] /\ drawn' = drawn
      BY <2>0, <2>4 DEF HelperResets, CaptureIs, HelperType, Shares
    <3> QED BY <2>0, <3>3, <3>4 DEF Commands, HelperType
  <2> QED BY <2>1, <2>2, <2>3, <2>4 DEF HelperStep
<1> QED BY <1>2, <1>3, <1>4 DEF StepOK, Kinds, Typed

-----------------------------------------------------------------------------
(* Every step.                                                             *)

\* Each step is of the kinds above.
LEMMA StepIsOK ==
  ASSUME Shape, GateIsOfHelper, Step
  PROVE  StepOK
<1>1. ASSUME NEW r \in Request, RequestStep(r) \/ Cancel(r) \/ Settle(r) \/ CleanupStep(r)
      PROVE  StepOK
  BY <1>1, PlainOK, SendOK, CallFailsOK, InvalidResultOK, CommitStatusOK, CommitStartOK,
     CommitStopOK, CommitObservationOK, ObservationFailsOK, EndsOK, AdmitOK, CancelOK, SettleOK,
     CleanupOK DEF RequestStep
<1>2. ASSUME NEW c \in Conn, HandlerStep(c) \/ ClearRevoked(c) \/ HelperStep(c)
      PROVE  StepOK
  BY <1>2, ConnectionOK, PublishHelloOK, MessageOK, ClearRevokedOK, HelperOK DEF HandlerStep
<1> QED BY <1>1, <1>2, HubGivesUpOK DEF Step

\* The histories keep their types: what ends was approved in a session, and only
\* a request with a target is blamed.
LEMMA HistoryStep ==
  ASSUME Shape, Step, History
  PROVE  HistoryType'
<1>1. Ended \subseteq Conn \X Share
  BY ShapeParts, PublicFacts DEF Ended, Shares
<1>2. ASSUME NEW q \in Request, q \in canceled' \ canceled \/ pc[q] = "calling"
      PROVE  target[q] \in Conn
  <2>1. pc[q] # "idle"
    <3>1. CASE pc[q] = "calling"
      BY <3>1
    <3>2. CASE q \in canceled' \ canceled
      <4>1. PICK r \in Request : Cancel(r)
        BY <3>2 DEF Step, RequestStep, CleanupStep, HandlerStep, HelperStep, actionVars,
           Admit, Dispatch, Wake, CallFails, InvalidResult, ClickReturns, CommitStatus,
           CommitTooLate, CommitStart, CommitStop, CallObserve, CommitObservation,
           ObservationFails, Disarm, AwaitCleanup, End, Finish, Unwind, Settle, CleanupCalls,
           CleanupConfirmed, CleanupUnproven, Attach, MarkReady, PublishHello, Leave,
           Resolve, ShareFrame, ShareError, ClearRevoked, Serve, EmitFrame, EmitError,
           HelperResets, HubGivesUp
      <4> QED BY <3>2, <4>1 DEF Cancel, Live
    <3> QED BY <1>2, <3>1, <3>2
  <2> QED BY <2>1, ShapeParts DEF Targets
<1>3. Blamed \subseteq Conn
  BY <1>2 DEF Blamed
<1> QED BY <1>1, <1>3, ShapeParts DEF History, HistoryType

\* The invariant holds at first.
LEMMA InitInv == Init => Inv
<1> SUFFICES ASSUME Init PROVE Inv
  OBVIOUS
<1> USE DEF Init
<1>1. NoAnswer \in Answers
  BY AnswerType DEF NoAnswer, Shares
<1>2. HubType /\ PublicType /\ TaskType /\ HistoryType
  BY <1>1 DEF HubType, PublicType, TaskType, HistoryType
<1>3. ActionType
  BY DEF ActionType, Methods
<1>4. HelperType
  BY DEF HelperType, Shares
<1>5. Sessions /\ Targets
  BY DEF Sessions, Targets
<1>6. Public
  BY DEF Public, GateIsOfHelper, DisplayIsAuthorized, ActiveIsApproved, Final, NeverReapproved
<1> QED BY <1>2, <1>3, <1>4, <1>5, <1>6, TypeParts DEF Inv, Shape

\* Every step preserves it.
LEMMA StepInv == Inv /\ [Next]_vars => Inv'
<1> SUFFICES ASSUME Inv, [Next]_vars PROVE Inv'
  OBVIOUS
<1>0. Shape /\ Public /\ GateIsOfHelper
  BY DEF Inv, Public
<1>1. CASE Next
  <2>1. StepOK /\ HistoryType'
    BY <1>0, <1>1, StepIsOK, HistoryStep DEF Next
  <2>2. PublicStep /\ SessionStep /\ ControlStep /\ Typed
    BY <2>1 DEF StepOK, Kinds
  <2>3. PublicType'
    BY <1>0, <2>2, ShapeParts, PublicStepType
  <2>4. Sessions' /\ \A c \in Conn : phase[c] \in Published => phase'[c] \in Published
    BY <1>0, <2>2, <2>3, ShapeParts, SessionStepInv DEF TaskType
  <2>5. Targets'
    BY <1>0, <2>2, <2>4, ShapeParts, ControlStepInv
  <2>6. Public'
    BY <1>0, <1>1, <2>1, <2>2, <2>3, <2>4, PublicInv DEF Next
  <2>7. TypeOK'
    BY <2>1, <2>2, <2>3 DEF Typed, TypeOK, HubType, PublicType, ActionType, TaskType,
       HelperType, HistoryType
  <2> QED BY <2>4, <2>5, <2>6, <2>7 DEF Inv, Shape
<1>2. CASE UNCHANGED vars
  BY <1>2 DEF vars, hubVars, publicVars, actionVars, taskVars, helperVars, historyVars, Inv,
     Shape, Public, TypeOK, Sessions, Targets, Published, GateIsOfHelper, DisplayIsAuthorized,
     ActiveIsApproved, Final, NeverReapproved, SessionIs, Gated, RequiresRecovery, FrameAllowed
<1> QED BY <1>1, <1>2

\* The invariant holds throughout.
LEMMA SpecInv == Spec => []Inv
<1> QED BY InitInv, StepInv, PTL DEF Spec

\* Every variable has its type, for any number of requests, connections and
\* shares, and any bound on the retired ones.
THEOREM TypeCorrect == Spec => []TypeOK
<1>1. Inv => TypeOK
  BY DEF Inv, Shape
<1> QED BY <1>1, SpecInv, PTL

\* GateIsOfHelper: the gate is always the one of the published helper, so that
\* no late settlement, cleanup or status of an earlier session binds its successor.
THEOREM GateOfHelper == Spec => []GateIsOfHelper
<1>1. Inv => GateIsOfHelper
  BY DEF Inv, Public
<1> QED BY <1>1, SpecInv, PTL

\* DisplayIsAuthorized: what get_computer_screenshot serves was shown by the
\* published helper under its gate.
THEOREM DisplayAuthorized == Spec => []DisplayIsAuthorized
<1>1. Inv => DisplayIsAuthorized
  BY DEF Inv, Public
<1> QED BY <1>1, SpecInv, PTL

\* ActiveIsApproved: a share that is published as active under a gate is the one
\* that perform_computer_action approved.
THEOREM ActiveApproved == Spec => []ActiveIsApproved
<1>1. Inv => ActiveIsApproved
  BY DEF Inv, Public
<1> QED BY <1>1, SpecInv, PTL

\* NeverReapproved: an approval that ended is never given again in its session,
\* even when the set of retired shares is full.
THEOREM ApprovalsFinal == Spec => []NeverReapproved
<1>1. Inv => NeverReapproved
  BY DEF Inv, Public
<1> QED BY <1>1, SpecInv, PTL

-----------------------------------------------------------------------------
(* A revoked session is forgotten only when it is over.                    *)

\* ReplacementIsSpared: the state of a session is cleared only when its transport
\* is gone, so no late task takes down its replacement.
THEOREM ReplacementSpared == Spec => ReplacementIsSpared
<1>1. Inv /\ [Next]_vars =>
        [\A c \in Conn : SessionIs(c) /\ computer' = NoComputer => current' # c \/ current # c]_vars
  <2> SUFFICES ASSUME Inv, Next, NEW c \in Conn, SessionIs(c), computer' = NoComputer
               PROVE  current' # c \/ current # c
    OBVIOUS
  <2>1. SessionStep /\ Sessions /\ HubType
    BY StepIsOK, ShapeParts DEF Inv, Public, Next, StepOK, Kinds
  <2>2. c # NoConn /\ computer # NoComputer /\ computer.session = c /\ phase[c] # "new"
    BY <2>1 DEF SessionIs, Sessions, Published
  <2>3. CASE Steady \/ Closes
    BY <2>2, <2>3 DEF Steady, Closes, SameHelper
  <2>4. ASSUME NEW d \in Conn, Advances(d) PROVE current' # c \/ current # c
    BY <2>2, <2>4 DEF Advances, SameHelper
  <2> QED BY <2>1, <2>3, <2>4 DEF SessionStep
<1> QED BY <1>1, SpecInv, PTL DEF Spec, ReplacementIsSpared

-----------------------------------------------------------------------------
(* Mutations of unknown outcome.                                           *)

\* The outcome of r is unknown to its caller, and nobody has dealt with it yet.
Uncertain(r) ==
  /\ method[r] \notin ReadsOnly
  /\ r \in unsettled \/ (r \notin canceled /\ pc[r] = "returned" /\ answer[Act(r)] = Unknown)

\* A call that returned has its answer, and a suspect session is gated until it
\* recovers, or is about to be.
Returned == \A r \in Request : pc[r] = "returned" => Act(r) \notin waiting

Suspects ==
  \A c \in suspect :
    /\ phase[c] \in Published
    /\ SessionIs(c) => RequiresRecovery(c) \/ \E r \in Request : Uncertain(r) /\ target[r] = c

\* What a step does to a request: nothing, ...
Untouched(q) ==
  /\ pc'[q] = pc[q] /\ method'[q] = method[q] /\ target'[q] = target[q]
  /\ q \in unsettled' <=> q \in unsettled
  /\ q \in canceled' <=> q \in canceled
  /\ Act(q) \in waiting' => Act(q) \in waiting
  /\ Act(q) \notin waiting => answer'[Act(q)] = answer[Act(q)]

\* ... or it goes on, other than with the answer of an action.
Continues(q) ==
  /\ pc[q] # "idle" /\ pc'[q] # "returned"
  /\ method'[q] = method[q] /\ target'[q] = target[q]
  /\ q \in unsettled' <=> q \in unsettled
  /\ q \in canceled' <=> q \in canceled
  /\ pc[q] = "returned" => q \in canceled \/ answer[Act(q)].kind # "unknown"

\* The calls of a request are told apart from those of another, and by purpose.
LEMMA CallsDiffer ==
  ASSUME NEW q, NEW r
  PROVE  /\ Act(q) # Look(r) /\ Act(q) # Stop(r)
         /\ q # r => Act(q) # Act(r)
  BY DEF Act, Look, Stop

\* A relayed call says nothing of the others.
LEMMA RelayOther ==
  ASSUME HubType, NEW k \in Call, NEW c, NEW m, Relay(k, c, m), NEW j \in Call, j # k
  PROVE  (j \in waiting' => j \in waiting) /\ answer'[j] = answer[j]
  BY DEF HubType, Relay

\* A request does not touch another one.
LEMMA OthersUntouched ==
  ASSUME Shape, NEW q \in Request, NEW r \in Request, q # r,
         RequestStep(r) \/ Cancel(r) \/ Settle(r) \/ CleanupStep(r)
  PROVE  Untouched(q)
<1>0. ActionType /\ HubType
  BY ShapeParts
<1>1. pc'[q] = pc[q]
  BY <1>0 DEF RequestStep, Cancel, Settle, CleanupStep, Admit, Dispatch, Wake, CallFails,
     InvalidResult, ClickReturns, CommitStatus, CommitTooLate, CommitStart, CommitStop,
     CallObserve, CommitObservation, ObservationFails, Disarm, AwaitCleanup, End, Finish, Unwind,
     CleanupCalls, CleanupConfirmed, CleanupUnproven, RejectShare, Goto, ActionType, actionVars
<1>2. method'[q] = method[q] /\ target'[q] = target[q]
  BY <1>0 DEF RequestStep, Cancel, Settle, CleanupStep, Admit, Dispatch, Wake, CallFails,
     InvalidResult, ClickReturns, CommitStatus, CommitTooLate, CommitStart, CommitStop,
     CallObserve, CommitObservation, ObservationFails, Disarm, AwaitCleanup, End, Finish, Unwind,
     CleanupCalls, CleanupConfirmed, CleanupUnproven, ActionType, actionVars
<1>3. (q \in unsettled' <=> q \in unsettled) /\ (q \in canceled' <=> q \in canceled)
  BY DEF RequestStep, Cancel, Settle, CleanupStep, Admit, Dispatch, Wake, CallFails,
     InvalidResult, ClickReturns, CommitStatus, CommitTooLate, CommitStart, CommitStop,
     CallObserve, CommitObservation, ObservationFails, Disarm, AwaitCleanup, End, Finish, Unwind,
     CleanupCalls, CleanupConfirmed, CleanupUnproven, actionVars
<1>4. \/ UNCHANGED callVars
      \/ UNCHANGED answer /\ waiting' \subseteq waiting
      \/ \E k \in {Act(r), Look(r), Stop(r)} : \E c, m : Relay(k, c, m)
  BY DEF RequestStep, Cancel, Settle, CleanupStep, Admit, Dispatch, Wake, CallFails,
     InvalidResult, ClickReturns, CommitStatus, CommitTooLate, CommitStart, CommitStop,
     CallObserve, CommitObservation, ObservationFails, Disarm, AwaitCleanup, End, Finish, Unwind,
     CleanupCalls, CleanupConfirmed, CleanupUnproven, hubVars, callVars
<1>5. (Act(q) \in waiting' => Act(q) \in waiting) /\ answer'[Act(q)] = answer[Act(q)]
  BY <1>0, <1>4, CallType, CallsDiffer, RelayOther DEF callVars
<1> QED BY <1>1, <1>2, <1>3, <1>5 DEF Untouched

\* Handlers, helpers and timers touch no request, but for the answer of a call.
LEMMA OutsideUntouched ==
  ASSUME Shape, NEW q \in Request,
         \/ \E c \in Conn : HandlerStep(c) \/ ClearRevoked(c) \/ HelperStep(c)
         \/ \E k \in Call : HubGivesUp(k)
  PROVE  Untouched(q)
<1>1. UNCHANGED actionVars
  BY DEF HandlerStep, ClearRevoked, HelperStep, HubGivesUp, Attach, MarkReady, PublishHello,
     Leave, Resolve, ShareFrame, ShareError, Serve, EmitFrame, EmitError, HelperResets
<1>2. \/ UNCHANGED callVars
      \/ \E k \in waiting : \E a : waiting' = waiting \ {k} /\ answer' = [answer EXCEPT ![k] = a]
  BY DEF HandlerStep, ClearRevoked, HelperStep, HubGivesUp, Attach, MarkReady, PublishHello,
     Leave, Resolve, ShareFrame, ShareError, Serve, EmitFrame, EmitError, HelperResets,
     hubVars, callVars
<1>3. /\ Act(q) \in waiting' => Act(q) \in waiting
      /\ Act(q) \notin waiting => answer'[Act(q)] = answer[Act(q)]
  BY <1>2, CallType, ShapeParts DEF callVars, HubType
<1> QED BY <1>1, <1>3 DEF Untouched, actionVars

\* What a request does itself.
LEMMA OwnStep ==
  ASSUME Shape, NEW q \in Request, RequestStep(q)
  PROVE  Admit(q) \/ Wake(q) \/ CallFails(q) \/ Continues(q)
<1>0. ActionType
  BY ShapeParts
<1>1. CASE \/ Dispatch(q) \/ InvalidResult(q) \/ ClickReturns(q) \/ CommitStatus(q)
           \/ CommitTooLate(q) \/ CommitStart(q) \/ CommitStop(q)
  BY <1>0, <1>1 DEF Continues, Dispatch, InvalidResult, ClickReturns, CommitStatus,
     CommitTooLate, CommitStart, CommitStop, RejectShare, Goto, ActionType
<1>2. CASE \/ CallObserve(q) \/ CommitObservation(q) \/ ObservationFails(q)
           \/ Disarm(q) \/ AwaitCleanup(q) \/ End(q) \/ Finish(q) \/ Unwind(q)
  BY <1>0, <1>2 DEF Continues, CallObserve, CommitObservation, ObservationFails,
     Disarm, AwaitCleanup, End, Finish, Unwind, RejectShare, Live, Goto, ActionType
<1> QED BY <1>1, <1>2 DEF RequestStep

\* The cleanup of a request does not touch it.
LEMMA CleanupUntouched ==
  ASSUME Shape, NEW q \in Request, CleanupStep(q)
  PROVE  Untouched(q)
<1>1. UNCHANGED actionVars
  BY DEF CleanupStep, CleanupCalls, CleanupConfirmed, CleanupUnproven
<1>2. UNCHANGED callVars \/ \E c, m : Relay(Stop(q), c, m)
  BY DEF CleanupStep, CleanupCalls, CleanupConfirmed, CleanupUnproven, callVars, hubVars
<1>3. (Act(q) \in waiting' => Act(q) \in waiting) /\ answer'[Act(q)] = answer[Act(q)]
  BY <1>2, CallType, CallsDiffer, RelayOther, ShapeParts DEF callVars
<1> QED BY <1>1, <1>3 DEF Untouched, actionVars

\* Every step, as a request sees it.
LEMMA StepSeen ==
  ASSUME Shape, Step, NEW q \in Request
  PROVE  \/ Untouched(q) \/ Continues(q)
         \/ Admit(q) \/ Wake(q) \/ CallFails(q) \/ Cancel(q) \/ Settle(q)
<1>1. ASSUME NEW r \in Request, RequestStep(r) \/ Cancel(r) \/ Settle(r) \/ CleanupStep(r)
      PROVE  \/ Untouched(q) \/ Continues(q)
             \/ Admit(q) \/ Wake(q) \/ CallFails(q) \/ Cancel(q) \/ Settle(q)
  BY <1>1, OthersUntouched, OwnStep, CleanupUntouched
<1> QED BY <1>1, OutsideUntouched DEF Step

\* A call that returned waits no more.
LEMMA ReturnedStep ==
  ASSUME Shape, Returned, Step
  PROVE  Returned'
<1> SUFFICES ASSUME NEW q \in Request, pc'[q] = "returned", Act(q) \in waiting'
             PROVE  FALSE
  BY DEF Returned, Act
<1>1. pc[q] = "returned" => Act(q) \notin waiting
  BY DEF Returned
<1>2. CASE Untouched(q) \/ Continues(q)
  BY <1>1, <1>2 DEF Untouched, Continues
<1>3. CASE Admit(q)
  BY <1>3, ShapeParts DEF Admit, Goto, ActionType
<1>4. CASE Wake(q)
  BY <1>4, ShapeParts DEF Wake, Answered, Goto, ActionType, hubVars
<1>5. CASE CallFails(q)
  BY <1>5, ShapeParts DEF CallFails, Goto, ActionType
<1>6. CASE Cancel(q) \/ Settle(q)
  BY <1>1, <1>6 DEF Cancel, Settle, hubVars
<1> QED BY <1>2, <1>3, <1>4, <1>5, <1>6, StepSeen

\* Whoever deals with an uncertain outcome gates the session, or it is over.
LEMMA DealtWith ==
  ASSUME PublicType, NEW c \in Conn, NEW m, m \notin ReadsOnly, SessionIs(c),
         WithdrawAfterUnknown(c, m)
  PROVE  RequiresRecovery(c)'
<1>1. gate' = Revoked(c, PublishedShare)
  BY DEF WithdrawAfterUnknown
<1>2. PublishedShare \in Shares
  BY PublishedShareType
<1>3. /\ Revoked(c, PublishedShare) \in Gates /\ Revoked(c, PublishedShare).session = c
      /\ ~Revoked(c, PublishedShare).recovered
  <2>1. CASE Gated(c)
    BY <1>2, <2>1, RevokeFacts, PublicFacts DEF Revoked, Gated, Retires
  <2>2. CASE ~Gated(c)
    BY <1>2, <2>2, NewFacts DEF Revoked
  <2> QED BY <2>1, <2>2
<1> QED BY <1>1, <1>3 DEF RequiresRecovery, Gated

\* An uncertain outcome stays so until it is dealt with.
LEMMA UncertainStep ==
  ASSUME Shape, Returned, Step, NEW q \in Request, Uncertain(q),
         NEW c, c = target[q], SessionIs(c)
  PROVE  (Uncertain(q)' /\ target'[q] = c) \/ RequiresRecovery(c)'
<1>0. /\ pc[q] # "idle" /\ c \in Conn
      /\ pc[q] = "returned" => Act(q) \notin waiting
  BY ShapeParts DEF Uncertain, Targets, Returned
<1>1. CASE Untouched(q)
  BY <1>0, <1>1 DEF Untouched, Uncertain, Act
<1>2. CASE Continues(q)
  <2>1. q \in unsettled
    BY <1>2 DEF Continues, Uncertain, Unknown, Answer
  <2> QED BY <1>2, <2>1 DEF Continues, Uncertain
<1>3. CASE Admit(q)
  BY <1>0, <1>3 DEF Admit
<1>4. CASE Wake(q)
  BY <1>0, <1>4 DEF Wake, Uncertain
<1>5. CASE CallFails(q)
  <2>1. CASE answer[Act(q)].kind = "unknown"
    <3>1. WithdrawAfterUnknown(c, method[q])
      BY <1>5, <2>1 DEF CallFails
    <3>2. method[q] \notin ReadsOnly /\ PublicType
      BY ShapeParts DEF Uncertain
    <3>3. RequiresRecovery(c)'
      BY <1>0, <3>1, <3>2, DealtWith
    <3> QED BY <3>3
  <2>2. CASE answer[Act(q)].kind # "unknown"
    BY <1>5, <2>2 DEF CallFails, Uncertain, Unknown, Answer
  <2> QED BY <2>1, <2>2
<1>6. CASE Cancel(q)
  BY <1>6 DEF Cancel, Uncertain
<1>7. CASE Settle(q)
  BY <1>0, <1>7, DealtWith, ShapeParts DEF Settle, Uncertain
<1> QED BY <1>1, <1>2, <1>3, <1>4, <1>5, <1>6, <1>7, StepSeen

\* A gate does not lose its session while that is published, and only a healing
\* step recovers it.
LEMMA GatedStep ==
  ASSUME Shape, PublicStep, NEW c \in Conn, phase[c] \in Published, SessionIs(c)'
  PROVE  SessionIs(c) /\ (Gated(c) => Gated(c)')
<1>1. CASE Keeps
  BY <1>1 DEF Keeps, publicVars, SessionIs, Gated
<1>2. CASE Clears
  BY <1>2 DEF Clears, ClearPublicState, SessionIs
<1>3. CASE Publishes
  BY <1>3, ShapeParts DEF Publishes, SessionIs, Published
<1>4. CASE Withdraws \/ Approves \/ Shows \/ Observes \/ Describes
  <2>1. SessionIs(c)
    BY <1>4, PublicStepHelper, ShapeParts DEF SameHelper, SessionIs
  <2>2. Gated(c) => Gated(c)'
    <3>1. CASE Shows \/ Describes
      BY <3>1 DEF Shows, Describes, Gated
    <3>2. CASE Withdraws
      BY <2>1, <3>2 DEF Withdraws, Gated, SessionIs
    <3>3. CASE Observes
      BY <3>3, ShapeParts, PublicFacts, RecoverFacts DEF Observes, Gated
    <3>4. CASE Approves
      <4>1. PICK d \in Conn, s \in Share : SessionIs(d) /\ gate' = Approve(StartGate(d), s)
        BY <3>4 DEF Approves
      <4>2. c = d /\ StartGate(c) \in Gates /\ StartGate(c).session = c
        BY <2>1, <4>1, StartGateFacts, ShapeParts DEF SessionIs
      <4>3. gate' \in Gates /\ gate'.session = c
        BY <4>1, <4>2, ApproveFacts DEF Retires
      <4> QED BY <4>3 DEF Gated
    <3> QED BY <1>4, <3>1, <3>2, <3>3, <3>4
  <2> QED BY <2>1, <2>2
<1> QED BY <1>1, <1>2, <1>3, <1>4 DEF PublicStep

\* Who is newly suspect has an uncertain outcome.
LEMMA BlamedStep ==
  ASSUME Shape, Step, NEW q \in Request, method[q] \notin ReadsOnly,
         \/ q \in canceled' \ canceled
         \/ pc[q] = "calling" /\ pc'[q] = "returned" /\ answer[Act(q)] = Unknown
  PROVE  /\ pc[q] # "idle" /\ target[q] \in Conn /\ phase[target[q]] \in Published
         /\ Uncertain(q)' /\ target'[q] = target[q]
<1>1. ~(Untouched(q) \/ Continues(q) \/ Admit(q) \/ CallFails(q) \/ Settle(q))
  BY ShapeParts DEF Untouched, Continues, Admit, CallFails, Settle, Goto, ActionType
<1>2. Wake(q) \/ Cancel(q)
  BY <1>1, StepSeen
<1>3. pc[q] # "idle" /\ target'[q] = target[q]
  BY <1>2 DEF Wake, Cancel, Live
<1>4. target[q] \in Conn /\ phase[target[q]] \in Published
  BY <1>3, ShapeParts DEF Targets
<1>5. CASE Wake(q)
  BY <1>3, <1>4, <1>5, ShapeParts DEF Wake, Uncertain, Act, hubVars, Goto, ActionType
<1>6. CASE Cancel(q)
  BY <1>3, <1>4, <1>6 DEF Cancel, Uncertain
<1> QED BY <1>2, <1>3, <1>4, <1>5, <1>6

\* Every step keeps suspect sessions gated, or about to be.
LEMMA SuspectsStep ==
  ASSUME Inv, Returned, Suspects, Next
  PROVE  Suspects'
<1>0. /\ Shape /\ Step /\ History /\ PublicStep
      /\ \A c \in Conn : phase[c] \in Published => phase'[c] \in Published
  <2>1. Shape /\ StepOK
    BY StepIsOK DEF Inv, Public, Next
  <2>2. PublicType'
    BY <2>1, ShapeParts, PublicStepType DEF StepOK, Kinds
  <2> QED BY <2>1, <2>2, ShapeParts, SessionStepInv DEF Next, StepOK, Kinds, TaskType
<1> SUFFICES ASSUME NEW c \in suspect'
             PROVE  /\ phase'[c] \in Published
                    /\ SessionIs(c)' => \/ RequiresRecovery(c)'
                                        \/ \E r \in Request : Uncertain(r)' /\ target'[r] = c
  BY DEF Suspects
<1>1. CASE c \in Blamed
  <2>1. PICK q \in Request :
          /\ c = target[q] /\ method[q] \notin ReadsOnly
          /\ \/ q \in canceled' \ canceled
             \/ pc[q] = "calling" /\ pc'[q] = "returned" /\ answer[Act(q)] = Unknown
    BY <1>1 DEF Blamed
  <2>2. /\ target[q] \in Conn /\ phase[target[q]] \in Published
        /\ Uncertain(q)' /\ target'[q] = target[q]
    BY <1>0, <2>1, BlamedStep
  <2> QED BY <1>0, <2>1, <2>2
<1>2. CASE c \in suspect \ Healed
  <2>1. c \in Conn /\ phase[c] \in Published /\ phase'[c] \in Published
    BY <1>0, <1>2, ShapeParts DEF HistoryType, Suspects
  <2>2. SUFFICES ASSUME SessionIs(c)'
                 PROVE  \/ RequiresRecovery(c)'
                        \/ \E r \in Request : Uncertain(r)' /\ target'[r] = c
    BY <2>1
  <2>3. SessionIs(c) /\ (Gated(c) => Gated(c)')
    BY <1>0, <2>1, <2>2, GatedStep
  <2>4. CASE RequiresRecovery(c)
    <3>1. gate' # NoGate /\ gate'.session = c
      BY <2>3, <2>4 DEF RequiresRecovery, Gated
    <3>2. ~gate'.recovered
      BY <1>2, <2>4, <3>1 DEF Healed
    <3> QED BY <3>1, <3>2 DEF RequiresRecovery, Gated
  <2>5. CASE \E r \in Request : Uncertain(r) /\ target[r] = c
    <3>1. PICK q \in Request : Uncertain(q) /\ target[q] = c
      BY <2>5
    <3>2. (Uncertain(q)' /\ target'[q] = c) \/ RequiresRecovery(c)'
      BY <1>0, <2>3, <3>1, UncertainStep
    <3> QED BY <3>2
  <2> QED BY <1>2, <2>3, <2>4, <2>5 DEF Suspects
<1> QED BY <1>0, <1>1, <1>2 DEF History

\* Both invariants hold throughout.
LEMMA SuspectsInv == Spec => [](Inv /\ Returned /\ Suspects)
<1>1. Init => Inv /\ Returned /\ Suspects
  BY InitInv DEF Init, Returned, Suspects
<1>2. Inv /\ Returned /\ Suspects /\ [Next]_vars => (Inv /\ Returned /\ Suspects)'
  <2> SUFFICES ASSUME Inv, Returned, Suspects, [Next]_vars
               PROVE  Inv' /\ Returned' /\ Suspects'
    OBVIOUS
  <2>1. Inv'
    BY StepInv
  <2>2. CASE Next
    BY <2>1, <2>2, ReturnedStep, SuspectsStep DEF Inv, Next
  <2>3. CASE UNCHANGED vars
    BY <2>1, <2>3 DEF vars, hubVars, publicVars, actionVars, historyVars, Returned, Suspects,
       Act, Uncertain, SessionIs, RequiresRecovery, Gated
  <2> QED BY <2>1, <2>2, <2>3
<1> QED BY <1>1, <1>2, PTL DEF Spec

\* UnknownBlocksActing: after a mutation of unknown outcome perform_computer_action
\* admits no further one until the session recovers.
THEOREM UnknownBlocks == Spec => UnknownBlocksActing
<1>1. Inv /\ Returned /\ Suspects /\ [Next]_vars =>
        [\A r \in Request : pc[r] = "idle" /\ pc'[r] = "admitted" /\ method'[r] = "click"
           => target'[r] \notin suspect]_vars
  <2> SUFFICES ASSUME Inv, Suspects, Next, NEW r \in Request, pc[r] = "idle",
                      pc'[r] = "admitted", method'[r] = "click", target'[r] \in suspect
               PROVE  FALSE
    OBVIOUS
  <2>1. Shape /\ Step
    BY DEF Inv, Next
  <2>2. Admit(r)
    <3>1. ~(Untouched(r) \/ Continues(r) \/ Wake(r) \/ CallFails(r) \/ Cancel(r) \/ Settle(r))
      BY DEF Untouched, Continues, Wake, CallFails, Cancel, Settle
    <3> QED BY <2>1, <3>1, StepSeen
  <2>3. PICK m \in Methods :
          /\ m \in Exempt \/ ~RequiresRecovery(computer.session)
          /\ method' = [method EXCEPT ![r] = m]
          /\ target' = [target EXCEPT ![r] = computer.session]
    BY <2>2 DEF Admit
  <2>4. method'[r] = m /\ target'[r] = computer.session
    BY <2>1, <2>3, ShapeParts DEF ActionType
  <2>5. SessionIs(computer.session) /\ ~RequiresRecovery(computer.session)
    BY <2>2, <2>3, <2>4 DEF Admit, SessionIs, Exempt
  <2>6. PICK q \in Request : Uncertain(q)
    BY <2>4, <2>5 DEF Suspects
  <2>7. unsettled = {} /\ ~Live(q)
    BY <2>2 DEF Admit
  <2> QED BY <2>6, <2>7 DEF Uncertain, Live
<1> QED BY <1>1, SuspectsInv, PTL DEF Spec, UnknownBlocksActing

-----------------------------------------------------------------------------
(***************************************************************************)
(* The rollback of a share.                                                *)
(*                                                                         *)
(* The server does not say that a share was rolled back while its helper   *)
(* captures, unless the cleanup outlived its caller: the invariant about   *)
(* the action lock, the guard, and the commands on the wire behind it.     *)
(*                                                                         *)
(* The argument: a cleanup whose caller is still there holds the action    *)
(* lock, so no other start has its guard armed; a start that is still on   *)
(* the wire to the current connection has; so nothing on the wire can      *)
(* begin a capture between the stop and its publication.                   *)
(***************************************************************************)

\* The action lock has one holder.
OneLive == \A q, r \in Request : Live(q) /\ Live(r) => q = r

\* A request that has sent nothing yet, and one whose action succeeded.
Early == {"idle", "admitted"}
Late  == {"pausing", "observing", "observed", "committed"}

\* When a guard is armed, what is known of a start that is being observed, and
\* where a request is while its cleanup runs, unless its caller left.
Stages ==
  \A r \in Request :
    /\ r \in armed => method[r] = "share.start"
                      /\ pc[r] \in {"calling", "returned", "ending"} \cup Late
    /\ pc[r] \in Late /\ method[r] = "share.start" =>
         Act(r) \notin waiting /\ answer[Act(r)].kind = "ok"
    /\ pc[r] \in {"calling", "returned"} \cup Early \cup Late => cleanup[r] = "none"
    /\ cleanup[r] \in {"spawned", "stopping"} /\ r \notin canceled => pc[r] = "awaiting"

\* A call that may have been sent to c.
Sent(k, c) ==
  \E r \in Request :
    /\ target[r] = c
    /\ \/ k = Act(r) /\ pc[r] \notin Early
       \/ k = Look(r) /\ pc[r] # "idle"
       \/ k = Stop(r) /\ cleanup[r] \in {"stopping", "done"}

\* What is on the wire was sent.
Commands ==
  \A c \in Conn : \A i \in DOMAIN inbox[c] :
    /\ Sent(inbox[c][i].call, c)
    /\ \A r \in Request : inbox[c][i].call = Stop(r) => inbox[c][i].method = "share.stop"
    /\ \A r \in Request : inbox[c][i].call = Look(r) => inbox[c][i].method = "observe"

Replied(c, k) == \E j \in DOMAIN outbox[c] : outbox[c][j].type = "result" /\ outbox[c][j].call = k

Results == \A c \in Conn, k \in Call : Replied(c, k) => Sent(k, c)

\* A start that waits to be served by the current connection has its guard
\* armed; it was sent once and is not answered with a share.
Starts ==
  \A c \in Conn : \A i \in DOMAIN inbox[c] : inbox[c][i].method = "share.start" =>
    /\ current = c => \E r \in armed : inbox[c][i].call = Act(r)
    /\ \A j \in DOMAIN inbox[c] : inbox[c][j].call = inbox[c][i].call => j = i
    /\ ~Replied(c, inbox[c][i].call)
    /\ answer[inbox[c][i].call].kind # "ok"

\* The stop of r is confirmed, or will be.
Confirms(r, c) ==
  \/ answer[Stop(r)].kind = "ok"
  \/ \E i \in DOMAIN outbox[c] :
       /\ outbox[c][i].type = "result" /\ outbox[c][i].call = Stop(r)
       /\ outbox[c][i].answer.kind = "ok"

\* A confirmed stop that is yet to be published is still true.
Stops ==
  \A r \in Request \ canceled, c \in Conn :
    cleanup[r] = "stopping" /\ target[r] = c /\ current = c /\ Confirms(r, c)
      => capture[c] = NoShare

RolledBack(c) == SessionIs(c) /\ computer.share.kind = "rolledBack"

\* A start that is being observed has replaced what was rolled back.
Replaced ==
  \A r \in armed, c \in Conn :
    pc[r] \in Late /\ target[r] = c /\ RolledBack(c) => Abandoned(c)

\* Who left is not current.
Gone == current # NoConn => phase[current] # "left"

Control == OneLive /\ Stages
Wire    == Commands /\ Results /\ Starts /\ Stops
Rolled  == Gone /\ Control /\ Wire /\ Replaced /\ StoppedUnlessAbandoned

-----------------------------------------------------------------------------
(* What a step does to a request.                                          *)

\* Nothing, or it is a step of the request itself or of its cleanup.
Aside(q) ==
  /\ pc'[q] = pc[q] /\ method'[q] = method[q] /\ target'[q] = target[q]
  /\ q \in canceled' <=> q \in canceled
  /\ q \in armed' <=> q \in armed
  /\ cleanup'[q] = cleanup[q]
  /\ Act(q) \in waiting' => Act(q) \in waiting
  /\ Act(q) \notin waiting => answer'[Act(q)] = answer[Act(q)]

Own(q) == RequestStep(q) \/ Cancel(q) \/ CleanupStep(q)

\* Requests step one at a time.
LEMMA SeenFrom ==
  ASSUME Shape, Step, NEW q \in Request
  PROVE  Aside(q) \/ Own(q)
<1>1. ASSUME NEW r \in Request, q # r, RequestStep(r) \/ Cancel(r) \/ Settle(r) \/ CleanupStep(r)
      PROVE  Aside(q)
  <2>1. Untouched(q)
    BY <1>1, OthersUntouched
  <2>2. cleanup'[q] = cleanup[q]
    BY <1>1, ShapeParts DEF RequestStep, Cancel, Settle, CleanupStep, Admit, Dispatch, Wake,
       CallFails, InvalidResult, ClickReturns, CommitStatus, CommitTooLate, CommitStart,
       CommitStop, CallObserve, CommitObservation, ObservationFails, Disarm, AwaitCleanup,
       End, Finish, Unwind, CleanupCalls, CleanupConfirmed, CleanupUnproven, RejectShare, TaskType, taskVars
  <2>3. q \in armed' <=> q \in armed
    <3>1. UNCHANGED armed \/ (\E S \in SUBSET {r} : armed' = armed \ S \/ armed' = armed \cup S)
      <4>1. CASE \/ Admit(r) \/ Dispatch(r) \/ Wake(r) \/ CallFails(r) \/ InvalidResult(r)
                 \/ ClickReturns(r) \/ CommitStatus(r) \/ CommitTooLate(r)
        BY <4>1 DEF Admit, Dispatch, Wake, CallFails, InvalidResult, ClickReturns,
           CommitStatus, CommitTooLate
      <4>2. CASE CommitStart(r) \/ CommitStop(r) \/ CommitObservation(r) \/ ObservationFails(r)
        BY <4>2 DEF CommitStart, CommitStop, CommitObservation, ObservationFails, RejectShare
      <4>3. CASE CallObserve(r) \/ Disarm(r) \/ AwaitCleanup(r) \/ End(r) \/ Finish(r) \/ Unwind(r)
        BY <4>3 DEF CallObserve, Disarm, AwaitCleanup, End, Finish, Unwind, DropGuard
      <4>4. CASE Cancel(r) \/ Settle(r) \/ CleanupStep(r)
        BY <4>4 DEF Cancel, Settle, CleanupStep, CleanupCalls, CleanupConfirmed, CleanupUnproven,
           actionVars
      <4> QED BY <1>1, <4>1, <4>2, <4>3, <4>4 DEF RequestStep
    <3> QED BY <1>1, <3>1
  <2> QED BY <2>1, <2>2, <2>3 DEF Aside, Untouched
<1>2. ASSUME Settle(q) PROVE Aside(q)
  BY <1>2 DEF Settle, Aside, taskVars, hubVars
<1>3. ASSUME \/ \E c \in Conn : HandlerStep(c) \/ ClearRevoked(c) \/ HelperStep(c)
             \/ \E k \in Call : HubGivesUp(k)
      PROVE  Aside(q)
  <2>1. Untouched(q)
    BY <1>3, OutsideUntouched
  <2>2. UNCHANGED <<armed, cleanup>>
    BY <1>3 DEF HandlerStep, ClearRevoked, HelperStep, HubGivesUp, Attach, MarkReady,
       PublishHello, Leave, Resolve, ShareFrame, ShareError, Serve, EmitFrame, EmitError,
       HelperResets, actionVars, taskVars
  <2> QED BY <2>1, <2>2 DEF Aside, Untouched
<1> QED BY <1>1, <1>2, <1>3 DEF Step, Own
\* What a request and its cleanup never take back.
Grows(q) ==
  /\ pc[q] # "idle" => pc'[q] # "idle" /\ target'[q] = target[q] /\ method'[q] = method[q]
  /\ pc[q] \notin Early => pc'[q] \notin Early
  /\ q \in canceled => q \in canceled'
  /\ cleanup[q] \in {"stopping", "done"} => cleanup'[q] \in {"stopping", "done"}
  /\ cleanup[q] = "done" => cleanup'[q] = "done"

\* Requests and cleanups only go forward.
LEMMA GrowsStep ==
  ASSUME Shape, Stages, Step, NEW q \in Request
  PROVE  Grows(q)
<1>0. ActionType /\ TaskType
  BY ShapeParts
<1>1. CASE Aside(q)
  BY <1>1 DEF Aside, Grows
<1>2. CASE Admit(q) \/ Dispatch(q) \/ Wake(q) \/ CallFails(q) \/ InvalidResult(q) \/ ClickReturns(q)
  BY <1>0, <1>2 DEF Grows, Early, Admit, Dispatch, Wake, CallFails, InvalidResult, ClickReturns,
     Goto, ActionType, taskVars
<1>3. CASE CommitStatus(q) \/ CommitTooLate(q) \/ CommitStart(q) \/ CommitStop(q)
  BY <1>0, <1>3 DEF Grows, Early, Stages, CommitStatus, CommitTooLate, CommitStart, CommitStop,
     RejectShare, Goto, ActionType, TaskType, taskVars
<1>4. CASE CallObserve(q) \/ CommitObservation(q) \/ ObservationFails(q) \/ Disarm(q) \/ AwaitCleanup(q)
  BY <1>0, <1>4 DEF Grows, Early, Late, Stages, CallObserve, CommitObservation, ObservationFails,
     Disarm, AwaitCleanup, RejectShare, Goto, ActionType, TaskType, taskVars
<1>5. CASE End(q) \/ Finish(q) \/ Unwind(q) \/ Cancel(q)
  BY <1>0, <1>5 DEF Grows, Early, End, Finish, Unwind, Cancel, Live, Goto, ActionType, taskVars
<1>6. CASE CleanupStep(q)
  BY <1>0, <1>6 DEF Grows, CleanupStep, CleanupCalls, CleanupConfirmed, CleanupUnproven,
     TaskType, actionVars
<1> QED BY <1>1, <1>2, <1>3, <1>4, <1>5, <1>6, SeenFrom DEF Own, RequestStep

\* The stages of a request are kept.
LEMMA StagesStep ==
  ASSUME Shape, Returned, Stages, Step
  PROVE  Stages'
<1> SUFFICES ASSUME NEW q \in Request
             PROVE  /\ q \in armed' => method'[q] = "share.start"
                         /\ pc'[q] \in {"calling", "returned", "ending"} \cup Late
                    /\ pc'[q] \in Late /\ method'[q] = "share.start" =>
                         Act(q) \notin waiting' /\ answer'[Act(q)].kind = "ok"
                    /\ pc'[q] \in {"calling", "returned"} \cup Early \cup Late => cleanup'[q] = "none"
                    /\ cleanup'[q] \in {"spawned", "stopping"} /\ q \notin canceled' => pc'[q] = "awaiting"
  BY Zenon DEF Stages, Late, Early, Act
<1> DEFINE Stage ==
      /\ q \in armed => method[q] = "share.start"
           /\ pc[q] \in {"calling", "returned", "ending"} \cup Late
      /\ pc[q] \in Late /\ method[q] = "share.start" =>
           Act(q) \notin waiting /\ answer[Act(q)].kind = "ok"
      /\ pc[q] \in {"calling", "returned"} \cup Early \cup Late => cleanup[q] = "none"
      /\ cleanup[q] \in {"spawned", "stopping"} /\ q \notin canceled => pc[q] = "awaiting"
<1>0. /\ ActionType /\ TaskType /\ HubType /\ Stage
      /\ pc[q] = "returned" => Act(q) \notin waiting
      /\ pc[q] = "idle" => cleanup[q] = "none"
  BY ShapeParts DEF Stages, Returned, Targets
<1>c. Act(q) \in Call /\ Look(q) \in Call /\ Stop(q) \in Call /\ Act(q) # Look(q) /\ Act(q) # Stop(q)
  BY CallType, CallsDiffer
<1>1. CASE Aside(q)
  BY <1>0, <1>1 DEF Aside
<1>2. CASE Admit(q) \/ Wake(q) \/ CallFails(q) \/ InvalidResult(q) \/ ClickReturns(q)
  BY <1>0, <1>2 DEF Early, Late, Admit, Wake, CallFails, InvalidResult, ClickReturns,
     Goto, ActionType, taskVars, hubVars
<1>3. CASE Dispatch(q)
  <2>1. CASE pc'[q] = "ending" /\ UNCHANGED <<armed, method, cleanup, canceled>>
    BY <1>0, <1>3, <2>1 DEF Early, Late, Dispatch
  <2>2. CASE method[q] # "observe" /\ pc'[q] = "calling" /\ UNCHANGED <<method, cleanup, canceled>>
    BY <1>0, <1>3, <2>2 DEF Early, Late, Dispatch
  <2>3. CASE method[q] = "observe" /\ pc'[q] = "observing" /\ UNCHANGED <<method, cleanup, canceled>>
    BY <1>0, <1>3, <2>3 DEF Early, Late, Dispatch
  <2>4. UNCHANGED <<method, cleanup, canceled>> /\ pc[q] = "admitted"
    BY <1>3 DEF Dispatch, taskVars
  <2>5. \/ Goto(q, "ending") /\ UNCHANGED armed
        \/ method[q] # "observe" /\ Goto(q, "calling")
        \/ method[q] = "observe" /\ Goto(q, "observing")
    BY <1>3 DEF Dispatch
  <2>6. \/ pc'[q] = "ending" /\ UNCHANGED armed
        \/ method[q] # "observe" /\ pc'[q] = "calling"
        \/ method[q] = "observe" /\ pc'[q] = "observing"
    BY <1>0, <2>5 DEF Goto, ActionType
  <2> QED BY <2>1, <2>2, <2>3, <2>4, <2>6
<1>4. CASE CommitStatus(q) \/ CommitTooLate(q) \/ CommitStart(q) \/ CommitStop(q)
  BY <1>0, <1>4 DEF Early, Late, CommitStatus, CommitTooLate, CommitStart, CommitStop,
     RejectShare, Goto, ActionType, TaskType, taskVars, hubVars
<1>5. CASE CallObserve(q)
  <2>1. pc[q] = "pausing" /\ pc'[q] \in {"observing", "ending"}
        /\ UNCHANGED <<method, armed, canceled, cleanup>>
    BY <1>0, <1>5 DEF CallObserve, Goto, ActionType, taskVars
  <2>2. (Act(q) \in waiting' => Act(q) \in waiting) /\ answer'[Act(q)] = answer[Act(q)]
    BY <1>0, <1>5, <1>c, RelayOther DEF CallObserve, callVars
  <2> QED BY <1>0, <2>1, <2>2 DEF Early, Late
<1>6. CASE CommitObservation(q) \/ ObservationFails(q) \/ Disarm(q) \/ AwaitCleanup(q)
  BY <1>0, <1>6 DEF Early, Late, CommitObservation, ObservationFails,
     Disarm, AwaitCleanup, RejectShare, Goto, ActionType, TaskType, taskVars, hubVars
<1>7. CASE End(q) \/ Finish(q) \/ Unwind(q) \/ Cancel(q)
  BY <1>0, <1>7 DEF Early, Late, End, Finish, Unwind, Cancel, DropGuard, Live, Goto, ActionType,
     taskVars, hubVars
<1>8. CASE CleanupStep(q)
  <2>1. /\ UNCHANGED actionVars
        /\ cleanup[q] \in {"spawned", "stopping"} /\ cleanup'[q] \in {"stopping", "done"}
    BY <1>0, <1>8 DEF CleanupStep, CleanupCalls, CleanupConfirmed, CleanupUnproven, TaskType
  <2>2. (Act(q) \in waiting' => Act(q) \in waiting) /\ answer'[Act(q)] = answer[Act(q)]
    <3>1. UNCHANGED callVars \/ \E c, m : Relay(Stop(q), c, m)
      BY <1>8 DEF CleanupStep, CleanupCalls, CleanupConfirmed, CleanupUnproven, callVars, hubVars
    <3> QED BY <1>0, <1>c, <3>1, RelayOther DEF callVars
  <2> QED BY <1>0, <2>1, <2>2 DEF Early, Late, actionVars
<1> HIDE DEF Stage
<1> QED BY <1>1, <1>2, <1>3, <1>4, <1>5, <1>6, <1>7, <1>8, SeenFrom DEF Own, RequestStep

\* One request holds the action lock.
LEMMA OneLiveStep ==
  ASSUME Shape, OneLive, Step
  PROVE  OneLive'
<1> SUFFICES ASSUME NEW q \in Request, NEW r \in Request, Live(q)', Live(r)', q # r
             PROVE  FALSE
  BY DEF OneLive, Live
<1>1. ASSUME NEW p \in Request, Live(p)', ~Live(p)
      PROVE  Admit(p)
  <2>1. ActionType
    BY ShapeParts
  <2>2. ~Aside(p)
    BY <1>1 DEF Aside, Live
  <2>3. ~(\/ Dispatch(p) \/ Wake(p) \/ CallFails(p) \/ InvalidResult(p) \/ ClickReturns(p)
          \/ CommitStatus(p) \/ CommitTooLate(p) \/ CommitStart(p) \/ CommitStop(p)
          \/ CallObserve(p) \/ CommitObservation(p) \/ ObservationFails(p) \/ Disarm(p) \/ AwaitCleanup(p)
          \/ End(p) \/ Finish(p) \/ Unwind(p) \/ Cancel(p))
    BY <1>1 DEF Live, Dispatch, Wake, CallFails, InvalidResult, ClickReturns, CommitStatus,
       CommitTooLate, CommitStart, CommitStop, CallObserve, CommitObservation, ObservationFails,
       Disarm, AwaitCleanup, End, Finish, Unwind, Cancel
  <2>4. ~CleanupStep(p)
    BY <1>1 DEF CleanupStep, CleanupCalls, CleanupConfirmed, CleanupUnproven, actionVars, Live
  <2> QED BY <2>2, <2>3, <2>4, SeenFrom DEF Own, RequestStep
<1>2. ASSUME NEW p \in Request, NEW o \in Request, p # o, Admit(p) PROVE ~Live(o)'
  BY <1>2, ShapeParts DEF Admit, Goto, ActionType, Live
<1> QED BY <1>1, <1>2 DEF OneLive
-----------------------------------------------------------------------------
(* The wire.                                                               *)

\* What is on a queue after something is sent on it.
LEMMA AppendAt ==
  ASSUME NEW S, NEW q \in Seq(S), NEW m \in S, NEW i \in DOMAIN Append(q, m)
  PROVE  \/ i \in DOMAIN q /\ Append(q, m)[i] = q[i]
         \/ i = Len(q) + 1 /\ i \notin DOMAIN q /\ Append(q, m)[i] = m
  OBVIOUS

\* What is on a queue after its first message is taken.
LEMMA TailAt ==
  ASSUME NEW S, NEW q \in Seq(S), q # <<>>, NEW i \in DOMAIN Tail(q)
  PROVE  /\ i + 1 \in DOMAIN q /\ Tail(q)[i] = q[i + 1] /\ i \in Nat /\ i + 1 # 1
         /\ 1 \in DOMAIN q /\ Head(q) = q[1]
  OBVIOUS

\* The calls of a request, and the requests of a call.
LEMMA Purposes ==
  ASSUME NEW q, NEW r
  PROVE  /\ Act(q) = Act(r) \/ Look(q) = Look(r) \/ Stop(q) = Stop(r) => q = r
         /\ Act(q) # Look(r) /\ Act(q) # Stop(r) /\ Look(q) # Stop(r)
  BY DEF Act, Look, Stop

\* A call that may have been sent to c when the step is done.
SentNext(k, c) ==
  \E r \in Request :
    /\ target'[r] = c
    /\ \/ k = Act(r) /\ pc'[r] \notin Early
       \/ k = Look(r) /\ pc'[r] # "idle"
       \/ k = Stop(r) /\ cleanup'[r] \in {"stopping", "done"}

\* What was sent stays sent, ...
LEMMA SentStays ==
  ASSUME Shape, \A r \in Request : Grows(r), NEW k, NEW c, Sent(k, c)
  PROVE  SentNext(k, c)
<1>1. PICK r \in Request :
        /\ target[r] = c
        /\ \/ k = Act(r) /\ pc[r] \notin Early
           \/ k = Look(r) /\ pc[r] # "idle"
           \/ k = Stop(r) /\ cleanup[r] \in {"stopping", "done"} /\ pc[r] # "idle"
  BY ShapeParts DEF Sent, Targets
<1> QED BY <1>1 DEF SentNext, Grows, Early

\* ... and to one connection, which was published.
LEMMA SentOnce ==
  ASSUME Shape, NEW k, NEW c, Sent(k, c)
  PROVE  /\ c \in Conn /\ phase[c] \in Published
         /\ \A d : Sent(k, d) => d = c
         /\ \A r \in Request : k \in {Act(r), Look(r), Stop(r)} => target[r] = c
  BY ShapeParts, Purposes DEF Sent, Targets, Early

\* The first message answers k with a share.
Confirming(d, k) ==
  /\ current = d /\ phase[d] = "open" /\ outbox[d] # <<>> /\ Head(outbox[d]).type = "result"
  /\ Head(outbox[d]).call = k /\ Head(outbox[d]).answer.kind = "ok"

\* An answer comes from the wire.
LEMMA OkComes ==
  ASSUME Shape, Step, NEW k \in Call, answer'[k].kind = "ok", answer[k].kind # "ok"
  PROVE  \E d \in Conn : Confirming(d, k)
<1>0. HubType
  BY ShapeParts
<1>1. ASSUME NEW r \in Request, RequestStep(r) \/ Cancel(r) \/ Settle(r) \/ CleanupStep(r)
      PROVE  answer' = answer \/ \E j \in Call : \E c, m : Relay(j, c, m)
  <2>1. \/ answer' = answer
        \/ \E j \in {Act(r), Look(r), Stop(r)} : \E c, m : Relay(j, c, m)
    BY <1>1 DEF RequestStep, Cancel, Settle, CleanupStep, Admit, Dispatch, Wake, CallFails,
       InvalidResult, ClickReturns, CommitStatus, CommitTooLate, CommitStart, CommitStop,
       CallObserve, CommitObservation, ObservationFails, Disarm, AwaitCleanup, End, Finish, Unwind,
       CleanupCalls, CleanupConfirmed, CleanupUnproven, hubVars, callVars
  <2> QED BY <2>1, CallType
<1>2. ASSUME NEW j \in Call, NEW c, NEW m, Relay(j, c, m)
      PROVE  FALSE
  <2>1. CASE j = k
    BY <1>0, <1>2, <2>1 DEF Relay, NoAnswer, Refused, Answer, HubType
  <2>2. CASE j # k
    BY <1>0, <1>2, <2>2, RelayOther
  <2> QED BY <2>1, <2>2
<1>3. ASSUME NEW c \in Conn, HandlerStep(c) \/ ClearRevoked(c) \/ HelperStep(c)
      PROVE  answer' = answer \/ Resolve(c)
  BY <1>3 DEF HandlerStep, ClearRevoked, HelperStep, Attach, MarkReady, PublishHello,
     Leave, ShareFrame, ShareError, Serve, EmitFrame, EmitError, HelperResets, hubVars, callVars
<1>4. ASSUME NEW c \in Conn, Resolve(c)
      PROVE  Confirming(c, k)
  BY <1>0, <1>4 DEF Resolve, Confirming, HubType, callVars
<1>5. ASSUME NEW j \in Call, HubGivesUp(j)
      PROVE  FALSE
  BY <1>0, <1>5 DEF HubGivesUp, Unknown, Answer, HubType
<1> QED BY <1>1, <1>2, <1>3, <1>4, <1>5 DEF Step

\* A guard that is no longer armed has closed its transport, unless its start
\* was answered with a share: then it is rejected, or was observed.
LEMMA Disarms ==
  ASSUME Shape, Stages, Step, NEW q \in armed, q \notin armed'
  PROVE  \/ current' # target[q]
         \/ /\ answer[Act(q)].kind = "ok"
            /\ pc[q] \in Late \/ cleanup'[q] = "spawned"
<1>0. /\ q \in Request /\ method[q] = "share.start" /\ target[q] \in Conn
      /\ pc[q] \in {"calling", "returned", "ending"} \cup Late
      /\ pc[q] \in Late => answer[Act(q)].kind = "ok"
      /\ cleanup \in [Request -> {"none", "spawned", "stopping", "done"}]
  BY ShapeParts DEF Stages, ActionType, TaskType, Targets, Late
<1>1. ~Aside(q)
  BY DEF Aside
<1>2. CASE \/ Admit(q) \/ Dispatch(q) \/ Wake(q) \/ CallFails(q) \/ InvalidResult(q)
           \/ ClickReturns(q) \/ CommitStatus(q) \/ CommitTooLate(q)
  BY <1>2 DEF Admit, Dispatch, Wake, CallFails, InvalidResult, ClickReturns,
     CommitStatus, CommitTooLate
<1>3. CASE CommitStart(q)
  BY <1>0, <1>3 DEF CommitStart, RejectShare
<1>4. CASE CommitStop(q)
  BY <1>0, <1>4 DEF CommitStop
<1>5. CASE CommitObservation(q) \/ ObservationFails(q) \/ Disarm(q)
  BY <1>0, <1>5 DEF CommitObservation, ObservationFails, Disarm, Late
<1>6. CASE CallObserve(q) \/ AwaitCleanup(q) \/ Finish(q) \/ Cancel(q)
  BY <1>6 DEF CallObserve, AwaitCleanup, Finish, Cancel
<1>7. CASE End(q) \/ Unwind(q)
  BY <1>0, <1>7 DEF End, Unwind, DropGuard
<1>8. CASE CleanupStep(q)
  BY <1>8 DEF CleanupStep, CleanupCalls, CleanupConfirmed, CleanupUnproven, actionVars
<1> QED BY <1>0, <1>1, <1>2, <1>3, <1>4, <1>5, <1>6, <1>7, <1>8, SeenFrom DEF Own, RequestStep

\* A connection that was published and is current was so before.
LEMMA CurrentBefore ==
  ASSUME Shape, Step, NEW c \in Conn, phase[c] \in Published, current' = c
  PROVE  current = c
<1>1. HubType /\ c # NoConn
  BY ShapeParts
<1>2. ASSUME NEW r \in Request, RequestStep(r) \/ Cancel(r) \/ Settle(r) \/ CleanupStep(r)
      PROVE  current' \in {current, NoConn}
  BY <1>2 DEF RequestStep, Cancel, Settle, CleanupStep, Admit, Dispatch, Wake, CallFails,
     InvalidResult, ClickReturns, CommitStatus, CommitTooLate, CommitStart, CommitStop,
     CallObserve, CommitObservation, ObservationFails, Disarm, AwaitCleanup, End, Finish, Unwind,
     CleanupCalls, CleanupConfirmed, CleanupUnproven, RevokeTransport, DropGuard, hubVars
<1>3. ASSUME NEW d \in Conn, HandlerStep(d) \/ ClearRevoked(d) \/ HelperStep(d)
      PROVE  current' \in {current, NoConn} \/ (current' = d /\ phase[d] = "new")
  BY <1>3 DEF HandlerStep, ClearRevoked, HelperStep, Attach, MarkReady, PublishHello,
     Leave, Resolve, ShareFrame, ShareError, Serve, EmitFrame, EmitError, HelperResets, hubVars
<1>4. ASSUME NEW k \in Call, HubGivesUp(k) PROVE current' = current
  BY <1>4 DEF HubGivesUp
<1> QED BY <1>1, <1>2, <1>3, <1>4 DEF Step, Published
\* What a step may put on a wire to a helper: one command of a request.
PostsOne(q, c, k, m) ==
  /\ c = target[q] /\ UNCHANGED <<outbox, capture>>
  /\ inbox' = [inbox EXCEPT ![c] = Append(@, [call |-> k, method |-> m])]
  /\ \/ /\ k = Act(q) /\ pc[q] = "admitted" /\ pc'[q] = "calling" /\ target'[q] = c
        /\ answer'[k].kind # "ok" /\ phase[c] \in Published
        /\ m = "share.start" => q \in armed'
     \/ /\ k = Look(q) /\ pc[q] # "idle" /\ m = "observe"
     \/ /\ k = Stop(q) /\ cleanup'[q] = "stopping" /\ pc[q] # "idle" /\ m = "share.stop"

Posts == \E q \in Request, c \in Conn, k \in Call, m \in Methods : PostsOne(q, c, k, m)

\* The server takes the first message of a helper.
Takes(c) ==
  /\ UNCHANGED <<inbox, capture>> /\ outbox[c] # <<>>
  /\ outbox' = [outbox EXCEPT ![c] = Tail(@)]

\* What helper c does on its own: an event, or a reset.
Emits(c) ==
  /\ capture'[c] \in {capture[c], NoShare} /\ \A d \in Conn \ {c} : capture'[d] = capture[d]
  /\ inbox' = inbox
  /\ \E m \in Messages : m.type # "result" /\ outbox' = [outbox EXCEPT ![c] = Append(@, m)]

Empties(c) ==
  /\ capture'[c] = NoShare /\ \A d \in Conn \ {c} : capture'[d] = capture[d]
  /\ inbox' = [inbox EXCEPT ![c] = <<>>] /\ outbox' = [outbox EXCEPT ![c] = <<>>]

Silent == UNCHANGED <<inbox, outbox, capture>>

\* The helper serves k: only a start begins a capture, and only a stop that was
\* carried out is confirmed.
Serves(c, k, m) ==
  /\ inbox[c] # <<>> /\ Head(inbox[c]) = [call |-> k, method |-> m]
  /\ inbox' = [inbox EXCEPT ![c] = Tail(@)]
  /\ \/ outbox' = outbox
     \/ \E a \in Answers : /\ outbox' = [outbox EXCEPT ![c] = Append(@, Result(k, a))]
                           /\ m = "share.stop" /\ a.kind = "ok" => capture'[c] = NoShare
  /\ \A d \in Conn \ {c} : capture'[d] = capture[d]
  /\ capture'[c] \in {capture[c], NoShare} \/ m = "share.start"

\* A request sends its action, its observation, or its cleanup.
LEMMA RelayPosts ==
  ASSUME Shape, NEW q \in Request, NEW k \in Call, NEW m \in Methods, Relay(k, target[q], m),
         UNCHANGED <<outbox, capture>>, target[q] \in Conn
  PROVE  \/ Silent
         \/ /\ inbox' = [inbox EXCEPT ![target[q]] = Append(@, [call |-> k, method |-> m])]
            /\ answer'[k].kind # "ok" /\ phase[target[q]] # "new"
<1>1. HubType
  BY ShapeParts
<1> QED BY <1>1 DEF Relay, Silent, NoAnswer, Answer, HubType, Ready

\* Every step does one of these things to the wire.
LEMMA WireKinds ==
  ASSUME Shape, Step
  PROVE  \/ Silent \/ Posts
         \/ \E c \in Conn : Takes(c) \/ Emits(c) \/ Empties(c)
         \/ \E c \in Conn, k \in Call, m \in Methods : Serves(c, k, m)
<1>0. /\ HubType /\ ActionType /\ TaskType /\ HelperType
      /\ \A r \in Request : pc[r] # "idle" => target[r] \in Conn /\ phase[target[r]] \in Published
      /\ \A r \in Request : cleanup[r] # "none" => pc[r] # "idle"
  BY ShapeParts DEF Targets
<1>1. ASSUME NEW r \in Request, Dispatch(r)
      PROVE  Silent \/ Posts
  <2>1. target[r] \in Conn /\ pc[r] = "admitted" /\ target' = target /\ UNCHANGED <<outbox, capture>>
        /\ phase[target[r]] \in Published
    BY <1>0, <1>1 DEF Dispatch
  <2>2. \/ Silent
        \/ Relay(Look(r), target[r], "observe")
        \/ /\ Relay(Act(r), target[r], method[r]) /\ pc'[r] = "calling"
           /\ method[r] = "share.start" => r \in armed'
    <3>1. \/ Goto(r, "ending") /\ UNCHANGED <<callVars, inbox, armed>>
          \/ Relay(Look(r), target[r], "observe")
          \/ /\ Relay(Act(r), target[r], method[r]) /\ Goto(r, "calling")
             /\ method[r] = "share.start" => r \in armed'
      BY <1>1 DEF Dispatch
    <3> QED BY <1>0, <2>1, <3>1 DEF Silent, Goto, ActionType
  <2>3. CASE Relay(Look(r), target[r], "observe")
    <3>1. "observe" \in Methods /\ Look(r) \in Call
      BY CallType DEF Methods
    <3> QED BY <2>1, <2>3, <3>1, RelayPosts DEF Posts, PostsOne
  <2>4. CASE /\ Relay(Act(r), target[r], method[r]) /\ pc'[r] = "calling"
             /\ method[r] = "share.start" => r \in armed'
    <3>1. method[r] \in Methods /\ Act(r) \in Call
      BY <1>0, CallType DEF ActionType
    <3>2. \/ Silent
          \/ /\ inbox' = [inbox EXCEPT ![target[r]] = Append(@, [call |-> Act(r), method |-> method[r]])]
             /\ answer'[Act(r)].kind # "ok"
      BY <2>1, <2>4, <3>1, RelayPosts
    <3> QED BY <2>1, <2>4, <3>1, <3>2 DEF Posts, PostsOne
  <2> QED BY <2>2, <2>3, <2>4
<1>2. ASSUME NEW r \in Request, CallObserve(r)
      PROVE  Silent \/ Posts
  <2>1. target[r] \in Conn /\ pc[r] # "idle" /\ UNCHANGED <<outbox, capture>>
    BY <1>0, <1>2 DEF CallObserve
  <2>2. Silent \/ Relay(Look(r), target[r], "observe")
    BY <1>2, <2>1 DEF CallObserve, Silent
  <2>3. "observe" \in Methods /\ Look(r) \in Call
    BY CallType DEF Methods
  <2> QED BY <2>1, <2>2, <2>3, RelayPosts DEF Posts, PostsOne
<1>3. ASSUME NEW r \in Request, CleanupCalls(r)
      PROVE  Silent \/ Posts
  <2>1. /\ target[r] \in Conn /\ pc[r] # "idle" /\ UNCHANGED <<outbox, capture>>
        /\ cleanup'[r] = "stopping" /\ Relay(Stop(r), target[r], "share.stop")
    BY <1>0, <1>3 DEF CleanupCalls, TaskType
  <2>2. "share.stop" \in Methods /\ Stop(r) \in Call
    BY CallType DEF Methods
  <2> QED BY <2>1, <2>2, RelayPosts DEF Posts, PostsOne
<1>4. ASSUME NEW r \in Request, \/ Admit(r) \/ Wake(r) \/ CallFails(r) \/ InvalidResult(r)
             \/ ClickReturns(r) \/ CommitStatus(r) \/ CommitTooLate(r) \/ CommitStart(r)
             \/ CommitStop(r) \/ CommitObservation(r) \/ ObservationFails(r)
             \/ Disarm(r) \/ AwaitCleanup(r) \/ End(r) \/ Finish(r) \/ Unwind(r) \/ Cancel(r) \/ Settle(r)
             \/ CleanupConfirmed(r) \/ CleanupUnproven(r)
      PROVE  Silent
  BY <1>4 DEF Silent, Admit, Wake, CallFails, InvalidResult, ClickReturns, CommitStatus,
     CommitTooLate, CommitStart, CommitStop, CommitObservation, ObservationFails, Disarm, AwaitCleanup,
     End, Finish, Unwind, Cancel, Settle, CleanupConfirmed, CleanupUnproven, helperVars
<1>5. ASSUME NEW c \in Conn, \/ Attach(c) \/ MarkReady(c) \/ PublishHello(c) \/ Leave(c)
                             \/ ClearRevoked(c)
      PROVE  Silent
  BY <1>5 DEF Silent, Attach, MarkReady, PublishHello, Leave, ClearRevoked, helperVars
<1>6. ASSUME NEW c \in Conn, Resolve(c) \/ ShareFrame(c) \/ ShareError(c)
      PROVE  Takes(c)
  BY <1>6 DEF Takes, Resolve, ShareFrame, ShareError
<1>7. ASSUME NEW c \in Conn, EmitFrame(c)
      PROVE  Emits(c)
  <2>1. Event("frame", capture[c]) \in Messages /\ Event("frame", capture[c]).type # "result"
    BY <1>0, <1>7 DEF EmitFrame, Event, Messages, HelperType, Shares
  <2> QED BY <1>7, <2>1 DEF Emits, EmitFrame
<1>8. ASSUME NEW c \in Conn, EmitError(c)
      PROVE  Emits(c)
  <2>1. Event("error", capture[c]) \in Messages /\ Event("error", capture[c]).type # "result"
    BY <1>0, <1>8 DEF EmitError, Event, Messages, HelperType, Shares
  <2> QED BY <1>0, <1>8, <2>1 DEF Emits, EmitError, CaptureIs, HelperType
<1>9. ASSUME NEW c \in Conn, HelperResets(c)
      PROVE  Empties(c)
  BY <1>0, <1>9 DEF Empties, HelperResets, CaptureIs, HelperType
<1>10. ASSUME NEW c \in Conn, Serve(c)
       PROVE  \E k \in Call, m \in Methods : Serves(c, k, m)
  <2> DEFINE k == Head(inbox[c]).call
             m == Head(inbox[c]).method
  <2>1. /\ inbox[c] # <<>> /\ inbox' = [inbox EXCEPT ![c] = Tail(@)]
        /\ \/ (m # "share.stop" \/ k \in cancels) /\ Reply(c, k, Refused) /\ UNCHANGED <<capture, drawn>>
           \/ m = "share.start" /\ ShareStarts(c, k)
           \/ m = "share.stop" /\ ShareStops(c, k)
           \/ m = "click" /\ Mutates(c, k)
           \/ m \in ReadsOnly /\ Reports(c, k)
    BY <1>10 DEF Serve
  <2>2. k \in Call /\ m \in Methods /\ Head(inbox[c]) = [call |-> k, method |-> m]
    <3> DEFINE Command == [call : Call, method : Methods]
    <3>1. inbox[c] \in Seq(Command)
      BY <1>0 DEF HelperType
    <3> HIDE DEF Command
    <3>2. Head(inbox[c]) \in Command
      BY <2>1, <3>1
    <3> QED BY <3>2 DEF Command
  <2> HIDE DEF k, m
  <2>3. \/ capture' = capture
        \/ CaptureIs(c, NoShare)
        \/ m = "share.start" /\ \E s : CaptureIs(c, s)
    BY <2>1 DEF ShareStarts, ShareStops, Mutates, Reports
  <2>4. /\ \A d \in Conn \ {c} : capture'[d] = capture[d]
        /\ capture'[c] \in {capture[c], NoShare} \/ m = "share.start"
    BY <1>0, <2>3 DEF CaptureIs, HelperType
  <2>5. \E a \in Answers : /\ Reply(c, k, a)
                           /\ m = "share.stop" /\ a.kind = "ok" => capture'[c] = NoShare
    <3>1. /\ Refused \in Answers /\ Unknown \in Answers
          /\ Answer("ok", NoShare) \in Answers /\ Answer("malformed", NoShare) \in Answers
          /\ \A s \in Shares : Answer("ok", s) \in Answers
      BY AnswerType DEF Refused, Unknown, Shares
    <3>2. capture[c] \in Shares /\ capture \in [Conn -> Shares]
      BY <1>0 DEF HelperType
    <3>3. CASE (m # "share.stop" \/ k \in cancels) /\ Reply(c, k, Refused)
      BY <3>1, <3>3 DEF Refused, Answer
    <3>4. CASE m = "share.start" /\ ShareStarts(c, k)
      BY <3>1, <3>4 DEF ShareStarts, Shares
    <3>5. CASE m = "share.stop" /\ ShareStops(c, k)
      BY <3>1, <3>2, <3>5 DEF ShareStops, CaptureIs
    <3>6. CASE m = "click" /\ Mutates(c, k)
      BY <3>1, <3>6 DEF Mutates
    <3>7. CASE m \in ReadsOnly /\ Reports(c, k)
      BY <3>1, <3>2, <3>7 DEF Reports, ReadsOnly
    <3> QED BY <2>1, <3>3, <3>4, <3>5, <3>6, <3>7
  <2>6. \/ outbox' = outbox
        \/ \E a \in Answers : /\ outbox' = [outbox EXCEPT ![c] = Append(@, Result(k, a))]
                              /\ m = "share.stop" /\ a.kind = "ok" => capture'[c] = NoShare
    BY <2>5 DEF Reply
  <2> QED BY <2>1, <2>2, <2>4, <2>6 DEF Serves
<1>11. ASSUME NEW k \in Call, HubGivesUp(k) PROVE Silent
  BY <1>11 DEF HubGivesUp, Silent, helperVars
<1>12. ASSUME NEW r \in Request, RequestStep(r) \/ Cancel(r) \/ Settle(r) \/ CleanupStep(r)
       PROVE  Silent \/ Posts
  BY <1>1, <1>2, <1>3, <1>4, <1>12 DEF RequestStep, CleanupStep
<1>13. ASSUME NEW c \in Conn, HandlerStep(c) \/ ClearRevoked(c) \/ HelperStep(c)
       PROVE  \/ Silent \/ Takes(c) \/ Emits(c) \/ Empties(c)
              \/ \E k \in Call, m \in Methods : Serves(c, k, m)
  BY <1>5, <1>6, <1>7, <1>8, <1>9, <1>10, <1>13 DEF HandlerStep, HelperStep
<1> QED BY <1>11, <1>12, <1>13 DEF Step
\* The invariants of the wire are kept.
LEMMA CommandsStep ==
  ASSUME Shape, Stages, Commands, Step
  PROVE  Commands'
<1>0. /\ HelperType /\ \A r \in Request : Grows(r)
      /\ \A r \in Request : pc[r] # "idle" => target[r] \in Conn
  BY GrowsStep, ShapeParts DEF Targets
<1> DEFINE Command == [call : Call, method : Methods]
           Fits(m) == \A r \in Request : /\ m.call = Stop(r) => m.method = "share.stop"
                                         /\ m.call = Look(r) => m.method = "observe"
           Good(m, c) == Sent(m.call, c) /\ Fits(m)
           Good1(m, c) == SentNext(m.call, c) /\ Fits(m)
<1>1. ASSUME NEW c \in Conn PROVE inbox[c] \in Seq(Command) /\ \A i \in DOMAIN inbox[c] : Good1(inbox[c][i], c)
  <2>1. \A i \in DOMAIN inbox[c] : Good(inbox[c][i], c)
    BY DEF Commands
  <2>2. inbox[c] \in Seq(Command)
    BY <1>0 DEF HelperType
  <2> HIDE DEF Command
  <2> QED BY <1>0, <2>1, <2>2, SentStays
<1>s. ASSUME \A c \in Conn : \A i \in DOMAIN inbox'[c] : Good1(inbox'[c][i], c)
      PROVE  Commands'
  <2> SUFFICES ASSUME NEW c \in Conn, NEW i \in DOMAIN inbox'[c]
               PROVE  /\ Sent(inbox[c][i].call, c)'
                      /\ \A r \in Request :
                           /\ inbox'[c][i].call = Stop(r) => inbox'[c][i].method = "share.stop"
                           /\ inbox'[c][i].call = Look(r) => inbox'[c][i].method = "observe"
    BY Zenon DEF Commands, Stop, Look
  <2>1. SentNext(inbox'[c][i].call, c) /\ Fits(inbox'[c][i])
    BY <1>s
  <2>2. Sent(inbox[c][i].call, c)'
    <3> HIDE DEF Fits
    <3> QED BY <2>1 DEF Sent, SentNext, Act, Look, Stop
  <2> QED BY <2>1, <2>2
<1> SUFFICES ASSUME NEW c \in Conn, NEW i \in DOMAIN inbox'[c]
             PROVE  Good1(inbox'[c][i], c)
  BY <1>s
<1> HIDE DEF Good1
<1>2. CASE inbox' = inbox
  BY <1>1, <1>2
<1>3. CASE Posts
  <2>p. PICK q \in Request, d \in Conn, k \in Call, m \in Methods : PostsOne(q, d, k, m)
    BY <1>3 DEF Posts
  <2>1. /\ d = target[q]
        /\ inbox' = [inbox EXCEPT ![d] = Append(@, [call |-> k, method |-> m])]
        /\ \/ /\ k = Act(q) /\ pc[q] = "admitted" /\ pc'[q] = "calling" /\ target'[q] = d
           \/ /\ k = Look(q) /\ pc[q] # "idle" /\ m = "observe"
           \/ /\ k = Stop(q) /\ cleanup'[q] = "stopping" /\ pc[q] # "idle" /\ m = "share.stop"
    BY <2>p DEF PostsOne
  <2> DEFINE x == [call |-> k, method |-> m]
  <2>2. Good1(x, d)
    <3>1. target'[q] = d /\ Grows(q)
      BY <1>0, <2>1 DEF Grows
    <3>2. SentNext(k, d)
      BY <2>1, <3>1 DEF SentNext, Grows, Early
    <3>3. \A r \in Request : (k = Stop(r) => m = "share.stop") /\ (k = Look(r) => m = "observe")
      BY <2>1, Purposes
    <3> QED BY <3>2, <3>3 DEF Good1
  <2>3. inbox[c] \in Seq(Command) /\ x \in Command
    BY <1>1
  <2>4. CASE c = d
    <3>1. inbox'[c] = Append(inbox[c], x)
      BY <1>0, <2>1, <2>4 DEF HelperType
    <3> HIDE DEF x, Command
    <3>2. inbox'[c][i] = x \/ (i \in DOMAIN inbox[c] /\ inbox'[c][i] = inbox[c][i])
      BY <2>3, <3>1, AppendAt
    <3> QED BY <1>1, <2>2, <2>4, <3>2
  <2>5. CASE c # d
    BY <1>0, <1>1, <2>1, <2>5 DEF HelperType
  <2> QED BY <2>4, <2>5
<1>4. ASSUME NEW d \in Conn, Empties(d)
      PROVE  Good1(inbox'[c][i], c)
  <2>1. inbox' = [inbox EXCEPT ![d] = <<>>] /\ inbox \in [Conn -> Seq(Command)]
    BY <1>0, <1>4 DEF Empties, HelperType
  <2>2. CASE c = d
    BY <2>1, <2>2
  <2>3. CASE c # d
    BY <1>1, <2>1, <2>3
  <2> QED BY <2>2, <2>3
<1>5. ASSUME NEW d \in Conn, inbox[d] # <<>>, inbox' = [inbox EXCEPT ![d] = Tail(@)]
      PROVE  Good1(inbox'[c][i], c)
  <2>1. inbox \in [Conn -> Seq(Command)]
    BY <1>0 DEF HelperType
  <2>2. CASE c = d
    <3>1. inbox'[c] = Tail(inbox[c]) /\ inbox[c] \in Seq(Command)
      BY <1>5, <2>1, <2>2
    <3> HIDE DEF Command
    <3>2. i + 1 \in DOMAIN inbox[c] /\ inbox'[c][i] = inbox[c][i + 1]
      BY <1>5, <2>2, <3>1, TailAt
    <3> QED BY <1>1, <3>2
  <2>3. CASE c # d
    BY <1>1, <1>5, <2>1, <2>3
  <2> QED BY <2>2, <2>3
<1> HIDE DEF Command
<1> QED BY <1>2, <1>3, <1>4, <1>5, WireKinds DEF Silent, Takes, Emits, Serves

\* A step that is not Serves adds no result, and a result that is served is of
\* a command that was on the wire.
LEMMA RepliedStep ==
  ASSUME Shape, Step, NEW c \in Conn, NEW k \in Call, Replied(c, k)'
  PROVE  \/ Replied(c, k)
         \/ \E m \in Methods : Serves(c, k, m)
<1>0. HelperType
  BY ShapeParts
<1>p. PICK i \in DOMAIN outbox'[c] : outbox'[c][i].type = "result" /\ outbox'[c][i].call = k
  BY DEF Replied
<1>1. ASSUME outbox' = outbox PROVE Replied(c, k)
  BY <1>p, <1>1 DEF Replied
<1>2. ASSUME NEW d \in Conn, Takes(d)
      PROVE  Replied(c, k)
  <2>1. outbox \in [Conn -> Seq(Messages)] /\ outbox' = [outbox EXCEPT ![d] = Tail(@)] /\ outbox[d] # <<>>
    BY <1>0, <1>2 DEF Takes, HelperType
  <2>2. CASE c = d
    <3>1. outbox'[c] = Tail(outbox[c]) /\ outbox[c] \in Seq(Messages)
      BY <2>1, <2>2
    <3>2. i + 1 \in DOMAIN outbox[c] /\ outbox'[c][i] = outbox[c][i + 1]
      BY <1>p, <2>1, <2>2, <3>1, TailAt
    <3> QED BY <1>p, <3>2 DEF Replied
  <2>3. CASE c # d
    BY <2>1, <2>3 DEF Replied
  <2> QED BY <2>2, <2>3
<1>3. ASSUME NEW d \in Conn, NEW m \in Messages, outbox' = [outbox EXCEPT ![d] = Append(@, m)],
             ~Replied(c, k)
      PROVE  c = d /\ m.type = "result" /\ m.call = k
  <2>1. outbox \in [Conn -> Seq(Messages)]
    BY <1>0 DEF HelperType
  <2>2. CASE c = d
    <3>1. outbox'[c] = Append(outbox[c], m) /\ outbox[c] \in Seq(Messages)
      BY <1>3, <2>1, <2>2
    <3>2. (i \in DOMAIN outbox[c] /\ outbox'[c][i] = outbox[c][i]) \/ outbox'[c][i] = m
      BY <1>p, <3>1, AppendAt
    <3> QED BY <1>3, <1>p, <2>2, <3>2 DEF Replied
  <2>3. CASE c # d
    BY <1>3, <2>1, <2>3 DEF Replied
  <2> QED BY <2>2, <2>3
<1>4. ASSUME NEW d \in Conn, Emits(d)
      PROVE  Replied(c, k)
  BY <1>3, <1>4 DEF Emits
<1>5. ASSUME NEW d \in Conn, Empties(d)
      PROVE  Replied(c, k)
  <2>1. outbox \in [Conn -> Seq(Messages)] /\ outbox' = [outbox EXCEPT ![d] = <<>>]
    BY <1>0, <1>5 DEF Empties, HelperType
  <2>2. CASE c = d
    BY <1>p, <2>1, <2>2
  <2>3. CASE c # d
    BY <2>1, <2>3 DEF Replied
  <2> QED BY <2>2, <2>3
<1>6. ASSUME NEW d \in Conn, NEW j \in Call, NEW m \in Methods, Serves(d, j, m), ~Replied(c, k)
      PROVE  c = d /\ k = j
  <2>1. CASE outbox' = outbox
    BY <1>1, <1>6, <2>1
  <2>2. ASSUME NEW a \in Answers, outbox' = [outbox EXCEPT ![d] = Append(@, Result(j, a))]
        PROVE  c = d /\ k = j
    <3>1. Result(j, a) \in Messages /\ Result(j, a).call = j
      BY DEF Result, Messages
    <3> DEFINE x == Result(j, a)
    <3>2. x \in Messages /\ x.call = j /\ outbox' = [outbox EXCEPT ![d] = Append(@, x)]
      BY <2>2, <3>1
    <3> HIDE DEF x
    <3>3. c = d /\ x.call = k
      BY <1>3, <1>6, <3>2
    <3> QED BY <3>2, <3>3
  <2> QED BY <1>6, <2>1, <2>2 DEF Serves
<1> QED BY <1>1, <1>2, <1>4, <1>5, <1>6, WireKinds DEF Silent, Posts, PostsOne

\* What is served was on the wire.
LEMMA ServedFacts ==
  ASSUME Shape, NEW c \in Conn, NEW k \in Call, NEW m \in Methods, Serves(c, k, m)
  PROVE  1 \in DOMAIN inbox[c] /\ inbox[c][1].call = k /\ inbox[c][1].method = m
<1>1. inbox[c] \in Seq([call : Call, method : Methods]) /\ inbox[c] # <<>>
  BY ShapeParts DEF Serves, HelperType
<1>2. 1 \in DOMAIN inbox[c] /\ inbox[c][1] = Head(inbox[c])
  BY <1>1
<1> QED BY <1>2 DEF Serves

\* Results are of calls that were sent.
LEMMA ResultsStep ==
  ASSUME Shape, Stages, Commands, Results, Step
  PROVE  Results'
<1> SUFFICES ASSUME NEW c \in Conn, NEW k \in Call, Replied(c, k)'
             PROVE  SentNext(k, c)
  BY DEF Results, Replied, Sent, SentNext, Act, Look, Stop
<1>1. Sent(k, c)
  <2>1. CASE Replied(c, k)
    BY <2>1 DEF Results
  <2>2. ASSUME NEW m \in Methods, Serves(c, k, m)
        PROVE  Sent(k, c)
    BY <2>2, ServedFacts DEF Commands
  <2> QED BY <2>1, <2>2, RepliedStep
<1> QED BY <1>1, SentStays, GrowsStep
\* What a step does to the commands that wait at c.
LEMMA InboxStep ==
  ASSUME Shape, Step, NEW c \in Conn
  PROVE  \/ inbox'[c] = inbox[c] \/ inbox'[c] = <<>>
         \/ \E q \in Request, k \in Call, m \in Methods :
              /\ inbox'[c] = Append(inbox[c], [call |-> k, method |-> m])
              /\ outbox' = outbox
              /\ \/ /\ k = Act(q) /\ pc[q] = "admitted"
                    /\ answer'[k].kind # "ok"
                    /\ m = "share.start" => q \in armed'
                 \/ k = Look(q) /\ m = "observe"
                 \/ k = Stop(q) /\ m = "share.stop"
         \/ inbox[c] # <<>> /\ inbox'[c] = Tail(inbox[c])
<1>0. HelperType
  BY ShapeParts
<1>1. CASE Silent
  BY <1>1 DEF Silent
<1>2. CASE Posts
  <2>p. PICK q \in Request, d \in Conn, k \in Call, m \in Methods : PostsOne(q, d, k, m)
    BY <1>2 DEF Posts
  <2>1. /\ UNCHANGED <<outbox, capture>>
        /\ inbox' = [inbox EXCEPT ![d] = Append(@, [call |-> k, method |-> m])]
        /\ \/ /\ k = Act(q) /\ pc[q] = "admitted"
              /\ answer'[k].kind # "ok"
              /\ m = "share.start" => q \in armed'
           \/ k = Look(q) /\ m = "observe"
           \/ k = Stop(q) /\ m = "share.stop"
    BY <2>p DEF PostsOne
  <2>2. CASE c # d
    BY <1>0, <2>1, <2>2 DEF HelperType
  <2>3. CASE c = d
    <3>1. inbox'[c] = Append(inbox[c], [call |-> k, method |-> m])
      BY <1>0, <2>1, <2>3 DEF HelperType
    <3> QED BY <2>1, <3>1
  <2> QED BY <2>2, <2>3
<1>3. ASSUME NEW d \in Conn, Takes(d) \/ Emits(d)
      PROVE  inbox' = inbox
  BY <1>3 DEF Takes, Emits
<1>4. ASSUME NEW d \in Conn, Empties(d)
      PROVE  inbox'[c] = inbox[c] \/ inbox'[c] = <<>>
  BY <1>0, <1>4 DEF Empties, HelperType
<1>5. ASSUME NEW d \in Conn, NEW k \in Call, NEW m \in Methods, Serves(d, k, m)
      PROVE  inbox'[c] = inbox[c] \/ (inbox[c] # <<>> /\ inbox'[c] = Tail(inbox[c]))
  BY <1>0, <1>5 DEF Serves, HelperType
<1> QED BY <1>1, <1>2, <1>3, <1>4, <1>5, WireKinds

\* Starts stay guarded until they are served or their connection is closed.
LEMMA StartsStep ==
  ASSUME Shape, Stages, Commands, Results, Starts, Step
  PROVE  Starts'
<1> DEFINE Command == [call : Call, method : Methods]
<1> SUFFICES ASSUME NEW c \in Conn, NEW i \in DOMAIN inbox'[c], NEW k, k = inbox'[c][i].call,
                    inbox'[c][i].method = "share.start"
             PROVE  /\ current' = c => \E r \in armed' : k = Act(r)
                    /\ \A j \in DOMAIN inbox'[c] : inbox'[c][j].call = k => j = i
                    /\ ~Replied(c, k)'
                    /\ answer'[k].kind # "ok"
  BY DEF Starts, Replied, Act
<1>0. inbox[c] \in Seq(Command) /\ \A r \in Request : pc[r] \in Early => ~Sent(Act(r), c)
  BY ShapeParts, Purposes DEF HelperType, Sent
<1>d. ASSUME NEW j \in DOMAIN inbox[c], inbox[c][j].call = k
      PROVE  Sent(k, c)
  BY <1>d DEF Commands
<1> HIDE DEF Command
<1>1. ASSUME NEW e \in DOMAIN inbox[c], inbox[c][e] = inbox'[c][i]
      PROVE  /\ current' = c => \E r \in armed' : k = Act(r)
             /\ ~Replied(c, k)'
             /\ answer'[k].kind # "ok"
  <2>1. /\ current = c => \E r \in armed : k = Act(r)
        /\ \A j \in DOMAIN inbox[c] : inbox[c][j].call = k => j = e
        /\ ~Replied(c, k) /\ answer[k].kind # "ok"
    BY <1>1 DEF Starts
  <2>2. /\ Sent(k, c) /\ phase[c] \in Published /\ \A d : Sent(k, d) => d = c
        /\ \A r \in Request : k = Act(r) => target[r] = c
    BY <1>1, <1>d, SentOnce
  <2>3. k \in Call
    <3>1. inbox[c][e] \in Command
      BY <1>0
    <3> QED BY <1>1, <3>1 DEF Command
  <2>4. ASSUME current' = c PROVE \E r \in armed' : k = Act(r)
    <3>1. current = c
      BY <2>2, <2>4, CurrentBefore
    <3>2. PICK r \in armed : k = Act(r)
      BY <2>1, <3>1
    <3>3. r \in Request /\ target[r] = c
      BY <2>2, <3>2, ShapeParts DEF ActionType
    <3>4. r \in armed'
      BY <2>1, <2>4, <3>2, <3>3, Disarms
    <3> QED BY <3>2, <3>4
  <2>5. ASSUME Replied(c, k)' PROVE FALSE
    <3>1. PICK m \in Methods : Serves(c, k, m)
      BY <2>1, <2>3, <2>5, RepliedStep
    <3>2. inbox'[c] = Tail(inbox[c]) /\ inbox[c] # <<>>
      BY <3>1, ShapeParts DEF Serves, HelperType
    <3>3. i + 1 \in DOMAIN inbox[c] /\ inbox'[c][i] = inbox[c][i + 1] /\ i + 1 # 1
      BY <1>0, <3>2, TailAt
    <3>4. inbox[c][i + 1].call = k
      BY <3>3
    <3>5. 1 \in DOMAIN inbox[c] /\ inbox[c][1].call = k
      BY <3>1, <2>3, ServedFacts
    <3> QED BY <2>1, <3>3, <3>4, <3>5
  <2>6. ASSUME answer'[k].kind = "ok" PROVE FALSE
    <3>1. PICK d \in Conn : Confirming(d, k)
      BY <2>1, <2>3, <2>6, OkComes
    <3>2. Replied(d, k)
      <4>1. outbox[d] \in Seq(Messages) /\ outbox[d] # <<>>
        BY <3>1, ShapeParts DEF Confirming, HelperType
      <4>2. 1 \in DOMAIN outbox[d] /\ Head(outbox[d]) = outbox[d][1]
        BY <4>1
      <4> QED BY <3>1, <4>2 DEF Confirming, Replied
    <3>3. d = c
      BY <2>2, <2>3, <3>2 DEF Results
    <3> QED BY <2>1, <3>2, <3>3
  <2> QED BY <2>4, <2>5, <2>6
<1>2. CASE inbox'[c] = inbox[c]
  <2>1. \A j \in DOMAIN inbox'[c] : inbox'[c][j].call = k => j = i
    BY <1>2 DEF Starts
  <2> QED BY <1>1, <1>2, <2>1
<1>3. CASE inbox'[c] = <<>>
  BY <1>3
<1>4. CASE inbox[c] # <<>> /\ inbox'[c] = Tail(inbox[c])
  <2>1. \A j \in DOMAIN inbox'[c] : /\ j + 1 \in DOMAIN inbox[c] /\ j \in Nat
                                    /\ inbox'[c][j] = inbox[c][j + 1]
    BY <1>0, <1>4, TailAt
  <2>2. \A j \in DOMAIN inbox[c] : inbox[c][j].call = k => j = i + 1
    BY <2>1 DEF Starts
  <2>3. \A j \in DOMAIN inbox'[c] : inbox'[c][j].call = k => j = i
    BY <2>1, <2>2
  <2> QED BY <1>1, <2>1, <2>3
<1>5. ASSUME NEW q \in Request, NEW l \in Call, NEW m \in Methods,
             inbox'[c] = Append(inbox[c], [call |-> l, method |-> m]), outbox' = outbox,
             \/ /\ l = Act(q) /\ pc[q] = "admitted"
                /\ answer'[l].kind # "ok"
                /\ m = "share.start" => q \in armed'
             \/ l = Look(q) /\ m = "observe"
             \/ l = Stop(q) /\ m = "share.stop"
      PROVE  /\ current' = c => \E r \in armed' : k = Act(r)
             /\ \A j \in DOMAIN inbox'[c] : inbox'[c][j].call = k => j = i
             /\ ~Replied(c, k)'
             /\ answer'[k].kind # "ok"
  <2> DEFINE x == [call |-> l, method |-> m]
  <2>0. x \in Command /\ x.call = l /\ x.method = m
    BY DEF Command
  <2>1. \A j \in DOMAIN inbox'[c] :
          \/ j \in DOMAIN inbox[c] /\ inbox'[c][j] = inbox[c][j]
          \/ j = Len(inbox[c]) + 1 /\ j \notin DOMAIN inbox[c] /\ inbox'[c][j] = x
    <3> HIDE DEF x
    <3> QED BY <1>0, <1>5, <2>0, AppendAt DEF x
  <2> HIDE DEF x
  <2>2. CASE i \in DOMAIN inbox[c] /\ inbox'[c][i] = inbox[c][i]
    <3>1. \A j \in DOMAIN inbox[c] : inbox[c][j].call = k => j = i
      BY <2>2 DEF Starts
    <3>2. Sent(k, c) /\ \A r \in Request : k # Stop(r) /\ k # Look(r)
      BY <2>2 DEF Commands
    <3>3. l # k
      BY <1>0, <1>5, <3>2 DEF Early
    <3>4. \A j \in DOMAIN inbox'[c] : inbox'[c][j].call = k => j = i
      BY <2>0, <2>1, <3>1, <3>3
    <3> QED BY <1>1, <2>2, <3>4
  <2>3. CASE i = Len(inbox[c]) + 1 /\ inbox'[c][i] = x
    <3>1. k = l /\ m = "share.start"
      BY <2>0, <2>3
    <3>2. k = Act(q) /\ q \in armed' /\ ~Sent(k, c) /\ answer'[k].kind # "ok"
      BY <1>0, <1>5, <3>1 DEF Early
    <3>3. \A j \in DOMAIN inbox'[c] : inbox'[c][j].call = k => j = i
      BY <1>d, <2>1, <2>3, <3>2
    <3>4. ~Replied(c, k)'
      BY <1>5, <3>1, <3>2 DEF Replied, Results
    <3> QED BY <3>2, <3>3, <3>4
  <2> QED BY <2>1, <2>2, <2>3
<1> QED BY <1>2, <1>3, <1>4, <1>5, InboxStep
\* What holds the action lock while its cleanup runs leaves no start on the wire.
LEMMA NoStartBehind ==
  ASSUME Shape, OneLive, Stages, Starts,
         NEW r \in Request, cleanup[r] \in {"spawned", "stopping"}, r \notin canceled,
         NEW c \in Conn, current = c, NEW i \in DOMAIN inbox[c]
  PROVE  inbox[c][i].method # "share.start"
<1> SUFFICES ASSUME inbox[c][i].method = "share.start" PROVE FALSE
  OBVIOUS
<1>1. PICK q \in armed : TRUE
  BY DEF Starts
<1>2. q \in Request /\ Live(q) /\ pc[q] # "awaiting"
  BY <1>1, ShapeParts DEF ActionType, Stages, Live, Late
<1>3. pc[r] = "awaiting" /\ Live(r)
  BY DEF Stages, Live
<1> QED BY <1>2, <1>3 DEF OneLive

\* A confirmation of a stop that is new comes of a stop that was served, or it
\* was on the wire before.
LEMMA ConfirmsStep ==
  ASSUME Shape, Results, Step, NEW r \in Request, NEW c \in Conn, target[r] = c, pc[r] # "idle",
         \/ answer'[Stop(r)].kind = "ok"
         \/ \E i \in DOMAIN outbox'[c] :
              /\ outbox'[c][i].type = "result" /\ outbox'[c][i].call = Stop(r)
              /\ outbox'[c][i].answer.kind = "ok"
  PROVE  \/ Confirms(r, c)
         \/ \E m \in Methods : Serves(c, Stop(r), m) /\ (m = "share.stop" => capture'[c] = NoShare)
<1>0. /\ HelperType /\ Stop(r) \in Call
  BY ShapeParts, CallType
<1>1. ASSUME answer'[Stop(r)].kind = "ok", answer[Stop(r)].kind # "ok"
      PROVE  Confirms(r, c)
  <2>1. PICK d \in Conn : Confirming(d, Stop(r))
    BY <1>0, <1>1, OkComes
  <2>2. outbox[d] \in Seq(Messages) /\ outbox[d] # <<>>
    BY <1>0, <2>1 DEF Confirming, HelperType
  <2>3. 1 \in DOMAIN outbox[d] /\ Head(outbox[d]) = outbox[d][1]
    BY <2>2
  <2>4. Replied(d, Stop(r))
    BY <2>1, <2>3 DEF Confirming, Replied
  <2>5. d = c
    BY <1>0, <2>4, SentOnce DEF Results
  <2> QED BY <2>1, <2>3, <2>5 DEF Confirming, Confirms
<1>2. ASSUME NEW i \in DOMAIN outbox'[c], outbox'[c][i].type = "result",
             outbox'[c][i].call = Stop(r), outbox'[c][i].answer.kind = "ok", ~Confirms(r, c)
      PROVE  \E m \in Methods : Serves(c, Stop(r), m) /\ (m = "share.stop" => capture'[c] = NoShare)
  <2>0. ASSUME NEW e \in DOMAIN outbox[c], outbox'[c][i] = outbox[c][e] PROVE FALSE
    BY <1>2, <2>0 DEF Confirms
  <2>1. ASSUME outbox'[c] = outbox[c] PROVE FALSE
    BY <2>0, <2>1
  <2>2. ASSUME NEW d \in Conn, Takes(d) PROVE FALSE
    <3>1. c = d
      BY <1>0, <2>1, <2>2 DEF Takes, HelperType
    <3>2. outbox[c] # <<>> /\ outbox'[c] = Tail(outbox[c]) /\ outbox[c] \in Seq(Messages)
      BY <1>0, <2>2, <3>1 DEF Takes, HelperType
    <3>3. i + 1 \in DOMAIN outbox[c] /\ outbox'[c][i] = outbox[c][i + 1]
      BY <3>2, TailAt
    <3> QED BY <2>0, <3>3
  <2>3. ASSUME NEW d \in Conn, NEW m \in Messages, outbox' = [outbox EXCEPT ![d] = Append(@, m)]
        PROVE  d = c /\ outbox'[c][i] = m
    <3>1. c = d
      BY <1>0, <2>1, <2>3 DEF HelperType
    <3>2. outbox'[c] = Append(outbox[c], m) /\ outbox[c] \in Seq(Messages)
      BY <1>0, <2>3, <3>1 DEF HelperType
    <3>3. (i \in DOMAIN outbox[c] /\ outbox'[c][i] = outbox[c][i]) \/ outbox'[c][i] = m
      BY <3>2, AppendAt
    <3> QED BY <2>0, <3>1, <3>3
  <2>4. ASSUME NEW d \in Conn, Emits(d) PROVE FALSE
    BY <1>2, <2>3, <2>4 DEF Emits
  <2>5. ASSUME NEW d \in Conn, Empties(d) PROVE FALSE
    <3>1. c = d
      BY <1>0, <2>1, <2>5 DEF Empties, HelperType
    <3>2. outbox'[c] = <<>>
      BY <1>0, <2>5, <3>1 DEF Empties, HelperType
    <3> QED BY <3>2
  <2>6. ASSUME NEW d \in Conn, NEW j \in Call, NEW m \in Methods, Serves(d, j, m)
        PROVE  Serves(c, Stop(r), m) /\ (m = "share.stop" => capture'[c] = NoShare)
    <3>1. PICK a \in Answers :
            /\ outbox' = [outbox EXCEPT ![d] = Append(@, Result(j, a))]
            /\ m = "share.stop" /\ a.kind = "ok" => capture'[d] = NoShare
      BY <2>1, <2>6 DEF Serves
    <3>2. Result(j, a) \in Messages /\ Result(j, a).call = j /\ Result(j, a).answer = a
      BY DEF Result, Messages
    <3> DEFINE x == Result(j, a)
    <3>3. x \in Messages /\ outbox' = [outbox EXCEPT ![d] = Append(@, x)] /\ x.call = j /\ x.answer = a
      BY <3>1, <3>2
    <3> HIDE DEF x
    <3>4. d = c /\ outbox'[c][i] = x
      BY <2>3, <3>3
    <3>5. j = Stop(r) /\ a.kind = "ok"
      BY <1>2, <3>3, <3>4
    <3> QED BY <2>6, <3>1, <3>4, <3>5
  <2> QED BY <2>1, <2>2, <2>4, <2>5, <2>6, WireKinds DEF Silent, Posts, PostsOne
<1> QED BY <1>1, <1>2 DEF Confirms

\* Who stops now was about to, unless its stop is sent in this step.
LEMMA StoppingStep ==
  ASSUME Shape, Step, NEW r \in Request, cleanup'[r] = "stopping", cleanup[r] # "stopping"
  PROVE  CleanupCalls(r)
<1>0. TaskType
  BY ShapeParts
<1>1. ~Aside(r)
  BY DEF Aside
<1>2. ~RequestStep(r)
  BY <1>0 DEF RequestStep, Admit, Dispatch, Wake, CallFails, InvalidResult, ClickReturns,
     CommitStatus, CommitTooLate, CommitStart, CommitStop, CallObserve, CommitObservation,
     ObservationFails, Disarm, AwaitCleanup, End, Finish, Unwind, RejectShare, TaskType, taskVars
<1>3. ~(Cancel(r) \/ CleanupConfirmed(r) \/ CleanupUnproven(r))
  BY <1>0 DEF Cancel, CleanupConfirmed, CleanupUnproven, TaskType, taskVars
<1> QED BY <1>1, <1>2, <1>3, SeenFrom DEF Own, CleanupStep

\* Nothing captures again between a confirmed stop and its publication.
LEMMA StopsStep ==
  ASSUME Shape, OneLive, Stages, Commands, Results, Starts, Stops, Step
  PROVE  Stops'
<1> SUFFICES ASSUME NEW r \in Request, r \notin canceled', NEW c \in Conn,
                    cleanup'[r] = "stopping", target'[r] = c, current' = c,
                    \/ answer'[Stop(r)].kind = "ok"
                    \/ \E i \in DOMAIN outbox'[c] :
                         /\ outbox'[c][i].type = "result" /\ outbox'[c][i].call = Stop(r)
                         /\ outbox'[c][i].answer.kind = "ok"
             PROVE  capture'[c] = NoShare
  BY DEF Stops, Confirms, Stop
<1>1. ASSUME CleanupCalls(r) PROVE FALSE
  <2>1. /\ cleanup[r] = "spawned" /\ UNCHANGED <<outbox, target>> /\ Stop(r) \in Call
        /\ Relay(Stop(r), target[r], "share.stop")
    BY <1>1, CallType DEF CleanupCalls, actionVars
  <2>2. answer'[Stop(r)].kind # "ok"
    BY <2>1, ShapeParts DEF Relay, NoAnswer, Refused, Answer, HubType
  <2>3. Replied(c, Stop(r))
    BY <2>1, <2>2 DEF Replied
  <2>4. Sent(Stop(r), c)
    BY <2>1, <2>3 DEF Results
  <2> QED BY <2>1, <2>4, Purposes DEF Sent
<1>2. cleanup[r] = "stopping"
  BY <1>1, StoppingStep
<1>3. pc[r] # "idle" /\ target[r] = c /\ r \notin canceled /\ phase[c] \in Published /\ current = c
  <2>1. pc[r] # "idle" /\ Grows(r)
    BY <1>2, GrowsStep, ShapeParts DEF Targets
  <2>2. target[r] = c /\ r \notin canceled
    BY <2>1 DEF Grows
  <2>3. phase[c] \in Published
    BY <2>1, <2>2, ShapeParts DEF Targets
  <2> QED BY <2>1, <2>2, <2>3, CurrentBefore
<1>4. \A i \in DOMAIN inbox[c] : inbox[c][i].method # "share.start"
  BY <1>2, <1>3, NoStartBehind
<1>5. CASE Confirms(r, c)
  <2>1. capture[c] = NoShare
    BY <1>2, <1>3, <1>5 DEF Stops
  <2>2. ASSUME NEW d \in Conn, NEW k \in Call, NEW m \in Methods, Serves(d, k, m)
        PROVE  capture'[c] \in {capture[c], NoShare}
    <3>1. CASE c = d
      <4>1. 1 \in DOMAIN inbox[c] /\ inbox[c][1].method = m
        BY <2>2, <3>1, ServedFacts
      <4>2. m # "share.start"
        BY <1>4, <4>1
      <4> QED BY <2>2, <3>1, <4>2 DEF Serves
    <3>2. CASE c # d
      BY <2>2, <3>2 DEF Serves
    <3> QED BY <3>1, <3>2
  <2>3. capture'[c] \in {capture[c], NoShare}
    BY <2>2, WireKinds DEF Silent, Posts, PostsOne, Takes, Emits, Empties
  <2> QED BY <2>1, <2>3
<1>6. ASSUME NEW m \in Methods, Serves(c, Stop(r), m), m = "share.stop" => capture'[c] = NoShare
      PROVE  capture'[c] = NoShare
  <2>1. 1 \in DOMAIN inbox[c] /\ inbox[c][1].call = Stop(r) /\ inbox[c][1].method = m
    BY <1>6, ServedFacts, CallType
  <2>2. m = "share.stop"
    BY <2>1 DEF Commands
  <2> QED BY <1>6, <2>2
<1> QED BY <1>3, <1>5, <1>6, ConfirmsStep

-----------------------------------------------------------------------------
(* What is said.                                                           *)

\* Only a confirmed cleanup says that a share was rolled back.
LEMMA SaidBy ==
  ASSUME Shape, Step, NEW c \in Conn, RolledBack(c)', ~RolledBack(c)
  PROVE  \E r \in Request : CleanupConfirmed(r) /\ target[r] = c /\ Ready(c)
<1>0. PublicType
  BY ShapeParts
<1> DEFINE Says(status) == status.kind # "rolledBack" /\ computer' = WithStatus(status)
           Unsaid == \/ computer' \in {computer, NoComputer}
                     \/ \E status \in Statuses : Says(status)
                     \/ \E d \in Conn, status \in Statuses : 
                          status.kind # "rolledBack" /\ computer' = [session |-> d, share |-> status]
<1>1. ASSUME Unsaid PROVE FALSE
  <2>1. CASE computer' \in {computer, NoComputer}
    BY <2>1 DEF RolledBack, SessionIs
  <2>2. ASSUME NEW status \in Statuses, status.kind # "rolledBack", computer' = WithStatus(status)
        PROVE  FALSE
    <3>1. CASE computer = NoComputer
      BY <2>2, <3>1 DEF WithStatus, RolledBack, SessionIs
    <3>2. CASE computer # NoComputer
      <4>1. computer \in Computers /\ computer' = [computer EXCEPT !.share = status]
        BY <1>0, <2>2, <3>2 DEF PublicType, WithStatus
      <4>2. computer'.share = status
        BY <4>1 DEF Computers
      <4> QED BY <2>2, <4>2 DEF RolledBack
    <3> QED BY <3>1, <3>2
  <2>3. ASSUME NEW d \in Conn, NEW status \in Statuses, status.kind # "rolledBack",
               computer' = [session |-> d, share |-> status]
        PROVE  FALSE
    BY <2>3 DEF RolledBack
  <2> QED BY <1>1, <2>1, <2>2, <2>3
<1>s. /\ \A s \in Shares : Reported(s) \in Statuses /\ Reported(s).kind # "rolledBack"
      /\ \A s \in Shares : Status("pending", s) \in Statuses /\ Status("pending", s).kind # "rolledBack"
      /\ Status("unknown", NoShare) \in Statuses /\ Status("unknown", NoShare).kind # "rolledBack"
      /\ Status("failed", NoShare) \in Statuses /\ Status("failed", NoShare).kind # "rolledBack"
  BY ReportedType, StatusType DEF Shares
<1>t. PublishedShare \in Shares /\ NoShare \in Shares /\ \A r \in Request : answer[Act(r)].share \in Shares
  BY ShapeParts, PublishedShareType, CallType, AnswerFacts DEF Shares
<1>2. ASSUME NEW r \in Request, \/ Admit(r) \/ Dispatch(r) \/ Wake(r) \/ ClickReturns(r)
             \/ CommitTooLate(r) \/ CallObserve(r) \/ Disarm(r) \/ AwaitCleanup(r) \/ End(r) \/ Finish(r)
             \/ Unwind(r) \/ Cancel(r) \/ CleanupCalls(r) \/ CommitObservation(r)
      PROVE  computer' = computer
  BY <1>2 DEF Admit, Dispatch, Wake, ClickReturns, CommitTooLate, CallObserve, Disarm, AwaitCleanup,
     End, Finish, Unwind, Cancel, CleanupCalls, CommitObservation, publicVars
<1>3. ASSUME NEW r \in Request, CallFails(r) \/ Settle(r)
      PROVE  Unsaid
  BY <1>s, <1>3 DEF CallFails, Settle, WithdrawAfterUnknown, publicVars
<1>4. ASSUME NEW r \in Request, InvalidResult(r) \/ CleanupUnproven(r)
      PROVE  computer' \in {computer, NoComputer}
  BY <1>4 DEF InvalidResult, CleanupUnproven, RevokeTransport, ClearPublicState, publicVars
<1>5. ASSUME NEW r \in Request, NEW g, NEW s \in Shares, RejectShare(r, g, s)
      PROVE  Unsaid
  BY <1>s, <1>5 DEF RejectShare
<1>6. ASSUME NEW r \in Request, CommitStatus(r)
      PROVE  Unsaid
  BY <1>s, <1>t, <1>6 DEF CommitStatus
<1>7. ASSUME NEW r \in Request, CommitStart(r)
      PROVE  Unsaid
  <2>1. \/ RejectShare(r, Revoked(target[r], PublishedShare), PublishedShare)
        \/ RejectShare(r, StartGate(target[r]), answer[Act(r)].share)
        \/ computer' = WithStatus(Reported(answer[Act(r)].share))
    BY <1>7 DEF CommitStart
  <2>2. CASE computer' = WithStatus(Reported(answer[Act(r)].share))
    BY <1>s, <1>t, <2>2
  <2> HIDE DEF Unsaid
  <2> QED BY <1>5, <1>t, <2>1, <2>2
<1>8. ASSUME NEW r \in Request, CommitStop(r)
      PROVE  Unsaid
  <2>1. CASE computer' = WithStatus(Reported(NoShare))
    BY <1>s, <1>t, <2>1
  <2> HIDE DEF Unsaid
  <2> QED BY <1>5, <1>8, <1>t, <2>1 DEF CommitStop
<1>9. ASSUME NEW r \in Request, ObservationFails(r)
      PROVE  Unsaid
  <2>1. CASE UNCHANGED publicVars
    BY <2>1 DEF publicVars
  <2> HIDE DEF Unsaid
  <2> QED BY <1>5, <1>9, <1>t, <2>1 DEF ObservationFails
<1>10. ASSUME NEW r \in Request, CleanupConfirmed(r), ~(target[r] = c /\ Ready(c))
       PROVE  FALSE
  <2>1. CASE Ready(target[r]) /\ SessionIs(target[r])
    <3>1. computer' = WithStatus(Status("rolledBack", NoShare)) /\ computer # NoComputer
      BY <1>10, <2>1 DEF CleanupConfirmed, SessionIs
    <3>2. computer'.session = computer.session
      BY <1>0, <3>1 DEF WithStatus, PublicType, Computers
    <3> QED BY <1>10, <2>1, <3>2 DEF RolledBack, SessionIs
  <2>2. CASE ~(Ready(target[r]) /\ SessionIs(target[r]))
    BY <1>1, <1>10, <2>2 DEF CleanupConfirmed, publicVars
  <2> QED BY <2>1, <2>2
<1>11. ASSUME NEW d \in Conn, HandlerStep(d) \/ ClearRevoked(d) \/ HelperStep(d)
       PROVE  Unsaid
  <2>1. CASE \/ Attach(d) \/ MarkReady(d) \/ Leave(d) \/ Resolve(d) \/ ClearRevoked(d)
             \/ Serve(d) \/ EmitFrame(d) \/ EmitError(d) \/ HelperResets(d)
    BY <2>1 DEF Attach, MarkReady, Leave, Resolve, ClearRevoked, Serve, EmitFrame, EmitError,
       HelperResets, ClearPublicState, publicVars
  <2>2. CASE PublishHello(d)
    <3>1. capture[d] \in Shares
      BY ShapeParts DEF HelperType
    <3> QED BY <1>s, <2>2, <3>1 DEF PublishHello
  <2>3. CASE ShareFrame(d)
    <3>1. outbox[d] # <<>> /\ Head(outbox[d]).type = "frame"
      BY <2>3 DEF ShareFrame
    <3>2. Head(outbox[d]).share \in Shares
      BY <3>1, ShapeParts, HeadFacts DEF Messages, Shares
    <3> QED BY <1>s, <2>3, <3>2 DEF ShareFrame
  <2>4. CASE ShareError(d)
    BY <1>s, <2>4 DEF ShareError, publicVars
  <2> QED BY <1>11, <2>1, <2>2, <2>3, <2>4 DEF HandlerStep, HelperStep
<1>12. ASSUME NEW k \in Call, HubGivesUp(k) PROVE computer' = computer
  BY <1>12 DEF HubGivesUp, publicVars
<1>13. ASSUME NEW r \in Request, RequestStep(r) \/ Cancel(r) \/ Settle(r) \/ CleanupStep(r)
       PROVE  CleanupConfirmed(r) \/ Unsaid
  BY <1>2, <1>3, <1>4, <1>6, <1>7, <1>8, <1>9, <1>13 DEF RequestStep, CleanupStep
<1> HIDE DEF Unsaid
<1>14. PICK r \in Request : CleanupConfirmed(r)
  <2>1. computer' = computer => Unsaid
    BY DEF Unsaid
  <2> QED BY <1>1, <1>11, <1>12, <1>13, <2>1 DEF Step
<1> QED BY <1>10, <1>14
\* Who begins to observe a start has just been approved.
LEMMA LateStep ==
  ASSUME Shape, Stages, Step, NEW q \in Request, q \in armed', pc'[q] \in Late,
         ~(q \in armed /\ pc[q] \in Late)
  PROVE  CommitStart(q)
<1>0. /\ ActionType
      /\ q \in armed => method[q] = "share.start" /\ pc[q] \in {"calling", "returned", "ending"} \cup Late
  BY ShapeParts DEF Stages
<1>1. ~Aside(q)
  BY DEF Aside
<1>2. ~Dispatch(q)
  BY <1>0 DEF Dispatch, Goto, ActionType, Late
<1>3. ~(Wake(q) \/ ClickReturns(q) \/ CallObserve(q))
  BY <1>0 DEF Wake, ClickReturns, CallObserve, Goto, ActionType, Late
<1>4. ~(\/ Admit(q) \/ CallFails(q) \/ InvalidResult(q) \/ CommitStatus(q) \/ CommitTooLate(q)
        \/ CommitStop(q) \/ CommitObservation(q) \/ ObservationFails(q))
  BY <1>0 DEF Admit, CallFails, InvalidResult, CommitStatus, CommitTooLate, CommitStop,
     CommitObservation, ObservationFails, RejectShare, Goto, ActionType, Late
<1>5. ~(Disarm(q) \/ AwaitCleanup(q) \/ End(q) \/ Finish(q) \/ Unwind(q) \/ Cancel(q) \/ CleanupStep(q))
  BY <1>0 DEF Disarm, AwaitCleanup, End, Finish, Unwind, Cancel, CleanupStep, CleanupCalls,
     CleanupConfirmed, CleanupUnproven, Goto, ActionType, actionVars, Late
<1> QED BY <1>1, <1>2, <1>3, <1>4, <1>5, SeenFrom DEF Own, RequestStep

\* A cleanup that outlived its caller stays so.
LEMMA AbandonedStays ==
  ASSUME Shape, \A r \in Request : Grows(r), NEW c, Abandoned(c)
  PROVE  Abandoned(c)'
<1>1. PICK r \in canceled : target[r] = c /\ cleanup[r] = "done"
  BY DEF Abandoned
<1>2. r \in Request /\ pc[r] # "idle"
  BY <1>1, ShapeParts DEF ActionType, Targets
<1> QED BY <1>1, <1>2 DEF Abandoned, Grows

\* A confirmed cleanup of a caller who left is abandoned.
LEMMA ConfirmedStep ==
  ASSUME Shape, Stages, NEW r \in Request, CleanupConfirmed(r)
  PROVE  /\ r \in canceled => Abandoned(target[r])'
         /\ r \notin canceled => pc[r] = "awaiting" /\ Live(r)
<1>1. /\ cleanup[r] = "stopping" /\ cleanup'[r] = "done"
      /\ UNCHANGED <<target, canceled>>
  BY ShapeParts DEF CleanupConfirmed, TaskType, actionVars
<1>2. ASSUME NEW c, c = target[r], r \in canceled PROVE Abandoned(c)'
  BY <1>1, <1>2 DEF Abandoned
<1> QED BY <1>1, <1>2 DEF Stages, Live, Abandoned

\* A start that is being observed has replaced what was said to be rolled back.
LEMMA ReplacedStep ==
  ASSUME Inv, OneLive, Stages, Replaced, Step
  PROVE  Replaced'
<1> SUFFICES ASSUME NEW q \in armed', NEW c \in Conn, pc'[q] \in Late, target'[q] = c, RolledBack(c)'
             PROVE  Abandoned(c)'
  BY Zenon DEF Replaced, Late
<1>0. /\ Shape /\ q \in Request /\ \A r \in Request : Grows(r)
  <2>1. Shape /\ StepOK
    BY StepIsOK DEF Inv, Public
  <2> QED BY <2>1, GrowsStep DEF StepOK, Typed, ActionType
<1>1. CASE CommitStart(q)
  <2>1. \A g, s : ~RejectShare(q, g, s)
    BY DEF RejectShare
  <2>2. computer' = WithStatus(Reported(answer[Act(q)].share))
    BY <1>1, <2>1 DEF CommitStart
  <2>3. answer[Act(q)].share \in Shares /\ PublicType
    BY <1>0, ShapeParts, CallType, AnswerFacts
  <2>4. /\ Reported(answer[Act(q)].share) \in Statuses
        /\ Reported(answer[Act(q)].share).kind # "rolledBack"
    BY <2>3, ReportedType
  <2> HIDE DEF RolledBack
  <2>5. PICK status \in Statuses : status.kind # "rolledBack" /\ computer' = WithStatus(status)
    BY <2>2, <2>4
  <2>6. computer # NoComputer /\ computer \in Computers
    BY <2>3, <2>5 DEF RolledBack, SessionIs, WithStatus, PublicType
  <2>7. computer' = [computer EXCEPT !.share = status]
    BY <2>5, <2>6 DEF WithStatus
  <2>8. computer'.share = status
    BY <2>6, <2>7 DEF Computers
  <2> QED BY <2>5, <2>8 DEF RolledBack
<1>2. CASE q \in armed /\ pc[q] \in Late
  <2>1. target[q] = c /\ Live(q) /\ pc[q] # "awaiting"
    BY <1>0, <1>2 DEF Grows, Late, Live
  <2>2. CASE RolledBack(c)
    BY <1>0, <1>2, <2>1, <2>2, AbandonedStays DEF Replaced
  <2>3. CASE ~RolledBack(c)
    <3>1. PICK r \in Request : CleanupConfirmed(r) /\ target[r] = c
      BY <1>0, <2>3, SaidBy
    <3>2. /\ r \in canceled => Abandoned(target[r])'
          /\ r \notin canceled => pc[r] = "awaiting" /\ Live(r)
      BY <1>0, <3>1, ConfirmedStep
    <3>3. r \in canceled
      BY <1>0, <2>1, <3>2 DEF OneLive
    <3>4. Abandoned(c)'
      <4>1. cleanup'[r] = "done" /\ UNCHANGED <<target, canceled>>
        BY <1>0, <3>1, ShapeParts DEF CleanupConfirmed, TaskType, actionVars
      <4> QED BY <3>1, <3>3, <4>1 DEF Abandoned
    <3> QED BY <3>4
  <2> QED BY <2>2, <2>3
<1> QED BY <1>0, <1>1, <1>2, LateStep

\* Who is current has not left.
LEMMA GoneStep ==
  ASSUME Inv, Gone, Step
  PROVE  Gone'
<1>1. HubType /\ SessionStep /\ Sessions
  BY StepIsOK, ShapeParts DEF Inv, Public, StepOK, Kinds
<1>2. CASE Steady \/ Closes
  BY <1>1, <1>2 DEF Steady, Closes, Gone
<1>3. ASSUME NEW c \in Conn, Advances(c) PROVE Gone'
  BY <1>1, <1>3 DEF Advances, Gone, HubType
<1> QED BY <1>1, <1>2, <1>3 DEF SessionStep

\* What a step may do to a cleanup that is under way.
LEMMA CleanupSeen ==
  ASSUME Shape, Stages, Step, NEW r \in Request, cleanup[r] \in {"spawned", "stopping"}
  PROVE  \/ cleanup'[r] \in {"spawned", "stopping"}
         \/ CleanupConfirmed(r) \/ CleanupUnproven(r)
<1>0. /\ TaskType
      /\ pc[r] \notin {"calling", "returned"} \cup Early \cup Late
  BY ShapeParts DEF Stages
<1>1. CASE Aside(r)
  BY <1>1 DEF Aside
<1>2. CASE CommitStart(r) \/ CommitStop(r) \/ ObservationFails(r)
  BY <1>0, <1>2 DEF CommitStart, CommitStop, ObservationFails, Late
<1>3. CASE \/ Admit(r) \/ Dispatch(r) \/ Wake(r) \/ CallFails(r) \/ InvalidResult(r)
           \/ ClickReturns(r) \/ CommitStatus(r) \/ CommitTooLate(r) \/ CallObserve(r)
           \/ CommitObservation(r) \/ Disarm(r) \/ AwaitCleanup(r) \/ End(r) \/ Finish(r)
           \/ Unwind(r) \/ Cancel(r)
  BY <1>3 DEF Admit, Dispatch, Wake, CallFails, InvalidResult, ClickReturns, CommitStatus,
     CommitTooLate, CallObserve, CommitObservation, Disarm, AwaitCleanup, End, Finish,
     Unwind, Cancel, taskVars
<1>4. CASE CleanupCalls(r)
  BY <1>0, <1>4 DEF CleanupCalls, TaskType
<1> QED BY <1>1, <1>2, <1>3, <1>4, SeenFrom DEF Own, RequestStep, CleanupStep

\* The invariant that the theorem states is kept.
LEMMA StoppedStep ==
  ASSUME Inv, Rolled, Step
  PROVE  StoppedUnlessAbandoned'
<1>0. /\ Shape /\ \A r \in Request : Grows(r)
      /\ Gone /\ OneLive /\ Stages /\ Commands /\ Results /\ Starts /\ Stops /\ Replaced
      /\ StoppedUnlessAbandoned
  BY GrowsStep DEF Inv, Rolled, Control, Wire
<1> SUFFICES ASSUME NEW c \in Conn, RolledBack(c)', current' = c, capture'[c] # NoShare
             PROVE  Validating(c)' \/ Stopping(c)' \/ Abandoned(c)'
  BY DEF StoppedUnlessAbandoned, FalselyStopped, RolledBack, SessionIs
<1>1. \A r \in Request : cleanup'[r] \in {"spawned", "stopping"} /\ target[r] = c /\ pc[r] # "idle"
        => Stopping(c)'
  BY <1>0 DEF Stopping, Grows
<1>2. ASSUME NEW r \in Request, CleanupConfirmed(r), target[r] = c, current = c
      PROVE  Abandoned(c)'
  <2>1. /\ cleanup[r] = "stopping" /\ cleanup'[r] = "done" /\ answer[Stop(r)].kind = "ok"
        /\ UNCHANGED <<target, canceled, capture>>
    BY <1>0, <1>2, ShapeParts DEF CleanupConfirmed, TaskType, actionVars, helperVars
  <2>2. r \in canceled
    BY <1>0, <1>2, <2>1 DEF Stops, Confirms
  <2> QED BY <1>2, <2>1, <2>2 DEF Abandoned
<1>3. CASE ~RolledBack(c)
  <2>1. PICK r \in Request : CleanupConfirmed(r) /\ target[r] = c /\ Ready(c)
    BY <1>0, <1>3, SaidBy
  <2> QED BY <1>2, <2>1 DEF Ready
<1>4. ASSUME RolledBack(c)
      PROVE  Validating(c)' \/ Stopping(c)' \/ Abandoned(c)'
  <2>1. phase[c] \in Published /\ current = c /\ Ready(c)
    <3>1. phase[c] \in Published
      BY <1>0, <1>4, ShapeParts DEF RolledBack, SessionIs, Sessions
    <3>2. current = c
      BY <1>0, <3>1, CurrentBefore
    <3> QED BY <1>0, <3>1, <3>2, ShapeParts DEF Gone, Published, Ready, HubType
  <2>2. CASE capture[c] = NoShare
    <3>1. PICK k \in Call, m \in Methods : Serves(c, k, m) /\ m = "share.start"
      <4>1. \E d \in Conn, k \in Call, m \in Methods : Serves(d, k, m)
        <5>1. ~(Silent \/ Posts)
          BY <2>2 DEF Silent, Posts, PostsOne
        <5>2. ASSUME NEW d \in Conn, Takes(d) \/ Emits(d) \/ Empties(d) PROVE FALSE
          <6>1. CASE d = c
            BY <2>2, <5>2, <6>1 DEF Takes, Emits, Empties
          <6>2. CASE d # c
            BY <2>2, <5>2, <6>2 DEF Takes, Emits, Empties
          <6> QED BY <6>1, <6>2
        <5> QED BY <1>0, <5>1, <5>2, WireKinds
      <4>2. ASSUME NEW d \in Conn, NEW k \in Call, NEW m \in Methods, Serves(d, k, m)
            PROVE  d = c /\ m = "share.start"
        BY <2>2, <4>2 DEF Serves
      <4> QED BY <4>1, <4>2
    <3>2. 1 \in DOMAIN inbox[c] /\ inbox[c][1].call = k /\ inbox[c][1].method = "share.start"
      BY <1>0, <3>1, ServedFacts
    <3>3. PICK q \in armed : k = Act(q)
      BY <1>0, <2>1, <3>2 DEF Starts
    <3>4. q \in Request /\ target[q] = c /\ pc[q] # "idle"
      <4>1. Sent(k, c)
        BY <1>0, <3>2 DEF Commands
      <4> QED BY <1>0, <3>3, <4>1, SentOnce, ShapeParts DEF ActionType, Targets
    <3>5. q \in armed'
      <4>1. answer[Act(q)].kind # "ok"
        BY <1>0, <3>2, <3>3 DEF Starts
      <4> QED BY <1>0, <3>4, <4>1, Disarms
    <3> QED BY <1>0, <3>4, <3>5 DEF Validating, Grows
  <2>3. CASE capture[c] # NoShare
    <3>1. Validating(c) \/ Stopping(c) \/ Abandoned(c)
      BY <1>0, <1>4, <2>1, <2>3 DEF StoppedUnlessAbandoned, FalselyStopped, RolledBack
    <3>2. CASE Abandoned(c)
      BY <1>0, <3>2, AbandonedStays
    <3>3. CASE Validating(c)
      <4>1. PICK q \in Request : target[q] = c /\ q \in armed
        BY <3>3 DEF Validating
      <4>2. pc[q] # "idle" /\ target'[q] = c
        BY <1>0, <4>1, ShapeParts DEF Targets, Grows
      <4>3. CASE q \in armed'
        BY <4>2, <4>3 DEF Validating
      <4>4. CASE pc[q] \in Late
        BY <1>0, <1>4, <4>1, <4>4, AbandonedStays DEF Replaced
      <4>5. CASE cleanup'[q] = "spawned"
        BY <1>1, <4>1, <4>2, <4>5
      <4> QED BY <1>0, <4>1, <4>3, <4>4, <4>5, Disarms
    <3>4. CASE Stopping(c)
      <4>1. PICK q \in Request : target[q] = c /\ cleanup[q] \in {"spawned", "stopping"}
        BY <3>4 DEF Stopping
      <4>2. pc[q] # "idle"
        BY <1>0, <4>1, ShapeParts DEF Targets
      <4>3. CASE cleanup'[q] \in {"spawned", "stopping"}
        BY <1>1, <4>1, <4>2, <4>3
      <4>4. CASE CleanupConfirmed(q)
        BY <1>2, <2>1, <4>1, <4>4
      <4>5. CASE CleanupUnproven(q)
        BY <2>1, <4>1, <4>5, ShapeParts DEF CleanupUnproven, RevokeTransport
      <4> QED BY <1>0, <4>1, <4>3, <4>4, <4>5, CleanupSeen
    <3> QED BY <3>1, <3>2, <3>3, <3>4
  <2> QED BY <2>2, <2>3
<1> QED BY <1>3, <1>4

\* The whole invariant is inductive, given that of ComputerAuthority_proofs.
LEMMA RolledInv == Spec => [](Inv /\ Returned /\ Rolled)
<1>1. Init => Inv /\ Returned /\ Rolled
  <2> SUFFICES ASSUME Init PROVE Inv /\ Returned /\ Rolled
    OBVIOUS
  <2>1. Inv
    BY InitInv
  <2>2. Gone /\ Returned /\ OneLive /\ Stages
    BY DEF Init, Gone, Returned, OneLive, Stages, Live, Late, Early
  <2>3. \A c \in Conn : inbox[c] = <<>> /\ outbox[c] = <<>>
    BY DEF Init
  <2>4. Commands /\ Results /\ Starts
    BY <2>3 DEF Commands, Results, Starts, Replied
  <2>5. Stops /\ Replaced /\ StoppedUnlessAbandoned
    BY DEF Init, Stops, Replaced, StoppedUnlessAbandoned, FalselyStopped, SessionIs
  <2> QED BY <2>1, <2>2, <2>4, <2>5 DEF Rolled, Control, Wire
<1>2. Inv /\ Returned /\ Rolled /\ [Next]_vars => (Inv /\ Returned /\ Rolled)'
  <2> SUFFICES ASSUME Inv, Returned, Rolled, [Next]_vars
               PROVE  Inv' /\ Returned' /\ Rolled'
    OBVIOUS
  <2>1. Inv' /\ Shape
    BY StepInv DEF Inv
  <2>2. CASE Next
    <3>1. Step /\ Returned'
      BY <2>1, <2>2, ReturnedStep DEF Next
    <3>2. Gone' /\ OneLive' /\ Stages'
      BY <2>1, <3>1, GoneStep, OneLiveStep, StagesStep DEF Rolled, Control
    <3>3. Commands' /\ Results' /\ Starts' /\ Stops'
      BY <2>1, <3>1, CommandsStep, ResultsStep, StartsStep, StopsStep DEF Rolled, Control, Wire
    <3>4. Replaced' /\ StoppedUnlessAbandoned'
      BY <3>1, ReplacedStep, StoppedStep DEF Rolled, Control
    <3> QED BY <2>1, <3>1, <3>2, <3>3, <3>4 DEF Rolled, Control, Wire
  <2>3. CASE UNCHANGED vars
    <3>1. UNCHANGED <<hubVars, publicVars, actionVars, taskVars, helperVars>>
      BY <2>3 DEF vars
    <3>2. Returned' /\ Gone' /\ OneLive' /\ Stages'
      BY <3>1 DEF hubVars, publicVars, actionVars, taskVars, helperVars, Returned, Rolled,
         Gone, Control, OneLive, Stages, Act, Live, Late, Early
    <3>3. Commands' /\ Results' /\ Starts' /\ Stops'
      BY <3>1 DEF hubVars, actionVars, taskVars, helperVars, Rolled, Wire, Commands, Results,
         Starts, Stops, Sent, Replied, Confirms, Act, Look, Stop, Early
    <3>4. Replaced' /\ StoppedUnlessAbandoned'
      BY <3>1 DEF hubVars, publicVars, actionVars, taskVars, helperVars, Rolled, Replaced, Late,
         RolledBack, SessionIs, Abandoned, StoppedUnlessAbandoned, FalselyStopped, Validating, Stopping
    <3> QED BY <2>1, <3>2, <3>3, <3>4 DEF Rolled, Control, Wire
  <2> QED BY <2>2, <2>3
<1> QED BY <1>1, <1>2, PTL DEF Spec

\* StoppedUnlessAbandoned: the status "rolledBack" of rollback_rejected_computer_share_start
\* is true of the helper, unless a start is being validated, another cleanup is
\* under way, or the cleanup outlived the caller of the start.
THEOREM StoppedUnlessLeft == Spec => []StoppedUnlessAbandoned
BY RolledInv, PTL DEF Rolled
=============================================================================
