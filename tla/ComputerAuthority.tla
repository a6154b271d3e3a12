-------------------------- MODULE ComputerAuthority --------------------------
(***************************************************************************)
(* What a helper session may show and do: the authority gate of            *)
(* src/src/server.rs, the life of a screen share, and the cleanup of a     *)
(* share start that was rejected.                                          *)
(*                                                                         *)
(* A computer action holds the action lock while it calls the helper on    *)
(* the connection whose state it read, and publishes the result under the  *)
(* data lock.  At the same time the helper streams frames and errors, a    *)
(* caller leaves or cancels, its settlement withdraws what was published,  *)
(* a detached task stops a share that was rejected, a guard revokes the    *)
(* transport of an interrupted start, and another helper may connect.      *)
(*                                                                         *)
(* Each action is one section under the data lock, or the code between two *)
(* awaits.  How calls are registered and drained is the matter of          *)
(* ConnectorHub, how interrupted requests find a settler of CommandReplay: *)
(* here a call ends with an answer, and an interrupted request is settled  *)
(* before the next one reads any state.                                    *)
(***************************************************************************)
EXTENDS Naturals, FiniteSets, Sequences

CONSTANTS
  Request,    \* computer actions, each performed once
  Traffic,    \* the methods each of them may call, as pairs
  Conn,       \* helper connections; the identity of one is its session
  NoConn,     \* no helper is connected
  Share,      \* share ids the helpers may draw
  NoShare,    \* a status or a frame that names no share
  NoComputer, \* no helper has said hello
  NoScreen,   \* no observation is published
  NoGate,     \* computer_authority_gate is None
  MaxRetired, \* MAX_RETIRED_COMPUTER_SHARE_IDS (256 in the code)
  Malformed   \* whether helpers may answer what they should not

\* One method per way perform_computer_action treats a method: "status" also
\* stands for computer.share.status, "click" for every native mutation.
Methods   == {"observe", "status", "click", "share.start", "share.stop"}
ReadsOnly == {"observe", "status"}
Exempt    == Methods \ {"click"}

ASSUME TrafficAssumption == Traffic \subseteq Request \X Methods
ASSUME GateAssumption == MaxRetired \in Nat \ {0} /\ Malformed \in BOOLEAN
ASSUME SentinelAssumption == NoShare \notin Share /\ NoConn \notin Conn

VARIABLES
  \* the hub and the websocket handlers
  current,   \* the connection of the hub
  phase,     \* of the handler of each connection
  waiting,   \* calls whose caller waits for an answer
  answer,    \* what a call was answered
  cancels,   \* calls for which a cancel was sent
  \* the public state, under the data lock
  computer,  \* the helper that said hello, and its published share status
  screen,    \* the published observation and screenshot
  gate,      \* ComputerAuthorityGate
  \* the actions
  pc, method, target,
  armed,     \* requests whose ShareStartValidationGuard is armed
  canceled,  \* requests whose caller canceled or left
  unsettled, \* those of them not settled yet
  cleanup,   \* the task spawned by spawn_rejected_computer_share_cleanup
  clearing,  \* sessions whose state the task of a dropped guard will clear
  \* the helpers
  inbox, outbox, \* the wire, in order
  capture,   \* the share that is being captured
  drawn,     \* share ids in use so far
  \* history
  withdrawn, \* approvals that have ended
  suspect    \* sessions with a mutation of unknown outcome and no recovery

hubVars    == <<current, phase, waiting, answer, cancels>>
callVars   == <<waiting, answer>>
publicVars == <<computer, screen, gate>>
actionVars == <<pc, method, target, armed, canceled, unsettled>>
taskVars   == <<cleanup, clearing>>
helperVars == <<inbox, outbox, capture, drawn>>
historyVars == <<withdrawn, suspect>>
vars == <<hubVars, publicVars, actionVars, taskVars, helperVars, historyVars>>

Shares == Share \cup {NoShare}
Call   == Request \X {"action", "observe", "cleanup"}

\* An answer: an error that proves the command was not carried out, one that
\* proves nothing, or a result with the share the helper reports as active.
Answer(kind, s) == [kind |-> kind, share |-> s]
NoAnswer == Answer("none", NoShare)
Refused  == Answer("refused", NoShare)
Unknown  == Answer("unknown", NoShare)
Answers  == [kind : {"none", "refused", "unknown", "malformed", "ok"}, share : Shares]

\* The status a share is published with.  "active" and "pending" are active
\* with an id as far as active_share_id is concerned; "inactive" is what a
\* helper reports, "unknown", "failed" and "rolledBack" what the server states.
Status(kind, s) == [kind |-> kind, share |-> s]
Statuses == [kind : {"active", "pending", "inactive", "unknown", "failed", "rolledBack"},
             share : Shares]
Reported(s) == IF s = NoShare THEN Status("inactive", NoShare) ELSE Status("active", s)

\* What is published: a helper with its share, and what is on display.
Computers == [session : Conn, share : Statuses]
Screens   == [from : Conn, share : Shares]

Ready(c) == current = c /\ phase[c] \in {"marked", "open"}

-----------------------------------------------------------------------------
(* The gate.                                                               *)

Gates == [session : Conn, recovered : BOOLEAN, approved : Shares,
          retired : {S \in SUBSET Share : IsFiniteSet(S) /\ Cardinality(S) <= MaxRetired},
          saturated : BOOLEAN]

ASSUME PublicAssumption ==
  /\ NoComputer \notin Computers /\ NoScreen \notin Screens
  /\ NoGate \notin Gates

NewGate(c, previous) ==
  [session |-> c, recovered |-> FALSE, approved |-> NoShare,
   retired |-> {previous} \ {NoShare}, saturated |-> FALSE]

\* Mutant: the set of retired shares has no bound.
RetireAlways(g, s) ==
  IF s = NoShare \/ s \in g.retired THEN g ELSE [g EXCEPT !.retired = @ \cup {s}]

\* retire_share_id: when the set is full, no share will be approved any more.
Retire(g, s) ==
  IF s = NoShare \/ s \in g.retired THEN g
  ELSE IF Cardinality(g.retired) >= MaxRetired THEN [g EXCEPT !.saturated = TRUE]
  ELSE [g EXCEPT !.retired = @ \cup {s}]

\* Mutant: a share that is stopped is not retired.
NoteStoppedOnly(g) == [g EXCEPT !.approved = NoShare, !.recovered = FALSE]

\* note_share_stopped, revoke and approve of the gate.
NoteStopped(g) == [Retire(g, g.approved) EXCEPT !.approved = NoShare, !.recovered = FALSE]
RevokeAgain(g, previous) == Retire(NoteStopped(g), previous)
Approve(g, s) == [Retire(g, g.approved) EXCEPT !.approved = s, !.recovered = TRUE]

StartVerdict(g, s) ==
  CASE g.saturated                          -> "Saturated"
    [] ~g.saturated /\ (s \in g.retired \/ s = g.approved) -> "Retired"
    [] OTHER                                -> "Allowed"

\* The gate counts only for the session it was installed for.
Gated(c) == gate # NoGate /\ gate.session = c
RequiresRecovery(c) == Gated(c) /\ ~gate.recovered

Revoked(c, previous) == IF Gated(c) THEN RevokeAgain(gate, previous) ELSE NewGate(c, previous)
Stopped(c)   == IF Gated(c) THEN NoteStopped(gate) ELSE gate
StartGate(c) == IF Gated(c) THEN gate ELSE NewGate(c, NoShare)

\* authorize_computer_observation, for a one-shot frame whose status names s
\* as the active share: without a gate, and without an approved share, only
\* a frame free of shares, and after a revocation only an explicit one.
ObservationAllowed(c, s, explicit) ==
  IF Gated(c) /\ gate.approved # NoShare
  THEN gate.recovered /\ s = gate.approved
  ELSE s = NoShare /\ (Gated(c) => gate.recovered \/ explicit)

\* allows_computer_share_frame and authorize_computer_share_error.
FrameAllowed(c, s) == Gated(c) /\ gate.recovered /\ gate.approved # NoShare /\ gate.approved = s

-----------------------------------------------------------------------------
(* Publication.                                                            *)

PublishedShare == IF computer = NoComputer THEN NoShare ELSE computer.share.share

WithStatus(status) == IF computer = NoComputer THEN computer ELSE [computer EXCEPT !.share = status]

ClearPublicState == computer' = NoComputer /\ screen' = NoScreen /\ gate' = NoGate

SessionIs(c) == computer # NoComputer /\ computer.session = c

ErrorAllowed(c, s) == IF Gated(c) THEN gate.approved = s ELSE PublishedShare = s

\* Mutant: the session is not compared.
WithdrawAnySession(c, m) ==
  IF m \in ReadsOnly THEN UNCHANGED publicVars
  ELSE /\ computer' = WithStatus(Status("unknown", NoShare))
       /\ gate' = Revoked(c, PublishedShare)
       /\ screen' = NoScreen

\* Mutant: without a published share nothing is gated.
WithdrawShareOnly(c, m) ==
  IF m \in ReadsOnly \/ ~SessionIs(c) THEN UNCHANGED publicVars
  ELSE /\ computer' = WithStatus(Status("unknown", NoShare))
       /\ gate' = IF PublishedShare = NoShare THEN gate ELSE Revoked(c, PublishedShare)
       /\ screen' = NoScreen

\* clear_published_computer_authority_after_unknown.
WithdrawAfterUnknown(c, m) ==
  IF m \in ReadsOnly \/ ~SessionIs(c) THEN UNCHANGED publicVars
  ELSE /\ computer' = WithStatus(Status("unknown", NoShare))
       /\ gate' = Revoked(c, PublishedShare)
       /\ screen' = NoScreen

\* close_if_current, and what becomes of the public state if it did close.
RevokeTransport(c) ==
  IF current # c THEN UNCHANGED <<current, publicVars>>
  ELSE /\ current' = NoConn
       /\ IF SessionIs(c) THEN ClearPublicState ELSE UNCHANGED publicVars

-----------------------------------------------------------------------------
Init ==
  /\ current = NoConn
  /\ phase = [c \in Conn |-> "new"]
  /\ waiting = {} /\ cancels = {}
  /\ answer = [k \in Call |-> NoAnswer]
  /\ computer = NoComputer /\ screen = NoScreen /\ gate = NoGate
  /\ pc = [r \in Request |-> "idle"]
  /\ method = [r \in Request |-> "observe"]
  /\ target = [r \in Request |-> NoConn]
  /\ armed = {} /\ canceled = {} /\ unsettled = {}
  /\ cleanup = [r \in Request |-> "none"]
  /\ clearing = {}
  /\ inbox = [c \in Conn |-> <<>>]
  /\ outbox = [c \in Conn |-> <<>>]
  /\ capture = [c \in Conn |-> NoShare]
  /\ drawn = {}
  /\ withdrawn = {} /\ suspect = {}

-----------------------------------------------------------------------------
(* Calls on one exact connection.                                          *)

\* call_scoped_to: the command is enqueued on c, or refused because c is not
\* the current connection or its queue is full.
Relay(k, c, m) ==
  \/ /\ Ready(c)
     /\ waiting' = waiting \cup {k}
     /\ answer' = [answer EXCEPT ![k] = NoAnswer]
     /\ inbox' = [inbox EXCEPT ![c] = Append(@, [call |-> k, method |-> m])]
  \/ /\ answer' = [answer EXCEPT ![k] = Refused]
     /\ UNCHANGED <<waiting, inbox>>

\* The timer fires, or the connection of the call is gone.
HubGivesUp(k) ==
  /\ k \in waiting
  /\ waiting' = waiting \ {k}
  /\ answer' = [answer EXCEPT ![k] = Unknown]
  /\ cancels' = cancels \cup {k}
  /\ UNCHANGED <<current, phase, publicVars, actionVars, taskVars, helperVars>>

Answered(k) == k \notin waiting /\ answer[k] # NoAnswer


-----------------------------------------------------------------------------
(* The handler of a helper connection.                                     *)

\* A new transport replaces the current one and clears what it published.
Attach(c) ==
  /\ phase[c] = "new"
  /\ phase' = [phase EXCEPT ![c] = "greeting"]
  /\ current' = c
  /\ ClearPublicState
  /\ UNCHANGED <<callVars, cancels, actionVars, taskVars, helperVars>>

\* handle_computer_hello, up to mark_ready.  The helper has reset its share.
MarkReady(c) ==
  /\ phase[c] = "greeting"
  /\ current = c
  /\ phase' = [phase EXCEPT ![c] = "marked"]
  /\ UNCHANGED <<current, callVars, cancels, publicVars, actionVars, taskVars, helperVars>>

\* Its second half: the helper is published, unless it was replaced since.
PublishHello(c) ==
  /\ phase[c] = "marked"
  /\ IF current = c
     THEN /\ gate' = IF SessionIs(c) THEN gate ELSE NoGate
          /\ computer' = [session |-> c, share |-> Reported(capture[c])]
          /\ phase' = [phase EXCEPT ![c] = "open"]
     ELSE /\ phase' = [phase EXCEPT ![c] = "greeting"]
          /\ UNCHANGED <<computer, gate>>
  /\ UNCHANGED <<current, callVars, cancels, screen, actionVars, taskVars, helperVars>>

\* The socket ends, or the shutdown signal is seen.  Only the current
\* connection is detached, and clears what it published.
Leave(c) ==
  /\ phase[c] \in {"greeting", "open"}
  /\ phase' = [phase EXCEPT ![c] = "left"]
  /\ IF current = c THEN current' = NoConn /\ ClearPublicState
                    ELSE UNCHANGED <<current, publicVars>>
  /\ UNCHANGED <<callVars, cancels, actionVars, taskVars, helperVars>>

\* A result is resolved if its call still waits.
Resolve(c) ==
  /\ phase[c] = "open" /\ current = c
  /\ outbox[c] # <<>> /\ Head(outbox[c]).type = "result"
  /\ outbox' = [outbox EXCEPT ![c] = Tail(@)]
  /\ LET m == Head(outbox[c])
     IN  IF m.call \in waiting
         THEN /\ waiting' = waiting \ {m.call}
              /\ answer' = [answer EXCEPT ![m.call] = m.answer]
         ELSE UNCHANGED callVars
  /\ UNCHANGED <<current, phase, cancels, publicVars, actionVars, taskVars,
                 inbox, capture, drawn>>

\* Mutant: a frame is published whatever share it belongs to.
ShareFrameUnchecked(c) ==
  /\ phase[c] = "open" /\ current = c
  /\ outbox[c] # <<>> /\ Head(outbox[c]).type = "frame"
  /\ outbox' = [outbox EXCEPT ![c] = Tail(@)]
  /\ LET s == Head(outbox[c]).share
     IN  /\ computer' = WithStatus(Reported(s))
         /\ screen' = [from |-> c, share |-> s]
  /\ UNCHANGED <<hubVars, gate, actionVars, taskVars, inbox, capture, drawn>>

\* handle_computer_event, computer.share.frame.
ShareFrame(c) ==
  /\ phase[c] = "open" /\ current = c
  /\ outbox[c] # <<>> /\ Head(outbox[c]).type = "frame"
  /\ outbox' = [outbox EXCEPT ![c] = Tail(@)]
  /\ LET s == Head(outbox[c]).share
     IN  IF FrameAllowed(c, s)
         THEN /\ computer' = WithStatus(Reported(s))
              /\ screen' = [from |-> c, share |-> s]
         ELSE UNCHANGED <<computer, screen>>
  /\ UNCHANGED <<hubVars, gate, actionVars, taskVars, inbox, capture, drawn>>

\* handle_computer_event, computer.share.error.
ShareError(c) ==
  /\ phase[c] = "open" /\ current = c
  /\ outbox[c] # <<>> /\ Head(outbox[c]).type = "error"
  /\ outbox' = [outbox EXCEPT ![c] = Tail(@)]
  /\ LET s == Head(outbox[c]).share
     IN  IF ErrorAllowed(c, s)
         THEN /\ gate' = Stopped(c)
              /\ computer' = WithStatus(Status("failed", NoShare))
              /\ screen' = NoScreen
         ELSE UNCHANGED publicVars
  /\ UNCHANGED <<hubVars, actionVars, taskVars, inbox, capture, drawn>>

-----------------------------------------------------------------------------
(* perform_computer_action.                                                *)

Act(r)  == <<r, "action">>
Look(r) == <<r, "observe">>
Live(r) == pc[r] \notin {"idle", "gone"}
Goto(r, label) == pc' = [pc EXCEPT ![r] = label]

\* The action lock is free, every earlier computer action is done with its
\* answer, and those that were interrupted are settled; the state is read.
Admit(r) ==
  /\ pc[r] = "idle"
  /\ \A q \in Request : ~Live(q)
  /\ unsettled = {}
  /\ computer # NoComputer
  /\ \E m \in {n \in Methods : <<r, n>> \in Traffic} :
       /\ m \in Exempt \/ ~RequiresRecovery(computer.session)
       /\ method' = [method EXCEPT ![r] = m]
       /\ target' = [target EXCEPT ![r] = computer.session]
  /\ Goto(r, "admitted")
  /\ UNCHANGED <<hubVars, publicVars, armed, canceled, unsettled, taskVars, helperVars>>

\* A start is refused for a saturated session; otherwise its guard is armed
\* before it is relayed.
Dispatch(r) ==
  /\ pc[r] = "admitted"
  /\ LET c == target[r]
     IN  IF method[r] = "share.start" /\ Gated(c) /\ gate.saturated
         THEN /\ Goto(r, "ending")
              /\ UNCHANGED <<callVars, inbox, armed>>
         ELSE /\ IF method[r] = "observe"
                 THEN Relay(Look(r), c, "observe") /\ Goto(r, "observing")
                 ELSE Relay(Act(r), c, method[r]) /\ Goto(r, "calling")
              /\ armed' = IF method[r] = "share.start" THEN armed \cup {r} ELSE armed
  /\ UNCHANGED <<current, phase, cancels, publicVars, method, target, canceled, unsettled,
                 taskVars, outbox, capture, drawn>>

\* The call returns.  A canceled action is not polled again.
Wake(r) ==
  /\ r \notin canceled
  /\ \/ pc[r] = "calling" /\ Answered(Act(r)) /\ Goto(r, "returned")
     \/ pc[r] = "observing" /\ Answered(Look(r)) /\ Goto(r, "observed")
  /\ UNCHANGED <<hubVars, publicVars, method, target, armed, canceled, unsettled,
                 taskVars, helperVars>>

\* The helper or the hub reports an error.
CallFails(r) ==
  /\ pc[r] = "returned" /\ answer[Act(r)].kind \in {"refused", "unknown"}
  /\ IF answer[Act(r)].kind = "unknown" THEN WithdrawAfterUnknown(target[r], method[r])
                                        ELSE UNCHANGED publicVars
  /\ Goto(r, "ending")
  /\ UNCHANGED <<hubVars, method, target, armed, canceled, unsettled, taskVars, helperVars>>

\* revoke_invalid_native_action_result.
InvalidResult(r) ==
  /\ pc[r] = "returned" /\ method[r] = "click" /\ answer[Act(r)].kind = "malformed"
  /\ RevokeTransport(target[r])
  /\ Goto(r, "ending")
  /\ UNCHANGED <<phase, callVars, cancels, method, target, armed, canceled, unsettled,
                 taskVars, helperVars>>

\* A mutation succeeded: the screen will be observed again.
ClickReturns(r) ==
  /\ pc[r] = "returned" /\ method[r] = "click" /\ answer[Act(r)].kind = "ok"
  /\ Goto(r, "pausing")
  /\ UNCHANGED <<hubVars, publicVars, method, target, armed, canceled, unsettled,
                 taskVars, helperVars>>

\* Mutant: a status is believed under a gate, too.
CommitStatusAnyway(r) ==
  /\ pc[r] = "returned" /\ method[r] = "status" /\ answer[Act(r)].kind = "ok"
  /\ computer' = IF Ready(target[r])
                 THEN WithStatus(Reported(answer[Act(r)].share)) ELSE computer
  /\ Goto(r, "ending")
  /\ UNCHANGED <<hubVars, screen, gate, method, target, armed, canceled, unsettled,
                 taskVars, helperVars>>

\* A status describes the share, and is believed only without a gate.
CommitStatus(r) ==
  /\ pc[r] = "returned" /\ method[r] = "status" /\ answer[Act(r)].kind = "ok"
  /\ computer' = IF Ready(target[r]) /\ ~Gated(target[r])
                 THEN WithStatus(Reported(answer[Act(r)].share)) ELSE computer
  /\ Goto(r, "ending")
  /\ UNCHANGED <<hubVars, screen, gate, method, target, armed, canceled, unsettled,
                 taskVars, helperVars>>

\* The share result came after its helper was replaced or revoked.
CommitTooLate(r) ==
  /\ pc[r] = "returned" /\ method[r] \in {"share.start", "share.stop"}
  /\ answer[Act(r)].kind \in {"ok", "malformed"} /\ ~Ready(target[r])
  /\ Goto(r, "ending")
  /\ UNCHANGED <<hubVars, publicVars, method, target, armed, canceled, unsettled,
                 taskVars, helperVars>>

\* Publication of s ends, its capture is yet to be stopped by a task of its
\* own, and the guard is no longer needed.
RejectShare(r, g, s) ==
  /\ gate' = IF g # NoGate /\ g.session = target[r] THEN NoteStopped(g) ELSE g
  /\ computer' = WithStatus(Status("pending", s))
  /\ screen' = NoScreen
  /\ cleanup' = [cleanup EXCEPT ![r] = "spawned"]
  /\ armed' = armed \ {r}
  /\ Goto(r, "awaiting")

\* A start that names a share neither approved nor retired is approved.
CommitStart(r) ==
  /\ pc[r] = "returned" /\ method[r] = "share.start"
  /\ answer[Act(r)].kind = "ok" /\ Ready(target[r])
  /\ LET c == target[r]
         s == answer[Act(r)].share
         g == StartGate(c)
     IN  CASE s = NoShare ->
                RejectShare(r, Revoked(c, PublishedShare), PublishedShare)
           [] s # NoShare /\ StartVerdict(g, s) = "Allowed" ->
                /\ gate' = Approve(g, s)
                /\ computer' = WithStatus(Reported(s))
                /\ screen' = NoScreen
                /\ Goto(r, "pausing")
                /\ UNCHANGED <<armed, cleanup>>
           [] s # NoShare /\ StartVerdict(g, s) # "Allowed" ->
                RejectShare(r, g, s)
  /\ UNCHANGED <<hubVars, method, target, canceled, unsettled, clearing, helperVars>>

\* A stop must be confirmed; the share of a malformed answer is none.
CommitStop(r) ==
  /\ pc[r] = "returned" /\ method[r] = "share.stop" /\ Ready(target[r])
  /\ \/ /\ answer[Act(r)].kind = "ok"
        /\ gate' = Stopped(target[r])
        /\ computer' = WithStatus(Reported(NoShare))
        /\ screen' = NoScreen
        /\ Goto(r, "ending")
        /\ UNCHANGED <<armed, cleanup>>
     \/ /\ answer[Act(r)].kind = "malformed"
        /\ RejectShare(r, Revoked(target[r], PublishedShare), PublishedShare)
  /\ UNCHANGED <<hubVars, method, target, canceled, unsettled, clearing, helperVars>>

\* The observation that follows a start or a mutation.
CallObserve(r) ==
  /\ pc[r] = "pausing"
  /\ IF Ready(target[r])
     THEN Relay(Look(r), target[r], "observe") /\ Goto(r, "observing")
     ELSE Goto(r, "ending") /\ UNCHANGED <<callVars, inbox>>
  /\ UNCHANGED <<current, phase, cancels, publicVars, method, target, armed, canceled,
                 unsettled, taskVars, outbox, capture, drawn>>

ObservationAccepted(r) ==
  /\ answer[Look(r)].kind = "ok" /\ Ready(target[r])
  /\ ObservationAllowed(target[r], answer[Look(r)].share, method[r] = "observe")

\* refresh_computer_observation_for publishes, and thereby recovers.
CommitObservation(r) ==
  /\ pc[r] = "observed" /\ ObservationAccepted(r)
  /\ gate' = IF Gated(target[r]) THEN [gate EXCEPT !.recovered = TRUE] ELSE gate
  /\ screen' = [from |-> target[r], share |-> NoShare]
  /\ Goto(r, "committed")
  /\ UNCHANGED <<hubVars, computer, method, target, armed, canceled, unsettled, taskVars,
                 helperVars>>

\* What was published is logged; only then is a start complete, and its guard
\* disarmed.
Disarm(r) ==
  /\ pc[r] = "committed" /\ r \notin canceled
  /\ armed' = armed \ {r}
  /\ Goto(r, "ending")
  /\ UNCHANGED <<hubVars, publicVars, method, target, canceled, unsettled, taskVars, helperVars>>

\* The observation fails: a start is rejected, nothing else is disturbed.
ObservationFails(r) ==
  /\ pc[r] = "observed" /\ ~ObservationAccepted(r)
  /\ IF method[r] # "share.start"
     THEN Goto(r, "ending") /\ UNCHANGED <<publicVars, armed, cleanup>>
     ELSE IF Ready(target[r]) /\ SessionIs(target[r])
          THEN RejectShare(r, gate, answer[Act(r)].share)
          ELSE /\ cleanup' = [cleanup EXCEPT ![r] = "spawned"]
               /\ armed' = armed \ {r}
               /\ Goto(r, "awaiting")
               /\ UNCHANGED publicVars
  /\ UNCHANGED <<hubVars, method, target, canceled, unsettled, clearing, helperVars>>

\* Mutant: the request leaves its cleanup alone.
AwaitNothing(r) ==
  /\ pc[r] = "awaiting" /\ r \notin canceled
  /\ Goto(r, "ending")
  /\ UNCHANGED <<hubVars, publicVars, method, target, armed, canceled, unsettled,
                 taskVars, helperVars>>

\* The request waits for its cleanup, which does not need it.
AwaitCleanup(r) ==
  /\ pc[r] = "awaiting" /\ cleanup[r] = "done" /\ r \notin canceled
  /\ Goto(r, "ending")
  /\ UNCHANGED <<hubVars, publicVars, method, target, armed, canceled, unsettled,
                 taskVars, helperVars>>

\* Mutant: nobody clears the public state.
DropGuardOnly(r) ==
  /\ armed' = armed \ {r}
  /\ current' = IF r \in armed /\ current = target[r] THEN NoConn ELSE current
  /\ UNCHANGED clearing

\* ShareStartValidationGuard::drop: an armed guard closes the transport, and
\* leaves it to a task to clear the public state.
DropGuard(r) ==
  /\ armed' = armed \ {r}
  /\ IF r \in armed /\ current = target[r]
     THEN current' = NoConn /\ clearing' = clearing \cup {target[r]}
     ELSE UNCHANGED <<current, clearing>>

\* The action future ends, and with it the guard and the action lock.
End(r) ==
  /\ pc[r] = "ending"
  /\ DropGuard(r)
  /\ Goto(r, "ended")
  /\ UNCHANGED <<phase, callVars, cancels, publicVars, method, target, canceled, unsettled,
                 cleanup, helperVars>>

\* The handler answers, an interrupted one when it is settled.
Finish(r) ==
  /\ pc[r] = "ended" /\ r \notin unsettled
  /\ Goto(r, "gone")
  /\ UNCHANGED <<hubVars, publicVars, method, target, armed, canceled, unsettled,
                 taskVars, helperVars>>

\* The caller cancels or leaves: the request is marked interrupted.
Cancel(r) ==
  /\ Live(r) /\ r \notin canceled
  /\ canceled' = canceled \cup {r}
  /\ unsettled' = unsettled \cup {r}
  /\ UNCHANGED <<hubVars, publicVars, pc, method, target, armed, taskVars, helperVars>>

\* Its action future is dropped where it stands.
Unwind(r) ==
  /\ r \in canceled /\ Live(r) /\ pc[r] # "ended"
  /\ DropGuard(r)
  /\ waiting' = waiting \ {Act(r), Look(r)}
  /\ cancels' = cancels \cup (waiting \cap {Act(r), Look(r)})
  /\ Goto(r, "ended")
  /\ UNCHANGED <<phase, answer, publicVars, method, target, canceled, unsettled,
                 cleanup, helperVars>>

\* settle_command_authority, by whoever gets to it.
Settle(r) ==
  /\ r \in unsettled
  /\ unsettled' = unsettled \ {r}
  /\ WithdrawAfterUnknown(target[r], method[r])
  /\ UNCHANGED <<hubVars, pc, method, target, armed, canceled, taskVars, helperVars>>

-----------------------------------------------------------------------------
(* The detached tasks.                                                     *)

Stop(r) == <<r, "cleanup">>

\* rollback_rejected_computer_share_start stops the share on the connection
\* of the request.
CleanupCalls(r) ==
  /\ cleanup[r] = "spawned"
  /\ cleanup' = [cleanup EXCEPT ![r] = "stopping"]
  /\ Relay(Stop(r), target[r], "share.stop")
  /\ UNCHANGED <<current, phase, cancels, publicVars, actionVars, clearing,
                 outbox, capture, drawn>>

\* Mutant: a confirmed stop is not published.
CleanupConfirmedSilently(r) ==
  /\ cleanup[r] = "stopping" /\ Answered(Stop(r)) /\ answer[Stop(r)].kind = "ok"
  /\ cleanup' = [cleanup EXCEPT ![r] = "done"]
  /\ UNCHANGED <<hubVars, publicVars, actionVars, clearing, helperVars>>

\* The stop is confirmed.
CleanupConfirmed(r) ==
  /\ cleanup[r] = "stopping" /\ Answered(Stop(r)) /\ answer[Stop(r)].kind = "ok"
  /\ cleanup' = [cleanup EXCEPT ![r] = "done"]
  /\ IF Ready(target[r]) /\ SessionIs(target[r])
     THEN /\ gate' = Stopped(target[r])
          /\ computer' = WithStatus(Status("rolledBack", NoShare))
          /\ screen' = NoScreen
     ELSE UNCHANGED publicVars
  /\ UNCHANGED <<hubVars, actionVars, clearing, helperVars>>

\* Mutant: an unconfirmed stop is left alone.
CleanupGivesUp(r) ==
  /\ cleanup[r] = "stopping" /\ Answered(Stop(r)) /\ answer[Stop(r)].kind # "ok"
  /\ cleanup' = [cleanup EXCEPT ![r] = "done"]
  /\ UNCHANGED <<hubVars, publicVars, actionVars, clearing, helperVars>>

\* It is not: the transport is revoked.
CleanupUnproven(r) ==
  /\ cleanup[r] = "stopping" /\ Answered(Stop(r)) /\ answer[Stop(r)].kind # "ok"
  /\ cleanup' = [cleanup EXCEPT ![r] = "done"]
  /\ RevokeTransport(target[r])
  /\ UNCHANGED <<phase, callVars, cancels, actionVars, clearing, helperVars>>

\* Mutant: whatever helper is published is cleared.
ClearAny(c) ==
  /\ c \in clearing
  /\ clearing' = clearing \ {c}
  /\ ClearPublicState
  /\ UNCHANGED <<hubVars, actionVars, cleanup, helperVars>>

\* clear_revoked_computer_transport_state, for the guard that closed c.
ClearRevoked(c) ==
  /\ c \in clearing
  /\ clearing' = clearing \ {c}
  /\ IF SessionIs(c) THEN ClearPublicState ELSE UNCHANGED publicVars
  /\ UNCHANGED <<hubVars, actionVars, cleanup, helperVars>>

-----------------------------------------------------------------------------
(* The helper, src/src/computer.rs: it serves commands in order, and       *)
(* captures at most one share at a time.                                   *)

Result(k, a)   == [type |-> "result", call |-> k, answer |-> a]
Event(type, s) == [type |-> type, share |-> s]

\* Only a waiting caller tells one answer from another.
Reply(c, k, a) ==
  outbox' = IF k \in waiting THEN [outbox EXCEPT ![c] = Append(@, Result(k, a))] ELSE outbox

CaptureIs(c, s) == capture' = [capture EXCEPT ![c] = s]

\* share_start draws a fresh id and replaces the share before it; a cancel
\* that comes too late stops the new share again.
ShareStarts(c, k) ==
  \E s \in IF Malformed THEN Share ELSE Share \ drawn :
    /\ drawn' = drawn \cup {s}
    /\ \/ /\ CaptureIs(c, s)
          /\ \E named \in {s} \cup (IF Malformed THEN {NoShare} ELSE {}) :
               Reply(c, k, Answer("ok", named))
       \/ k \in cancels /\ CaptureIs(c, NoShare) /\ Reply(c, k, Unknown)

\* share_stop.
ShareStops(c, k) ==
  /\ CaptureIs(c, NoShare)
  /\ \/ Reply(c, k, Answer("ok", NoShare))
     \/ Malformed /\ Reply(c, k, Answer("malformed", NoShare))
  /\ UNCHANGED drawn

\* A mutation; when its outcome is unknown the helper revokes its own share.
Mutates(c, k) ==
  /\ \/ Reply(c, k, Answer("ok", NoShare)) /\ UNCHANGED capture
     \/ Malformed /\ Reply(c, k, Answer("malformed", NoShare)) /\ UNCHANGED capture
     \/ Reply(c, k, Unknown) /\ CaptureIs(c, NoShare)
  /\ UNCHANGED drawn

\* Status and observation report the share being captured.
Reports(c, k) ==
  /\ Reply(c, k, Answer("ok", capture[c]))
  /\ UNCHANGED <<capture, drawn>>

\* The helper takes its next command; one it cannot carry out, or that was
\* canceled in time, has no effect.
Serve(c) ==
  /\ phase[c] = "open" /\ inbox[c] # <<>>
  /\ inbox' = [inbox EXCEPT ![c] = Tail(@)]
  /\ LET k == Head(inbox[c]).call
         m == Head(inbox[c]).method
     IN  \/ (m # "share.stop" \/ k \in cancels) /\ Reply(c, k, Refused) /\ UNCHANGED <<capture, drawn>>
         \/ m = "share.start" /\ ShareStarts(c, k)
         \/ m = "share.stop" /\ ShareStops(c, k)
         \/ m = "click" /\ Mutates(c, k)
         \/ m \in ReadsOnly /\ Reports(c, k)
  /\ UNCHANGED <<hubVars, publicVars, actionVars, taskVars>>

\* The mailbox releases a frame when the one before it was acknowledged.
EmitFrame(c) ==
  /\ phase[c] = "open" /\ capture[c] # NoShare
  /\ \A i \in DOMAIN outbox[c] : outbox[c][i].type # "frame"
  /\ outbox' = [outbox EXCEPT ![c] = Append(@, Event("frame", capture[c]))]
  /\ UNCHANGED <<hubVars, publicVars, actionVars, taskVars, inbox, capture, drawn>>

\* fail_share_capture: capture ends by itself and says so.
EmitError(c) ==
  /\ phase[c] = "open" /\ capture[c] # NoShare
  /\ outbox' = [outbox EXCEPT ![c] = Append(@, Event("error", capture[c]))]
  /\ CaptureIs(c, NoShare)
  /\ UNCHANGED <<hubVars, publicVars, actionVars, taskVars, inbox, drawn>>

\* The helper loses its transport: reset_transport_session.
HelperResets(c) ==
  /\ current # c /\ phase[c] # "new"
  /\ capture[c] # NoShare \/ inbox[c] # <<>> \/ outbox[c] # <<>>
  /\ CaptureIs(c, NoShare)
  /\ inbox' = [inbox EXCEPT ![c] = <<>>]
  /\ outbox' = [outbox EXCEPT ![c] = <<>>]
  /\ UNCHANGED <<hubVars, publicVars, actionVars, taskVars, drawn>>

-----------------------------------------------------------------------------
(* Histories, the next-state relation and fairness.                        *)

\* Approvals that this step ends.
Ended ==
  IF gate = NoGate THEN {}
  ELSE {p \in {<<gate.session, gate.approved>>} :
          /\ gate.approved # NoShare
          /\ gate' = NoGate \/ gate'.session # gate.session \/ gate'.approved # gate.approved}

\* Sessions whose last mutation this step makes unknown to its caller.
Blamed ==
  {target[r] : r \in {q \in Request :
     /\ method[q] \notin ReadsOnly
     /\ \/ q \in canceled' \ canceled
        \/ pc[q] = "calling" /\ pc'[q] = "returned" /\ answer[Act(q)] = Unknown}}

\* Sessions that this step recovers.
Healed ==
  IF gate' = NoGate \/ ~RequiresRecovery(gate'.session) THEN {}
  ELSE {c \in {gate'.session} : gate'.recovered}

History ==
  /\ withdrawn' = withdrawn \cup Ended
  /\ suspect' = (suspect \ Healed) \cup Blamed

RequestStep(r) ==
  \/ Admit(r) \/ Dispatch(r) \/ Wake(r) \/ CallFails(r) \/ InvalidResult(r)
  \/ ClickReturns(r) \/ CommitStatus(r) \/ CommitTooLate(r) \/ CommitStart(r)
  \/ CommitStop(r) \/ CallObserve(r) \/ CommitObservation(r) \/ ObservationFails(r)
  \/ Disarm(r) \/ AwaitCleanup(r) \/ End(r) \/ Finish(r) \/ Unwind(r)
CleanupStep(r) == CleanupCalls(r) \/ CleanupConfirmed(r) \/ CleanupUnproven(r)
HandlerStep(c) ==
  \/ Attach(c) \/ MarkReady(c) \/ PublishHello(c) \/ Leave(c)
  \/ Resolve(c) \/ ShareFrame(c) \/ ShareError(c)
HelperStep(c) == Serve(c) \/ EmitFrame(c) \/ EmitError(c) \/ HelperResets(c)

Step ==
  \/ \E r \in Request : RequestStep(r) \/ Cancel(r) \/ Settle(r) \/ CleanupStep(r)
  \/ \E c \in Conn : HandlerStep(c) \/ ClearRevoked(c) \/ HelperStep(c)
  \/ \E k \in Call : HubGivesUp(k)

Next == Step /\ History

Spec == Init /\ [][Next]_vars

\* The tasks of the server run, and a call on the hub returns.
Fairness ==
  /\ \A r \in Request : WF_vars(RequestStep(r) /\ History)
  /\ \A r \in Request : WF_vars(Settle(r) /\ History) /\ WF_vars(CleanupStep(r) /\ History)
  /\ \A c \in Conn : WF_vars(ClearRevoked(c) /\ History)
  /\ \A k \in Call : WF_vars(HubGivesUp(k) /\ History)

FairSpec == Spec /\ Fairness

-----------------------------------------------------------------------------
(* Properties.                                                             *)

Messages == [type : {"result"}, call : Call, answer : Answers]
              \cup [type : {"frame", "error"}, share : Share]

\* Every variable has its type.
TypeOK ==
  /\ current \in Conn \cup {NoConn}
  /\ phase \in [Conn -> {"new", "greeting", "marked", "open", "left"}]
  /\ waiting \subseteq Call /\ cancels \subseteq Call
  /\ answer \in [Call -> Answers]
  /\ computer \in Computers \cup {NoComputer}
  /\ screen \in Screens \cup {NoScreen}
  /\ gate \in Gates \cup {NoGate}
  /\ pc \in [Request -> {"idle", "admitted", "calling", "returned", "pausing", "observing",
                         "observed", "committed", "awaiting", "ending", "ended",
                         "gone"}]
  /\ method \in [Request -> Methods]
  /\ target \in [Request -> Conn \cup {NoConn}]
  /\ armed \subseteq Request /\ canceled \subseteq Request /\ unsettled \subseteq Request
  /\ cleanup \in [Request -> {"none", "spawned", "stopping", "done"}]
  /\ clearing \subseteq Conn
  /\ inbox \in [Conn -> Seq([call : Call, method : Methods])]
  /\ outbox \in [Conn -> Seq(Messages)]
  /\ capture \in [Conn -> Shares]
  /\ drawn \subseteq Share
  /\ withdrawn \subseteq Conn \X Share /\ suspect \subseteq Conn

\* What is on display belongs to the published helper and is covered by its
\* gate: a streamed frame by the approved share, anything else by a recovery.
DisplayIsAuthorized ==
  screen # NoScreen =>
    /\ SessionIs(screen.from)
    /\ ~RequiresRecovery(screen.from)
    /\ screen.share # NoShare => FrameAllowed(screen.from, screen.share)

\* A share published as active under a gate is the one that was approved.
ActiveIsApproved ==
  computer # NoComputer /\ Gated(computer.session) /\ computer.share.kind = "active"
    => FrameAllowed(computer.session, computer.share.share)

\* The gate in force is the one of the published helper: nothing done for an
\* earlier session installs a gate that the present one is not held to.
GateIsOfHelper ==
  gate # NoGate => SessionIs(gate.session)

\* A share whose approval ended is never approved again in its session.
NeverReapproved ==
  gate # NoGate => <<gate.session, gate.approved>> \notin withdrawn

\* After a mutation of unknown outcome the session accepts no further one
\* until it recovers.
UnknownBlocksActing ==
  [][\A r \in Request : pc[r] = "idle" /\ pc'[r] = "admitted" /\ method'[r] = "click"
       => target'[r] \notin suspect]_vars

\* The state of a helper is cleared only when its transport is gone: no late
\* task of an earlier session takes down its replacement.
ReplacementIsSpared ==
  [][\A c \in Conn : SessionIs(c) /\ computer' = NoComputer => current' # c \/ current # c]_vars

\* A revoked transport does not stay on display.
RevokedIsForgotten ==
  \A c \in Conn : SessionIs(c) /\ current # c ~> ~SessionIs(c)

\* A share published as being stopped does not stay so.
PendingResolves ==
  [](computer # NoComputer /\ computer.share.kind = "pending"
       => <>(computer = NoComputer \/ computer.share.kind # "pending"))

\* What a helper captures when its share is rejected ends, or its transport
\* does, whether or not the caller is still there.
RejectedCaptureEnds ==
  \A r \in Request, c \in Conn, s \in Share :
    cleanup[r] = "spawned" /\ target[r] = c /\ capture[c] = s
      ~> capture[c] # s \/ current # c

\* The server says that a capture was stopped while there is one.
FalselyStopped(c) ==
  SessionIs(c) /\ current = c /\ computer.share.kind = "rolledBack" /\ capture[c] # NoShare

\* A start that is still being validated, a cleanup that is under way, and one
\* that outlived the caller who asked for it.
Validating(c) == \E r \in Request : target[r] = c /\ r \in armed
Stopping(c)   == \E r \in Request : target[r] = c /\ cleanup[r] \in {"spawned", "stopping"}
Abandoned(c)  == \E r \in canceled : target[r] = c /\ cleanup[r] = "done"

\* The server does not say that a share was rolled back and its stop confirmed
\* while its helper captures, but for a start that is yet to be validated.
StoppedIsStopped ==
  \A c \in Conn : FalselyStopped(c) => Validating(c) \/ Stopping(c)

\* It says so only through the cleanup of a caller who left: one that is still
\* awaited keeps the next start out until its stop is published.
StoppedUnlessAbandoned ==
  \A c \in Conn : FalselyStopped(c) => Validating(c) \/ Stopping(c) \/ Abandoned(c)
=============================================================================
