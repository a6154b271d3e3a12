---------------------------- MODULE ConnectorHub ----------------------------
(***************************************************************************)
(* The connector hub of the server (src/src/hub.rs) together with the part *)
(* of the websocket handlers of src/src/server.rs that drives it.          *)
(*                                                                         *)
(* One hub serves one connector (the browser extension or the computer     *)
(* helper).  It owns at most one current connection and a table of pending *)
(* calls.  Every method of the hub takes the two mutexes one after the     *)
(* other, never together, so a call, a replacement, a revocation, a result *)
(* and a timeout interleave between the two; each action below is one      *)
(* critical section (or one step between two of them).                     *)
(***************************************************************************)
EXTENDS Naturals, Sequences

CONSTANTS
  Call,          \* the calls made over the life of the hub
  NoCall,        \* the call field of a message that names none
  Conn,          \* the connections that authenticate over its life (fresh UUIDs)
  NoConn,        \* HubInner.connection = None; also "no expected connection"
  QueueCapacity, \* slots of a connection's outbound queue (64 in the code)
  Detached,      \* the calls made outside the server's action lock
  MayStop        \* whether the server may shut down within the bound of the run

ASSUME ConnAssumption == NoConn \notin Conn /\ Conn \cap {"empty", "unknown"} = {}
ASSUME CallAssumption == NoCall \notin Call
ASSUME CapacityAssumption == QueueCapacity \in Nat \ {0}
ASSUME DetachedAssumption == Detached \subseteq Call
ASSUME StopAssumption == MayStop \in BOOLEAN

VARIABLES
  \* HubInner
  current,   \* the connection in HubInner.connection, or NoConn
  pending,   \* the calls registered in HubInner.pending
  \* Connection, shared by every clone of it
  ready, shutdown, sequence, queue,
  receiver,  \* the receiving half of the queue, owned by the writer task
  \* the threads of control that own a connection's lifecycle
  handler,   \* where the websocket handler of a connection is
  handling,  \* the result envelope it is resolving
  replaces,  \* the connection its attach replaced
  revoker,   \* where the thread that took the connection out of the hub is
  reason,    \* why it did
  stopper,   \* where ExtensionHub::close is
  \* call_scoped_for, one thread per call
  pc, expected, bound, seqOf,
  slot,      \* the oneshot channel of the call
  owed,      \* who removed the registration and must still send on the oneshot
  outcome,   \* what the caller was told
  \* history of the wire
  delivered, \* the calls whose command reached the peer
  cancels    \* how many cancel envelopes were queued for a call

hubVars  == <<current, pending>>
connVars == <<ready, shutdown, sequence, queue, receiver>>
lifeVars == <<handler, handling, replaces, revoker, reason, stopper>>
callVars == <<pc, expected, bound, seqOf, slot, owed, outcome>>
wireVars == <<delivered, cancels>>
vars == <<hubVars, connVars, lifeVars, callVars, wireVars>>

\* Mutant: an envelope that lost its id.
MessageWithoutId(kind, k) == [kind |-> kind, call |-> NoCall]

Message(kind, k) == [kind |-> kind, call |-> k]
Messages == [kind : {"command", "cancel"}, call : Call]
              \cup [kind : {"close", "note"}, call : {NoCall}]

\* The result envelope a handler is resolving: the call whose id it carries and
\* whether it echoes the protocol, session and sequence of that call's command.
Envelopes == [call : Call \cup {NoCall}, exact : BOOLEAN]
NoEnvelope == [call |-> NoCall, exact |-> FALSE]

Refusals == {"offline", "disconnected", "handshake_pending", "overloaded"}
Outcomes == Refusals \cup {"none", "result", "unknown", "dropped"}

-----------------------------------------------------------------------------
(* The bounded queue: mpsc::Sender::try_send.                              *)

CanSend(c) == receiver[c] = "open" /\ Len(queue[c]) < QueueCapacity

TrySend(c, m) == IF CanSend(c) THEN [queue EXCEPT ![c] = Append(@, m)] ELSE queue

\* The cancel envelope of call k, best effort, to connection c.
SendCancel(c, k) ==
  /\ queue' = TrySend(c, Message("cancel", k))
  /\ cancels' = IF CanSend(c) THEN [cancels EXCEPT ![k] = @ + 1] ELSE cancels

\* fail_enqueued_for, first half: under the pending lock every registration of
\* connection c leaves the table, and by owes each of them an answer.
PendingOf(c) == {k \in pending : bound[k] = c}

TakePending(ks, by) ==
  /\ pending' = pending \ ks
  /\ owed' = [k \in Call |-> IF k \in ks THEN by ELSE owed[k]]

\* The calls of connection c that by took and has not answered yet.
OwedOn(c, by) == {k \in Call : owed[k] = by /\ bound[k] = c}

\* Second half, one call at a time: the unknown outcome to its caller.
AnswerUnknown(k) ==
  /\ slot' = [slot EXCEPT ![k] = "unknown"]
  /\ owed' = [owed EXCEPT ![k] = "nobody"]

\* Mutant: only the close frame tells the handler.
TakeUnsignalled(c, why) ==
  /\ shutdown' = shutdown
  /\ revoker' = [revoker EXCEPT ![c] = IF why = "closed" THEN "close" ELSE "fail"]
  /\ reason' = [reason EXCEPT ![c] = why]

\* The connection leaves the hub; the latest-value signal is raised next, before
\* any best-effort frame, and only the connection's own handler sees it.
TakeConnection(c, why) ==
  /\ shutdown' = [shutdown EXCEPT ![c] = TRUE]
  /\ revoker' = [revoker EXCEPT ![c] = IF why = "closed" THEN "close" ELSE "fail"]
  /\ reason' = [reason EXCEPT ![c] = why]

\* attach and detach run to their end under the server's public-state lock.
DataLockFree ==
  /\ \A c \in Conn : handler[c] # "attaching"
  /\ \A k \in Call : owed[k] # "detacher"

\* perform_action and perform_computer_action hold the action lock from
\* before the call to after its return; the detached cleanup does not.
ActionLockFree == \A k \in Call \ Detached : pc[k] \in {"idle", "done"}

-----------------------------------------------------------------------------
Init ==
  /\ current = NoConn
  /\ pending = {}
  /\ ready = [c \in Conn |-> FALSE]
  /\ shutdown = [c \in Conn |-> FALSE]
  /\ sequence = [c \in Conn |-> 0]
  /\ queue = [c \in Conn |-> <<>>]
  /\ receiver = [c \in Conn |-> "none"]
  /\ handler = [c \in Conn |-> "absent"]
  /\ handling = [c \in Conn |-> NoEnvelope]
  /\ replaces = [c \in Conn |-> NoConn]
  /\ revoker = [c \in Conn |-> "none"]
  /\ reason = [c \in Conn |-> "none"]
  /\ stopper = "off"
  /\ pc = [k \in Call |-> "idle"]
  /\ expected = [k \in Call |-> NoConn]
  /\ bound = [k \in Call |-> NoConn]
  /\ seqOf = [k \in Call |-> 0]
  /\ slot = [k \in Call |-> "empty"]
  /\ owed = [k \in Call |-> "nobody"]
  /\ outcome = [k \in Call |-> "none"]
  /\ delivered = {}
  /\ cancels = [k \in Call |-> 0]

-----------------------------------------------------------------------------
(* A connection enters the hub: attach_with_id, under the data lock.       *)

\* The new connection replaces the current one in one critical section; the
\* thread then has the replaced connection to revoke before it returns.
Attach(c) ==
  /\ handler[c] = "absent"
  /\ DataLockFree
  /\ current' = c
  /\ receiver' = [receiver EXCEPT ![c] = "open"]
  /\ handler' = [handler EXCEPT ![c] = "attaching"]
  /\ replaces' = [replaces EXCEPT ![c] = current]
  /\ IF current = NoConn THEN UNCHANGED <<shutdown, revoker, reason>>
                         ELSE TakeConnection(current, "replaced")
  /\ UNCHANGED <<pending, ready, sequence, queue, handling, stopper, callVars, wireVars>>

\* attach returns once the replaced connection is revoked: the handler sends
\* its welcome, starts the writer and enters its receive loop.
Attached(c) ==
  /\ handler[c] = "attaching"
  /\ replaces[c] # NoConn => revoker[replaces[c]] = "done"
  /\ handler' = [handler EXCEPT ![c] = "running"]
  /\ replaces' = [replaces EXCEPT ![c] = NoConn]
  /\ queue' = IF current = c THEN TrySend(c, Message("note", NoCall)) ELSE queue
  /\ UNCHANGED <<hubVars, ready, shutdown, sequence, receiver, handling,
                 revoker, reason, stopper, callVars, wireVars>>

\* A compatible hello: mark_ready, refused when the connection was replaced.
MarkReady(c) ==
  /\ handler[c] = "running"
  /\ current = c
  /\ ready' = [ready EXCEPT ![c] = TRUE]
  /\ UNCHANGED <<hubVars, shutdown, sequence, queue, receiver, lifeVars, callVars,
                 wireVars>>

\* Pongs, acknowledgements and the hello reply: send_to, dropped when full.
SendTo(c) ==
  /\ handler[c] = "running"
  /\ current = c
  /\ CanSend(c)
  /\ queue' = TrySend(c, Message("note", NoCall))
  /\ UNCHANGED <<hubVars, ready, shutdown, sequence, receiver, lifeVars, callVars,
                 wireVars>>

\* The writer task forwards one message; it ends after a close frame.
Write(c) ==
  /\ handler[c] \notin {"absent", "attaching"}
  /\ receiver[c] = "open"
  /\ queue[c] # <<>>
  /\ LET m == Head(queue[c]) IN
       IF m.kind = "close"
         THEN /\ queue' = [queue EXCEPT ![c] = <<>>]
              /\ receiver' = [receiver EXCEPT ![c] = "dropped"]
              /\ UNCHANGED delivered
         ELSE /\ queue' = [queue EXCEPT ![c] = Tail(@)]
              /\ delivered' = IF m.kind = "command" THEN delivered \cup {m.call}
                                                    ELSE delivered
              /\ UNCHANGED receiver
  /\ UNCHANGED <<hubVars, ready, shutdown, sequence, lifeVars, callVars, cancels>>

\* A send on a broken socket ends the writer: what was queued is lost.
WriteFails(c) ==
  /\ handler[c] \notin {"absent", "attaching"}
  /\ receiver[c] = "open"
  /\ queue[c] # <<>>
  /\ queue' = [queue EXCEPT ![c] = <<>>]
  /\ receiver' = [receiver EXCEPT ![c] = "dropped"]
  /\ UNCHANGED <<hubVars, ready, shutdown, sequence, lifeVars, callVars, wireVars>>

-----------------------------------------------------------------------------
(* A result arrives: the guard of the receive loop, then resolve.          *)

\* The peer answers a command it received.  A connector that reconnected may
\* answer on its new socket a command the old one carried, and may echo the
\* wrong session or sequence.
ResultArrives(c, k) ==
  /\ handler[c] = "running"
  /\ k \in delivered
  /\ current = c /\ ready[c]
  /\ handler' = [handler EXCEPT ![c] = "resolving"]
  /\ \E exact \in BOOLEAN :
       handling' = [handling EXCEPT ![c] = [call |-> k, exact |-> exact]]
  /\ UNCHANGED <<hubVars, connVars, replaces, revoker, reason, stopper, callVars,
                 wireVars>>

\* resolve removes whatever registration carries the id; a result nobody
\* waits for is ignored.
ResolveTake(c) ==
  /\ handler[c] = "resolving"
  /\ LET k == handling[c].call IN
       IF k \in pending
         THEN /\ TakePending({k}, "handler")
              /\ handler' = [handler EXCEPT ![c] = "answering"]
              /\ UNCHANGED handling
         ELSE /\ handler' = [handler EXCEPT ![c] = "running"]
              /\ handling' = [handling EXCEPT ![c] = NoEnvelope]
              /\ UNCHANGED <<pending, owed>>
  /\ UNCHANGED <<current, connVars, replaces, revoker, reason, stopper, pc,
                 expected, bound, seqOf, slot, outcome, wireVars>>

\* Mutant: the connection that delivers the result is not compared.
EnvelopeByEchoOnly(c, e) == e.exact

EnvelopeValid(c, e) == bound[e.call] = c /\ e.exact

\* A valid envelope completes the call; any other one makes its outcome
\* unknown, withdraws readiness and breaks the receive loop.
ResolveAnswer(c) ==
  /\ handler[c] = "answering"
  /\ LET e == handling[c] IN
       /\ owed' = [owed EXCEPT ![e.call] = "nobody"]
       /\ handling' = [handling EXCEPT ![c] = NoEnvelope]
       /\ IF EnvelopeValid(c, e)
            THEN /\ slot' = [slot EXCEPT ![e.call] = c]
                 /\ handler' = [handler EXCEPT ![c] = "running"]
                 /\ UNCHANGED ready
            ELSE /\ slot' = [slot EXCEPT ![e.call] = "unknown"]
                 /\ handler' = [handler EXCEPT ![c] = "exiting"]
                 /\ ready' = IF current = c THEN [ready EXCEPT ![c] = FALSE] ELSE ready
  /\ UNCHANGED <<hubVars, shutdown, sequence, queue, receiver, replaces,
                 revoker, reason, stopper, pc, expected, bound, seqOf, outcome, wireVars>>

-----------------------------------------------------------------------------
(* A connection leaves the hub by revocation: replacement (attach_with_id),*)
(* close_if_current, or close.  Whoever took the connection out revokes it.*)

\* close_if_current: some of its callers hold no lock at all.
CloseIfCurrent(c) ==
  /\ current = c
  /\ handler[c] # "attaching"
  /\ current' = NoConn
  /\ TakeConnection(c, "closed")
  /\ UNCHANGED <<pending, ready, sequence, queue, receiver, handler, handling, replaces,
                 stopper, callVars, wireVars>>

\* close: server shutdown takes whatever connection is current.
Stop ==
  /\ MayStop
  /\ stopper = "off"
  /\ stopper' = "closing"
  /\ current' = NoConn
  /\ IF current = NoConn THEN UNCHANGED <<shutdown, revoker, reason>>
                         ELSE TakeConnection(current, "stopped")
  /\ UNCHANGED <<pending, ready, sequence, queue, receiver, handler, handling, replaces,
                 callVars, wireVars>>

RevokeFail(c) ==
  /\ revoker[c] = "fail"
  /\ TakePending(PendingOf(c), "revoker")
  /\ revoker' = [revoker EXCEPT ![c] = IF reason[c] = "closed" THEN "done" ELSE "close"]
  /\ UNCHANGED <<current, connVars, handler, handling, replaces, reason, stopper, pc,
                 expected, bound, seqOf, slot, outcome, wireVars>>

\* A cancel on the connection that carried the call precedes the answer.
RevokeAnswer(c, k) ==
  /\ k \in OwedOn(c, "revoker")
  /\ SendCancel(c, k)
  /\ AnswerUnknown(k)
  /\ UNCHANGED <<hubVars, ready, shutdown, sequence, receiver, lifeVars, pc, expected,
                 bound, seqOf, outcome, delivered>>

\* The best-effort close frame: close_if_current sends it before it fails the
\* calls, attach_with_id and close after.
RevokeClose(c) ==
  /\ revoker[c] = "close"
  /\ OwedOn(c, "revoker") = {}
  /\ queue' = TrySend(c, Message("close", NoCall))
  /\ revoker' = [revoker EXCEPT ![c] = IF reason[c] = "closed" THEN "fail" ELSE "done"]
  /\ UNCHANGED <<hubVars, ready, shutdown, sequence, receiver, handler, handling,
                 replaces, reason, stopper, callVars, wireVars>>

\* close drains the whole table once its own connection is revoked.
StopDrain ==
  /\ stopper = "closing"
  /\ \A c \in Conn : reason[c] = "stopped" => revoker[c] = "done"
  /\ TakePending(pending, "stopper")
  /\ stopper' = "drained"
  /\ UNCHANGED <<current, connVars, handler, handling, replaces, revoker, reason, pc,
                 expected, bound, seqOf, slot, outcome, wireVars>>

StopAnswer(k) ==
  /\ owed[k] = "stopper"
  /\ AnswerUnknown(k)
  /\ UNCHANGED <<hubVars, connVars, lifeVars, pc, expected, bound, seqOf, outcome,
                 wireVars>>

-----------------------------------------------------------------------------
(* The handler leaves its receive loop and detaches.                       *)

\* Mutant: the loop notices a revocation only through the end of its writer.
SeeShutdownFromWriter(c) ==
  /\ handler[c] = "running"
  /\ shutdown[c] /\ receiver[c] = "dropped"
  /\ handler' = [handler EXCEPT ![c] = "exiting"]
  /\ UNCHANGED <<hubVars, connVars, handling, replaces, revoker, reason, stopper,
                 callVars, wireVars>>

\* The loop selects on the shutdown signal, which no full queue can hide.
SeeShutdown(c) ==
  /\ handler[c] = "running"
  /\ shutdown[c]
  /\ handler' = [handler EXCEPT ![c] = "exiting"]
  /\ UNCHANGED <<hubVars, connVars, handling, replaces, revoker, reason, stopper,
                 callVars, wireVars>>

\* The peer closes the socket, or it breaks, at any time.
SocketEnds(c) ==
  /\ handler[c] = "running"
  /\ handler' = [handler EXCEPT ![c] = "exiting"]
  /\ UNCHANGED <<hubVars, connVars, handling, replaces, revoker, reason, stopper,
                 callVars, wireVars>>

\* Mutant: the handler detaches while its writer still runs.
AbortWriterLate(c) ==
  /\ handler[c] = "exiting"
  /\ handler' = [handler EXCEPT ![c] = "detaching"]
  /\ UNCHANGED <<hubVars, connVars, handling, replaces, revoker, reason, stopper,
                 callVars, wireVars>>

\* writer.abort(); writer.await: the receiver and what it held are gone.
AbortWriter(c) ==
  /\ handler[c] = "exiting"
  /\ handler' = [handler EXCEPT ![c] = "detaching"]
  /\ receiver' = [receiver EXCEPT ![c] = "dropped"]
  /\ queue' = [queue EXCEPT ![c] = <<>>]
  /\ UNCHANGED <<hubVars, ready, shutdown, sequence, handling, replaces, revoker, reason,
                 stopper, callVars, wireVars>>

\* Mutant: detach returns early when the connection was taken before.
DetachCurrentOnly(c) ==
  /\ handler[c] = "detaching"
  /\ DataLockFree
  /\ current' = IF current = c THEN NoConn ELSE current
  /\ TakePending(IF current = c THEN PendingOf(c) ELSE {}, "detacher")
  /\ handler' = [handler EXCEPT ![c] = "gone"]
  /\ UNCHANGED <<connVars, handling, replaces, revoker, reason, stopper, pc, expected,
                 bound, seqOf, slot, outcome, wireVars>>

\* detach takes the connection only if it is still the current one, but fails
\* what is registered for it in every case.
Detach(c) ==
  /\ handler[c] = "detaching"
  /\ DataLockFree
  /\ current' = IF current = c THEN NoConn ELSE current
  /\ TakePending(PendingOf(c), "detacher")
  /\ handler' = [handler EXCEPT ![c] = "gone"]
  /\ UNCHANGED <<connVars, handling, replaces, revoker, reason, stopper, pc, expected,
                 bound, seqOf, slot, outcome, wireVars>>

\* The receiver is gone by now: the cancel detach tries to send is lost.
DetachAnswer(c, k) ==
  /\ k \in OwedOn(c, "detacher")
  /\ SendCancel(c, k)
  /\ AnswerUnknown(k)
  /\ UNCHANGED <<hubVars, ready, shutdown, sequence, receiver, lifeVars, pc, expected,
                 bound, seqOf, outcome, delivered>>

-----------------------------------------------------------------------------
(* call_scoped_for.                                                        *)

Return(k, what) ==
  /\ pc' = [pc EXCEPT ![k] = "done"]
  /\ outcome' = [outcome EXCEPT ![k] = what]

\* The clone of the current connection.  The server picked the connection it
\* expects from published state, some time before, and every call names one.
Clone(k) ==
  /\ pc[k] = "idle"
  /\ k \notin Detached => ActionLockFree
  /\ \E e \in {c \in Conn : handler[c] \notin {"absent", "attaching"}} :
       \/ /\ current = NoConn
          /\ Return(k, "offline")
          /\ UNCHANGED <<bound, expected>>
       \/ /\ current \notin {NoConn, e}
          /\ Return(k, "disconnected")
          /\ UNCHANGED <<bound, expected>>
       \/ /\ current = e
          /\ bound' = [bound EXCEPT ![k] = current]
          /\ expected' = [expected EXCEPT ![k] = e]
          /\ pc' = [pc EXCEPT ![k] = "bound"]
          /\ UNCHANGED outcome
  /\ UNCHANGED <<hubVars, connVars, lifeVars, seqOf, slot, owed, wireVars>>

\* The readiness check and the sequence number, both atomics of the clone, and
\* then the registration: nothing another thread does can tell them apart.
Register(k) ==
  /\ pc[k] = "bound"
  /\ LET c == bound[k] IN
       IF ready[c]
         THEN /\ sequence' = [sequence EXCEPT ![c] = @ + 1]
              /\ seqOf' = [seqOf EXCEPT ![k] = sequence[c] + 1]
              /\ pending' = pending \cup {k}
              /\ pc' = [pc EXCEPT ![k] = "registered"]
              /\ UNCHANGED outcome
         ELSE /\ Return(k, "handshake_pending")
              /\ UNCHANGED <<sequence, seqOf, pending>>
  /\ UNCHANGED <<current, ready, shutdown, queue, receiver, lifeVars, expected, bound,
                 slot, owed, wireVars>>

\* try_send of the command to the clone; a failure is reported as a refusal
\* after disarm_without_cancel removed the registration.
Enqueue(k) ==
  /\ pc[k] = "registered"
  /\ LET c == bound[k] IN
       IF CanSend(c)
         THEN /\ queue' = TrySend(c, Message("command", k))
              /\ pc' = [pc EXCEPT ![k] = "waiting"]
              /\ UNCHANGED <<pending, outcome>>
         ELSE /\ Return(k, IF receiver[c] = "open" THEN "overloaded" ELSE "disconnected")
              /\ pending' = pending \ {k}
              /\ UNCHANGED queue
  /\ UNCHANGED <<current, ready, shutdown, sequence, receiver, lifeVars, expected, bound,
                 seqOf, slot, owed, wireVars>>

\* Mutant: a dropped oneshot reads like an answer.
ReceiveAlwaysResult(k) ==
  /\ pc[k] = "waiting"
  /\ slot[k] # "empty"
  /\ Return(k, "result")
  /\ UNCHANGED <<hubVars, connVars, lifeVars, expected, bound, seqOf, slot, owed, wireVars>>

\* The oneshot completes the call.
Receive(k) ==
  /\ pc[k] = "waiting"
  /\ slot[k] # "empty"
  /\ Return(k, IF slot[k] = "unknown" THEN "unknown" ELSE "result")
  /\ UNCHANGED <<hubVars, connVars, lifeVars, expected, bound, seqOf, slot, owed, wireVars>>

\* Mutant: cancel without remove_exact.
AbandonUnchecked(k, what) ==
  /\ pc[k] = "waiting"
  /\ pending' = pending \ {k}
  /\ pc' = [pc EXCEPT ![k] = "canceling"]
  /\ outcome' = [outcome EXCEPT ![k] = what]
  /\ UNCHANGED <<current, connVars, lifeVars, expected, bound, seqOf, slot, owed, wireVars>>

\* PendingCallGuard::cancel, first half.  Only a caller that still finds its
\* own registration goes on to send a cancel.
Abandon(k, what) ==
  /\ pc[k] = "waiting"
  /\ IF k \in pending
       THEN /\ pending' = pending \ {k}
            /\ pc' = [pc EXCEPT ![k] = "canceling"]
            /\ outcome' = [outcome EXCEPT ![k] = what]
       ELSE /\ Return(k, what)
            /\ UNCHANGED pending
  /\ UNCHANGED <<current, connVars, lifeVars, expected, bound, seqOf, slot, owed, wireVars>>

\* Mutant: a timeout is reported with a code the caller may retry.
TimeoutAsRefusal(k) == slot[k] = "empty" /\ Abandon(k, "disconnected")

\* The timer fires; tokio polls the oneshot first, so only without an answer.
Timeout(k) == slot[k] = "empty" /\ Abandon(k, "unknown")

\* The caller's future is dropped at its only await.
Drop(k) == Abandon(k, "dropped")

\* Mutant: the cancel goes to whatever connection is current.
CancelToCurrent(k) ==
  /\ pc[k] = "canceling"
  /\ SendCancel(IF current = NoConn THEN bound[k] ELSE current, k)
  /\ pc' = [pc EXCEPT ![k] = "done"]
  /\ UNCHANGED <<hubVars, ready, shutdown, sequence, receiver, lifeVars, expected, bound,
                 seqOf, slot, owed, outcome, delivered>>

\* Second half: the cancel goes to the connection that received the command.
Cancel(k) ==
  /\ pc[k] = "canceling"
  /\ SendCancel(bound[k], k)
  /\ pc' = [pc EXCEPT ![k] = "done"]
  /\ UNCHANGED <<hubVars, ready, shutdown, sequence, receiver, lifeVars, expected, bound,
                 seqOf, slot, owed, outcome, delivered>>

-----------------------------------------------------------------------------
ConnStep(c) ==
  \/ Attach(c) \/ Attached(c) \/ MarkReady(c) \/ SendTo(c)
  \/ Write(c) \/ WriteFails(c)
  \/ ResolveTake(c) \/ ResolveAnswer(c)
  \/ CloseIfCurrent(c)
  \/ RevokeFail(c) \/ RevokeClose(c)
  \/ SeeShutdown(c) \/ SocketEnds(c) \/ AbortWriter(c) \/ Detach(c)

CallStep(k) ==
  \/ Clone(k) \/ Register(k) \/ Enqueue(k)
  \/ Receive(k) \/ Timeout(k) \/ Drop(k) \/ Cancel(k)
  \/ StopAnswer(k)

BothStep(c, k) == ResultArrives(c, k) \/ RevokeAnswer(c, k) \/ DetachAnswer(c, k)

Next ==
  \/ \E c \in Conn : ConnStep(c)
  \/ \E k \in Call : CallStep(k)
  \/ \E c \in Conn, k \in Call : BothStep(c, k)
  \/ Stop \/ StopDrain

Spec == Init /\ [][Next]_vars

\* Fairness: the threads of the server run.  Nothing is assumed of the peer,
\* of the socket, of new connections, nor of the call timer.
ServerFairness ==
  /\ \A c \in Conn : /\ WF_vars(Attached(c))
                     /\ WF_vars(ResolveTake(c) \/ ResolveAnswer(c))
                     /\ WF_vars(RevokeFail(c) \/ RevokeClose(c)
                                  \/ \E k \in Call : RevokeAnswer(c, k))
                     /\ SF_vars(SeeShutdown(c))
                     /\ WF_vars(AbortWriter(c) \/ Detach(c)
                                  \/ \E k \in Call : DetachAnswer(c, k))
  /\ \A k \in Call : WF_vars(Register(k) \/ Enqueue(k)
                               \/ Receive(k) \/ Cancel(k))
  /\ WF_vars(StopDrain \/ \E k \in Call : StopAnswer(k))

FairSpec == Spec /\ ServerFairness

-----------------------------------------------------------------------------
(* Properties.                                                             *)

\* Every variable stays in its type: the hub names only real connections and calls.
TypeOK ==
  /\ current \in Conn \cup {NoConn}
  /\ pending \subseteq Call
  /\ ready \in [Conn -> BOOLEAN]
  /\ shutdown \in [Conn -> BOOLEAN]
  /\ sequence \in [Conn -> Nat]
  /\ queue \in [Conn -> Seq(Messages)]
  /\ receiver \in [Conn -> {"none", "open", "dropped"}]
  /\ handler \in [Conn -> {"absent", "attaching", "running", "resolving", "answering",
                           "exiting", "detaching", "gone"}]
  /\ handling \in [Conn -> Envelopes]
  /\ replaces \in [Conn -> Conn \cup {NoConn}]
  /\ revoker \in [Conn -> {"none", "fail", "close", "done"}]
  /\ reason \in [Conn -> {"none", "replaced", "closed", "stopped"}]
  /\ stopper \in {"off", "closing", "drained"}
  /\ pc \in [Call -> {"idle", "bound", "registered", "waiting",
                      "canceling", "done"}]
  /\ expected \in [Call -> Conn \cup {NoConn}]
  /\ bound \in [Call -> Conn \cup {NoConn}]
  /\ seqOf \in [Call -> Nat]
  /\ slot \in [Call -> Conn \cup {"empty", "unknown"}]
  /\ owed \in [Call -> {"nobody", "revoker", "detacher", "handler", "stopper"}]
  /\ outcome \in [Call -> Outcomes]
  /\ delivered \subseteq Call
  /\ cancels \in [Call -> Nat]

\* A caller that waits without an answer is never forgotten: either its
\* registration is still in the table and the handler of its connection has
\* yet to fail what is registered there, or the thread that removed the
\* registration is on its way to answer (hub.rs detach, resolve, close,
\* fail_enqueued_for, against a call registered after its connection left).
NoLostCaller ==
  \A k \in Call :
    pc[k] = "waiting" /\ slot[k] = "empty" =>
      \/ k \in pending /\ handler[bound[k]] # "gone"
      \/ owed[k] # "nobody"

\* A refusal is the truth: a call the hub refused (offline, disconnected,
\* handshake pending, overloaded) never reached the peer and never will, so
\* the caller may retry it.  Everything else that is no result is "unknown".
InQueue(k) == \E c \in Conn : \E i \in 1..Len(queue[c]) : queue[c][i] = Message("command", k)

RefusedNeverDelivered ==
  \A k \in Call : outcome[k] \in Refusals => k \notin delivered /\ ~InQueue(k)

\* A call is completed only by the connection that carried it, and only after
\* that connection delivered it, whatever a reconnected peer echoes.
ResultFromItsConnection ==
  \A k \in Call : slot[k] \in Conn => slot[k] = bound[k] /\ k \in delivered

\* However a timeout, a dropped caller, a replacement and a shutdown race, a
\* call is canceled at most once, and never after the peer answered it.
CancelAtMostOnce ==
  \A k \in Call : cancels[k] <= 1 /\ (cancels[k] = 1 => slot[k] \notin Conn)

\* Commands and cancels stay on the connection the call was bound to, which
\* is the one the server had selected: nothing falls through to a replacement.
StaysOnItsConnection ==
  \A c \in Conn : \A i \in 1..Len(queue[c]) :
    LET m == queue[c][i] IN
      m.kind \in {"command", "cancel"} =>
        bound[m.call] = c /\ expected[m.call] = c

\* No zombie transport: a handler that still receives on a connection the hub
\* gave up has been signalled to leave.
NoZombie ==
  \A c \in Conn :
    handler[c] \in {"running", "resolving", "answering"} /\ current # c =>
      shutdown[c]

\* Revocation alone releases the callers: once the connection of a waiting
\* call is signalled, the call returns without the help of its timer.
RevokedCallersReturn ==
  \A k \in Call : \A c \in Conn :
    (pc[k] = "waiting" /\ bound[k] = c /\ shutdown[c]) ~> pc[k] = "done"

\* Revocation survives a full queue: a signalled transport's handler ends
\* even when the close frame found no slot.
RevokedHandlersEnd == \A c \in Conn : shutdown[c] ~> handler[c] = "gone"

-----------------------------------------------------------------------------
(* The hub implements its contract.                                        *)

CallStatus(k) ==
  CASE outcome[k] \in Refusals -> "refused"
    [] outcome[k] = "result" -> "answered"
    [] outcome[k] \in {"unknown", "dropped"} -> "unknown"
    [] outcome[k] = "none" -> IF pc[k] = "waiting" THEN "sent" ELSE "idle"

Contract == INSTANCE HubContract
            WITH status <- [k \in Call |-> CallStatus(k)], executed <- delivered

\* Refinement: whatever the threads of the hub do, a caller sees a refusal that
\* never executes, or a command that executes at most once and is answered
\* only if it did (call_scoped_for against fail_enqueued_for, resolve, detach).
ImplementsContract == Contract!Spec
=============================================================================
