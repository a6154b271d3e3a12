------------------------- MODULE ConnectorHub_proofs -------------------------
(***************************************************************************)
(* Theorems about ConnectorHub, for every set of calls and connections and *)
(* every queue capacity.                                                   *)
(***************************************************************************)
EXTENDS ConnectorHub, TLAPS

USE ConnAssumption, CallAssumption, CapacityAssumption

-----------------------------------------------------------------------------
(* Lemmas about the bounded queue.                                         *)

\* try_send keeps every queue a sequence of messages.
LEMMA TrySendType ==
  ASSUME NEW c \in Conn, NEW m \in Messages, queue \in [Conn -> Seq(Messages)]
  PROVE  TrySend(c, m) \in [Conn -> Seq(Messages)]
  BY DEF TrySend

\* What try_send leaves in a queue was there before, or is the message sent.
LEMMA TrySendElements ==
  ASSUME NEW c \in Conn, NEW m \in Messages, queue \in [Conn -> Seq(Messages)],
         NEW d \in Conn, NEW i \in 1..Len(TrySend(c, m)[d])
  PROVE  \/ TrySend(c, m)[d][i] = m /\ d = c
         \/ i \in 1..Len(queue[d]) /\ TrySend(c, m)[d][i] = queue[d][i]
  BY DEF TrySend

-----------------------------------------------------------------------------
(* The inductive invariant.                                                *)

\* Calls: who has the registration of a call, or the duty to answer it.
Registered ==
  \A k \in pending :
    pc[k] \in {"registered", "waiting"} /\ slot[k] = "empty" /\ owed[k] = "nobody"

Owed ==
  \A k \in Call :
    owed[k] # "nobody" =>
      pc[k] \in {"registered", "waiting", "done"} /\ slot[k] = "empty" /\ bound[k] \in Conn

Waiting ==
  \A k \in Call :
    pc[k] \in {"registered", "waiting"} /\ slot[k] = "empty" =>
      k \in pending \/ owed[k] # "nobody"

Bound ==
  \A k \in Call :
    /\ expected[k] = bound[k]
    /\ pc[k] = "idle" => bound[k] = NoConn
    /\ pc[k] \in {"bound", "registered", "waiting", "canceling"} => bound[k] \in Conn
    /\ pc[k] \in {"idle", "bound"} => slot[k] = "empty"
    /\ pc[k] \in {"idle", "bound", "registered", "waiting"} <=> outcome[k] = "none"
    /\ pc[k] = "canceling" => slot[k] = "empty"

\* A call has been canceled at most once, and not at all while somebody may
\* still cancel it, nor once it was answered.
Cancels ==
  \A k \in Call :
    /\ cancels[k] <= 1
    /\ k \in pending \/ owed[k] # "nobody" => cancels[k] = 0
    /\ slot[k] \in Conn \/ pc[k] \in {"idle", "bound", "canceling"} => cancels[k] = 0

CallInv == Registered /\ Owed /\ Waiting /\ Bound /\ Cancels

\* Connections: no command enters the queue of a connection whose handler has
\* dropped the receiver, and so none is registered there for good.
Gone == \A c \in Conn : handler[c] \in {"detaching", "gone"} => receiver[c] = "dropped"

Served == \A k \in pending : pc[k] = "waiting" => handler[bound[k]] # "gone"

Signalled ==
  \A c \in Conn :
    handler[c] \in {"attaching", "running", "resolving", "answering"} /\ current # c =>
      shutdown[c]

ConnInv == Gone /\ Served /\ Signalled

\* The wire: a command in a queue, or with the peer, is of a call that was sent.
WasSent(k) == pc[k] \in {"waiting", "canceling", "done"} /\ outcome[k] \notin Refusals

Carried ==
  \A c \in Conn : \A i \in 1..Len(queue[c]) :
    queue[c][i].kind = "command" => WasSent(queue[c][i].call)

Delivered == \A k \in delivered : WasSent(k)

WireInv == Carried /\ StaysOnItsConnection /\ Delivered

\* Answers: a handler that took a registration answers it alone.
Answering ==
  \A c \in Conn :
    /\ handler[c] \in {"resolving", "answering"} => handling[c].call \in delivered
    /\ handler[c] = "answering" => owed[handling[c].call] = "handler"
    /\ \A d \in Conn \ {c} :
         handler[c] = "answering" /\ handler[d] = "answering" =>
           handling[c].call # handling[d].call

Answered == \A k \in Call : outcome[k] = "result" => slot[k] \in Conn

AnswerInv == Answering /\ ResultFromItsConnection /\ Answered

IInv == TypeOK /\ CallInv /\ ConnInv /\ WireInv /\ AnswerInv

-----------------------------------------------------------------------------
(* Type correctness.                                                       *)

LEMMA MessageTypes ==
  /\ \A k \in Call : Message("command", k) \in Messages /\ Message("cancel", k) \in Messages
  /\ Message("close", NoCall) \in Messages /\ Message("note", NoCall) \in Messages
  BY DEF Message, Messages

\* A call past the clone of its connection is bound to one: TypeOK needs it.
BoundOK ==
  \A k \in Call :
    pc[k] \in {"bound", "registered", "waiting", "canceling"} => bound[k] \in Conn

LEMMA InitType == Init => TypeOK /\ BoundOK
  BY DEF Init, TypeOK, BoundOK, NoEnvelope, Envelopes, Outcomes, Messages

LEMMA ConnStepType ==
  ASSUME TypeOK, NEW c \in Conn, ConnStep(c)
  PROVE  TypeOK'
<1>1. CASE Attach(c)
  BY <1>1 DEF Attach, TypeOK, TakeConnection, callVars, wireVars
<1>2. CASE Attached(c)
  <2>1. queue' \in [Conn -> Seq(Messages)]
    BY <1>2, MessageTypes, TrySendType DEF Attached, TypeOK
  <2> QED BY <1>2, <2>1 DEF Attached, TypeOK, hubVars, callVars, wireVars
<1>3. CASE MarkReady(c)
  BY <1>3 DEF MarkReady, TypeOK, hubVars, lifeVars, callVars, wireVars
<1>4. CASE SendTo(c)
  <2>1. queue' \in [Conn -> Seq(Messages)]
    BY <1>4, MessageTypes, TrySendType DEF SendTo, TypeOK
  <2> QED BY <1>4, <2>1 DEF SendTo, TypeOK, hubVars, lifeVars, callVars, wireVars
<1>5. CASE Write(c)
  <2>1. Head(queue[c]) \in Messages
    BY <1>5 DEF Write, TypeOK
  <2>2. queue' \in [Conn -> Seq(Messages)]
    <3>1. queue[c] \in Seq(Messages) /\ queue[c] # <<>>
      BY <1>5 DEF Write, TypeOK
    <3>2. Tail(queue[c]) \in Seq(Messages) /\ <<>> \in Seq(Messages)
      BY <3>1
    <3>3. \/ queue' = [queue EXCEPT ![c] = <<>>]
          \/ queue' = [queue EXCEPT ![c] = Tail(queue[c])]
      BY <1>5 DEF Write
    <3> QED BY <3>2, <3>3 DEF TypeOK
  <2>3. delivered' \subseteq Call
    BY <1>5, <2>1 DEF Write, TypeOK, Messages
  <2> QED BY <1>5, <2>2, <2>3 DEF Write, TypeOK, hubVars, lifeVars, callVars
<1>6. CASE WriteFails(c)
  BY <1>6 DEF WriteFails, TypeOK, hubVars, lifeVars, callVars, wireVars
<1>7. CASE ResolveTake(c)
  <2>1. handling' \in [Conn -> Envelopes]
    <3>1. handling' = handling \/ handling' = [handling EXCEPT ![c] = NoEnvelope]
      BY <1>7 DEF ResolveTake
    <3>2. NoEnvelope \in Envelopes
      BY DEF NoEnvelope, Envelopes
    <3> QED BY <3>1, <3>2 DEF TypeOK
  <2>2. /\ pending' \subseteq Call
        /\ owed' \in [Call -> {"nobody", "revoker", "detacher", "handler", "stopper"}]
    <3>1. \/ pending' = pending /\ owed' = owed
          \/ TakePending({handling[c].call}, "handler")
      BY <1>7 DEF ResolveTake
    <3> QED BY <3>1 DEF TypeOK, TakePending
  <2>3. handler' \in [Conn -> {"absent", "attaching", "running", "resolving", "answering",
                               "exiting", "detaching", "gone"}]
    <3>1. \/ handler' = [handler EXCEPT ![c] = "answering"]
          \/ handler' = [handler EXCEPT ![c] = "running"]
      BY <1>7 DEF ResolveTake
    <3> QED BY <3>1 DEF TypeOK
  <2> QED BY <1>7, <2>1, <2>2, <2>3 DEF ResolveTake, TypeOK, connVars, wireVars
<1>8. CASE ResolveAnswer(c)
  <2>1. slot' \in [Call -> Conn \cup {"empty", "unknown"}]
    <3>1. \/ slot' = [slot EXCEPT ![handling[c].call] = c]
          \/ slot' = [slot EXCEPT ![handling[c].call] = "unknown"]
      BY <1>8 DEF ResolveAnswer
    <3> QED BY <3>1 DEF TypeOK
  <2>2. owed' \in [Call -> {"nobody", "revoker", "detacher", "handler", "stopper"}]
    BY <1>8 DEF ResolveAnswer, TypeOK
  <2>3. /\ handling' \in [Conn -> Envelopes]
        /\ handler' \in [Conn -> {"absent", "attaching", "running", "resolving", "answering",
                                  "exiting", "detaching", "gone"}]
        /\ ready' \in [Conn -> BOOLEAN]
    BY <1>8 DEF ResolveAnswer, TypeOK, NoEnvelope, Envelopes
  <2> QED BY <1>8, <2>1, <2>2, <2>3 DEF ResolveAnswer, TypeOK, hubVars, wireVars
<1>9. CASE CloseIfCurrent(c)
  BY <1>9 DEF CloseIfCurrent, TypeOK, TakeConnection, callVars, wireVars
<1>10. CASE RevokeFail(c)
  BY <1>10 DEF RevokeFail, TypeOK, TakePending, connVars, wireVars
<1>11. CASE RevokeClose(c)
  <2>1. queue' \in [Conn -> Seq(Messages)]
    BY <1>11, MessageTypes, TrySendType DEF RevokeClose, TypeOK
  <2> QED BY <1>11, <2>1 DEF RevokeClose, TypeOK, hubVars, callVars, wireVars
<1>12. CASE SeeShutdown(c)
  BY <1>12 DEF SeeShutdown, TypeOK, hubVars, connVars, callVars, wireVars
<1>13. CASE SocketEnds(c)
  BY <1>13 DEF SocketEnds, TypeOK, hubVars, connVars, callVars, wireVars
<1>14. CASE AbortWriter(c)
  BY <1>14 DEF AbortWriter, TypeOK, hubVars, callVars, wireVars
<1>15. CASE Detach(c)
  BY <1>15 DEF Detach, TypeOK, TakePending, connVars, wireVars
<1> QED
  BY <1>1, <1>2, <1>3, <1>4, <1>5, <1>6, <1>7, <1>8, <1>9, <1>10, <1>11, <1>12, <1>13,
     <1>14, <1>15 DEF ConnStep

\* A call that returns keeps its types.
LEMMA ReturnType ==
  ASSUME TypeOK, NEW k \in Call, NEW what \in Outcomes, Return(k, what)
  PROVE  /\ pc' \in [Call -> {"idle", "bound", "registered", "waiting", "canceling", "done"}]
         /\ outcome' \in [Call -> Outcomes]
BY DEF Return, TypeOK

LEMMA CallStepType ==
  ASSUME TypeOK, BoundOK, NEW k \in Call, CallStep(k)
  PROVE  TypeOK'
<1>1. CASE Clone(k)
  <2>1. /\ bound' \in [Call -> Conn \cup {NoConn}]
        /\ expected' \in [Call -> Conn \cup {NoConn}]
    <3>1. \/ bound' = bound /\ expected' = expected
          \/ \E e \in Conn : /\ bound' = [bound EXCEPT ![k] = e]
                             /\ expected' = [expected EXCEPT ![k] = e]
      BY <1>1 DEF Clone
    <3>2. ASSUME NEW e \in Conn, bound' = [bound EXCEPT ![k] = e],
                 expected' = [expected EXCEPT ![k] = e]
          PROVE  /\ bound' \in [Call -> Conn \cup {NoConn}]
                 /\ expected' \in [Call -> Conn \cup {NoConn}]
      BY <3>2 DEF TypeOK
    <3> QED BY <3>1, <3>2 DEF TypeOK
  <2>2. /\ pc' \in [Call -> {"idle", "bound", "registered", "waiting", "canceling", "done"}]
        /\ outcome' \in [Call -> Outcomes]
    <3>1. \/ Return(k, "offline") \/ Return(k, "disconnected")
          \/ pc' = [pc EXCEPT ![k] = "bound"] /\ outcome' = outcome
      BY <1>1 DEF Clone
    <3>2. {"offline", "disconnected"} \subseteq Outcomes
      BY DEF Outcomes, Refusals
    <3>3. CASE Return(k, "offline") \/ Return(k, "disconnected")
      BY <3>2, <3>3, ReturnType
    <3> QED BY <3>1, <3>3 DEF TypeOK
  <2> QED BY <1>1, <2>1, <2>2 DEF Clone, TypeOK, hubVars, connVars, lifeVars, wireVars
<1>2. CASE Register(k)
  <2>1. bound[k] \in Conn
    BY <1>2 DEF Register, BoundOK
  <2>2. CASE ready[bound[k]]
    <3>1. /\ sequence' = [sequence EXCEPT ![bound[k]] = sequence[bound[k]] + 1]
          /\ seqOf' = [seqOf EXCEPT ![k] = sequence[bound[k]] + 1]
          /\ pending' = pending \cup {k} /\ pc' = [pc EXCEPT ![k] = "registered"]
          /\ outcome' = outcome
      BY <1>2, <2>2 DEF Register
    <3>2. sequence[bound[k]] + 1 \in Nat
      BY <2>1 DEF TypeOK
    <3>3. sequence' \in [Conn -> Nat] /\ seqOf' \in [Call -> Nat]
      BY <3>1, <3>2 DEF TypeOK
    <3>4. /\ pending' \subseteq Call /\ outcome' \in [Call -> Outcomes]
          /\ pc' \in [Call -> {"idle", "bound", "registered", "waiting", "canceling", "done"}]
      BY <3>1 DEF TypeOK
    <3>5. UNCHANGED <<current, ready, shutdown, queue, receiver, lifeVars, expected, bound,
                      slot, owed, wireVars>>
      BY <1>2 DEF Register
    <3> QED BY <3>3, <3>4, <3>5 DEF TypeOK, lifeVars, wireVars
  <2>3. CASE ~ready[bound[k]]
    <3>1. /\ Return(k, "handshake_pending")
          /\ UNCHANGED <<sequence, seqOf, pending, current, ready, shutdown, queue, receiver,
                         lifeVars, expected, bound, slot, owed, wireVars>>
      BY <1>2, <2>3 DEF Register
    <3> QED BY <3>1 DEF Return, TypeOK, Outcomes, Refusals, lifeVars, wireVars
  <2> QED BY <2>2, <2>3
<1>3. CASE Enqueue(k)
  <2>1. bound[k] \in Conn
    BY <1>3 DEF Enqueue, BoundOK
  <2>2. TrySend(bound[k], Message("command", k)) \in [Conn -> Seq(Messages)]
    BY <2>1, MessageTypes, TrySendType DEF TypeOK
  <2>3. queue' \in [Conn -> Seq(Messages)]
    BY <1>3, <2>2 DEF Enqueue, TypeOK
  <2>4. /\ pending' \subseteq Call /\ outcome' \in [Call -> Outcomes]
        /\ pc' \in [Call -> {"idle", "bound", "registered", "waiting", "canceling", "done"}]
    <3>1. \/ pending' = pending /\ pc' = [pc EXCEPT ![k] = "waiting"] /\ outcome' = outcome
          \/ pending' = pending \ {k} /\ (Return(k, "overloaded") \/ Return(k, "disconnected"))
      BY <1>3 DEF Enqueue
    <3>2. {"overloaded", "disconnected"} \subseteq Outcomes
      BY DEF Outcomes, Refusals
    <3>3. CASE Return(k, "overloaded") \/ Return(k, "disconnected")
      BY <3>1, <3>2, <3>3, ReturnType DEF TypeOK
    <3> QED BY <3>1, <3>3 DEF TypeOK
  <2>5. UNCHANGED <<current, ready, shutdown, sequence, receiver, lifeVars, expected, bound,
                    seqOf, slot, owed, wireVars>>
    BY <1>3 DEF Enqueue
  <2> QED BY <2>3, <2>4, <2>5 DEF TypeOK, lifeVars, wireVars
<1>4. CASE Receive(k)
  BY <1>4 DEF Receive, Return, TypeOK, Outcomes, hubVars, connVars, lifeVars, wireVars
<1>5. ASSUME NEW what \in {"unknown", "dropped"}, Abandon(k, what)
      PROVE  TypeOK'
  <2>1. /\ \/ pc' = [pc EXCEPT ![k] = "canceling"]
           \/ pc' = [pc EXCEPT ![k] = "done"]
        /\ outcome' = [outcome EXCEPT ![k] = what]
        /\ pending' \subseteq pending
    BY <1>5 DEF Abandon, Return
  <2>2. /\ pc' \in [Call -> {"idle", "bound", "registered", "waiting", "canceling", "done"}]
        /\ outcome' \in [Call -> Outcomes]
        /\ pending' \subseteq Call
    BY <1>5, <2>1 DEF TypeOK, Outcomes
  <2> QED BY <1>5, <2>2 DEF Abandon, TypeOK, connVars, lifeVars, wireVars
<1>6. CASE Cancel(k)
  <2>1. bound[k] \in Conn
    BY <1>6 DEF Cancel, BoundOK
  <2>2. TrySend(bound[k], Message("cancel", k)) \in [Conn -> Seq(Messages)]
    BY <2>1, MessageTypes, TrySendType DEF TypeOK
  <2>3. cancels' \in [Call -> Nat]
    BY <1>6 DEF Cancel, SendCancel, TypeOK
  <2> QED BY <1>6, <2>2, <2>3 DEF Cancel, SendCancel, TypeOK, hubVars, lifeVars
<1>7. CASE StopAnswer(k)
  BY <1>7 DEF StopAnswer, AnswerUnknown, TypeOK, hubVars, connVars, lifeVars, wireVars
<1> QED BY <1>1, <1>2, <1>3, <1>4, <1>5, <1>6, <1>7 DEF CallStep, Timeout, Drop

LEMMA BothStepType ==
  ASSUME TypeOK, NEW c \in Conn, NEW k \in Call, BothStep(c, k)
  PROVE  TypeOK'
<1>1. CASE ResultArrives(c, k)
  BY <1>1 DEF ResultArrives, TypeOK, Envelopes, hubVars, connVars, callVars, wireVars
<1>2. ASSUME SendCancel(c, k), AnswerUnknown(k),
             UNCHANGED <<hubVars, ready, shutdown, sequence, receiver, lifeVars, pc,
                         expected, bound, seqOf, outcome, delivered>>
      PROVE  TypeOK'
  <2>1. queue' \in [Conn -> Seq(Messages)]
    BY <1>2, MessageTypes, TrySendType DEF SendCancel, TypeOK
  <2>2. cancels' \in [Call -> Nat]
    BY <1>2 DEF SendCancel, TypeOK
  <2> QED BY <1>2, <2>1, <2>2 DEF AnswerUnknown, TypeOK, hubVars, lifeVars
<1> QED BY <1>1, <1>2 DEF BothStep, RevokeAnswer, DetachAnswer

LEMMA BoundStep ==
  ASSUME TypeOK, BoundOK, [Next]_vars
  PROVE  BoundOK'
<1>1. CASE UNCHANGED <<pc, bound>>
  BY <1>1 DEF BoundOK
<1>2. ASSUME NEW k \in Call, Clone(k)
      PROVE  BoundOK'
  BY <1>2 DEF Clone, Return, TypeOK, BoundOK
<1>3. ASSUME NEW k \in Call, UNCHANGED bound, pc[k] \in {"bound", "registered", "waiting", "canceling"},
             NEW p, pc' = [pc EXCEPT ![k] = p]
      PROVE  BoundOK'
  BY <1>3 DEF TypeOK, BoundOK
<1>4. ASSUME NEW k \in Call, CallStep(k)
      PROVE  BoundOK'
  BY <1>1, <1>2, <1>3, <1>4
     DEF CallStep, Register, Enqueue, Receive, Timeout, Drop, Abandon, Cancel, Return, StopAnswer
<1>5. ASSUME NEW c \in Conn, ConnStep(c)
      PROVE  BoundOK'
  BY <1>1, <1>5
     DEF ConnStep, Attach, Attached, MarkReady, SendTo, Write, WriteFails, ResolveTake,
         ResolveAnswer, CloseIfCurrent, RevokeFail, RevokeClose, SeeShutdown, SocketEnds,
         AbortWriter, Detach, callVars
<1>6. ASSUME NEW c \in Conn, NEW k \in Call, BothStep(c, k)
      PROVE  BoundOK'
  BY <1>1, <1>6 DEF BothStep, ResultArrives, RevokeAnswer, DetachAnswer, callVars
<1> QED
  BY <1>1, <1>4, <1>5, <1>6 DEF Next, Stop, StopDrain, vars, callVars

LEMMA StepType ==
  ASSUME TypeOK, BoundOK, [Next]_vars
  PROVE  TypeOK'
<1>1. CASE Stop
  BY <1>1 DEF Stop, TypeOK, TakeConnection, callVars, wireVars
<1>2. CASE StopDrain
  BY <1>2 DEF StopDrain, TypeOK, TakePending, connVars, wireVars
<1>3. CASE UNCHANGED vars
  BY <1>3 DEF TypeOK, vars, hubVars, connVars, lifeVars, callVars, wireVars
<1> QED BY <1>1, <1>2, <1>3, ConnStepType, CallStepType, BothStepType DEF Next

\* Every variable of the hub stays in its type, for any number of calls and
\* connections and any queue capacity.
THEOREM TypeCorrect == Spec => []TypeOK
<1>1. TypeOK /\ BoundOK /\ [Next]_vars => (TypeOK /\ BoundOK)'
  BY StepType, BoundStep
<1> QED BY <1>1, InitType, PTL DEF Spec

-----------------------------------------------------------------------------
(* Each step preserves the invariant of the calls.                         *)

LEMMA InitInv == Init => IInv
<1> SUFFICES ASSUME Init PROVE IInv
  OBVIOUS
<1>1. TypeOK /\ BoundOK
  BY InitType
<1>2. CallInv
  BY DEF Init, CallInv, Registered, Owed, Waiting, Bound, Cancels
<1>3. ConnInv
  BY DEF Init, ConnInv, Gone, Served, Signalled
<1>4. WireInv
  BY DEF Init, WireInv, Carried, StaysOnItsConnection, Delivered
<1>5. AnswerInv
  BY DEF Init, AnswerInv, Answering, ResultFromItsConnection, Answered
<1> QED BY <1>1, <1>2, <1>3, <1>4, <1>5 DEF IInv

\* Taking registrations out of the table makes them owed.
LEMMA TakeKeepsCalls ==
  ASSUME TypeOK, CallInv, NEW ks \in SUBSET pending,
         NEW by \in {"revoker", "detacher", "handler", "stopper"}, TakePending(ks, by),
         UNCHANGED <<pc, expected, bound, slot, outcome, cancels>>
  PROVE  CallInv'
<1> USE DEF TakePending, TypeOK
<1>1. Registered'
  BY DEF CallInv, Registered
<1>2. Owed'
  BY DEF CallInv, Owed, Registered, Bound
<1>3. Waiting'
  BY DEF CallInv, Waiting
<1>4. Bound'
  BY DEF CallInv, Bound
<1>5. Cancels'
  BY DEF CallInv, Cancels
<1> QED BY <1>1, <1>2, <1>3, <1>4, <1>5 DEF CallInv

\* Whoever owes a call its answer gives it, with a cancel at most when the
\* answer is no result.
LEMMA AnswerKeepsCalls ==
  ASSUME TypeOK, CallInv, NEW k \in Call, owed[k] # "nobody",
         NEW answer \in Conn \cup {"unknown"},
         slot' = [slot EXCEPT ![k] = answer], owed' = [owed EXCEPT ![k] = "nobody"],
         \/ cancels' = cancels
         \/ answer = "unknown" /\ cancels' = [cancels EXCEPT ![k] = @ + 1],
         UNCHANGED <<pending, pc, expected, bound, outcome>>
  PROVE  CallInv'
<1> USE DEF TypeOK
<1>1. k \notin pending /\ pc[k] \in {"registered", "waiting", "done"} /\ bound[k] \in Conn
  BY DEF CallInv, Registered, Owed
<1>2. Registered'
  BY <1>1 DEF CallInv, Registered
<1>3. Owed'
  BY DEF CallInv, Owed
<1>4. Waiting'
  BY DEF CallInv, Waiting
<1>5. Bound'
  BY <1>1 DEF CallInv, Bound
<1>6. Cancels'
  BY <1>1 DEF CallInv, Cancels
<1> QED BY <1>2, <1>3, <1>4, <1>5, <1>6 DEF CallInv

LEMMA CallStepKeepsCalls ==
  ASSUME TypeOK, CallInv, NEW k \in Call, CallStep(k)
  PROVE  CallInv'
<1>0. /\ pending \subseteq Call
      /\ pc \in [Call -> {"idle", "bound", "registered", "waiting", "canceling", "done"}]
      /\ expected \in [Call -> Conn \cup {NoConn}] /\ bound \in [Call -> Conn \cup {NoConn}]
      /\ slot \in [Call -> Conn \cup {"empty", "unknown"}] /\ cancels \in [Call -> Nat]
      /\ owed \in [Call -> {"nobody", "revoker", "detacher", "handler", "stopper"}]
      /\ outcome \in [Call -> Outcomes]
  BY DEF TypeOK
<1> USE <1>0
<1>1. CASE Clone(k)
  <2>1. /\ pc[k] = "idle"
        /\ UNCHANGED <<pending, slot, owed, cancels>>
    BY <1>1 DEF Clone, hubVars, wireVars
  <2>2. CASE Return(k, "offline") /\ UNCHANGED <<bound, expected>>
    BY <2>1, <2>2 DEF Return, CallInv, Registered, Owed, Waiting, Bound, Cancels
  <2>3. CASE Return(k, "disconnected") /\ UNCHANGED <<bound, expected>>
    BY <2>1, <2>3 DEF Return, CallInv, Registered, Owed, Waiting, Bound, Cancels
  <2>4. ASSUME NEW e \in Conn, bound' = [bound EXCEPT ![k] = e],
               expected' = [expected EXCEPT ![k] = e], pc' = [pc EXCEPT ![k] = "bound"],
               outcome' = outcome
        PROVE  CallInv'
    BY <2>1, <2>4 DEF CallInv, Registered, Owed, Waiting, Bound, Cancels
  <2> QED BY <1>1, <2>2, <2>3, <2>4 DEF Clone
<1>2. CASE Register(k)
  <2>1. /\ pc[k] = "bound"
        /\ UNCHANGED <<expected, bound, slot, owed, cancels>>
    BY <1>2 DEF Register, wireVars
  <2>2. \/ /\ pending' = pending \cup {k} /\ pc' = [pc EXCEPT ![k] = "registered"]
           /\ outcome' = outcome
        \/ pending' = pending /\ Return(k, "handshake_pending")
    BY <1>2 DEF Register
  <2>3. Registered'
    BY <2>1, <2>2 DEF Return, CallInv, Registered, Owed, Bound
  <2>4. Owed'
    <3>1. \A j \in Call : pc'[j] = pc[j] \/ pc'[j] \in {"registered", "done"}
      BY <2>2 DEF Return
    <3> QED BY <2>1, <3>1 DEF CallInv, Owed
  <2>5. Waiting'
    BY <2>1, <2>2 DEF Return, CallInv, Waiting, Registered
  <2>6. Bound'
    BY <2>1, <2>2 DEF Return, CallInv, Bound, Registered
  <2>7. Cancels'
    BY <2>1, <2>2 DEF Return, CallInv, Cancels, Bound
  <2> QED BY <2>3, <2>4, <2>5, <2>6, <2>7 DEF CallInv
<1>3. CASE Enqueue(k)
  <2>1. /\ pc[k] = "registered"
        /\ UNCHANGED <<expected, bound, slot, owed, cancels>>
    BY <1>3 DEF Enqueue, wireVars
  <2>2. \/ /\ pending' = pending /\ pc' = [pc EXCEPT ![k] = "waiting"]
           /\ outcome' = outcome
        \/ /\ pending' = pending \ {k}
           /\ Return(k, "overloaded") \/ Return(k, "disconnected")
    BY <1>3 DEF Enqueue
  <2>3. Registered'
    BY <2>1, <2>2 DEF Return, CallInv, Registered, Owed, Bound
  <2>4. Owed'
    <3>1. \A j \in Call : pc'[j] = pc[j] \/ (j = k /\ pc[j] # "bound")
      BY <2>1, <2>2 DEF Return
    <3>2. pc'[k] \in {"waiting", "done"}
      BY <2>2 DEF Return
    <3> QED BY <2>1, <3>1, <3>2 DEF CallInv, Owed
  <2>5. Waiting'
    BY <2>1, <2>2 DEF Return, CallInv, Waiting, Registered
  <2>6. Bound'
    BY <2>1, <2>2 DEF Return, CallInv, Bound, Registered
  <2>7. Cancels'
    BY <2>1, <2>2 DEF Return, CallInv, Cancels, Bound
  <2> QED BY <2>3, <2>4, <2>5, <2>6, <2>7 DEF CallInv
<1>4. CASE Receive(k)
  <2>1. /\ pc[k] = "waiting" /\ slot[k] # "empty"
        /\ Return(k, "unknown") \/ Return(k, "result")
        /\ UNCHANGED <<pending, expected, bound, slot, owed, cancels>>
    BY <1>4 DEF Receive, hubVars, wireVars
  <2>3. Registered'
    BY <2>1 DEF Return, CallInv, Registered, Owed, Bound
  <2>4. Owed'
    <3>1. \A j \in Call : pc'[j] = pc[j] \/ pc'[j] = "done"
      BY <2>1 DEF Return
    <3> QED BY <2>1, <3>1 DEF CallInv, Owed
  <2>5. Waiting'
    BY <2>1 DEF Return, CallInv, Waiting, Registered
  <2>6. Bound'
    BY <2>1 DEF Return, CallInv, Bound, Registered
  <2>7. Cancels'
    BY <2>1 DEF Return, CallInv, Cancels, Bound
  <2> QED BY <2>3, <2>4, <2>5, <2>6, <2>7 DEF CallInv
<1>5. ASSUME NEW what \in {"unknown", "dropped"}, Abandon(k, what)
      PROVE  CallInv'
  <2>1. /\ pc[k] = "waiting"
        /\ outcome' = [outcome EXCEPT ![k] = what]
        /\ UNCHANGED <<expected, bound, slot, owed, cancels>>
    BY <1>5 DEF Abandon, Return, wireVars
  <2>2. \/ /\ k \in pending /\ pending' = pending \ {k}
           /\ pc' = [pc EXCEPT ![k] = "canceling"]
        \/ k \notin pending /\ pending' = pending /\ pc' = [pc EXCEPT ![k] = "done"]
    BY <1>5 DEF Abandon, Return
  <2>3. Registered'
    BY <2>1, <2>2 DEF Return, CallInv, Registered, Owed, Bound
  <2>4. Owed'
    <3>1. \A j \in Call : pc'[j] = pc[j] \/ (j = k /\ pc[j] # "bound")
      BY <2>1, <2>2 DEF Return
    <3>2. pc'[k] \in {"waiting", "canceling", "done"}
      BY <2>2 DEF Return
    <3>3. owed[k] = "nobody" \/ pc'[k] \in {"waiting", "done"}
      BY <2>1, <2>2, <3>2 DEF CallInv, Registered
    <3> QED BY <2>1, <3>1, <3>3 DEF CallInv, Owed
  <2>5. Waiting'
    <3>1. \A j \in Call \ {k} : pc'[j] = pc[j] /\ (j \in pending => j \in pending')
      BY <2>2
    <3>2. pc'[k] \in {"canceling", "done"}
      BY <2>2
    <3> QED BY <2>1, <3>1, <3>2 DEF CallInv, Waiting
  <2>6. Bound'
    BY <2>1, <2>2 DEF Return, CallInv, Bound, Registered
  <2>7. Cancels'
    BY <2>1, <2>2 DEF Return, CallInv, Cancels, Bound
  <2> QED BY <2>3, <2>4, <2>5, <2>6, <2>7 DEF CallInv
<1>6. CASE Cancel(k)
  <2>1. /\ pc[k] = "canceling" /\ pc' = [pc EXCEPT ![k] = "done"]
        /\ cancels' = cancels \/ cancels' = [cancels EXCEPT ![k] = @ + 1]
        /\ UNCHANGED <<pending, expected, bound, slot, owed, outcome>>
    BY <1>6 DEF Cancel, SendCancel, hubVars
  <2> QED BY <2>1 DEF CallInv, Registered, Owed, Waiting, Bound, Cancels
<1>7. CASE StopAnswer(k)
  BY <1>7, AnswerKeepsCalls DEF StopAnswer, AnswerUnknown, hubVars, wireVars
<1> QED BY <1>1, <1>2, <1>3, <1>4, <1>5, <1>6, <1>7 DEF CallStep, Timeout, Drop

LEMMA CallInvStep ==
  ASSUME IInv, [Next]_vars
  PROVE  CallInv'
<1> USE DEF IInv
<1>1. CASE UNCHANGED <<pending, pc, expected, bound, slot, owed, outcome, cancels>>
  BY <1>1 DEF CallInv, Registered, Owed, Waiting, Bound, Cancels
<1>2. ASSUME NEW c \in Conn, ConnStep(c)
      PROVE  CallInv'
  <2>1. CASE ResolveTake(c)
    <3>1. CASE handling[c].call \in pending
      BY <2>1, <3>1, TakeKeepsCalls DEF ResolveTake, wireVars
    <3> QED BY <1>1, <2>1, <3>1 DEF ResolveTake, wireVars
  <2>2. CASE ResolveAnswer(c)
    <3>1. PICK answer \in {c, "unknown"} :
             /\ slot' = [slot EXCEPT ![handling[c].call] = answer]
             /\ owed' = [owed EXCEPT ![handling[c].call] = "nobody"]
      BY <2>2 DEF ResolveAnswer
    <3>2. handling[c].call \in Call /\ owed[handling[c].call] # "nobody"
      BY <2>2 DEF ResolveAnswer, AnswerInv, Answering, TypeOK
    <3> QED BY <2>2, <3>1, <3>2, AnswerKeepsCalls DEF ResolveAnswer, hubVars, wireVars
  <2>3. CASE RevokeFail(c)
    BY <2>3, TakeKeepsCalls DEF RevokeFail, PendingOf, wireVars
  <2>4. CASE Detach(c)
    BY <2>4, TakeKeepsCalls DEF Detach, PendingOf, wireVars
  <2> QED
    BY <1>1, <1>2, <2>1, <2>2, <2>3, <2>4
       DEF ConnStep, Attach, Attached, MarkReady, SendTo, Write, WriteFails, CloseIfCurrent,
           RevokeClose, SeeShutdown, SocketEnds, AbortWriter, hubVars, callVars, wireVars
<1>3. ASSUME NEW c \in Conn, NEW k \in Call, BothStep(c, k)
      PROVE  CallInv'
  <2>1. ASSUME SendCancel(c, k), AnswerUnknown(k), owed[k] # "nobody",
               UNCHANGED <<pending, pc, expected, bound, outcome>>
        PROVE  CallInv'
    BY <2>1, AnswerKeepsCalls DEF SendCancel, AnswerUnknown
  <2> QED
    BY <1>1, <1>3, <2>1
       DEF BothStep, ResultArrives, RevokeAnswer, DetachAnswer, OwedOn, hubVars, callVars, wireVars
<1>4. CASE Stop
  BY <1>1, <1>4 DEF Stop, callVars, wireVars
<1>5. CASE StopDrain
  BY <1>5, TakeKeepsCalls DEF StopDrain, wireVars
<1> QED
  BY <1>1, <1>2, <1>3, <1>4, <1>5, CallStepKeepsCalls
     DEF Next, vars, hubVars, callVars, wireVars

-----------------------------------------------------------------------------
(* Each step preserves the invariant of the connections.                   *)

LEMMA BoundFromInv == IInv => BoundOK
  BY DEF IInv, CallInv, Bound, BoundOK

\* A step that adds no served registration leaves Served alone.
LEMMA ServedFrame ==
  ASSUME TypeOK, Served, UNCHANGED <<pc, bound>>, pending' \subseteq pending,
         \A k \in pending' : pc[k] = "waiting" /\ handler[bound[k]] # "gone"
                               => handler'[bound[k]] # "gone"
  PROVE  Served'
  BY DEF Served

LEMMA ConnStepKeepsConns ==
  ASSUME IInv, NEW c \in Conn, ConnStep(c)
  PROVE  ConnInv'
<1> USE DEF IInv, TypeOK, ConnInv
<1>1. \A k \in pending : pc[k] = "waiting" => bound[k] \in Conn
  BY DEF CallInv, Bound
<1>2. ASSUME UNCHANGED <<pc, bound, pending>>, NEW h, h # "gone",
             handler' = [handler EXCEPT ![c] = h]
      PROVE  Served'
  BY <1>1, <1>2, ServedFrame
<1>3. CASE Attach(c)
  <2>1. Gone'
    BY <1>3 DEF Attach, Gone
  <2>2. Signalled'
    <3>1. CASE current = NoConn
      BY <1>3, <3>1 DEF Attach, Signalled
    <3>2. CASE current # NoConn
      <4>1. shutdown' = [shutdown EXCEPT ![current] = TRUE]
        BY <1>3, <3>2 DEF Attach, TakeConnection
      <4>2. shutdown'[current] /\ \A d \in Conn : shutdown[d] => shutdown'[d]
        BY <3>2, <4>1
      <4> QED BY <1>3, <4>2 DEF Attach, Signalled
    <3> QED BY <3>1, <3>2
  <2> QED BY <1>2, <1>3, <2>1, <2>2 DEF Attach, callVars
<1>4. CASE Attached(c)
  <2>1. Served'
    BY <1>2, <1>4 DEF Attached, hubVars, callVars
  <2>2. Gone' /\ Signalled'
    BY <1>4 DEF Attached, Gone, Signalled, hubVars
  <2> QED BY <2>1, <2>2
<1>5. CASE MarkReady(c) \/ SendTo(c)
  BY <1>5 DEF MarkReady, SendTo, Gone, Served, Signalled, hubVars, lifeVars, callVars
<1>6. CASE Write(c)
  <2>1. receiver' = receiver \/ receiver' = [receiver EXCEPT ![c] = "dropped"]
    BY <1>6 DEF Write
  <2> QED BY <1>6, <2>1 DEF Write, Gone, Served, Signalled, hubVars, lifeVars, callVars
<1>7. CASE WriteFails(c)
  BY <1>7 DEF WriteFails, Gone, Served, Signalled, hubVars, lifeVars, callVars
<1>8. CASE ResolveTake(c)
  <2>1. /\ pending' \subseteq pending
        /\ \/ handler' = [handler EXCEPT ![c] = "answering"]
           \/ handler' = [handler EXCEPT ![c] = "running"]
        /\ handler[c] = "resolving"
        /\ UNCHANGED <<pc, bound, receiver, current, shutdown>>
    BY <1>8 DEF ResolveTake, TakePending, connVars
  <2>2. Gone' /\ Signalled'
    BY <2>1 DEF Gone, Signalled
  <2> QED BY <1>1, <2>1, <2>2, ServedFrame
<1>9. CASE ResolveAnswer(c)
  <2>1. /\ \/ handler' = [handler EXCEPT ![c] = "exiting"]
           \/ handler' = [handler EXCEPT ![c] = "running"]
        /\ handler[c] = "answering"
        /\ UNCHANGED <<pc, bound, pending, receiver, current, shutdown>>
    BY <1>9 DEF ResolveAnswer, hubVars
  <2> QED BY <1>2, <2>1 DEF Gone, Signalled
<1>10. CASE CloseIfCurrent(c)
  BY <1>10 DEF CloseIfCurrent, TakeConnection, Gone, Served, Signalled, callVars
<1>11. CASE RevokeFail(c)
  <2>1. pending' \subseteq pending
    BY <1>11 DEF RevokeFail, TakePending
  <2> QED BY <1>11, <2>1 DEF RevokeFail, Gone, Served, Signalled, connVars
<1>12. CASE RevokeClose(c)
  BY <1>12 DEF RevokeClose, Gone, Served, Signalled, hubVars, callVars
<1>13. CASE SeeShutdown(c) \/ SocketEnds(c)
  BY <1>2, <1>13 DEF SeeShutdown, SocketEnds, Gone, Signalled, hubVars, connVars, callVars
<1>14. CASE AbortWriter(c)
  BY <1>2, <1>14 DEF AbortWriter, Gone, Signalled, hubVars, callVars
<1>15. CASE Detach(c)
  <2>1. \A k \in pending' : k \in pending /\ bound[k] # c
    BY <1>15 DEF Detach, TakePending, PendingOf
  <2>2. Served'
    BY <1>1, <1>15, <2>1, ServedFrame DEF Detach
  <2> QED BY <1>15, <2>2 DEF Detach, Gone, Signalled, connVars
<1> QED
  BY <1>3, <1>4, <1>5, <1>6, <1>7, <1>8, <1>9, <1>10, <1>11, <1>12, <1>13, <1>14, <1>15
     DEF ConnStep

LEMMA CallStepKeepsConns ==
  ASSUME IInv, NEW k \in Call, CallStep(k)
  PROVE  ConnInv'
<1> USE DEF IInv, TypeOK
<1>1. UNCHANGED <<current, shutdown, receiver, handler>>
  BY DEF CallStep, Clone, Register, Enqueue, Receive, Timeout, Drop, Abandon, Cancel, StopAnswer,
         hubVars, connVars, lifeVars
<1>2. Gone' /\ Signalled'
  BY <1>1 DEF ConnInv, Gone, Signalled
<1>3. Served'
  <2>1. \A j \in Call \ {k} : pc'[j] = pc[j] /\ bound'[j] = bound[j] /\ (j \in pending' => j \in pending)
    <3>1. CASE Clone(k)
      <4>1. bound' = bound \/ \E e \in Conn : bound' = [bound EXCEPT ![k] = e]
        BY <3>1 DEF Clone
      <4>2. pending' = pending /\ \E p \in {"bound", "done"} : pc' = [pc EXCEPT ![k] = p]
        BY <3>1 DEF Clone, Return, hubVars
      <4> QED BY <4>1, <4>2
    <3>2. ASSUME bound' = bound, pending' \subseteq pending \cup {k}, NEW p, pc' = [pc EXCEPT ![k] = p]
          PROVE  \A j \in Call \ {k} : pc'[j] = pc[j] /\ bound'[j] = bound[j] /\ (j \in pending' => j \in pending)
      BY <3>2
    <3> QED
      BY <3>1, <3>2
         DEF CallStep, Register, Enqueue, Receive, Timeout, Drop, Abandon, Cancel, StopAnswer,
             Return, hubVars
  <2>2. k \in pending' /\ pc'[k] = "waiting" => handler'[bound'[k]] # "gone"
    <3>1. CASE Enqueue(k)
      BY <1>1, <3>1 DEF Enqueue, CanSend, ConnInv, Gone, CallInv, Bound
    <3>2. CASE Clone(k)
      <4>1. \E p \in {"bound", "done"} : pc' = [pc EXCEPT ![k] = p]
        BY <3>2 DEF Clone, Return
      <4> QED BY <4>1
    <3>3. CASE Register(k)
      <4>1. \E p \in {"registered", "done"} : pc' = [pc EXCEPT ![k] = p]
        BY <3>3 DEF Register, Return
      <4> QED BY <4>1
    <3>4. CASE Receive(k) \/ Timeout(k) \/ Drop(k) \/ Cancel(k)
      <4>1. \E p \in {"canceling", "done"} : pc' = [pc EXCEPT ![k] = p]
        BY <3>4 DEF Receive, Timeout, Drop, Abandon, Cancel, Return
      <4> QED BY <4>1
    <3>5. CASE StopAnswer(k)
      BY <3>5 DEF StopAnswer, ConnInv, Served, hubVars, lifeVars
    <3> QED BY <3>1, <3>2, <3>3, <3>4, <3>5 DEF CallStep
  <2>3. pending' \subseteq Call
    BY BoundFromInv, CallStepType
  <2> QED BY <1>1, <2>1, <2>2, <2>3 DEF ConnInv, Served
<1> QED BY <1>2, <1>3 DEF ConnInv

LEMMA ConnInvStep ==
  ASSUME IInv, [Next]_vars
  PROVE  ConnInv'
<1> USE DEF IInv, TypeOK
<1>1. CASE UNCHANGED vars
  BY <1>1 DEF ConnInv, Gone, Served, Signalled, vars, hubVars, connVars, lifeVars, callVars
<1>2. ASSUME NEW c \in Conn, NEW k \in Call, BothStep(c, k)
      PROVE  ConnInv'
  <2>1. CASE ResultArrives(c, k)
    <3>1. handler' = [handler EXCEPT ![c] = "resolving"] /\ handler[c] = "running"
      BY <2>1 DEF ResultArrives
    <3>2. Served'
      <4>1. \A j \in pending : pc[j] = "waiting" => bound[j] \in Conn
        BY DEF CallInv, Bound
      <4> QED BY <2>1, <3>1, <4>1, ServedFrame DEF ResultArrives, ConnInv, hubVars, callVars
    <3> QED BY <2>1, <3>1, <3>2 DEF ResultArrives, ConnInv, Gone, Signalled, hubVars, connVars
  <2>2. CASE RevokeAnswer(c, k) \/ DetachAnswer(c, k)
    BY <2>2 DEF RevokeAnswer, DetachAnswer, ConnInv, Gone, Served, Signalled, hubVars, lifeVars
  <2> QED BY <1>2, <2>1, <2>2 DEF BothStep
<1>3. CASE Stop
  <2>0. \/ current = NoConn /\ shutdown' = shutdown
        \/ shutdown' = [shutdown EXCEPT ![current] = TRUE]
    BY <1>3 DEF Stop, TakeConnection
  <2>1. \A c \in Conn : current = c => shutdown'[c]
    BY <2>0, ConnAssumption DEF TypeOK
  <2>2. \A c \in Conn : shutdown[c] => shutdown'[c]
    BY <2>0, Zenon DEF TypeOK
  <2> QED BY <1>3, <2>1, <2>2 DEF Stop, ConnInv, Gone, Served, Signalled, callVars
<1>4. CASE StopDrain
  BY <1>4 DEF StopDrain, TakePending, ConnInv, Gone, Served, Signalled, connVars
<1> QED BY <1>1, <1>2, <1>3, <1>4, ConnStepKeepsConns, CallStepKeepsConns DEF Next

-----------------------------------------------------------------------------
(* Each step preserves the invariant of the wire.                          *)

\* What a step may never take back: a call that was sent stays sent, and a
\* bound call stays bound to the same connection.
WillBeSent(k) ==
  pc'[k] \in {"waiting", "canceling", "done"} /\ outcome'[k] \notin Refusals

Kept(k) ==
  /\ WasSent(k) => WillBeSent(k)
  /\ bound[k] \in Conn => bound'[k] = bound[k] /\ expected'[k] = expected[k]

LEMMA StepKeeps ==
  ASSUME IInv, [Next]_vars, NEW k \in Call
  PROVE  Kept(k)
<1> USE DEF IInv, TypeOK
<1>1. CASE UNCHANGED <<pc, outcome, bound, expected>>
  BY <1>1 DEF Kept, WasSent, WillBeSent
<1>2. ASSUME NEW j \in Call, UNCHANGED <<bound, expected>>,
             NEW p \in {"bound", "registered", "waiting", "canceling", "done"},
             pc' = [pc EXCEPT ![j] = p],
             NEW what \in Outcomes, outcome' = outcome \/ outcome' = [outcome EXCEPT ![j] = what],
             \/ pc[j] \notin {"waiting", "canceling", "done"}
             \/ p \in {"canceling", "done"} /\ (what \notin Refusals \/ outcome' = outcome)
      PROVE  Kept(k)
  BY <1>2 DEF Kept, WasSent, WillBeSent
<1>3. ASSUME NEW j \in Call, CallStep(j)
      PROVE  Kept(k)
  <2>1. CASE Clone(j)
    <3>1. CASE UNCHANGED <<bound, expected>>
      BY <1>2, <2>1, <3>1 DEF Clone, Return, Outcomes, Refusals
    <3>2. CASE ~UNCHANGED <<bound, expected>>
      <4>1. PICK e \in Conn : /\ bound' = [bound EXCEPT ![j] = e]
                              /\ expected' = [expected EXCEPT ![j] = e]
                              /\ pc' = [pc EXCEPT ![j] = "bound"]
                              /\ outcome' = outcome
        BY <2>1, <3>2 DEF Clone
      <4>2. pc[j] = "idle" /\ bound[j] \notin Conn
        BY <2>1, ConnAssumption DEF Clone, CallInv, Bound
      <4> QED BY <4>1, <4>2 DEF Kept, WasSent, WillBeSent
    <3> QED BY <3>1, <3>2
  <2>2. CASE Register(j)
    BY <1>2, <2>2 DEF Register, Return, Outcomes, Refusals
  <2>3. CASE Enqueue(j)
    BY <1>2, <2>3 DEF Enqueue, Return, Outcomes, Refusals
  <2>4. CASE Receive(j)
    BY <1>2, <2>4 DEF Receive, Return, Outcomes, Refusals
  <2>5. ASSUME NEW what \in {"unknown", "dropped"}, Abandon(j, what)
        PROVE  Kept(k)
    BY <1>2, <2>5 DEF Abandon, Return, Outcomes, Refusals
  <2>6. CASE Cancel(j)
    BY <1>2, <2>6 DEF Cancel, Outcomes
  <2>7. CASE StopAnswer(j)
    BY <1>1, <2>7 DEF StopAnswer
  <2> QED BY <1>3, <2>1, <2>2, <2>3, <2>4, <2>5, <2>6, <2>7 DEF CallStep, Timeout, Drop
<1>4. ASSUME NEW c \in Conn, ConnStep(c)
      PROVE  Kept(k)
  BY <1>1, <1>4
     DEF ConnStep, Attach, Attached, MarkReady, SendTo, Write, WriteFails, ResolveTake,
         ResolveAnswer, CloseIfCurrent, RevokeFail, RevokeClose, SeeShutdown, SocketEnds,
         AbortWriter, Detach, callVars
<1>5. ASSUME NEW c \in Conn, NEW j \in Call, BothStep(c, j)
      PROVE  Kept(k)
  BY <1>1, <1>5 DEF BothStep, ResultArrives, RevokeAnswer, DetachAnswer, callVars
<1> QED BY <1>1, <1>3, <1>4, <1>5 DEF Next, Stop, StopDrain, vars, callVars

\* A message that a step may put in the queue of connection d.
Sendable(d, m) ==
  m.kind \in {"command", "cancel"} =>
    /\ m.call \in Call
    /\ bound'[m.call] = d /\ expected'[m.call] = d
    /\ m.kind = "command" => WillBeSent(m.call)

\* The shape of every step on the wire: messages are old or sendable, and what
\* is delivered was delivered before or left a queue.
LEMMA WireShape ==
  ASSUME IInv, [Next]_vars,
         \A d \in Conn : \A i \in 1..Len(queue'[d]) :
           \/ \E n \in 1..Len(queue[d]) : queue'[d][i] = queue[d][n]
           \/ Sendable(d, queue'[d][i]),
         \A k \in delivered' :
           k \in delivered \/ \E d \in Conn : \E n \in 1..Len(queue[d]) :
                                queue[d][n].kind = "command" /\ queue[d][n].call = k
  PROVE  WireInv'
<1>1. \A d \in Conn : \A n \in 1..Len(queue[d]) :
        /\ queue[d][n].kind = "command" => WillBeSent(queue[d][n].call)
        /\ queue[d][n].kind \in {"command", "cancel"} =>
             /\ queue[d][n].call \in Call
             /\ bound'[queue[d][n].call] = d /\ expected'[queue[d][n].call] = d
  <2> SUFFICES ASSUME NEW d \in Conn, NEW n \in 1..Len(queue[d]),
                      queue[d][n].kind \in {"command", "cancel"}
               PROVE  /\ queue[d][n].kind = "command" => WillBeSent(queue[d][n].call)
                      /\ queue[d][n].call \in Call
                      /\ bound'[queue[d][n].call] = d /\ expected'[queue[d][n].call] = d
    OBVIOUS
  <2>1. queue[d][n] \in Messages
    BY DEF IInv, TypeOK
  <2>2. queue[d][n].call \in Call
    BY <2>1 DEF Messages
  <2>3. bound[queue[d][n].call] = d /\ expected[queue[d][n].call] = d
    BY DEF IInv, WireInv, StaysOnItsConnection
  <2>4. queue[d][n].kind = "command" => WasSent(queue[d][n].call)
    BY DEF IInv, WireInv, Carried
  <2> QED BY <2>2, <2>3, <2>4, StepKeeps DEF Kept
<1>2. Carried'
  BY <1>1 DEF Carried, Sendable, WasSent, WillBeSent
<1>3. StaysOnItsConnection'
  BY <1>1 DEF StaysOnItsConnection, Sendable
<1>4. Delivered'
  <2>1. \A k \in delivered : WillBeSent(k)
    BY StepKeeps DEF IInv, TypeOK, WireInv, Delivered, Kept
  <2> QED BY <1>1, <2>1 DEF Delivered, WasSent, WillBeSent
<1> QED BY <1>2, <1>3, <1>4 DEF WireInv

\* try_send and the cancel envelope only add sendable messages.
LEMMA TrySendKeepsWire ==
  ASSUME IInv, [Next]_vars, NEW c \in Conn, NEW m \in Messages, queue' = TrySend(c, m),
         Sendable(c, m), UNCHANGED delivered
  PROVE  WireInv'
<1>1. ASSUME NEW d \in Conn, NEW i \in 1..Len(queue'[d])
      PROVE  \/ \E n \in 1..Len(queue[d]) : queue'[d][i] = queue[d][n]
             \/ Sendable(d, queue'[d][i])
  <2>1. i \in 1..Len(TrySend(c, m)[d]) /\ queue \in [Conn -> Seq(Messages)]
    BY <1>1 DEF IInv, TypeOK
  <2>2. \/ TrySend(c, m)[d][i] = m /\ d = c
        \/ i \in 1..Len(queue[d]) /\ TrySend(c, m)[d][i] = queue[d][i]
    BY <2>1, TrySendElements
  <2> QED BY <2>2 DEF Sendable
<1> QED BY <1>1, WireShape

LEMMA QueueFrame ==
  ASSUME IInv, [Next]_vars, UNCHANGED delivered,
         \/ UNCHANGED queue
         \/ \E c \in Conn : queue' = [queue EXCEPT ![c] = <<>>]
  PROVE  WireInv'
<1>1. ASSUME NEW d \in Conn, NEW i \in 1..Len(queue'[d])
      PROVE  \E n \in 1..Len(queue[d]) : queue'[d][i] = queue[d][n]
  <2>1. queue'[d] = queue[d] \/ queue'[d] = <<>>
    BY DEF IInv, TypeOK
  <2>2. i \in 1..Len(queue[d]) /\ queue'[d][i] = queue[d][i]
    BY <1>1, <2>1
  <2> QED BY <2>2
<1> QED BY <1>1, WireShape

LEMMA WireInvStep ==
  ASSUME IInv, [Next]_vars
  PROVE  WireInv'
<1>2. ASSUME NEW c \in Conn, Attached(c) \/ SendTo(c) \/ RevokeClose(c)
      PROVE  WireInv'
  <2>1. \A kind \in {"note", "close"} : Sendable(c, Message(kind, NoCall))
    BY DEF Sendable, Message
  <2>2. /\ \/ UNCHANGED queue \/ queue' = TrySend(c, Message("note", NoCall))
           \/ queue' = TrySend(c, Message("close", NoCall))
        /\ UNCHANGED delivered
    BY <1>2 DEF Attached, SendTo, RevokeClose, wireVars
  <2> QED BY <2>1, <2>2, QueueFrame, TrySendKeepsWire, MessageTypes
<1>3. ASSUME NEW c \in Conn, Write(c)
      PROVE  WireInv'
  <2>1. queue[c] \in Seq(Messages) /\ queue[c] # <<>>
    BY <1>3 DEF Write, IInv, TypeOK
  <2>2. CASE Head(queue[c]).kind = "close"
    BY <1>3, <2>2, QueueFrame DEF Write
  <2>3. CASE Head(queue[c]).kind # "close"
    <3>1. /\ queue' = [queue EXCEPT ![c] = Tail(queue[c])]
          /\ delivered' = IF Head(queue[c]).kind = "command"
                            THEN delivered \cup {Head(queue[c]).call} ELSE delivered
      BY <1>3, <2>3 DEF Write
    <3>2. ASSUME NEW d \in Conn, NEW i \in 1..Len(queue'[d])
          PROVE  \E n \in 1..Len(queue[d]) : queue'[d][i] = queue[d][n]
      <4>1. CASE d = c
        <5>1. queue'[c] = Tail(queue[c])
          BY <3>1 DEF IInv, TypeOK
        <5>2. i + 1 \in 1..Len(queue[c]) /\ Tail(queue[c])[i] = queue[c][i + 1]
          BY <2>1, <4>1, <5>1
        <5> QED BY <4>1, <5>1, <5>2
      <4>2. CASE d # c
        BY <3>1, <4>2 DEF IInv, TypeOK
      <4> QED BY <4>1, <4>2
    <3>3. Head(queue[c]) = queue[c][1] /\ 1 \in 1..Len(queue[c])
      BY <2>1
    <3>4. \A k \in delivered' :
            k \in delivered \/ \E d \in Conn : \E n \in 1..Len(queue[d]) :
                                 queue[d][n].kind = "command" /\ queue[d][n].call = k
      BY <3>1, <3>3
    <3> QED BY <3>2, <3>4, WireShape
  <2> QED BY <2>2, <2>3
<1>4. ASSUME NEW c \in Conn, NEW k \in Call, SendCancel(c, k), bound[k] = c, UNCHANGED delivered
      PROVE  WireInv'
  <2>1. Sendable(c, Message("cancel", k))
    <3>1. expected[k] = c
      BY <1>4 DEF IInv, CallInv, Bound
    <3> QED BY <1>4, <3>1, StepKeeps DEF Sendable, Message, Kept
  <2> QED BY <1>4, <2>1, TrySendKeepsWire, MessageTypes DEF SendCancel
<1>5. ASSUME NEW k \in Call, Enqueue(k)
      PROVE  WireInv'
  <2>1. bound[k] \in Conn /\ expected[k] = bound[k]
    BY <1>5 DEF Enqueue, IInv, CallInv, Bound
  <2>2. CASE CanSend(bound[k])
    <3>1. /\ queue' = TrySend(bound[k], Message("command", k))
          /\ pc' = [pc EXCEPT ![k] = "waiting"] /\ outcome' = outcome
          /\ UNCHANGED <<bound, expected, delivered>>
      BY <1>5, <2>2 DEF Enqueue, wireVars
    <3>2. outcome[k] = "none"
      BY <1>5 DEF Enqueue, IInv, CallInv, Bound
    <3>3. WillBeSent(k)
      BY <3>1, <3>2 DEF WillBeSent, Refusals, IInv, TypeOK
    <3>4. Sendable(bound[k], Message("command", k))
      BY <2>1, <3>1, <3>3 DEF Sendable, Message
    <3> QED BY <2>1, <3>1, <3>4, TrySendKeepsWire, MessageTypes
  <2>3. CASE ~CanSend(bound[k])
    BY <1>5, <2>3, QueueFrame DEF Enqueue, wireVars
  <2> QED BY <2>2, <2>3
<1>6. ASSUME NEW c \in Conn, ConnStep(c)
      PROVE  WireInv'
  BY <1>2, <1>3, <1>6, QueueFrame
     DEF ConnStep, Attach, MarkReady, WriteFails, ResolveTake, ResolveAnswer, CloseIfCurrent,
         RevokeFail, SeeShutdown, SocketEnds, AbortWriter, Detach, connVars, wireVars
<1>7. ASSUME NEW k \in Call, CallStep(k)
      PROVE  WireInv'
  <2>1. CASE Cancel(k)
    BY <1>4, <2>1 DEF Cancel, IInv, CallInv, Bound
  <2> QED
    BY <1>5, <1>7, <2>1, QueueFrame
       DEF CallStep, Clone, Register, Receive, Timeout, Drop, Abandon, StopAnswer, connVars,
           wireVars
<1>8. ASSUME NEW c \in Conn, NEW k \in Call, BothStep(c, k)
      PROVE  WireInv'
  BY <1>4, <1>8, QueueFrame
     DEF BothStep, ResultArrives, RevokeAnswer, DetachAnswer, OwedOn, connVars, wireVars
<1>9. CASE Stop \/ StopDrain \/ UNCHANGED vars
  BY <1>9, QueueFrame DEF Stop, StopDrain, vars, connVars, wireVars
<1> QED BY <1>6, <1>7, <1>8, <1>9 DEF Next

-----------------------------------------------------------------------------
(* Each step preserves the invariant of the answers.                       *)

\* A step leaves Answering alone when it keeps every handler that is resolving
\* and what the answering ones owe.
LEMMA AnsweringFrame ==
  ASSUME TypeOK, Answering, delivered \subseteq delivered',
         \A c \in Conn : handler'[c] \in {"resolving", "answering"} =>
           /\ handler'[c] = handler[c] /\ handling'[c] = handling[c]
           /\ handler[c] = "answering" => owed'[handling[c].call] = "handler"
  PROVE  Answering'
  BY DEF Answering

LEMMA TakeKeepsAnswering ==
  ASSUME TypeOK, CallInv, Answering, NEW ks \in SUBSET pending,
         NEW by \in {"revoker", "detacher", "stopper"}, TakePending(ks, by),
         UNCHANGED <<delivered, handling>>,
         \A c \in Conn : handler'[c] \in {"resolving", "answering"} => handler'[c] = handler[c]
  PROVE  Answering'
<1>1. \A c \in Conn : handling[c].call \in ks => owed[handling[c].call] # "handler"
  BY DEF CallInv, Registered
<1>2. \A c \in Conn : handler[c] = "answering" =>
        handling[c].call \in Call /\ owed[handling[c].call] = "handler"
  BY DEF Answering, TypeOK
<1>3. \A c \in Conn : handler[c] = "answering" => owed'[handling[c].call] = "handler"
  BY <1>1, <1>2 DEF TakePending
<1> QED BY <1>3, AnsweringFrame

LEMMA AnsweringStep ==
  ASSUME IInv, [Next]_vars
  PROVE  Answering'
<1> USE DEF IInv
<1>1. Answering
  BY DEF AnswerInv
<1>2. \A c \in Conn : handler[c] = "answering" => owed[handling[c].call] = "handler"
  BY <1>1 DEF Answering
<1>3. ASSUME UNCHANGED <<delivered, handling, owed>>,
             \A c \in Conn : handler'[c] \in {"resolving", "answering"} => handler'[c] = handler[c]
      PROVE  Answering'
  BY <1>1, <1>2, <1>3, AnsweringFrame
<1>4. ASSUME NEW c \in Conn, ConnStep(c)
      PROVE  Answering'
  <2>1. ASSUME NEW h \in {"attaching", "running", "exiting", "detaching", "gone"},
               handler' = [handler EXCEPT ![c] = h]
        PROVE  \A d \in Conn : handler'[d] \in {"resolving", "answering"} => handler'[d] = handler[d]
    BY <2>1 DEF TypeOK
  <2>2. CASE Attach(c) \/ Attached(c) \/ SeeShutdown(c) \/ SocketEnds(c) \/ AbortWriter(c)
    BY <1>3, <2>1, <2>2 DEF Attach, Attached, SeeShutdown, SocketEnds, AbortWriter, callVars, wireVars
  <2>3. CASE MarkReady(c) \/ SendTo(c) \/ WriteFails(c) \/ CloseIfCurrent(c) \/ RevokeClose(c)
    BY <1>3, <2>3 DEF MarkReady, SendTo, WriteFails, CloseIfCurrent, RevokeClose, lifeVars, callVars,
                     wireVars
  <2>4. CASE Write(c)
    <3>1. delivered \subseteq delivered'
      BY <2>4 DEF Write
    <3> QED BY <1>1, <1>2, <2>4, <3>1, AnsweringFrame DEF Write, lifeVars, callVars
  <2>5. CASE RevokeFail(c)
    BY <1>1, <2>5, TakeKeepsAnswering DEF RevokeFail, PendingOf, wireVars
  <2>6. CASE Detach(c)
    <3>1. \A d \in Conn : handler'[d] \in {"resolving", "answering"} => handler'[d] = handler[d]
      BY <2>1, <2>6 DEF Detach
    <3> QED BY <1>1, <2>6, <3>1, TakeKeepsAnswering DEF Detach, PendingOf, wireVars
  <2>7. CASE ResolveTake(c)
    <3>1. CASE handling[c].call \notin pending
      <4>1. /\ handler' = [handler EXCEPT ![c] = "running"]
            /\ handling' = [handling EXCEPT ![c] = NoEnvelope]
            /\ UNCHANGED <<owed, delivered>>
        BY <2>7, <3>1 DEF ResolveTake, wireVars
      <4> QED BY <1>1, <1>2, <4>1, AnsweringFrame DEF TypeOK
    <3>2. CASE handling[c].call \in pending
      <4>1. /\ handler' = [handler EXCEPT ![c] = "answering"]
            /\ owed' = [k \in Call |-> IF k = handling[c].call THEN "handler" ELSE owed[k]]
            /\ UNCHANGED <<handling, delivered>>
            /\ handler[c] = "resolving"
        BY <2>7, <3>2 DEF ResolveTake, TakePending, wireVars
      <4>2. owed[handling[c].call] = "nobody" /\ handling[c].call \in Call
        BY <3>2 DEF CallInv, Registered, TypeOK
      <4>3. \A d \in Conn \ {c} : handler[d] = "answering" =>
              handling[d].call # handling[c].call /\ owed'[handling[d].call] = "handler"
        BY <1>1, <4>1, <4>2 DEF Answering, TypeOK
      <4> QED BY <1>1, <4>1, <4>2, <4>3 DEF Answering, TypeOK
    <3> QED BY <3>1, <3>2
  <2>8. CASE ResolveAnswer(c)
    <3>1. /\ handler[c] = "answering"
          /\ handler' = [handler EXCEPT ![c] = "running"] \/ handler' = [handler EXCEPT ![c] = "exiting"]
          /\ owed' = [owed EXCEPT ![handling[c].call] = "nobody"]
          /\ handling' = [handling EXCEPT ![c] = NoEnvelope]
          /\ UNCHANGED delivered
      BY <2>8 DEF ResolveAnswer, wireVars
    <3>2. \A d \in Conn \ {c} : handler[d] = "answering" => owed'[handling[d].call] = "handler"
      BY <1>1, <3>1 DEF Answering, TypeOK
    <3>3. handler'[c] \notin {"resolving", "answering"}
      BY <3>1 DEF TypeOK
    <3>4. \A d \in Conn \ {c} : handler'[d] = handler[d] /\ handling'[d] = handling[d]
      BY <3>1 DEF TypeOK
    <3> QED BY <1>1, <3>1, <3>2, <3>3, <3>4, AnsweringFrame
  <2> QED BY <1>4, <2>2, <2>3, <2>4, <2>5, <2>6, <2>7, <2>8 DEF ConnStep
<1>5. ASSUME NEW k \in Call, owed[k] # "handler", AnswerUnknown(k),
             UNCHANGED <<delivered, handling, handler>>
      PROVE  Answering'
  BY <1>1, <1>2, <1>5, AnsweringFrame DEF AnswerUnknown, TypeOK
<1>6. ASSUME NEW k \in Call, CallStep(k)
      PROVE  Answering'
  BY <1>3, <1>5, <1>6
     DEF CallStep, Clone, Register, Enqueue, Receive, Timeout, Drop, Abandon, Cancel, StopAnswer,
         lifeVars, wireVars
<1>7. ASSUME NEW c \in Conn, NEW k \in Call, BothStep(c, k)
      PROVE  Answering'
  <2>1. CASE ResultArrives(c, k)
    <3>1. PICK exact \in BOOLEAN :
             handling' = [handling EXCEPT ![c] = [call |-> k, exact |-> exact]]
      BY <2>1 DEF ResultArrives
    <3>2. /\ handler' = [handler EXCEPT ![c] = "resolving"]
          /\ k \in delivered
          /\ UNCHANGED <<owed, delivered>>
      BY <2>1 DEF ResultArrives, callVars, wireVars
    <3>3. /\ handler'[c] = "resolving" /\ handling'[c].call = k
          /\ \A d \in Conn \ {c} : handler'[d] = handler[d] /\ handling'[d] = handling[d]
      BY <3>1, <3>2 DEF TypeOK
    <3> QED BY <1>1, <3>2, <3>3 DEF Answering
  <2> QED
    BY <1>5, <1>7, <2>1 DEF BothStep, RevokeAnswer, DetachAnswer, OwedOn, lifeVars
<1>8. CASE Stop \/ UNCHANGED vars
  BY <1>3, <1>8 DEF Stop, vars, lifeVars, callVars, wireVars
<1>9. CASE StopDrain
  BY <1>1, <1>9, TakeKeepsAnswering DEF StopDrain, wireVars
<1> QED BY <1>4, <1>6, <1>7, <1>8, <1>9 DEF Next

\* Only an owed call gets an answer, a result only from its own connection.
LEMMA SlotStep ==
  ASSUME IInv, [Next]_vars, NEW k \in Call
  PROVE  \/ slot'[k] = slot[k]
         \/ owed[k] # "nobody" /\ slot'[k] = "unknown"
         \/ owed[k] # "nobody" /\ slot'[k] = bound[k] /\ k \in delivered
<1> USE DEF IInv, TypeOK
<1>1. ASSUME NEW j \in Call, owed[j] # "nobody", AnswerUnknown(j)
      PROVE  slot'[k] = slot[k] \/ (owed[k] # "nobody" /\ slot'[k] = "unknown")
  <2>1. slot' = [slot EXCEPT ![j] = "unknown"]
    BY <1>1 DEF AnswerUnknown
  <2>2. CASE k = j
    BY <1>1, <2>1, <2>2
  <2>3. CASE k # j
    BY <2>1, <2>3
  <2> QED BY <2>2, <2>3
<1>2. ASSUME NEW c \in Conn, ResolveAnswer(c)
      PROVE  \/ slot'[k] = slot[k]
             \/ owed[k] # "nobody" /\ slot'[k] = "unknown"
             \/ owed[k] # "nobody" /\ slot'[k] = bound[k] /\ k \in delivered
  <2>1. /\ owed[handling[c].call] = "handler" /\ handling[c].call \in delivered
    BY <1>2 DEF ResolveAnswer, AnswerInv, Answering
  <2>2. CASE EnvelopeValid(c, handling[c])
    <3>1. slot' = [slot EXCEPT ![handling[c].call] = c] /\ bound[handling[c].call] = c
      BY <1>2, <2>2 DEF ResolveAnswer, EnvelopeValid
    <3> QED BY <2>1, <3>1
  <2>3. CASE ~EnvelopeValid(c, handling[c])
    <3>1. slot' = [slot EXCEPT ![handling[c].call] = "unknown"]
      BY <1>2, <2>3 DEF ResolveAnswer
    <3> QED BY <2>1, <3>1
  <2> QED BY <2>2, <2>3
<1>3. ASSUME NEW c \in Conn, ConnStep(c), ~ResolveAnswer(c)
      PROVE  slot' = slot
  BY <1>3
     DEF ConnStep, Attach, Attached, MarkReady, SendTo, Write, WriteFails, ResolveTake,
         CloseIfCurrent, RevokeFail, RevokeClose, SeeShutdown, SocketEnds, AbortWriter, Detach,
         callVars
<1>4. ASSUME NEW j \in Call, CallStep(j), ~StopAnswer(j)
      PROVE  slot' = slot
  BY <1>4 DEF CallStep, Clone, Register, Enqueue, Receive, Timeout, Drop, Abandon, Cancel
<1>5. ASSUME NEW c \in Conn, NEW j \in Call, BothStep(c, j)
      PROVE  slot'[k] = slot[k] \/ (owed[k] # "nobody" /\ slot'[k] = "unknown")
  BY <1>1, <1>5 DEF BothStep, ResultArrives, RevokeAnswer, DetachAnswer, OwedOn, callVars
<1>6. CASE Stop \/ StopDrain \/ UNCHANGED vars
  BY <1>6 DEF Stop, StopDrain, vars, callVars
<1> QED BY <1>1, <1>2, <1>3, <1>4, <1>5, <1>6 DEF Next, StopAnswer

\* A call returns a result only after its oneshot received one.
LEMMA OutcomeStep ==
  ASSUME IInv, [Next]_vars, NEW k \in Call, outcome'[k] = "result"
  PROVE  outcome[k] = "result" \/ slot[k] \in Conn
<1> USE DEF IInv, TypeOK
<1>1. CASE outcome' = outcome
  BY <1>1
<1>2. ASSUME NEW j \in Call, NEW what \in Outcomes, outcome' = [outcome EXCEPT ![j] = what],
             what = "result" => slot[j] \in Conn
      PROVE  outcome[k] = "result" \/ slot[k] \in Conn
  BY <1>2
<1>3. ASSUME NEW j \in Call, CallStep(j)
      PROVE  outcome[k] = "result" \/ slot[k] \in Conn
  <2>1. CASE Clone(j)
    BY <1>1, <1>2, <2>1 DEF Clone, Return, Outcomes, Refusals
  <2>2. CASE Register(j)
    BY <1>1, <1>2, <2>2 DEF Register, Return, Outcomes, Refusals
  <2>3. CASE Enqueue(j)
    BY <1>1, <1>2, <2>3 DEF Enqueue, Return, Outcomes, Refusals
  <2>4. CASE Receive(j)
    BY <1>2, <2>4 DEF Receive, Return, Outcomes
  <2>5. ASSUME NEW what \in {"unknown", "dropped"}, Abandon(j, what)
        PROVE  outcome[k] = "result" \/ slot[k] \in Conn
    BY <1>2, <2>5 DEF Abandon, Return, Outcomes
  <2>6. CASE Cancel(j) \/ StopAnswer(j)
    BY <1>1, <2>6 DEF Cancel, StopAnswer
  <2> QED BY <1>3, <2>1, <2>2, <2>3, <2>4, <2>5, <2>6 DEF CallStep, Timeout, Drop
<1>4. ASSUME NEW c \in Conn, ConnStep(c)
      PROVE  outcome' = outcome
  BY <1>4
     DEF ConnStep, Attach, Attached, MarkReady, SendTo, Write, WriteFails, ResolveTake,
         ResolveAnswer, CloseIfCurrent, RevokeFail, RevokeClose, SeeShutdown, SocketEnds,
         AbortWriter, Detach, callVars
<1>5. ASSUME NEW c \in Conn, NEW j \in Call, BothStep(c, j)
      PROVE  outcome' = outcome
  BY <1>5 DEF BothStep, ResultArrives, RevokeAnswer, DetachAnswer, callVars
<1>6. CASE Stop \/ StopDrain \/ UNCHANGED vars
  BY <1>1, <1>6 DEF Stop, StopDrain, vars, callVars
<1> QED BY <1>1, <1>3, <1>4, <1>5, <1>6 DEF Next

LEMMA DeliveredStep ==
  ASSUME [Next]_vars
  PROVE  delivered \subseteq delivered'
<1>1. ASSUME NEW c \in Conn, ConnStep(c)
      PROVE  delivered \subseteq delivered'
  <2>1. CASE Write(c)
    BY <2>1 DEF Write
  <2> QED
    BY <1>1, <2>1
       DEF ConnStep, Attach, Attached, MarkReady, SendTo, WriteFails, ResolveTake,
           ResolveAnswer, CloseIfCurrent, RevokeFail, RevokeClose, SeeShutdown, SocketEnds,
           AbortWriter, Detach, wireVars
<1>2. ASSUME NEW k \in Call, CallStep(k)
      PROVE  delivered' = delivered
  BY <1>2 DEF CallStep, Clone, Register, Enqueue, Receive, Timeout, Drop, Abandon, Cancel,
              StopAnswer, wireVars
<1>3. ASSUME NEW c \in Conn, NEW k \in Call, BothStep(c, k)
      PROVE  delivered' = delivered
  BY <1>3 DEF BothStep, ResultArrives, RevokeAnswer, DetachAnswer, wireVars
<1>4. CASE Stop \/ StopDrain \/ UNCHANGED vars
  BY <1>4 DEF Stop, StopDrain, vars, wireVars
<1> QED BY <1>1, <1>2, <1>3, <1>4 DEF Next

LEMMA AnswerInvStep ==
  ASSUME IInv, [Next]_vars
  PROVE  AnswerInv'
<1>1. ResultFromItsConnection'
  <2> SUFFICES ASSUME NEW k \in Call, slot'[k] \in Conn
               PROVE  slot'[k] = bound'[k] /\ k \in delivered'
    BY DEF ResultFromItsConnection
  <2>1. slot'[k] # "unknown"
    BY ConnAssumption
  <2>2. slot'[k] = bound[k] /\ k \in delivered
    BY <2>1, SlotStep DEF IInv, AnswerInv, ResultFromItsConnection
  <2>3. bound'[k] = bound[k]
    BY <2>2, StepKeeps DEF Kept
  <2> QED BY <2>2, <2>3, DeliveredStep
<1>2. Answered'
  <2> SUFFICES ASSUME NEW k \in Call, outcome'[k] = "result"
               PROVE  slot'[k] \in Conn
    BY DEF Answered
  <2>1. slot[k] \in Conn
    BY OutcomeStep DEF IInv, AnswerInv, Answered
  <2>2. owed[k] = "nobody"
    BY <2>1, ConnAssumption DEF IInv, CallInv, Owed
  <2> QED BY <2>1, <2>2, SlotStep
<1> QED BY <1>1, <1>2, AnsweringStep DEF AnswerInv

-----------------------------------------------------------------------------
(* The theorems.                                                           *)

\* The inductive invariant holds in every reachable state.
THEOREM Invariance == Spec => []IInv
<1>1. IInv /\ [Next]_vars => IInv'
  BY StepType, BoundFromInv, CallInvStep, ConnInvStep, WireInvStep, AnswerInvStep DEF IInv
<1> QED BY <1>1, InitInv, PTL DEF Spec

\* A waiting caller is never forgotten (call_scoped_for against detach,
\* resolve, close and fail_enqueued_for).
THEOREM CallersAreNotLost == Spec => []NoLostCaller
<1>1. IInv => NoLostCaller
  BY DEF IInv, CallInv, ConnInv, Waiting, Served, NoLostCaller
<1> QED BY <1>1, Invariance, PTL

\* A call the hub refused never reached the peer and never will.
THEOREM RefusalsAreTrue == Spec => []RefusedNeverDelivered
<1>1. IInv => RefusedNeverDelivered
  BY DEF IInv, WireInv, Carried, Delivered, WasSent, RefusedNeverDelivered, InQueue, Message
<1> QED BY <1>1, Invariance, PTL

\* At most one cancel per call, none for an answered one.
THEOREM OneCancelPerCall == Spec => []CancelAtMostOnce
<1>1. IInv => CancelAtMostOnce
  <2> SUFFICES ASSUME IInv, NEW k \in Call
               PROVE  cancels[k] <= 1 /\ (cancels[k] = 1 => slot[k] \notin Conn)
    BY DEF CancelAtMostOnce
  <2>1. cancels[k] <= 1
    BY DEF IInv, CallInv, Cancels
  <2>2. slot[k] \in Conn => cancels[k] = 0
    BY DEF IInv, CallInv, Cancels
  <2> QED BY <2>1, <2>2
<1> QED BY <1>1, Invariance, PTL

\* Only the connection that carried a call completes it.
THEOREM ResultsComeHome == Spec => []ResultFromItsConnection
  BY Invariance, PTL DEF IInv, AnswerInv

\* Commands and cancels never fall through to another connection.
THEOREM CallsStayBound == Spec => []StaysOnItsConnection
  BY Invariance, PTL DEF IInv, WireInv

\* A handler still receiving on a connection the hub gave up is signalled.
THEOREM NoZombieTransport == Spec => []NoZombie
<1>1. IInv => NoZombie
  BY DEF IInv, ConnInv, Signalled, NoZombie
<1> QED BY <1>1, Invariance, PTL

-----------------------------------------------------------------------------
(* The hub implements its contract.                                        *)

\* The status of a call, case by case.
LEMMA StatusCases ==
  ASSUME TypeOK, NEW k \in Call
  PROVE  /\ outcome[k] \in Refusals => CallStatus(k) = "refused"
         /\ outcome[k] = "result" => CallStatus(k) = "answered"
         /\ outcome[k] \in {"unknown", "dropped"} => CallStatus(k) = "unknown"
         /\ outcome[k] = "none" /\ pc[k] = "waiting" => CallStatus(k) = "sent"
         /\ outcome[k] = "none" /\ pc[k] # "waiting" => CallStatus(k) = "idle"
  BY DEF CallStatus, Refusals

LEMMA StatusCasesNext ==
  ASSUME TypeOK', NEW k \in Call
  PROVE  /\ outcome'[k] \in Refusals => CallStatus(k)' = "refused"
         /\ outcome'[k] = "result" => CallStatus(k)' = "answered"
         /\ outcome'[k] \in {"unknown", "dropped"} => CallStatus(k)' = "unknown"
         /\ outcome'[k] = "none" /\ pc'[k] = "waiting" => CallStatus(k)' = "sent"
         /\ outcome'[k] = "none" /\ pc'[k] # "waiting" => CallStatus(k)' = "idle"
  BY DEF CallStatus, Refusals

\* A step of one call moves the status of that call alone.
LEMMA MoveOne ==
  ASSUME NEW j \in Call, NEW from, NEW to,
         CallStatus(j) = from, CallStatus(j)' = to,
         \A k \in Call \ {j} : pc'[k] = pc[k] /\ outcome'[k] = outcome[k]
  PROVE  Contract!Move(j, from, to)
<1>1. \A k \in Call \ {j} : CallStatus(k)' = CallStatus(k)
  BY DEF CallStatus
<1> QED BY <1>1 DEF Contract!Move

LEMMA SameStatus ==
  ASSUME UNCHANGED <<pc, outcome, delivered>>
  PROVE  UNCHANGED Contract!vars
  BY DEF CallStatus, Contract!vars

LEMMA SameStatusOf ==
  ASSUME UNCHANGED delivered, NEW j \in Call, CallStatus(j)' = CallStatus(j),
         \A k \in Call \ {j} : pc'[k] = pc[k] /\ outcome'[k] = outcome[k]
  PROVE  UNCHANGED Contract!vars
<1>1. \A k \in Call : CallStatus(k)' = CallStatus(k)
  BY DEF CallStatus
<1> QED BY <1>1 DEF Contract!vars

LEMMA CallStepRefines ==
  ASSUME IInv, [Next]_vars, NEW j \in Call, CallStep(j)
  PROVE  [Contract!Next]_(Contract!vars)
<1> USE DEF IInv
<1>1. /\ TypeOK' /\ IInv' 
  BY StepType, BoundFromInv, CallInvStep, ConnInvStep, WireInvStep, AnswerInvStep
<1>2. /\ pc[j] \in {"idle", "bound", "registered", "waiting"} <=> outcome[j] = "none"
      /\ slot[j] \in Conn => j \in delivered
  BY DEF CallInv, Bound, AnswerInv, ResultFromItsConnection
<1>3. ASSUME pc[j] \in {"idle", "bound", "registered"}, UNCHANGED delivered,
             NEW what \in Refusals, Return(j, what)
      PROVE  Contract!Next
  <2>1. /\ pc'[j] = "done" /\ outcome'[j] = what
        /\ \A k \in Call \ {j} : pc'[k] = pc[k] /\ outcome'[k] = outcome[k]
    BY <1>3 DEF Return, TypeOK
  <2>2. CallStatus(j) = "idle" /\ CallStatus(j)' = "refused"
    BY <1>1, <1>2, <1>3, <2>1, StatusCases, StatusCasesNext
  <2> QED BY <1>3, <2>1, <2>2, MoveOne DEF Contract!Next, Contract!Refuse
<1>4. ASSUME pc[j] \in {"idle", "bound"}, UNCHANGED <<delivered, outcome>>,
             NEW p \in {"bound", "registered"}, pc' = [pc EXCEPT ![j] = p]
      PROVE  UNCHANGED Contract!vars
  <2>1. /\ pc'[j] = p /\ outcome'[j] = "none"
        /\ \A k \in Call \ {j} : pc'[k] = pc[k] /\ outcome'[k] = outcome[k]
    BY <1>2, <1>4 DEF TypeOK
  <2>2. CallStatus(j) = "idle" /\ CallStatus(j)' = "idle"
    BY <1>1, <1>2, <1>4, <2>1, StatusCases, StatusCasesNext
  <2> QED BY <1>4, <2>1, <2>2, SameStatusOf
<1>5. ASSUME pc[j] = "waiting", UNCHANGED delivered, NEW what \in {"unknown", "dropped"},
             outcome' = [outcome EXCEPT ![j] = what],
             NEW p \in {"canceling", "done"}, pc' = [pc EXCEPT ![j] = p]
      PROVE  Contract!Next
  <2>1. /\ outcome'[j] = what
        /\ \A k \in Call \ {j} : pc'[k] = pc[k] /\ outcome'[k] = outcome[k]
    BY <1>5 DEF TypeOK
  <2>2. CallStatus(j) = "sent" /\ CallStatus(j)' = "unknown"
    BY <1>1, <1>2, <1>5, <2>1, StatusCases, StatusCasesNext
  <2> QED BY <1>5, <2>1, <2>2, MoveOne DEF Contract!Next, Contract!GiveUp
<1>6. CASE Clone(j)
  BY <1>3, <1>4, <1>6 DEF Clone, wireVars, Refusals
<1>7. CASE Register(j)
  BY <1>3, <1>4, <1>7 DEF Register, wireVars, Refusals
<1>8. CASE Enqueue(j)
  <2>1. CASE CanSend(bound[j])
    <3>1. /\ pc'[j] = "waiting" /\ outcome' = outcome /\ UNCHANGED delivered
          /\ \A k \in Call \ {j} : pc'[k] = pc[k] /\ outcome'[k] = outcome[k]
      BY <1>8, <2>1 DEF Enqueue, wireVars, TypeOK
    <3>2. CallStatus(j) = "idle" /\ CallStatus(j)' = "sent"
      <4>1. pc[j] = "registered"
        BY <1>8 DEF Enqueue
      <4> QED BY <1>1, <1>2, <3>1, <4>1, StatusCases, StatusCasesNext
    <3> QED BY <3>1, <3>2, MoveOne DEF Contract!Next, Contract!Send
  <2>2. CASE ~CanSend(bound[j])
    BY <1>3, <1>8, <2>2 DEF Enqueue, wireVars, Refusals
  <2> QED BY <2>1, <2>2
<1>9. CASE Receive(j)
  <2>1. pc[j] = "waiting" /\ UNCHANGED delivered
    BY <1>9 DEF Receive, wireVars
  <2>2. CASE slot[j] = "unknown"
    BY <1>5, <1>9, <2>1, <2>2 DEF Receive, Return
  <2>3. CASE slot[j] # "unknown"
    <3>1. Return(j, "result") /\ slot[j] \in Conn
      BY <1>9, <2>3 DEF Receive, TypeOK
    <3>2. /\ outcome'[j] = "result"
          /\ \A k \in Call \ {j} : pc'[k] = pc[k] /\ outcome'[k] = outcome[k]
      BY <3>1 DEF Return, TypeOK
    <3>3. CallStatus(j) = "sent" /\ CallStatus(j)' = "answered"
      BY <1>1, <1>2, <2>1, <3>2, StatusCases, StatusCasesNext
    <3> QED BY <1>2, <2>1, <3>1, <3>2, <3>3, MoveOne DEF Contract!Next, Contract!Answer
  <2> QED BY <2>2, <2>3
<1>10. ASSUME NEW what \in {"unknown", "dropped"}, Abandon(j, what)
       PROVE  Contract!Next
  BY <1>5, <1>10 DEF Abandon, Return, wireVars
<1>11. CASE Cancel(j)
  <2>1. /\ pc[j] = "canceling" /\ pc'[j] = "done" /\ outcome' = outcome /\ UNCHANGED delivered
        /\ \A k \in Call \ {j} : pc'[k] = pc[k] /\ outcome'[k] = outcome[k]
    BY <1>11 DEF Cancel, TypeOK
  <2>2. CallStatus(j)' = CallStatus(j)
    BY <1>2, <2>1 DEF CallStatus
  <2> QED BY <2>1, <2>2, SameStatusOf
<1>12. CASE StopAnswer(j)
  BY <1>12, SameStatus DEF StopAnswer, wireVars
<1> QED
  BY <1>6, <1>7, <1>8, <1>9, <1>10, <1>11, <1>12 DEF CallStep, Timeout, Drop

\* The peer executes a command: it was sent, and its caller has no result yet.
LEMMA WriteRefines ==
  ASSUME IInv, NEW c \in Conn, Write(c)
  PROVE  [Contract!Next]_(Contract!vars)
<1> USE DEF IInv
<1>1. UNCHANGED <<pc, outcome>>
  BY DEF Write, callVars
<1>2. CASE delivered' = delivered
  BY <1>1, <1>2, SameStatus
<1>3. CASE delivered' # delivered
  <2>1. /\ queue[c] # <<>> /\ Head(queue[c]).kind = "command"
        /\ delivered' = delivered \cup {Head(queue[c]).call}
    BY <1>3 DEF Write
  <2> DEFINE k == Head(queue[c]).call
  <2>2. queue[c] \in Seq(Messages) /\ Head(queue[c]) = queue[c][1] /\ 1 \in 1..Len(queue[c])
    BY <2>1 DEF TypeOK
  <2>3. k \in Call /\ k \notin delivered
    BY <1>3, <2>1, <2>2 DEF Messages
  <2>4. WasSent(k)
    BY <2>1, <2>2 DEF WireInv, Carried
  <2>5. outcome[k] # "result"
    BY <2>3 DEF AnswerInv, Answered, ResultFromItsConnection
  <2>6. pc[k] \in {"idle", "bound", "registered", "waiting"} <=> outcome[k] = "none"
    BY <2>3 DEF CallInv, Bound
  <2>7. CallStatus(k) \in {"sent", "unknown"}
    <3>1. outcome[k] \in {"unknown", "dropped"} \/ (outcome[k] = "none" /\ pc[k] = "waiting")
      BY <2>3, <2>4, <2>5, <2>6 DEF WasSent, TypeOK, Outcomes
    <3> QED BY <2>3, <3>1, StatusCases
  <2>8. [j \in Call |-> CallStatus(j)]' = [j \in Call |-> CallStatus(j)]
    BY <1>1 DEF CallStatus
  <2>9. \E j \in Call : Contract!Execute(j)
    <3> HIDE DEF k
    <3>1. delivered' = delivered \cup {k}
      BY <2>1 DEF k
    <3> QED BY <2>3, <2>7, <2>8, <3>1 DEF Contract!Execute
  <2> QED BY <2>9 DEF Contract!Next
<1> QED BY <1>2, <1>3

LEMMA StepRefines ==
  ASSUME IInv, [Next]_vars
  PROVE  [Contract!Next]_(Contract!vars)
<1>1. ASSUME NEW c \in Conn, ConnStep(c), ~Write(c)
      PROVE  UNCHANGED <<pc, outcome, delivered>>
  BY <1>1
     DEF ConnStep, Attach, Attached, MarkReady, SendTo, WriteFails, ResolveTake,
         ResolveAnswer, CloseIfCurrent, RevokeFail, RevokeClose, SeeShutdown, SocketEnds,
         AbortWriter, Detach, callVars, wireVars
<1>2. ASSUME NEW c \in Conn, NEW k \in Call, BothStep(c, k)
      PROVE  UNCHANGED <<pc, outcome, delivered>>
  BY <1>2 DEF BothStep, ResultArrives, RevokeAnswer, DetachAnswer, callVars, wireVars
<1>3. CASE Stop \/ StopDrain \/ UNCHANGED vars
  <2>1. UNCHANGED <<pc, outcome, delivered>>
    BY <1>3 DEF Stop, StopDrain, vars, callVars, wireVars
  <2> QED BY <2>1, SameStatus
<1> QED BY <1>1, <1>2, <1>3, SameStatus, WriteRefines, CallStepRefines DEF Next

\* The hub of any size implements its contract: a refused call never executes,
\* any other executes at most once, and is answered only if it executed.
THEOREM Refinement == Spec => ImplementsContract
<1>1. Init => Contract!Init
  BY DEF Init, Contract!Init, CallStatus, Refusals
<1> QED BY <1>1, StepRefines, Invariance, PTL DEF Spec, ImplementsContract, Contract!Spec

=============================================================================
