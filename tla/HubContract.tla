----------------------------- MODULE HubContract -----------------------------
(***************************************************************************)
(* What the connector hub promises its callers (the error codes of         *)
(* call_scoped_for in src/src/hub.rs), without connections, queues,        *)
(* threads or timers: a call is refused, and then it never executes, or it *)
(* is sent, and then it executes at most once; its caller learns a result  *)
(* only of a call that executed, and is told "unknown" otherwise - in      *)
(* which case the command may still execute.                               *)
(***************************************************************************)
CONSTANT Call

VARIABLES
  status,   \* what became of each call
  executed  \* the calls the peer executed

vars == <<status, executed>>

Statuses == {"idle", "refused", "sent", "answered", "unknown"}

TypeOK == status \in [Call -> Statuses] /\ executed \subseteq Call

Init == status = [k \in Call |-> "idle"] /\ executed = {}

Move(k, from, to) ==
  /\ status[k] = from
  /\ status' = [status EXCEPT ![k] = to]

\* The hub has no ready connection for the call, or no slot in its queue.
Refuse(k) == Move(k, "idle", "refused") /\ UNCHANGED executed

\* The command is in the queue: from here on it may execute.
Send(k) == Move(k, "idle", "sent") /\ UNCHANGED executed

\* The peer executes it, once, perhaps after its caller gave up.
Execute(k) ==
  /\ status[k] \in {"sent", "unknown"}
  /\ k \notin executed
  /\ executed' = executed \cup {k}
  /\ UNCHANGED status

Answer(k) == k \in executed /\ Move(k, "sent", "answered") /\ UNCHANGED executed

\* Deadline, dropped caller, lost or revoked connection, mismatched result.
GiveUp(k) == Move(k, "sent", "unknown") /\ UNCHANGED executed

Next == \E k \in Call : Refuse(k) \/ Send(k) \/ Execute(k) \/ Answer(k) \/ GiveUp(k)

Spec == Init /\ [][Next]_vars
=============================================================================
