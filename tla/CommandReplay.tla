---------------------------- MODULE CommandReplay ----------------------------
(***************************************************************************)
(* One execution per call id: the command endpoint of src/src/server.rs,   *)
(* its replay registry, the cancel endpoint, and the settlement of calls   *)
(* whose caller canceled or left.                                          *)
(*                                                                         *)
(* A request may carry a call id.  Its handler registers the id, queues    *)
(* for the server-wide action lock, reads the published authority, binds   *)
(* itself to the authority it may disturb, calls the connector, publishes  *)
(* what came back, and records the answer under the id.  Meanwhile another *)
(* request may cancel the id, and the HTTP server may drop the handler at  *)
(* any await.  What such a call leaves behind is unknown: before anybody   *)
(* is told so, the authority it may have disturbed is withdrawn, and any   *)
(* of several tasks may be the one that does it.                           *)
(*                                                                         *)
(* Each action is one critical section of one task.  The connectors keep   *)
(* one session each; their replacement is the matter of ConnectorHub.      *)
(***************************************************************************)
EXTENDS Naturals, Sequences

CONSTANTS
  Request,    \* the HTTP requests for an action, each handled once
  NoRequest,  \* nobody holds the action lock
  Canceller,  \* the HTTP requests for a cancellation
  Id,         \* the call ids in use
  NoId,       \* the id of a request that carries none
  Traffic,    \* the requests callers make: [id, method] records
  CacheSize,  \* outcomes remembered (256 in the code)
  MayExpire   \* whether remembered outcomes may grow too old (10 minutes)

\* One method per way the server treats a method.  The fingerprint of a
\* command is its method and parameters; here the method stands for both.
Methods == {"page.click", "page.observe", "computer.click", "computer.observe",
            "tabs.list"}

\* Requests that do or publish something only one action can be blamed for.
BrowserMethods  == {"page.click", "page.observe"}
ComputerMethods == {"computer.click", "computer.observe"}

ASSUME RequestAssumption ==
  /\ Request \cap (Id \cup {NoId, NoRequest, "none", "initial"}) = {}
  /\ NoId \notin Id
ASSUME TrafficAssumption == Traffic \subseteq [id : Id \cup {NoId}, method : Methods]
ASSUME CacheAssumption == CacheSize \in Nat \ {0} /\ MayExpire \in BOOLEAN

VARIABLES
  \* handlers of requests: execute_command and perform_action
  lock,       \* the holder of the action lock
  request,    \* what the request asks for
  pc,         \* where its handler is
  bound,      \* RequestCommandOwners: bound to the authority of its connector
  signal,     \* the cancellation oneshot of the handler was fired
  outcome,    \* how its action future ended
  answer,     \* what its caller was told
  \* CommandReplay and UnregisteredCommandInterruptions
  registry,   \* the entry of a call id, or of a request that carries none
  completed,  \* remembered outcomes, least recently used first
  \* cancel_command
  cpc, canceled,
  \* settle_interrupted_command and its unregistered twin, run by handlers,
  \* cancellers and spawned tasks
  stage, target,
  \* the authority an interrupted action may have disturbed
  latched,     \* browser_freshness_recovery
  observation, \* who published the browser observation, or "none"
  revoked,     \* computer_authority_requires_recovery
  \* history
  dispatches,  \* commands relayed under an id since its outcome was forgotten
  forgotten,   \* ids whose last outcome was evicted or has expired
  reobserved,  \* requests after whose action the page was observed again
  lifted       \* observations that lifted the latch of their own cancellation

handlerVars   == <<lock, request, pc, bound, signal, outcome, answer>>
replayVars    == <<registry, completed>>
cancelVars    == <<cpc, canceled>>
settleVars    == <<stage, target>>
authorityVars == <<latched, observation, revoked>>
historyVars   == <<dispatches, forgotten, reobserved, lifted>>
vars == <<handlerVars, replayVars, cancelVars, settleVars, authorityVars, historyVars>>

Key == Id \cup Request

\* The tasks that may settle an interruption.
Settler == {"handler"} \X Request \cup {"canceller"} \X Canceller
             \cup {"task"} \X Request

NoTraffic == [id |-> NoId, method |-> "none"]
NoEntry   == [of |-> NoRequest, state |-> "absent", byCaller |-> FALSE]

\* InFlightEntry: the cancellation sender is there exactly while the state is
\* "active"; "claimed" is interrupted with its settlement claimed.
Entries == [of : Request \cup {NoRequest},
            state : {"absent", "active", "interrupted", "claimed"},
            byCaller : BOOLEAN]

\* "canceled" and "interrupted" are the two synthetic outcome-unknown answers,
\* "unknown" the one the connector itself reports.
Synthetic == {"canceled", "interrupted"}
Unknowns  == Synthetic \cup {"unknown"}
Responses == {"ok", "failed"} \cup Unknowns

-----------------------------------------------------------------------------
(* The registry.                                                           *)

IdOf(r)   == request[r].id
KeyOf(r)  == IF IdOf(r) = NoId THEN r ELSE IdOf(r)
Method(r) == request[r].method
Browser(r)  == Method(r) \in BrowserMethods
Computer(r) == Method(r) \in ComputerMethods

Present(k)     == registry[k].state # "absent"
Interrupted(k) == registry[k].state \in {"interrupted", "claimed"}

\* The registry with entry k in state s, and blamed on its caller or not.
Become(k, s, blamed) ==
  [registry EXCEPT ![k] = [of |-> registry[k].of, state |-> s, byCaller |-> blamed]]

IdsIn(s)      == {s[n].id : n \in DOMAIN s}
Remembered(i) == i \in IdsIn(completed)
PlaceOf(i)    == CHOOSE n \in DOMAIN completed : completed[n].id = i
OutcomeOf(i)  == completed[PlaceOf(i)]
Forget(i)     == SubSeq(completed, 1, PlaceOf(i) - 1)
                   \o SubSeq(completed, PlaceOf(i) + 1, Len(completed))

\* Mutant: one outcome too many.
MakeRoomLate(s) == IF Len(s) <= CacheSize THEN s ELSE SubSeq(s, Len(s) - CacheSize + 2, Len(s))

\* Make room for one more outcome: the least recently used ones go.
MakeRoom(s) == IF Len(s) < CacheSize THEN s ELSE SubSeq(s, Len(s) - CacheSize + 2, Len(s))

\* Mutant: a full memory keeps what it has and drops the new outcome.
StoreIfRoom(k, response) ==
  /\ registry' = [registry EXCEPT ![k] = NoEntry]
  /\ completed' = IF Len(completed) = CacheSize THEN completed
       ELSE Append(completed, [id |-> k, method |-> Method(registry[k].of),
                               response |-> response, of |-> registry[k].of])
  /\ UNCHANGED forgotten

\* store_completed: entry k leaves the registry and its outcome is remembered.
Store(k, response) ==
  LET stored == [id |-> k, method |-> Method(registry[k].of),
                 response |-> response, of |-> registry[k].of]
      room   == MakeRoom(completed)
  IN  /\ registry' = [registry EXCEPT ![k] = NoEntry]
      /\ completed' = Append(room, stored)
      /\ forgotten' = forgotten \cup (IdsIn(completed) \ IdsIn(room))

SyntheticFor(k) == IF registry[k].byCaller THEN "canceled" ELSE "interrupted"

\* complete_interrupted: nothing to do unless k is still registered and
\* interrupted.
CompleteInterrupted(k) ==
  IF Interrupted(k) THEN Store(k, SyntheticFor(k))
  ELSE UNCHANGED <<replayVars, forgotten>>

\* has_other_computer_owner: entries of other calls bound to the computer.
OtherComputerOwners(r, keys) ==
  {k \in keys \ {KeyOf(r)} : /\ Present(k)
                             /\ Computer(registry[k].of)
                             /\ bound[registry[k].of]}

-----------------------------------------------------------------------------
Init ==
  /\ lock = NoRequest
  /\ request = [r \in Request |-> NoTraffic]
  /\ pc = [r \in Request |-> "idle"]
  /\ bound = [r \in Request |-> FALSE]
  /\ signal = [r \in Request |-> FALSE]
  /\ outcome = [r \in Request |-> "none"]
  /\ answer = [r \in Request |-> "none"]
  /\ registry = [k \in Key |-> NoEntry]
  /\ completed = <<>>
  /\ cpc = [c \in Canceller |-> "idle"]
  /\ canceled = [c \in Canceller |-> NoRequest]
  /\ stage = [p \in Settler |-> "off"]
  /\ target = [p \in Settler |-> NoId]
  /\ latched = FALSE
  /\ observation = "initial"
  /\ revoked = FALSE
  /\ dispatches = [i \in Id |-> 0]
  /\ forgotten = {}
  /\ reobserved = {}
  /\ lifted = {}

Goto(r, where) == pc' = [pc EXCEPT ![r] = where]

-----------------------------------------------------------------------------
(* execute_command, up to the action: admission under the registry lock.   *)

Ask(r, q) ==
  /\ pc[r] = "idle"
  /\ request' = [request EXCEPT ![r] = q]

AnswerAtOnce(r, what) ==
  /\ Goto(r, "done")
  /\ answer' = [answer EXCEPT ![r] = what]
  /\ UNCHANGED <<lock, bound, signal, outcome, registry, cancelVars, settleVars,
                 authorityVars, historyVars>>

\* A task still refers to an earlier admission of the id.
InUse(i) ==
  \/ \E r \in Request : pc[r] \notin {"idle", "done", "gone"} /\ IdOf(r) = i
  \/ \E p \in Settler : target[p] = i
  \/ \E c \in Canceller : /\ cpc[c] \in {"latching", "signalling", "completing"}
                          /\ IdOf(canceled[c]) = i

\* ReplayAdmission::New, or a request without a call id.  Bound of the model: an
\* id whose outcome was forgotten comes back only when no task of its earlier
\* admission is left (256 outcomes, or 10 minutes, lie between the two).
Admit(r, q) ==
  /\ Ask(r, q)
  /\ IF q.id = NoId
       THEN UNCHANGED <<registry, dispatches, forgotten>>
       ELSE /\ ~Remembered(q.id) /\ ~Present(q.id)
            /\ q.id \in forgotten => ~InUse(q.id)
            /\ registry' = [registry EXCEPT ![q.id] =
                              [of |-> r, state |-> "active", byCaller |-> FALSE]]
            /\ dispatches' = IF q.id \in forgotten
                 THEN [dispatches EXCEPT ![q.id] = 0] ELSE dispatches
            /\ forgotten' = forgotten \ {q.id}
  /\ Goto(r, "queued")
  /\ UNCHANGED <<lock, bound, signal, outcome, answer, completed, cancelVars,
                 settleVars, authorityVars, reobserved, lifted>>

\* ReplayAdmission::Replay: the remembered outcome, now most recently used.
Replay(r, q) ==
  /\ Ask(r, q)
  /\ Remembered(q.id) /\ OutcomeOf(q.id).method = q.method
  /\ completed' = Append(Forget(q.id), OutcomeOf(q.id))
  /\ AnswerAtOnce(r, OutcomeOf(q.id).response)

\* ReplayAdmission::InFlight and ::Reused.
RefuseDuplicate(r, q) ==
  /\ Ask(r, q)
  /\ q.id # NoId /\ Present(q.id) /\ Method(registry[q.id].of) = q.method
  /\ UNCHANGED completed
  /\ AnswerAtOnce(r, "in_progress")

RefuseReuse(r, q) ==
  /\ Ask(r, q)
  /\ \/ Remembered(q.id) /\ OutcomeOf(q.id).method # q.method
     \/ q.id # NoId /\ ~Remembered(q.id) /\ Present(q.id) /\ Method(registry[q.id].of) # q.method
  /\ UNCHANGED completed
  /\ AnswerAtOnce(r, "reused")

-----------------------------------------------------------------------------
(* perform_action and perform_computer_action, under the action lock.      *)

\* The action future ends: its lock guard is dropped with it.
Finish(r, how) ==
  /\ lock' = IF lock = r THEN NoRequest ELSE lock
  /\ outcome' = [outcome EXCEPT ![r] = how]
  /\ Goto(r, "acted")

\* The action knows what it will return: it logs that, the lock still held.
Log(r, how) ==
  /\ outcome' = [outcome EXCEPT ![r] = how]
  /\ Goto(r, "logging")
  /\ UNCHANGED lock

\* The select is biased: a poll that finds the cancellation fired never
\* resumes the action.
AcquireLock(r) ==
  /\ pc[r] = "queued" /\ ~signal[r]
  /\ lock = NoRequest
  /\ lock' = r
  /\ Goto(r, IF Computer(r) THEN "settling unregistered" ELSE "reading")
  /\ UNCHANGED <<request, bound, signal, outcome, answer, replayVars, cancelVars,
                 settleVars, authorityVars, historyVars>>

\* settle_prior_unregistered_computer_commands, then
\* settle_prior_computer_commands: help settle what was interrupted ...
PriorKeys(r) == IF pc[r] = "settling unregistered" THEN Request ELSE Id

Settling(r) == pc[r] \in {"settling unregistered", "settling registered"}

HelpSettle(r, k) ==
  /\ Settling(r) /\ stage[<<"handler", r>>] = "off"
  /\ k \in OtherComputerOwners(r, PriorKeys(r)) /\ Interrupted(k)
  /\ stage' = [stage EXCEPT ![<<"handler", r>>] = "claiming"]
  /\ target' = [target EXCEPT ![<<"handler", r>>] = k]
  /\ UNCHANGED <<handlerVars, replayVars, cancelVars, authorityVars, historyVars>>

\* Mutant: settle what was interrupted, but do not wait for running owners.
PriorInterruptedSettled(r) ==
  /\ Settling(r) /\ stage[<<"handler", r>>] = "off"
  /\ \A k \in OtherComputerOwners(r, PriorKeys(r)) : ~Interrupted(k)
  /\ Goto(r, IF pc[r] = "settling unregistered" THEN "settling registered"
                                                  ELSE "reading")
  /\ UNCHANGED <<lock, request, bound, signal, outcome, answer, replayVars,
                 cancelVars, settleVars, authorityVars, historyVars>>

\* ... and go on only when no other call owns the computer.
PriorSettled(r) ==
  /\ Settling(r) /\ stage[<<"handler", r>>] = "off"
  /\ OtherComputerOwners(r, PriorKeys(r)) = {}
  /\ Goto(r, IF pc[r] = "settling unregistered" THEN "settling registered"
                                                  ELSE "reading")
  /\ UNCHANGED <<lock, request, bound, signal, outcome, answer, replayVars,
                 cancelVars, settleVars, authorityVars, historyVars>>

\* The published authority refuses mutations until a fresh observation.
Blocked(r) == \/ Method(r) = "page.click" /\ latched
              \/ Method(r) = "computer.click" /\ revoked

ReadAuthority(r) ==
  /\ pc[r] = "reading" /\ ~Blocked(r)
  /\ Goto(r, IF Browser(r) \/ Computer(r) THEN "binding" ELSE "relaying")
  /\ UNCHANGED <<lock, request, bound, signal, outcome, answer, replayVars,
                 cancelVars, settleVars, authorityVars, historyVars>>

\* Blocked, or one of the other checks fails: handshake, capability,
\* parameters, a pending dialog.
Refuse(r) ==
  /\ pc[r] = "reading"
  /\ Finish(r, "failed")
  /\ UNCHANGED <<request, bound, signal, answer, replayVars, cancelVars,
                 settleVars, authorityVars, historyVars>>

\* bind_browser_command_owner, bind_computer_command_owner and
\* bind_unregistered_computer_owner.
Bind(r) ==
  /\ pc[r] = "binding"
  /\ IdOf(r) # NoId => registry[IdOf(r)].state = "active"
  /\ bound' = [bound EXCEPT ![r] = TRUE]
  /\ registry' = IF IdOf(r) = NoId /\ Computer(r)
                   THEN [registry EXCEPT ![r] = [of |-> r, state |-> "active",
                                                 byCaller |-> FALSE]]
                   ELSE registry
  /\ Goto(r, "relaying")
  /\ UNCHANGED <<lock, request, signal, outcome, answer, completed, cancelVars,
                 settleVars, authorityVars, historyVars>>

BindRefused(r) ==
  /\ pc[r] = "binding"
  /\ IdOf(r) # NoId /\ registry[IdOf(r)].state # "active"
  /\ Finish(r, "canceled")
  /\ UNCHANGED <<request, bound, signal, answer, replayVars, cancelVars,
                 settleVars, authorityVars, historyVars>>

\* call_scoped_to: the command leaves for the connector.
Relay(r) ==
  /\ pc[r] = "relaying"
  /\ dispatches' = IF IdOf(r) = NoId THEN dispatches
                   ELSE [dispatches EXCEPT ![IdOf(r)] = @ + 1]
  /\ Goto(r, "calling")
  /\ UNCHANGED <<lock, request, bound, signal, outcome, answer, replayVars,
                 cancelVars, settleVars, authorityVars, forgotten, reobserved, lifted>>

\* The connector's result wakes the handler.  What the hub cannot prove
\* ("unknown") withdraws the authority the method may have disturbed.
CallReturns(r, result) ==
  /\ pc[r] = "calling" /\ ~signal[r]
  /\ CASE result = "ok" /\ Method(r) \in {"page.click", "computer.click"} ->
            Goto(r, "following") /\ UNCHANGED <<lock, outcome>>
       [] result = "ok" /\ Method(r) \in {"page.observe", "computer.observe"} ->
            Goto(r, "publishing") /\ UNCHANGED <<lock, outcome>>
       [] result = "unknown" /\ Browser(r) ->
            /\ Goto(r, "latching") /\ UNCHANGED lock
            /\ outcome' = [outcome EXCEPT ![r] = "unknown"]
       [] result = "unknown" /\ Method(r) = "computer.click" ->
            /\ Goto(r, "withdrawing") /\ UNCHANGED lock
            /\ outcome' = [outcome EXCEPT ![r] = "unknown"]
       [] OTHER -> Log(r, result)
  /\ UNCHANGED <<request, bound, signal, answer, replayVars, cancelVars,
                 settleVars, authorityVars, historyVars>>

\* The automatic observation after a mutation: published, skipped or failed
\* ("failed"), or of unknown outcome.
FollowUpReturns(r, result) ==
  /\ pc[r] = "following" /\ ~signal[r]
  /\ CASE result = "ok" -> Goto(r, "publishing") /\ UNCHANGED <<lock, outcome>>
       [] result = "unknown" /\ Browser(r) ->
            /\ Goto(r, "latching") /\ UNCHANGED lock
            /\ outcome' = [outcome EXCEPT ![r] = "ok"]
       [] OTHER -> Log(r, "ok")
  /\ UNCHANGED <<request, bound, signal, answer, replayVars, cancelVars,
                 settleVars, authorityVars, historyVars>>

\* refresh_observation_for and refresh_computer_observation_for, under the
\* public-state lock.  A follow-up does not recover revoked authority.
Publish(r) ==
  /\ pc[r] = "publishing"
  /\ CASE Browser(r)                    -> observation' = r /\ UNCHANGED revoked
       [] Method(r) = "computer.observe" -> revoked' = FALSE /\ UNCHANGED observation
       [] OTHER                          -> UNCHANGED <<observation, revoked>>
  /\ IF Method(r) = "page.observe"
       THEN /\ Goto(r, "recovering") /\ UNCHANGED <<lock, outcome>>
            /\ reobserved' = reobserved \cup {s \in Request \ {r} : bound[s]}
       ELSE Log(r, "ok") /\ UNCHANGED reobserved
  /\ UNCHANGED <<request, bound, signal, answer, replayVars, cancelVars,
                 settleVars, latched, dispatches, forgotten, lifted>>

\* The cancellation c is past installing its latch.
Past(c)       == cpc[c] \notin {"idle", "refused", "latching"}
LatchedFor(r) == \E c \in Canceller : canceled[c] = r /\ Past(c)

\* An explicit observation lifts the latch, after the public-state lock.
Recover(r) ==
  /\ pc[r] = "recovering"
  /\ latched' = FALSE
  /\ lifted' = IF LatchedFor(r) THEN lifted \cup {r} ELSE lifted
  /\ Log(r, "ok")
  /\ UNCHANGED <<request, bound, signal, answer, replayVars, cancelVars,
                 settleVars, observation, revoked, dispatches, forgotten, reobserved>>

\* Mutant: only the observation is withdrawn.
QuarantineUnlatched(r) ==
  /\ pc[r] = "latching"
  /\ Goto(r, "withdrawing")
  /\ UNCHANGED <<lock, request, bound, signal, outcome, answer, replayVars,
                 cancelVars, settleVars, authorityVars, historyVars>>

\* quarantine_browser_freshness_after_unknown: the latch first ...
Quarantine(r) ==
  /\ pc[r] = "latching"
  /\ latched' = TRUE
  /\ Goto(r, "withdrawing")
  /\ UNCHANGED <<lock, request, bound, signal, outcome, answer, replayVars,
                 cancelVars, settleVars, observation, revoked, historyVars>>

\* clear_published_browser_freshness_after_cancel and
\* clear_published_computer_authority_after_unknown for the methods they treat.
Withdraw(method) ==
  /\ observation' = IF method \in BrowserMethods THEN "none" ELSE observation
  /\ revoked' = (revoked \/ method = "computer.click")

\* ... then, under the public-state lock, the published observation.
WithdrawOwn(r) ==
  /\ pc[r] = "withdrawing"
  /\ Withdraw(Method(r))
  /\ Log(r, outcome[r])
  /\ UNCHANGED <<request, bound, signal, answer, replayVars, cancelVars,
                 settleVars, latched, historyVars>>

\* log_for_connection and bump_for_connection: the public-state lock was granted
\* for the last time.
Logged(r) ==
  /\ pc[r] = "logging"
  /\ Finish(r, outcome[r])
  /\ UNCHANGED <<request, bound, signal, answer, replayVars, cancelVars,
                 settleVars, authorityVars, historyVars>>

-----------------------------------------------------------------------------
(* execute_command, after the action.                                      *)

\* Mutant: whoever completes first wins, interrupted or not.
CompleteFirst(r) ==
  /\ pc[r] = "acted" /\ IdOf(r) # NoId
  /\ IF Present(IdOf(r)) THEN Store(IdOf(r), outcome[r])
                         ELSE UNCHANGED <<replayVars, forgotten>>
  /\ answer' = [answer EXCEPT ![r] = outcome[r]]
  /\ Goto(r, "done")
  /\ UNCHANGED <<lock, request, bound, signal, outcome, cancelVars, settleVars,
                 authorityVars, dispatches, reobserved, lifted>>

\* Mutant: a request without an id never gives its ownership back.
CompleteArmed(r) ==
  /\ pc[r] = "acted" /\ IdOf(r) = NoId
  /\ Goto(r, "done")
  /\ answer' = [answer EXCEPT ![r] = outcome[r]]
  /\ UNCHANGED <<lock, request, bound, signal, outcome, replayVars, cancelVars,
                 settleVars, authorityVars, historyVars>>

\* complete_command_call and disarm.
Complete(r) ==
  /\ pc[r] = "acted"
  /\ IF IdOf(r) = NoId
       THEN /\ registry' = [registry EXCEPT ![r] = NoEntry]
            /\ answer' = [answer EXCEPT ![r] = outcome[r]]
            /\ UNCHANGED <<completed, forgotten>>
       ELSE /\ ~Interrupted(IdOf(r))
            /\ IF Present(IdOf(r))
                 THEN /\ Store(IdOf(r), outcome[r])
                      /\ answer' = [answer EXCEPT ![r] = outcome[r]]
                 ELSE /\ answer' = [answer EXCEPT ![r] =
                           IF Remembered(IdOf(r)) THEN OutcomeOf(IdOf(r)).response
                                                  ELSE outcome[r]]
                      /\ UNCHANGED <<replayVars, forgotten>>
  /\ Goto(r, "done")
  /\ UNCHANGED <<lock, request, bound, signal, outcome, cancelVars, settleVars,
                 authorityVars, dispatches, reobserved, lifted>>

\* ReplayCompletion::InterruptionPending: settle before answering.
AwaitSettlement(r) ==
  /\ pc[r] = "acted" /\ IdOf(r) # NoId /\ Interrupted(IdOf(r))
  /\ Goto(r, "settling")
  /\ stage' = [stage EXCEPT ![<<"handler", r>>] = "claiming"]
  /\ target' = [target EXCEPT ![<<"handler", r>>] = IdOf(r)]
  /\ UNCHANGED <<lock, request, bound, signal, outcome, answer, replayVars,
                 cancelVars, authorityVars, historyVars>>

\* The handler is polled, finds the cancellation fired and drops the action
\* where it waits: for the lock, an earlier settlement, the connector, a lock
\* of the public state (to the very last one, when it logs what it has done).
Waiting == {"queued", "settling unregistered", "settling registered", "reading",
            "calling", "following", "publishing", "withdrawing", "logging"}

\* Mutant: the claim stays with the settler that is gone.
KeepClaim(p) ==
  /\ stage' = [stage EXCEPT ![p] = "off"]
  /\ target' = [target EXCEPT ![p] = NoId]
  /\ UNCHANGED registry

\* Dropping a settlement releases its claim.
ReleaseClaim(p) ==
  /\ stage' = [stage EXCEPT ![p] = "off"]
  /\ target' = [target EXCEPT ![p] = NoId]
  /\ registry' = IF stage[p] \in {"clearing", "publishing"}
                      /\ registry[target[p]].state = "claimed"
                   THEN Become(target[p], "interrupted", registry[target[p]].byCaller)
                   ELSE registry

SeeCancel(r) ==
  /\ pc[r] \in Waiting /\ signal[r]
  /\ ReleaseClaim(<<"handler", r>>)
  /\ Finish(r, "canceled")
  /\ UNCHANGED <<request, bound, signal, answer, completed, cancelVars,
                 authorityVars, historyVars>>

-----------------------------------------------------------------------------
(* The HTTP server drops the handler: InFlightCallGuard::drop runs before  *)
(* the action future, and the action lock, are dropped.                    *)

Interrupt(s) == IF s = "active" THEN "interrupted" ELSE s

\* begin_command_interruption; an entry that is gone needs no fence.
DropHandler(r) ==
  /\ pc[r] \in Waiting \cup {"acted", "settling"}
  /\ LET own == <<"handler", r>>
         freed == IF pc[r] = "settling" /\ stage[own] \in {"clearing", "publishing"}
                       /\ registry[IdOf(r)].state = "claimed"
                    THEN "interrupted" ELSE registry[IdOf(r)].state
     IN  /\ IF IdOf(r) = NoId
              THEN UNCHANGED registry /\ Goto(r, "fencing")
              ELSE IF Present(IdOf(r))
                THEN /\ registry' = Become(IdOf(r), Interrupt(freed),
                                      registry[IdOf(r)].byCaller)
                     /\ Goto(r, "fencing")
                ELSE UNCHANGED registry /\ Goto(r, "unwinding")
         /\ IF pc[r] = "settling"
              THEN /\ stage' = [stage EXCEPT ![own] = "off"]
                   /\ target' = [target EXCEPT ![own] = NoId]
              ELSE UNCHANGED settleVars
  /\ outcome' = [outcome EXCEPT ![r] = IF pc[r] \in Waiting THEN "dropped" ELSE @]
  /\ UNCHANGED <<lock, request, bound, signal, answer, completed, cancelVars,
                 authorityVars, historyVars>>

\* An unbound call is completed at once.
FenceUnbound(r) ==
  /\ pc[r] = "fencing" /\ ~bound[r]
  /\ IF IdOf(r) = NoId THEN UNCHANGED <<replayVars, forgotten>>
                       ELSE CompleteInterrupted(IdOf(r))
  /\ Goto(r, "unwinding")
  /\ UNCHANGED <<lock, request, bound, signal, outcome, answer, cancelVars,
                 settleVars, authorityVars, dispatches, reobserved, lifted>>

\* Mutant: the whole fence is left to the task.
FenceLater(r) ==
  /\ pc[r] = "fencing" /\ bound[r]
  /\ registry' = IF IdOf(r) = NoId
       THEN [registry EXCEPT ![r] = [of |-> r, state |-> "interrupted",
                                     byCaller |-> FALSE]]
       ELSE registry
  /\ stage' = [stage EXCEPT ![<<"task", r>>] = "claiming"]
  /\ target' = [target EXCEPT ![<<"task", r>>] = KeyOf(r)]
  /\ Goto(r, "unwinding")
  /\ UNCHANGED <<lock, request, bound, signal, outcome, answer, completed,
                 cancelVars, authorityVars, historyVars>>

\* A bound one is fenced now, and settled by a task of its own.
FenceBound(r) ==
  /\ pc[r] = "fencing" /\ bound[r]
  /\ registry' = IF IdOf(r) = NoId
       THEN [registry EXCEPT ![r] = [of |-> r, state |-> "interrupted",
                                     byCaller |-> FALSE]]
       ELSE registry
  /\ latched' = (latched \/ Browser(r))
  /\ stage' = [stage EXCEPT ![<<"task", r>>] = "claiming"]
  /\ target' = [target EXCEPT ![<<"task", r>>] = KeyOf(r)]
  /\ Goto(r, "unwinding")
  /\ UNCHANGED <<lock, request, bound, signal, outcome, answer, completed,
                 cancelVars, observation, revoked, historyVars>>

\* The action future is dropped: the lock, and the claim of a helper.
Unwind(r) ==
  /\ pc[r] = "unwinding"
  /\ ReleaseClaim(<<"handler", r>>)
  /\ lock' = IF lock = r THEN NoRequest ELSE lock
  /\ Goto(r, "gone")
  /\ UNCHANGED <<request, bound, signal, outcome, answer, completed, cancelVars,
                 authorityVars, historyVars>>

-----------------------------------------------------------------------------
(* cancel_command.                                                         *)

CGoto(c, where) == cpc' = [cpc EXCEPT ![c] = where]

\* Taking the sender is the linearization point.
Cancel(c, i) ==
  /\ cpc[c] = "idle"
  /\ registry[i].state = "active"
  /\ registry' = Become(i, "interrupted", TRUE)
  /\ canceled' = [canceled EXCEPT ![c] = registry[i].of]
  /\ CGoto(c, IF bound[registry[i].of] /\ Browser(registry[i].of)
                THEN "latching" ELSE "signalling")
  /\ UNCHANGED <<handlerVars, completed, settleVars, authorityVars, historyVars>>

\* CALL_NOT_IN_PROGRESS.
CancelRefused(c, i) ==
  /\ cpc[c] = "idle"
  /\ registry[i].state # "active"
  /\ CGoto(c, "refused")
  /\ UNCHANGED <<handlerVars, replayVars, canceled, settleVars, authorityVars,
                 historyVars>>

\* Mutant: the latch is left to the extension's own event.
CancelSkipsLatch(c) ==
  /\ cpc[c] = "latching"
  /\ CGoto(c, "signalling")
  /\ UNCHANGED <<handlerVars, replayVars, canceled, settleVars, authorityVars,
                 historyVars>>

\* The latch is installed before the handler is woken.
CancelLatches(c) ==
  /\ cpc[c] = "latching"
  /\ latched' = TRUE
  /\ CGoto(c, "signalling")
  /\ UNCHANGED <<handlerVars, replayVars, canceled, settleVars, observation,
                 revoked, historyVars>>

CancelSignals(c) ==
  /\ cpc[c] = "signalling"
  /\ signal' = [signal EXCEPT ![canceled[c]] = TRUE]
  /\ IF bound[canceled[c]]
       THEN /\ CGoto(c, "settling")
            /\ stage' = [stage EXCEPT ![<<"canceller", c>>] = "claiming"]
            /\ target' = [target EXCEPT ![<<"canceller", c>>] = IdOf(canceled[c])]
       ELSE CGoto(c, "completing") /\ UNCHANGED settleVars
  /\ UNCHANGED <<lock, request, pc, bound, outcome, answer, replayVars, canceled,
                 authorityVars, historyVars>>

\* complete_interrupted_command_without_authority, then the 202.
CancelCompletes(c) ==
  /\ cpc[c] = "completing"
  /\ CompleteInterrupted(IdOf(canceled[c]))
  /\ CGoto(c, "accepted")
  /\ UNCHANGED <<handlerVars, canceled, settleVars, authorityVars, dispatches, reobserved, lifted>>

\* The canceller's own connection may go while it waits for the settlement.
DropCanceller(c) ==
  /\ cpc[c] = "settling"
  /\ ReleaseClaim(<<"canceller", c>>)
  /\ CGoto(c, "gone")
  /\ UNCHANGED <<handlerVars, completed, canceled, authorityVars, historyVars>>

-----------------------------------------------------------------------------
(* settle_interrupted_command, settle_unregistered_command_interruption.   *)

\* A settler is polled as part of the task that runs it: a handler that is
\* being dropped runs nothing any more.
Runs(p, where) ==
  /\ stage[p] = where
  /\ p[1] = "handler" => Settling(p[2]) \/ pc[p[2]] = "settling"

\* Settler p is done, and its caller goes on with the response.
Settled(p, response) ==
  /\ stage' = [stage EXCEPT ![p] = "off"]
  /\ target' = [target EXCEPT ![p] = NoId]
  /\ IF p[1] = "handler" /\ ~Settling(p[2])
       THEN /\ Goto(p[2], "done")
            /\ answer' = [answer EXCEPT ![p[2]] = response]
       ELSE UNCHANGED <<pc, answer>>
  /\ IF p[1] = "canceller" THEN CGoto(p[2], "accepted") ELSE UNCHANGED cpc

\* Mutant: the claim is taken for the clearing itself.
ClaimAsCleared(p) ==
  /\ Runs(p, "claiming")
  /\ registry[target[p]].state = "interrupted"
  /\ registry' = Become(target[p], "claimed", registry[target[p]].byCaller)
  /\ stage' = [stage EXCEPT ![p] = "publishing"]
  /\ UNCHANGED <<handlerVars, completed, cancelVars, target, authorityVars,
                 historyVars>>

\* claim_interruption; the loop sleeps while somebody else holds the claim.
Claim(p) ==
  /\ Runs(p, "claiming")
  /\ registry[target[p]].state = "interrupted"
  /\ registry' = Become(target[p], "claimed", registry[target[p]].byCaller)
  /\ stage' = [stage EXCEPT ![p] = "clearing"]
  /\ UNCHANGED <<handlerVars, completed, cancelVars, target, authorityVars,
                 historyVars>>

\* InterruptionClaim::Completed and ::Missing.
AlreadySettled(p) ==
  /\ Runs(p, "claiming")
  /\ IF target[p] \in Id THEN Remembered(target[p]) \/ ~Interrupted(target[p])
                         ELSE ~Present(target[p])
  /\ Settled(p, IF target[p] \in Id /\ Remembered(target[p])
                  THEN OutcomeOf(target[p]).response ELSE "canceled")
  /\ UNCHANGED <<lock, request, bound, signal, outcome, replayVars, canceled,
                 authorityVars, historyVars>>

\* settle_command_authority, under the public-state lock.
Clear(p) ==
  /\ Runs(p, "clearing")
  /\ LET of == registry[target[p]].of
     IN  IF of # NoRequest /\ bound[of] THEN Withdraw(Method(of))
                                        ELSE UNCHANGED <<observation, revoked>>
  /\ stage' = [stage EXCEPT ![p] = "publishing"]
  /\ UNCHANGED <<handlerVars, replayVars, cancelVars, target, latched, historyVars>>

\* complete_interrupted: only now is the outcome replayable.
PublishOutcome(p) ==
  /\ Runs(p, "publishing")
  /\ IF target[p] \in Id
       THEN /\ CompleteInterrupted(target[p])
            /\ Settled(p, IF Interrupted(target[p]) THEN SyntheticFor(target[p])
                          ELSE IF Remembered(target[p]) THEN OutcomeOf(target[p]).response
                          ELSE "canceled")
       ELSE /\ registry' = [registry EXCEPT ![target[p]] = NoEntry]
            /\ UNCHANGED <<completed, forgotten>>
            /\ Settled(p, "canceled")
  /\ UNCHANGED <<lock, request, bound, signal, outcome, canceled, authorityVars,
                 dispatches, reobserved, lifted>>

\* evict_expired: an outcome has grown too old.
Expire(i) ==
  /\ MayExpire /\ Remembered(i)
  /\ completed' = Forget(i)
  /\ forgotten' = forgotten \cup {i}
  /\ UNCHANGED <<handlerVars, registry, cancelVars, settleVars, authorityVars,
                 dispatches, reobserved, lifted>>

-----------------------------------------------------------------------------
Arrive(r) ==
  \E q \in Traffic : \/ Admit(r, q) \/ Replay(r, q)
                     \/ RefuseDuplicate(r, q) \/ RefuseReuse(r, q)

\* What the handler does by itself once it is scheduled.
Proceed(r) ==
  \/ PriorSettled(r)
  \/ \E k \in Key : HelpSettle(r, k)
  \/ ReadAuthority(r) \/ Refuse(r) \/ Bind(r) \/ BindRefused(r) \/ Relay(r)
  \/ \E result \in {"ok", "failed", "unknown"} :
       CallReturns(r, result) \/ FollowUpReturns(r, result)
  \/ Publish(r) \/ Recover(r) \/ Quarantine(r) \/ WithdrawOwn(r) \/ Logged(r)
  \/ SeeCancel(r) \/ Complete(r) \/ AwaitSettlement(r)
  \/ FenceUnbound(r) \/ FenceBound(r) \/ Unwind(r)

HandlerStep(r) == Arrive(r) \/ AcquireLock(r) \/ Proceed(r) \/ DropHandler(r)

CancellerStep(c) ==
  \/ \E i \in Id : Cancel(c, i) \/ CancelRefused(c, i)
  \/ CancelLatches(c) \/ CancelSignals(c) \/ CancelCompletes(c) \/ DropCanceller(c)

SettlerStep(p) == Claim(p) \/ AlreadySettled(p) \/ Clear(p) \/ PublishOutcome(p)

\* Every request was handled: nothing is left to do.
Idle ==
  /\ \A r \in Request : pc[r] \in {"done", "gone"}
  /\ \A c \in Canceller : cpc[c] \in {"accepted", "refused", "gone"}
  /\ \A p \in Settler : stage[p] = "off"
  /\ UNCHANGED vars

Next ==
  \/ \E r \in Request : HandlerStep(r)
  \/ \E c \in Canceller : CancellerStep(c)
  \/ \E p \in Settler : SettlerStep(p)
  \/ \E i \in Id : Expire(i)
  \/ Idle

Spec == Init /\ [][Next]_vars

\* Fairness: the server's tasks run, the connector calls return (the hub's timer
\* sees to it) and the action lock is a first-come first-served mutex.  Nothing
\* is assumed of new requests, of cancellations and of dropped callers.
Fairness ==
  /\ \A r \in Request : SF_vars(AcquireLock(r)) /\ WF_vars(Proceed(r))
  /\ \A c \in Canceller :
       WF_vars(CancelLatches(c) \/ CancelSignals(c) \/ CancelCompletes(c))
  /\ \A p \in Settler : WF_vars(SettlerStep(p))

FairSpec == Spec /\ Fairness

-----------------------------------------------------------------------------
(* Properties.                                                             *)

\* Every variable stays in its type.
TypeOK ==
  /\ lock \in Request \cup {NoRequest}
  /\ request \in [Request -> Traffic \cup {NoTraffic}]
  /\ pc \in [Request -> Waiting \cup {"idle", "binding", "relaying", "recovering",
                "latching", "acted", "settling", "fencing", "unwinding", "done", "gone"}]
  /\ bound \in [Request -> BOOLEAN] /\ signal \in [Request -> BOOLEAN]
  /\ outcome \in [Request -> Responses \cup {"none", "dropped"}]
  /\ answer \in [Request -> Responses \cup {"none", "in_progress", "reused"}]
  /\ registry \in [Key -> Entries]
  /\ completed \in Seq([id : Id, method : Methods, response : Responses, of : Request])
  /\ Len(completed) <= CacheSize
  /\ cpc \in [Canceller -> {"idle", "latching", "signalling", "settling",
                             "completing", "accepted", "refused", "gone"}]
  /\ canceled \in [Canceller -> Request \cup {NoRequest}]
  /\ stage \in [Settler -> {"off", "claiming", "clearing", "publishing"}]
  /\ target \in [Settler -> Key \cup {NoId}]
  /\ latched \in BOOLEAN /\ revoked \in BOOLEAN
  /\ observation \in Request \cup {"none", "initial"}
  /\ dispatches \in [Id -> Nat] /\ forgotten \subseteq Id
  /\ reobserved \subseteq Request /\ lifted \subseteq Request

\* A call id is executed at most once while its outcome is in flight or
\* remembered: however requests, cancellations, disconnects and settlements
\* interleave, a retry under the same id never relays the command again
\* (CommandReplay::admit, bind_*_owner, complete, complete_interrupted).
AtMostOnce == \A i \in Id : dispatches[i] <= 1

\* One call, one story: what the owner of a call id was told is what a retry
\* replays, and once a cancellation was accepted both are the canceled answer
\* (the linearization of CommandReplay::cancel against complete).
OneOutcome ==
  \A n \in DOMAIN completed :
    LET r == completed[n].of
    IN  /\ pc[r] = "done" => answer[r] = completed[n].response
        /\ (\E c \in Canceller : canceled[c] = r) => completed[n].response = "canceled"

\* A computer command reads and uses the published frame and pointer authority
\* only while no other call owns the computer: not a running one, and not an
\* interrupted one whose authority is still to be withdrawn
\* (settle_prior_computer_commands and its unregistered twin).
OwnsComputerAlone ==
  \A r \in Request :
    /\ Computer(r) /\ lock = r
    /\ pc[r] \in {"reading", "binding", "relaying", "calling", "following",
                  "publishing", "withdrawing"}
    => OtherComputerOwners(r, Key) = {}

\* Somebody, the owner, a retry or the canceller, was told about r.
ToldUnknown(r) ==
  \/ answer[r] \in Unknowns
  \/ \E n \in DOMAIN completed : completed[n].of = r /\ completed[n].response \in Unknowns
  \/ \E c \in Canceller : canceled[c] = r /\ cpc[c] = "accepted"

ComesToBeTold(r) == bound[r] /\ ~ToldUnknown(r) /\ ToldUnknown(r)'

\* Nobody is told that the outcome of a computer command is unknown, by an
\* answer, a replay or the 202 of a cancellation, before the authority it may
\* have used was revoked, whichever of the canceller, the handler, its cleanup
\* task or a helping waiter settles it (settle_interrupted_command,
\* complete_interrupted).  Where the memory has forgotten the outcome it was told
\* before, and an observation may have recovered the authority since.
FencedBeforeAnswer ==
  [][\A r \in Request :
       Method(r) = "computer.click" /\ IdOf(r) \notin forgotten /\ ComesToBeTold(r)
         => revoked']_vars

\* Page mutations wait for an explicit observation, unless one by another request
\* was published after the command of r.
Fenced(r) == latched \/ r \in reobserved

\* The exception to what follows: r is an observation, canceled between its
\* publication and server.rs:5857, that lifts the latch of its own cancellation
\* there.  It may end well, or as canceled or dropped while it logs.
LiftedItself(r) == r \in lifted

\* The same for browser commands, but for the moment in which a cancellation has
\* marked its call and not installed the latch yet: then the handler may answer
\* first (cancel_command, settle_interrupted_command).
BeingCanceled(r) == \E c \in Canceller : canceled[c] = r /\ cpc[c] = "latching"

FencedButForCancel ==
  [][\A r \in Request :
       Browser(r) /\ ComesToBeTold(r)
         => Fenced(r)' \/ LiftedItself(r) \/ BeingCanceled(r)]_vars

\* When a browser command is abandoned by a cancellation or a dropped caller, the
\* latch is there before the action lock is: no later mutation can slip
\* between, but for the observation that lifted its own latch (cancel_command,
\* InFlightCallGuard::drop).
FencedBeforeUnlock ==
  \A r \in Request :
    Browser(r) /\ bound[r] /\ outcome[r] \in {"canceled", "dropped"} /\ lock # r
      => Fenced(r) \/ LiftedItself(r)

\* Once the 202 of a cancellation is out, mutations of the page wait for an
\* explicit observation, and only one by another request lifts that again, but for
\* the observation that lifted its own latch (cancel_command,
\* refresh_observation_for).
AcceptedMeansLatched ==
  \A c \in Canceller :
    cpc[c] = "accepted" /\ bound[canceled[c]] /\ Browser(canceled[c])
      => Fenced(canceled[c]) \/ LiftedItself(canceled[c])

\* Whoever gives up on the way, an interrupted call is settled in the end.
InterruptedCallsSettle ==
  \A k \in Key : Interrupted(k) ~> ~Interrupted(k)

\* Every request is answered or dropped: nobody waits for ever for the action
\* lock, for a settlement or for the calls ahead of it.
RequestsEnd ==
  \A r \in Request : pc[r] # "idle" ~> pc[r] \in {"done", "gone"}
=============================================================================
