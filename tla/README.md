# A TLA+ development for Local Browser Bridge

Local Browser Bridge lets an HTTP client drive the user's own browser and
computer.  A server (Rust) owns two long-lived websocket connections, one to a
browser extension and one to a computer helper, and turns each HTTP action into
commands on them.  The extension's service worker holds the control lease: it
attaches Chrome's debugger to the tab the server works on, and gives it up when
the human, the server or Chrome says so.  Nearly everything that makes the
program hard is in what happens when an action is *not* simply answered: the
caller disconnects, the connector is replaced by a new connection, the human
stops the session, a result or an attach arrives late, the timer fires, the
server shuts down, the worker dies between two writes.  The modules here model
that part.

Paths below are relative to this repository's root (`src/hub.rs` is the server's
hub, `background.js` the extension's `extension/background.js`).

## The system

| component | source | state it keeps | operations | talks to |
|---|---|---|---|---|
| connector hub (one per connector) | `src/hub.rs` | current connection, pending calls; per connection a bounded queue, a shutdown signal, readiness, a sequence number | attach, mark_ready, call_scoped_for, resolve, close_if_current, detach, close | websocket handlers, the action pipeline |
| websocket handlers | `src/server.rs` 3287-4502, `src/ws_auth.rs` | one task and one writer task per connection | authenticate, hello, results, events, pings, detach | hub, public state |
| command replay and settlement | `src/server.rs` 549-794, 1867-2521, 2886-3071 | in-flight and completed call ids, owners, interruptions, claims | execute, cancel, drop, settle | action pipeline, hubs, public state |
| browser action pipeline | `src/server.rs` 4569-4904, 5573-5921, 7502-7530 | public browser state, freshness latch, pending dialog, control scope | perform_action, refresh_tabs, refresh_observation | extension hub |
| computer action pipeline and authority gate | `src/server.rs` 1139-1400, 3988-4270, 4906-5693 | authority gate (approved and retired shares), published share, observation | perform_computer_action, share cleanup, share events | computer hub |
| computer helper | `src/bin/local-computer-helper.rs`, `src/computer_protocol.rs`, `src/computer.rs` | command queue, share mailbox, active share, frame lease | session loop, workers, share pump | server, operating system |
| human pause | `background.js` 386-479, 1779-1820 | pause and uncertainty in memory, a marker in `storage.session`, the pause in `storage.local` | latch, persist, resume, load after a restart | popup, Chrome's own Cancel, the lease |
| control lease and debugger attachment | `background.js` 1658-2596, 5401-5417 | lease, epoch, revocation, pending cleanups, attaches, detaches and teardowns; a stored snapshot | start, stop, retry of cleanups, heartbeat, onDetach, initialization | Chrome, storage, popup, commands |
| commands, pairing, approvals | `background.js` (the rest) | action queue, cancel contexts, transport, pairing record | dispatch, reconnect, pair, approve | server, browser |
| token, settings | `src/token.rs`, `src/settings.rs` | files | create, publish, read | file system |
| shell adapter | `src/shell.rs` | one child process per call | run, kill, collect | operating system |
| desktop host, setup, update, dashboard | `src/bin/local-browser-bridge-desktop.rs`, `src/setup.rs`, `src/update.rs`, `public/app.js` | supervised processes, installed files, rendered state | start, stop, install, poll | server |

How they interact: an HTTP action takes the server's *action lock*, reads the
published state under the *data lock*, calls the connector through its hub, and
publishes the outcome under the data lock.  Websocket handlers publish events
and results concurrently under the data lock; hub methods take two small
mutexes of their own, one after the other.  A cancel request, a dropped HTTP
caller and the detached cleanup of a rejected share run without the action
lock.

What is hard, and therefore what the properties are about:

* hub: a call against replacement, revocation, detach, shutdown, its timer and
  a late result; whether a refusal may be retried; whether a caller can hang;
* replay and settlement: one execution per call id; a canceled or dropped
  action is answered only after the authority it may have left is quarantined;
* computer authority: a frame, a late result or a stale cleanup must never
  re-publish or stop what a newer decision governs;
* human pause: two stores that fail and are written by several calls at once, a
  worker that dies between two writes, a Resume that races a stop;
* control lease: no debugged tab that nobody knows of, whatever attach comes late
  and whenever the worker dies; a stopped session that must not come back from a
  stale record; one debugger at a time though starts interleave; cleanups that must
  end;
* helper: bounded queues, acknowledgement pacing, cancellation points.

## Modules

| module | what it is | proofs |
|---|---|---|
| `HubContract` | what the hub promises the pipeline | |
| `ConnectorHub` (`MCHub`) | the hub and the part of the handlers that drives it; implements `HubContract` | `ConnectorHub_proofs` |
| `CommandReplay` (`MCReplay`) | execute, cancel, drop, settle over abstract authorities | `CommandReplay_proofs`, `CommandReplay_settlement_proofs`, `CommandReplay_fence_proofs` |
| `ComputerAuthority` (`MCAuthority`) | the gate and the share life cycle over server, helper and connection | `ComputerAuthority_proofs` |
| `HumanPause` | the pause and its two stores; the abstract specification of what `BrowserControl` does to them | `HumanPause_proofs` |
| `BrowserControl` (`MCControl`) | the lease and the debugger, composed with `HumanPause`, Chrome and the store | `BrowserControl_proofs`, `BrowserControl_cover_proofs` |

The three modules about the server were written first, from the hub up, then the
two about the extension.  `BrowserControl` extends `HumanPause` and takes its
actions into its own, so that its runs check the properties of the pause in the
composition, and `ControlPauses` is the refinement.  What is left is listed under
"Not modelled".

## ConnectorHub

State: `current` and `pending` are `HubInner`; `ready`, `shutdown`, `sequence`,
`queue` are the fields of a `Connection` (clones share them), `receiver` the
other end of its queue, owned by the writer task.  `handler[c]` is the program
counter of the websocket handler of connection `c`, `handling[c]` the result it
resolves; `revoker[c]` and `reason[c]` are the thread that took `c` out of the
hub; `pc[k]` is the program counter of call `k` in `call_scoped_for`, `slot[k]`
its oneshot, `owed[k]` the thread that removed its registration and has not
answered yet.  `delivered` and `cancels` record the wire.

Each action is one critical section: the two mutexes are never held together,
so `Attach` (the connection mutex) and `RevokeFail` (the pending mutex) are two
actions of one thread, and every answer to a drained caller is a third.  The
data lock of the server, held across attach and detach, appears as
`DataLockFree`, the action lock as `ActionLockFree`, with `Detached` the calls
that do not take it.  The peer is unconstrained: it answers any command it
received, on any connection, echoing it exactly or not.

Runs:

| run | instance | checks |
|---|---|---|
| `hub_calls` | 2 calls, 1 connection, 1 slot, fairness | no caller is forgotten, refusals are true, at most one cancel; revoked handlers end, and their callers return without the timer |
| `hub_replace` | 1 call, 2 connections, 1 slot | results and cancels stay on the connection of the call, replaced transports are signalled, refinement of `HubContract` |

Bounds: one slot makes every `try_send` race a full queue; two calls are the
fewest where one fills the queue of the other, two connections the fewest where
one replaces the other.  A connection identifier is used once, as in the code
(a fresh UUID), so the runs end and deadlock is not checked.

Fairness (`ServerFairness`): every task of the server that has a step to take
eventually takes it.  Strong fairness of `SeeShutdown` is the receive loop's
`select!` over the shutdown signal and the socket: the signal stays ready while
the loop is busy with other messages, and is polled each time around.  Nothing
is assumed of the peer, the socket or the timer.

Two statements of the documentation do not hold of the hub, and no property states
them.  `docs/internals/PROTOCOL.md:228` wants sequence numbers to increase strictly
on a connection: `call_scoped_for` takes the number (hub.rs:438) before the slot in
the queue (hub.rs:467), and the cleanup of a rejected share (server.rs:5343) calls
outside the action lock, so that two numbers may be sent in the other order.  And
hub.rs:513 says that a revoked connection carries no further outbound command: a
call that cloned the connection before (hub.rs:410) still enqueues on it.  Neither
does harm to the properties above: a late command is refused or answered by its
own connection.

### What is proved

`ConnectorHub_proofs` proves the invariants of `hub_calls` and `hub_replace`
and the refinement for every set of calls and connections and every capacity.
`TypeOK` is not inductive alone (an envelope is queued on `bound[k]`, which
must be a connection), so `TypeCorrect` is proved with `BoundOK`.  The
inductive invariant `IInv` has four parts:

* `CallInv`: each call has exactly one of a registration, somebody who owes
  it an answer, an answer, or an end; and what that implies for its cancels;
* `ConnInv`: a handler that has dropped its receiver drains every registration
  that could still wait there, and a receiving handler that lost its
  connection is signalled;
* `WireInv`: what is queued or delivered was sent by a call that was not
  refused, on the connection it is bound to;
* `AnswerInv`: a handler that took a registration is the only one to answer it.

`Refinement` maps each step to a step of `HubContract` or a stutter using
`IInv`.  The two liveness properties are only model-checked: liveness under
fairness is out of the proof system's reach.

## CommandReplay

State: `registry` is `CommandReplay::in_flight` and, under the keys that are
requests, `UnregisteredCommandInterruptions`; an entry is `active` while it holds
its cancellation sender, then `interrupted`, and `claimed` while somebody settles
it.  `completed` is the memory of outcomes in the order of their last use.
`pc[r]` is where the HTTP handler of request `r` is, from `execute_command` through
`perform_action` or `perform_computer_action` to the answer; `bound[r]` stands for
its `RequestCommandOwners` and the owner in its entry, `signal[r]` for its
cancellation oneshot.  `cpc[c]` is where `cancel_command` is, `canceled[c]` the
request it took the sender of.  `stage[p]` and `target[p]` say what settler `p` does:
a handler that settles its own call or helps an earlier one, a canceller, or the
task that `InFlightCallGuard::drop` spawns.  `latched`, `observation` and `revoked`
are the authority an abandoned command may have disturbed.

Each action is one critical section, or the code between two awaits.  Dropping a
handler is four actions, in the order of the code: the registry is marked
(`DropHandler`), the fence goes up (`FenceUnbound`, `FenceBound`), the action future
and with it the action lock are dropped (`Unwind`).  A cancellation is the taking
of the sender (`Cancel`), the latch (`CancelLatches`), the wake-up (`CancelSignals`) and
the settlement.

What is abstracted: connectors keep one session (replacing it is ConnectorHub's
subject); a method stands for the fingerprint of a command, and five methods for
the classes the server distinguishes; the biased `select!` of `execute_command` is the
guard `~signal[r]` on every wake-up of the action; the connector answers anything,
including an unknown outcome, which is what its timer produces.  One bound is in a
guard: an id whose outcome was evicted or has expired is admitted again only when
no task of its earlier admission is left (`InUse`), since 256 outcomes or ten minutes
lie between the two.

Runs:

| run | instance | checks |
|---|---|---|
| `replay_once` | 3 requests, 2 ids, 1 slot of memory, 1 cancellation, expiry | types, at most one relay per remembered id, one story per call |
| `replay_computer` | 2 computer requests (click, observe), 1 cancellation, fairness | a single owner of the computer, withdrawal before 'unknown', settlement, termination |
| `replay_browser` | 3 requests: one id (click, observe) and its retries, beside them at most a click under another id or an observation without one; 1 slot of memory, 1 cancellation | the latch before the action lock, the 202 and an unknown outcome |

Bounds: two requests are the fewest where one waits for the authority of another,
three the fewest where one retries while another comes between; one slot of memory
makes every second completion an eviction.  `replay_browser` is held to one call, its
retries and one other request by the state constraint `OneOther`: that is the canceled
command, who replays it, and the mutation or observation that follows it, all that
its three properties relate.

Two windows of a few instructions are open in the code, and bound what is stated.
An action may have ended already when a cancellation marks the call (server.rs:2134):
the handler completes, finds the interruption, settles it (which withdraws the
observation and installs no latch, server.rs:544) and answers, all before
`cancel_command` reaches its latch (server.rs:3048).  `FencedButForCancel` states what
remains true.  And a canceled `page.observe` may have been resumed by its result: it
publishes, and then removes the session's latch (server.rs:5857), which its own
cancellation has installed in between (`Recover`).  It has not ended yet: with the
action lock in hand it still waits for the public-state lock, to log and to bump
(5859-5870, `Logged`), where it may end well, or see the signal and end canceled, or
be dropped.  Canceled, it lets the action lock go with no latch; in either case the
settlement withdraws the observation again, so that the 202 is sent with neither
latch nor observation, though `docs/ARCHITECTURE.md:158` promises the latch.  The
history `lifted` holds the requests that lifted the latch of their own cancellation
after it was installed, and the properties of the latch except these and no others
(`LiftedItself`).  Without the exception each of the three is violated by `replay_browser`.

`FencedBeforeAnswer` and `FencedButForCancel` speak of the step by which somebody is
first told that the outcome of a call is unknown: its caller, a retry, or whoever
canceled it.  An id whose outcome the memory has forgotten is excepted from the
first, since it was told before, and the computer may have been recovered by an
observation before the handler of the call comes to its own answer.

Fairness (`Fairness`): the tasks of the server run; a connector call returns, since
the hub's timer sees to it; the action lock is first come, first served, hence
strong fairness of `AcquireLock`.  Nothing is assumed of new requests, of
cancellations, nor that anybody waits for an answer.

### What is proved

`CommandReplay_proofs` proves `TypeOK`, `OwnsComputerAlone` and `AtMostOnce` for every
set of requests, cancellations and call ids, every traffic and every size of the
memory, from the three assumptions on the constants.  The inductive invariant `Inv`
has four parts, each of which TLC was first asked about:

* `TypeOK` and `Shape`: an entry belongs to the request admitted under its key, a
  settler has a target exactly while it is busy, a cancellation keeps to a call
  that was admitted under an id, a handler that answers has something to answer;
* `OwnerInv`: who may touch the connectors holds the action lock (`Held`), nobody is
  bound before it does (`Unbound`), a bound computer request without an id is
  registered until its handler ends (`Unregistered`), and what the two waits of
  `settle_prior_*` found free of other owners stays free (`FreeOfOthers`);
* `OnceInv`: an id with a live handler or a relay behind it is registered,
  remembered or known to be forgotten, two live handlers never share an id, and
  nothing was relayed under an id whose handler has not relayed yet.

The proof does not go through the actions once per conjunct.  Every step is
first shown to be of a few kinds: what it does to the handlers (`ControlStep`), to
the registry (`RegistryStep`: an entry leaves, changes its state, or enters), to
cancellations (`CancelStep`), to the memory and the count of relays (`MemoryStep`,
`DispatchStep`).  `OwnersStep` then shows that no step gives the computer to another
call while `r` holds the action lock: an entry could only come to own it by being
bound, which takes the lock, or by being fenced, and then it owned it before.
`AccountedStep` shows that an id never falls out of sight.

`CommandReplay_settlement_proofs` proves `OneOutcome`.  The registry entry, the memory,
the handler, the canceller and the settlers each hold a part of what is known of a
call, and `SettleInv` says how the parts agree:

* `Ownership`: while anybody attends to a call with an id (its handler, its canceller
  or the task it left behind), the entry and the outcome under that id are its own;
* `Records`, `Pending`: an id has one outcome, none while it is in flight, and one or
  the other while somebody means to settle it;
* `Settlers`, `Claimed`: whom each settler settles, and that one at a time has claimed
  an entry;
* `Interruptions`: an entry is blamed on its caller exactly if a cancellation was
  accepted, and otherwise interrupted only by its own dropped handler.  So whoever
  publishes the outcome publishes the one that everybody else will;
* `OneStory`: `OneOutcome`, of the memory as a set.

Again each action is first shown to be one of a few kinds (`Moves`), and the parts are
kept by the kinds.  That an id comes back only when nobody attends to it any more
(`AdmitUnattended`) is where `InUse` is needed.

`CommandReplay_fence_proofs` proves the four properties of the latch and of the
revocation, `FencedBeforeUnlock`, `AcceptedMeansLatched`, `FencedButForCancel` and
`FencedBeforeAnswer`, from `FenceInv` on top of the other two:

* `Outcoming`: how an action ended, while its handler is where it is;
* `Reobserving`: who is about to lift the latch has put every other bound call in
  `reobserved`, so that the latch is never lifted under a call behind its back;
* `Canceled`: a signal fires only when its cancellation is past the latch, and the
  page of a call whose cancellation is past the latch is withdrawn, unless the call
  lifted that latch itself;
* `Abandoned`: a handler that gives up is past the latch, or has yet to come to it
  with the lock in hand;
* `Kept`: the entry of a working handler is taken away only by a cancellation that is
  past the latch.  Without it, a handler that finds its entry gone (`DropHandler`) would be
  right to skip the fence for the wrong reason;
* `Revoking`: who publishes the interruption of a click has revoked the computer, and
  it stays revoked until then, since only an observation of the computer lifts that
  and none runs while another call owns the computer (`OwnsComputerAlone` again);
* `Bounded`: a bound call is accounted for, and canceled only by a canceller.

The two action properties follow by who tells: `TellingStep` shows that there are four
ways to be told first, and `BrowserTelling` and `ClickTelling` that each is behind the
fence.

The liveness of the replay runs is only model-checked.

## ComputerAuthority

State: `current`, `phase`, `waiting`, `answer` and `cancels` are the hub and the
websocket handlers as a computer action sees them: which connection is current,
whether it has said hello, which calls wait and what they were answered.
`computer` is the published helper with its share status, `screen` the published
observation and screenshot, `gate` the `ComputerAuthorityGate`; all three are changed
under the data lock only.  `pc[r]`, `method[r]` and `target[r]` say where
`perform_computer_action` is, what it does and for which session; `armed` holds the
requests whose `ShareStartValidationGuard` is armed, `unsettled` those that were
canceled and not settled yet.  `cleanup[r]` is the task of
`spawn_rejected_computer_share_cleanup`, `clearing` the tasks of dropped guards.
`inbox`, `outbox`, `capture` and `drawn` are the helpers: commands and answers in order,
and the share being captured.

| action | code |
|---|---|
| `Attach`, `MarkReady`, `PublishHello`, `Leave` | `handle_computer_websocket`, `handle_computer_hello` |
| `Resolve`, `ShareFrame`, `ShareError` | the receive loop, `handle_computer_event` |
| `Admit` to `AwaitCleanup` | `perform_computer_action`, `refresh_computer_observation_for` |
| `End`, `Unwind` | the action future ends or is dropped, and with it the guard and the action lock |
| `Cancel`, `Settle`, `Finish` | `cancel_command` or a dropped caller, `settle_command_authority`, the answer |
| `CleanupCalls`, `CleanupConfirmed`, `CleanupUnproven` | `rollback_rejected_computer_share_start` |
| `ClearRevoked` | `clear_revoked_computer_transport_state` |
| `Serve`, `EmitFrame`, `EmitError`, `HelperResets` | the helper's `ComputerController` |

What is abstracted: a method stands for its class (`click` for every native
mutation); a call ends with an answer, since the order of the hub's own steps is
the matter of ConnectorHub; that an interrupted request is settled before the next one
reads any state is what CommandReplay proves, and is the guard of `Admit` here.  A
helper that fails to stop a capture ends its process in the code; here it leaves.
`withdrawn` and `suspect` are history: the approvals that ended, and the sessions with
a mutation of unknown outcome that have not recovered.  `Malformed` lets helpers
name a share twice, name none, or answer what does not parse.

Runs:

| run | instance | checks |
|---|---|---|
| `authority_share` | 2 requests (share start, click, status), 1 helper, 2 shares, malformed answers | the display is authorized, approvals are final, nothing acts after an unknown outcome |
| `authority_session` | 1 request of any method, 2 helpers, 1 share, malformed answers, fairness | a replacement is spared, its gate is its own, rejected captures end |
| `authority_stop` | 2 share starts, 1 helper, 2 shares, well-behaved helper | refutes that a confirmed stop is true (finding) |

Bounds: two requests are the fewest where one meets what another left; two
connections the fewest where a task outlives its session; with one slot for retired
shares (`MaxRetired`, 256 in the code) and two shares the session saturates.  Each
request performs one action, each connection is used once.  One branch is beyond
these bounds: that `Dispatch` refuses a start in a session which is saturated
already takes a third start.  The theorems below cover it.

The finding: the cleanup of a rejected share start is a task of its own, so that a
caller who leaves cannot cancel it; but the action lock goes with the caller.
Another start can then be served, approved and observed while the cleanup holds
its confirmation and waits for the data lock.  The cleanup compares the session
and not the share: it retires the new share and publishes that its stop was
confirmed, while the helper captures it.  `StoppedUnlessAbandoned` states what is
left: this needs a caller who left, and `authority_share` checks it.

Fairness: the tasks of the server run, and a call on the hub returns, by its timer
at the latest.  Nothing is assumed of helpers, callers or connections.

### What is proved

`ComputerAuthority_proofs` proves `TypeOK`, `GateIsOfHelper`, `DisplayIsAuthorized`,
`ActiveIsApproved`, `NeverReapproved`, `ReplacementIsSpared` and `UnknownBlocksActing` for
every set of requests, connections and shares, every traffic and every bound on the
retired shares, from the assumptions that the bound is positive and that the
sentinels are none of the values they stand beside.  The inductive invariant is
`Inv /\ Returned /\ Suspects`:

* `TypeOK`; `Sessions`: the published helper has said hello, and is the current one
  whenever there is one, and a session that is to be cleared late is not current;
  `Targets`: an admitted request is for a session that was published, and only such
  a request has a guard, a settlement or a cleanup;
* `GateIsOfHelper`, `DisplayIsAuthorized`, `ActiveIsApproved`, `NeverReapproved`, and
  `Final`, which makes the last one inductive: an approval that ended is in the set
  of retired shares of its session's gate, or the gate is saturated, or the session
  is over.  This is why `retire_share_id` saturates where it could evict, and why the
  gate must not be dropped while its session lives;
* `Suspects`: a suspect session is gated, or a request exists that is canceled and
  not settled, or returned and not looked at, and will gate it.  `Returned`, a call
  that returned waits no more, keeps its answer from changing meanwhile.

As in the other proofs, each action is first shown to be of a few kinds:
`PublicStep` lists the eight ways the published state changes (kept, cleared, first
published, withdrawn, approved, shown, observed, described), `SessionStep` what
happens to connections, `ControlStep` and `StepSeen` what happens to a request.  The
invariant is then preserved by the kinds.  The lemmas about `Retire`, `NoteStopped`,
`RevokeAgain` and `Approve` say in one relation, `Retires`, that a gate only ever
learns.

`StoppedUnlessLeft`, the last section of the module, is `Spec =>
[]StoppedUnlessAbandoned` under the same assumptions.  A stop that was confirmed could be false by the time it is published,
if a start were served in between.  That it is not takes the action lock, the guard
and the wire together, and the inductive invariant adds to the one above:

* `OneLive` and `Stages`: one request holds the action lock, and where a request is
  while its guard is armed or its cleanup runs.  A cleanup whose caller is still there
  is the lock's, so that no other guard is armed meanwhile;
* `Commands`, `Results`, `Starts`: what is on the wire was sent, once; a start that is
  still on the wire to the current connection has its guard armed, and no answer yet;
* `Stops`: hence a confirmed stop that is yet to be published is still true, unless
  its caller left.  This is the part that fails when the caller leaves (the finding);
* `Replaced`: a start that is being observed has replaced the status that said
  `rolledBack`; `Gone`: the current connection has not left.

Only model-checked: the liveness of `authority_session` (`RevokedIsForgotten`,
`PendingResolves`, `RejectedCaptureEnds`).

## HumanPause

State: `paused`, `unsure` and `loaded` are the memory of the worker
(`humanControlPause`, `humanControlPauseUncertain`, how far `initializeControlState`
is), `found` what its two reads returned; `marker` and `kept` are the two stores;
`jobs[a]` the writes issued to area `a` and not applied yet, in order; `pen[c]` where
the persistence of stop `c` (or of the popup's Resume) stands.

| action | code |
|---|---|
| `Latch`, `Stop` | `latchHumanControlPause` and the first stretch of `persistHumanControlPause` |
| `PenMarker`, `PenLocal`, `PenLocalFails`, `PenClear`, `PenAgain` | the completions of its writes, `background.js` 413-435 |
| `Resume`, `ResumeLifts`, `ResumeEnds`, `ResumeFails`, `ResumeRestores` | `resumeHumanControlFromPopup` |
| `Wake`, `Read`, `Load` | `initializeControlState`, 1779-1820 |
| `WorkerDies`, `BrowserQuits` | a new worker; `storage.session` outlives the first and not the second |

An action is a stretch between two awaits; every write may fail, and is applied at
any later moment, but in the order of its area.  `since` and `raced` are history:
how far a stop that came after the last click on Resume got, and the stops latched
while a Resume was writing.  Those are excepted from both properties: `ResumeEnds`
clears the pause in memory whatever was latched meanwhile (`background.js:462`),
though `docs/BROWSER_CONTROL.md:63` says that only a click on Resume does, and here
the click came first.

### What is proved

`HumanPause_proofs` proves `PauseTypeOK`, `InForce` and `Durable` for every set of
stops, with any number of crashes and failed writes.  They are not inductive: what a
store will hold depends on the writes still on their way.  `PauseInv` says it of each
position of the two queues.

* `Roles`: the popup is none of the stops, so that a write of its Resume is told from
  a stop's.
* `SessionInv`: who stores a marker has a write in the queue; a Resume that no stop
  raced leaves no marker to be stored behind it; a marker is only taken back when the
  pause is stored in storage.local, or by a Resume.
* `LocalInv`: whatever lifts the pause in storage.local is the write of a Resume, or
  comes before one.
* `KeptInv`: a stop that no Resume raced is behind whatever lifts the pause, and once
  it is kept nothing in the queue lifts it.
* `StateInv`: memory follows: a stop that counts is paused in memory once the worker
  has read, and what it has read meanwhile says so.
* `Once`: each writer has one write in an area at most, so a completion is its own.

The queues change in three ways only, a push, a pop and rest, and the lemmas about
them (`SessionPop`, `LocalPush`, ...) are used by one lemma per action.

## BrowserControl

State: `lease`, `epoch`, `revocation`, `cleanups`, `teardowns`, `attaches`, `detaches`,
`intentional` and `canceled` are the variables of `background.js` of the same meaning
(`controlLease`, `controlEpoch`, `lastControlRevocation`, `pendingControlCleanups`,
`pendingControlTeardowns`, `pendingDebuggerAttaches`, `pendingDebuggerDetaches`,
`intentionalDetachTabId`, the canceled command contexts).  `call[c]` says where each
call stands and holds its locals: a start, a stop, the listener of a tab, the alarm,
the heartbeat, the initialization.  `saved` and `writes` are `storage.session` and the
chain `controlStateWrite`; `attached`, `ops` and `notice` are Chrome: the debugged tabs,
the debugger calls it has to run, in order, and the onDetach it has to deliver.
`ended`, `overrun` and `forgotten` are history: the sessions whose end was reported, the
starts that went on over a stop, and those whose record was lost (below).

| action | code |
|---|---|
| `StopTakes`, `StopFindsNone`, `StopInitialized`, `StopDetaches`, `StopConfirms`, `StopEnds` | `stopControl`, `synchronouslyTakeControlLease` |
| `Release`, `Notes` | the popup's Release control; `noteHumanPausePersistenceFailure` |
| `SweepSkips`, `SweepDetaches`, `SweepChecks`, `SweepWritten`, `AlarmRings` | `retryPendingControlCleanups`, `confirmPendingControlCleanup`, the alarm |
| `StartCall` to `StartIntends`, `StartAttaches`, `StartWithdraws` | `startControl` up to `chrome.debugger.attach` |
| `StartLeases`, `StartReady`, `StartCommits`, `StartBreaks` | the lease, its initialization and its commit |
| `StartGivesUp`, `StartSettles`, `StartSweeps` | `markUnknownAttachCleanup`, `settleUnknownDebuggerAttach` |
| `CancelStart` | the server's cancel of the command of a start |
| `BeatBegins`, `BeatHolds`, `BeatEnds`, `BeatFails` | `heartbeatControl` |
| `OnDetach`, `HardInitialized`, `HardWrites` | `debugger.onDetach`, `hardRevokeDetached` |
| `BootWakes` to `BootFails` | `initializeControlState`, `finishRecoveredLease` |
| `Disk` | a write of `persistControlState` is applied or fails |
| `RunChrome`, `ChromeDetaches` | Chrome (external): runs a debugger call; the user's Cancel, a tab that goes |
| `WorkerRestarts`, `BrowserRestarts` | only the stores survive; only `storage.local` does |

The worker is single threaded.  A continuation whose promise is settled runs before
the next event is taken: `Ready` names those, and `Next` lets no outside event come
before them.  Everything between two awaits is one action, and everything may come in
between: another start, a stop, an alarm, Chrome's events, the death of the worker.
A debugger call may time out at any moment (`Counts`), and is then still with Chrome.

Three things are assumed of Chrome and of its storage: the calls on one tab run in
order; the answer to a call does not overtake the onDetach of an earlier one; and no
attach runs, nor is a write of the chain applied, while `getTargets` is asked
(`Asking`), whose answer is one atomic look.  They narrow the races to those that the
code is responsible for.

Abstracted: a lease is its tab, owner and epoch, and the start that made it; the checks of the document
(`verifyControlDocument`, the frames) may fail or not, without a state of their own;
a lease's deadline is a nondeterministic failure of the heartbeat; the second between
two confirmations of a cleanup is the choice `apart`; the look at the blank tabs the
bridge has made (1900-1912), which the initialization awaits after its reads, is part
of `BootLoads`.

Runs:

| run | instance | checks |
|---|---|---|
| `control_restart` | 1 tab, 1 crash, 1 failure or timeout, any Resume; either 1 start and 1 event (a stop, or Chrome's Cancel, which latches the pause), or no start and 2 events among 3 stops, 2 of which latch the pause | types, every debugged tab is covered in memory and on disk, the pause is in force and durable |
| `control_lease` | 2 starts for 1 tab, one that may be canceled, 1 crash, fairness | an ended session stays ended; cleanups end, debugger and lease agree in the end |
| `control_tabs` | 2 starts for 2 tabs and 2 owners, one by the popup and one that may be canceled, 1 crash | one tab at most is debugged |
| `control_boot` | 1 start, 1 crash, fairness | refutes that the initialization settles (finding) |

Bounds: one crash, one failure and one event are the fewest that meet at every pair
of steps of a start and a stop.  `Apart`, the constraint of `control_restart`, keeps the
starts and the latching stops apart, which a run could not check together: two stops
are the fewest where a write to storage.local follows the one that `Durable` speaks of.
They do meet there: a stop that a Resume has undone writes no pause while the write of
a later stop waits behind it, and a stop is stored while another has its marker still
to write.  Two starts are the fewest where one renews, replaces or
overtakes another; two tabs the fewest where a switch of target can leave one behind.
An attach that was given up and succeeds later is met by `control_lease` after a
cancellation or a crash; after a timeout, which is a failure of Chrome's call, only by
`control_restart` and the proofs of `CrashCovered` and `Covered`.
`Stopper` is empty in the runs that do not speak of the pause.  A start ends and is
not made again, so that the runs end and deadlock is not checked.

Fairness (`Fairness`): the continuations of the worker run, Chrome runs the calls it
was given, a storage write ends.  Strong fairness of `SweepChecks(Alarm, TRUE, TRUE)` is
the alarm of every thirty seconds: of the confirmations of a cleanup, two are a
second apart and both see the targets.  Nothing is assumed of starts, stops, cancels
or events.

The finding: when `initializeControlState` recovers a lease it runs debugger commands.
One that times out stops control itself (`background.js:2697`) and raises;
`finishRecoveredLease` then stops control again (2017), finds no lease, and awaits
`initializeControlState` (2159), the promise it is running in.  Every later call waits
with it until the worker dies.

Other places where the code does not keep what the properties say, and which they
except, each by a name:

* `overrun`: `enableFrameAutoAttach` (3237) swallows the timeout of a frame that came
  before the check of the lease, so that a start goes on over a stop, deletes the
  record of its cleanup and the revocation (2581), and commits;
* `raced`: see HumanPause;
* `Stuck`: the finding, and a write that fails while the worker initializes (1780),
  whose rejected promise every later call awaits;
* `forgotten`: a record that is lost.  A restart after that leaves a debugged tab of
  which nothing tells, so that `Covered`, `CrashCovered` and `OneDebugger` all except
  it.  The proofs brought out four ways to lose one:
  * a retry of the cleanups whose claim of the tab a stop took over (2176) confirms or
    rewrites what is there in the end, and that may be the intent of another start by
    then: `confirmPendingControlCleanup` (2234) compares no token (`Robbed`);
  * an attach that settles late, when `onDetach` has already taken it out of
    `pendingDebuggerAttaches` (5410) and another start has begun:
    `settleUnknownDebuggerAttach` (2336) then overwrites the intent of that start with
    a settled record, which a retry deletes; so may `markUnknownAttachCleanup` when a
    start gives up (`Robbed`);
  * a recovered lease whose tab `getTargets` did not show in time is given up with no
    cleanup, debugged or not (1960-1978), if its detach is not over in time (`BootLost`);
  * the alarm does not wait for the initialization (5405): what its retry writes leaves
    out the stored lease that is still to be detached (`Unread`).

And three that are outside the model or the properties, worth knowing: the record
of the last revocation is one slot, so that a stop on another tab overwrites what
barred a tab; `browser.control.start` that times out on the server leaves a lease nobody
uses until its heartbeat fails; and a lease that is recovered while the pause is on
becomes usable with Resume.

### What is proved

`BrowserControl_proofs` proves `ControlPauses`, `Spec => PauseSpec`: every step of the
composition is a step of `HumanPause` or leaves its variables alone.  `InForce` and
`Durable` follow for any tabs, owners, starts and stops, with the restarts, Chrome's
events and the initialization as they are here.

`EndedForGood` is `Spec => []EndedStaysEnded`: a session whose end was reported never
controls again.  The lease is in memory, on the disk, in the snapshots that are queued
for it and with the initialization, so that the property needs `LeaseInv`:

* `CoreTypes` and `Posts`: the types, and what a call holds where it needs it;
* `Returns`: a part that several calls share (a stop, a retry of the cleanups) returns
  to the place it was called from;
* `Loading` and `Boots`: the lease and the pause are loaded together, and nobody is in
  control, or on the way, before the initialization has looked at the stored lease;
* `Waits`: a queued write names the one call that waits for it, and that call goes on
  with its answer only;
* `OneLease`: a start makes one lease.  Neither the memory, the disk, a queued
  snapshot, a stop under way nor an ended session names a start that is still `New`;
* `Taken`: the lease a stop took is gone from memory, from every snapshot that is
  queued after the stop's last, and from the disk when that write is answered well;
* `Gone`: an ended session is in neither of them, nor with the initialization.

A step is a turn of one call, a lease that is made, a write that is applied, or a
restart, and has a lemma for each (`TurnKeeps`, `LeaseKeeps`, `DiskKeeps`,
`RestartKeeps`).  `TurnKeeps` asks of a turn what the code must do to keep each part:
where it may take the lease (`Takes`), end a session (`Ends`), use up a start (`Uses`),
look at the disk (`Looks`), return (`ReturnsAt`), and what it holds (`Holding`).
`ControlTypes` is `Spec => []ControlTypeOK`, from `LeaseInv`, `SideTypes` (the rest of
the variables) and `PauseTypes`.

`BrowserControl_cover_proofs` proves `Covered`, `CrashCovered` and `OneDebugger`, for any
tabs, owners, starts and stops and any number of restarts, failures, timeouts and
events.  None is inductive.  That a tab is covered on disk the moment Chrome runs an
attach is known from what its start stored long before, and from nobody having taken
the record since; that no second tab is debugged, from the next start not getting so
far.  `Strong` is inductive as long as no start was overrun and no record was lost
(`Orderly`), together with `Base` (`LeaseInv` and the types):

* `Chromes`, `Owners`: Chrome has at most one attach of a tab to run, that of a start
  that waits for it or gave it up, or of a worker that died, and none while there is a
  lease; of the detaches somebody waits for, at most one, behind the attach of a worker
  that died;
* `Enters`, `Sole`: a stop under way, and a start between the end of the last lease and
  its own, have the control to themselves, and such a start goes on as soon as it is
  answered, before any other call;
* `Intends`, `Records`: what a start that is about to attach has stored, or on its way;
  while its attach is intended or with Chrome, no copy of its record, in memory or in
  the plan of a retry, says that it has settled;
* `Claims`: a retry that has seen no debugger for it once cannot begin its second look
  before the start has gone on.  Without it two confirmations could delete the record
  of an attach that has yet to run;
* `Unknowns`: nothing names a start that has not got so far;
* `Sights`: whoever sees a tab detached, with no detach outstanding, is right;
* `Rests`, `Places`: what the calls may do before the memory is filled, and that a lease
  is on the tab of its start;
* `Memory`, `Stored`: every tab that is debugged, about to be, or whose end Chrome has
  still to tell, is found in memory, in the store, and in every write on its way to it;
* `Single`: there is one such tab at most.

Every turn of a call has a lemma, and so have the initialization, Chrome's events, the
writes and the restarts; `Fitting` puts them together, and the three theorems follow.
`NoneApart` is the assumption that nothing (`None`) is neither a lease nor a record of a
cleanup; it is true of JavaScript's `null`.

Only model-checked: the liveness of `control_lease` (`QuarantineEnds`, `Reconciled`), and
the exceptions themselves: that the places listed above lose a record is an argument
about the code, and no run shows it.

## Not modelled

* Commands, pairing and approvals of the extension (`background.js`, the rest): the
  action queue and its contexts, navigation and document authority, held inputs,
  dialogs, frames, the transport and its rotation, the pairing record.  What they ask
  of the lease is a start, its cancellation and a stop, which `BrowserControl` takes.
  `bindControlSession` and `tabs.onRemoved` (whose effect is that of onDetach) are left
  out with them.
* The browser pipeline's sessions, lease commits and dialog gate: `CommandReplay` has
  the latch, its installation and its removal.
* The computer helper's own session loop, `ShareMailbox`, `CommandCancellation`, frame
  leases and pointer revisions: `ComputerAuthority` sees a helper by the order of its
  answers.
* Hello payloads, the challenge-response of `ws_auth`, request parsing, redaction, the
  error table: conversions without a state.
* Token, settings, shell adapter, desktop host, setup, update, dashboard, content
  scripts, platform back ends: operating system or document input and output around
  one file, one process or one page.
* `evidence/`, `scripts/`, `vendor/`, `packaging/`: acceptance records and scripts,
  third-party and build code.  They are nearly all of the repository's JavaScript lines
  (the records alone hold one generated copy of a rig per version), and no part of the
  program that runs; the server is Rust.
