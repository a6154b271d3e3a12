--------------------- MODULE CommandReplay_fence_proofs ---------------------
(***************************************************************************)
(* Nobody is told that the outcome of a call is unknown before the         *)
(* authority the call may have used is withdrawn: theorems about the latch *)
(* and the revocation of CommandReplay.                                    *)
(***************************************************************************)
EXTENDS CommandReplay_settlement_proofs

USE RequestAssumption, TrafficAssumption, CacheAssumption

-----------------------------------------------------------------------------
(* The inductive invariant.                                                *)

\* The calls whose authority an interruption withdraws.
BrowserOwner(r) == bound[r] /\ Browser(r)
ClickOwner(r)   == bound[r] /\ Method(r) = "computer.click"

\* Once withdrawn for r the page stays so, unless r lifts the latch of its own
\* cancellation.
Safe(r) == Fenced(r) \/ LiftedItself(r)

\* The handler has not given up, nor answered.
Working(r) == Live(r) /\ pc[r] \notin {"fencing", "unwinding"}

\* How an action ended, while its handler is where it is.
Outcoming ==
  \A r \in Request :
    /\ pc[r] \in BeforeRelay \cup {"idle", "calling", "following", "publishing", "recovering"} =>
         outcome[r] = "none"
    /\ pc[r] = "following" => Method(r) \in {"page.click", "computer.click"}
    /\ pc[r] = "recovering" => Method(r) = "page.observe"
    /\ outcome[r] = "dropped" => pc[r] \in {"fencing", "unwinding", "gone"}
    /\ outcome[r] # "interrupted"

\* Whoever is about to lift the latch has reobserved the page for all others.
Reobserving ==
  \A r, s \in Request : pc[s] = "recovering" /\ bound[r] /\ r # s => r \in reobserved

\* A cancellation has withdrawn the page before it fires the signal; one that
\* completes the call by itself found it unbound.
Canceled ==
  /\ \A r \in Request : signal[r] => LatchedFor(r)
  /\ \A c \in Canceller, r \in Request : canceled[c] = r =>
       /\ Past(c) /\ BrowserOwner(r) => Safe(r)
       /\ cpc[c] = "completing" => ~bound[r]

\* A handler that gives up has withdrawn the page, or has the lock still.
Abandoned(r) ==
  /\ pc[r] = "fencing" /\ outcome[r] = "dropped" /\ bound[r] => lock = r
  /\ BrowserOwner(r) =>
       /\ outcome[r] = "dropped" /\ pc[r] # "fencing" => Safe(r)
       /\ outcome[r] = "unknown" /\ pc[r] # "latching" => Safe(r)
       /\ outcome[r] = "canceled" => Safe(r)

\* While a handler works, its entry is taken away only by a cancellation that is
\* past the latch; nor does it leave an entry behind before the page is withdrawn.
Kept(r) ==
  \A i \in Id : BrowserOwner(r) /\ IdOf(r) = i =>
    /\ Working(r) /\ ~Present(i) => LatchedFor(r)
    /\ Interrupted(i) /\ registry[i].of = r /\ ~registry[i].byCaller =>
         pc[r] = "fencing" \/ (pc[r] \in {"unwinding", "gone"} /\ Safe(r))

\* The computer is revoked before its interrupted owner leaves, and before the
\* owner itself tells that the outcome is unknown.
Revoking ==
  /\ \A p \in Settler, k \in Key, r \in Request :
       /\ stage[p] = "publishing" /\ target[p] = k
       /\ Present(k) /\ registry[k].of = r /\ ClickOwner(r)
       => revoked
  /\ \A r \in Request :
       /\ ClickOwner(r) /\ Present(KeyOf(r))
       /\ pc[r] \in {"logging", "acted"} /\ outcome[r] = "unknown"
       => revoked

\* A bound call is accounted for, and canceled only by a canceller.
Bounded ==
  \A r \in Request : bound[r] =>
    /\ \A i \in Id : IdOf(r) = i => Accounted(i)
    /\ outcome[r] = "canceled" => Blamed(r)

FenceInv ==
  /\ Outcoming /\ Reobserving /\ Canceled /\ Revoking /\ Bounded
  /\ \A r \in Request : Abandoned(r) /\ Kept(r)

-----------------------------------------------------------------------------
(* What one step does.                                                     *)

\* A handler moves on while the outcome of its action stands.
Onward(r) ==
  /\ outcome'[r] = outcome[r]
  /\ \/ pc'[r] = pc[r]
     \/ pc[r] = "idle" /\ pc'[r] \in {"queued", "done"}
     \/ pc[r] \in BeforeRelay /\ pc'[r] \in BeforeRelay \cup {"calling"}
     \/ pc[r] = "calling" /\ pc'[r] = "following" /\ Method(r) \in {"page.click", "computer.click"}
     \/ pc[r] \in {"calling", "following"} /\ pc'[r] = "publishing"
     \/ /\ pc[r] = "publishing" /\ pc'[r] = "recovering"
        /\ Method(r) = "page.observe" /\ Publish(r)
     \/ pc[r] = "latching" /\ pc'[r] = "withdrawing" /\ latched'
     \/ /\ pc[r] = "withdrawing" /\ pc'[r] = "logging"
        /\ Method(r) = "computer.click" => revoked'
     \/ pc[r] = "logging" /\ pc'[r] = "acted"
     \/ pc[r] \in {"acted", "settling"} /\ pc'[r] \in {"settling", "done", "fencing", "unwinding"}
     \/ pc[r] = "fencing" /\ pc'[r] = "unwinding" /\ (BrowserOwner(r) => latched')
     \/ pc[r] = "unwinding" /\ pc'[r] = "gone"

\* Its action ends, or is dropped.
Results(r) ==
  \/ /\ outcome'[r] \in {"ok", "failed"} /\ pc'[r] = "logging"
     /\ pc[r] \in {"calling", "following", "publishing", "recovering"}
  \/ outcome'[r] = "failed" /\ pc[r] = "reading" /\ pc'[r] = "acted"
  \/ outcome'[r] = "ok" /\ pc[r] = "following" /\ pc'[r] = "latching"
  \/ /\ outcome'[r] = "unknown" /\ pc[r] = "calling"
     /\ \/ pc'[r] = "latching"
        \/ pc'[r] = "withdrawing" /\ ~Browser(r)
        \/ pc'[r] = "logging" /\ ~Browser(r) /\ Method(r) # "computer.click"
  \/ /\ outcome'[r] = "canceled" /\ pc'[r] = "acted"
     /\ \/ pc[r] \in Waiting /\ signal[r]
        \/ pc[r] = "binding" /\ ~bound[r]
  \/ /\ outcome'[r] = "dropped" /\ pc[r] \in Waiting /\ lock' = lock
     /\ \/ pc'[r] = "fencing"
        \/ pc'[r] = "unwinding" /\ IdOf(r) \in Id /\ ~Present(IdOf(r))

HandlerMoves == \A r \in Request : Onward(r) \/ Results(r)

\* The lock is let go by its holder, the latch is lifted by an observation of the
\* page, the revocation by one of the computer, and a handler is signaled by its
\* canceller.
LockMoves == \A r \in Request : lock = r => lock' = r \/ pc'[r] \in {"acted", "gone"}

LatchMoves ==
  /\ latched => latched' \/ \E s \in Request : Recover(s)
  /\ reobserved \subseteq reobserved' /\ lifted \subseteq lifted'

RevokedMoves ==
  revoked => revoked' \/ \E s \in Request : Publish(s) /\ Method(s) = "computer.observe"

SignalMoves ==
  \A r \in Request : signal'[r] => signal[r] \/ \E c \in Canceller : CancelSignals(c) /\ canceled[c] = r

AuthorityMoves == HandlerMoves /\ LockMoves /\ LatchMoves /\ RevokedMoves /\ SignalMoves
-----------------------------------------------------------------------------
(* Every step is one of AuthorityMoves.                                    *)

\* Nothing moves the authority.
LEMMA SteadyAuthority ==
  ASSUME UNCHANGED <<latched, reobserved, lifted, revoked, signal>>
  PROVE  LatchMoves /\ RevokedMoves /\ SignalMoves
  BY DEF LatchMoves, RevokedMoves, SignalMoves

\* No handler moves.
LEMMA SteadyHandlers ==
  ASSUME UNCHANGED <<pc, outcome, lock>>
  PROVE  HandlerMoves /\ LockMoves
  BY DEF HandlerMoves, Onward, LockMoves

\* One handler moves, and lets the lock go only at its end.
OnlyMoves(r) ==
  /\ \A s \in Request \ {r} : pc'[s] = pc[s] /\ outcome'[s] = outcome[s]
  /\ lock' = lock \/ lock = NoRequest \/ (lock = r /\ pc'[r] \in {"acted", "gone"})

\* If it moves as it may, every handler does.
LEMMA OneHandler ==
  ASSUME NEW r \in Request, OnlyMoves(r), Onward(r) \/ Results(r)
  PROVE  HandlerMoves /\ LockMoves
<1>1. HandlerMoves
  BY DEF HandlerMoves, OnlyMoves, Onward
<1>2. LockMoves
  BY DEF LockMoves, OnlyMoves
<1> QED BY <1>1, <1>2

\* An action that ends in one of the ways.
LEMMA FinishMoves ==
  ASSUME TypeOK, NEW r \in Request, NEW how, Finish(r, how)
  PROVE  OnlyMoves(r) /\ pc'[r] = "acted" /\ outcome'[r] = how
  BY DEF Finish, Goto, OnlyMoves, TypeOK

\* An action that logs one of the ways.
LEMMA LogMoves ==
  ASSUME TypeOK, NEW r \in Request, NEW how, Log(r, how)
  PROVE  OnlyMoves(r) /\ pc'[r] = "logging" /\ outcome'[r] = how
  BY DEF Log, Goto, OnlyMoves, TypeOK

\* A handler goes on to another place.
LEMMA GotoMoves ==
  ASSUME TypeOK, NEW r \in Request, NEW where, Goto(r, where), outcome' = outcome,
         lock' = lock \/ lock = NoRequest \/ (lock = r /\ where \in {"acted", "gone"})
  PROVE  OnlyMoves(r) /\ pc'[r] = where /\ outcome'[r] = outcome[r]
  BY DEF Goto, OnlyMoves, TypeOK

\* The way to the connector.
LEMMA EarlyAuthority ==
  ASSUME TypeOK, NEW r \in Request,
         \/ AcquireLock(r) \/ PriorSettled(r) \/ ReadAuthority(r) \/ Bind(r) \/ Relay(r)
  PROVE  AuthorityMoves
<1>1. /\ UNCHANGED <<latched, reobserved, lifted, revoked, signal, outcome>>
      /\ lock' = lock \/ lock = NoRequest
  BY DEF AcquireLock, PriorSettled, ReadAuthority, Bind, Relay, authorityVars, historyVars
<1>2. PICK where : /\ Goto(r, where) /\ where \in BeforeRelay \cup {"calling"}
                   /\ pc[r] \in BeforeRelay
  BY DEF AcquireLock, PriorSettled, ReadAuthority, Bind, Relay, Settling, BeforeRelay
<1>3. OnlyMoves(r) /\ pc'[r] = where /\ outcome'[r] = outcome[r]
  BY <1>1, <1>2, GotoMoves
<1>4. Onward(r)
  BY <1>2, <1>3 DEF Onward
<1> QED BY <1>1, <1>3, <1>4, SteadyAuthority, OneHandler DEF AuthorityMoves

\* The ways an action is refused, and the end of an action that is canceled.
LEMMA RefusedAuthority ==
  ASSUME TypeOK, Unbound, NEW r \in Request, Refuse(r) \/ BindRefused(r) \/ SeeCancel(r)
  PROVE  AuthorityMoves
<1>1. UNCHANGED <<latched, reobserved, lifted, revoked, signal>>
  BY DEF Refuse, BindRefused, SeeCancel, authorityVars, historyVars
<1>2. CASE Refuse(r)
  <2>1. OnlyMoves(r) /\ pc'[r] = "acted" /\ outcome'[r] = "failed" /\ pc[r] = "reading"
    BY <1>2, FinishMoves DEF Refuse
  <2>2. Results(r)
    BY <2>1 DEF Results
  <2> QED BY <1>1, <2>1, <2>2, SteadyAuthority, OneHandler DEF AuthorityMoves
<1>3. CASE BindRefused(r) \/ SeeCancel(r)
  <2>1. /\ OnlyMoves(r) /\ pc'[r] = "acted" /\ outcome'[r] = "canceled"
        /\ pc[r] = "binding" \/ (pc[r] \in Waiting /\ signal[r])
    BY <1>3, FinishMoves DEF BindRefused, SeeCancel
  <2>2. pc[r] = "binding" => ~bound[r]
    BY DEF Unbound
  <2>3. Results(r)
    BY <2>1, <2>2 DEF Results
  <2> QED BY <1>1, <2>1, <2>3, SteadyAuthority, OneHandler DEF AuthorityMoves
<1> QED BY <1>2, <1>3

\* The connector answers.
LEMMA ReturnAuthority ==
  ASSUME TypeOK, Shape, NEW r \in Request, NEW result \in {"ok", "failed", "unknown"},
         CallReturns(r, result) \/ FollowUpReturns(r, result)
  PROVE  AuthorityMoves
<1>1. UNCHANGED <<latched, reobserved, lifted, revoked, signal>>
  BY DEF CallReturns, FollowUpReturns, authorityVars, historyVars
<1>2. ASSUME pc[r] = "calling", result = "ok", Method(r) \in {"page.click", "computer.click"},
             Goto(r, "following"), lock' = lock, outcome' = outcome
      PROVE  OnlyMoves(r) /\ Onward(r)
  BY <1>2, GotoMoves DEF Onward
<1>3. ASSUME pc[r] \in {"calling", "following"}, Goto(r, "publishing"), lock' = lock, outcome' = outcome
      PROVE  OnlyMoves(r) /\ Onward(r)
  BY <1>3, GotoMoves DEF Onward
<1>4. ASSUME pc[r] = "calling", NEW where \in {"latching", "withdrawing"}, Goto(r, where), lock' = lock,
             outcome' = [outcome EXCEPT ![r] = "unknown"], where = "withdrawing" => ~Browser(r)
      PROVE  OnlyMoves(r) /\ Results(r)
  <2>1. OnlyMoves(r) /\ pc'[r] = where /\ outcome'[r] = "unknown"
    BY <1>4 DEF Goto, OnlyMoves, TypeOK
  <2> QED BY <1>4, <2>1 DEF Results
<1>5. ASSUME pc[r] = "following", Goto(r, "latching"), lock' = lock,
             outcome' = [outcome EXCEPT ![r] = "ok"]
      PROVE  OnlyMoves(r) /\ Results(r)
  <2>1. OnlyMoves(r) /\ pc'[r] = "latching" /\ outcome'[r] = "ok"
    BY <1>5 DEF Goto, OnlyMoves, TypeOK
  <2> QED BY <1>5, <2>1 DEF Results
<1>6. ASSUME pc[r] = "calling", Log(r, result),
             result = "unknown" => ~Browser(r) /\ Method(r) # "computer.click"
      PROVE  OnlyMoves(r) /\ Results(r)
  BY <1>6, LogMoves DEF Results
<1>7. ASSUME pc[r] = "following", Log(r, "ok") PROVE OnlyMoves(r) /\ Results(r)
  BY <1>7, LogMoves DEF Results
<1>8. CASE CallReturns(r, result)
  <2>1. \/ /\ result = "ok" /\ Method(r) \in {"page.click", "computer.click"}
           /\ Goto(r, "following") /\ lock' = lock /\ outcome' = outcome
        \/ Goto(r, "publishing") /\ lock' = lock /\ outcome' = outcome
        \/ /\ Goto(r, "latching") /\ lock' = lock /\ outcome' = [outcome EXCEPT ![r] = "unknown"]
        \/ /\ Goto(r, "withdrawing") /\ lock' = lock /\ outcome' = [outcome EXCEPT ![r] = "unknown"]
           /\ ~Browser(r)
        \/ /\ Log(r, result)
           /\ result = "unknown" => ~Browser(r) /\ Method(r) # "computer.click"
    BY <1>8 DEF CallReturns, Browser, BrowserMethods
  <2>2. pc[r] = "calling"
    BY <1>8 DEF CallReturns
  <2>3. OnlyMoves(r) /\ (Onward(r) \/ Results(r))
    BY <1>2, <1>3, <1>4, <1>6, <2>1, <2>2
  <2> QED BY <1>1, <2>3, SteadyAuthority, OneHandler DEF AuthorityMoves
<1>9. CASE FollowUpReturns(r, result)
  <2>1. /\ pc[r] = "following"
        /\ \/ Goto(r, "publishing") /\ lock' = lock /\ outcome' = outcome
           \/ Goto(r, "latching") /\ lock' = lock /\ outcome' = [outcome EXCEPT ![r] = "ok"]
           \/ Log(r, "ok")
    BY <1>9 DEF FollowUpReturns
  <2>2. OnlyMoves(r) /\ (Onward(r) \/ Results(r))
    BY <1>3, <1>5, <1>7, <2>1
  <2> QED BY <1>1, <2>2, SteadyAuthority, OneHandler DEF AuthorityMoves
<1> QED BY <1>8, <1>9

\* An observation is published, and the latch is lifted.
LEMMA PublishAuthority ==
  ASSUME TypeOK, NEW r \in Request, Publish(r) \/ Recover(r)
  PROVE  AuthorityMoves
<1>1. CASE Publish(r)
  <2>1. UNCHANGED <<latched, signal, lifted>> /\ pc[r] = "publishing"
    BY <1>1 DEF Publish
  <2>2. reobserved \subseteq reobserved'
    BY <1>1 DEF Publish
  <2>3. revoked' = revoked \/ (Publish(r) /\ Method(r) = "computer.observe")
    BY <1>1 DEF Publish
  <2>4. LatchMoves /\ RevokedMoves /\ SignalMoves
    BY <2>1, <2>2, <2>3 DEF LatchMoves, RevokedMoves, SignalMoves
  <2>5. CASE Method(r) = "page.observe"
    <3>1. Goto(r, "recovering") /\ lock' = lock /\ outcome' = outcome
      BY <1>1, <2>5 DEF Publish
    <3>2. OnlyMoves(r) /\ Onward(r)
      BY <1>1, <2>1, <2>5, <3>1, GotoMoves DEF Onward
    <3> QED BY <2>4, <3>2, OneHandler DEF AuthorityMoves
  <2>6. CASE Method(r) # "page.observe"
    <3>1. OnlyMoves(r) /\ Results(r)
      BY <1>1, <2>1, <2>6, LogMoves DEF Publish, Results
    <3> QED BY <2>4, <3>1, OneHandler DEF AuthorityMoves
  <2> QED BY <2>5, <2>6
<1>2. CASE Recover(r)
  <2>1. /\ UNCHANGED <<reobserved, revoked, signal>> /\ lifted \subseteq lifted'
        /\ pc[r] = "recovering" /\ Log(r, "ok")
    BY <1>2 DEF Recover
  <2>2. LatchMoves /\ RevokedMoves /\ SignalMoves
    BY <1>2, <2>1 DEF LatchMoves, RevokedMoves, SignalMoves
  <2>3. OnlyMoves(r) /\ Results(r)
    BY <2>1, LogMoves DEF Results
  <2> QED BY <2>2, <2>3, OneHandler DEF AuthorityMoves
<1> QED BY <1>1, <1>2

\* A handler withdraws what an unknown outcome may have disturbed.
LEMMA WithdrawAuthority ==
  ASSUME TypeOK, NEW r \in Request, Quarantine(r) \/ WithdrawOwn(r)
  PROVE  AuthorityMoves
<1>1. CASE Quarantine(r)
  <2>1. /\ UNCHANGED <<reobserved, lifted, revoked, signal, lock, outcome>> /\ latched'
        /\ pc[r] = "latching" /\ Goto(r, "withdrawing")
    BY <1>1 DEF Quarantine, historyVars
  <2>2. LatchMoves /\ RevokedMoves /\ SignalMoves
    BY <2>1 DEF LatchMoves, RevokedMoves, SignalMoves
  <2>3. OnlyMoves(r) /\ Onward(r)
    BY <2>1, GotoMoves DEF Onward
  <2> QED BY <2>2, <2>3, OneHandler DEF AuthorityMoves
<1>2. CASE WithdrawOwn(r)
  <2>1. /\ UNCHANGED <<reobserved, lifted, latched, signal>> /\ (revoked => revoked')
        /\ Method(r) = "computer.click" => revoked'
        /\ pc[r] = "withdrawing" /\ Log(r, outcome[r])
    BY <1>2 DEF WithdrawOwn, Withdraw, historyVars
  <2>2. LatchMoves /\ RevokedMoves /\ SignalMoves
    BY <2>1 DEF LatchMoves, RevokedMoves, SignalMoves
  <2>3. OnlyMoves(r) /\ Onward(r)
    BY <2>1, LogMoves DEF Onward
  <2> QED BY <2>2, <2>3, OneHandler DEF AuthorityMoves
<1> QED BY <1>1, <1>2

\* What was logged is returned.
LEMMA LoggedAuthority ==
  ASSUME TypeOK, NEW r \in Request, Logged(r)
  PROVE  AuthorityMoves
<1>1. UNCHANGED <<latched, reobserved, lifted, revoked, signal>> /\ pc[r] = "logging" /\ Finish(r, outcome[r])
  BY DEF Logged, authorityVars, historyVars
<1>2. OnlyMoves(r) /\ Onward(r)
  BY <1>1, FinishMoves DEF Onward
<1> QED BY <1>1, <1>2, SteadyAuthority, OneHandler DEF AuthorityMoves

\* A handler begins, or is answered at once.
LEMMA ArriveAuthority ==
  ASSUME TypeOK, NEW r \in Request, Arrive(r)
  PROVE  AuthorityMoves
<1>1. PICK q \in Traffic : \/ Admit(r, q) \/ Replay(r, q)
                          \/ RefuseDuplicate(r, q) \/ RefuseReuse(r, q)
  BY DEF Arrive
<1>2. UNCHANGED <<lock, outcome, latched, reobserved, lifted, revoked, signal>>
  BY <1>1 DEF Admit, Replay, RefuseDuplicate, RefuseReuse, AnswerAtOnce, authorityVars, historyVars
<1>3. pc[r] = "idle" /\ (Goto(r, "queued") \/ Goto(r, "done"))
  BY <1>1 DEF Admit, Replay, RefuseDuplicate, RefuseReuse, AnswerAtOnce, Ask
<1>4. OnlyMoves(r) /\ Onward(r)
  BY <1>2, <1>3, GotoMoves DEF Onward
<1> QED BY <1>2, <1>4, SteadyAuthority, OneHandler DEF AuthorityMoves

\* A handler answers, waits for a settlement, or unwinds.
LEMMA EndAuthority ==
  ASSUME TypeOK, NEW r \in Request,
         \/ Complete(r) \/ AwaitSettlement(r) \/ FenceUnbound(r) \/ FenceBound(r) \/ Unwind(r)
  PROVE  AuthorityMoves
<1>1. CASE Complete(r) \/ AwaitSettlement(r)
  <2>1. /\ UNCHANGED <<lock, outcome, latched, reobserved, lifted, revoked, signal>>
        /\ pc[r] = "acted" /\ (Goto(r, "done") \/ Goto(r, "settling"))
    BY <1>1 DEF Complete, AwaitSettlement, authorityVars, historyVars
  <2>2. OnlyMoves(r) /\ Onward(r)
    BY <2>1, GotoMoves DEF Onward
  <2> QED BY <2>1, <2>2, SteadyAuthority, OneHandler DEF AuthorityMoves
<1>2. CASE FenceUnbound(r) \/ FenceBound(r)
  <2>1. /\ UNCHANGED <<lock, outcome, reobserved, lifted, revoked, signal>> /\ (latched => latched')
        /\ pc[r] = "fencing" /\ Goto(r, "unwinding") /\ (BrowserOwner(r) => latched')
    BY <1>2 DEF FenceUnbound, FenceBound, authorityVars, historyVars, BrowserOwner, TypeOK
  <2>2. LatchMoves /\ RevokedMoves /\ SignalMoves
    BY <2>1 DEF LatchMoves, RevokedMoves, SignalMoves
  <2>3. OnlyMoves(r) /\ Onward(r)
    BY <2>1, GotoMoves DEF Onward
  <2> QED BY <2>2, <2>3, OneHandler DEF AuthorityMoves
<1>3. CASE Unwind(r)
  <2>1. /\ UNCHANGED <<outcome, latched, reobserved, lifted, revoked, signal>>
        /\ lock' = lock \/ lock = r
        /\ pc[r] = "unwinding" /\ Goto(r, "gone")
    BY <1>3 DEF Unwind, authorityVars, historyVars
  <2>2. OnlyMoves(r) /\ Onward(r)
    BY <2>1, GotoMoves DEF Onward
  <2> QED BY <2>1, <2>2, SteadyAuthority, OneHandler DEF AuthorityMoves
<1> QED BY <1>1, <1>2, <1>3

\* A handler is dropped.
LEMMA DropAuthority ==
  ASSUME TypeOK, Asked, NEW r \in Request, DropHandler(r)
  PROVE  AuthorityMoves
<1>1. UNCHANGED <<lock, latched, reobserved, lifted, revoked, signal>>
  BY DEF DropHandler, authorityVars, historyVars
<1>2. pc[r] \in Waiting \cup {"acted", "settling"}
  BY DEF DropHandler
<1>3. \/ pc' = [pc EXCEPT ![r] = "fencing"]
      \/ pc' = [pc EXCEPT ![r] = "unwinding"] /\ IdOf(r) # NoId /\ ~Present(IdOf(r))
  BY DEF DropHandler, Goto
<1>4. IdOf(r) # NoId => IdOf(r) \in Id
  BY <1>2 DEF Asked, IdOf, Waiting
<1>5. outcome' = [outcome EXCEPT ![r] = IF pc[r] \in Waiting THEN "dropped" ELSE outcome[r]]
  BY DEF DropHandler
<1>6. OnlyMoves(r)
  BY <1>1, <1>3, <1>5 DEF OnlyMoves, TypeOK
<1>7. pc'[r] = "fencing" \/ (pc'[r] = "unwinding" /\ IdOf(r) \in Id /\ ~Present(IdOf(r)))
  BY <1>3, <1>4 DEF TypeOK
<1>8. Onward(r) \/ Results(r)
  <2>1. CASE pc[r] \in Waiting
    <3>1. outcome'[r] = "dropped"
      BY <1>5, <2>1 DEF TypeOK
    <3> QED BY <1>1, <1>7, <2>1, <3>1 DEF Results
  <2>2. CASE pc[r] \notin Waiting
    <3>1. outcome'[r] = outcome[r]
      BY <1>5, <2>2 DEF TypeOK
    <3> QED BY <1>2, <1>7, <2>2, <3>1 DEF Onward
  <2> QED BY <2>1, <2>2
<1> QED BY <1>1, <1>6, <1>8, SteadyAuthority, OneHandler DEF AuthorityMoves

\* A canceller installs the latch, and fires the signal.
LEMMA CancellerAuthority ==
  ASSUME TypeOK, NEW c \in Canceller, CancellerStep(c)
  PROVE  AuthorityMoves
<1>1. ASSUME NEW i \in Id, Cancel(c, i) \/ CancelRefused(c, i)
      PROVE  UNCHANGED <<lock, pc, outcome, signal, latched, reobserved, lifted, revoked>>
  BY <1>1 DEF Cancel, CancelRefused, handlerVars, authorityVars, historyVars
<1>2. ASSUME CancelLatches(c) \/ CancelSignals(c)
      PROVE  /\ UNCHANGED <<lock, pc, outcome, reobserved, lifted, revoked>> /\ (latched => latched')
             /\ \/ signal' = signal
                \/ CancelSignals(c) /\ signal' = [signal EXCEPT ![canceled[c]] = TRUE]
  BY <1>2 DEF CancelLatches, CancelSignals, handlerVars, authorityVars, historyVars
<1>3. ASSUME CancelCompletes(c) \/ DropCanceller(c)
      PROVE  UNCHANGED <<lock, pc, outcome, signal, latched, reobserved, lifted, revoked>>
  BY <1>3 DEF CancelCompletes, DropCanceller, handlerVars, authorityVars, historyVars
<1>4. /\ UNCHANGED <<lock, pc, outcome, reobserved, lifted, revoked>> /\ (latched => latched')
      /\ signal' = signal \/ (CancelSignals(c) /\ signal' = [signal EXCEPT ![canceled[c]] = TRUE])
  BY <1>1, <1>2, <1>3 DEF CancellerStep
<1>5. SignalMoves
  BY <1>4 DEF SignalMoves, TypeOK
<1>6. LatchMoves /\ RevokedMoves
  BY <1>4 DEF LatchMoves, RevokedMoves
<1> QED BY <1>4, <1>5, <1>6, SteadyHandlers DEF AuthorityMoves

\* A settler revokes what the call used, and ends the handler that waited for it.
LEMMA SettlerAuthority ==
  ASSUME TypeOK, NEW p \in Settler, SettlerStep(p)
  PROVE  AuthorityMoves
<1>1. CASE Claim(p) \/ Clear(p)
  <2>1. UNCHANGED <<lock, pc, outcome, latched, reobserved, lifted, signal>> /\ (revoked => revoked')
    BY <1>1 DEF Claim, Clear, Withdraw, handlerVars, authorityVars, historyVars
  <2>2. LatchMoves /\ RevokedMoves /\ SignalMoves
    BY <2>1 DEF LatchMoves, RevokedMoves, SignalMoves
  <2> QED BY <2>1, <2>2, SteadyHandlers DEF AuthorityMoves
<1>2. CASE AlreadySettled(p) \/ PublishOutcome(p)
  <2>1. UNCHANGED <<lock, outcome, latched, reobserved, lifted, revoked, signal>>
    BY <1>2 DEF AlreadySettled, PublishOutcome, authorityVars, historyVars
  <2>2. PICK where, response : Runs(p, where) /\ Settled(p, response)
    BY <1>2 DEF AlreadySettled, PublishOutcome
  <2>3. CASE p[1] = "handler" /\ ~Settling(p[2])
    <3>1. PICK r \in Request : p = <<"handler", r>>
      BY <2>3 DEF Settler
    <3>2. pc[r] = "settling" /\ Goto(r, "done")
      BY <2>2, <2>3, <3>1 DEF Runs, Settled
    <3>3. OnlyMoves(r) /\ Onward(r)
      BY <2>1, <3>2, GotoMoves DEF Onward
    <3> QED BY <2>1, <3>3, SteadyAuthority, OneHandler DEF AuthorityMoves
  <2>4. CASE ~(p[1] = "handler" /\ ~Settling(p[2]))
    <3>1. pc' = pc
      BY <2>2, <2>4 DEF Settled
    <3> QED BY <2>1, <3>1, SteadyAuthority, SteadyHandlers DEF AuthorityMoves
  <2> QED BY <2>3, <2>4
<1> QED BY <1>1, <1>2 DEF SettlerStep

\* Every step moves the authority as it may.
LEMMA AllAuthority ==
  ASSUME Inv, [Next]_vars
  PROVE  AuthorityMoves
<1>1. TypeOK /\ Shape /\ Asked /\ Unbound
  BY DEF Inv, Shape, OwnerInv
<1>2. ASSUME NEW r \in Request, HandlerStep(r) PROVE AuthorityMoves
  <2>1. ASSUME NEW result \in {"ok", "failed", "unknown"},
               CallReturns(r, result) \/ FollowUpReturns(r, result)
        PROVE  AuthorityMoves
    BY <1>1, <2>1, ReturnAuthority
  <2>2. ASSUME NEW k \in Key, HelpSettle(r, k) PROVE AuthorityMoves
    BY <2>2, SteadyAuthority, SteadyHandlers
       DEF HelpSettle, handlerVars, authorityVars, historyVars, AuthorityMoves
  <2>3. CASE Arrive(r) \/ DropHandler(r)
    BY <1>1, <2>3, ArriveAuthority, DropAuthority
  <2>4. CASE AcquireLock(r) \/ PriorSettled(r) \/ ReadAuthority(r) \/ Bind(r) \/ Relay(r)
    BY <1>1, <2>4, EarlyAuthority
  <2>5. CASE Refuse(r) \/ BindRefused(r) \/ SeeCancel(r)
    BY <1>1, <2>5, RefusedAuthority
  <2>6. CASE Publish(r) \/ Recover(r) \/ Quarantine(r) \/ WithdrawOwn(r) \/ Logged(r)
    BY <1>1, <2>6, PublishAuthority, WithdrawAuthority, LoggedAuthority
  <2>7. CASE \/ Complete(r) \/ AwaitSettlement(r) \/ FenceUnbound(r) \/ FenceBound(r) \/ Unwind(r)
    BY <1>1, <2>7, EndAuthority
  <2> QED BY <1>2, <2>1, <2>2, <2>3, <2>4, <2>5, <2>6, <2>7 DEF HandlerStep, Proceed
<1>3. ASSUME NEW i \in Id, Expire(i) PROVE AuthorityMoves
  BY <1>3, SteadyAuthority, SteadyHandlers
     DEF Expire, handlerVars, authorityVars, AuthorityMoves
<1>4. CASE Idle \/ UNCHANGED vars
  BY <1>4, SteadyAuthority, SteadyHandlers
     DEF Idle, vars, handlerVars, authorityVars, historyVars, AuthorityMoves
<1> QED BY <1>1, <1>2, <1>3, <1>4, CancellerAuthority, SettlerAuthority DEF Next
-----------------------------------------------------------------------------
(* The invariant is kept by every step.                                    *)

\* What is known of a step of the specification.
Turn == Step /\ FenceInv /\ AuthorityMoves

\* Where an outcome stands, the action is past its beginning.
LEMMA OutcomingStep ==
  ASSUME Turn
  PROVE  Outcoming'
<1>1. Inv /\ Inv' /\ Step /\ Outcoming /\ HandlerMoves
  BY DEF Turn, Step, FenceInv, AuthorityMoves
<1>2. ASSUME NEW r \in Request
      PROVE  /\ pc'[r] \in BeforeRelay \cup {"idle", "calling", "following", "publishing", "recovering"} =>
                  outcome'[r] = "none"
             /\ pc'[r] = "following" => Method(r)' \in {"page.click", "computer.click"}
             /\ pc'[r] = "recovering" => Method(r)' = "page.observe"
             /\ outcome'[r] = "dropped" => pc'[r] \in {"fencing", "unwinding", "gone"}
             /\ outcome'[r] # "interrupted"
  <2>1. /\ pc[r] \in BeforeRelay \cup {"idle", "calling", "following", "publishing", "recovering"} =>
             outcome[r] = "none"
        /\ pc[r] = "following" => Method(r) \in {"page.click", "computer.click"}
        /\ pc[r] = "recovering" => Method(r) = "page.observe"
        /\ outcome[r] = "dropped" => pc[r] \in {"fencing", "unwinding", "gone"}
        /\ outcome[r] # "interrupted"
    BY <1>1 DEF Outcoming
  <2>2. pc[r] # "idle" => Method(r)' = Method(r)
    BY <1>1, AskedStays
  <2>3. CASE Onward(r)
    <3>1. CASE pc[r] = "idle" /\ pc'[r] \in {"queued", "done"}
      BY <2>1, <2>3, <3>1 DEF Onward
    <3> QED BY <2>1, <2>2, <2>3, <3>1 DEF Onward, BeforeRelay
  <2>4. CASE Results(r)
    BY <2>1, <2>2, <2>4 DEF Results, BeforeRelay, Waiting, Browser, BrowserMethods
  <2> QED BY <1>1, <2>3, <2>4 DEF HandlerMoves
<1> QED BY <1>2 DEF Outcoming

\* A canceller past the latch stays there, with its call.
LEMMA LatchedStays ==
  ASSUME Step, NEW r \in Request, LatchedFor(r)
  PROVE  LatchedFor(r)'
<1>1. Inv /\ TypeOK /\ CancellerMoves
  BY DEF Step, Inv, Moves
<1>2. PICK c \in Canceller : canceled[c] = r /\ Past(c)
  BY DEF LatchedFor
<1>3. ~\E i \in Id : Cancel(c, i) \/ CancelRefused(c, i)
  BY <1>2 DEF Cancel, CancelRefused, Past
<1>4. canceled'[c] = r
  BY <1>1, <1>2, <1>3 DEF CancellerMoves
<1>5. Past(c)'
  <2>1. CASE cpc'[c] = cpc[c]
    BY <1>2, <2>1 DEF Past
  <2>2. CASE CancelLatches(c) \/ CancelSignals(c) \/ CancelCompletes(c) \/ DropCanceller(c)
    BY <1>1, <2>2 DEF CancelLatches, CancelSignals, CancelCompletes, DropCanceller, CGoto, Past, TypeOK
  <2>3. CASE AlreadySettled(<<"canceller", c>>) \/ PublishOutcome(<<"canceller", c>>)
    <3>1. PICK response : Settled(<<"canceller", c>>, response)
      BY <2>3 DEF AlreadySettled, PublishOutcome
    <3>2. cpc' = [cpc EXCEPT ![c] = "accepted"]
      BY <3>1 DEF Settled, CGoto
    <3> QED BY <1>1, <3>2 DEF Past, TypeOK
  <2> QED BY <1>1, <1>3, <2>1, <2>2, <2>3 DEF CancellerMoves
<1> QED BY <1>4, <1>5 DEF LatchedFor

\* Where a cancellation is past the latch, the page is withdrawn.
LEMMA LatchedSafe ==
  ASSUME Canceled, NEW r \in Request, LatchedFor(r), BrowserOwner(r)
  PROVE  Safe(r) /\ Blamed(r)
  BY DEF Canceled, LatchedFor, Blamed

\* What is withdrawn for a bound call stays withdrawn, unless the call lifts a
\* latch that is not of its own cancellation.
LEMMA SafeStays ==
  ASSUME Turn, NEW r \in Request, bound[r], Safe(r), Recover(r) => LatchedFor(r)
  PROVE  Safe(r)'
<1>1. Inv /\ Step /\ Reobserving /\ LatchMoves
  BY DEF Turn, Step, FenceInv, AuthorityMoves
<1>2. CASE r \in lifted
  BY <1>1, <1>2 DEF LatchMoves, Safe, LiftedItself
<1>3. CASE r \in reobserved
  BY <1>1, <1>3 DEF LatchMoves, Safe, Fenced
<1>4. CASE latched
  <2>1. ASSUME NEW s \in Request, Recover(s) PROVE Safe(r)'
    <3>1. CASE s = r
      BY <2>1, <3>1 DEF Recover, Safe, LiftedItself
    <3>2. CASE s # r
      <4>1. r \in reobserved
        BY <1>1, <2>1, <3>2 DEF Reobserving, Recover
      <4> QED BY <1>1, <4>1 DEF LatchMoves, Safe, Fenced
    <3> QED BY <3>1, <3>2
  <2> QED BY <1>1, <1>4, <2>1 DEF LatchMoves, Safe, Fenced
<1> QED BY <1>2, <1>3, <1>4 DEF Safe, Fenced, LiftedItself

\* A call is bound while its entry is active, and so never once it is canceled.
LEMMA BindFinds ==
  ASSUME Step, NEW r \in Request, Bind(r)
  PROVE  /\ ~bound[r] /\ ~Blamed(r) /\ pc[r] = "binding" /\ pc'[r] = "relaying"
         /\ \A i \in Id : IdOf(r) = i => registry[i].state = "active" /\ registry'[i] = registry[i]
<1>1. Inv /\ SettleInv /\ TypeOK /\ Canceling /\ Asked
  BY DEF Step, Inv, Shape
<1>2. pc[r] = "binding" /\ pc'[r] = "relaying" /\ ~bound[r]
  BY <1>1 DEF Bind, Goto, TypeOK, Inv, OwnerInv, Unbound
<1>3. ASSUME NEW i \in Id, IdOf(r) = i
      PROVE  registry[i].state = "active" /\ registry'[i] = registry[i]
  BY <1>1, <1>3 DEF Bind
<1>4. ASSUME Blamed(r) PROVE FALSE
  <2>1. PICK c \in Canceller : canceled[c] = r
    BY <1>4 DEF Blamed
  <2>2. cpc[c] \notin {"idle", "refused"}
    <3>1. canceled[c] # NoRequest
      BY <2>1
    <3> QED BY <1>1, <3>1 DEF SettleInv, Settlers, CancellerSettles
  <2>3. PICK i \in Id : IdOf(r) = i
    BY <1>1, <2>1, <2>2 DEF Canceling
  <2>4. registry[i].state = "active" /\ registry[i].of = r
    <3>1. Attended(r)
      BY <1>2 DEF Attended, Live
    <3> QED BY <1>1, <1>3, <2>3, <3>1 DEF SettleInv, Ownership, Mine, Present
  <2> QED BY <1>1, <1>4, <2>4 DEF SettleInv, Interruptions, Interruption, Present, Interrupted
<1> QED BY <1>2, <1>3, <1>4

\* A bound call was bound before, for the same, or is bound now.
LEMMA BoundBefore ==
  ASSUME Step, NEW r \in Request, bound'[r], ~Bind(r)
  PROVE  /\ bound[r] /\ pc[r] # "idle" /\ IdOf(r)' = IdOf(r) /\ Method(r)' = Method(r)
         /\ KeyOf(r)' = KeyOf(r)
         /\ (Browser(r)' <=> Browser(r)) /\ (BrowserOwner(r)' <=> BrowserOwner(r))
         /\ (ClickOwner(r)' <=> ClickOwner(r))
<1>1. Inv /\ BindMoves
  BY DEF Step, Moves
<1>2. bound[r] /\ pc[r] # "idle"
  BY <1>1 DEF BindMoves, Inv, OwnerInv, Unbound
<1>3. IdOf(r)' = IdOf(r) /\ Method(r)' = Method(r) /\ KeyOf(r)' = KeyOf(r)
  BY <1>2, AskedStays
<1> QED BY <1>2, <1>3 DEF Browser, BrowserOwner, ClickOwner

\* A canceled call that is bound was bound when it was canceled.
LEMMA BlamedBound ==
  ASSUME Step, NEW r \in Request, bound'[r], Blamed(r)
  PROVE  ~Bind(r)
  BY BindFinds

\* Whoever lifts the latch next has seen every bound call.
LEMMA ReobservingStep ==
  ASSUME Turn
  PROVE  Reobserving'
<1> SUFFICES ASSUME NEW r \in Request, NEW s \in Request, pc'[s] = "recovering", bound'[r], r # s
             PROVE  r \in reobserved'
  BY DEF Reobserving
<1>1. Inv /\ Step /\ Reobserving /\ HandlerMoves /\ LatchMoves /\ BindMoves
  BY DEF Turn, Step, FenceInv, AuthorityMoves, Moves
<1>2. pc[s] = "recovering" \/ (Method(s) = "page.observe" /\ Publish(s))
  <2>1. Onward(s) \/ Results(s)
    BY <1>1 DEF HandlerMoves
  <2> QED BY <2>1 DEF Onward, Results, BeforeRelay
<1>3. CASE pc[s] = "recovering"
  <2>1. ~Bind(r)
    <3>1. ASSUME pc[r] = "binding" PROVE FALSE
      BY <1>1, <1>3, <3>1 DEF Inv, OwnerInv, Held, Holding
    <3> QED BY <3>1 DEF Bind
  <2>2. bound[r]
    BY <1>1, <2>1 DEF BindMoves
  <2> QED BY <1>1, <1>3, <2>2 DEF Reobserving, LatchMoves
<1>4. CASE Method(s) = "page.observe" /\ Publish(s)
  BY <1>4 DEF Publish
<1> QED BY <1>2, <1>3, <1>4

\* A cancellation goes on only past the latch.
LEMMA CanceledStep ==
  ASSUME Turn
  PROVE  Canceled'
<1>1. Inv /\ Step /\ SettleInv /\ TypeOK /\ Canceling /\ Canceled /\ SignalMoves /\ CancellerMoves
  BY DEF Turn, Step, FenceInv, AuthorityMoves, Moves, Inv, Shape
<1>2. ASSUME NEW r \in Request, Blamed(r), BrowserOwner(r)'
      PROVE  BrowserOwner(r) /\ bound[r]
  <2>1. bound'[r]
    BY <1>2 DEF BrowserOwner
  <2>2. ~Bind(r)
    BY <1>1, <1>2, <2>1, BlamedBound
  <2> QED BY <1>1, <1>2, <2>1, <2>2, BoundBefore
<1>3. ASSUME NEW r \in Request, signal'[r]
      PROVE  LatchedFor(r)'
  <2>1. ASSUME NEW c \in Canceller, CancelSignals(c), canceled[c] = r
        PROVE  LatchedFor(r)
    BY <2>1 DEF CancelSignals, Past, LatchedFor
  <2>2. LatchedFor(r)
    BY <1>1, <1>3, <2>1 DEF SignalMoves, Canceled
  <2> QED BY <1>1, <2>2, LatchedStays
<1>4. ASSUME NEW c \in Canceller, NEW r \in Request, canceled'[c] = r
      PROVE  /\ Past(c)' /\ BrowserOwner(r)' => Safe(r)'
             /\ cpc'[c] = "completing" => ~bound'[r]
  <2>1. ASSUME NEW i \in Id, Cancel(c, i)
        PROVE  cpc'[c] # "completing" /\ (Past(c)' => ~BrowserOwner(r)')
    <3>1. /\ registry[i].of = r /\ cpc'[c] \in {"latching", "signalling"}
      BY <1>1, <1>4, <2>1, CancelTakes
    <3>2. bound[r] /\ Browser(r) => cpc'[c] = "latching"
      BY <1>1, <2>1, <3>1 DEF Cancel, CGoto, TypeOK
    <3>3. bound' = bound /\ request' = request
      BY <2>1 DEF Cancel, handlerVars
    <3> QED BY <3>1, <3>2, <3>3 DEF Past, BrowserOwner, Browser, Method
  <2>2. CASE canceled[c] = r
    <3>1. Blamed(r) /\ cpc[c] \notin {"idle", "refused"}
      <4>1. canceled[c] # NoRequest
        BY <2>2
      <4> QED BY <1>1, <2>2, <4>1 DEF Blamed, SettleInv, Settlers, CancellerSettles
    <3>2. CASE Past(c)
      <4>1. BrowserOwner(r)' => Safe(r)'
        <5>1. LatchedFor(r)
          BY <2>2, <3>2 DEF LatchedFor
        <5> QED BY <1>1, <1>2, <3>1, <5>1, LatchedSafe, SafeStays
      <4>2. ASSUME cpc'[c] = "completing" PROVE ~bound[r]
        <5>1. CASE cpc[c] = "completing"
          BY <1>1, <2>2, <5>1 DEF Canceled
        <5>2. CASE CancelSignals(c)
          BY <1>1, <2>2, <4>2, <5>2 DEF CancelSignals, CGoto, TypeOK
        <5>3. CASE CancelLatches(c)
          BY <3>2, <5>3 DEF CancelLatches, Past
        <5>4. CASE CancelCompletes(c) \/ DropCanceller(c)
          BY <1>1, <4>2, <5>4 DEF CancelCompletes, DropCanceller, CGoto, TypeOK
        <5>5. CASE AlreadySettled(<<"canceller", c>>) \/ PublishOutcome(<<"canceller", c>>)
          <6>1. PICK response : Settled(<<"canceller", c>>, response)
            BY <5>5 DEF AlreadySettled, PublishOutcome
          <6>2. cpc' = [cpc EXCEPT ![c] = "accepted"]
            BY <6>1 DEF Settled, CGoto
          <6> QED BY <1>1, <4>2, <6>2 DEF TypeOK
        <5>6. ASSUME NEW i \in Id, CancelRefused(c, i) PROVE FALSE
          BY <3>1, <5>6 DEF CancelRefused
        <5> QED BY <1>1, <2>1, <4>2, <5>1, <5>2, <5>3, <5>4, <5>5, <5>6 DEF CancellerMoves
      <4>3. cpc'[c] = "completing" => ~bound'[r]
        BY <1>1, <3>1, <4>2, BlamedBound, BoundBefore
      <4> QED BY <4>1, <4>3
    <3>3. CASE cpc[c] = "latching"
      <4>1. cpc'[c] # "latching" => CancelLatches(c)
        <5>1. stage[<<"canceller", c>>] = "off"
          BY <1>1, <3>3 DEF SettleInv, Settlers, CancellerSettles
        <5> QED BY <1>1, <2>1, <3>3, <5>1
                DEF CancellerMoves, CancelRefused, CancelSignals, CancelCompletes, DropCanceller,
                    AlreadySettled, PublishOutcome, Runs, Cancel
      <4>2. CASE CancelLatches(c)
        <5>1. latched' /\ cpc'[c] = "signalling"
          BY <1>1, <4>2 DEF CancelLatches, CGoto, TypeOK
        <5> QED BY <5>1 DEF Safe, Fenced
      <4> QED BY <4>1, <4>2 DEF Past
    <3> QED BY <3>1, <3>2, <3>3 DEF Past
  <2> QED BY <1>1, <1>4, <2>1, <2>2 DEF CancellerMoves
<1>5. \A r \in Request : signal'[r] => LatchedFor(r)'
  BY <1>3
<1>6. \A c \in Canceller, r \in Request : canceled'[c] = r =>
        /\ Past(c)' /\ BrowserOwner(r)' => Safe(r)'
        /\ cpc'[c] = "completing" => ~bound'[r]
  BY <1>4
<1> QED BY <1>5, <1>6, Zenon DEF Canceled
\* A handler that gives up goes on only past the latch.
LEMMA AbandonedStep ==
  ASSUME Turn, NEW r \in Request
  PROVE  Abandoned(r)'
<1>1. /\ Inv /\ Step /\ Outcoming /\ Outcoming' /\ Canceled /\ Abandoned(r) /\ Kept(r)
      /\ HandlerMoves /\ LockMoves /\ Held /\ Unbound
  BY OutcomingStep DEF Turn, Step, FenceInv, AuthorityMoves, Inv, OwnerInv
<1>2. CASE ~bound'[r]
  BY <1>2 DEF Abandoned, BrowserOwner
<1>3. CASE Bind(r)
  <2>1. pc'[r] = "relaying"
    BY <1>1, <1>3, BindFinds
  <2>2. outcome'[r] = "none"
    BY <1>1, <2>1 DEF Outcoming, BeforeRelay
  <2> QED BY <2>1, <2>2 DEF Abandoned
<1>4. CASE bound'[r] /\ ~Bind(r)
  <2>1. bound[r] /\ pc[r] # "idle" /\ (BrowserOwner(r)' <=> BrowserOwner(r))
        /\ (BrowserOwner(r) <=> Browser(r))
    BY <1>1, <1>4, BoundBefore DEF BrowserOwner
  <2>2. Safe(r) /\ outcome'[r] # "ok" => Safe(r)'
    <3>1. Recover(r) => outcome'[r] = "ok"
      BY <1>1, LogMoves DEF Recover, Inv
    <3> QED BY <2>1, <3>1, SafeStays
  <2>3. latched' => Safe(r)'
    BY DEF Safe, Fenced
  <2>4. pc[r] \in Waiting => pc[r] \in {"calling", "following", "publishing", "withdrawing", "logging"}
    BY <1>1, <2>1 DEF Unbound, Waiting
  <2>5. pc[r] \in Waiting => lock = r
    BY <1>1, <2>4 DEF Held, Holding
  <2>6. pc'[r] = "fencing" /\ outcome'[r] = "dropped" => lock' = r
    <3>1. CASE Onward(r)
      <4>1. CASE pc[r] = "fencing"
        BY <1>1, <2>1, <3>1, <4>1 DEF Onward, Abandoned, LockMoves
      <4>2. CASE pc[r] # "fencing"
        BY <1>1, <3>1, <4>2 DEF Onward, Outcoming, BeforeRelay
      <4> QED BY <4>1, <4>2
    <3>2. CASE Results(r)
      BY <2>5, <3>2 DEF Results
    <3> QED BY <1>1, <3>1, <3>2 DEF HandlerMoves
  <2>7. BrowserOwner(r) /\ outcome'[r] = "dropped" /\ pc'[r] # "fencing" => Safe(r)'
    <3>1. CASE Onward(r)
      BY <1>1, <2>2, <2>3, <3>1 DEF Onward, Outcoming, Abandoned, BeforeRelay
    <3>2. CASE Results(r)
      <4>1. ASSUME BrowserOwner(r), NEW i \in Id, IdOf(r) = i, ~Present(i), pc[r] \in Waiting
            PROVE  Safe(r)
        <5>1. LatchedFor(r)
          BY <1>1, <4>1 DEF Kept, Working, Live, Waiting
        <5> QED BY <1>1, <4>1, <5>1, LatchedSafe
      <4> QED BY <2>2, <3>2, <4>1 DEF Results
    <3> QED BY <1>1, <3>1, <3>2 DEF HandlerMoves
  <2>8. BrowserOwner(r) /\ outcome'[r] = "unknown" /\ pc'[r] # "latching" => Safe(r)'
    <3>1. CASE Onward(r)
      BY <1>1, <2>2, <2>3, <3>1 DEF Onward, Outcoming, Abandoned, BeforeRelay
    <3>2. CASE Results(r)
      BY <2>1, <3>2 DEF Results
    <3> QED BY <1>1, <3>1, <3>2 DEF HandlerMoves
  <2>9. BrowserOwner(r) /\ outcome'[r] = "canceled" => Safe(r)'
    <3>1. CASE Onward(r)
      BY <1>1, <2>2, <3>1 DEF Onward, Abandoned
    <3>2. CASE Results(r)
      <4>1. ASSUME signal[r], BrowserOwner(r) PROVE Safe(r)
        BY <1>1, <4>1, LatchedSafe DEF Canceled
      <4> QED BY <2>1, <2>2, <3>2, <4>1 DEF Results
    <3> QED BY <1>1, <3>1, <3>2 DEF HandlerMoves
  <2> QED BY <2>1, <2>6, <2>7, <2>8, <2>9 DEF Abandoned
<1> QED BY <1>2, <1>3, <1>4, <1>1, BoundBefore

\* An entry leaves because its call ends.
LEMMA EntryLeaves ==
  ASSUME Step, NEW i \in Id, Present(i), ~Present(i)'
  PROVE  \E response \in Responses : Ends(i, response)
<1>1. Inv /\ TypeOK /\ Records /\ RegistryStep /\ RecordMoves /\ ~Remembered(i) /\ i \in Key
  BY DEF Step, Inv, SettleInv, Moves, Records, Key
<1>2. Remembered(i)'
  <2>1. ASSUME NEW k \in Key, Leaves(k) PROVE Remembered(i)'
    <3>1. registry' = [registry EXCEPT ![k] = NoEntry]
      BY <2>1 DEF Leaves
    <3>2. k = i
      BY <1>1, <3>1 DEF TypeOK, Present
    <3> QED BY <2>1, <3>2, RequestAssumption DEF Leaves
  <2>2. ASSUME NEW k \in Key, Changes(k) PROVE FALSE
    <3>1. PICK s \in States \ {"absent"}, b \in BOOLEAN : registry' = Become(k, s, b)
      BY <2>2 DEF Changes
    <3>2. registry'[i] = registry[i] \/ registry'[i].state = s
      BY <1>1, <3>1 DEF Become, TypeOK
    <3> QED BY <3>1, <3>2 DEF Present
  <2>3. ASSUME NEW r \in Request, NEW k \in Key, NEW s \in {"active", "interrupted"}, Enters(r, k, s)
        PROVE FALSE
    <3>1. registry' = [registry EXCEPT ![k] = [of |-> r, state |-> s, byCaller |-> FALSE]]
      BY <2>3 DEF Enters
    <3>2. registry'[i] = registry[i] \/ registry'[i].state = s
      BY <1>1, <3>1 DEF TypeOK
    <3> QED BY <2>3, <3>2 DEF Present
  <2>4. registry' # registry
    BY DEF Present
  <2> QED BY <1>1, <2>1, <2>2, <2>3, <2>4 DEF RegistryStep
<1>3. PICK x \in Outcomes' : x.id = i
  BY <1>2, Zenon DEF Remembered, IdsIn, Outcomes, Elements
<1>4. x \notin Outcomes
  BY <1>1, <1>3, RememberedOutcome
<1>5. PICK j \in Id, response \in Responses : Ends(j, response) /\ x = RecordOf(j, response)
  BY <1>1, <1>4 DEF RecordMoves
<1>6. j = i
  BY <1>3, <1>5 DEF RecordOf
<1> QED BY <1>5, <1>6
\* The entry of a bound call leaves with the answer of its own handler, or when
\* its settlement is published.
LEMMA EndsBound ==
  ASSUME Step, Canceled, NEW i \in Id, NEW response \in Responses, Ends(i, response),
         NEW r \in Request, registry[i].of = r, bound[r]
  PROVE  \/ Complete(r) /\ response = outcome[r] /\ ~Interrupted(i)
         \/ /\ Interrupted(i) /\ response = SyntheticFor(i)
            /\ \E p \in Settler : PublishOutcome(p) /\ target[p] = i
<1>1. SettleInv /\ Canceling /\ Ownership /\ Present(i)
  BY DEF Step, Inv, Shape, SettleInv, Ends
<1>2. ASSUME NEW s \in Request, Attended(s), IdOf(s) = i PROVE s = r
  BY <1>1, <1>2 DEF Ownership, Mine
<1>3. ASSUME NEW s \in Request, Complete(s), IdOf(s) = i PROVE s = r
  BY <1>2, <1>3 DEF Complete, Attended, Live
<1>4. ASSUME NEW s \in Request, FenceUnbound(s), IdOf(s) = i PROVE FALSE
  BY <1>2, <1>4 DEF FenceUnbound, Attended, Live
<1>5. ASSUME NEW c \in Canceller, CancelCompletes(c), IdOf(canceled[c]) = i PROVE FALSE
  <2>1. cpc[c] = "completing"
    BY <1>5 DEF CancelCompletes
  <2>2. PICK s \in Request : canceled[c] = s
    BY <1>1, <2>1 DEF Canceling
  <2>3. s = r
    BY <1>2, <1>5, <2>1, <2>2 DEF Attended, Undecided
  <2> QED BY <2>1, <2>2, <2>3 DEF Canceled
<1> QED BY <1>3, <1>4, <1>5 DEF Ends, CompletesInterrupted

\* Who settles a browser call: its handler at the end, its canceller, or the task
\* that a dropped handler left behind.
LEMMA BrowserSettler ==
  ASSUME Step, NEW i \in Id, Present(i), NEW r \in Request, registry[i].of = r, Browser(r),
         NEW p \in Settler, target[p] = i, NEW where, Runs(p, where), where # "off"
  PROVE  \/ p = <<"handler", r>> /\ pc[r] = "settling"
         \/ \E c \in Canceller : p = <<"canceller", c>> /\ canceled[c] = r /\ cpc[c] = "settling"
         \/ pc[r] \in {"unwinding", "gone"}
<1>1. SettleInv /\ Settlers /\ Canceling /\ Ownership /\ stage[p] # "off" /\ i # NoId /\ i \notin Request
  BY DEF Step, Inv, Shape, SettleInv, Runs
<1>2. ASSUME NEW s \in Request, Attended(s), IdOf(s) = i PROVE s = r
  BY <1>1, <1>2 DEF Ownership, Mine
<1>3. ASSUME NEW s \in Request, p = <<"handler", s>> PROVE s = r /\ pc[r] = "settling"
  <2>1. HandlerSettles(s)
    BY <1>1 DEF Settlers
  <2>2. ~Settling(s)
    BY <1>1, <1>3, <2>1 DEF HandlerSettles, Computer, Browser, ComputerMethods, BrowserMethods
  <2>3. pc[s] = "settling"
    BY <1>3, <2>2 DEF Runs
  <2>4. IdOf(s) = i
    BY <1>1, <1>3, <2>1, <2>3 DEF HandlerSettles
  <2> QED BY <1>2, <2>3, <2>4 DEF Attended, Live
<1>4. ASSUME NEW c \in Canceller, p = <<"canceller", c>> PROVE canceled[c] = r /\ cpc[c] = "settling"
  <2>1. cpc[c] = "settling" /\ target[p] = IdOf(canceled[c])
    BY <1>1, <1>4 DEF Settlers, CancellerSettles
  <2>2. PICK s \in Request : canceled[c] = s
    BY <1>1, <2>1 DEF Canceling
  <2> QED BY <1>2, <2>1, <2>2 DEF Attended, Undecided
<1>5. ASSUME NEW s \in Request, p = <<"task", s>> PROVE pc[r] \in {"unwinding", "gone"}
  <2>1. target[p] = KeyOf(s) /\ pc[s] \in {"unwinding", "gone"}
    BY <1>1, <1>5 DEF Settlers, TaskSettles
  <2>2. IdOf(s) = i
    BY <1>1, <2>1 DEF KeyOf
  <2> QED BY <1>1, <1>2, <1>5, <2>1, <2>2 DEF Attended
<1> QED BY <1>3, <1>4, <1>5 DEF Settler

\* The entry of a working handler is not taken away before the page is
\* withdrawn.
LEMMA KeptStep ==
  ASSUME Turn, NEW r \in Request
  PROVE  Kept(r)'
<1> SUFFICES ASSUME NEW i \in Id, BrowserOwner(r)', IdOf(r)' = i
             PROVE  /\ Working(r)' /\ ~Present(i)' => LatchedFor(r)'
                    /\ Interrupted(i)' /\ registry'[i].of = r /\ ~registry'[i].byCaller =>
                         pc'[r] = "fencing" \/ (pc'[r] \in {"unwinding", "gone"} /\ Safe(r)')
  BY DEF Kept
<1>1. /\ Inv /\ Step /\ Canceled /\ Kept(r) /\ HandlerMoves /\ SettleInv /\ Ownership
      /\ EntryMoves /\ PlaceMoves /\ Ending
  BY DEF Turn, Step, FenceInv, AuthorityMoves, SettleInv, Moves, ControlStep
<1>2. CASE Bind(r)
  <2>1. IdOf(r) = i
    BY <1>1, <1>2, AskedStays DEF Bind
  <2>2. registry'[i] = registry[i] /\ registry[i].state = "active"
    BY <1>1, <1>2, <2>1, BindFinds
  <2> QED BY <2>2 DEF Present, Interrupted
<1>3. CASE ~Bind(r)
  <2>1. bound[r] /\ pc[r] # "idle" /\ IdOf(r) = i /\ BrowserOwner(r) /\ Browser(r)
    BY <1>1, <1>3, BoundBefore DEF BrowserOwner
  <2>2. LatchedFor(r) => LatchedFor(r)'
    BY <1>1, LatchedStays
  <2>3. ASSUME Working(r)', ~Present(i)' PROVE LatchedFor(r)'
    <3>1. Working(r)
      BY <1>1, <2>1, <2>3 DEF Working, Live, Ending, PlaceMoves
    <3>2. CASE ~Present(i)
      BY <1>1, <2>1, <2>2, <3>1, <3>2 DEF Kept
    <3>3. CASE Present(i)
      <4>1. registry[i].of = r
        BY <1>1, <2>1, <3>1, <3>3 DEF Ownership, Attended, Mine, Working
      <4>2. PICK response \in Responses : Ends(i, response)
        BY <1>1, <2>3, <3>3, EntryLeaves
      <4>3. ~Complete(r)
        <5>1. Complete(r) => pc'[r] = "done"
          BY <1>1 DEF Complete, Goto, Inv, TypeOK
        <5> QED BY <2>3, <5>1 DEF Working, Live
      <4>4. PICK p \in Settler : PublishOutcome(p) /\ target[p] = i
        BY <1>1, <2>1, <4>1, <4>2, <4>3, EndsBound
      <4>5. Runs(p, "publishing")
        BY <4>4 DEF PublishOutcome
      <4>6. CASE p = <<"handler", r>> /\ pc[r] = "settling"
        <5>1. PICK response2 : Settled(p, response2)
          BY <4>4 DEF PublishOutcome
        <5>2. pc'[r] = "done"
          BY <1>1, <4>6, <5>1 DEF Settled, Settling, Goto, Inv, TypeOK
        <5> QED BY <2>3, <5>2 DEF Working, Live
      <4>7. ASSUME NEW c \in Canceller, canceled[c] = r, cpc[c] = "settling" PROVE LatchedFor(r)
        BY <4>7 DEF LatchedFor, Past
      <4>8. pc[r] \notin {"unwinding", "gone"}
        BY <3>1 DEF Working, Live
      <4> QED BY <1>1, <2>1, <2>2, <3>3, <4>1, <4>4, <4>5, <4>6, <4>7, <4>8, BrowserSettler
    <3> QED BY <3>2, <3>3
  <2>4. ASSUME Interrupted(i)', registry'[i].of = r, ~registry'[i].byCaller
        PROVE  pc'[r] = "fencing" \/ (pc'[r] \in {"unwinding", "gone"} /\ Safe(r)')
    <3>1. ASSUME Interrupted(i), registry[i].of = r, ~registry[i].byCaller
          PROVE  pc'[r] = "fencing" \/ (pc'[r] \in {"unwinding", "gone"} /\ Safe(r)')
      <4>1. pc[r] = "fencing" \/ (pc[r] \in {"unwinding", "gone"} /\ Safe(r))
        BY <1>1, <2>1, <3>1 DEF Kept
      <4>2. CASE pc[r] = "fencing"
        <5>1. Onward(r)
          BY <1>1, <4>2 DEF HandlerMoves, Results, Waiting
        <5>2. pc'[r] = "fencing" \/ (pc'[r] = "unwinding" /\ latched')
          BY <2>1, <4>2, <5>1 DEF Onward, BeforeRelay
        <5> QED BY <5>2 DEF Safe, Fenced
      <4>3. CASE pc[r] \in {"unwinding", "gone"} /\ Safe(r)
        <5>1. Onward(r)
          BY <1>1, <4>3 DEF HandlerMoves, Results, Waiting
        <5>2. pc'[r] \in {"unwinding", "gone"}
          BY <4>3, <5>1 DEF Onward, BeforeRelay
        <5>3. Safe(r)'
          BY <2>1, <4>3, SafeStays DEF Recover
        <5> QED BY <5>2, <5>3
      <4> QED BY <4>1, <4>2, <4>3
    <3>2. ASSUME NEW s \in Request, IdOf(s) = i, Live(s), pc'[s] = "fencing", registry[i].of = r, Present(i)
          PROVE  pc'[r] = "fencing"
      <4>1. s = r
        BY <1>1, <3>2 DEF Ownership, Attended, Mine
      <4> QED BY <3>2, <4>1
    <3>3. ASSUME NEW s \in Request, NEW q \in Traffic, Admit(s, q), q.id = i PROVE FALSE
      <4>1. registry'[i] = [of |-> s, state |-> "active", byCaller |-> FALSE]
        BY <1>1, <3>3, AdmitUnattended
      <4> QED BY <2>4, <4>1 DEF Interrupted
    <3>4. ASSUME NEW c \in Canceller, Cancel(c, i) PROVE FALSE
      <4>1. registry'[i] = [of |-> registry[i].of, state |-> "interrupted", byCaller |-> TRUE]
        BY <1>1, <3>4, CancelTakes
      <4> QED BY <2>4, <4>1
    <3>5. CASE registry'[i] = registry[i]
      BY <2>4, <3>1, <3>5 DEF Interrupted
    <3>6. CASE Present(i) /\ ~Present(i)'
      BY <2>4, <3>6 DEF Interrupted, Present
    <3> QED BY <1>1, <2>4, <3>1, <3>2, <3>3, <3>4, <3>5, <3>6 DEF EntryMoves
  <2> QED BY <2>3, <2>4
<1> QED BY <1>2, <1>3

\* A bound call stays accounted for, and is canceled by a canceller.
LEMMA BoundedStep ==
  ASSUME Turn
  PROVE  Bounded'
<1>1. /\ Inv /\ Inv' /\ OnceInv' /\ Step /\ Canceled /\ Bounded /\ HandlerMoves /\ Outcoming'
  BY OutcomingStep DEF Turn, Step, FenceInv, AuthorityMoves, Inv
<1>2. ASSUME NEW r \in Request, bound'[r]
      PROVE  /\ \A i \in Id : IdOf(r)' = i => Accounted(i)'
             /\ outcome'[r] = "canceled" => Blamed(r)'
  <2>1. CASE Bind(r)
    <3>1. pc'[r] = "relaying"
      BY <1>1, <2>1, BindFinds
    <3> QED BY <1>1, <3>1 DEF OnceInv, Live, Outcoming, BeforeRelay
  <2>2. CASE ~Bind(r)
    <3>1. bound[r] /\ IdOf(r)' = IdOf(r)
      BY <1>1, <1>2, <2>2, BoundBefore
    <3>2. ASSUME NEW i \in Id, IdOf(r)' = i PROVE Accounted(i)'
      BY <1>1, <3>1, <3>2, AccountedStays DEF Bounded
    <3>3. ASSUME outcome'[r] = "canceled" PROVE Blamed(r)
      <4>1. CASE Onward(r)
        BY <1>1, <3>1, <3>3, <4>1 DEF Onward, Bounded
      <4>2. CASE Results(r)
        <5>1. signal[r]
          BY <3>1, <3>3, <4>2 DEF Results
        <5> QED BY <1>1, <5>1 DEF Canceled, LatchedFor, Blamed
      <4> QED BY <1>1, <4>1, <4>2 DEF HandlerMoves
    <3> QED BY <1>1, <3>2, <3>3, BlameMoves
  <2> QED BY <2>1, <2>2
<1> QED BY <1>2, Zenon DEF Bounded
\* The entry under the key of a handler at work is its own.
LEMMA KeyOwner ==
  ASSUME Inv, SettleInv, NEW r \in Request, Live(r), NEW k \in Key, KeyOf(r) = k, Present(k)
  PROVE  registry[k].of = r
<1>1. Entry /\ Asked /\ Ownership
  BY DEF Inv, Shape, SettleInv
<1>2. CASE k \in Id
  <2>1. IdOf(r) = k
    BY <1>2 DEF KeyOf
  <2> QED BY <1>1, <1>2, <2>1 DEF Ownership, Attended, Mine
<1>3. CASE k \in Request
  <2>1. ASSUME NEW s \in Request, pc[s] # "idle", KeyOf(s) = k PROVE s = k
    <3>1. IdOf(s) \in Id \cup {NoId}
      BY <1>1, <2>1 DEF Asked, IdOf
    <3> QED BY <1>3, <2>1, <3>1 DEF KeyOf
  <2>2. r = k
    BY <2>1 DEF Live
  <2>3. PICK s \in Request : s = registry[k].of /\ pc[s] # "idle" /\ KeyOf(s) = k
    BY <1>1 DEF Entry
  <2> QED BY <2>1, <2>2, <2>3
<1> QED BY <1>2, <1>3 DEF Key

\* The computer stays revoked while a click that owns it is registered.
LEMMA RevokedStays ==
  ASSUME Turn, NEW k \in Key, Present(k), NEW r \in Request, registry[k].of = r, ClickOwner(r),
         revoked
  PROVE  revoked'
<1>1. Inv /\ SettleInv /\ FreeOfOthers /\ RevokedMoves
  BY DEF Turn, Step, AuthorityMoves, Inv, OwnerInv
<1>2. ASSUME NEW s \in Request, Publish(s), Method(s) = "computer.observe" PROVE FALSE
  <2>1. pc[s] = "publishing" /\ Computer(s)
    BY <1>2 DEF Publish, Computer, ComputerMethods
  <2>2. OtherComputerOwners(s, Key) = {}
    BY <1>1, <2>1 DEF FreeOfOthers, Holding
  <2>3. Computer(r) /\ bound[r]
    BY DEF ClickOwner, Computer, ComputerMethods
  <2>4. k = KeyOf(s)
    BY <2>2, <2>3 DEF OtherComputerOwners
  <2>5. s = r
    BY <1>1, <2>1, <2>4, KeyOwner DEF Live
  <2> QED BY <1>2, <2>5 DEF ClickOwner
<1> QED BY <1>1, <1>2 DEF RevokedMoves

\* A settlement is published, and an outcome found unknown, only past the
\* revocation.
LEMMA RevokingStep ==
  ASSUME Turn
  PROVE  Revoking'
<1>1. /\ Inv /\ Step /\ SettleInv /\ TypeOK /\ Entry /\ Unregistered /\ Claimed /\ Revoking
      /\ StageMoves /\ HandlerMoves /\ RegistryStep /\ Starting /\ Staged
  BY DEF Turn, Step, FenceInv, AuthorityMoves, Moves, Inv, Shape, OwnerInv, SettleInv, ControlStep
<1>2. ASSUME NEW p \in Settler, NEW k \in Key, NEW r \in Request,
             stage'[p] = "publishing", target'[p] = k,
             Present(k)', registry'[k].of = r, ClickOwner(r)'
      PROVE  revoked'
  <2>1. CASE stage'[p] = stage[p] /\ target'[p] = target[p]
    <3>1. target[p] = k /\ Present(k) /\ registry[k].of = r
      BY <1>1, <1>2, <2>1, TargetBefore
    <3>2. KeyOf(r) = k
      BY <1>1, <3>1 DEF Entry
    <3>3. ASSUME Bind(r) PROVE FALSE
      <4>1. CASE k \in Id
        <5>1. IdOf(r) = k
          BY <3>2, <4>1 DEF KeyOf
        <5>2. registry[k].state = "active"
          BY <1>1, <3>3, <4>1, <5>1, BindFinds
        <5> QED BY <1>1, <1>2, <2>1, <3>1, <4>1, <5>2 DEF Claimed, Claims
      <4>2. CASE k \in Request
        <5>1. pc[k] \in {"unwinding", "gone"}
          BY <1>1, <3>1, <4>2 DEF Unregistered
        <5>2. IdOf(r) \in Id \cup {NoId}
          BY <1>1, <3>3 DEF Bind, Inv, Shape, Asked, IdOf
        <5>3. r = k
          BY <3>2, <4>2, <5>2 DEF KeyOf
        <5> QED BY <3>3, <5>1, <5>3 DEF Bind
      <4> QED BY <4>1, <4>2 DEF Key
    <3>4. ClickOwner(r)
      BY <1>1, <1>2, <3>3, BoundBefore DEF ClickOwner
    <3>5. revoked
      BY <1>1, <1>2, <2>1, <3>1, <3>4 DEF Revoking
    <3> QED BY <3>1, <3>4, <3>5, RevokedStays
  <2>2. CASE Clear(p)
    <3>1. /\ target[p] = k /\ UNCHANGED <<request, bound, registry>>
          /\ LET of == registry[target[p]].of
             IN  IF of # NoRequest /\ bound[of] THEN Withdraw(Method(of))
                                                ELSE UNCHANGED <<observation, revoked>>
      BY <1>2, <2>2 DEF Clear, handlerVars, replayVars
    <3>2. registry[k].of = r /\ bound[r] /\ Method(r) = "computer.click" /\ r # NoRequest
      BY <1>2, <3>1 DEF ClickOwner, Method
    <3> QED BY <3>1, <3>2 DEF Withdraw
  <2>3. CASE Claim(p)
    BY <1>1, <1>2, <2>3 DEF Claim, TypeOK
  <2>4. ASSUME NEW s \in Request, NEW j \in Key, p = <<"handler", s>>, HelpSettle(s, j)
        PROVE  stage'[p] = "claiming"
    BY <1>1, <2>4 DEF HelpSettle, TypeOK
  <2>5. ASSUME NEW s \in Request, p = <<"handler", s>>, AwaitSettlement(s)
        PROVE  stage'[p] = "claiming"
    BY <1>1, <2>5 DEF AwaitSettlement, TypeOK
  <2>6. ASSUME NEW s \in Request, p = <<"task", s>>, FenceBound(s)
        PROVE  stage'[p] = "claiming"
    BY <1>1, <2>6 DEF FenceBound, TypeOK
  <2>7. ASSUME NEW c \in Canceller, p = <<"canceller", c>>, CancelSignals(c), bound[canceled[c]]
        PROVE  stage'[p] = "claiming"
    BY <1>1, <2>7 DEF CancelSignals, TypeOK
  <2> QED BY <1>1, <1>2, <2>1, <2>2, <2>3, <2>4, <2>5, <2>6, <2>7 DEF StageMoves
<1>3. ASSUME NEW r \in Request, ClickOwner(r)', pc'[r] \in {"logging", "acted"}, outcome'[r] = "unknown",
             NEW k, k = KeyOf(r)', Present(k)'
      PROVE  revoked'
  <2>1. ~Bind(r)
    BY <1>1, <1>3, BindFinds
  <2>2. ClickOwner(r) /\ pc[r] # "idle" /\ k = KeyOf(r)
    BY <1>1, <1>3, <2>1, BoundBefore DEF ClickOwner
  <2>3. CASE Onward(r)
    <3>1. CASE pc[r] = "withdrawing"
      BY <1>3, <2>2, <2>3, <3>1 DEF Onward, BeforeRelay, ClickOwner
    <3>2. CASE pc[r] # "withdrawing"
      <4>1. pc[r] \in {"logging", "acted"} /\ outcome[r] = "unknown"
        BY <1>3, <2>2, <2>3, <3>2 DEF Onward, BeforeRelay
      <4>2. IdOf(r) \in Id \cup {NoId}
        BY <1>1, <2>2 DEF Inv, Shape, Asked, IdOf
      <4>3. k \in Key
        BY <2>2, <4>2 DEF KeyOf, Key
      <4>4. ASSUME NEW s \in Request, NEW st \in {"active", "interrupted"}, Enters(s, k, st) PROVE FALSE
        <5>1. CASE k \in Id
          <6>1. request'[s].id = k /\ pc[s] = "idle" /\ pc'[s] = "queued"
            BY <4>4, <5>1 DEF Enters
          <6>2. PICK q \in Traffic : Admit(s, q)
            BY <1>1, <6>1 DEF Starting, Live
          <6>3. q.id = k
            BY <1>1, <6>1, <6>2 DEF Admit, Ask, TypeOK
          <6>4. Attended(r) /\ IdOf(r) = k
            BY <2>2, <4>1, <4>2, <5>1 DEF Attended, Live, KeyOf
          <6> QED BY <1>1, <5>1, <6>2, <6>3, <6>4, AdmitUnattended
        <5>2. CASE k \notin Id
          <6>1. s = r
            BY <2>2, <4>2, <4>4, <5>2 DEF Enters, KeyOf
          <6> QED BY <4>1, <4>4, <5>2, <6>1 DEF Enters
        <5> QED BY <5>1, <5>2
      <4>5. Present(k)
        BY <1>1, <1>3, <4>3, <4>4, EntryBefore
      <4>6. registry[k].of = r
        BY <1>1, <2>2, <4>1, <4>3, <4>5, KeyOwner DEF Live
      <4>7. revoked
        BY <1>1, <2>2, <4>1, <4>5 DEF Revoking
      <4> QED BY <2>2, <4>3, <4>5, <4>6, <4>7, RevokedStays
    <3> QED BY <3>1, <3>2
  <2>4. CASE Results(r)
    BY <1>3, <2>2, <2>4 DEF Results, ClickOwner
  <2> QED BY <1>1, <2>3, <2>4 DEF HandlerMoves
<1>4. \A p \in Settler, k \in Key, r \in Request :
        stage'[p] = "publishing" /\ target'[p] = k /\ Present(k)' /\ registry'[k].of = r
        /\ ClickOwner(r)' => revoked'
  BY <1>2
<1>5. ASSUME NEW r \in Request, ClickOwner(r)', pc'[r] \in {"logging", "acted"}, outcome'[r] = "unknown",
             Present(KeyOf(r))'
      PROVE  revoked'
  <2>1. PICK k : k = KeyOf(r)'
    OBVIOUS
  <2>2. Present(k)'
    BY <1>5, <2>1 DEF Present
  <2> QED BY <1>3, <1>5, <2>1, <2>2
<1> QED BY <1>4, <1>5, Zenon DEF Revoking
-----------------------------------------------------------------------------
(* The invariant holds always.                                             *)

\* It holds at first ...
LEMMA InitFence == Init => FenceInv
<1> SUFFICES ASSUME Init PROVE FenceInv
  OBVIOUS
<1>1. /\ \A r \in Request : pc[r] = "idle" /\ outcome[r] = "none" /\ ~bound[r] /\ ~signal[r]
      /\ \A c \in Canceller : canceled[c] = NoRequest
      /\ \A p \in Settler : stage[p] = "off"
  BY DEF Init
<1>2. Outcoming /\ Reobserving /\ Bounded
  BY <1>1 DEF Outcoming, Reobserving, Bounded
<1>3. Canceled
  BY <1>1 DEF Canceled
<1>4. Revoking /\ \A r \in Request : Abandoned(r) /\ Kept(r)
  BY <1>1 DEF Revoking, Abandoned, Kept, BrowserOwner, ClickOwner
<1> QED BY <1>2, <1>3, <1>4 DEF FenceInv

\* ... every step is one of Turn ...
LEMMA TurnFacts ==
  ASSUME Inv, SettleInv, FenceInv, [Next]_vars
  PROVE  Turn
  BY StepFacts, AllAuthority DEF Turn

\* ... which keeps it ...
LEMMA TurnKeeps ==
  ASSUME Turn
  PROVE  FenceInv'
<1>1. Outcoming' /\ Reobserving' /\ Canceled' /\ Revoking' /\ Bounded'
  BY OutcomingStep, ReobservingStep, CanceledStep, RevokingStep, BoundedStep
<1>2. \A r \in Request : Abandoned(r)' /\ Kept(r)'
  BY AbandonedStep, KeptStep
<1> QED BY <1>1, <1>2, Zenon DEF FenceInv

\* ... so it holds always.
LEMMA AlwaysFence == Spec => [](Inv /\ SettleInv /\ FenceInv)
<1>1. Inv /\ SettleInv /\ FenceInv /\ [Next]_vars => FenceInv'
  BY TurnFacts, TurnKeeps
<1> QED BY <1>1, InitInv, InitSettle, InitFence, SettleStep, PTL DEF Spec

-----------------------------------------------------------------------------
(* Who tells.                                                              *)

\* The step by which somebody is first told that the outcome of r is unknown.
Telling(r) ==
  \/ /\ Complete(r) /\ outcome[r] \in Unknowns
     /\ \A i \in Id : IdOf(r) = i => ~Remembered(i) /\ ~Interrupted(i)
  \/ \E i \in Id, p \in Settler :
       /\ IdOf(r) = i /\ Interrupted(i) /\ registry[i].of = r
       /\ PublishOutcome(p) /\ target[p] = i
  \/ \E c \in Canceller :
       /\ canceled[c] = r /\ cpc[c] = "settling"
       /\ AlreadySettled(<<"canceller", c>>) \/ PublishOutcome(<<"canceller", c>>)
  \/ \E i \in Id : IdOf(r) = i /\ pc[r] = "settling" /\ ~Remembered(i) /\ ~Present(i)

\* A remembered outcome that is unknown was told.
LEMMA OutcomeTold ==
  ASSUME NEW r \in Request
  PROVE  ToldUnknown(r) <=>
           \/ answer[r] \in Unknowns
           \/ \E x \in Outcomes : x.of = r /\ x.response \in Unknowns
           \/ \E c \in Canceller : canceled[c] = r /\ cpc[c] = "accepted"
  BY Zenon DEF ToldUnknown, Outcomes, Elements

\* The handler itself tells.
LEMMA AnswerTells ==
  ASSUME Turn, NEW r \in Request, bound[r], ~ToldUnknown(r), answer'[r] \in Unknowns
  PROVE  Telling(r)
<1>1. /\ Inv /\ Step /\ SettleInv /\ TypeOK /\ Asked /\ Staged /\ AnswerMoves
      /\ pc[r] # "idle" /\ HandlerSettles(r) /\ Ownership /\ Interruptions
      /\ answer[r] \notin Unknowns
  BY OutcomeTold DEF Turn, Step, Moves, Inv, Shape, OwnerInv, Unbound, SettleInv, Settlers
<1>2. IdOf(r) \in Id \cup {NoId}
  BY <1>1 DEF Asked, IdOf
<1>3. CASE IdOf(r) = NoId
  <2>1. ASSUME pc[r] = "settling", stage[<<"handler", r>>] # "off" PROVE FALSE
    BY <1>1, <1>3, <2>1, SettlersOf DEF HandlerSettles, Staged
  <2>2. Complete(r)
    BY <1>1, <2>1 DEF AnswerMoves, AlreadySettled, PublishOutcome, Runs
  <2>3. answer'[r] = outcome[r]
    BY <1>1, <1>3, <2>2 DEF Complete, TypeOK
  <2> QED BY <1>3, <2>2, <2>3 DEF Telling
<1>4. ASSUME NEW i \in Id, IdOf(r) = i PROVE Telling(r)
  <2>1. pc[r] \notin {"idle", "done"} /\ Live(r) /\ pc'[r] = "done"
    <3>1. CASE Complete(r)
      BY <1>1, <3>1 DEF Complete, Goto, TypeOK, Live
    <3>2. CASE pc[r] = "settling" /\ (AlreadySettled(<<"handler", r>>) \/ PublishOutcome(<<"handler", r>>))
      <4>1. PICK response : Settled(<<"handler", r>>, response)
        BY <3>2 DEF AlreadySettled, PublishOutcome
      <4>2. pc'[r] = "done"
        BY <1>1, <3>2, <4>1 DEF Settled, Settling, Goto, TypeOK
      <4> QED BY <3>2, <4>2 DEF Live
    <3> QED BY <1>1, <3>1, <3>2 DEF AnswerMoves
  <2>2. Mine(r)
    BY <1>1, <1>4, <2>1 DEF Ownership, Attended
  <2>3. CASE Complete(r) /\ ~Remembered(i) /\ ~Interrupted(i) /\ answer'[r] = outcome[r]
    BY <1>4, <2>3 DEF Telling
  <2>4. CASE Remembered(i) /\ answer'[r] = OutcomeOf(i).response
    <3>1. OutcomeOf(i) \in Outcomes /\ OutcomeOf(i).id = i
      BY <1>1, <2>4, RememberedOutcome
    <3>2. OutcomeOf(i).of = r
      BY <1>4, <2>2, <3>1 DEF Mine
    <3> QED BY <2>4, <3>1, <3>2, OutcomeTold
  <2>5. CASE pc[r] = "settling" /\ Interrupted(i) /\ PublishOutcome(<<"handler", r>>)
    <3>1. target[<<"handler", r>>] = i
      BY <1>1, <1>4, <2>5 DEF HandlerSettles, PublishOutcome, Runs
    <3>2. registry[i].of = r
      BY <1>4, <2>2, <2>5 DEF Mine, Interrupted, Present
    <3> QED BY <1>4, <2>5, <3>1, <3>2, SettlersOf DEF Telling
  <2>6. CASE pc[r] = "settling" /\ ~Remembered(i) /\ ~Interrupted(i)
    <3>1. ~Present(i)
      BY <1>1, <1>4, <2>2, <2>6 DEF Mine, Interruptions, Interruption
    <3> QED BY <1>4, <2>6, <3>1 DEF Telling
  <2> QED BY <1>1, <1>4, <2>1, <2>3, <2>4, <2>5, <2>6, OwnAnswer
<1> QED BY <1>2, <1>3, <1>4

\* The memory tells.
LEMMA RecordTells ==
  ASSUME Turn, NEW r \in Request, bound[r], ~ToldUnknown(r),
         NEW x \in Outcomes', x.of = r, x.response \in Unknowns
  PROVE  Telling(r)
<1>1. Inv /\ Step /\ SettleInv /\ Records /\ RecordMoves /\ Canceled
  BY DEF Turn, Step, FenceInv, Moves, SettleInv
<1>2. x \notin Outcomes
  BY OutcomeTold
<1>3. PICK i \in Id, response \in Responses : Ends(i, response) /\ x = RecordOf(i, response)
  BY <1>1, <1>2 DEF RecordMoves
<1>4. registry[i].of = r /\ response \in Unknowns /\ Present(i)
  BY <1>3 DEF RecordOf, Ends
<1>5. IdOf(r) = i /\ ~Remembered(i)
  BY <1>1, <1>4, EntryOwner DEF Records
<1>6. CASE Complete(r) /\ response = outcome[r] /\ ~Interrupted(i)
  BY <1>4, <1>5, <1>6 DEF Telling
<1>7. CASE Interrupted(i) /\ \E p \in Settler : PublishOutcome(p) /\ target[p] = i
  BY <1>4, <1>5, <1>7 DEF Telling
<1> QED BY <1>1, <1>3, <1>4, <1>6, <1>7, EndsBound

\* The canceller tells.
LEMMA CancellerTells ==
  ASSUME Turn, NEW r \in Request, bound[r], ~ToldUnknown(r),
         NEW c \in Canceller, canceled'[c] = r, cpc'[c] = "accepted"
  PROVE  Telling(r)
<1>1. Inv /\ Step /\ SettleInv /\ TypeOK /\ CancellerMoves /\ Canceled /\ CancellerSettles(c)
  BY DEF Turn, Step, FenceInv, Moves, Inv, SettleInv, Settlers
<1>2. ASSUME NEW i \in Id, Cancel(c, i) PROVE FALSE
  BY <1>1, <1>2, CancelTakes
<1>3. canceled[c] = r
  BY <1>1, <1>2 DEF CancellerMoves
<1>4. cpc'[c] # cpc[c]
  BY <1>3, OutcomeTold
<1>5. ASSUME \/ \E i \in Id : CancelRefused(c, i)
             \/ CancelLatches(c) \/ CancelSignals(c) \/ DropCanceller(c)
      PROVE  FALSE
  BY <1>1, <1>5 DEF CancelRefused, CancelLatches, CancelSignals, DropCanceller, CGoto, TypeOK
<1>6. ~CancelCompletes(c)
  BY <1>1, <1>3 DEF CancelCompletes, Canceled
<1>7. CASE AlreadySettled(<<"canceller", c>>) \/ PublishOutcome(<<"canceller", c>>)
  <2>1. cpc[c] = "settling"
    BY <1>1, <1>7 DEF CancellerSettles, AlreadySettled, PublishOutcome, Runs
  <2> QED BY <1>3, <1>7, <2>1 DEF Telling
<1> QED BY <1>1, <1>2, <1>4, <1>5, <1>6, <1>7 DEF CancellerMoves

\* Somebody is told by one of these steps.
LEMMA TellingStep ==
  ASSUME Turn, NEW r \in Request, ComesToBeTold(r)
  PROVE  Telling(r)
<1>1. bound[r] /\ ~ToldUnknown(r) /\ ToldUnknown(r)'
  BY DEF ComesToBeTold
<1>2. \/ answer'[r] \in Unknowns
      \/ \E x \in Outcomes' : x.of = r /\ x.response \in Unknowns
      \/ \E c \in Canceller : canceled'[c] = r /\ cpc'[c] = "accepted"
  BY <1>1, Zenon DEF ToldUnknown, Outcomes, Elements
<1> QED BY <1>1, <1>2, AnswerTells, RecordTells, CancellerTells
-----------------------------------------------------------------------------
(* The theorems.                                                           *)

\* When a browser command is abandoned by a cancellation or a dropped caller, the
\* latch is there before the action lock is, unless the command is an observation
\* that lifted the latch of its own cancellation.
THEOREM AbandonedBehindTheLatch == Spec => []FencedBeforeUnlock
<1>1. FenceInv => FencedBeforeUnlock
  <2> SUFFICES ASSUME FenceInv, NEW r \in Request, Browser(r), bound[r],
                      outcome[r] \in {"canceled", "dropped"}, lock # r
               PROVE  Fenced(r) \/ LiftedItself(r)
    BY DEF FencedBeforeUnlock
  <2>1. Abandoned(r) /\ BrowserOwner(r)
    BY DEF FenceInv, BrowserOwner
  <2>2. Safe(r)
    BY <2>1 DEF Abandoned
  <2> QED BY <2>2 DEF Safe
<1> QED BY <1>1, AlwaysFence, PTL

\* Once the 202 of a cancellation is out, mutations of the page wait for an
\* explicit observation, but for the same exception.
THEOREM AcceptedBehindTheLatch == Spec => []AcceptedMeansLatched
<1>1. Inv /\ FenceInv => AcceptedMeansLatched
  <2> SUFFICES ASSUME Inv, FenceInv, NEW c \in Canceller, cpc[c] = "accepted",
                      bound[canceled[c]], Browser(canceled[c])
               PROVE  Fenced(canceled[c]) \/ LiftedItself(canceled[c])
    BY DEF AcceptedMeansLatched
  <2>1. canceled[c] \in Request
    BY DEF Inv, Shape, Canceling
  <2>2. Past(c)
    BY DEF Past
  <2> QED BY <2>1, <2>2 DEF FenceInv, Canceled, BrowserOwner, Safe
<1> QED BY <1>1, AlwaysFence, PTL

\* Who tells of a browser call has withdrawn the page, or finds it just canceled.
LEMMA BrowserTelling ==
  ASSUME Turn, NEW r \in Request, bound[r], Browser(r), Telling(r)
  PROVE  Safe(r) \/ BeingCanceled(r)
<1>1. /\ Inv /\ Step /\ SettleInv /\ Canceled /\ Outcoming /\ Abandoned(r) /\ Kept(r) /\ BrowserOwner(r)
      /\ Interruptions /\ Settlers
  BY DEF Turn, Step, FenceInv, SettleInv, BrowserOwner
<1>2. CASE Complete(r) /\ outcome[r] \in Unknowns
  BY <1>1, <1>2 DEF Complete, Unknowns, Synthetic, Outcoming, Abandoned
<1>3. ASSUME NEW i \in Id, NEW p \in Settler, IdOf(r) = i, Interrupted(i), registry[i].of = r,
             PublishOutcome(p), target[p] = i
      PROVE  Safe(r) \/ BeingCanceled(r)
  <2>1. Present(i) /\ (registry[i].byCaller <=> Blamed(r))
    BY <1>1, <1>3 DEF Present, Interrupted, Interruptions, Interruption
  <2>2. ASSUME NEW c \in Canceller, canceled[c] = r PROVE Safe(r) \/ BeingCanceled(r)
    <3>1. canceled[c] # NoRequest
      BY <2>2
    <3>2. cpc[c] \notin {"idle", "refused"}
      BY <1>1, <3>1 DEF Settlers, CancellerSettles
    <3>3. Past(c) => Safe(r)
      BY <1>1, <2>2 DEF Canceled
    <3> QED BY <2>2, <3>2, <3>3 DEF BeingCanceled, Past
  <2>3. CASE ~registry[i].byCaller
    <3>1. pc[r] = "fencing" \/ Safe(r)
      BY <1>1, <1>3, <2>3 DEF Kept
    <3>2. ASSUME pc[r] = "fencing" PROVE FALSE
      <4>1. Runs(p, "publishing")
        BY <1>3 DEF PublishOutcome
      <4>2. \E c \in Canceller : canceled[c] = r
        BY <1>1, <1>3, <2>1, <3>2, <4>1, BrowserSettler
      <4> QED BY <2>1, <2>3, <4>2 DEF Blamed
    <3> QED BY <3>1, <3>2
  <2> QED BY <2>1, <2>2, <2>3 DEF Blamed
<1>4. ASSUME NEW c \in Canceller, canceled[c] = r, cpc[c] = "settling"
      PROVE  Safe(r)
  BY <1>1, <1>4 DEF Canceled, Past
<1>5. ASSUME NEW i \in Id, IdOf(r) = i, pc[r] = "settling", ~Present(i)
      PROVE  Safe(r)
  <2>1. LatchedFor(r)
    BY <1>1, <1>5 DEF Kept, Working, Live
  <2> QED BY <1>1, <2>1, LatchedSafe
<1> QED BY <1>2, <1>3, <1>4, <1>5 DEF Telling

\* Nobody is told that the outcome of a browser call is unknown before the page
\* is withdrawn, but for the moment in which a cancellation has not come to it and
\* for an observation that lifted the latch of its own cancellation.
THEOREM BrowserFencedBeforeTold == Spec => FencedButForCancel
<1>1. Inv /\ SettleInv /\ FenceInv /\ [Next]_vars =>
        \A r \in Request : Browser(r) /\ ComesToBeTold(r)
          => Fenced(r)' \/ LiftedItself(r) \/ BeingCanceled(r)
  <2> SUFFICES ASSUME Inv, SettleInv, FenceInv, [Next]_vars,
                      NEW r \in Request, Browser(r), ComesToBeTold(r)
               PROVE  Fenced(r)' \/ LiftedItself(r) \/ BeingCanceled(r)
    OBVIOUS
  <2>1. Turn /\ Telling(r) /\ bound[r]
    BY TurnFacts, TellingStep DEF ComesToBeTold
  <2>2. Safe(r) \/ BeingCanceled(r)
    BY <2>1, BrowserTelling
  <2>3. LatchMoves /\ Reobserving
    BY <2>1 DEF Turn, AuthorityMoves, FenceInv
  <2>4. ASSUME Fenced(r) PROVE Fenced(r)'
    <3>1. ASSUME NEW s \in Request, Recover(s), r \notin reobserved PROVE FALSE
      <4>1. s = r
        BY <2>1, <2>3, <3>1 DEF Reobserving, Recover
      <4>2. UNCHANGED <<answer, completed, cpc, canceled>>
        BY <3>1 DEF Recover, replayVars, cancelVars
      <4>3. ToldUnknown(r)' <=> ToldUnknown(r)
        BY <4>2 DEF ToldUnknown
      <4> QED BY <4>3 DEF ComesToBeTold
    <3> QED BY <2>3, <2>4, <3>1 DEF LatchMoves, Fenced
  <2> QED BY <2>2, <2>4 DEF Safe
<1> QED BY <1>1, AlwaysFence, PTL DEF Spec, FencedButForCancel

\* Who tells of a click on the computer finds it revoked.
LEMMA ClickTelling ==
  ASSUME Turn, NEW r \in Request, ComesToBeTold(r), Method(r) = "computer.click",
         IdOf(r) \notin forgotten, Telling(r)
  PROVE  revoked'
<1>1. /\ Inv /\ Step /\ SettleInv /\ Revoking /\ Bounded /\ Asked /\ Unregistered /\ Canceling
      /\ Ownership /\ Interruptions /\ OneStory /\ Settlers
      /\ ClickOwner(r) /\ bound[r] /\ Computer(r) /\ ~ToldUnknown(r)
  BY DEF Turn, Step, FenceInv, SettleInv, Inv, Shape, OwnerInv, ClickOwner, ComesToBeTold, Computer,
         ComputerMethods
<1>2. IdOf(r) \in Id \cup {NoId}
  BY <1>1 DEF Inv, OwnerInv, Unbound, Asked, IdOf
\* Where an id is neither registered nor forgotten, its outcome was told.
<1>3. ASSUME NEW i \in Id, IdOf(r) = i, Blamed(r), Mine(r) PROVE Present(i)
  <2>1. ASSUME Remembered(i) PROVE FALSE
    <3>1. PICK x \in Outcomes : x.id = i
      BY <1>1, <2>1, RememberedOutcome DEF Inv
    <3>2. x.of = r /\ x.response = "canceled"
      BY <1>1, <1>3, <3>1 DEF Mine, OneStory
    <3> QED BY <1>1, <3>2, OutcomeTold DEF Unknowns, Synthetic
  <2>2. Accounted(i)
    BY <1>1, <1>3 DEF Bounded
  <2> QED BY <1>3, <2>1, <2>2 DEF Accounted
<1>4. CASE /\ Complete(r) /\ outcome[r] \in Unknowns
           /\ \A i \in Id : IdOf(r) = i => ~Remembered(i) /\ ~Interrupted(i)
  <2>1. pc[r] = "acted" /\ revoked' = revoked /\ Live(r)
    BY <1>4 DEF Complete, authorityVars, Live
  <2>2. ASSUME NEW i \in Id, IdOf(r) = i PROVE Present(i) /\ registry[i].of = r
    <3>1. Present(i)
      BY <1>1, <1>4, <2>2 DEF Bounded, Accounted
    <3> QED BY <1>1, <2>1, <2>2, <3>1 DEF Ownership, Attended, Mine
  <2>3. ASSUME Blamed(r) PROVE FALSE
    <3>1. PICK c \in Canceller : canceled[c] = r
      BY <2>3 DEF Blamed
    <3>2. canceled[c] # NoRequest
      BY <3>1
    <3>3. PICK i \in Id : IdOf(r) = i
      BY <1>1, <3>1, <3>2 DEF Settlers, CancellerSettles, Canceling
    <3> QED BY <1>1, <1>4, <2>2, <2>3, <3>3 DEF Interruptions, Interruption
  <2>4. outcome[r] = "unknown"
    BY <1>1, <1>4, <2>3 DEF Bounded, Unknowns, Synthetic, Turn, FenceInv, Outcoming
  <2>5. Present(KeyOf(r))
    BY <1>1, <1>2, <2>1, <2>2 DEF KeyOf, Unregistered
  <2> QED BY <1>1, <2>1, <2>4, <2>5 DEF Revoking
<1>5. ASSUME NEW i \in Id, NEW p \in Settler, Present(i), registry[i].of = r,
             PublishOutcome(p), target[p] = i
      PROVE  revoked'
  <2>1. stage[p] = "publishing" /\ revoked' = revoked /\ i \in Key
    BY <1>5 DEF PublishOutcome, Runs, authorityVars, Key
  <2> QED BY <1>1, <1>5, <2>1 DEF Revoking
<1>6. ASSUME NEW c \in Canceller, canceled[c] = r, cpc[c] = "settling",
             AlreadySettled(<<"canceller", c>>) \/ PublishOutcome(<<"canceller", c>>)
      PROVE  revoked'
  <2>1. PICK i \in Id : IdOf(r) = i
    BY <1>1, <1>6 DEF Canceling
  <2>2. Blamed(r) /\ Mine(r)
    BY <1>1, <1>6, <2>1 DEF Blamed, Ownership, Attended, Undecided
  <2>3. Present(i) /\ registry[i].of = r
    BY <1>3, <2>1, <2>2 DEF Mine
  <2>4. Interrupted(i) /\ ~Remembered(i)
    BY <1>1, <2>2, <2>3 DEF Interruptions, Interruption, SettleInv, Records
  <2>5. target[<<"canceller", c>>] = i
    BY <1>1, <1>6, <2>1 DEF Settlers, CancellerSettles
  <2>6. ~AlreadySettled(<<"canceller", c>>)
    BY <2>4, <2>5 DEF AlreadySettled
  <2> QED BY <1>5, <1>6, <2>3, <2>5, <2>6, SettlersOf
<1>7. ASSUME NEW i \in Id, IdOf(r) = i, ~Remembered(i), ~Present(i)
      PROVE  FALSE
  BY <1>1, <1>7 DEF Bounded, Accounted
<1>8. ASSUME NEW i \in Id, NEW p \in Settler, Interrupted(i), registry[i].of = r,
             PublishOutcome(p), target[p] = i
      PROVE  revoked'
  BY <1>5, <1>8 DEF Interrupted, Present
<1> QED BY <1>4, <1>6, <1>7, <1>8 DEF Telling

\* Nobody is told that the outcome of a computer command is unknown before the
\* authority it may have used is revoked.
THEOREM ComputerFencedBeforeTold == Spec => FencedBeforeAnswer
<1>1. Inv /\ SettleInv /\ FenceInv /\ [Next]_vars =>
        \A r \in Request :
          Method(r) = "computer.click" /\ IdOf(r) \notin forgotten /\ ComesToBeTold(r) => revoked'
  BY TurnFacts, TellingStep, ClickTelling
<1> QED BY <1>1, AlwaysFence, PTL DEF Spec, FencedBeforeAnswer
=============================================================================
