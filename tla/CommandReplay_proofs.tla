------------------------ MODULE CommandReplay_proofs ------------------------
(***************************************************************************)
(* Theorems about CommandReplay, for every set of requests, cancellations  *)
(* and call ids, every traffic and every size of the memory.               *)
(***************************************************************************)
EXTENDS CommandReplay, TLAPS

USE RequestAssumption, TrafficAssumption, CacheAssumption

-----------------------------------------------------------------------------
(* The inductive invariant.                                                *)

\* An entry belongs to the request that was admitted under its key.
Entry ==
  \A k \in Key : Present(k) =>
    registry[k].of \in Request /\ pc[registry[k].of] # "idle" /\ KeyOf(registry[k].of) = k

Asked == \A r \in Request : pc[r] # "idle" => request[r] \in Traffic

Answerable ==
  \A r \in Request :
    pc[r] \in {"latching", "withdrawing", "logging", "acted", "settling"} => outcome[r] \in Responses

Canceling ==
  \A c \in Canceller :
    /\ cpc[c] \notin {"idle", "refused"} =>
         canceled[c] \in Request /\ pc[canceled[c]] # "idle" /\ IdOf(canceled[c]) \in Id
    /\ stage[<<"canceller", c>>] # "off" => cpc[c] = "settling"

Staged == \A p \in Settler : stage[p] # "off" <=> target[p] # NoId

\* What TypeOK needs to be inductive.
Shape == Entry /\ Asked /\ Answerable /\ Canceling /\ Staged

\* Where a handler holds the action lock.
Holding == {"settling unregistered", "settling registered", "reading", "binding",
            "relaying", "calling", "following", "publishing", "recovering",
            "latching", "withdrawing", "logging"}

Held == \A r \in Request : pc[r] \in Holding => lock = r

Unbound ==
  \A r \in Request :
    pc[r] \in {"idle", "queued", "settling unregistered", "settling registered",
               "reading", "binding"} => ~bound[r]

\* A bound computer request without a call id stays registered until its handler
\* has answered, or its settlement is over.
Unregistered ==
  \A r \in Request :
    /\ Computer(r) /\ IdOf(r) = NoId /\ bound[r] /\ pc[r] \notin {"unwinding", "done", "gone"}
         => Present(r)
    /\ Interrupted(r) => pc[r] \in {"unwinding", "gone"}
    /\ \A p \in Settler : target[p] = r => pc[r] \in {"unwinding", "gone"}

\* The computer was found free of unregistered owners, then of all others.
FreeOfOthers ==
  \A r \in Request : Computer(r) =>
    /\ pc[r] = "settling registered" => OtherComputerOwners(r, Request) = {}
    /\ pc[r] \in Holding \ {"settling unregistered", "settling registered"} =>
         OtherComputerOwners(r, Key) = {}

OwnerInv == Held /\ Unbound /\ Unregistered /\ FreeOfOthers

\* A handler that has been admitted and has not ended.
Live(r) == pc[r] \notin {"idle", "done", "gone"}

\* The registry, or the memory, knows the id, or has forgotten its outcome.
Accounted(i) == Present(i) \/ Remembered(i) \/ i \in forgotten

\* The handler may still relay its command.
BeforeRelay == {"queued", "settling unregistered", "settling registered", "reading",
                "binding", "relaying"}

OnceInv ==
  /\ \A r \in Request, i \in Id : Live(r) /\ IdOf(r) = i => Accounted(i)
  /\ \A r, s \in Request : Live(r) /\ Live(s) /\ IdOf(r) # NoId /\ IdOf(r) = IdOf(s) => r = s
  /\ \A r \in Request, i \in Id : pc[r] \in BeforeRelay /\ IdOf(r) = i => dispatches[i] = 0
  /\ \A i \in Id : dispatches[i] > 0 => Accounted(i)
  /\ AtMostOnce

-----------------------------------------------------------------------------
(* Lemmas about the registry and the memory.                               *)

States == {"absent", "active", "interrupted", "claimed"}
Memory == [id : Id, method : Methods, response : Responses, of : Request]

\* Changing the state of an entry keeps the registry well typed.
LEMMA BecomeType ==
  ASSUME TypeOK, NEW k, NEW s \in States, NEW blamed
  PROVE  k \in Key /\ blamed \in BOOLEAN => Become(k, s, blamed) \in [Key -> Entries]
  BY DEF Become, TypeOK, Entries, States

\* The place of a remembered outcome is a place of the memory.
LEMMA PlaceInMemory ==
  ASSUME completed \in Seq(Memory), NEW i, Remembered(i)
  PROVE  /\ PlaceOf(i) \in 1..Len(completed)
         /\ OutcomeOf(i) \in Memory /\ OutcomeOf(i).id = i
  BY DEF Remembered, IdsIn, PlaceOf, OutcomeOf

\* Forgetting a remembered outcome makes room for one.
LEMMA ForgetType ==
  ASSUME completed \in Seq(Memory), NEW i, Remembered(i)
  PROVE  Forget(i) \in Seq(Memory) /\ Len(Forget(i)) = Len(completed) - 1
  BY PlaceInMemory DEF Forget

\* So does MakeRoom, if there is none.
LEMMA RoomType ==
  ASSUME completed \in Seq(Memory), Len(completed) <= CacheSize
  PROVE  MakeRoom(completed) \in Seq(Memory) /\ Len(MakeRoom(completed)) < CacheSize
<1>1. CASE Len(completed) < CacheSize
  BY <1>1 DEF MakeRoom
<1>2. CASE Len(completed) = CacheSize
  <2>1. MakeRoom(completed) = SubSeq(completed, 2, Len(completed))
    BY <1>2 DEF MakeRoom
  <2> QED BY <2>1, <1>2
<1> QED BY <1>1, <1>2

\* An entry in use has an owner whose method is known.
LEMMA EntryType ==
  ASSUME TypeOK, Shape, NEW k \in Key, Present(k)
  PROVE  registry[k].of \in Request /\ Method(registry[k].of) \in Methods
  BY DEF Shape, Entry, Asked, Method, TypeOK

\* A synthetic answer is an answer.
LEMMA SyntheticType ==
  ASSUME NEW k PROVE SyntheticFor(k) \in Responses
  BY DEF SyntheticFor, Responses, Unknowns, Synthetic

\* Storing an outcome keeps the registry and the memory well typed and bounded.
LEMMA StoreType ==
  ASSUME TypeOK, Shape, NEW k \in Id, NEW response \in Responses, Present(k),
         Store(k, response)
  PROVE  /\ registry' \in [Key -> Entries]
         /\ completed' \in Seq(Memory) /\ Len(completed') <= CacheSize
         /\ forgotten' \subseteq Id
<1> DEFINE stored == [id |-> k, method |-> Method(registry[k].of),
                      response |-> response, of |-> registry[k].of]
           room   == MakeRoom(completed)
<1>1. stored \in Memory
  BY EntryType DEF Key, Memory
<1>2. room \in Seq(Memory) /\ Len(room) < CacheSize
  BY RoomType DEF TypeOK, Memory
<1>3. completed' = Append(room, stored)
  BY DEF Store
<1>4. registry' \in [Key -> Entries]
  <2>1. registry' = [registry EXCEPT ![k] = NoEntry] /\ NoEntry \in Entries
    BY DEF Store, NoEntry, Entries
  <2> QED BY <2>1 DEF TypeOK
<1>5. IdsIn(completed) \subseteq Id
  <2>1. \A n \in DOMAIN completed : completed[n].id \in Id
    <3>1. completed \in Seq(Memory)
      BY DEF TypeOK, Memory
    <3>2. \A n \in DOMAIN completed : completed[n] \in Memory
      BY <3>1
    <3> QED BY <3>2 DEF Memory
  <2>2. ASSUME NEW i \in IdsIn(completed) PROVE i \in Id
    <3>1. PICK n \in DOMAIN completed : i = completed[n].id
      BY <2>2, Zenon DEF IdsIn
    <3> QED BY <2>1, <3>1
  <2> QED BY <2>2
<1>6. forgotten' \subseteq Id
  BY <1>5 DEF Store, TypeOK
<1> HIDE DEF stored, room
<1>7. completed' \in Seq(Memory) /\ Len(completed') <= CacheSize
  BY <1>1, <1>2, <1>3
<1> QED BY <1>4, <1>6, <1>7

\* So does completing what was interrupted.
LEMMA CompleteInterruptedType ==
  ASSUME TypeOK, Shape, NEW k \in Id, CompleteInterrupted(k)
  PROVE  /\ registry' \in [Key -> Entries]
         /\ completed' \in Seq(Memory) /\ Len(completed') <= CacheSize
         /\ forgotten' \subseteq Id
<1>1. CASE Interrupted(k)
  <2>1. Store(k, SyntheticFor(k)) /\ Present(k)
    BY <1>1 DEF CompleteInterrupted, Interrupted, Present
  <2> QED BY <2>1, StoreType, SyntheticType
<1>2. CASE ~Interrupted(k)
  BY <1>2 DEF CompleteInterrupted, TypeOK, Memory, replayVars
<1> QED BY <1>1, <1>2

\* Dropping a settlement keeps the types.
LEMMA ReleaseType ==
  ASSUME TypeOK, Shape, NEW p \in Settler, ReleaseClaim(p)
  PROVE  /\ registry' \in [Key -> Entries]
         /\ stage' \in [Settler -> {"off", "claiming", "clearing", "publishing"}]
         /\ target' \in [Settler -> Key \cup {NoId}]
<1>1. CASE registry' = registry
  BY <1>1 DEF ReleaseClaim, TypeOK
<1>2. CASE registry' # registry
  <2>1. /\ registry' = Become(target[p], "interrupted", registry[target[p]].byCaller)
        /\ stage[p] # "off"
    BY <1>2 DEF ReleaseClaim
  <2>2. target[p] \in Key
    BY <2>1 DEF Shape, Staged, TypeOK
  <2>3. registry' \in [Key -> Entries]
    BY <2>1, <2>2, BecomeType DEF TypeOK, Entries, States
  <2> QED BY <2>3 DEF ReleaseClaim, TypeOK
<1> QED BY <1>1, <1>2

\* A remembered outcome is one of an id that some place of the memory shows.
LEMMA InMemory ==
  ASSUME NEW m \in Seq(Memory), NEW n \in 1..Len(m)
  PROVE  m[n].id \in IdsIn(m)
  BY DEF IdsIn

\* What is appended is remembered, and nothing is lost by it.
LEMMA AppendIds ==
  ASSUME NEW m \in Seq(Memory), NEW x \in Memory
  PROVE  IdsIn(Append(m, x)) = IdsIn(m) \cup {x.id}
<1> DEFINE a == Append(m, x)
<1>1. /\ a \in Seq(Memory) /\ Len(a) = Len(m) + 1 /\ a[Len(m) + 1] = x
      /\ \A n \in 1..Len(m) : a[n] = m[n]
  OBVIOUS
<1>2. DOMAIN a = 1..(Len(m) + 1) /\ DOMAIN m = 1..Len(m) /\ Len(m) \in Nat
  BY <1>1
<1> HIDE DEF a
<1>3. ASSUME NEW i \in IdsIn(a) PROVE i \in IdsIn(m) \cup {x.id}
  <2>1. PICK n \in DOMAIN a : i = a[n].id
    BY <1>3, Zenon DEF IdsIn
  <2>2. CASE n = Len(m) + 1
    BY <2>1, <2>2, <1>1
  <2>3. CASE n # Len(m) + 1
    <3>1. n \in 1..Len(m)
      BY <2>3, <1>2
    <3> QED BY <3>1, <2>1, <1>1, InMemory
  <2> QED BY <2>2, <2>3
<1>4. ASSUME NEW i \in IdsIn(m) PROVE i \in IdsIn(a)
  <2>1. PICK n \in DOMAIN m : i = m[n].id
    BY <1>4, Zenon DEF IdsIn
  <2>2. n \in 1..Len(a) /\ a[n] = m[n]
    BY <2>1, <1>1, <1>2
  <2> QED BY <2>1, <2>2, <1>1, InMemory
<1>5. x.id \in IdsIn(a)
  <2>1. Len(m) + 1 \in 1..Len(a)
    BY <1>1, <1>2
  <2> QED BY <2>1, <1>1, InMemory
<1> QED BY <1>3, <1>4, <1>5, Zenon DEF a

-----------------------------------------------------------------------------
(* Every step keeps the types.                                             *)

\* The simple actions of a handler.
LEMMA SimpleHandlerType ==
  ASSUME TypeOK, Shape, NEW r \in Request,
         \/ AcquireLock(r)
         \/ PriorSettled(r)
         \/ ReadAuthority(r)
         \/ Refuse(r)
         \/ Bind(r)
         \/ BindRefused(r)
         \/ Publish(r)
         \/ Recover(r)
         \/ Quarantine(r)
         \/ WithdrawOwn(r)
         \/ Logged(r)
  PROVE  TypeOK'
<1>1. CASE AcquireLock(r)
  BY <1>1 DEF AcquireLock, replayVars, cancelVars, settleVars, authorityVars,
       historyVars, Goto, Waiting, TypeOK
<1>2. CASE PriorSettled(r)
  BY <1>2 DEF PriorSettled, replayVars, cancelVars, settleVars, authorityVars,
       historyVars, Goto, Waiting, TypeOK
<1>3. CASE ReadAuthority(r)
  BY <1>3 DEF ReadAuthority, replayVars, cancelVars, settleVars, authorityVars,
       historyVars, Goto, Waiting, TypeOK
<1>4. CASE Refuse(r)
  BY <1>4 DEF Refuse, replayVars, cancelVars, settleVars, authorityVars, historyVars,
       Synthetic, Unknowns, Responses, Goto, Finish, Waiting, TypeOK
<1>5. CASE Bind(r)
  <2>1. registry' \in [Key -> Entries]
    BY <1>5 DEF Bind, Key, Entries, TypeOK
  <2>2. /\ bound' \in [Request -> BOOLEAN] /\ pc' = [pc EXCEPT ![r] = "relaying"]
        /\ UNCHANGED <<lock, request, signal, outcome, answer, completed, cancelVars,
                       settleVars, authorityVars, historyVars>>
    BY <1>5 DEF Bind, Goto, TypeOK
  <2> QED BY <2>1, <2>2 DEF cancelVars, settleVars, authorityVars, historyVars, Waiting, TypeOK
<1>6. CASE BindRefused(r)
  BY <1>6 DEF BindRefused, replayVars, cancelVars, settleVars, authorityVars,
       historyVars, Synthetic, Unknowns, Responses, IdOf, Goto, Finish, Waiting, TypeOK
<1>7. CASE Publish(r)
  <2>1. /\ lock' = lock /\ pc' \in {[pc EXCEPT ![r] = "recovering"], [pc EXCEPT ![r] = "logging"]}
        /\ outcome' \in [Request -> Responses \cup {"none", "dropped"}]
    BY <1>7 DEF Publish, Log, Goto, Synthetic, Unknowns, Responses, TypeOK
  <2>2. /\ observation' \in Request \cup {"none", "initial"} /\ revoked' \in BOOLEAN
        /\ reobserved' \subseteq Request
    BY <1>7 DEF Publish, TypeOK
  <2>3. UNCHANGED <<request, bound, signal, answer, replayVars, cancelVars,
                    settleVars, latched, dispatches, forgotten, lifted>>
    BY <1>7 DEF Publish
  <2> QED BY <2>1, <2>2, <2>3 DEF replayVars, cancelVars, settleVars, Waiting, TypeOK
<1>8. CASE Recover(r)
  <2>1. lifted' \subseteq Request
    BY <1>8 DEF Recover, TypeOK
  <2> QED BY <1>8, <2>1 DEF Recover, replayVars, cancelVars, settleVars, Synthetic,
       Unknowns, Responses, Goto, Log, Waiting, TypeOK
<1>9. CASE Quarantine(r)
  BY <1>9 DEF Quarantine, replayVars, cancelVars, settleVars, historyVars, Goto,
       Waiting, TypeOK
<1>10. CASE WithdrawOwn(r)
  BY <1>10 DEF WithdrawOwn, replayVars, cancelVars, settleVars, historyVars, Synthetic,
       Unknowns, Responses, Goto, Log, Withdraw, Waiting, TypeOK, Shape, Answerable
<1>11. CASE Logged(r)
  BY <1>11 DEF Logged, replayVars, cancelVars, settleVars, authorityVars, historyVars, Synthetic,
       Unknowns, Responses, Goto, Finish, Waiting, TypeOK, Shape, Answerable
<1> QED BY <1>1, <1>2, <1>3, <1>4, <1>5, <1>6, <1>7, <1>8, <1>9, <1>10, <1>11

\* Arrive keeps every variable in its type.
LEMMA ArriveType ==
  ASSUME TypeOK, Shape, NEW r \in Request, Arrive(r)
  PROVE  TypeOK'
<1>1. PICK q \in Traffic : \/ Admit(r, q) \/ Replay(r, q)
                          \/ RefuseDuplicate(r, q) \/ RefuseReuse(r, q)
  BY DEF Arrive
<1>2. request' \in [Request -> Traffic \cup {NoTraffic}]
  <2>1. request' = [request EXCEPT ![r] = q]
    BY <1>1 DEF Admit, Replay, RefuseDuplicate, RefuseReuse, Ask
  <2> QED BY <2>1 DEF TypeOK
<1>3. CASE Admit(r, q)
  <2>1. [of |-> r, state |-> "active", byCaller |-> FALSE] \in Entries
    BY DEF Entries
  <2>2. \/ registry' = registry /\ dispatches' = dispatches /\ forgotten' = forgotten
        \/ /\ q.id \in Id /\ forgotten' = forgotten \ {q.id}
           /\ registry' = [registry EXCEPT ![q.id] =
                             [of |-> r, state |-> "active", byCaller |-> FALSE]]
           /\ dispatches' = dispatches \/ dispatches' = [dispatches EXCEPT ![q.id] = 0]
    <3>1. q.id \in Id \cup {NoId}
      OBVIOUS
    <3>2. CASE q.id = NoId
      BY <1>3, <3>2 DEF Admit
    <3>3. CASE q.id # NoId
      BY <1>3, <3>1, <3>3 DEF Admit
    <3> QED BY <3>2, <3>3
  <2>3. /\ registry' \in [Key -> Entries]
        /\ dispatches' \in [Id -> Nat] /\ forgotten' \subseteq Id
    <3>1. registry' \in [Key -> Entries]
      BY <2>1, <2>2 DEF TypeOK
    <3>2. dispatches' \in [Id -> Nat]
      <4>1. dispatches \in [Id -> Nat]
        BY DEF TypeOK
      <4>2. dispatches' = dispatches \/ \E i \in Id : dispatches' = [dispatches EXCEPT ![i] = 0]
        BY <2>2
      <4> QED BY <4>1, <4>2
    <3>3. forgotten' \subseteq Id
      BY <2>2 DEF TypeOK
    <3> QED BY <3>1, <3>2, <3>3
  <2> QED BY <1>2, <1>3, <2>3 DEF Admit, TypeOK, Goto, cancelVars, settleVars,
       authorityVars, Waiting
<1>4. CASE Replay(r, q)
  <2>1. Remembered(q.id) /\ completed \in Seq(Memory)
    BY <1>4 DEF Replay, TypeOK, Memory
  <2>2. OutcomeOf(q.id) \in Memory
    BY <2>1, PlaceInMemory
  <2>3. Forget(q.id) \in Seq(Memory) /\ Len(Forget(q.id)) = Len(completed) - 1
    BY <2>1, ForgetType
  <2>4. completed' = Append(Forget(q.id), OutcomeOf(q.id))
    BY <1>4 DEF Replay
  <2>5. completed' \in Seq(Memory) /\ Len(completed') = Len(completed)
    BY <2>2, <2>3, <2>4, <2>1
  <2>6. answer' \in [Request -> Responses \cup {"none", "in_progress", "reused"}]
    BY <1>4, <2>2 DEF Replay, AnswerAtOnce, TypeOK, Memory
  <2> QED BY <1>2, <1>4, <2>5, <2>6 DEF Replay, AnswerAtOnce, TypeOK, Memory, Goto,
       cancelVars, settleVars, authorityVars, historyVars, Waiting
<1>5. CASE RefuseDuplicate(r, q)
  BY <1>2, <1>5 DEF RefuseDuplicate, AnswerAtOnce, TypeOK, Goto, cancelVars, settleVars,
       authorityVars, historyVars, Waiting
<1>6. CASE RefuseReuse(r, q)
  BY <1>2, <1>6 DEF RefuseReuse, AnswerAtOnce, TypeOK, Goto, cancelVars, settleVars,
       authorityVars, historyVars, Waiting
<1> QED BY <1>1, <1>3, <1>4, <1>5, <1>6

\* HelpSettle keeps every variable in its type.
LEMMA HelpSettleType ==
  ASSUME TypeOK, Shape, NEW r \in Request, NEW k \in Key, HelpSettle(r, k)
  PROVE  TypeOK'
  BY DEF HelpSettle, TypeOK, Settler, handlerVars, replayVars, cancelVars,
       authorityVars, historyVars, Waiting

\* How the handler goes on when the connector has answered.
LEMMA ReturnMoves ==
  ASSUME NEW r \in Request, NEW result \in {"ok", "failed", "unknown"},
         CallReturns(r, result) \/ FollowUpReturns(r, result)
  PROVE  \/ /\ pc' = [pc EXCEPT ![r] = "following"] /\ lock' = lock
            /\ outcome' = outcome
         \/ /\ pc' = [pc EXCEPT ![r] = "publishing"] /\ lock' = lock
            /\ outcome' = outcome
         \/ /\ pc' = [pc EXCEPT ![r] = "latching"] /\ lock' = lock
            /\ \E how \in {"ok", "unknown"} : outcome' = [outcome EXCEPT ![r] = how]
         \/ /\ pc' = [pc EXCEPT ![r] = "withdrawing"] /\ lock' = lock
            /\ outcome' = [outcome EXCEPT ![r] = "unknown"] /\ Method(r) = "computer.click"
         \/ \E how \in {"ok", "failed", "unknown"} : Log(r, how)
<1>1. CASE CallReturns(r, result)
  <2>1. CASE result = "ok" /\ Method(r) \in {"page.click", "computer.click"}
    BY <1>1, <2>1 DEF CallReturns, Goto
  <2>2. CASE result = "ok" /\ Method(r) \in {"page.observe", "computer.observe"}
    BY <1>1, <2>2 DEF CallReturns, Goto
  <2>3. CASE result = "unknown" /\ Browser(r)
    BY <1>1, <2>3 DEF CallReturns, Goto
  <2>4. CASE result = "unknown" /\ ~Browser(r) /\ Method(r) = "computer.click"
    BY <1>1, <2>4 DEF CallReturns, Goto
  <2>5. CASE /\ ~(result = "ok" /\ Method(r) \in {"page.click", "computer.click"})
             /\ ~(result = "ok" /\ Method(r) \in {"page.observe", "computer.observe"})
             /\ ~(result = "unknown" /\ Browser(r))
             /\ ~(result = "unknown" /\ Method(r) = "computer.click")
    BY <1>1, <2>5 DEF CallReturns
  <2> QED BY <2>1, <2>2, <2>3, <2>4, <2>5
<1>2. CASE FollowUpReturns(r, result)
  <2>1. CASE result = "ok"
    BY <1>2, <2>1 DEF FollowUpReturns, Goto
  <2>2. CASE result = "unknown" /\ Browser(r)
    BY <1>2, <2>2 DEF FollowUpReturns, Goto
  <2>3. CASE result # "ok" /\ ~(result = "unknown" /\ Browser(r))
    BY <1>2, <2>3 DEF FollowUpReturns
  <2> QED BY <2>1, <2>2, <2>3
<1> QED BY <1>1, <1>2

\* Return keeps every variable in its type.
LEMMA ReturnType ==
  ASSUME TypeOK, NEW r \in Request, NEW result \in {"ok", "failed", "unknown"},
         CallReturns(r, result) \/ FollowUpReturns(r, result)
  PROVE  TypeOK'
<1>1. /\ lock' \in Request \cup {NoRequest}
      /\ pc' \in [Request -> Waiting \cup {"idle", "binding", "relaying", "recovering",
                "latching", "acted", "settling", "fencing", "unwinding", "done", "gone"}]
      /\ outcome' \in [Request -> Responses \cup {"none", "dropped"}]
  <2>1. \/ pc' = [pc EXCEPT ![r] = "following"] \/ pc' = [pc EXCEPT ![r] = "publishing"]
        \/ pc' = [pc EXCEPT ![r] = "latching"] \/ pc' = [pc EXCEPT ![r] = "withdrawing"]
        \/ pc' = [pc EXCEPT ![r] = "logging"]
    BY ReturnMoves DEF Log, Goto
  <2>2. lock' = lock
    BY ReturnMoves DEF Log
  <2>3. \/ outcome' = outcome
        \/ \E how \in {"ok", "failed", "unknown"} : outcome' = [outcome EXCEPT ![r] = how]
    BY ReturnMoves DEF Log
  <2>4. outcome' \in [Request -> Responses \cup {"none", "dropped"}]
    <3>1. {"ok", "failed", "unknown"} \subseteq Responses
      BY DEF Responses, Unknowns, Synthetic
    <3>2. CASE outcome' = outcome
      BY <3>2 DEF TypeOK
    <3>3. ASSUME NEW how \in {"ok", "failed", "unknown"}, outcome' = [outcome EXCEPT ![r] = how]
          PROVE  outcome' \in [Request -> Responses \cup {"none", "dropped"}]
      BY <3>1, <3>3 DEF TypeOK
    <3> QED BY <2>3, <3>2, <3>3
  <2> QED BY <2>1, <2>2, <2>4 DEF TypeOK, Waiting
<1>2. UNCHANGED <<request, bound, signal, answer, replayVars, cancelVars,
                  settleVars, authorityVars, historyVars>>
  BY DEF CallReturns, FollowUpReturns
<1> QED BY <1>1, <1>2 DEF TypeOK, replayVars, cancelVars, settleVars, authorityVars,
       historyVars

\* CancelRefused keeps every variable in its type.
LEMMA CancelRefusedType ==
  ASSUME TypeOK, NEW c \in Canceller, NEW i \in Id, CancelRefused(c, i)
  PROVE  TypeOK'
  BY DEF CancelRefused, TypeOK, CGoto, handlerVars, replayVars, settleVars,
       authorityVars, historyVars, Waiting

\* Expire keeps every variable in its type.
LEMMA ExpireType ==
  ASSUME TypeOK, NEW i \in Id, Expire(i)
  PROVE  TypeOK'
<1>1. completed \in Seq(Memory) /\ Remembered(i)
  BY DEF Expire, TypeOK, Memory
<1>2. completed' \in Seq(Memory) /\ Len(completed') = Len(completed) - 1
  BY <1>1, ForgetType DEF Expire
<1>3. Len(completed') <= CacheSize
  BY <1>1, <1>2 DEF TypeOK
<1> QED BY <1>2, <1>3 DEF Expire, TypeOK, Memory, handlerVars, cancelVars, settleVars,
       authorityVars, Waiting

\* Relay keeps every variable in its type.
LEMMA RelayType ==
  ASSUME TypeOK, Shape, NEW r \in Request, Relay(r)
  PROVE  TypeOK'
<1>1. dispatches' \in [Id -> Nat]
  BY DEF Relay, TypeOK, Shape, Asked, IdOf
<1> QED BY <1>1 DEF Relay, TypeOK, Goto, replayVars, cancelVars, settleVars,
       authorityVars, Waiting

\* SeeCancel keeps every variable in its type.
LEMMA SeeCancelType ==
  ASSUME TypeOK, Shape, NEW r \in Request, SeeCancel(r)
  PROVE  TypeOK'
<1>1. ReleaseClaim(<<"handler", r>>) /\ <<"handler", r>> \in Settler
  BY DEF SeeCancel, Settler
<1> QED BY <1>1, ReleaseType DEF SeeCancel, TypeOK, Responses, Unknowns, Synthetic,
       Goto, Finish, cancelVars, authorityVars, historyVars, Waiting

\* Unwind keeps every variable in its type.
LEMMA UnwindType ==
  ASSUME TypeOK, Shape, NEW r \in Request, Unwind(r)
  PROVE  TypeOK'
<1>1. ReleaseClaim(<<"handler", r>>) /\ <<"handler", r>> \in Settler
  BY DEF Unwind, Settler
<1> QED BY <1>1, ReleaseType DEF Unwind, TypeOK, Goto, cancelVars, authorityVars,
       historyVars, Waiting

\* DropCanceller keeps every variable in its type.
LEMMA DropCancellerType ==
  ASSUME TypeOK, Shape, NEW c \in Canceller, DropCanceller(c)
  PROVE  TypeOK'
<1>1. ReleaseClaim(<<"canceller", c>>) /\ <<"canceller", c>> \in Settler
  BY DEF DropCanceller, Settler
<1> QED BY <1>1, ReleaseType DEF DropCanceller, TypeOK, CGoto, handlerVars,
       authorityVars, historyVars, Waiting

\* CancelCompletes keeps every variable in its type.
LEMMA CancelCompletesType ==
  ASSUME TypeOK, Shape, NEW c \in Canceller, CancelCompletes(c)
  PROVE  TypeOK'
<1>1. IdOf(canceled[c]) \in Id /\ CompleteInterrupted(IdOf(canceled[c]))
  BY DEF CancelCompletes, Shape, Canceling
<1>2. /\ registry' \in [Key -> Entries]
      /\ completed' \in Seq(Memory) /\ Len(completed') <= CacheSize
      /\ forgotten' \subseteq Id
  BY <1>1, CompleteInterruptedType
<1> QED BY <1>2 DEF CancelCompletes, TypeOK, Memory, CGoto, handlerVars, replayVars,
       settleVars, authorityVars, Waiting

\* FenceUnbound keeps every variable in its type.
LEMMA FenceUnboundType ==
  ASSUME TypeOK, Shape, NEW r \in Request, FenceUnbound(r)
  PROVE  TypeOK'
<1>1. /\ registry' \in [Key -> Entries]
      /\ completed' \in Seq(Memory) /\ Len(completed') <= CacheSize
      /\ forgotten' \subseteq Id
  <2>1. CASE IdOf(r) = NoId
    BY <2>1 DEF FenceUnbound, TypeOK, Memory, replayVars
  <2>2. CASE IdOf(r) # NoId
    <3>1. IdOf(r) \in Id
      BY <2>2 DEF FenceUnbound, Shape, Asked, IdOf
    <3> QED BY <2>2, <3>1, CompleteInterruptedType DEF FenceUnbound
  <2> QED BY <2>1, <2>2
<1> QED BY <1>1 DEF FenceUnbound, TypeOK, Memory, Goto, replayVars, cancelVars,
       settleVars, authorityVars, Waiting

\* AwaitSettlement keeps every variable in its type.
LEMMA AwaitSettlementType ==
  ASSUME TypeOK, Shape, NEW r \in Request, AwaitSettlement(r)
  PROVE  TypeOK'
<1>1. IdOf(r) \in Id /\ <<"handler", r>> \in Settler
  BY DEF AwaitSettlement, Shape, Asked, IdOf, Settler
<1> QED BY <1>1 DEF AwaitSettlement, TypeOK, Key, Goto, replayVars, cancelVars,
       authorityVars, historyVars, Waiting

\* FenceBound keeps every variable in its type.
LEMMA FenceBoundType ==
  ASSUME TypeOK, Shape, NEW r \in Request, FenceBound(r)
  PROVE  TypeOK'
<1>1. KeyOf(r) \in Key
  BY DEF FenceBound, Shape, Asked, KeyOf, IdOf, Key
<1>2. registry' \in [Key -> Entries]
  <2>1. \/ registry' = registry
        \/ registry' = [registry EXCEPT ![r] = [of |-> r, state |-> "interrupted", byCaller |-> FALSE]]
    BY DEF FenceBound
  <2>2. [of |-> r, state |-> "interrupted", byCaller |-> FALSE] \in Entries
    BY DEF Entries
  <2> QED BY <2>1, <2>2 DEF TypeOK
<1> QED BY <1>1, <1>2 DEF FenceBound, TypeOK, Goto, cancelVars, historyVars, Waiting

\* Complete keeps every variable in its type.
LEMMA CompleteType ==
  ASSUME TypeOK, Shape, NEW r \in Request, Complete(r)
  PROVE  TypeOK'
<1>1. outcome[r] \in Responses
  BY DEF Complete, Shape, Answerable
<1>2. CASE IdOf(r) = NoId
  <2>1. registry' = [registry EXCEPT ![r] = NoEntry] /\ NoEntry \in Entries
    BY <1>2 DEF Complete, NoEntry, Entries
  <2> QED BY <1>1, <1>2, <2>1 DEF Complete, TypeOK, Goto, replayVars, cancelVars,
       settleVars, authorityVars, Waiting
<1>3. CASE IdOf(r) # NoId
  <2>1. IdOf(r) \in Id
    BY <1>3 DEF Complete, Shape, Asked, IdOf
  <2>2. CASE Present(IdOf(r))
    <3>1. /\ registry' \in [Key -> Entries]
          /\ completed' \in Seq(Memory) /\ Len(completed') <= CacheSize
          /\ forgotten' \subseteq Id
      BY <1>1, <1>3, <2>1, <2>2, StoreType DEF Complete
    <3>2. answer' = [answer EXCEPT ![r] = outcome[r]]
      BY <1>3, <2>2 DEF Complete
    <3> QED BY <1>1, <3>1, <3>2 DEF Complete, TypeOK, Memory, Goto, replayVars,
       cancelVars, settleVars, authorityVars, Waiting
  <2>3. CASE ~Present(IdOf(r))
    <3>1. Remembered(IdOf(r)) => OutcomeOf(IdOf(r)).response \in Responses
      BY PlaceInMemory DEF TypeOK, Memory
    <3>2. answer' \in [Request -> Responses \cup {"none", "in_progress", "reused"}]
      BY <1>1, <1>3, <2>3, <3>1 DEF Complete, TypeOK
    <3> QED BY <1>3, <2>3, <3>2 DEF Complete, TypeOK, Goto, replayVars, cancelVars,
       settleVars, authorityVars, Waiting
  <2> QED BY <2>2, <2>3
<1> QED BY <1>2, <1>3

\* DropHandler keeps every variable in its type.
LEMMA DropHandlerType ==
  ASSUME TypeOK, Shape, NEW r \in Request, DropHandler(r)
  PROVE  TypeOK'
<1>1. /\ pc' = [pc EXCEPT ![r] = "fencing"] \/ pc' = [pc EXCEPT ![r] = "unwinding"]
      /\ outcome' = outcome \/ outcome' = [outcome EXCEPT ![r] = "dropped"]
  BY DEF DropHandler, Goto, TypeOK
<1>2. registry' \in [Key -> Entries]
  <2>1. CASE IdOf(r) = NoId \/ ~Present(IdOf(r))
    BY <2>1 DEF DropHandler, TypeOK
  <2>2. CASE IdOf(r) # NoId /\ Present(IdOf(r))
    <3>1. IdOf(r) \in Key
      BY <2>2 DEF DropHandler, Shape, Asked, IdOf, Key, Waiting
    <3>2. registry[IdOf(r)] \in Entries
      BY <3>1 DEF TypeOK
    <3>3. PICK s \in States : registry' = Become(IdOf(r), s, registry[IdOf(r)].byCaller)
      <4> DEFINE freed == IF pc[r] = "settling" /\ stage[<<"handler", r>>] \in {"clearing", "publishing"}
                               /\ registry[IdOf(r)].state = "claimed"
                            THEN "interrupted" ELSE registry[IdOf(r)].state
      <4>1. registry' = Become(IdOf(r), Interrupt(freed), registry[IdOf(r)].byCaller)
        BY <2>2 DEF DropHandler
      <4>2. Interrupt(freed) \in States
        BY <3>2 DEF Interrupt, States, Entries
      <4> QED BY <4>1, <4>2
    <3> QED BY <3>1, <3>2, <3>3, BecomeType DEF Entries
  <2> QED BY <2>1, <2>2
<1>3. /\ stage' \in [Settler -> {"off", "claiming", "clearing", "publishing"}]
      /\ target' \in [Settler -> Key \cup {NoId}]
  BY DEF DropHandler, TypeOK, settleVars
<1>4. UNCHANGED <<lock, request, bound, signal, answer, completed, cancelVars,
                  authorityVars, historyVars>>
  BY DEF DropHandler
<1>5. outcome' \in [Request -> Responses \cup {"none", "dropped"}]
  BY <1>1 DEF TypeOK
<1>6. pc' \in [Request -> Waiting \cup {"idle", "binding", "relaying", "recovering",
                "latching", "acted", "settling", "fencing", "unwinding", "done", "gone"}]
  BY <1>1 DEF TypeOK
<1> QED BY <1>2, <1>3, <1>4, <1>5, <1>6 DEF TypeOK, cancelVars, authorityVars, historyVars

\* Cancel keeps every variable in its type.
LEMMA CancelType ==
  ASSUME TypeOK, Shape, NEW c \in Canceller, NEW i \in Id, Cancel(c, i)
  PROVE  TypeOK'
<1>1. Become(i, "interrupted", TRUE) \in [Key -> Entries]
  BY BecomeType DEF Key, States
<1>2. registry[i].of \in Request
  BY DEF Cancel, Shape, Entry, Present, Key
<1> QED BY <1>1, <1>2 DEF Cancel, TypeOK, CGoto, handlerVars, settleVars, authorityVars,
       historyVars, Waiting

\* What a settler targets, and what a finished one tells its caller.
LEMMA SettledType ==
  ASSUME TypeOK, NEW p \in Settler, NEW response \in Responses, Settled(p, response)
  PROVE  /\ stage' \in [Settler -> {"off", "claiming", "clearing", "publishing"}]
         /\ target' \in [Settler -> Key \cup {NoId}]
         /\ pc' = pc \/ pc' = [pc EXCEPT ![p[2]] = "done"]
         /\ answer' \in [Request -> Responses \cup {"none", "in_progress", "reused"}]
         /\ cpc' = cpc \/ cpc' = [cpc EXCEPT ![p[2]] = "accepted"]
<1>1. /\ pc' = pc \/ pc' = [pc EXCEPT ![p[2]] = "done"]
      /\ answer' = answer \/ answer' = [answer EXCEPT ![p[2]] = response]
      /\ cpc' = cpc \/ cpc' = [cpc EXCEPT ![p[2]] = "accepted"]
  BY DEF Settled, Goto, CGoto
<1>2. /\ stage' \in [Settler -> {"off", "claiming", "clearing", "publishing"}]
      /\ target' \in [Settler -> Key \cup {NoId}]
  BY DEF Settled, TypeOK
<1>3. answer' \in [Request -> Responses \cup {"none", "in_progress", "reused"}]
  BY <1>1 DEF TypeOK
<1> QED BY <1>1, <1>2, <1>3

\* Claim keeps every variable in its type.
LEMMA ClaimType ==
  ASSUME TypeOK, Shape, NEW p \in Settler, Claim(p)
  PROVE  TypeOK'
<1>1. target[p] \in Key
  BY DEF Claim, Runs, Shape, Staged, TypeOK
<1>2. registry' \in [Key -> Entries]
  BY <1>1, BecomeType DEF Claim, TypeOK, Entries, States
<1> QED BY <1>2 DEF Claim, TypeOK, handlerVars, cancelVars, authorityVars, historyVars,
       Waiting

\* AlreadySettled keeps every variable in its type.
LEMMA AlreadySettledType ==
  ASSUME TypeOK, Shape, NEW p \in Settler, AlreadySettled(p)
  PROVE  TypeOK'
<1>1. PICK response \in Responses : Settled(p, response)
  <2>1. target[p] \in Id /\ Remembered(target[p]) => OutcomeOf(target[p]).response \in Responses
    BY PlaceInMemory DEF TypeOK, Memory
  <2> QED BY <2>1 DEF AlreadySettled, Responses, Unknowns, Synthetic
<1> QED BY <1>1, SettledType DEF AlreadySettled, TypeOK, Goto, replayVars,
       authorityVars, historyVars, Waiting

\* PublishOutcome keeps every variable in its type.
LEMMA PublishOutcomeType ==
  ASSUME TypeOK, Shape, NEW p \in Settler, PublishOutcome(p)
  PROVE  TypeOK'
<1>1. PICK response \in Responses : Settled(p, response)
  <2>1. target[p] \in Id /\ Remembered(target[p]) => OutcomeOf(target[p]).response \in Responses
    BY PlaceInMemory DEF TypeOK, Memory
  <2> QED BY <2>1, SyntheticType DEF PublishOutcome, Responses, Unknowns, Synthetic
<1>2. /\ registry' \in [Key -> Entries]
      /\ completed' \in Seq(Memory) /\ Len(completed') <= CacheSize
      /\ forgotten' \subseteq Id
  <2>1. CASE target[p] \in Id
    BY <2>1, CompleteInterruptedType DEF PublishOutcome
  <2>2. CASE target[p] \notin Id
    <3>1. registry' = [registry EXCEPT ![target[p]] = NoEntry] /\ NoEntry \in Entries
      BY <2>2 DEF PublishOutcome, NoEntry, Entries
    <3> QED BY <2>2, <3>1 DEF PublishOutcome, TypeOK, Memory
  <2> QED BY <2>1, <2>2
<1>3. UNCHANGED <<lock, request, bound, signal, outcome, canceled, authorityVars, dispatches,
                  reobserved, lifted>>
  BY DEF PublishOutcome
<1> QED BY <1>1, <1>2, <1>3, SettledType DEF TypeOK, Memory, authorityVars, cancelVars

\* CancelLatches keeps every variable in its type.
LEMMA CancelLatchesType ==
  ASSUME TypeOK, Shape, NEW c \in Canceller, CancelLatches(c)
  PROVE  TypeOK'
  BY DEF CancelLatches, handlerVars, replayVars, settleVars, historyVars, CGoto, TypeOK

\* CancelSignals keeps every variable in its type.
LEMMA CancelSignalsType ==
  ASSUME TypeOK, Shape, NEW c \in Canceller, CancelSignals(c)
  PROVE  TypeOK'
<1>1. IdOf(canceled[c]) \in Key /\ <<"canceller", c>> \in Settler
  BY DEF CancelSignals, Shape, Canceling, Key, Settler
<1>2. \/ UNCHANGED <<stage, target>> /\ cpc' = [cpc EXCEPT ![c] = "completing"]
      \/ /\ stage' = [stage EXCEPT ![<<"canceller", c>>] = "claiming"]
         /\ target' = [target EXCEPT ![<<"canceller", c>>] = IdOf(canceled[c])]
         /\ cpc' = [cpc EXCEPT ![c] = "settling"]
  BY DEF CancelSignals, CGoto, settleVars
<1>3. /\ signal' = [signal EXCEPT ![canceled[c]] = TRUE]
      /\ UNCHANGED <<lock, request, pc, bound, outcome, answer, replayVars, canceled,
                    authorityVars, historyVars>>
  BY DEF CancelSignals
<1>4. UNCHANGED <<lock, request, pc, bound, outcome, answer, registry, completed, canceled,
                  latched, observation, revoked, dispatches, forgotten, reobserved,
                  lifted>>
  BY <1>3 DEF replayVars, authorityVars, historyVars
<1>5. /\ stage' \in [Settler -> {"off", "claiming", "clearing", "publishing"}]
      /\ target' \in [Settler -> Key \cup {NoId}]
      /\ cpc' \in [Canceller -> {"idle", "latching", "signalling", "settling",
                                "completing", "accepted", "refused", "gone"}]
  <2>1. /\ stage \in [Settler -> {"off", "claiming", "clearing", "publishing"}]
        /\ target \in [Settler -> Key \cup {NoId}]
        /\ cpc \in [Canceller -> {"idle", "latching", "signalling", "settling",
                                  "completing", "accepted", "refused", "gone"}]
    BY DEF TypeOK
  <2> QED BY <1>1, <1>2, <2>1
<1>6. signal' \in [Request -> BOOLEAN]
  BY <1>3 DEF TypeOK
<1> QED BY <1>4, <1>5, <1>6 DEF TypeOK

\* Clear keeps every variable in its type.
LEMMA ClearType ==
  ASSUME TypeOK, Shape, NEW p \in Settler, Clear(p)
  PROVE  TypeOK'
  BY DEF Clear, handlerVars, replayVars, cancelVars, historyVars, Withdraw, TypeOK

-----------------------------------------------------------------------------
(* What one step does to the handlers.                                     *)

\* An admitted request stays admitted, and asks for the same.
Progress ==
  \A s \in Request : pc[s] # "idle" => pc'[s] # "idle" /\ request'[s] = request[s]

\* An ended handler stays ended, and one that unwinds only ends.
Ending ==
  \A s \in Request :
    /\ pc[s] \in {"unwinding", "gone"} => pc'[s] \in {"unwinding", "gone"}
    /\ pc[s] \in {"done", "gone"} => pc'[s] = pc[s]

\* A handler begins with its admission, and comes to its relay only from there.
Starting ==
  \A s \in Request :
    /\ pc[s] = "idle" /\ Live(s)' => \E q \in Traffic : Admit(s, q)
    /\ pc'[s] \in BeforeRelay => pc[s] \in BeforeRelay \cup {"idle"}

\* A request is bound once, under the action lock, and then it is registered.
Binding ==
  \A s \in Request : bound'[s] /\ ~bound[s] =>
    /\ pc[s] = "binding" /\ pc'[s] = "relaying"
    /\ IdOf(s) = NoId /\ Computer(s) => Present(s)'

\* A computer command comes to the published authority only past both checks.
Freeing ==
  \A s \in Request : Computer(s) /\ pc[s] # "idle" =>
    /\ pc'[s] = "settling registered" =>
         \/ pc[s] = "settling registered"
         \/ pc[s] = "settling unregistered" /\ OtherComputerOwners(s, Request) = {}
    /\ pc'[s] \in Holding \ {"settling unregistered", "settling registered"} =>
         \/ pc[s] \in Holding \ {"settling unregistered", "settling registered"}
         \/ pc[s] = "settling registered" /\ OtherComputerOwners(s, Id) = {}

\* A settlement is begun for a call id, or for an interrupted request.
Targeting ==
  \A p \in Settler, s \in Request : target'[p] = s =>
    target[p] = s \/ Interrupted(s) \/ pc'[s] = "unwinding"

ControlStep == Progress /\ Ending /\ Starting /\ Binding /\ Freeing /\ Targeting

\* The part of the invariant that speaks of the control state only.
ControlInv == Asked /\ Answerable /\ Staged /\ Held /\ Unbound

\* A settler changes its stage and its target together.
LEMMA StagedSet ==
  ASSUME TypeOK, Staged, NEW p, NEW st, NEW tg, st # "off" <=> tg # NoId,
         stage' = [stage EXCEPT ![p] = st], target' = [target EXCEPT ![p] = tg]
  PROVE  Staged'
<1> SUFFICES ASSUME NEW q \in Settler PROVE stage'[q] # "off" <=> target'[q] # NoId
  BY DEF Staged
<1>1. CASE q = p
  BY <1>1 DEF TypeOK
<1>2. CASE q # p
  <2>1. stage'[q] = stage[q] /\ target'[q] = target[q]
    BY <1>2 DEF TypeOK
  <2> QED BY <2>1 DEF Staged
<1> QED BY <1>1, <1>2

\* The actions of a handler whose effect on the control state is plain.
LEMMA SimpleHandlerControl ==
  ASSUME TypeOK, Shape, OwnerInv, NEW r \in Request,
         \/ AcquireLock(r) \/ PriorSettled(r) \/ ReadAuthority(r) \/ Refuse(r)
         \/ Bind(r) \/ BindRefused(r) \/ Relay(r) \/ Recover(r)
         \/ Quarantine(r) \/ WithdrawOwn(r) \/ SeeCancel(r) \/ Complete(r) \/ Logged(r)
         \/ AwaitSettlement(r) \/ FenceUnbound(r) \/ Unwind(r)
  PROVE  ControlStep /\ ControlInv'
<1>1. CASE AcquireLock(r)
  <2>1. ControlStep
    BY <1>1 DEF AcquireLock, replayVars, cancelVars, settleVars, authorityVars,
         historyVars, IdOf, KeyOf, Computer, Goto, TypeOK, Shape, OwnerInv, ControlStep,
         Progress, Ending, Starting, Binding, Freeing, Targeting, Holding, Live,
         BeforeRelay
  <2>2. ControlInv'
    BY <1>1 DEF AcquireLock, replayVars, cancelVars, settleVars, authorityVars,
         historyVars, Computer, Goto, TypeOK, Shape, OwnerInv, ControlInv, Asked,
         Answerable, Staged, Held, Unbound, Holding
  <2> QED BY <2>1, <2>2
<1>2. CASE PriorSettled(r)
  <2>1. ControlStep
    BY <1>2 DEF PriorSettled, replayVars, cancelVars, settleVars, authorityVars,
         historyVars, Goto, PriorKeys, Settling, TypeOK, Shape, OwnerInv, ControlStep,
         Progress, Ending, Starting, Binding, Freeing, Targeting, Holding, Live,
         BeforeRelay
  <2>2. ControlInv'
    BY <1>2 DEF PriorSettled, replayVars, cancelVars, settleVars, authorityVars,
         historyVars, Goto, PriorKeys, Settling, TypeOK, Shape, OwnerInv, ControlInv,
         Asked, Answerable, Staged, Held, Unbound, Holding
  <2> QED BY <2>1, <2>2
<1>3. CASE ReadAuthority(r)
  <2>1. ControlStep
    BY <1>3 DEF ReadAuthority, BrowserMethods, replayVars, cancelVars, settleVars,
         authorityVars, historyVars, Browser, Computer, Goto, TypeOK, Shape, OwnerInv,
         ControlStep, Progress, Ending, Starting, Binding, Freeing, Targeting, Holding,
         Live, BeforeRelay
  <2>2. ControlInv'
    BY <1>3 DEF ReadAuthority, BrowserMethods, replayVars, cancelVars, settleVars,
         authorityVars, historyVars, Browser, Computer, Goto, TypeOK, Shape, OwnerInv,
         ControlInv, Asked, Answerable, Staged, Held, Unbound, Holding
  <2> QED BY <2>1, <2>2
<1>4. CASE Refuse(r)
  <2>1. ControlStep
    BY <1>4 DEF Refuse, replayVars, cancelVars, settleVars, authorityVars, historyVars,
         Goto, Finish, TypeOK, Shape, OwnerInv, ControlStep, Progress, Ending, Starting,
         Binding, Freeing, Targeting, Holding, Live, BeforeRelay
  <2>2. ControlInv'
    BY <1>4 DEF Refuse, replayVars, cancelVars, settleVars, authorityVars, historyVars,
         Synthetic, Unknowns, Responses, Goto, Finish, TypeOK, Shape, OwnerInv,
         ControlInv, Asked, Answerable, Staged, Held, Unbound, Holding
  <2> QED BY <2>1, <2>2
<1>5. CASE Bind(r)
  <2>1. ControlStep
    BY <1>5 DEF Bind, cancelVars, settleVars, authorityVars, historyVars, Key, IdOf,
         KeyOf, Computer, Present, Goto, TypeOK, Shape, OwnerInv, ControlStep, Progress,
         Ending, Starting, Binding, Freeing, Targeting, Holding, Live, BeforeRelay
  <2>2. ControlInv'
    BY <1>5 DEF Bind, cancelVars, settleVars, authorityVars, historyVars, IdOf,
         Computer, Goto, TypeOK, Shape, OwnerInv, ControlInv, Asked, Answerable, Staged,
         Held, Unbound, Holding
  <2> QED BY <2>1, <2>2
<1>6. CASE BindRefused(r)
  <2>1. ControlStep
    BY <1>6 DEF BindRefused, replayVars, cancelVars, settleVars, authorityVars,
         historyVars, IdOf, Goto, Finish, TypeOK, Shape, OwnerInv, ControlStep,
         Progress, Ending, Starting, Binding, Freeing, Targeting, Holding, Live,
         BeforeRelay
  <2>2. ControlInv'
    BY <1>6 DEF BindRefused, replayVars, cancelVars, settleVars, authorityVars,
         historyVars, Synthetic, Unknowns, Responses, IdOf, Goto, Finish, TypeOK, Shape,
         OwnerInv, ControlInv, Asked, Answerable, Staged, Held, Unbound, Holding
  <2> QED BY <2>1, <2>2
<1>7. CASE Relay(r)
  <2>1. ControlStep
    BY <1>7 DEF Relay, replayVars, cancelVars, settleVars, authorityVars, IdOf, Goto,
         TypeOK, Shape, OwnerInv, ControlStep, Progress, Ending, Starting, Binding,
         Freeing, Targeting, Holding, Live, BeforeRelay
  <2>2. ControlInv'
    BY <1>7 DEF Relay, replayVars, cancelVars, settleVars, authorityVars, IdOf, Goto,
         TypeOK, Shape, OwnerInv, ControlInv, Asked, Answerable, Staged, Held, Unbound,
         Holding
  <2> QED BY <2>1, <2>2
<1>8. CASE Recover(r)
  <2>1. ControlStep
    BY <1>8 DEF Recover, replayVars, cancelVars, settleVars, Goto, Log,
         TypeOK, Shape, OwnerInv, ControlStep, Progress, Ending, Starting, Binding,
         Freeing, Targeting, Holding, Live, BeforeRelay
  <2>2. ControlInv'
    BY <1>8 DEF Recover, replayVars, cancelVars, settleVars, Synthetic,
         Unknowns, Responses, Goto, Log, TypeOK, Shape, OwnerInv, ControlInv, Asked,
         Answerable, Staged, Held, Unbound, Holding
  <2> QED BY <2>1, <2>2
<1>9. CASE Quarantine(r)
  <2>1. ControlStep
    BY <1>9 DEF Quarantine, replayVars, cancelVars, settleVars, historyVars, Goto,
         TypeOK, Shape, OwnerInv, ControlStep, Progress, Ending, Starting, Binding,
         Freeing, Targeting, Holding, Live, BeforeRelay
  <2>2. ControlInv'
    BY <1>9 DEF Quarantine, replayVars, cancelVars, settleVars, historyVars, Goto,
         TypeOK, Shape, OwnerInv, ControlInv, Asked, Answerable, Staged, Held, Unbound,
         Holding
  <2> QED BY <2>1, <2>2
<1>10. CASE WithdrawOwn(r)
  <2>1. ControlStep
    BY <1>10 DEF WithdrawOwn, replayVars, cancelVars, settleVars, historyVars, Goto,
         Log, TypeOK, Shape, OwnerInv, ControlStep, Progress, Ending, Starting,
         Binding, Freeing, Targeting, Holding, Live, BeforeRelay
  <2>2. ControlInv'
    BY <1>10 DEF WithdrawOwn, replayVars, cancelVars, settleVars, historyVars,
         Synthetic, Unknowns, Responses, Goto, Log, TypeOK, Shape, OwnerInv,
         ControlInv, Asked, Answerable, Staged, Held, Unbound, Holding
  <2> QED BY <2>1, <2>2
<1>11. CASE SeeCancel(r)
  <2>1. ControlStep
    BY <1>11 DEF SeeCancel, cancelVars, authorityVars, historyVars, Goto, Finish,
         Waiting, ReleaseClaim, TypeOK, Shape, OwnerInv, ControlStep, Progress, Ending,
         Starting, Binding, Freeing, Targeting, Holding, Live, BeforeRelay
  <2>2. ControlInv'
    BY <1>11 DEF SeeCancel, cancelVars, authorityVars, historyVars, Settler, Synthetic,
         Unknowns, Responses, IdOf, Goto, Finish, Waiting, ReleaseClaim, TypeOK, Shape,
         OwnerInv, ControlInv, Asked, Answerable, Staged, Held, Unbound, Holding
  <2> QED BY <2>1, <2>2
<1>12. CASE Complete(r)
  <2>1. ControlStep
    BY <1>12 DEF Complete, replayVars, cancelVars, settleVars, authorityVars, IdOf,
         Goto, TypeOK, Shape, OwnerInv, ControlStep, Progress, Ending, Starting,
         Binding, Freeing, Targeting, Holding, Live, BeforeRelay
  <2>2. ControlInv'
    BY <1>12 DEF Complete, replayVars, cancelVars, settleVars, authorityVars, IdOf,
         Goto, TypeOK, Shape, OwnerInv, ControlInv, Asked, Answerable, Staged, Held,
         Unbound, Holding
  <2> QED BY <2>1, <2>2
<1>13. CASE AwaitSettlement(r)
  <2>1. ControlStep
    BY <1>13 DEF AwaitSettlement, replayVars, cancelVars, authorityVars, historyVars,
         IdOf, Goto, TypeOK, Shape, OwnerInv, ControlStep, Progress, Ending, Starting,
         Binding, Freeing, Targeting, Holding, Live, BeforeRelay
  <2>2. ControlInv'
    BY <1>13 DEF AwaitSettlement, replayVars, cancelVars, authorityVars, historyVars,
         Settler, IdOf, Goto, TypeOK, Shape, OwnerInv, ControlInv, Asked, Answerable,
         Staged, Held, Unbound, Holding
  <2> QED BY <2>1, <2>2
<1>14. CASE FenceUnbound(r)
  <2>1. ControlStep
    BY <1>14 DEF FenceUnbound, replayVars, cancelVars, settleVars, authorityVars, IdOf,
         Goto, TypeOK, Shape, OwnerInv, ControlStep, Progress, Ending, Starting,
         Binding, Freeing, Targeting, Holding, Live, BeforeRelay
  <2>2. ControlInv'
    BY <1>14 DEF FenceUnbound, replayVars, cancelVars, settleVars, authorityVars, IdOf,
         Goto, TypeOK, Shape, OwnerInv, ControlInv, Asked, Answerable, Staged, Held,
         Unbound, Holding
  <2> QED BY <2>1, <2>2
<1>15. CASE Unwind(r)
  <2>1. ControlStep
    BY <1>15 DEF Unwind, cancelVars, authorityVars, historyVars, Goto, ReleaseClaim,
         TypeOK, Shape, OwnerInv, ControlStep, Progress, Ending, Starting, Binding,
         Freeing, Targeting, Holding, Live, BeforeRelay
  <2>2. ControlInv'
    BY <1>15 DEF Unwind, cancelVars, authorityVars, historyVars, Settler, IdOf, Goto,
         ReleaseClaim, TypeOK, Shape, OwnerInv, ControlInv, Asked, Answerable, Staged,
         Held, Unbound, Holding
  <2> QED BY <2>1, <2>2
<1>16. CASE Logged(r)
  <2>1. ControlStep
    BY <1>16 DEF Logged, replayVars, cancelVars, settleVars, authorityVars, historyVars, Goto,
         Finish, TypeOK, Shape, OwnerInv, ControlStep, Progress, Ending, Starting,
         Binding, Freeing, Targeting, Holding, Live, BeforeRelay
  <2>2. ControlInv'
    BY <1>16 DEF Logged, replayVars, cancelVars, settleVars, authorityVars, historyVars,
         Synthetic, Unknowns, Responses, Goto, Finish, TypeOK, Shape, OwnerInv,
         ControlInv, Asked, Answerable, Staged, Held, Unbound, Holding
  <2> QED BY <2>1, <2>2
<1> QED BY <1>1, <1>2, <1>3, <1>4, <1>5, <1>6, <1>7, <1>8, <1>9, <1>10, <1>11, <1>12,
       <1>13, <1>14, <1>15, <1>16

\* The same of a canceller.
LEMMA SimpleCancellerControl ==
  ASSUME TypeOK, Shape, OwnerInv, NEW c \in Canceller,
         CancelLatches(c) \/ CancelCompletes(c) \/ DropCanceller(c)
  PROVE  ControlStep /\ ControlInv'
<1>1. CASE CancelLatches(c)
  <2>1. ControlStep
    BY <1>1 DEF CancelLatches, handlerVars, replayVars, settleVars, historyVars, CGoto,
         TypeOK, Shape, OwnerInv, ControlStep, Progress, Ending, Starting, Binding,
         Freeing, Targeting, Holding, Live, BeforeRelay
  <2>2. ControlInv'
    BY <1>1 DEF CancelLatches, handlerVars, replayVars, settleVars, historyVars, CGoto,
         TypeOK, Shape, OwnerInv, ControlInv, Asked, Answerable, Staged, Held, Unbound,
         Holding
  <2> QED BY <2>1, <2>2
<1>2. CASE CancelCompletes(c)
  <2>1. ControlStep
    BY <1>2 DEF CancelCompletes, handlerVars, settleVars, authorityVars, IdOf, CGoto,
         TypeOK, Shape, OwnerInv, ControlStep, Progress, Ending, Starting, Binding,
         Freeing, Targeting, Holding, Live, BeforeRelay
  <2>2. ControlInv'
    BY <1>2 DEF CancelCompletes, handlerVars, settleVars, authorityVars, IdOf, CGoto,
         TypeOK, Shape, OwnerInv, ControlInv, Asked, Answerable, Staged, Held, Unbound,
         Holding
  <2> QED BY <2>1, <2>2
<1>3. CASE DropCanceller(c)
  <2>1. ControlStep
    BY <1>3 DEF DropCanceller, handlerVars, authorityVars, historyVars, ReleaseClaim,
         CGoto, TypeOK, Shape, OwnerInv, ControlStep, Progress, Ending, Starting,
         Binding, Freeing, Targeting, Holding, Live, BeforeRelay
  <2>2. ControlInv'
    BY <1>3 DEF DropCanceller, handlerVars, authorityVars, historyVars, Settler, IdOf,
         ReleaseClaim, CGoto, TypeOK, Shape, OwnerInv, ControlInv, Asked, Answerable,
         Staged, Held, Unbound, Holding
  <2> QED BY <2>1, <2>2
<1> QED BY <1>1, <1>2, <1>3

\* Expire moves handlers only as ControlStep allows.
LEMMA ExpireControl ==
  ASSUME TypeOK, Shape, OwnerInv, NEW i \in Id, Expire(i)
  PROVE  ControlStep /\ ControlInv'
<1>1. ControlStep
  BY DEF Expire, handlerVars, cancelVars, settleVars, authorityVars, TypeOK, Shape,
       OwnerInv, ControlStep, Progress, Ending, Starting, Binding, Freeing, Targeting,
       Holding, Live, BeforeRelay
<1>2. ControlInv'
  BY DEF Expire, handlerVars, cancelVars, settleVars, authorityVars, TypeOK, Shape,
       OwnerInv, ControlInv, Asked, Answerable, Staged, Held, Unbound, Holding
<1> QED BY <1>1, <1>2

\* FenceBound moves handlers only as ControlStep allows.
LEMMA FenceBoundControl ==
  ASSUME TypeOK, Shape, OwnerInv, NEW r \in Request, FenceBound(r)
  PROVE  ControlStep /\ ControlInv'
<1>1. /\ pc[r] = "fencing" /\ pc' = [pc EXCEPT ![r] = "unwinding"]
      /\ stage' = [stage EXCEPT ![<<"task", r>>] = "claiming"]
      /\ target' = [target EXCEPT ![<<"task", r>>] = KeyOf(r)]
      /\ UNCHANGED <<lock, request, bound, outcome>>
  BY DEF FenceBound, Goto
<1>2. KeyOf(r) \in Id \cup {r}
  BY <1>1 DEF Shape, Asked, KeyOf, IdOf
<1>3. Targeting
  BY <1>1, <1>2 DEF Targeting, TypeOK
<1>4. ControlStep
  BY <1>1, <1>3 DEF TypeOK, ControlStep, Progress, Ending, Starting, Binding, Freeing,
       Targeting, Holding, Live, BeforeRelay
<1>5. Staged'
  BY <1>1, <1>2 DEF Shape, Staged, TypeOK, Settler
<1>6. ControlInv'
  BY <1>1, <1>5 DEF TypeOK, Shape, OwnerInv, ControlInv, Asked, Answerable, Held,
       Unbound, Holding
<1> QED BY <1>4, <1>6

\* CancelSignals moves handlers only as ControlStep allows.
LEMMA CancelSignalsControl ==
  ASSUME TypeOK, Shape, OwnerInv, NEW c \in Canceller, CancelSignals(c)
  PROVE  ControlStep /\ ControlInv'
<1>1. UNCHANGED <<lock, request, pc, bound, outcome>>
  BY DEF CancelSignals
<1>2. \/ UNCHANGED <<stage, target>>
      \/ /\ stage' = [stage EXCEPT ![<<"canceller", c>>] = "claiming"]
         /\ target' = [target EXCEPT ![<<"canceller", c>>] = IdOf(canceled[c])]
  BY DEF CancelSignals, settleVars
<1>3. IdOf(canceled[c]) \in Id
  BY DEF CancelSignals, Shape, Canceling
<1>4. Targeting
  <2>1. target \in [Settler -> Key \cup {NoId}] /\ \A s \in Request : IdOf(canceled[c]) # s
    BY <1>3 DEF TypeOK
  <2> QED BY <1>2, <2>1 DEF Targeting
<1>5. ControlStep
  <2>1. Progress /\ Ending /\ Starting
    BY <1>1 DEF Progress, Ending, Starting, Live, BeforeRelay
  <2>2. Binding /\ Freeing
    BY <1>1 DEF Binding, Freeing, Holding
  <2> QED BY <1>4, <2>1, <2>2 DEF ControlStep
<1>6. Staged'
  <2>1. CASE UNCHANGED <<stage, target>>
    BY <2>1 DEF Shape, Staged
  <2>2. IdOf(canceled[c]) # NoId
    BY <1>3, RequestAssumption
  <2> QED BY <1>2, <2>1, <2>2, StagedSet DEF Shape
<1>7. ControlInv'
  BY <1>1, <1>6 DEF TypeOK, Shape, OwnerInv, ControlInv, Asked, Answerable, Held,
       Unbound, Holding
<1> QED BY <1>5, <1>7

\* Claiming and clearing move no handler.
LEMMA ClaimClearControl ==
  ASSUME TypeOK, Shape, OwnerInv, NEW p \in Settler, Claim(p) \/ Clear(p)
  PROVE  ControlStep /\ ControlInv'
<1>1. /\ UNCHANGED <<lock, request, pc, bound, outcome, target>>
      /\ stage[p] # "off"
      /\ \E s \in {"clearing", "publishing"} : stage' = [stage EXCEPT ![p] = s]
  BY DEF Claim, Clear, Runs, handlerVars
<1>2. ControlStep
  BY <1>1 DEF TypeOK, ControlStep, Progress, Ending, Starting, Binding, Freeing,
       Targeting, Holding, Live, BeforeRelay
<1>3. Staged'
  BY <1>1 DEF Shape, Staged, TypeOK
<1>4. ControlInv'
  BY <1>1, <1>3 DEF TypeOK, Shape, OwnerInv, ControlInv, Asked, Answerable, Held,
       Unbound, Holding
<1> QED BY <1>2, <1>4

\* A request is admitted, or answered at once.
LEMMA ArriveMoves ==
  ASSUME TypeOK, NEW r \in Request, NEW q \in Traffic,
         Admit(r, q) \/ Replay(r, q) \/ RefuseDuplicate(r, q) \/ RefuseReuse(r, q)
  PROVE  /\ pc[r] = "idle" /\ request' = [request EXCEPT ![r] = q]
         /\ \/ Admit(r, q) /\ pc' = [pc EXCEPT ![r] = "queued"]
            \/ pc' = [pc EXCEPT ![r] = "done"]
         /\ UNCHANGED <<lock, bound, signal, outcome, cancelVars, settleVars>>
  BY DEF Admit, Replay, RefuseDuplicate, RefuseReuse, AnswerAtOnce, Ask, Goto

\* Arrive moves handlers only as ControlStep allows.
LEMMA ArriveControl ==
  ASSUME TypeOK, Shape, OwnerInv, NEW r \in Request, Arrive(r)
  PROVE  ControlStep /\ ControlInv'
<1>1. PICK q \in Traffic : \/ Admit(r, q) \/ Replay(r, q)
                          \/ RefuseDuplicate(r, q) \/ RefuseReuse(r, q)
  BY DEF Arrive
<1>2. /\ pc[r] = "idle" /\ request' = [request EXCEPT ![r] = q]
      /\ \/ Admit(r, q) /\ pc' = [pc EXCEPT ![r] = "queued"]
         \/ pc' = [pc EXCEPT ![r] = "done"]
      /\ UNCHANGED <<lock, bound, signal, outcome, cancelVars, settleVars>>
  BY <1>1, ArriveMoves
<1>3. ControlStep
  <2>1. ASSUME NEW s \in Request, s # r PROVE pc'[s] = pc[s] /\ request'[s] = request[s]
    BY <1>2, <2>1 DEF TypeOK
  <2>2. pc'[r] \in {"queued", "done"} /\ (pc'[r] = "queued" => Admit(r, q))
    BY <1>2 DEF TypeOK
  <2>3. Progress /\ Ending
    BY <1>2, <2>1 DEF Progress, Ending
  <2>4. Starting
    BY <1>2, <2>1, <2>2 DEF Starting, Live, BeforeRelay
  <2>5. Binding /\ Freeing /\ Targeting
    BY <1>2, <2>1 DEF Binding, Freeing, Targeting, settleVars
  <2> QED BY <2>3, <2>4, <2>5 DEF ControlStep
<1>4. ControlInv'
  <2>1. ASSUME NEW s \in Request, s # r PROVE pc'[s] = pc[s] /\ request'[s] = request[s]
    BY <1>2, <2>1 DEF TypeOK
  <2>2. pc'[r] \in {"queued", "done"} /\ request'[r] \in Traffic
    BY <1>2 DEF TypeOK
  <2>3. Asked' /\ Staged'
    BY <1>2, <2>1, <2>2 DEF Shape, Asked, Staged, settleVars
  <2>4. Answerable'
    BY <1>2, <2>1, <2>2 DEF Shape, Answerable
  <2>5. Held' /\ Unbound'
    BY <1>2, <2>1, <2>2 DEF OwnerInv, Held, Unbound, Holding
  <2> QED BY <2>3, <2>4, <2>5 DEF ControlInv
<1> QED BY <1>3, <1>4

\* Publish moves handlers only as ControlStep allows.
LEMMA PublishControl ==
  ASSUME TypeOK, Shape, OwnerInv, NEW r \in Request, Publish(r)
  PROVE  ControlStep /\ ControlInv'
<1>1. /\ pc[r] = "publishing"
      /\ \/ pc' = [pc EXCEPT ![r] = "recovering"] /\ UNCHANGED <<lock, outcome>>
         \/ Log(r, "ok")
      /\ UNCHANGED <<request, bound, settleVars>>
  BY DEF Publish, Goto
<1>2. ControlStep
  <2>1. /\ pc'[r] \in {"recovering", "logging"}
        /\ \A s \in Request : s # r => pc'[s] = pc[s]
    BY <1>1 DEF TypeOK, Log, Goto
  <2>2. Progress /\ Ending /\ Starting
    BY <1>1, <2>1 DEF Progress, Ending, Starting, BeforeRelay, Live
  <2>3. Binding /\ Freeing /\ Targeting
    BY <1>1, <2>1 DEF Binding, Freeing, Targeting, settleVars, Holding
  <2> QED BY <2>2, <2>3 DEF ControlStep
<1>3. ControlInv'
  <2>1. ASSUME NEW s \in Request, s # r
        PROVE  pc'[s] = pc[s] /\ outcome'[s] = outcome[s] /\ (lock = s => lock' = s)
    BY <1>1, <2>1 DEF TypeOK, Log, Goto
  <2>2. \/ pc'[r] = "recovering" /\ lock' = lock
        \/ pc'[r] = "logging" /\ lock' = lock /\ outcome'[r] \in Responses
    BY <1>1 DEF TypeOK, Log, Goto, Responses
  <2>3. Asked' /\ Staged'
    BY <1>1, <2>1, <2>2 DEF Shape, Asked, Staged, settleVars
  <2>4. Answerable'
    BY <2>1, <2>2 DEF Shape, Answerable
  <2>5. Held' /\ Unbound'
    BY <1>1, <2>1, <2>2 DEF OwnerInv, Held, Unbound, Holding
  <2> QED BY <2>3, <2>4, <2>5 DEF ControlInv
<1> QED BY <1>2, <1>3

\* DropHandler moves handlers only as ControlStep allows.
LEMMA DropHandlerControl ==
  ASSUME TypeOK, Shape, OwnerInv, NEW r \in Request, DropHandler(r)
  PROVE  ControlStep /\ ControlInv'
<1>1. /\ pc[r] \in Waiting \cup {"acted", "settling"}
      /\ pc' = [pc EXCEPT ![r] = "fencing"] \/ pc' = [pc EXCEPT ![r] = "unwinding"]
      /\ outcome' = outcome \/ outcome' = [outcome EXCEPT ![r] = "dropped"]
      /\ UNCHANGED <<lock, request, bound>>
  BY DEF DropHandler, Goto, TypeOK
<1>2. \/ UNCHANGED <<stage, target>>
      \/ /\ stage' = [stage EXCEPT ![<<"handler", r>>] = "off"]
         /\ target' = [target EXCEPT ![<<"handler", r>>] = NoId]
  BY DEF DropHandler, settleVars
<1>3. ControlStep
  <2>1. ASSUME NEW s \in Request, s # r PROVE pc'[s] = pc[s]
    BY <1>1, <2>1 DEF TypeOK
  <2>2. /\ pc[r] \notin {"idle", "unwinding", "done", "gone"}
        /\ pc'[r] \in {"fencing", "unwinding"}
    BY <1>1 DEF TypeOK, Waiting
  <2>3. Progress /\ Ending /\ Starting
    BY <1>1, <2>1, <2>2 DEF Progress, Ending, Starting, BeforeRelay, Live
  <2>4. Binding /\ Freeing
    BY <1>1, <2>1, <2>2 DEF Binding, Freeing, Holding
  <2>5. Targeting
    BY <1>2 DEF Targeting, TypeOK
  <2> QED BY <2>3, <2>4, <2>5 DEF ControlStep
<1>4. Staged'
  <2>1. CASE UNCHANGED <<stage, target>>
    BY <2>1 DEF Shape, Staged
  <2> QED BY <1>2, <2>1, StagedSet DEF Shape
<1>5. ControlInv'
  <2>1. ASSUME NEW s \in Request, s # r PROVE pc'[s] = pc[s] /\ outcome'[s] = outcome[s]
    BY <1>1, <2>1 DEF TypeOK
  <2>2. pc[r] # "idle" /\ pc'[r] \in {"fencing", "unwinding"}
    BY <1>1 DEF TypeOK, Waiting
  <2>3. Asked' /\ Answerable'
    BY <1>1, <2>1, <2>2 DEF Shape, Asked, Answerable
  <2>4. Held' /\ Unbound'
    BY <1>1, <2>1, <2>2 DEF OwnerInv, Held, Unbound, Holding
  <2> QED BY <1>4, <2>3, <2>4 DEF ControlInv
<1> QED BY <1>3, <1>5

\* HelpSettle moves handlers only as ControlStep allows.
LEMMA HelpSettleControl ==
  ASSUME TypeOK, Shape, OwnerInv, NEW r \in Request, NEW k \in Key, HelpSettle(r, k)
  PROVE  ControlStep /\ ControlInv'
<1>1. /\ stage' = [stage EXCEPT ![<<"handler", r>>] = "claiming"]
      /\ target' = [target EXCEPT ![<<"handler", r>>] = k]
      /\ Interrupted(k) /\ UNCHANGED <<lock, request, pc, bound, outcome>>
  BY DEF HelpSettle, handlerVars
<1>2. ControlStep
  BY <1>1 DEF TypeOK, ControlStep, Progress, Ending, Starting, Binding, Freeing,
       Targeting, Holding, Live, BeforeRelay
<1>3. Staged'
  BY <1>1 DEF Shape, Staged, TypeOK, Settler, Key
<1>4. ControlInv'
  BY <1>1, <1>3 DEF TypeOK, Shape, OwnerInv, ControlInv, Asked, Answerable, Held,
       Unbound, Holding
<1> QED BY <1>2, <1>4

\* Cancel moves handlers only as ControlStep allows.
LEMMA CancelControl ==
  ASSUME TypeOK, Shape, OwnerInv, NEW c \in Canceller, NEW i \in Id,
         Cancel(c, i) \/ CancelRefused(c, i)
  PROVE  ControlStep /\ ControlInv'
<1>1. UNCHANGED <<lock, request, pc, bound, outcome, stage, target>>
  BY DEF Cancel, CancelRefused, handlerVars, settleVars
<1>2. ControlStep
  BY <1>1 DEF TypeOK, ControlStep, Progress, Ending, Starting, Binding, Freeing,
       Targeting, Holding, Live, BeforeRelay
<1>3. ControlInv'
  BY <1>1 DEF TypeOK, Shape, OwnerInv, ControlInv, Asked, Answerable, Staged, Held,
       Unbound, Holding
<1> QED BY <1>2, <1>3

\* A settler is done: only a handler that waits for its own settlement moves.
LEMMA SettledControl ==
  ASSUME TypeOK, Shape, OwnerInv, NEW p \in Settler, NEW where, Runs(p, where),
         NEW response, Settled(p, response), UNCHANGED <<lock, request, bound, outcome>>
  PROVE  ControlStep /\ ControlInv'
<1>1. /\ stage' = [stage EXCEPT ![p] = "off"]
      /\ target' = [target EXCEPT ![p] = NoId]
  BY DEF Settled
<1>2. \/ pc' = pc
      \/ \E r \in Request : pc[r] = "settling" /\ pc' = [pc EXCEPT ![r] = "done"]
  <2>1. CASE p[1] = "handler" /\ ~Settling(p[2])
    <3>1. p[2] \in Request
      BY <2>1, SMT DEF Settler
    <3> QED BY <2>1, <3>1 DEF Settled, Runs, Goto
  <2>2. CASE ~(p[1] = "handler" /\ ~Settling(p[2]))
    BY <2>2 DEF Settled
  <2> QED BY <2>1, <2>2
<1>3. ControlStep
  <2>1. \A s \in Request : pc'[s] = pc[s] \/ (pc[s] = "settling" /\ pc'[s] = "done")
    BY <1>2 DEF TypeOK
  <2>2. \A q \in Settler : target'[q] \in {target[q], NoId}
    BY <1>1 DEF TypeOK
  <2>3. Progress /\ Ending /\ Starting
    BY <2>1 DEF Progress, Ending, Starting, Live, BeforeRelay
  <2>4. Binding /\ Freeing
    BY <2>1 DEF Binding, Freeing, Holding
  <2>5. Targeting
    BY <2>2 DEF Targeting
  <2> QED BY <2>3, <2>4, <2>5 DEF ControlStep
<1>4. Staged'
  BY <1>1, StagedSet DEF Shape
<1>5. ControlInv'
  <2>1. \A s \in Request : pc'[s] = pc[s] \/ (pc[s] = "settling" /\ pc'[s] = "done")
    BY <1>2 DEF TypeOK
  <2>2. Asked' /\ Answerable'
    BY <2>1 DEF Shape, Asked, Answerable
  <2>3. Held' /\ Unbound'
    BY <2>1 DEF OwnerInv, Held, Unbound, Holding
  <2> QED BY <1>4, <2>2, <2>3 DEF ControlInv
<1> QED BY <1>3, <1>5

\* A settlement that is over moves at most the handler that waits for it.
LEMMA SettlementControl ==
  ASSUME TypeOK, Shape, OwnerInv, NEW p \in Settler, AlreadySettled(p) \/ PublishOutcome(p)
  PROVE  ControlStep /\ ControlInv'
<1>1. PICK where, response :
        Runs(p, where) /\ Settled(p, response) /\ UNCHANGED <<lock, request, bound, outcome>>
  BY DEF AlreadySettled, PublishOutcome
<1> QED BY <1>1, SettledControl

\* The answer of the connector moves its handler.
LEMMA ReturnControl ==
  ASSUME TypeOK, Shape, OwnerInv, NEW r \in Request, NEW result \in {"ok", "failed", "unknown"},
         CallReturns(r, result) \/ FollowUpReturns(r, result)
  PROVE  ControlStep /\ ControlInv'
<1>1. pc[r] \in {"calling", "following"} /\ UNCHANGED <<request, bound, stage, target>>
  BY DEF CallReturns, FollowUpReturns, settleVars
<1>2. \/ /\ \E where \in {"following", "publishing"} : pc' = [pc EXCEPT ![r] = where]
         /\ UNCHANGED <<lock, outcome>>
      \/ \E how \in {"ok", "failed", "unknown"} :
           /\ \E where \in {"latching", "withdrawing"} : pc' = [pc EXCEPT ![r] = where]
           /\ lock' = lock /\ outcome' = [outcome EXCEPT ![r] = how]
      \/ \E how \in {"ok", "failed", "unknown"} : Log(r, how)
  BY ReturnMoves
<1>3. ASSUME NEW s \in Request, s # r
      PROVE  pc'[s] = pc[s] /\ outcome'[s] = outcome[s] /\ (lock = s => lock' = s)
  BY <1>2, <1>3 DEF TypeOK, Log, Goto
<1>4. \/ pc'[r] \in {"following", "publishing"} /\ lock' = lock
      \/ pc'[r] \in {"latching", "withdrawing"} /\ lock' = lock /\ outcome'[r] \in Responses
      \/ pc'[r] = "logging" /\ lock' = lock /\ outcome'[r] \in Responses
  BY <1>2 DEF TypeOK, Log, Goto, Responses, Unknowns, Synthetic
<1>5. ControlStep
  <2>1. Progress /\ Ending /\ Starting
    BY <1>1, <1>3, <1>4 DEF Progress, Ending, Starting, BeforeRelay, Live
  <2>2. Binding /\ Freeing /\ Targeting
    BY <1>1, <1>3, <1>4 DEF Binding, Freeing, Targeting, Holding
  <2> QED BY <2>1, <2>2 DEF ControlStep
<1>6. ControlInv'
  <2>1. Asked' /\ Staged'
    BY <1>1, <1>3, <1>4 DEF Shape, Asked, Staged
  <2>2. Answerable'
    BY <1>3, <1>4 DEF Shape, Answerable
  <2>3. Held' /\ Unbound'
    BY <1>1, <1>3, <1>4 DEF OwnerInv, Held, Unbound, Holding
  <2> QED BY <2>1, <2>2, <2>3 DEF ControlInv
<1> QED BY <1>5, <1>6

\* Every step of a handler moves it along its control graph.
LEMMA HandlerControl ==
  ASSUME TypeOK, Shape, OwnerInv, NEW r \in Request, HandlerStep(r)
  PROVE  ControlStep /\ ControlInv'
<1>1. ASSUME NEW k \in Key, HelpSettle(r, k) PROVE ControlStep /\ ControlInv'
  BY <1>1, HelpSettleControl
<1>2. ASSUME NEW result \in {"ok", "failed", "unknown"},
             CallReturns(r, result) \/ FollowUpReturns(r, result)
      PROVE  ControlStep /\ ControlInv'
  BY <1>2, ReturnControl
<1> QED BY <1>1, <1>2, ArriveControl, PublishControl, FenceBoundControl, DropHandlerControl,
           SimpleHandlerControl DEF HandlerStep, Proceed

\* So do the steps of the others.
LEMMA OtherControl ==
  ASSUME TypeOK, Shape, OwnerInv,
         \/ \E c \in Canceller : CancellerStep(c)
         \/ \E p \in Settler : SettlerStep(p)
         \/ \E i \in Id : Expire(i)
  PROVE  ControlStep /\ ControlInv'
<1>1. ASSUME NEW c \in Canceller, CancellerStep(c) PROVE ControlStep /\ ControlInv'
  <2>1. ASSUME NEW i \in Id, Cancel(c, i) \/ CancelRefused(c, i)
        PROVE  ControlStep /\ ControlInv'
    BY <2>1, CancelControl
  <2> QED BY <1>1, <2>1, CancelSignalsControl, SimpleCancellerControl DEF CancellerStep
<1>2. ASSUME NEW p \in Settler, SettlerStep(p) PROVE ControlStep /\ ControlInv'
  BY <1>2, ClaimClearControl, SettlementControl DEF SettlerStep
<1>3. ASSUME NEW i \in Id, Expire(i) PROVE ControlStep /\ ControlInv'
  BY <1>3, ExpireControl
<1> QED BY <1>1, <1>2, <1>3

\* Every step of a handler keeps the types.
LEMMA HandlerType ==
  ASSUME TypeOK, Shape, NEW r \in Request, HandlerStep(r)
  PROVE  TypeOK'
<1>1. ASSUME NEW k \in Key, HelpSettle(r, k) PROVE TypeOK'
  BY <1>1, HelpSettleType
<1>2. ASSUME NEW result \in {"ok", "failed", "unknown"},
             CallReturns(r, result) \/ FollowUpReturns(r, result)
      PROVE  TypeOK'
  BY <1>2, ReturnType
<1> QED BY <1>1, <1>2, ArriveType, SimpleHandlerType, RelayType, SeeCancelType, CompleteType,
           AwaitSettlementType, FenceUnboundType, FenceBoundType, UnwindType, DropHandlerType
        DEF HandlerStep, Proceed

\* So do the steps of the others.
LEMMA OtherType ==
  ASSUME TypeOK, Shape,
         \/ \E c \in Canceller : CancellerStep(c)
         \/ \E p \in Settler : SettlerStep(p)
         \/ \E i \in Id : Expire(i)
  PROVE  TypeOK'
<1>1. ASSUME NEW c \in Canceller, CancellerStep(c) PROVE TypeOK'
  <2>1. ASSUME NEW i \in Id, Cancel(c, i) \/ CancelRefused(c, i) PROVE TypeOK'
    BY <2>1, CancelType, CancelRefusedType
  <2> QED BY <1>1, <2>1, CancelLatchesType, CancelSignalsType, CancelCompletesType,
             DropCancellerType DEF CancellerStep
<1>2. ASSUME NEW p \in Settler, SettlerStep(p) PROVE TypeOK'
  BY <1>2, ClaimType, AlreadySettledType, ClearType, PublishOutcomeType DEF SettlerStep
<1>3. ASSUME NEW i \in Id, Expire(i) PROVE TypeOK'
  BY <1>3, ExpireType
<1> QED BY <1>1, <1>2, <1>3

-----------------------------------------------------------------------------
(* What one step does to the registry.                                     *)

\* Entry k leaves the registry: a call id when its outcome is remembered, a
\* request without one when its handler is past its action.
Leaves(k) ==
  /\ registry' = [registry EXCEPT ![k] = NoEntry]
  /\ \/ k \in Id /\ Remembered(k)'
     \/ k \in Request /\ pc'[k] \in {"unwinding", "done", "gone"}

\* Entry k changes its state; that of a request without a call id is interrupted.
Changes(k) ==
  /\ Present(k) /\ (k \in Request => Interrupted(k))
  /\ \E s \in States \ {"absent"}, b \in BOOLEAN : registry' = Become(k, s, b)

\* Request r enters the registry under key i: admitted under its call id, bound
\* to the computer without one, or fenced without one.
Enters(r, i, s) ==
  /\ registry' = [registry EXCEPT ![i] = [of |-> r, state |-> s, byCaller |-> FALSE]]
  /\ \/ i \in Id /\ request'[r].id = i /\ pc[r] = "idle" /\ pc'[r] = "queued"
     \/ /\ i = r /\ IdOf(r) = NoId
        /\ \/ pc[r] = "binding" /\ s = "active" /\ pc'[r] = "relaying"
           \/ pc[r] = "fencing" /\ bound[r] /\ pc'[r] = "unwinding"

RegistryStep ==
  \/ registry' = registry
  \/ \E k \in Key : Leaves(k)
  \/ \E k \in Key : Changes(k)
  \/ \E r \in Request, i \in Key, s \in {"active", "interrupted"} : Enters(r, i, s)

\* Storing an outcome lets its entry go and remembers it.
LEMMA StoreLeaves ==
  ASSUME TypeOK, Shape, NEW k \in Id, NEW response \in Responses, Present(k),
         Store(k, response)
  PROVE  Leaves(k) /\ k \in Key
<1> DEFINE stored == [id |-> k, method |-> Method(registry[k].of),
                      response |-> response, of |-> registry[k].of]
           room   == MakeRoom(completed)
<1>1. stored \in Memory /\ stored.id = k
  BY EntryType DEF Key, Memory
<1>2. room \in Seq(Memory)
  BY RoomType DEF TypeOK, Memory
<1>3. completed' = Append(room, stored) /\ registry' = [registry EXCEPT ![k] = NoEntry]
  BY DEF Store
<1> HIDE DEF stored, room
<1>4. k \in IdsIn(completed')
  BY <1>1, <1>2, <1>3, AppendIds
<1> QED BY <1>3, <1>4 DEF Leaves, Remembered, Key

\* Completing what was interrupted lets its entry go.
LEMMA CompleteInterruptedLeaves ==
  ASSUME TypeOK, Shape, NEW k \in Id, CompleteInterrupted(k)
  PROVE  registry' = registry \/ Leaves(k)
<1>1. CASE Interrupted(k)
  <2>1. Store(k, SyntheticFor(k)) /\ Present(k)
    BY <1>1 DEF CompleteInterrupted, Interrupted, Present
  <2> QED BY <2>1, StoreLeaves, SyntheticType
<1>2. CASE ~Interrupted(k)
  BY <1>2 DEF CompleteInterrupted, replayVars
<1> QED BY <1>1, <1>2

\* A state that an entry may change to.
LEMMA BecomeChanges ==
  ASSUME NEW k \in Key, Present(k), k \in Id \/ Interrupted(k),
         NEW s \in States \ {"absent"}, NEW b \in BOOLEAN, registry' = Become(k, s, b)
  PROVE  Changes(k)
<1>1. k \in Request => Interrupted(k)
  BY DEF Key
<1>2. \E t \in States \ {"absent"}, c \in BOOLEAN : registry' = Become(k, t, c)
  BY Zenon
<1> QED BY <1>1, <1>2 DEF Changes

\* Dropping a settlement changes at most the state of its target.
LEMMA ReleaseChanges ==
  ASSUME TypeOK, Shape, NEW p \in Settler, ReleaseClaim(p)
  PROVE  registry' = registry \/ (Changes(target[p]) /\ target[p] \in Key)
<1>1. CASE registry' # registry
  <2>1. /\ registry' = Become(target[p], "interrupted", registry[target[p]].byCaller)
        /\ stage[p] # "off" /\ registry[target[p]].state = "claimed"
    BY <1>1 DEF ReleaseClaim
  <2>2. target[p] \in Key
    BY <2>1 DEF Shape, Staged, TypeOK
  <2>3. registry[target[p]].byCaller \in BOOLEAN
    BY <2>2 DEF TypeOK, Entries
  <2>4. Present(target[p]) /\ Interrupted(target[p]) /\ "interrupted" \in States \ {"absent"}
    BY <2>1 DEF Present, Interrupted, States
  <2> QED BY <2>1, <2>2, <2>3, <2>4, BecomeChanges
<1> QED BY <1>1

\* A handler changes the registry only in the four ways.
LEMMA HandlerRegistryStep ==
  ASSUME TypeOK, Shape, OwnerInv, NEW r \in Request, HandlerStep(r)
  PROVE  RegistryStep
<1>1. CASE Arrive(r)
  <2>1. PICK q \in Traffic : \/ Admit(r, q) \/ Replay(r, q)
                            \/ RefuseDuplicate(r, q) \/ RefuseReuse(r, q)
    BY <1>1 DEF Arrive
  <2>2. CASE Admit(r, q) /\ q.id # NoId
    <3>1. q.id \in Id /\ request'[r] = q /\ pc'[r] = "queued" /\ pc[r] = "idle"
      BY <2>2 DEF Admit, Ask, Goto, TypeOK
    <3>2. registry' = [registry EXCEPT ![q.id] =
                         [of |-> r, state |-> "active", byCaller |-> FALSE]]
      BY <2>2 DEF Admit
    <3>3. Enters(r, q.id, "active") /\ q.id \in Key
      BY <3>1, <3>2 DEF Enters, Key
    <3> QED BY <3>3 DEF RegistryStep
  <2>3. CASE Admit(r, q) /\ q.id = NoId
    BY <2>3 DEF Admit, RegistryStep
  <2>4. CASE Replay(r, q) \/ RefuseDuplicate(r, q) \/ RefuseReuse(r, q)
    BY <2>4 DEF Replay, RefuseDuplicate, RefuseReuse, AnswerAtOnce, RegistryStep
  <2> QED BY <2>1, <2>2, <2>3, <2>4
<1>2. CASE Bind(r)
  <2>1. CASE registry' # registry
    <3>1. IdOf(r) = NoId /\ pc[r] = "binding" /\ pc'[r] = "relaying"
      BY <1>2, <2>1 DEF Bind, Goto, TypeOK
    <3>2. registry' = [registry EXCEPT ![r] = [of |-> r, state |-> "active", byCaller |-> FALSE]]
      BY <1>2, <2>1 DEF Bind
    <3>3. Enters(r, r, "active") /\ r \in Key
      BY <3>1, <3>2 DEF Enters, Key
    <3> QED BY <3>3 DEF RegistryStep
  <2> QED BY <2>1 DEF RegistryStep
<1>3. CASE FenceBound(r)
  <2>1. CASE registry' # registry
    <3>1. IdOf(r) = NoId /\ pc[r] = "fencing" /\ bound[r] /\ pc'[r] = "unwinding"
      BY <1>3, <2>1 DEF FenceBound, Goto, TypeOK
    <3>2. registry' = [registry EXCEPT ![r] = [of |-> r, state |-> "interrupted",
                                               byCaller |-> FALSE]]
      BY <1>3, <2>1 DEF FenceBound
    <3>3. Enters(r, r, "interrupted") /\ r \in Key
      BY <3>1, <3>2 DEF Enters, Key
    <3> QED BY <3>3 DEF RegistryStep
  <2> QED BY <2>1 DEF RegistryStep
<1>4. CASE Complete(r)
  <2>1. CASE IdOf(r) = NoId
    <3>1. registry' = [registry EXCEPT ![r] = NoEntry] /\ pc'[r] = "done"
      BY <1>4, <2>1 DEF Complete, Goto, TypeOK
    <3> QED BY <3>1 DEF RegistryStep, Leaves, Key
  <2>2. CASE IdOf(r) # NoId
    <3>1. IdOf(r) \in Id
      BY <1>4, <2>2 DEF Complete, Shape, Asked, IdOf
    <3>2. /\ \/ registry' = registry
             \/ Present(IdOf(r)) /\ Store(IdOf(r), outcome[r])
          /\ outcome[r] \in Responses
      BY <1>4, <2>2 DEF Complete, replayVars, Shape, Answerable
    <3> QED BY <3>1, <3>2, StoreLeaves DEF RegistryStep
  <2> QED BY <2>1, <2>2
<1>5. CASE FenceUnbound(r)
  <2>1. CASE IdOf(r) = NoId
    BY <1>5, <2>1 DEF FenceUnbound, RegistryStep, replayVars
  <2>2. CASE IdOf(r) # NoId
    <3>1. IdOf(r) \in Id /\ IdOf(r) \in Key
      BY <1>5, <2>2 DEF FenceUnbound, Shape, Asked, IdOf, Key
    <3> QED BY <1>5, <2>2, <3>1, CompleteInterruptedLeaves DEF FenceUnbound, RegistryStep
  <2> QED BY <2>1, <2>2
<1>6. CASE DropHandler(r)
  <2>1. CASE IdOf(r) = NoId \/ ~Present(IdOf(r))
    BY <1>6, <2>1 DEF DropHandler, RegistryStep
  <2>2. CASE IdOf(r) # NoId /\ Present(IdOf(r))
    <3>1. IdOf(r) \in Id /\ IdOf(r) \in Key
      BY <1>6, <2>2 DEF DropHandler, Shape, Asked, IdOf, Key, Waiting
    <3>2. registry[IdOf(r)] \in Entries
      BY <3>1 DEF TypeOK
    <3>3. PICK s \in States \ {"absent"} :
            registry' = Become(IdOf(r), s, registry[IdOf(r)].byCaller)
      <4> DEFINE freed == IF pc[r] = "settling" /\ stage[<<"handler", r>>] \in {"clearing", "publishing"}
                               /\ registry[IdOf(r)].state = "claimed"
                            THEN "interrupted" ELSE registry[IdOf(r)].state
      <4>1. registry' = Become(IdOf(r), Interrupt(freed), registry[IdOf(r)].byCaller)
        BY <1>6, <2>2 DEF DropHandler
      <4>2. Interrupt(freed) \in States \ {"absent"}
        BY <2>2, <3>2 DEF Interrupt, States, Entries, Present
      <4> QED BY <4>1, <4>2
    <3>4. registry[IdOf(r)].byCaller \in BOOLEAN
      BY <3>2 DEF Entries
    <3>5. Changes(IdOf(r))
      BY <2>2, <3>1, <3>3, <3>4, BecomeChanges
    <3> QED BY <3>1, <3>5 DEF RegistryStep
  <2> QED BY <2>1, <2>2
<1>7. CASE SeeCancel(r) \/ Unwind(r)
  <2>1. ReleaseClaim(<<"handler", r>>) /\ <<"handler", r>> \in Settler
    BY <1>7 DEF SeeCancel, Unwind, Settler
  <2> QED BY <2>1, ReleaseChanges DEF RegistryStep
<1>8. CASE \/ AcquireLock(r) \/ PriorSettled(r) \/ ReadAuthority(r) \/ Refuse(r) \/ BindRefused(r)
           \/ Relay(r) \/ Publish(r) \/ Recover(r) \/ Quarantine(r) \/ WithdrawOwn(r)
           \/ Logged(r) \/ AwaitSettlement(r) \/ (\E k \in Key : HelpSettle(r, k))
           \/ \E result \in {"ok", "failed", "unknown"} :
                CallReturns(r, result) \/ FollowUpReturns(r, result)
  <2>1. UNCHANGED replayVars
    BY <1>8 DEF AcquireLock, PriorSettled, ReadAuthority, Refuse, BindRefused, Relay, Publish,
                Recover, Quarantine, WithdrawOwn, Logged, AwaitSettlement, HelpSettle, CallReturns,
                FollowUpReturns
  <2> QED BY <2>1 DEF RegistryStep, replayVars
<1> QED BY <1>1, <1>2, <1>3, <1>4, <1>5, <1>6, <1>7, <1>8 DEF HandlerStep, Proceed

\* So do cancellers, settlers and the clock.
LEMMA OtherRegistryStep ==
  ASSUME TypeOK, Shape, OwnerInv,
         \/ \E c \in Canceller : CancellerStep(c)
         \/ \E p \in Settler : SettlerStep(p)
         \/ \E i \in Id : Expire(i)
         \/ UNCHANGED vars
  PROVE  RegistryStep
<1>1. ASSUME NEW c \in Canceller, CancellerStep(c) PROVE RegistryStep
  <2>1. ASSUME NEW i \in Id, Cancel(c, i) PROVE RegistryStep
    <3>1. registry' = Become(i, "interrupted", TRUE) /\ Present(i)
      BY <2>1 DEF Cancel, Present
    <3>2. i \in Key /\ "interrupted" \in States \ {"absent"} /\ TRUE \in BOOLEAN
      BY DEF Key, States
    <3>3. Changes(i)
      BY <3>1, <3>2, BecomeChanges
    <3> QED BY <3>2, <3>3 DEF RegistryStep
  <2>2. CASE CancelCompletes(c)
    <3>1. IdOf(canceled[c]) \in Id /\ CompleteInterrupted(IdOf(canceled[c]))
      BY <2>2 DEF CancelCompletes, Shape, Canceling
    <3> QED BY <3>1, CompleteInterruptedLeaves DEF RegistryStep, Key
  <2>3. CASE DropCanceller(c)
    <3>1. ReleaseClaim(<<"canceller", c>>) /\ <<"canceller", c>> \in Settler
      BY <2>3 DEF DropCanceller, Settler
    <3> QED BY <3>1, ReleaseChanges DEF RegistryStep
  <2>4. CASE CancelLatches(c) \/ CancelSignals(c) \/ \E i \in Id : CancelRefused(c, i)
    <3>1. UNCHANGED replayVars
      BY <2>4 DEF CancelLatches, CancelSignals, CancelRefused
    <3> QED BY <3>1 DEF RegistryStep, replayVars
  <2> QED BY <1>1, <2>1, <2>2, <2>3, <2>4 DEF CancellerStep
<1>2. ASSUME NEW p \in Settler, SettlerStep(p) PROVE RegistryStep
  <2>1. CASE Claim(p)
    <3>1. target[p] \in Key
      BY <2>1 DEF Claim, Runs, Shape, Staged, TypeOK
    <3>2. registry[target[p]].byCaller \in BOOLEAN
      BY <3>1 DEF TypeOK, Entries
    <3>3. /\ registry' = Become(target[p], "claimed", registry[target[p]].byCaller)
          /\ Present(target[p]) /\ Interrupted(target[p])
      BY <2>1 DEF Claim, Present, Interrupted
    <3>4. "claimed" \in States \ {"absent"}
      BY DEF States
    <3>5. Changes(target[p])
      BY <3>1, <3>2, <3>3, <3>4, BecomeChanges
    <3> QED BY <3>1, <3>5 DEF RegistryStep
  <2>2. CASE PublishOutcome(p)
    <3>1. CASE target[p] \in Id
      <4>1. CompleteInterrupted(target[p])
        BY <2>2, <3>1 DEF PublishOutcome
      <4> QED BY <3>1, <4>1, CompleteInterruptedLeaves DEF RegistryStep, Key
    <3>2. CASE target[p] \notin Id
      <4>1. target[p] \in Request
        BY <2>2, <3>2 DEF PublishOutcome, Runs, Shape, Staged, TypeOK, Key
      <4>2. pc[target[p]] \in {"unwinding", "gone"}
        BY <4>1 DEF OwnerInv, Unregistered
      <4>3. pc'[target[p]] = pc[target[p]] \/ pc'[target[p]] = "done"
        <5>1. PICK response : Settled(p, response)
          BY <2>2, <3>2 DEF PublishOutcome
        <5>2. pc' = pc \/ pc' = [pc EXCEPT ![p[2]] = "done"]
          BY <5>1 DEF Settled, Goto
        <5> QED BY <4>1, <5>2 DEF TypeOK
      <4>4. registry' = [registry EXCEPT ![target[p]] = NoEntry]
        BY <2>2, <3>2 DEF PublishOutcome
      <4> QED BY <4>1, <4>2, <4>3, <4>4 DEF RegistryStep, Leaves, Key
    <3> QED BY <3>1, <3>2
  <2>3. CASE AlreadySettled(p) \/ Clear(p)
    <3>1. UNCHANGED replayVars
      BY <2>3 DEF AlreadySettled, Clear
    <3> QED BY <3>1 DEF RegistryStep, replayVars
  <2> QED BY <1>2, <2>1, <2>2, <2>3 DEF SettlerStep
<1>3. CASE (\E i \in Id : Expire(i)) \/ UNCHANGED vars
  BY <1>3 DEF Expire, RegistryStep, vars, replayVars
<1> QED BY <1>1, <1>2, <1>3

-----------------------------------------------------------------------------
(* Ownership of the computer.                                              *)

\* What is asked under a key is not changed.
LEMMA KeyStays ==
  ASSUME Progress, NEW s \in Request, pc[s] # "idle"
  PROVE  /\ KeyOf(s)' = KeyOf(s) /\ IdOf(s)' = IdOf(s) /\ Computer(s)' = Computer(s)
         /\ pc'[s] # "idle"
  BY DEF Progress, KeyOf, IdOf, Computer, Method

\* What a present entry was before the step: the same call's, or it has entered.
LEMMA EntryBefore ==
  ASSUME TypeOK, RegistryStep, NEW k \in Key, Present(k)'
  PROVE  \/ Present(k) /\ registry'[k].of = registry[k].of
         \/ \E r \in Request, s \in {"active", "interrupted"} :
              Enters(r, k, s) /\ registry'[k].of = r
<1>1. CASE registry' = registry
  BY <1>1 DEF Present
<1>2. ASSUME NEW j \in Key, Leaves(j)
      PROVE  Present(k) /\ registry'[k].of = registry[k].of
  <2>1. registry' = [registry EXCEPT ![j] = NoEntry]
    BY <1>2 DEF Leaves
  <2>2. k # j
    BY <2>1 DEF TypeOK, Present, NoEntry
  <2> QED BY <2>1, <2>2 DEF Present, TypeOK
<1>3. ASSUME NEW j \in Key, Changes(j)
      PROVE  Present(k) /\ registry'[k].of = registry[k].of
  <2>1. PICK s \in States \ {"absent"}, b \in BOOLEAN :
          registry' = [registry EXCEPT ![j] = [of |-> registry[j].of, state |-> s, byCaller |-> b]]
    BY <1>3 DEF Changes, Become
  <2>2. CASE k = j
    BY <2>1, <2>2, <1>3 DEF Changes, TypeOK
  <2>3. CASE k # j
    BY <2>1, <2>3 DEF Present, TypeOK
  <2> QED BY <2>2, <2>3
<1>4. ASSUME NEW r \in Request, NEW i \in Key, NEW s \in {"active", "interrupted"},
             Enters(r, i, s)
      PROVE  \/ Present(k) /\ registry'[k].of = registry[k].of
             \/ Enters(r, k, s) /\ registry'[k].of = r
  <2>1. registry' = [registry EXCEPT ![i] = [of |-> r, state |-> s, byCaller |-> FALSE]]
    BY <1>4 DEF Enters
  <2>2. CASE k = i
    BY <2>1, <2>2, <1>4 DEF TypeOK
  <2>3. CASE k # i
    BY <2>1, <2>3 DEF Present, TypeOK
  <2> QED BY <2>2, <2>3
<1> QED BY <1>1, <1>2, <1>3, <1>4 DEF RegistryStep

\* An entry keeps to the request that was admitted under its key.
LEMMA EntryStep ==
  ASSUME TypeOK, Shape, RegistryStep, Progress
  PROVE  Entry'
<1> SUFFICES ASSUME NEW k \in Key, Present(k)'
             PROVE  /\ registry'[k].of \in Request /\ pc'[registry'[k].of] # "idle"
                    /\ KeyOf(registry[k].of)' = k
  BY DEF Entry
<1>1. CASE Present(k) /\ registry'[k].of = registry[k].of
  BY <1>1, KeyStays DEF Shape, Entry, KeyOf, IdOf, Progress
<1>2. ASSUME NEW r \in Request, NEW s \in {"active", "interrupted"},
             Enters(r, k, s), registry'[k].of = r
      PROVE  pc'[r] # "idle" /\ KeyOf(registry[k].of)' = k
  BY <1>2 DEF Enters, KeyOf, IdOf, Progress
<1> QED BY <1>1, <1>2, EntryBefore

\* Other calls do not come to own the computer while r holds the action lock.
LEMMA OwnersStep ==
  ASSUME TypeOK, Shape, OwnerInv, RegistryStep, Progress, Binding, Unbound',
         NEW r \in Request, pc[r] \in Holding,
         NEW keys \in SUBSET Key, OtherComputerOwners(r, keys) = {}
  PROVE  OtherComputerOwners(r, keys)' = {}
<1> SUFFICES ASSUME NEW k \in keys, k # KeyOf(r)', Present(k)', Computer(registry[k].of)',
                    bound'[registry'[k].of]
             PROVE  FALSE
  BY DEF OtherComputerOwners
<1>1. lock = r /\ KeyOf(r)' = KeyOf(r) /\ pc[r] # "idle"
  BY KeyStays DEF OwnerInv, Held, Holding
<1>2. CASE Present(k) /\ registry'[k].of = registry[k].of
  <2> DEFINE s == registry[k].of
  <2>1. s \in Request /\ pc[s] # "idle" /\ KeyOf(s) = k
    BY <1>2 DEF Shape, Entry
  <2>2. Computer(s)
    BY <1>2, <2>1 DEF Progress, Computer, Method
  <2>3. ~bound[s]
    BY <1>1, <1>2, <2>1, <2>2 DEF OtherComputerOwners
  <2>4. pc[s] = "binding"
    BY <1>2, <2>1, <2>3 DEF Binding
  <2>5. s = r
    BY <1>1, <2>1, <2>4 DEF OwnerInv, Held, Holding
  <2> QED BY <1>1, <2>1, <2>5
<1>3. ASSUME NEW q \in Request, NEW s \in {"active", "interrupted"},
             Enters(q, k, s), registry'[k].of = q
      PROVE  FALSE
  <2>1. CASE pc'[q] = "queued"
    BY <1>3, <2>1 DEF Unbound
  <2>2. CASE k = q /\ IdOf(q) = NoId /\ pc[q] = "binding"
    <3>1. q = r
      BY <1>1, <2>2 DEF OwnerInv, Held, Holding
    <3> QED BY <1>1, <2>2, <3>1 DEF KeyOf
  <2>3. CASE k = q /\ IdOf(q) = NoId /\ pc[q] = "fencing" /\ bound[q]
    <3>1. Computer(q)
      BY <1>3, <2>3 DEF Progress, Computer, Method
    <3>2. Present(q)
      BY <2>3, <3>1 DEF OwnerInv, Unregistered
    <3>3. registry[q].of \in Request /\ KeyOf(registry[q].of) = q /\ pc[registry[q].of] # "idle"
      BY <3>2 DEF Shape, Entry, Key
    <3>4. registry[q].of = q
      BY <3>3 DEF Shape, Asked, KeyOf, IdOf
    <3> QED BY <1>1, <2>3, <3>1, <3>2, <3>4 DEF OtherComputerOwners
  <2> QED BY <1>3, <2>1, <2>2, <2>3 DEF Enters
<1> QED BY <1>2, <1>3, EntryBefore

\* What was found free of others stays free of them.
LEMMA FreeOfOthersStep ==
  ASSUME TypeOK, Shape, OwnerInv, RegistryStep, ControlStep, Unbound'
  PROVE  FreeOfOthers'
<1> SUFFICES ASSUME NEW r \in Request, Computer(r)'
             PROVE  /\ pc'[r] = "settling registered" => OtherComputerOwners(r, Request)' = {}
                    /\ pc'[r] \in Holding \ {"settling unregistered", "settling registered"} =>
                         OtherComputerOwners(r, Key)' = {}
  BY DEF FreeOfOthers
<1>1. CASE pc[r] = "idle"
  <2>1. ASSUME Live(r)' PROVE pc'[r] = "queued"
    <3>1. PICK q \in Traffic : Admit(r, q)
      BY <1>1, <2>1 DEF ControlStep, Starting
    <3> QED BY <3>1 DEF Admit, Goto, TypeOK
  <2> QED BY <2>1 DEF Live, Holding
<1>2. CASE pc[r] # "idle"
  <2>1. Computer(r) /\ Progress /\ Binding
    BY <1>2, KeyStays DEF ControlStep
  <2>2. ASSUME pc'[r] = "settling registered" PROVE OtherComputerOwners(r, Request)' = {}
    <3>1. pc[r] \in Holding /\ OtherComputerOwners(r, Request) = {}
      BY <1>2, <2>1, <2>2 DEF ControlStep, Freeing, OwnerInv, FreeOfOthers, Holding
    <3> QED BY <2>1, <3>1, OwnersStep DEF Key
  <2>3. ASSUME pc'[r] \in Holding \ {"settling unregistered", "settling registered"}
        PROVE  OtherComputerOwners(r, Key)' = {}
    <3>1. pc[r] \in Holding /\ OtherComputerOwners(r, Key) = {}
      <4>1. CASE pc[r] \in Holding \ {"settling unregistered", "settling registered"}
        BY <2>1, <4>1 DEF OwnerInv, FreeOfOthers
      <4>2. CASE pc[r] = "settling registered" /\ OtherComputerOwners(r, Id) = {}
        <5>1. OtherComputerOwners(r, Request) = {}
          BY <2>1, <4>2 DEF OwnerInv, FreeOfOthers
        <5>2. OtherComputerOwners(r, Key)
                = OtherComputerOwners(r, Id) \cup OtherComputerOwners(r, Request)
          BY DEF OtherComputerOwners, Key
        <5> QED BY <4>2, <5>1, <5>2 DEF Holding
      <4> QED BY <1>2, <2>1, <2>3, <4>1, <4>2 DEF ControlStep, Freeing
    <3> QED BY <2>1, <3>1, OwnersStep
  <2> QED BY <2>2, <2>3
<1> QED BY <1>1, <1>2

\* A request without a call id stays registered as long as it must.
LEMMA UnregisteredStep ==
  ASSUME TypeOK, Shape, OwnerInv, RegistryStep, ControlStep
  PROVE  Unregistered'
<1> SUFFICES ASSUME NEW r \in Request
             PROVE  /\ Computer(r)' /\ IdOf(r)' = NoId /\ bound'[r]
                          /\ pc'[r] \notin {"unwinding", "done", "gone"} => Present(r)'
                    /\ Interrupted(r)' => pc'[r] \in {"unwinding", "gone"}
                    /\ \A p \in Settler : target'[p] = r => pc'[r] \in {"unwinding", "gone"}
  BY DEF Unregistered
<1>1. r \in Key /\ r \notin Id
  BY DEF Key
<1>2. Present(r) /\ pc'[r] \notin {"unwinding", "done", "gone"} => Present(r)'
  <2> SUFFICES ASSUME Present(r), pc'[r] \notin {"unwinding", "done", "gone"}
               PROVE  Present(r)'
    OBVIOUS
  <2>1. CASE registry' = registry
    BY <2>1 DEF Present
  <2>2. ASSUME NEW j \in Key, Leaves(j) PROVE Present(r)'
    <3>1. r # j /\ registry' = [registry EXCEPT ![j] = NoEntry]
      BY <1>1, <2>2 DEF Leaves
    <3> QED BY <3>1 DEF Present, TypeOK
  <2>3. ASSUME NEW j \in Key, Changes(j) PROVE Present(r)'
    <3>1. PICK s \in States \ {"absent"}, b \in BOOLEAN :
            registry' = [registry EXCEPT ![j] = [of |-> registry[j].of, state |-> s, byCaller |-> b]]
      BY <2>3 DEF Changes, Become
    <3> QED BY <1>1, <3>1 DEF Present, TypeOK, States
  <2>4. ASSUME NEW q \in Request, NEW i \in Key, NEW s \in {"active", "interrupted"},
               Enters(q, i, s)
        PROVE  Present(r)'
    <3>1. registry' = [registry EXCEPT ![i] = [of |-> q, state |-> s, byCaller |-> FALSE]]
      BY <2>4 DEF Enters
    <3> QED BY <1>1, <3>1 DEF Present, TypeOK
  <2> QED BY <2>1, <2>2, <2>3, <2>4 DEF RegistryStep
<1>3. Interrupted(r)' => Interrupted(r) \/ pc'[r] = "unwinding"
  <2> SUFFICES ASSUME Interrupted(r)', ~Interrupted(r) PROVE pc'[r] = "unwinding"
    OBVIOUS
  <2>1. registry' # registry
    BY DEF Interrupted
  <2>2. ASSUME NEW j \in Key, Leaves(j) PROVE FALSE
    <3>1. registry' = [registry EXCEPT ![j] = NoEntry]
      BY <2>2 DEF Leaves
    <3> QED BY <1>1, <3>1 DEF Interrupted, TypeOK, NoEntry
  <2>3. ASSUME NEW j \in Key, Changes(j) PROVE FALSE
    <3>1. PICK s \in States \ {"absent"}, b \in BOOLEAN :
            registry' = [registry EXCEPT ![j] = [of |-> registry[j].of, state |-> s, byCaller |-> b]]
      BY <2>3 DEF Changes, Become
    <3>2. j # r
      BY <2>3 DEF Changes
    <3> QED BY <1>1, <3>1, <3>2 DEF Interrupted, TypeOK
  <2>4. ASSUME NEW q \in Request, NEW i \in Key, NEW s \in {"active", "interrupted"},
               Enters(q, i, s)
        PROVE  pc'[r] = "unwinding"
    <3>1. registry' = [registry EXCEPT ![i] = [of |-> q, state |-> s, byCaller |-> FALSE]]
      BY <2>4 DEF Enters
    <3>2. i = r /\ s = "interrupted"
      BY <1>1, <3>1 DEF Interrupted, TypeOK
    <3> QED BY <1>1, <2>4, <3>2 DEF Enters
  <2> QED BY <2>1, <2>2, <2>3, <2>4 DEF RegistryStep
<1>4. Interrupted(r)' => pc'[r] \in {"unwinding", "gone"}
  BY <1>3 DEF OwnerInv, Unregistered, ControlStep, Ending
<1>5. ASSUME NEW p \in Settler, target'[p] = r PROVE pc'[r] \in {"unwinding", "gone"}
  BY <1>5 DEF OwnerInv, Unregistered, ControlStep, Ending, Targeting
<1>6. ASSUME Computer(r)', IdOf(r)' = NoId, bound'[r],
             pc'[r] \notin {"unwinding", "done", "gone"}
      PROVE  Present(r)'
  <2>1. pc[r] # "idle"
    BY <1>6 DEF ControlStep, Binding, OwnerInv, Unbound
  <2>2. Computer(r) /\ IdOf(r) = NoId
    BY <1>6, <2>1, KeyStays DEF ControlStep
  <2>3. pc[r] \notin {"unwinding", "done", "gone"}
    BY <1>6 DEF ControlStep, Ending
  <2>4. CASE bound[r]
    BY <1>2, <1>6, <2>2, <2>3, <2>4 DEF OwnerInv, Unregistered
  <2>5. CASE ~bound[r]
    BY <1>6, <2>2, <2>5 DEF ControlStep, Binding
  <2> QED BY <2>4, <2>5
<1> QED BY <1>4, <1>5, <1>6

\* A cancellation in progress keeps to the call it has interrupted, and settles
\* it while it is in the state of settling.
CancelStep ==
  \A c \in Canceller :
    /\ cpc'[c] \notin {"idle", "refused"} =>
         \/ cpc[c] \notin {"idle", "refused"} /\ canceled'[c] = canceled[c]
         \/ \E i \in Id : registry[i].state = "active" /\ canceled'[c] = registry[i].of
    /\ stage'[<<"canceller", c>>] # "off" =>
         \/ stage[<<"canceller", c>>] # "off" /\ cpc'[c] = cpc[c]
         \/ cpc'[c] = "settling"

\* A canceller's own step.
LEMMA CancellerCancels ==
  ASSUME TypeOK, NEW c \in Canceller, CancellerStep(c),
         \A d \in Canceller : stage[<<"canceller", d>>] # "off" => cpc[d] = "settling"
  PROVE  CancelStep
<1>1. \A d \in Canceller : <<"canceller", d>> \in Settler
  BY DEF Settler
<1>2. ASSUME NEW i \in Id, Cancel(c, i) PROVE CancelStep
  <2>1. /\ registry[i].state = "active" /\ canceled' = [canceled EXCEPT ![c] = registry[i].of]
        /\ cpc[c] = "idle" /\ stage' = stage
    BY <1>2 DEF Cancel, settleVars
  <2>2. \A d \in Canceller : d # c => cpc'[d] = cpc[d] /\ canceled'[d] = canceled[d]
    BY <1>2, <2>1 DEF Cancel, CGoto, TypeOK
  <2>3. canceled'[c] = registry[i].of /\ stage'[<<"canceller", c>>] = "off"
    BY <2>1 DEF TypeOK
  <2> QED BY <2>1, <2>2, <2>3 DEF CancelStep
<1>3. ASSUME NEW i \in Id, CancelRefused(c, i) PROVE CancelStep
  <2>1. cpc[c] = "idle" /\ UNCHANGED <<stage, canceled>>
    BY <1>3 DEF CancelRefused, settleVars
  <2>2. cpc'[c] = "refused" /\ \A d \in Canceller : d # c => cpc'[d] = cpc[d]
    BY <1>3 DEF CancelRefused, CGoto, TypeOK
  <2> QED BY <2>1, <2>2 DEF CancelStep
<1>4. CASE CancelLatches(c) \/ CancelSignals(c) \/ CancelCompletes(c) \/ DropCanceller(c)
  <2>1. /\ canceled' = canceled /\ cpc[c] \notin {"idle", "refused"}
        /\ \A d \in Canceller : d # c => cpc'[d] = cpc[d]
    BY <1>4 DEF CancelLatches, CancelSignals, CancelCompletes, DropCanceller, CGoto, TypeOK
  <2>2. \A d \in Canceller : d # c => stage'[<<"canceller", d>>] = stage[<<"canceller", d>>]
    <3>1. \/ stage' = stage
          \/ \E w \in {"off", "claiming"} : stage' = [stage EXCEPT ![<<"canceller", c>>] = w]
      BY <1>4 DEF CancelLatches, CancelSignals, CancelCompletes, DropCanceller, ReleaseClaim, settleVars
    <3> QED BY <1>1, <3>1 DEF TypeOK
  <2>3. stage'[<<"canceller", c>>] # "off" => cpc'[c] = "settling"
    <3>1. CASE CancelSignals(c)
      BY <3>1, <1>1 DEF CancelSignals, CGoto, TypeOK, settleVars
    <3>2. CASE DropCanceller(c)
      BY <3>2, <1>1 DEF DropCanceller, ReleaseClaim, TypeOK
    <3>3. CASE CancelLatches(c) \/ CancelCompletes(c)
      BY <3>3 DEF CancelLatches, CancelCompletes, settleVars
    <3> QED BY <1>4, <3>1, <3>2, <3>3
  <2> QED BY <2>1, <2>2, <2>3 DEF CancelStep
<1> QED BY <1>2, <1>3, <1>4 DEF CancellerStep

\* A settler's step: a canceller whose settlement ends was settling.
LEMMA SettlerCancels ==
  ASSUME TypeOK, Shape, NEW p \in Settler, SettlerStep(p)
  PROVE  CancelStep
<1>1. canceled' = canceled
  BY DEF SettlerStep, Claim, AlreadySettled, Clear, PublishOutcome, cancelVars
<1>2. CASE Claim(p) \/ Clear(p)
  <2>1. /\ cpc' = cpc /\ stage[p] # "off"
        /\ \E w \in {"clearing", "publishing"} : stage' = [stage EXCEPT ![p] = w]
    BY <1>2 DEF Claim, Clear, Runs, cancelVars
  <2>2. \A d \in Canceller : stage'[<<"canceller", d>>] # "off" => stage[<<"canceller", d>>] # "off"
    <3> SUFFICES ASSUME NEW d \in Canceller, stage'[<<"canceller", d>>] # "off",
                        p # <<"canceller", d>>
                 PROVE  stage[<<"canceller", d>>] # "off"
      BY <2>1
    <3>1. <<"canceller", d>> \in Settler
      BY DEF Settler
    <3> QED BY <2>1, <3>1 DEF TypeOK
  <2> QED BY <1>1, <2>1, <2>2 DEF CancelStep
<1>3. CASE AlreadySettled(p) \/ PublishOutcome(p)
  <2>1. PICK where, response : Runs(p, where) /\ where # "off" /\ Settled(p, response)
    BY <1>3 DEF AlreadySettled, PublishOutcome
  <2>2. stage[p] # "off" /\ stage' = [stage EXCEPT ![p] = "off"]
    BY <2>1 DEF Runs, Settled
  <2>3. CASE p[1] = "canceller"
    <3>1. PICK c \in Canceller : p = <<"canceller", c>>
      BY <2>3 DEF Settler
    <3>2. cpc[c] = "settling" /\ cpc' = [cpc EXCEPT ![c] = "accepted"]
      BY <2>1, <2>2, <3>1 DEF Shape, Canceling, Settled, CGoto
    <3>3. stage'[<<"canceller", c>>] = "off" /\ cpc'[c] = "accepted"
      BY <2>2, <3>1, <3>2 DEF TypeOK
    <3>4. \A d \in Canceller : d # c =>
            cpc'[d] = cpc[d] /\ stage'[<<"canceller", d>>] = stage[<<"canceller", d>>]
      BY <2>2, <3>1, <3>2 DEF TypeOK, Settler
    <3> QED BY <1>1, <3>2, <3>3, <3>4 DEF CancelStep
  <2>4. CASE p[1] # "canceller"
    <3>1. cpc' = cpc
      BY <2>1, <2>4 DEF Settled
    <3>2. \A d \in Canceller : stage'[<<"canceller", d>>] = stage[<<"canceller", d>>]
      BY <2>2, <2>4 DEF TypeOK, Settler
    <3> QED BY <1>1, <3>1, <3>2 DEF CancelStep
  <2> QED BY <2>3, <2>4
<1> QED BY <1>2, <1>3 DEF SettlerStep

\* Handlers leave cancellers alone.
LEMMA HandlerCancels ==
  ASSUME TypeOK, Shape, NEW r \in Request, HandlerStep(r)
  PROVE  CancelStep
<1>1. UNCHANGED cancelVars
  <2>1. CASE Arrive(r)
    BY <2>1 DEF Arrive, Admit, Replay, RefuseDuplicate, RefuseReuse, AnswerAtOnce
  <2>2. CASE Proceed(r) \/ AcquireLock(r) \/ DropHandler(r)
    BY <2>2 DEF Proceed, AcquireLock, DropHandler, PriorSettled, HelpSettle, ReadAuthority,
                Refuse, Bind, BindRefused, Relay, CallReturns, FollowUpReturns, Publish, Recover,
                Quarantine, WithdrawOwn, Logged, SeeCancel, Complete, AwaitSettlement, FenceUnbound,
                FenceBound, Unwind
  <2> QED BY <2>1, <2>2 DEF HandlerStep
<1>2. \/ stage' = stage
      \/ \E kind \in {"handler", "task"}, w \in {"off", "claiming"} :
           stage' = [stage EXCEPT ![<<kind, r>>] = w]
  <2>1. CASE Arrive(r)
    BY <2>1 DEF Arrive, Admit, Replay, RefuseDuplicate, RefuseReuse, AnswerAtOnce, settleVars
  <2>2. CASE DropHandler(r)
    BY <2>2 DEF DropHandler, settleVars
  <2>3. CASE Proceed(r) \/ AcquireLock(r)
    BY <2>3 DEF Proceed, AcquireLock, PriorSettled, HelpSettle, ReadAuthority,
                Refuse, Bind, BindRefused, Relay, CallReturns, FollowUpReturns, Publish, Recover,
                Quarantine, WithdrawOwn, Logged, SeeCancel, Complete, AwaitSettlement, FenceUnbound,
                FenceBound, Unwind, ReleaseClaim, settleVars
  <2> QED BY <2>1, <2>2, <2>3 DEF HandlerStep
<1>3. \A d \in Canceller : stage'[<<"canceller", d>>] = stage[<<"canceller", d>>]
  BY <1>2 DEF TypeOK, Settler
<1> QED BY <1>1, <1>3 DEF CancelStep, cancelVars

\* So does the clock.
LEMMA ExpireCancels ==
  ASSUME NEW i \in Id, Expire(i)
  PROVE  CancelStep
<1>1. UNCHANGED <<cpc, canceled, stage>>
  BY DEF Expire, cancelVars, settleVars
<1> QED BY <1>1 DEF CancelStep

\* A cancellation keeps to a call that was admitted under an id.
LEMMA CancelingStep ==
  ASSUME TypeOK, Shape, Progress, CancelStep
  PROVE  Canceling'
<1> SUFFICES ASSUME NEW c \in Canceller
             PROVE  /\ cpc'[c] \notin {"idle", "refused"} =>
                         /\ canceled'[c] \in Request /\ pc'[canceled'[c]] # "idle"
                         /\ IdOf(canceled[c])' \in Id
                    /\ stage'[<<"canceller", c>>] # "off" => cpc'[c] = "settling"
  BY DEF Canceling
<1>1. ASSUME cpc'[c] \notin {"idle", "refused"}
      PROVE  /\ canceled'[c] \in Request /\ pc'[canceled'[c]] # "idle"
             /\ IdOf(canceled[c])' \in Id
  <2>1. canceled'[c] \in Request /\ pc[canceled'[c]] # "idle" /\ IdOf(canceled'[c]) \in Id
    <3>1. CASE cpc[c] \notin {"idle", "refused"} /\ canceled'[c] = canceled[c]
      BY <3>1 DEF Shape, Canceling
    <3>2. ASSUME NEW i \in Id, registry[i].state = "active", canceled'[c] = registry[i].of
          PROVE  canceled'[c] \in Request /\ pc[canceled'[c]] # "idle" /\ IdOf(canceled'[c]) \in Id
      <4>1. /\ registry[i].of \in Request /\ pc[registry[i].of] # "idle"
            /\ KeyOf(registry[i].of) = i
        BY <3>2 DEF Shape, Entry, Present, Key
      <4> QED BY <3>2, <4>1 DEF KeyOf
    <3> QED BY <1>1, <3>1, <3>2 DEF CancelStep
  <2> QED BY <2>1 DEF Progress, IdOf
<1>2. stage'[<<"canceller", c>>] # "off" => cpc'[c] = "settling"
  BY DEF CancelStep, Shape, Canceling
<1> QED BY <1>1, <1>2

-----------------------------------------------------------------------------
(* Executions.                                                             *)

\* No id is lost: what is no longer remembered is known to be forgotten, until
\* it is admitted again.
MemoryStep ==
  \A i \in Id :
    /\ Remembered(i) => Remembered(i)' \/ i \in forgotten'
    /\ i \in forgotten => i \in forgotten' \/ Present(i)'

\* Only a relay counts, and only one at a time.
DispatchStep ==
  \A i \in Id :
    \/ dispatches'[i] = dispatches[i]
    \/ dispatches'[i] = 0
    \/ \E r \in Request : /\ pc[r] = "relaying" /\ pc'[r] = "calling" /\ IdOf(r) = i
                         /\ dispatches'[i] = dispatches[i] + 1

\* A concatenation holds the one sequence and after it the other.
LEMMA ConcatIndexed ==
  ASSUME NEW S, NEW s \in Seq(S), NEW u \in Seq(S)
  PROVE  /\ s \o u \in Seq(S) /\ Len(s \o u) = Len(s) + Len(u)
         /\ \A m \in 1..Len(s) : (s \o u)[m] = s[m]
         /\ \A m \in (Len(s) + 1)..(Len(s) + Len(u)) : (s \o u)[m] = u[m - Len(s)]
<1>1. s \o u \in Seq(S) /\ Len(s \o u) = Len(s) + Len(u)
  OBVIOUS
<1>2. \A m \in 1..Len(s) : (s \o u)[m] = s[m]
  OBVIOUS
<1>3. \A m \in (Len(s) + 1)..(Len(s) + Len(u)) : (s \o u)[m] = u[m - Len(s)]
  OBVIOUS
<1> QED BY <1>1, <1>2, <1>3

\* Forgetting one id keeps the others.
LEMMA ForgetIds ==
  ASSUME completed \in Seq(Memory), NEW i, Remembered(i), NEW j \in IdsIn(completed), j # i
  PROVE  j \in IdsIn(Forget(i))
<1>1. PICK n \in DOMAIN completed : j = completed[n].id
  BY Zenon DEF IdsIn
<1>2. PlaceOf(i) \in 1..Len(completed) /\ completed[PlaceOf(i)].id = i /\ n \in 1..Len(completed)
  BY <1>1, PlaceInMemory DEF OutcomeOf
<1>3. n # PlaceOf(i)
  BY <1>1, <1>2
<1> DEFINE p == PlaceOf(i)
           a == SubSeq(completed, 1, p - 1)
           b == SubSeq(completed, p + 1, Len(completed))
           f == a \o b
<1>4. /\ a \in Seq(Memory) /\ Len(a) = p - 1 /\ \A m \in 1..(p - 1) : a[m] = completed[m]
      /\ b \in Seq(Memory) /\ Len(b) = Len(completed) - p
      /\ \A m \in 1..(Len(completed) - p) : b[m] = completed[p + m]
      /\ p \in 1..Len(completed) /\ Len(completed) \in Nat
  BY <1>2
<1>5. n \in 1..Len(completed) /\ n # p
  BY <1>2, <1>3
<1>6. Forget(i) = f
  BY DEF Forget
<1> HIDE DEF a, b, p
<1>7. f \in Seq(Memory) /\ Len(f) = Len(completed) - 1
  <2>1. f \in Seq(Memory) /\ Len(f) = Len(a) + Len(b)
    BY <1>4, ConcatIndexed
  <2> QED BY <1>4, <2>1
<1>8. \E m \in 1..Len(f) : f[m] = completed[n]
  <2>1. CASE n < p
    <3>1. n \in 1..Len(a) /\ a[n] = completed[n]
      BY <1>4, <1>5, <2>1
    <3>2. f[n] = a[n] /\ n \in 1..Len(f)
      BY <1>4, <1>7, <3>1, ConcatIndexed
    <3> QED BY <3>1, <3>2
  <2>2. CASE n > p
    <3>1. n - p \in 1..Len(b) /\ b[n - p] = completed[n]
      <4>1. n - p \in 1..(Len(completed) - p) /\ p + (n - p) = n
        BY <1>4, <1>5, <2>2
      <4> QED BY <1>4, <4>1
    <3> DEFINE m == Len(a) + (n - p)
    <3>2. m \in (Len(a) + 1)..(Len(a) + Len(b)) /\ m - Len(a) = n - p /\ m \in Nat
      BY <1>4, <3>1
    <3> HIDE DEF m
    <3>3. f[m] = b[m - Len(a)] /\ m \in 1..Len(f)
      <4>1. f[m] = b[m - Len(a)]
        BY <1>4, <3>2, ConcatIndexed
      <4>2. m \in 1..Len(f)
        BY <1>4, <1>7, <3>2
      <4> QED BY <4>1, <4>2
    <3> QED BY <3>1, <3>2, <3>3
  <2> QED BY <1>4, <1>5, <2>1, <2>2
<1> HIDE DEF f
<1> QED BY <1>1, <1>6, <1>7, <1>8, InMemory

\* Storing an outcome forgets only what it evicts.
LEMMA StoreMemory ==
  ASSUME TypeOK, Shape, NEW k \in Id, NEW response \in Responses, Present(k),
         Store(k, response)
  PROVE  MemoryStep
<1> DEFINE stored == [id |-> k, method |-> Method(registry[k].of),
                      response |-> response, of |-> registry[k].of]
           room   == MakeRoom(completed)
<1>1. stored \in Memory
  BY EntryType DEF Key, Memory
<1>2. room \in Seq(Memory)
  BY RoomType DEF TypeOK, Memory
<1>3. /\ completed' = Append(room, stored)
      /\ forgotten' = forgotten \cup (IdsIn(completed) \ IdsIn(room))
  BY DEF Store
<1> HIDE DEF stored, room
<1>4. IdsIn(room) \subseteq IdsIn(completed')
  BY <1>1, <1>2, <1>3, AppendIds
<1> QED BY <1>3, <1>4 DEF MemoryStep, Remembered

\* So does completing what was interrupted.
LEMMA CompleteInterruptedMemory ==
  ASSUME TypeOK, Shape, NEW k \in Id, CompleteInterrupted(k)
  PROVE  MemoryStep
<1>1. CASE Interrupted(k)
  <2>1. Store(k, SyntheticFor(k)) /\ Present(k)
    BY <1>1 DEF CompleteInterrupted, Interrupted, Present
  <2> QED BY <2>1, StoreMemory, SyntheticType
<1>2. CASE ~Interrupted(k)
  BY <1>2 DEF CompleteInterrupted, replayVars, MemoryStep, Remembered
<1> QED BY <1>1, <1>2

\* An arrival loses no id and relays nothing.
LEMMA ArriveMemory ==
  ASSUME TypeOK, Shape, NEW r \in Request, Arrive(r)
  PROVE  MemoryStep /\ DispatchStep
<1>1. PICK q \in Traffic : \/ Admit(r, q) \/ Replay(r, q)
                          \/ RefuseDuplicate(r, q) \/ RefuseReuse(r, q)
  BY DEF Arrive
<1>2. CASE Admit(r, q)
  <2>1. completed' = completed
    BY <1>2 DEF Admit
  <2>2. CASE q.id = NoId
    BY <1>2, <2>1, <2>2 DEF Admit, MemoryStep, DispatchStep, Remembered
  <2>3. CASE q.id # NoId
    <3>1. q.id \in Id
      BY <2>3
    <3>2. /\ forgotten' = forgotten \ {q.id}
          /\ registry' = [registry EXCEPT ![q.id] =
                             [of |-> r, state |-> "active", byCaller |-> FALSE]]
          /\ dispatches' = dispatches \/ dispatches' = [dispatches EXCEPT ![q.id] = 0]
      BY <1>2, <2>3 DEF Admit
    <3>3. Present(q.id)'
      BY <3>1, <3>2 DEF Present, TypeOK, Key
    <3>4. MemoryStep
      BY <2>1, <3>2, <3>3 DEF MemoryStep, Remembered
    <3>5. DispatchStep
      BY <3>1, <3>2 DEF DispatchStep, TypeOK
    <3> QED BY <3>4, <3>5
  <2> QED BY <2>2, <2>3
<1>3. CASE Replay(r, q)
  <2>1. /\ Remembered(q.id) /\ completed \in Seq(Memory)
        /\ completed' = Append(Forget(q.id), OutcomeOf(q.id))
        /\ UNCHANGED <<forgotten, dispatches>>
    BY <1>3 DEF Replay, AnswerAtOnce, TypeOK, Memory, historyVars
  <2>2. IdsIn(completed') = IdsIn(Forget(q.id)) \cup {q.id}
    BY <2>1, PlaceInMemory, ForgetType, AppendIds
  <2>3. IdsIn(completed) \subseteq IdsIn(completed')
    BY <2>1, <2>2, ForgetIds
  <2> QED BY <2>1, <2>3 DEF MemoryStep, DispatchStep, Remembered
<1>4. CASE RefuseDuplicate(r, q) \/ RefuseReuse(r, q)
  BY <1>4 DEF RefuseDuplicate, RefuseReuse, AnswerAtOnce, historyVars, MemoryStep,
              DispatchStep, Remembered
<1> QED BY <1>1, <1>2, <1>3, <1>4

\* Only the relay of a handler counts.
LEMMA HandlerMemory ==
  ASSUME TypeOK, Shape, NEW r \in Request, HandlerStep(r)
  PROVE  MemoryStep /\ DispatchStep
<1>1. CASE Arrive(r)
  BY <1>1, ArriveMemory
<1>2. CASE Relay(r)
  <2>1. UNCHANGED <<completed, forgotten>>
    BY <1>2 DEF Relay, replayVars
  <2>2. pc[r] = "relaying" /\ pc'[r] = "calling"
    BY <1>2 DEF Relay, Goto, TypeOK
  <2>3. CASE IdOf(r) = NoId
    BY <1>2, <2>1, <2>3 DEF Relay, MemoryStep, DispatchStep, Remembered
  <2>4. CASE IdOf(r) # NoId
    <3>1. dispatches' = [dispatches EXCEPT ![IdOf(r)] = dispatches[IdOf(r)] + 1] /\ IdOf(r) \in Id
      BY <1>2, <2>2, <2>4 DEF Relay, Shape, Asked, IdOf
    <3> QED BY <2>1, <2>2, <3>1 DEF MemoryStep, DispatchStep, Remembered, TypeOK
  <2> QED BY <2>3, <2>4
<1>3. CASE Complete(r)
  <2>1. dispatches' = dispatches
    BY <1>3 DEF Complete
  <2>2. CASE \/ IdOf(r) = NoId \/ ~Present(IdOf(r))
    BY <1>3, <2>1, <2>2 DEF Complete, replayVars, MemoryStep, DispatchStep, Remembered
  <2>3. CASE IdOf(r) # NoId /\ Present(IdOf(r))
    <3>1. Store(IdOf(r), outcome[r]) /\ IdOf(r) \in Id /\ outcome[r] \in Responses
      BY <1>3, <2>3 DEF Complete, Shape, Asked, Answerable, IdOf
    <3> QED BY <2>1, <2>3, <3>1, StoreMemory DEF DispatchStep
  <2> QED BY <2>2, <2>3
<1>4. CASE FenceUnbound(r)
  <2>1. dispatches' = dispatches
    BY <1>4 DEF FenceUnbound
  <2>2. CASE IdOf(r) = NoId
    BY <1>4, <2>1, <2>2 DEF FenceUnbound, replayVars, MemoryStep, DispatchStep, Remembered
  <2>3. CASE IdOf(r) # NoId
    <3>1. CompleteInterrupted(IdOf(r)) /\ IdOf(r) \in Id
      BY <1>4, <2>3 DEF FenceUnbound, Shape, Asked, IdOf
    <3> QED BY <2>1, <3>1, CompleteInterruptedMemory DEF DispatchStep
  <2> QED BY <2>2, <2>3
<1>5. CASE \/ AcquireLock(r) \/ DropHandler(r)
           \/ Proceed(r) /\ ~Relay(r) /\ ~Complete(r) /\ ~FenceUnbound(r)
  <2>1. UNCHANGED <<completed, forgotten, dispatches>>
    BY <1>5 DEF Proceed, AcquireLock, DropHandler, PriorSettled, HelpSettle, ReadAuthority,
                Refuse, Bind, BindRefused, CallReturns, FollowUpReturns, Publish, Recover,
                Quarantine, WithdrawOwn, Logged, SeeCancel, AwaitSettlement, FenceBound, Unwind,
                replayVars, historyVars
  <2> QED BY <2>1 DEF MemoryStep, DispatchStep, Remembered
<1> QED BY <1>1, <1>2, <1>3, <1>4, <1>5 DEF HandlerStep

\* Nobody else relays, and nobody else loses an id.
LEMMA OtherMemory ==
  ASSUME TypeOK, Shape,
         \/ \E c \in Canceller : CancellerStep(c)
         \/ \E p \in Settler : SettlerStep(p)
         \/ \E i \in Id : Expire(i)
         \/ UNCHANGED vars
  PROVE  MemoryStep /\ DispatchStep
<1>1. dispatches' = dispatches
  BY DEF CancellerStep, Cancel, CancelRefused, CancelLatches, CancelSignals, CancelCompletes,
         DropCanceller, SettlerStep, Claim, AlreadySettled, Clear, PublishOutcome, Expire,
         vars, historyVars
<1>2. ASSUME NEW c \in Canceller, CancellerStep(c) PROVE MemoryStep
  <2>1. CASE CancelCompletes(c)
    <3>1. IdOf(canceled[c]) \in Id /\ CompleteInterrupted(IdOf(canceled[c]))
      BY <2>1 DEF CancelCompletes, Shape, Canceling
    <3> QED BY <3>1, CompleteInterruptedMemory
  <2>2. CASE ~CancelCompletes(c)
    <3>1. UNCHANGED <<completed, forgotten>>
      BY <1>2, <2>2 DEF CancellerStep, Cancel, CancelRefused, CancelLatches, CancelSignals,
                        DropCanceller, historyVars, replayVars
    <3> QED BY <3>1 DEF MemoryStep, Remembered
  <2> QED BY <2>1, <2>2
<1>3. ASSUME NEW p \in Settler, SettlerStep(p) PROVE MemoryStep
  <2>1. CASE PublishOutcome(p) /\ target[p] \in Id
    BY <2>1, CompleteInterruptedMemory DEF PublishOutcome
  <2>2. CASE ~(PublishOutcome(p) /\ target[p] \in Id)
    <3>1. UNCHANGED <<completed, forgotten>>
      BY <1>3, <2>2 DEF SettlerStep, Claim, AlreadySettled, Clear, PublishOutcome,
                        historyVars, replayVars
    <3> QED BY <3>1 DEF MemoryStep, Remembered
  <2> QED BY <2>1, <2>2
<1>4. ASSUME NEW i \in Id, Expire(i) PROVE MemoryStep
  <2>1. /\ Remembered(i) /\ completed \in Seq(Memory) /\ completed' = Forget(i)
        /\ forgotten' = forgotten \cup {i}
    BY <1>4 DEF Expire, TypeOK, Memory
  <2> QED BY <2>1, ForgetIds DEF MemoryStep, Remembered
<1>5. ASSUME UNCHANGED vars PROVE MemoryStep
  BY <1>5 DEF vars, replayVars, historyVars, MemoryStep, Remembered
<1>6. MemoryStep
  BY <1>2, <1>3, <1>4, <1>5
<1> QED BY <1>1, <1>6 DEF DispatchStep

\* An id that is accounted for stays accounted for.
LEMMA AccountedStep ==
  ASSUME TypeOK, RegistryStep, MemoryStep, NEW i \in Id, Accounted(i)
  PROVE  Accounted(i)'
<1>1. i \in Key /\ i \notin Request
  BY DEF Key
<1>2. CASE Remembered(i) \/ i \in forgotten
  BY <1>2 DEF MemoryStep, Accounted
<1>3. CASE Present(i)
  <2>1. CASE registry' = registry
    BY <1>3, <2>1 DEF Present, Accounted
  <2>2. ASSUME NEW j \in Key, Leaves(j) PROVE Accounted(i)'
    <3>1. CASE j = i
      BY <1>1, <2>2, <3>1 DEF Leaves, Accounted
    <3>2. CASE j # i
      <4>1. registry' = [registry EXCEPT ![j] = NoEntry]
        BY <2>2 DEF Leaves
      <4> QED BY <1>1, <1>3, <3>2, <4>1 DEF Present, Accounted, TypeOK
    <3> QED BY <3>1, <3>2
  <2>3. ASSUME NEW j \in Key, Changes(j) PROVE Accounted(i)'
    <3>1. PICK s \in States \ {"absent"}, b \in BOOLEAN :
            registry' = [registry EXCEPT ![j] = [of |-> registry[j].of, state |-> s, byCaller |-> b]]
      BY <2>3 DEF Changes, Become
    <3> QED BY <1>1, <1>3, <3>1 DEF Present, TypeOK, States, Accounted
  <2>4. ASSUME NEW q \in Request, NEW j \in Key, NEW s \in {"active", "interrupted"},
               Enters(q, j, s)
        PROVE  Accounted(i)'
    <3>1. registry' = [registry EXCEPT ![j] = [of |-> q, state |-> s, byCaller |-> FALSE]]
      BY <2>4 DEF Enters
    <3> QED BY <1>1, <1>3, <3>1 DEF Present, TypeOK, Accounted
  <2> QED BY <2>1, <2>2, <2>3, <2>4 DEF RegistryStep
<1> QED BY <1>2, <1>3 DEF Accounted

\* What an admission under a call id meets.
LEMMA AdmitMeets ==
  ASSUME TypeOK, OnceInv, NEW r \in Request, NEW q \in Traffic, Admit(r, q), q.id \in Id
  PROVE  /\ Accounted(q.id)' /\ dispatches'[q.id] = 0
         /\ \A s \in Request : Live(s) => IdOf(s) # q.id
<1>1. q.id # NoId /\ q.id \in Key
  BY DEF Key
<1>2. /\ ~Remembered(q.id) /\ ~Present(q.id)
      /\ q.id \in forgotten => ~InUse(q.id)
      /\ registry' = [registry EXCEPT ![q.id] =
                         [of |-> r, state |-> "active", byCaller |-> FALSE]]
      /\ dispatches' = IF q.id \in forgotten
           THEN [dispatches EXCEPT ![q.id] = 0] ELSE dispatches
  BY <1>1 DEF Admit
<1>3. Accounted(q.id)'
  BY <1>1, <1>2 DEF Accounted, Present, TypeOK
<1>4. dispatches'[q.id] = 0
  <2>1. CASE q.id \in forgotten
    BY <1>2, <2>1 DEF TypeOK
  <2>2. CASE q.id \notin forgotten
    <3>1. ~Accounted(q.id) /\ dispatches[q.id] \in Nat
      BY <1>2, <2>2 DEF Accounted, TypeOK
    <3> QED BY <1>2, <2>2, <3>1 DEF OnceInv
  <2> QED BY <2>1, <2>2
<1>5. ASSUME NEW s \in Request, Live(s), IdOf(s) = q.id PROVE FALSE
  <2>1. Accounted(q.id)
    BY <1>1, <1>5 DEF OnceInv
  <2>2. ~InUse(q.id)
    BY <1>2, <2>1 DEF Accounted
  <2> QED BY <1>5, <2>2 DEF InUse, Live
<1> QED BY <1>3, <1>4, <1>5

\* The part of the invariant that speaks of executions is inductive.
LEMMA OnceStep ==
  ASSUME TypeOK, Shape, OnceInv, RegistryStep, ControlStep, MemoryStep, DispatchStep, Asked'
  PROVE  OnceInv'
<1>1. \A i \in Id : Accounted(i) => Accounted(i)'
  BY AccountedStep
\* A handler that is live after the step was live before, or was just admitted.
<1>2. ASSUME NEW s \in Request, Live(s)'
      PROVE  \/ Live(s) /\ IdOf(s)' = IdOf(s)
             \/ \E q \in Traffic : Admit(s, q) /\ IdOf(s)' = q.id
  <2>1. CASE pc[s] = "idle"
    <3>1. PICK q \in Traffic : Admit(s, q)
      BY <1>2, <2>1 DEF ControlStep, Starting
    <3>2. request'[s] = q
      BY <3>1 DEF Admit, Ask, TypeOK
    <3> QED BY <3>1, <3>2 DEF IdOf
  <2>2. CASE pc[s] # "idle"
    BY <1>2, <2>2 DEF ControlStep, Progress, Ending, Live, IdOf
  <2> QED BY <2>1, <2>2
<1>3. ASSUME NEW s \in Request, NEW i \in Id, Live(s)', IdOf(s)' = i
      PROVE  Accounted(i)'
  <2>1. CASE Live(s) /\ IdOf(s)' = IdOf(s)
    BY <1>1, <1>3, <2>1 DEF OnceInv
  <2>2. ASSUME NEW q \in Traffic, Admit(s, q), IdOf(s)' = q.id
        PROVE  Accounted(i)'
    BY <1>3, <2>2, AdmitMeets
  <2> QED BY <1>2, <1>3, <2>1, <2>2
<1>4. ASSUME NEW r \in Request, NEW s \in Request, NEW i \in Id,
             Live(r)', Live(s)', IdOf(r)' = i, IdOf(s)' = i
      PROVE  r = s
  <2>1. ASSUME NEW q \in Traffic, Admit(r, q), IdOf(r)' = q.id, r # s PROVE FALSE
    <3>1. \A t \in Request : Live(t) => IdOf(t) # i
      BY <1>4, <2>1, AdmitMeets
    <3>2. pc'[s] = pc[s] /\ request'[s] = request[s]
      BY <2>1 DEF Admit, Ask, Goto, TypeOK
    <3> QED BY <1>4, <3>1, <3>2 DEF Live, IdOf
  <2>2. ASSUME NEW q \in Traffic, Admit(s, q), IdOf(s)' = q.id, r # s PROVE FALSE
    <3>1. \A t \in Request : Live(t) => IdOf(t) # i
      BY <1>4, <2>2, AdmitMeets
    <3>2. pc'[r] = pc[r] /\ request'[r] = request[r]
      BY <2>2 DEF Admit, Ask, Goto, TypeOK
    <3> QED BY <1>4, <3>1, <3>2 DEF Live, IdOf
  <2>3. CASE Live(r) /\ IdOf(r)' = IdOf(r) /\ Live(s) /\ IdOf(s)' = IdOf(s)
    BY <1>4, <2>3 DEF OnceInv
  <2> QED BY <1>2, <1>4, <2>1, <2>2, <2>3
<1>5. ASSUME NEW s \in Request, NEW i \in Id, pc'[s] \in BeforeRelay, IdOf(s)' = i
      PROVE  dispatches'[i] = 0
  <2>1. Live(s)'
    BY <1>5 DEF Live, BeforeRelay
  <2>2. ASSUME NEW q \in Traffic, Admit(s, q), IdOf(s)' = q.id
        PROVE  dispatches'[i] = 0
    BY <1>5, <2>2, AdmitMeets
  <2>3. CASE Live(s) /\ IdOf(s)' = IdOf(s)
    <3>1. pc[s] \in BeforeRelay /\ IdOf(s) = i
      BY <1>5, <2>3 DEF ControlStep, Starting, Live
    <3>2. dispatches[i] = 0
      BY <3>1 DEF OnceInv
    <3>3. ASSUME NEW r \in Request, pc[r] = "relaying", pc'[r] = "calling", IdOf(r) = i
          PROVE  FALSE
      <4>1. r = s
        BY <2>3, <3>1, <3>3 DEF OnceInv, Live
      <4> QED BY <1>5, <3>3, <4>1 DEF BeforeRelay
    <3> QED BY <3>2, <3>3 DEF DispatchStep
  <2> QED BY <1>2, <2>1, <2>2, <2>3
<1>6. ASSUME NEW i \in Id PROVE dispatches'[i] <= 1 /\ (dispatches'[i] > 0 => Accounted(i)')
  <2>1. CASE dispatches'[i] = dispatches[i]
    BY <1>1, <2>1 DEF OnceInv, AtMostOnce
  <2>2. CASE dispatches'[i] = 0
    BY <2>2
  <2>3. ASSUME NEW r \in Request, pc[r] = "relaying", IdOf(r) = i,
               dispatches'[i] = dispatches[i] + 1
        PROVE  dispatches'[i] <= 1 /\ Accounted(i)'
    <3>1. dispatches[i] = 0 /\ Accounted(i)
      BY <2>3 DEF OnceInv, BeforeRelay, Live
    <3> QED BY <1>1, <2>3, <3>1
  <2> QED BY <2>1, <2>2, <2>3 DEF DispatchStep
<1>7. \A r, s \in Request :
        Live(r)' /\ Live(s)' /\ IdOf(r)' # NoId /\ IdOf(r)' = IdOf(s)' => r = s
  <2> SUFFICES ASSUME NEW r \in Request, NEW s \in Request,
                      Live(r)', Live(s)', IdOf(r)' # NoId, IdOf(r)' = IdOf(s)'
               PROVE  r = s
    OBVIOUS
  <2>1. IdOf(r)' \in Id
    BY DEF Asked, IdOf, Live
  <2> QED BY <1>4, <2>1
<1> QED BY <1>3, <1>5, <1>6, <1>7 DEF OnceInv, AtMostOnce

-----------------------------------------------------------------------------
(* The theorems.                                                           *)

Inv == TypeOK /\ Shape /\ OwnerInv /\ OnceInv

\* The invariant holds initially ...
LEMMA InitInv == Init => Inv
<1> SUFFICES ASSUME Init PROVE Inv
  OBVIOUS
<1>1. NoTraffic \in Traffic \cup {NoTraffic} /\ NoEntry \in Entries
  BY DEF Entries, NoEntry
<1>2. completed \in Seq(Memory) /\ Len(completed) <= CacheSize
  BY DEF Init
<1>3. TypeOK
  BY <1>1, <1>2 DEF Init, TypeOK, Memory, Key
<1>4. \A k \in Key : ~Present(k) /\ ~Interrupted(k)
  BY DEF Init, Present, Interrupted, NoEntry
<1>5. Shape
  BY <1>4 DEF Init, Shape, Entry, Asked, Answerable, Canceling, Staged, Settler
<1>6. OwnerInv
  BY <1>4 DEF Init, OwnerInv, Held, Unbound, Unregistered, FreeOfOthers, Holding, Key
<1>7. OnceInv
  BY DEF Init, OnceInv, Live, BeforeRelay, AtMostOnce
<1> QED BY <1>3, <1>5, <1>6, <1>7 DEF Inv

\* ... is kept by steps that change nothing ...
LEMMA StutterInv ==
  ASSUME Inv, UNCHANGED vars
  PROVE  Inv'
<1>1. UNCHANGED <<lock, request, pc, bound, signal, outcome, answer, registry, completed,
                  cpc, canceled, stage, target, latched, observation, revoked, dispatches,
                  forgotten, reobserved, lifted>>
  BY DEF vars, handlerVars, replayVars, cancelVars, settleVars, authorityVars, historyVars
<1>2. TypeOK'
  BY <1>1 DEF Inv, TypeOK
<1>3. Shape'
  BY <1>1 DEF Inv, Shape, Entry, Asked, Answerable, Canceling, Staged, Present, KeyOf, IdOf
<1>4. OwnerInv'
  BY <1>1 DEF Inv, OwnerInv, Held, Unbound, Unregistered, FreeOfOthers, OtherComputerOwners,
              Present, Interrupted, Computer, Method, KeyOf, IdOf
<1>5. OnceInv'
  BY <1>1 DEF Inv, OnceInv, Live, IdOf, Accounted, Present, Remembered, IdsIn, AtMostOnce
<1> QED BY <1>2, <1>3, <1>4, <1>5 DEF Inv

\* ... and by every step of every task.
LEMMA StepInv == Inv /\ [Next]_vars => Inv'
<1> SUFFICES ASSUME Inv, [Next]_vars PROVE Inv'
  OBVIOUS
<1>1. TypeOK /\ Shape /\ OwnerInv /\ OnceInv
  BY DEF Inv
<1>2. CASE UNCHANGED vars
  BY <1>2, StutterInv
<1>3. ASSUME TypeOK', ControlStep, ControlInv', RegistryStep, CancelStep, MemoryStep, DispatchStep
      PROVE  Inv'
  <2>1. Shape'
    BY <1>1, <1>3, EntryStep, CancelingStep DEF Shape, ControlStep, ControlInv
  <2>2. OwnerInv'
    BY <1>1, <1>3, UnregisteredStep, FreeOfOthersStep DEF OwnerInv, ControlInv
  <2>3. OnceInv'
    BY <1>1, <1>3, OnceStep DEF ControlInv
  <2> QED BY <1>3, <2>1, <2>2, <2>3 DEF Inv
<1>4. ASSUME NEW r \in Request, HandlerStep(r) PROVE Inv'
  BY <1>1, <1>3, <1>4, HandlerType, HandlerControl, HandlerRegistryStep, HandlerCancels,
     HandlerMemory
<1>5. CASE \/ \E c \in Canceller : CancellerStep(c)
           \/ \E p \in Settler : SettlerStep(p)
           \/ \E i \in Id : Expire(i)
  <2>1. CancelStep
    BY <1>1, <1>5, CancellerCancels, SettlerCancels, ExpireCancels DEF Shape, Canceling
  <2>2. TypeOK' /\ ControlStep /\ ControlInv'
    BY <1>1, <1>5, OtherType, OtherControl
  <2>3. RegistryStep /\ MemoryStep /\ DispatchStep
    BY <1>1, <1>5, OtherRegistryStep, OtherMemory
  <2> QED BY <1>3, <2>1, <2>2, <2>3
<1>6. CASE Idle
  BY <1>6, StutterInv DEF Idle
<1> QED BY <1>2, <1>4, <1>5, <1>6 DEF Next

\* So it holds always.
LEMMA AlwaysInv == Spec => []Inv
BY InitInv, StepInv, PTL DEF Spec

\* Every variable stays in its type: the memory never holds more outcomes than
\* CacheSize, and every entry, target and answer is one the code can produce.
THEOREM TypeCorrect == Spec => []TypeOK
<1>1. Inv => TypeOK
  BY DEF Inv
<1> QED BY <1>1, AlwaysInv, PTL

\* A computer command uses the published frame and pointer authority only while
\* no other call, running or interrupted, owns the computer.
THEOREM ComputerOwnedAlone == Spec => []OwnsComputerAlone
<1>1. Inv => OwnsComputerAlone
  BY DEF Inv, OwnerInv, FreeOfOthers, OwnsComputerAlone, Holding
<1> QED BY <1>1, AlwaysInv, PTL

\* A call id is executed at most once while its outcome is in flight or
\* remembered.
THEOREM ExecutedOnce == Spec => []AtMostOnce
<1>1. Inv => AtMostOnce
  BY DEF Inv, OnceInv
<1> QED BY <1>1, AlwaysInv, PTL
=============================================================================
