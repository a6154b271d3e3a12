------------------- MODULE CommandReplay_settlement_proofs -------------------
(***************************************************************************)
(* Who settles a call of CommandReplay, and what everybody is told of it:  *)
(* one call, one outcome.                                                  *)
(***************************************************************************)
EXTENDS CommandReplay_proofs

USE RequestAssumption, TrafficAssumption, CacheAssumption

-----------------------------------------------------------------------------
(* The inductive invariant.                                                *)

\* The remembered outcomes, whatever their order.
Elements(m) == {m[n] : n \in DOMAIN m}
Outcomes == Elements(completed)

\* A cancellation was accepted for r.
Blamed(r) == \E c \in Canceller : canceled[c] = r

\* What the registry and the memory say of the call id of r is said of r.
Mine(r) ==
  /\ Present(IdOf(r)) => registry[IdOf(r)].of = r
  /\ \A x \in Outcomes : x.id = IdOf(r) => x.of = r

\* Some task is not done with r: its handler, a canceller, its cleanup task.
Undecided == {"latching", "signalling", "completing", "settling"}
Attended(r) ==
  \/ Live(r)
  \/ \E c \in Canceller : canceled[c] = r /\ cpc[c] \in Undecided
  \/ stage[<<"task", r>>] # "off"

Ownership == \A r \in Request : Attended(r) /\ IdOf(r) \in Id => Mine(r)

\* A call id has one outcome, of a call made under it, and none while the call
\* is in flight.
Records ==
  /\ \A x, y \in Outcomes : x.id = y.id => x = y
  /\ \A x \in Outcomes : pc[x.of] # "idle" /\ IdOf(x.of) = x.id
  /\ \A i \in Id : Present(i) => ~Remembered(i)

\* An id that somebody means to settle is accounted for.
Pending ==
  /\ \A p \in Settler : target[p] \in Id => Accounted(target[p])
  /\ \A c \in Canceller : canceled[c] # NoRequest => Accounted(IdOf(canceled[c]))

\* A handler settles its own call at its end, and other computer calls before it
\* reads the authority; once dropped it runs no settlement any more.
HandlerSettles(r) ==
  LET p     == <<"handler", r>>
      owner == registry[target[p]].of
  IN  stage[p] # "off" =>
        /\ pc[r] \in {"settling unregistered", "settling registered", "settling",
                      "fencing", "unwinding"}
        /\ pc[r] = "settling" => target[p] = IdOf(r)
        /\ Settling(r) /\ Present(target[p]) => Computer(owner) /\ bound[owner]

CancellerSettles(c) ==
  LET p == <<"canceller", c>>
  IN  /\ canceled[c] # NoRequest <=> cpc[c] \notin {"idle", "refused"}
      /\ stage[p] # "off" <=> cpc[c] = "settling"
      /\ stage[p] # "off" => target[p] = IdOf(canceled[c])

TaskSettles(r) ==
  LET p == <<"task", r>>
  IN  stage[p] # "off" => target[p] = KeyOf(r) /\ pc[r] \in {"unwinding", "gone"}

Settlers ==
  /\ \A r \in Request : HandlerSettles(r) /\ TaskSettles(r)
  /\ \A c \in Canceller : CancellerSettles(c)

\* An entry is blamed on its caller exactly if a cancellation was accepted for
\* it; otherwise only its own dropped handler interrupts it.
Interruption(i) ==
  LET e == registry[i]
  IN  Present(i) =>
        /\ pc[e.of] # "done"
        /\ pc[e.of] = "settling" => Interrupted(i)
        /\ e.byCaller <=> Blamed(e.of)
        /\ e.byCaller => Interrupted(i)
        /\ Interrupted(i) /\ ~e.byCaller => pc[e.of] \in {"fencing", "unwinding", "gone"}

Interruptions == \A i \in Id : Interruption(i)

\* One settler at a time has claimed the entry of a call id.
Claims(p, i) == stage[p] \in {"clearing", "publishing"} /\ target[p] = i

Claimed ==
  \A i \in Id :
    /\ Present(i) => \A p \in Settler : Claims(p, i) => registry[i].state = "claimed"
    /\ \A p, q \in Settler : Claims(p, i) /\ Claims(q, i) => p = q

\* OneOutcome, of the outcomes as a set.
OneStory ==
  \A x \in Outcomes :
    /\ pc[x.of] = "done" => answer[x.of] = x.response
    /\ Blamed(x.of) => x.response = "canceled"

SettleInv ==
  /\ Records /\ Ownership /\ Pending /\ Settlers /\ Interruptions /\ Claimed /\ OneStory

-----------------------------------------------------------------------------
(* What one step does, and by which action.                                *)

\* An entry under a call id enters by an admission, is canceled, changes hands
\* or leaves.
EntryMoves ==
  \A i \in Id :
    \/ registry'[i] = registry[i]
    \/ \E r \in Request, q \in Traffic : Admit(r, q) /\ q.id = i
    \/ \E c \in Canceller : Cancel(c, i)
    \/ Present(i) /\ ~Present(i)'
    \/ /\ Present(i) /\ Interrupted(i)' /\ registry'[i].of = registry[i].of
       /\ registry'[i].byCaller = registry[i].byCaller
       /\ \/ Interrupted(i)
          \/ \E r \in Request : IdOf(r) = i /\ Live(r) /\ pc'[r] = "fencing"
       /\ registry[i].state = "claimed" /\ registry'[i].state # "claimed" =>
            \E p \in Settler : Claims(p, i) /\ stage'[p] = "off"

\* The outcome of the entry of i, with the given response.
RecordOf(i, response) ==
  [id |-> i, method |-> Method(registry[i].of), response |-> response,
   of |-> registry[i].of]

\* Some task completes what was interrupted.
CompletesInterrupted(i) ==
  /\ Interrupted(i)
  /\ \/ \E r \in Request : FenceUnbound(r) /\ IdOf(r) = i
     \/ \E c \in Canceller : CancelCompletes(c) /\ IdOf(canceled[c]) = i
     \/ \E p \in Settler : PublishOutcome(p) /\ target[p] = i

\* The entry of i leaves with a response.
Ends(i, response) ==
  /\ Present(i) /\ ~Present(i)'
  /\ \/ \E r \in Request : Complete(r) /\ IdOf(r) = i /\ ~Interrupted(i) /\ response = outcome[r]
     \/ CompletesInterrupted(i) /\ response = SyntheticFor(i)

RecordMoves ==
  \/ Outcomes' \subseteq Outcomes
  \/ \E i \in Id, response \in Responses :
       Ends(i, response) /\ Outcomes' \subseteq Outcomes \cup {RecordOf(i, response)}

AnswerMoves ==
  \A r \in Request :
    \/ answer'[r] = answer[r] /\ (pc'[r] = "done" => pc[r] = "done")
    \/ pc[r] = "idle"
    \/ Complete(r)
    \/ /\ pc[r] = "settling"
       /\ AlreadySettled(<<"handler", r>>) \/ PublishOutcome(<<"handler", r>>)

CancellerMoves ==
  \A c \in Canceller :
    \/ \E i \in Id : Cancel(c, i)
    \/ /\ canceled'[c] = canceled[c]
       /\ \/ /\ cpc'[c] = cpc[c]
             /\ stage'[<<"canceller", c>>] = "off" <=> stage[<<"canceller", c>>] = "off"
          \/ \E i \in Id : CancelRefused(c, i)
          \/ CancelLatches(c) \/ CancelSignals(c) \/ CancelCompletes(c) \/ DropCanceller(c)
          \/ AlreadySettled(<<"canceller", c>>) \/ PublishOutcome(<<"canceller", c>>)

StageMoves ==
  \A p \in Settler :
    \/ stage'[p] = stage[p] /\ target'[p] = target[p]
    \/ stage'[p] = "off" /\ target'[p] = NoId
    \/ Claim(p) \/ Clear(p)
    \/ \E r \in Request, k \in Key : p = <<"handler", r>> /\ HelpSettle(r, k)
    \/ \E r \in Request : p = <<"handler", r>> /\ AwaitSettlement(r)
    \/ \E r \in Request : p = <<"task", r>> /\ FenceBound(r)
    \/ \E c \in Canceller : p = <<"canceller", c>> /\ CancelSignals(c) /\ bound[canceled[c]]

\* A handler that settles something stays where it is, or is dropped.
PlaceMoves ==
  \A r \in Request :
    /\ pc'[r] = "settling" => pc[r] = "settling" \/ AwaitSettlement(r)
    /\ pc[r] = "fencing" => pc'[r] \in {"fencing", "unwinding"}
    /\ stage[<<"handler", r>>] # "off" /\ stage'[<<"handler", r>>] # "off" =>
         \/ pc'[r] = pc[r]
         \/ pc[r] # "settling" /\ pc'[r] \in {"fencing", "unwinding"}

BindMoves == \A r \in Request : bound'[r] = bound[r] \/ Bind(r)

Moves ==
  /\ EntryMoves /\ RecordMoves /\ AnswerMoves /\ CancellerMoves
  /\ StageMoves /\ PlaceMoves /\ BindMoves

-----------------------------------------------------------------------------
(* Lemmas about the memory as a set.                                       *)

\* What is appended is the only new element.
LEMMA AppendElements ==
  ASSUME NEW m \in Seq(Memory), NEW x \in Memory
  PROVE  Elements(Append(m, x)) \subseteq Elements(m) \cup {x}
<1> DEFINE a == Append(m, x)
<1>1. /\ DOMAIN a = 1..(Len(m) + 1) /\ DOMAIN m = 1..Len(m) /\ Len(m) \in Nat
      /\ a[Len(m) + 1] = x /\ \A n \in 1..Len(m) : a[n] = m[n]
  OBVIOUS
<1> HIDE DEF a
<1>2. ASSUME NEW n \in DOMAIN a PROVE a[n] \in Elements(m) \cup {x}
  <2>1. CASE n = Len(m) + 1
    BY <1>1, <2>1
  <2>2. CASE n # Len(m) + 1
    <3>1. n \in DOMAIN m /\ a[n] = m[n]
      BY <1>1, <2>2
    <3> QED BY <3>1 DEF Elements
  <2> QED BY <2>1, <2>2
<1> QED BY <1>2, Zenon DEF a, Elements

\* A part of a sequence has no elements of its own.
LEMMA PartElements ==
  ASSUME NEW m \in Seq(Memory), NEW a \in 1..(Len(m) + 1), NEW b \in 0..Len(m)
  PROVE  Elements(SubSeq(m, a, b)) \subseteq Elements(m)
<1> DEFINE part == SubSeq(m, a, b)
<1>1. \A n \in DOMAIN part : a + n - 1 \in DOMAIN m /\ part[n] = m[a + n - 1]
  OBVIOUS
<1> HIDE DEF part
<1>2. ASSUME NEW n \in DOMAIN part PROVE part[n] \in Elements(m)
  BY <1>1, Zenon DEF Elements
<1> QED BY <1>2, Zenon DEF part, Elements

\* Nor have two sequences together.
LEMMA ConcatElements ==
  ASSUME NEW s \in Seq(Memory), NEW t \in Seq(Memory)
  PROVE  Elements(s \o t) \subseteq Elements(s) \cup Elements(t)
<1> DEFINE u == s \o t
<1>1. /\ DOMAIN s = 1..Len(s) /\ DOMAIN t = 1..Len(t) /\ DOMAIN u = 1..(Len(s) + Len(t))
      /\ Len(s) \in Nat /\ Len(t) \in Nat
      /\ \A n \in 1..Len(s) : u[n] = s[n]
      /\ \A n \in (Len(s) + 1)..(Len(s) + Len(t)) : u[n] = t[n - Len(s)]
  OBVIOUS
<1> HIDE DEF u
<1>2. ASSUME NEW n \in DOMAIN u PROVE u[n] \in Elements(s) \cup Elements(t)
  <2>1. CASE n \in 1..Len(s)
    BY <1>1, <2>1 DEF Elements
  <2>2. CASE n \notin 1..Len(s)
    <3>1. n - Len(s) \in DOMAIN t /\ u[n] = t[n - Len(s)]
      BY <1>1, <2>2
    <3> QED BY <3>1 DEF Elements
  <2> QED BY <2>1, <2>2
<1> QED BY <1>2, Zenon DEF u, Elements

\* Forgetting an outcome and making room invent none.
LEMMA ForgetOutcomes ==
  ASSUME completed \in Seq(Memory), NEW i, Remembered(i)
  PROVE  Forget(i) \in Seq(Memory) /\ Elements(Forget(i)) \subseteq Outcomes
<1> DEFINE n == PlaceOf(i)
<1>1. n \in 1..Len(completed) /\ Len(completed) \in Nat
  BY PlaceInMemory
<1>2. Forget(i) = SubSeq(completed, 1, n - 1) \o SubSeq(completed, n + 1, Len(completed))
  BY DEF Forget
<1> HIDE DEF n
<1>3. /\ SubSeq(completed, 1, n - 1) \in Seq(Memory)
      /\ SubSeq(completed, n + 1, Len(completed)) \in Seq(Memory)
  BY <1>1
<1>4. /\ Elements(SubSeq(completed, 1, n - 1)) \subseteq Outcomes
      /\ Elements(SubSeq(completed, n + 1, Len(completed))) \subseteq Outcomes
  BY <1>1, PartElements DEF Outcomes
<1>5. Elements(Forget(i)) \subseteq Outcomes
  BY <1>2, <1>3, <1>4, ConcatElements
<1> QED BY <1>2, <1>3, <1>5

\* Making room keeps some of the outcomes.
LEMMA RoomOutcomes ==
  ASSUME completed \in Seq(Memory), Len(completed) <= CacheSize
  PROVE  Elements(MakeRoom(completed)) \subseteq Outcomes
<1>1. CASE Len(completed) < CacheSize
  BY <1>1 DEF MakeRoom, Outcomes
<1>2. CASE Len(completed) = CacheSize
  <2>1. MakeRoom(completed) = SubSeq(completed, 2, Len(completed))
    BY <1>2 DEF MakeRoom
  <2>2. 2 \in 1..(Len(completed) + 1) /\ Len(completed) \in 0..Len(completed)
    BY <1>2
  <2> QED BY <2>1, <2>2, PartElements DEF Outcomes
<1> QED BY <1>1, <1>2

\* The outcome of a remembered id is one of the remembered outcomes.
LEMMA RememberedOutcome ==
  ASSUME TypeOK, NEW i
  PROVE  /\ Remembered(i) <=> \E x \in Outcomes : x.id = i
         /\ Remembered(i) => OutcomeOf(i) \in Outcomes /\ OutcomeOf(i).id = i
<1>1. completed \in Seq(Memory)
  BY DEF TypeOK, Memory
<1>2. Remembered(i) <=> \E x \in Outcomes : x.id = i
  BY Zenon DEF Remembered, IdsIn, Outcomes, Elements
<1>3. ASSUME Remembered(i) PROVE OutcomeOf(i) \in Outcomes /\ OutcomeOf(i).id = i
  <2>1. PlaceOf(i) \in DOMAIN completed /\ OutcomeOf(i).id = i
    BY <1>1, <1>3, PlaceInMemory
  <2> QED BY <2>1, Zenon DEF OutcomeOf, Outcomes, Elements
<1> QED BY <1>2, <1>3

\* A remembered outcome is well typed.
LEMMA OutcomeType ==
  ASSUME TypeOK, NEW x \in Outcomes
  PROVE  x \in Memory
<1>1. completed \in Seq(Memory)
  BY DEF TypeOK, Memory
<1>2. PICK n \in DOMAIN completed : x = completed[n]
  BY Zenon DEF Outcomes, Elements
<1> QED BY <1>1, <1>2

\* Storing an outcome adds its record and no other.
LEMMA StoreOutcomes ==
  ASSUME Inv, NEW i \in Id, NEW response \in Responses, Present(i), Store(i, response)
  PROVE  /\ Outcomes' \subseteq Outcomes \cup {RecordOf(i, response)}
         /\ ~Present(i)' /\ \A k \in Key \ {i} : registry'[k] = registry[k]
<1>1. RecordOf(i, response) \in Memory
  BY EntryType DEF Inv, Key, Memory, RecordOf
<1>2. completed \in Seq(Memory) /\ Len(completed) <= CacheSize
  BY DEF Inv, TypeOK, Memory
<1>3. MakeRoom(completed) \in Seq(Memory)
  BY <1>2, RoomType
<1>4. completed' = Append(MakeRoom(completed), RecordOf(i, response))
  BY DEF Store, RecordOf
<1>5. Outcomes' \subseteq Outcomes \cup {RecordOf(i, response)}
  <2>1. Outcomes' = Elements(completed')
    BY DEF Outcomes, Elements
  <2> QED BY <1>1, <1>2, <1>3, <1>4, <2>1, AppendElements, RoomOutcomes
<1>6. registry' = [registry EXCEPT ![i] = NoEntry] /\ i \in Key
  BY DEF Store, Key
<1>7. ~Present(i)' /\ \A k \in Key \ {i} : registry'[k] = registry[k]
  BY <1>6 DEF Present, NoEntry, Inv, TypeOK
<1> QED BY <1>5, <1>7

-----------------------------------------------------------------------------
(* Every step is one of Moves.                                             *)

\* The tasks that may settle for a request or a canceller.
LEMMA SettlersOf ==
  /\ \A r \in Request : <<"handler", r>> \in Settler /\ <<"task", r>> \in Settler
  /\ \A c \in Canceller : <<"canceller", c>> \in Settler
  BY DEF Settler

\* A handler works under the action lock and leaves everybody else alone.
Quiet(r) ==
  /\ UNCHANGED <<request, bound, signal, answer, registry, completed, cpc, canceled, stage, target>>
  /\ \A s \in Request \ {r} : pc'[s] = pc[s]
  /\ pc[r] \in Holding \cup {"queued"} /\ pc'[r] \in Holding \cup {"acted"}
  /\ Settling(r) => stage[<<"handler", r>>] = "off"

\* The actions under the action lock that are quiet.
LEMMA QuietActions ==
  ASSUME TypeOK, NEW r \in Request,
         \/ AcquireLock(r) \/ PriorSettled(r) \/ ReadAuthority(r) \/ Refuse(r)
         \/ BindRefused(r) \/ Relay(r) \/ Publish(r) \/ Recover(r) \/ Quarantine(r)
         \/ WithdrawOwn(r) \/ Logged(r)
         \/ \E result \in {"ok", "failed", "unknown"} :
              CallReturns(r, result) \/ FollowUpReturns(r, result)
  PROVE  Quiet(r)
<1>1. CASE \/ AcquireLock(r) \/ PriorSettled(r) \/ ReadAuthority(r)
  BY <1>1 DEF AcquireLock, PriorSettled, ReadAuthority, Goto, Quiet, Holding, Settling, TypeOK,
              replayVars, cancelVars, settleVars
<1>2. CASE \/ Refuse(r) \/ BindRefused(r) \/ Relay(r)
  BY <1>2 DEF Refuse, BindRefused, Relay, Finish, Goto, Quiet, Holding, Settling, TypeOK,
              replayVars, cancelVars, settleVars
<1>3. CASE Publish(r)
  <2>1. pc' = [pc EXCEPT ![r] = "recovering"] \/ pc' = [pc EXCEPT ![r] = "logging"]
    BY <1>3 DEF Publish, Log, Goto
  <2>2. /\ UNCHANGED <<request, bound, signal, answer, registry, completed, cpc, canceled, stage, target>>
        /\ pc[r] = "publishing"
    BY <1>3 DEF Publish, replayVars, cancelVars, settleVars
  <2> QED BY <2>1, <2>2 DEF Quiet, Holding, Settling, TypeOK
<1>4. CASE Recover(r) \/ Quarantine(r) \/ WithdrawOwn(r) \/ Logged(r)
  BY <1>4 DEF Recover, Quarantine, WithdrawOwn, Logged, Log, Finish, Goto, Quiet, Holding, Settling, TypeOK,
              replayVars, cancelVars, settleVars
<1>5. ASSUME NEW result \in {"ok", "failed", "unknown"},
             CallReturns(r, result) \/ FollowUpReturns(r, result)
      PROVE  Quiet(r)
  <2>1. PICK where \in Holding : pc' = [pc EXCEPT ![r] = where]
    BY <1>5, ReturnMoves DEF Log, Goto, Holding
  <2>2. /\ UNCHANGED <<request, bound, signal, answer, registry, completed, cpc, canceled, stage, target>>
        /\ pc[r] \in {"calling", "following"}
    BY <1>5 DEF CallReturns, FollowUpReturns, replayVars, cancelVars, settleVars
  <2> QED BY <2>1, <2>2 DEF Quiet, Holding, Settling, TypeOK
<1> QED BY <1>1, <1>2, <1>3, <1>4, <1>5

\* A quiet step is one of Moves.
LEMMA QuietMoves ==
  ASSUME Inv, SettleInv, NEW r \in Request, Quiet(r)
  PROVE  Moves
<1>1. EntryMoves /\ RecordMoves /\ AnswerMoves /\ CancellerMoves /\ StageMoves /\ BindMoves
  <2>1. EntryMoves
    BY DEF Quiet, EntryMoves
  <2>2. RecordMoves
    BY DEF Quiet, RecordMoves, Outcomes, Elements
  <2>3. AnswerMoves
    BY DEF Quiet, AnswerMoves, Holding
  <2>4. CancellerMoves /\ StageMoves /\ BindMoves
    BY DEF Quiet, CancellerMoves, StageMoves, BindMoves
  <2> QED BY <2>1, <2>2, <2>3, <2>4
<1>2. stage[<<"handler", r>>] = "off"
  BY DEF Quiet, SettleInv, Settlers, HandlerSettles, Holding, Settling
<1>3. PlaceMoves
  BY <1>2 DEF Quiet, PlaceMoves, Holding
<1> QED BY <1>1, <1>3 DEF Moves

\* A handler is admitted or answered at once.
LEMMA ArriveMovesAll ==
  ASSUME Inv, SettleInv, NEW r \in Request, Arrive(r)
  PROVE  Moves
<1>1. PICK q \in Traffic : \/ Admit(r, q) \/ Replay(r, q)
                          \/ RefuseDuplicate(r, q) \/ RefuseReuse(r, q)
  BY DEF Arrive
<1>2. TypeOK
  BY DEF Inv
<1>3. /\ pc[r] = "idle"
      /\ pc' = [pc EXCEPT ![r] = "queued"] \/ pc' = [pc EXCEPT ![r] = "done"]
      /\ UNCHANGED <<bound, cpc, canceled, stage, target>>
  BY <1>1, <1>2, ArriveMoves DEF cancelVars, settleVars
<1>4. CancellerMoves /\ StageMoves /\ BindMoves
  BY <1>3 DEF CancellerMoves, StageMoves, BindMoves
<1>5. pc[r] = "idle" /\ \A s \in Request \ {r} : pc'[s] = pc[s]
  BY <1>1, <1>2, ArriveMoves DEF TypeOK
<1>6. \A s \in Request \ {r} : answer'[s] = answer[s]
  BY <1>1, <1>2 DEF Admit, Replay, RefuseDuplicate, RefuseReuse, AnswerAtOnce, TypeOK
<1>7. AnswerMoves
  BY <1>5, <1>6 DEF AnswerMoves
<1>8. PlaceMoves
  <2>1. pc'[r] # "settling" /\ stage[<<"handler", r>>] = "off"
    BY <1>2, <1>3, <1>5 DEF TypeOK, SettleInv, Settlers, HandlerSettles
  <2> QED BY <1>5, <2>1 DEF PlaceMoves
<1>9. EntryMoves
  <2>1. CASE Admit(r, q)
    <3>1. CASE q.id = NoId
      BY <2>1, <3>1 DEF Admit, EntryMoves
    <3>2. CASE q.id # NoId
      <4>1. \A i \in Id : i # q.id => registry'[i] = registry[i]
        BY <2>1, <3>2, <1>2 DEF Admit, TypeOK, Key
      <4> QED BY <2>1, <4>1 DEF EntryMoves
    <3> QED BY <3>1, <3>2
  <2>2. CASE Replay(r, q) \/ RefuseDuplicate(r, q) \/ RefuseReuse(r, q)
    BY <2>2 DEF Replay, RefuseDuplicate, RefuseReuse, AnswerAtOnce, EntryMoves
  <2> QED BY <1>1, <2>1, <2>2
<1>10. RecordMoves
  <2>1. CASE Replay(r, q)
    <3>1. Remembered(q.id) /\ completed' = Append(Forget(q.id), OutcomeOf(q.id))
      BY <2>1 DEF Replay
    <3>2. completed \in Seq(Memory)
      BY <1>2 DEF TypeOK, Memory
    <3>3. OutcomeOf(q.id) \in Memory /\ OutcomeOf(q.id) \in Outcomes
      BY <1>2, <3>1, RememberedOutcome, OutcomeType
    <3>4. Elements(completed') \subseteq Outcomes
      BY <3>1, <3>2, <3>3, ForgetOutcomes, AppendElements
    <3> QED BY <3>4 DEF RecordMoves, Outcomes, Elements
  <2>2. CASE Admit(r, q) \/ RefuseDuplicate(r, q) \/ RefuseReuse(r, q)
    BY <2>2 DEF Admit, RefuseDuplicate, RefuseReuse, RecordMoves, Outcomes, Elements
  <2> QED BY <1>1, <2>1, <2>2
<1> QED BY <1>4, <1>7, <1>8, <1>9, <1>10 DEF Moves

\* A handler becomes an owner, or begins to settle something.
LEMMA BindAllMoves ==
  ASSUME Inv, SettleInv, NEW r \in Request, Bind(r)
  PROVE  Moves
<1>1. TypeOK
  BY DEF Inv
<1>2. /\ pc[r] = "binding" /\ pc'[r] = "relaying" /\ \A s \in Request \ {r} : pc'[s] = pc[s]
      /\ \A s \in Request \ {r} : bound'[s] = bound[s]
      /\ UNCHANGED <<answer, completed, cpc, canceled, stage, target>>
  BY <1>1 DEF Bind, Goto, TypeOK, cancelVars, settleVars
<1>3. \A i \in Id : registry'[i] = registry[i]
  BY <1>1 DEF Bind, TypeOK, Key
<1>4. EntryMoves /\ RecordMoves /\ AnswerMoves /\ CancellerMoves /\ StageMoves /\ BindMoves
  <2>1. EntryMoves
    BY <1>3 DEF EntryMoves
  <2>2. RecordMoves
    BY <1>2 DEF RecordMoves, Outcomes, Elements
  <2>3. AnswerMoves
    BY <1>2 DEF AnswerMoves
  <2>4. CancellerMoves /\ StageMoves
    BY <1>2 DEF CancellerMoves, StageMoves
  <2>5. BindMoves
    BY <1>2 DEF BindMoves
  <2> QED BY <2>1, <2>2, <2>3, <2>4, <2>5
<1>5. stage[<<"handler", r>>] = "off"
  BY <1>2 DEF SettleInv, Settlers, HandlerSettles
<1>6. PlaceMoves
  BY <1>2, <1>5 DEF PlaceMoves
<1> QED BY <1>4, <1>6 DEF Moves

\* A handler helps settle an earlier call.
LEMMA HelpSettleMoves ==
  ASSUME Inv, SettleInv, NEW r \in Request, NEW k \in Key, HelpSettle(r, k)
  PROVE  Moves
<1>1. TypeOK
  BY DEF Inv
<1>2. /\ UNCHANGED <<pc, bound, answer, registry, completed, cpc, canceled>>
      /\ Settling(r)
      /\ \A p \in Settler \ {<<"handler", r>>} : stage'[p] = stage[p] /\ target'[p] = target[p]
  BY <1>1 DEF HelpSettle, TypeOK, handlerVars, replayVars, cancelVars
<1>3. EntryMoves /\ AnswerMoves /\ CancellerMoves /\ BindMoves
  BY <1>2, SettlersOf DEF EntryMoves, AnswerMoves, CancellerMoves, BindMoves
<1>4. RecordMoves
  BY <1>2 DEF RecordMoves, Outcomes, Elements
<1>5. StageMoves
  BY <1>2 DEF StageMoves
<1>6. PlaceMoves
  BY <1>2 DEF PlaceMoves, Settling
<1> QED BY <1>3, <1>4, <1>5, <1>6 DEF Moves

\* A handler whose call was interrupted settles it before it answers.
LEMMA AwaitSettlementMoves ==
  ASSUME Inv, SettleInv, NEW r \in Request, AwaitSettlement(r)
  PROVE  Moves
<1>1. TypeOK
  BY DEF Inv
<1>2. /\ UNCHANGED <<bound, answer, registry, completed, cpc, canceled>>
      /\ pc[r] = "acted" /\ pc'[r] = "settling" /\ \A s \in Request \ {r} : pc'[s] = pc[s]
      /\ \A p \in Settler \ {<<"handler", r>>} : stage'[p] = stage[p] /\ target'[p] = target[p]
  BY <1>1 DEF AwaitSettlement, Goto, TypeOK, replayVars, cancelVars
<1>3. EntryMoves /\ AnswerMoves /\ CancellerMoves /\ BindMoves
  BY <1>2, SettlersOf DEF EntryMoves, AnswerMoves, CancellerMoves, BindMoves
<1>4. RecordMoves
  BY <1>2 DEF RecordMoves, Outcomes, Elements
<1>5. StageMoves
  BY <1>2 DEF StageMoves
<1>6. PlaceMoves
  <2>1. stage[<<"handler", r>>] = "off"
    BY <1>2 DEF SettleInv, Settlers, HandlerSettles
  <2> QED BY <1>2, <2>1 DEF PlaceMoves
<1> QED BY <1>3, <1>4, <1>5, <1>6 DEF Moves

\* A settler that is dropped gives its claim back.
LEMMA ReleaseMoves ==
  ASSUME Inv, NEW p \in Settler, ReleaseClaim(p)
  PROVE  /\ EntryMoves /\ StageMoves
         /\ stage'[p] = "off" /\ \A q \in Settler \ {p} : stage'[q] = stage[q]
<1>1. TypeOK /\ Staged
  BY DEF Inv, Shape
<1>2. /\ stage'[p] = "off" /\ target'[p] = NoId
      /\ \A q \in Settler \ {p} : stage'[q] = stage[q] /\ target'[q] = target[q]
  BY <1>1 DEF ReleaseClaim, TypeOK
<1>3. StageMoves
  BY <1>2 DEF StageMoves
<1>4. ASSUME NEW i \in Id, registry'[i] # registry[i]
      PROVE  /\ Present(i) /\ Interrupted(i) /\ Interrupted(i)' /\ registry'[i].of = registry[i].of
             /\ registry'[i].byCaller = registry[i].byCaller
             /\ Claims(p, i)
  <2>1. /\ stage[p] \in {"clearing", "publishing"} /\ registry[target[p]].state = "claimed"
        /\ registry' = Become(target[p], "interrupted", registry[target[p]].byCaller)
    BY <1>4 DEF ReleaseClaim
  <2>2. target[p] \in Key /\ i \in Key
    BY <1>1, <2>1 DEF Staged, TypeOK, Key
  <2>3. target[p] = i
    BY <1>1, <1>4, <2>1, <2>2 DEF Become, TypeOK
  <2>4. registry'[i] = [of |-> registry[i].of, state |-> "interrupted",
                        byCaller |-> registry[i].byCaller]
    BY <1>1, <2>1, <2>2, <2>3 DEF Become, TypeOK
  <2> QED BY <2>1, <2>3, <2>4 DEF Present, Interrupted, Claims
<1>5. EntryMoves
  BY <1>2, <1>4 DEF EntryMoves
<1> QED BY <1>2, <1>3, <1>5

\* A handler that is canceled, or dropped, gives its claim back.
LEMMA SeeCancelMoves ==
  ASSUME Inv, SettleInv, NEW r \in Request, SeeCancel(r) \/ Unwind(r)
  PROVE  Moves
<1>1. TypeOK
  BY DEF Inv
<1>2. /\ UNCHANGED <<bound, answer, completed, cpc, canceled>>
      /\ pc[r] \in Waiting \cup {"unwinding"} /\ pc'[r] \in {"acted", "gone"}
      /\ \A s \in Request \ {r} : pc'[s] = pc[s]
      /\ ReleaseClaim(<<"handler", r>>)
  BY <1>1 DEF SeeCancel, Unwind, Finish, Goto, TypeOK, cancelVars
<1>3. /\ EntryMoves /\ StageMoves /\ stage'[<<"handler", r>>] = "off"
      /\ \A c \in Canceller : stage'[<<"canceller", c>>] = stage[<<"canceller", c>>]
  BY <1>2, SettlersOf, ReleaseMoves
<1>4. AnswerMoves /\ CancellerMoves /\ BindMoves
  BY <1>2, <1>3 DEF AnswerMoves, CancellerMoves, BindMoves
<1>5. RecordMoves
  BY <1>2 DEF RecordMoves, Outcomes, Elements
<1>6. PlaceMoves
  BY <1>2, <1>3 DEF PlaceMoves, Waiting
<1> QED BY <1>3, <1>4, <1>5, <1>6 DEF Moves

\* So does a canceller whose connection is gone.
LEMMA DropCancellerMoves ==
  ASSUME Inv, SettleInv, NEW c \in Canceller, DropCanceller(c)
  PROVE  Moves
<1>1. TypeOK
  BY DEF Inv
<1>2. /\ UNCHANGED <<pc, bound, answer, completed, canceled>>
      /\ \A d \in Canceller \ {c} : cpc'[d] = cpc[d]
      /\ ReleaseClaim(<<"canceller", c>>)
  BY <1>1 DEF DropCanceller, CGoto, TypeOK, handlerVars
<1>3. /\ EntryMoves /\ StageMoves
      /\ \A d \in Canceller \ {c} : stage'[<<"canceller", d>>] = stage[<<"canceller", d>>]
  BY <1>2, SettlersOf, ReleaseMoves
<1>4. AnswerMoves /\ CancellerMoves /\ BindMoves
  <2>1. CancellerMoves
    BY <1>2, <1>3 DEF CancellerMoves
  <2> QED BY <1>2, <2>1 DEF AnswerMoves, BindMoves
<1>5. RecordMoves
  BY <1>2 DEF RecordMoves, Outcomes, Elements
<1>6. PlaceMoves
  BY <1>2 DEF PlaceMoves
<1> QED BY <1>3, <1>4, <1>5, <1>6 DEF Moves

\* An entry leaves with its outcome.
LEMMA EndsMoves ==
  ASSUME Inv, NEW i \in Id, NEW response \in Responses, Present(i), Store(i, response),
         \/ \E r \in Request : Complete(r) /\ IdOf(r) = i /\ ~Interrupted(i) /\ response = outcome[r]
         \/ CompletesInterrupted(i) /\ response = SyntheticFor(i)
  PROVE  EntryMoves /\ RecordMoves
<1>1. /\ Outcomes' \subseteq Outcomes \cup {RecordOf(i, response)}
      /\ ~Present(i)' /\ \A k \in Key \ {i} : registry'[k] = registry[k]
  BY StoreOutcomes
<1>2. EntryMoves
  BY <1>1 DEF EntryMoves, Key
<1>3. Ends(i, response)
  BY <1>1 DEF Ends
<1>4. RecordMoves
  BY <1>1, <1>3 DEF RecordMoves
<1> QED BY <1>2, <1>4

\* What was interrupted leaves with its synthetic outcome.
LEMMA CompletesInterruptedMoves ==
  ASSUME Inv, NEW i \in Id, CompleteInterrupted(i),
         \/ \E r \in Request : FenceUnbound(r) /\ IdOf(r) = i
         \/ \E c \in Canceller : CancelCompletes(c) /\ IdOf(canceled[c]) = i
         \/ \E p \in Settler : PublishOutcome(p) /\ target[p] = i
  PROVE  EntryMoves /\ RecordMoves
<1>1. CASE Interrupted(i)
  <2>1. Store(i, SyntheticFor(i)) /\ Present(i)
    BY <1>1 DEF CompleteInterrupted, Interrupted, Present
  <2>2. CompletesInterrupted(i)
    BY <1>1 DEF CompletesInterrupted
  <2> QED BY <2>1, <2>2, SyntheticType, EndsMoves
<1>2. CASE ~Interrupted(i)
  <2>1. registry' = registry /\ completed' = completed
    BY <1>2 DEF CompleteInterrupted, replayVars
  <2> QED BY <2>1 DEF EntryMoves, RecordMoves, Outcomes, Elements
<1> QED BY <1>1, <1>2

\* A handler completes its call.
LEMMA CompleteMoves ==
  ASSUME Inv, SettleInv, NEW r \in Request, Complete(r)
  PROVE  Moves
<1>1. TypeOK /\ Answerable /\ Asked
  BY DEF Inv, Shape
<1>2. /\ UNCHANGED <<bound, cpc, canceled, stage, target>>
      /\ pc[r] = "acted" /\ pc'[r] = "done" /\ \A s \in Request \ {r} : pc'[s] = pc[s]
  BY <1>1 DEF Complete, Goto, TypeOK, cancelVars, settleVars
<1>3. \A s \in Request \ {r} : answer'[s] = answer[s]
  BY <1>1 DEF Complete, TypeOK
<1>4. AnswerMoves /\ CancellerMoves /\ StageMoves /\ BindMoves
  BY <1>2, <1>3 DEF AnswerMoves, CancellerMoves, StageMoves, BindMoves
<1>5. PlaceMoves
  <2>1. stage[<<"handler", r>>] = "off"
    BY <1>2 DEF SettleInv, Settlers, HandlerSettles
  <2> QED BY <1>2, <2>1 DEF PlaceMoves
<1>6. EntryMoves /\ RecordMoves
  <2>1. CASE IdOf(r) = NoId
    <3>1. registry' = [registry EXCEPT ![r] = NoEntry] /\ completed' = completed
      BY <2>1 DEF Complete
    <3>2. \A i \in Id : registry'[i] = registry[i]
      BY <3>1, <1>1 DEF TypeOK, Key
    <3> QED BY <3>1, <3>2 DEF EntryMoves, RecordMoves, Outcomes, Elements
  <2>2. CASE IdOf(r) # NoId /\ Present(IdOf(r))
    <3>1. IdOf(r) \in Id /\ outcome[r] \in Responses
      BY <1>1, <1>2, <2>2 DEF Asked, Answerable, IdOf
    <3>2. Store(IdOf(r), outcome[r]) /\ ~Interrupted(IdOf(r))
      BY <2>2 DEF Complete
    <3> QED BY <2>2, <3>1, <3>2, EndsMoves
  <2>3. CASE IdOf(r) # NoId /\ ~Present(IdOf(r))
    <3>1. registry' = registry /\ completed' = completed
      BY <2>3 DEF Complete, replayVars
    <3> QED BY <3>1 DEF EntryMoves, RecordMoves, Outcomes, Elements
  <2> QED BY <2>1, <2>2, <2>3
<1> QED BY <1>4, <1>5, <1>6 DEF Moves

\* A dropped handler interrupts its own entry, and no other.
LEMMA DropHandlerMoves ==
  ASSUME Inv, SettleInv, NEW r \in Request, DropHandler(r)
  PROVE  Moves
<1> DEFINE own == <<"handler", r>>
           i   == IdOf(r)
<1>1. TypeOK /\ Asked /\ own \in Settler
  BY SettlersOf DEF Inv, Shape
<1>2. /\ UNCHANGED <<bound, answer, completed, cpc, canceled>>
      /\ pc[r] \in Waiting \cup {"acted", "settling"} /\ pc'[r] \in {"fencing", "unwinding"}
      /\ \A s \in Request \ {r} : pc'[s] = pc[s]
  <2>1. pc' = [pc EXCEPT ![r] = "fencing"] \/ pc' = [pc EXCEPT ![r] = "unwinding"]
    BY DEF DropHandler, Goto
  <2> QED BY <2>1, <1>1 DEF DropHandler, TypeOK, cancelVars
<1>3. /\ \A p \in Settler \ {own} : stage'[p] = stage[p] /\ target'[p] = target[p]
      /\ \/ stage'[own] = stage[own] /\ target'[own] = target[own] /\ pc[r] # "settling"
         \/ stage'[own] = "off" /\ target'[own] = NoId
  BY <1>1 DEF DropHandler, TypeOK, settleVars
<1>4. AnswerMoves /\ CancellerMoves /\ StageMoves /\ BindMoves
  <2>1. AnswerMoves /\ BindMoves
    BY <1>2 DEF AnswerMoves, BindMoves
  <2>2. StageMoves
    BY <1>3 DEF StageMoves
  <2>3. \A c \in Canceller : stage'[<<"canceller", c>>] = stage[<<"canceller", c>>]
    BY <1>3, SettlersOf
  <2>4. CancellerMoves
    BY <1>2, <2>3 DEF CancellerMoves
  <2> QED BY <2>1, <2>2, <2>4
<1>5. RecordMoves
  BY <1>2 DEF RecordMoves, Outcomes, Elements
<1>6. PlaceMoves
  BY <1>2, <1>3 DEF PlaceMoves, Waiting
<1>7. EntryMoves
  <2>1. CASE registry' = registry
    BY <2>1 DEF EntryMoves
  <2>2. CASE registry' # registry
    <3> DEFINE freed == IF pc[r] = "settling" /\ stage[own] \in {"clearing", "publishing"}
                             /\ registry[i].state = "claimed"
                          THEN "interrupted" ELSE registry[i].state
    <3>1. /\ i # NoId /\ Present(i) /\ pc'[r] = "fencing"
          /\ registry' = Become(i, Interrupt(freed), registry[i].byCaller)
      BY <2>2, <1>1 DEF DropHandler, Goto, TypeOK
    <3>2. i \in Id /\ i \in Key
      BY <3>1, <1>1, <1>2 DEF Asked, IdOf, Key, Waiting
    <3>3. registry[i].state \in {"active", "interrupted", "claimed"}
      BY <3>1, <3>2, <1>1 DEF Present, TypeOK, Entries
    <3>4. /\ \A j \in Id \ {i} : registry'[j] = registry[j]
          /\ registry'[i].of = registry[i].of /\ registry'[i].byCaller = registry[i].byCaller
          /\ registry'[i].state = Interrupt(freed)
      BY <3>1, <3>2, <1>1 DEF Become, TypeOK, Key
    <3>5. Interrupt(freed) \in {"interrupted", "claimed"}
      BY <3>3 DEF Interrupt
    <3>6. ASSUME registry[i].state = "claimed", Interrupt(freed) # "claimed"
          PROVE  Claims(own, i) /\ stage'[own] = "off"
      <4>1. pc[r] = "settling" /\ stage[own] \in {"clearing", "publishing"}
        BY <3>6 DEF Interrupt
      <4>2. target[own] = i
        BY <4>1 DEF SettleInv, Settlers, HandlerSettles
      <4> QED BY <4>1, <4>2, <1>3 DEF Claims
    <3>7. Live(r)
      BY <1>2 DEF Live, Waiting
    <3> HIDE DEF freed, own
    <3>8. PICK j \in Id : j = i
      BY <3>2
    <3>9. Interrupted(j)' /\ Present(j)
      BY <3>1, <3>4, <3>5, <3>8 DEF Interrupted
    <3>10. Interrupted(j) \/ (IdOf(r) = j /\ Live(r) /\ pc'[r] = "fencing")
      BY <3>1, <3>7, <3>8
    <3>11. registry[j].state = "claimed" /\ registry'[j].state # "claimed" =>
             \E p \in Settler : Claims(p, j) /\ stage'[p] = "off"
      BY <3>4, <3>6, <3>8, <1>1
    <3>12. registry'[j].of = registry[j].of /\ registry'[j].byCaller = registry[j].byCaller
      BY <3>4, <3>8
    <3>13. \A k \in Id : k # j => registry'[k] = registry[k]
      BY <3>4, <3>8
    <3> HIDE DEF i
    <3> QED BY <3>9, <3>10, <3>11, <3>12, <3>13 DEF EntryMoves
  <2> QED BY <2>1, <2>2
<1> QED BY <1>4, <1>5, <1>6, <1>7 DEF Moves

\* A dropped handler that is not bound completes its call at once.
LEMMA FenceUnboundMoves ==
  ASSUME Inv, SettleInv, NEW r \in Request, FenceUnbound(r)
  PROVE  Moves
<1>1. TypeOK /\ Asked
  BY DEF Inv, Shape
<1>2. /\ UNCHANGED <<bound, answer, cpc, canceled, stage, target>>
      /\ pc[r] = "fencing" /\ pc'[r] = "unwinding" /\ \A s \in Request \ {r} : pc'[s] = pc[s]
  BY <1>1 DEF FenceUnbound, Goto, TypeOK, cancelVars, settleVars
<1>3. AnswerMoves /\ CancellerMoves /\ StageMoves /\ BindMoves
  BY <1>2 DEF AnswerMoves, CancellerMoves, StageMoves, BindMoves
<1>4. PlaceMoves
  BY <1>2 DEF PlaceMoves
<1>5. EntryMoves /\ RecordMoves
  <2>1. CASE IdOf(r) = NoId
    <3>1. registry' = registry /\ completed' = completed
      BY <2>1 DEF FenceUnbound, replayVars
    <3> QED BY <3>1 DEF EntryMoves, RecordMoves, Outcomes, Elements
  <2>2. CASE IdOf(r) # NoId
    <3>1. IdOf(r) \in Id /\ CompleteInterrupted(IdOf(r))
      BY <1>1, <1>2, <2>2 DEF Asked, IdOf, FenceUnbound
    <3> QED BY <3>1, CompletesInterruptedMoves
  <2> QED BY <2>1, <2>2
<1> QED BY <1>3, <1>4, <1>5 DEF Moves

\* One that is bound leaves a task behind.
LEMMA FenceBoundMoves ==
  ASSUME Inv, SettleInv, NEW r \in Request, FenceBound(r)
  PROVE  Moves
<1>1. TypeOK
  BY DEF Inv
<1>2. /\ UNCHANGED <<bound, answer, completed, cpc, canceled>>
      /\ pc[r] = "fencing" /\ pc'[r] = "unwinding" /\ \A s \in Request \ {r} : pc'[s] = pc[s]
      /\ \A p \in Settler \ {<<"task", r>>} : stage'[p] = stage[p] /\ target'[p] = target[p]
  BY <1>1 DEF FenceBound, Goto, TypeOK, cancelVars
<1>3. AnswerMoves /\ CancellerMoves /\ BindMoves
  BY <1>2, SettlersOf DEF AnswerMoves, CancellerMoves, BindMoves
<1>4. StageMoves
  BY <1>2 DEF StageMoves
<1>5. PlaceMoves
  BY <1>2 DEF PlaceMoves
<1>6. EntryMoves
  <2>1. \A i \in Id : registry'[i] = registry[i]
    BY <1>1 DEF FenceBound, TypeOK, Key
  <2> QED BY <2>1 DEF EntryMoves
<1>7. RecordMoves
  BY <1>2 DEF RecordMoves, Outcomes, Elements
<1> QED BY <1>3, <1>4, <1>5, <1>6, <1>7 DEF Moves

\* A canceller takes the sender of an entry, or moves on.
LEMMA CancelMoves ==
  ASSUME Inv, SettleInv, NEW c \in Canceller, NEW i \in Id, Cancel(c, i)
  PROVE  Moves
<1>1. TypeOK
  BY DEF Inv
<1>2. /\ UNCHANGED <<pc, bound, answer, completed, stage, target>>
      /\ \A d \in Canceller \ {c} : cpc'[d] = cpc[d] /\ canceled'[d] = canceled[d]
  BY <1>1 DEF Cancel, CGoto, TypeOK, handlerVars, settleVars
<1>3. AnswerMoves /\ StageMoves /\ BindMoves /\ PlaceMoves
  BY <1>2 DEF AnswerMoves, StageMoves, BindMoves, PlaceMoves
<1>4. CancellerMoves
  BY <1>2 DEF CancellerMoves
<1>5. RecordMoves
  BY <1>2 DEF RecordMoves, Outcomes, Elements
<1>6. EntryMoves
  <2>1. \A j \in Id \ {i} : registry'[j] = registry[j]
    BY <1>1 DEF Cancel, Become, TypeOK, Key
  <2> QED BY <2>1 DEF EntryMoves
<1> QED BY <1>3, <1>4, <1>5, <1>6 DEF Moves

\* The steps of a canceller that leave the registry alone.
LEMMA CancellerPlainMoves ==
  ASSUME Inv, SettleInv, NEW c \in Canceller,
         CancelLatches(c) \/ CancelSignals(c) \/ \E i \in Id : CancelRefused(c, i)
  PROVE  Moves
<1>1. TypeOK
  BY DEF Inv
<1>2. /\ UNCHANGED <<pc, bound, answer, registry, completed, canceled>>
      /\ \A d \in Canceller \ {c} : cpc'[d] = cpc[d]
  BY <1>1 DEF CancelLatches, CancelSignals, CancelRefused, CGoto, TypeOK, handlerVars, replayVars
<1>3. /\ AnswerMoves /\ BindMoves /\ EntryMoves
  BY <1>2 DEF AnswerMoves, BindMoves, EntryMoves
<1>4. RecordMoves
  BY <1>2 DEF RecordMoves, Outcomes, Elements
<1>5. CancellerMoves
  <2>1. \A d \in Canceller \ {c} : stage'[<<"canceller", d>>] = stage[<<"canceller", d>>]
    <3>1. stage' = stage \/ stage' = [stage EXCEPT ![<<"canceller", c>>] = "claiming"]
      BY DEF CancelLatches, CancelSignals, CancelRefused, settleVars
    <3> QED BY <1>1, <3>1, SettlersOf DEF TypeOK
  <2> QED BY <1>2, <2>1 DEF CancellerMoves
<1>6. StageMoves
  <2>1. CASE CancelSignals(c)
    <3>1. CASE bound[canceled[c]]
      <4>1. \A p \in Settler \ {<<"canceller", c>>} : stage'[p] = stage[p] /\ target'[p] = target[p]
        BY <1>1, <2>1, <3>1 DEF CancelSignals, TypeOK
      <4> QED BY <2>1, <3>1, <4>1 DEF StageMoves
    <3>2. CASE ~bound[canceled[c]]
      BY <2>1, <3>2 DEF CancelSignals, StageMoves, settleVars
    <3> QED BY <3>1, <3>2
  <2>2. CASE CancelLatches(c) \/ \E i \in Id : CancelRefused(c, i)
    BY <2>2 DEF CancelLatches, CancelRefused, StageMoves, settleVars
  <2> QED BY <2>1, <2>2
<1>7. PlaceMoves
  <2>1. \A r \in Request : <<"handler", r>> \in Settler /\ <<"handler", r>> # <<"canceller", c>>
    BY SettlersOf
  <2> QED BY <1>2, <2>1 DEF PlaceMoves
<1> QED BY <1>3, <1>4, <1>5, <1>6, <1>7 DEF Moves

\* A canceller completes a call that is not bound.
LEMMA CancelCompletesMoves ==
  ASSUME Inv, SettleInv, NEW c \in Canceller, CancelCompletes(c)
  PROVE  Moves
<1>1. TypeOK /\ Canceling
  BY DEF Inv, Shape
<1>2. /\ UNCHANGED <<pc, bound, answer, canceled, stage, target>> /\ cpc[c] = "completing"
      /\ \A d \in Canceller \ {c} : cpc'[d] = cpc[d]
  BY <1>1 DEF CancelCompletes, CGoto, TypeOK, handlerVars, settleVars
<1>3. AnswerMoves /\ StageMoves /\ BindMoves /\ PlaceMoves
  BY <1>2 DEF AnswerMoves, StageMoves, BindMoves, PlaceMoves
<1>4. CancellerMoves
  BY <1>2 DEF CancellerMoves
<1>5. IdOf(canceled[c]) \in Id /\ CompleteInterrupted(IdOf(canceled[c]))
  BY <1>1, <1>2 DEF CancelCompletes, Canceling
<1>6. EntryMoves /\ RecordMoves
  BY <1>5, CompletesInterruptedMoves
<1> QED BY <1>3, <1>4, <1>6 DEF Moves

\* A settler goes on, or is done.
LEMMA ClaimMoves ==
  ASSUME Inv, SettleInv, NEW p \in Settler, Claim(p) \/ Clear(p)
  PROVE  Moves
<1>1. TypeOK /\ Staged
  BY DEF Inv, Shape
<1>2. /\ UNCHANGED <<pc, bound, answer, completed, cpc, canceled, target>>
      /\ \A q \in Settler \ {p} : stage'[q] = stage[q]
  BY <1>1 DEF Claim, Clear, TypeOK, handlerVars, cancelVars, replayVars
<1>3. AnswerMoves /\ BindMoves /\ PlaceMoves
  BY <1>2 DEF AnswerMoves, BindMoves, PlaceMoves
<1>4. StageMoves /\ CancellerMoves
  <2>1. StageMoves
    BY <1>2 DEF StageMoves
  <2>2. stage[p] # "off" /\ stage'[p] # "off"
    BY <1>1 DEF Claim, Clear, Runs, TypeOK
  <2>3. \A c \in Canceller :
          stage'[<<"canceller", c>>] = "off" <=> stage[<<"canceller", c>>] = "off"
    BY <1>2, <2>2, SettlersOf
  <2>4. CancellerMoves
    BY <1>2, <2>3 DEF CancellerMoves
  <2> QED BY <2>1, <2>4
<1>5. RecordMoves
  BY <1>2 DEF RecordMoves, Outcomes, Elements
<1>6. EntryMoves
  <2>1. CASE Claim(p)
    <3>1. /\ registry[target[p]].state = "interrupted" /\ stage[p] # "off"
          /\ registry' = Become(target[p], "claimed", registry[target[p]].byCaller)
      BY <2>1 DEF Claim, Runs
    <3>2. target[p] \in Key
      BY <1>1, <3>1 DEF Staged, TypeOK, Key
    <3>3. PICK k \in Key : k = target[p]
      BY <3>2
    <3>4. /\ \A j \in Id : j # k => registry'[j] = registry[j]
          /\ registry'[k] = [of |-> registry[k].of, state |-> "claimed",
                             byCaller |-> registry[k].byCaller]
      BY <1>1, <3>1, <3>3 DEF Become, TypeOK, Key
    <3>5. /\ Present(k) /\ Interrupted(k) /\ Interrupted(k)'
          /\ registry'[k].of = registry[k].of /\ registry'[k].byCaller = registry[k].byCaller
          /\ registry'[k].state = "claimed"
      BY <3>1, <3>3, <3>4 DEF Present, Interrupted
    <3> QED BY <3>4, <3>5 DEF EntryMoves
  <2>2. CASE Clear(p)
    BY <2>2 DEF Clear, EntryMoves, replayVars
  <2> QED BY <2>1, <2>2
<1> QED BY <1>3, <1>4, <1>5, <1>6 DEF Moves

\* A settler is done.
LEMMA SettledMoves ==
  ASSUME Inv, SettleInv, NEW p \in Settler, AlreadySettled(p) \/ PublishOutcome(p)
  PROVE  Moves
<1>1. TypeOK /\ Staged
  BY DEF Inv, Shape
<1>2. PICK where, response : Runs(p, where) /\ where # "off" /\ Settled(p, response)
  BY DEF AlreadySettled, PublishOutcome
<1>3. /\ UNCHANGED <<bound, canceled>> /\ stage[p] # "off"
      /\ stage'[p] = "off" /\ target'[p] = NoId
      /\ \A q \in Settler \ {p} : stage'[q] = stage[q] /\ target'[q] = target[q]
  BY <1>1, <1>2 DEF AlreadySettled, PublishOutcome, Runs, Settled, TypeOK
<1>4. StageMoves /\ BindMoves
  BY <1>3 DEF StageMoves, BindMoves
<1>5. \/ UNCHANGED <<pc, answer>>
      \/ \E r \in Request : /\ p = <<"handler", r>> /\ pc[r] = "settling" /\ pc'[r] = "done"
                            /\ \A s \in Request \ {r} : pc'[s] = pc[s] /\ answer'[s] = answer[s]
  <2>1. CASE p[1] = "handler" /\ ~Settling(p[2])
    <3>1. PICK r \in Request : p = <<"handler", r>>
      BY <2>1 DEF Settler
    <3>2. pc[r] = "settling" /\ pc' = [pc EXCEPT ![r] = "done"]
          /\ answer' = [answer EXCEPT ![r] = response]
      BY <1>2, <2>1, <3>1 DEF Runs, Settled, Goto
    <3> QED BY <1>1, <3>1, <3>2 DEF TypeOK
  <2>2. CASE ~(p[1] = "handler" /\ ~Settling(p[2]))
    BY <1>2, <2>2 DEF Settled
  <2> QED BY <2>1, <2>2
<1>6. AnswerMoves
  BY <1>5 DEF AnswerMoves
<1>7. PlaceMoves
  BY <1>3, <1>5 DEF PlaceMoves
<1>8. CancellerMoves
  <2>1. CASE p[1] = "canceller"
    <3>1. PICK c \in Canceller : p = <<"canceller", c>>
      BY <2>1 DEF Settler
    <3>2. cpc' = [cpc EXCEPT ![c] = "accepted"]
      BY <1>2, <3>1 DEF Settled, CGoto
    <3>3. \A d \in Canceller \ {c} : cpc'[d] = cpc[d]
      BY <1>1, <3>2 DEF TypeOK
    <3>4. \A d \in Canceller \ {c} : stage'[<<"canceller", d>>] = stage[<<"canceller", d>>]
      BY <1>3, <3>1, SettlersOf
    <3> QED BY <1>3, <3>1, <3>3, <3>4 DEF CancellerMoves
  <2>2. CASE p[1] # "canceller"
    <3>1. \A d \in Canceller : stage'[<<"canceller", d>>] = stage[<<"canceller", d>>]
      <4>1. \A d \in Canceller : <<"canceller", d>> # p
        BY <2>2
      <4> QED BY <1>3, <4>1, SettlersOf
    <3>2. cpc' = cpc
      BY <1>2, <2>2 DEF Settled
    <3> QED BY <1>3, <3>1, <3>2 DEF CancellerMoves
  <2> QED BY <2>1, <2>2
<1>9. EntryMoves /\ RecordMoves
  <2>1. CASE AlreadySettled(p)
    BY <2>1 DEF AlreadySettled, EntryMoves, RecordMoves, Outcomes, Elements, replayVars
  <2>2. CASE PublishOutcome(p) /\ target[p] \in Id
    <3>1. CompleteInterrupted(target[p])
      BY <2>2 DEF PublishOutcome
    <3> QED BY <2>2, <3>1, CompletesInterruptedMoves
  <2>3. CASE PublishOutcome(p) /\ target[p] \notin Id
    <3>1. registry' = [registry EXCEPT ![target[p]] = NoEntry] /\ completed' = completed
      BY <2>3 DEF PublishOutcome
    <3>2. \A i \in Id : registry'[i] = registry[i]
      BY <1>1, <2>3, <3>1 DEF TypeOK, Key
    <3> QED BY <3>1, <3>2 DEF EntryMoves, RecordMoves, Outcomes, Elements
  <2> QED BY <2>1, <2>2, <2>3
<1> QED BY <1>4, <1>6, <1>7, <1>8, <1>9 DEF Moves

\* An outcome grows too old, or nothing happens.
LEMMA ExpireMoves ==
  ASSUME Inv, SettleInv, (\E i \in Id : Expire(i)) \/ UNCHANGED vars
  PROVE  Moves
<1>1. UNCHANGED <<pc, bound, answer, registry, cpc, canceled, stage, target>>
  BY DEF Expire, vars, handlerVars, replayVars, cancelVars, settleVars
<1>2. AnswerMoves /\ BindMoves /\ EntryMoves /\ CancellerMoves /\ StageMoves /\ PlaceMoves
  BY <1>1 DEF AnswerMoves, BindMoves, EntryMoves, CancellerMoves, StageMoves, PlaceMoves
<1>3. RecordMoves
  <2>1. ASSUME NEW i \in Id, Expire(i) PROVE RecordMoves
    <3>1. Remembered(i) /\ completed' = Forget(i) /\ completed \in Seq(Memory)
      BY <2>1 DEF Expire, Inv, TypeOK, Memory
    <3>2. Elements(completed') \subseteq Outcomes
      BY <3>1, ForgetOutcomes
    <3> QED BY <3>2 DEF RecordMoves, Outcomes, Elements
  <2>2. CASE UNCHANGED vars
    BY <2>2 DEF vars, replayVars, RecordMoves, Outcomes, Elements
  <2> QED BY <2>1, <2>2
<1> QED BY <1>2, <1>3 DEF Moves

\* Every step moves as it may.
LEMMA AllMoves ==
  ASSUME Inv, SettleInv, [Next]_vars
  PROVE  Moves
<1>1. TypeOK
  BY DEF Inv
<1>2. ASSUME NEW r \in Request, HandlerStep(r) PROVE Moves
  <2>1. ASSUME NEW k \in Key, HelpSettle(r, k) PROVE Moves
    BY <2>1, HelpSettleMoves
  <2>2. CASE \/ Arrive(r) \/ Bind(r) \/ SeeCancel(r) \/ Complete(r) \/ AwaitSettlement(r)
             \/ FenceUnbound(r) \/ FenceBound(r) \/ Unwind(r) \/ DropHandler(r)
    BY <2>2, ArriveMovesAll, BindAllMoves, SeeCancelMoves, CompleteMoves, AwaitSettlementMoves,
       FenceUnboundMoves, FenceBoundMoves, DropHandlerMoves
  <2>3. CASE \/ AcquireLock(r) \/ PriorSettled(r) \/ ReadAuthority(r) \/ Refuse(r)
             \/ BindRefused(r) \/ Relay(r) \/ Publish(r) \/ Recover(r) \/ Quarantine(r)
             \/ WithdrawOwn(r) \/ Logged(r)
             \/ \E result \in {"ok", "failed", "unknown"} :
                  CallReturns(r, result) \/ FollowUpReturns(r, result)
    BY <1>1, <2>3, QuietActions, QuietMoves
  <2> QED BY <1>2, <2>1, <2>2, <2>3 DEF HandlerStep, Proceed
<1>3. ASSUME NEW c \in Canceller, CancellerStep(c) PROVE Moves
  <2>1. ASSUME NEW i \in Id, Cancel(c, i) PROVE Moves
    BY <2>1, CancelMoves
  <2> QED BY <1>3, <2>1, CancellerPlainMoves, CancelCompletesMoves, DropCancellerMoves
          DEF CancellerStep
<1>4. ASSUME NEW p \in Settler, SettlerStep(p) PROVE Moves
  BY <1>4, ClaimMoves, SettledMoves DEF SettlerStep
<1>5. CASE (\E i \in Id : Expire(i)) \/ Idle \/ UNCHANGED vars
  BY <1>5, ExpireMoves DEF Idle
<1> QED BY <1>2, <1>3, <1>4, <1>5 DEF Next

-----------------------------------------------------------------------------
(* The invariant is kept by every step.                                    *)

\* What is known of a step of the specification.
Step ==
  /\ Inv /\ SettleInv /\ Inv'
  /\ Moves /\ ControlStep /\ RegistryStep /\ MemoryStep

\* Every step is as Step says.
LEMMA StepFacts ==
  ASSUME Inv, SettleInv, [Next]_vars
  PROVE  Step
<1>1. TypeOK /\ Shape /\ OwnerInv
  BY DEF Inv
<1>2. ASSUME UNCHANGED vars PROVE ControlStep /\ RegistryStep /\ MemoryStep
  <2>1. UNCHANGED <<request, pc, bound, target, registry, completed, forgotten>>
    BY <1>2 DEF vars, handlerVars, replayVars, settleVars, historyVars
  <2>2. Progress /\ Ending /\ Binding
    BY <2>1 DEF Progress, Ending, Binding
  <2>3. Starting
    BY <2>1 DEF Starting, Live
  <2>4. Freeing /\ Targeting
    BY <2>1 DEF Freeing, Targeting
  <2>5. RegistryStep
    BY <2>1 DEF RegistryStep
  <2>6. MemoryStep
    BY <2>1 DEF MemoryStep, Remembered, IdsIn
  <2> QED BY <2>2, <2>3, <2>4, <2>5, <2>6 DEF ControlStep
<1>3. ControlStep /\ RegistryStep /\ MemoryStep
  <2>1. ASSUME NEW r \in Request, HandlerStep(r) PROVE ControlStep /\ RegistryStep /\ MemoryStep
    BY <1>1, <2>1, HandlerControl, HandlerRegistryStep, HandlerMemory
  <2>2. CASE \/ \E c \in Canceller : CancellerStep(c)
             \/ \E p \in Settler : SettlerStep(p)
             \/ \E i \in Id : Expire(i)
    BY <1>1, <2>2, OtherControl, OtherRegistryStep, OtherMemory
  <2> QED BY <1>2, <2>1, <2>2 DEF Next, Idle
<1> QED BY <1>3, AllMoves, StepInv DEF Step

\* An entry under a call id is that of a request that asked under it.
LEMMA EntryOwner ==
  ASSUME Inv, NEW i \in Id, Present(i)
  PROVE  /\ registry[i].of \in Request /\ IdOf(registry[i].of) = i
         /\ pc[registry[i].of] # "idle"
<1>1. i \in Key /\ i \notin Request
  BY DEF Key
<1> QED BY <1>1 DEF Inv, Shape, Entry, KeyOf

\* A request keeps its call id, and stays past its beginning.
LEMMA AskedStays ==
  ASSUME Step, NEW r \in Request, pc[r] # "idle"
  PROVE  /\ IdOf(r)' = IdOf(r) /\ KeyOf(r)' = KeyOf(r) /\ Computer(r)' = Computer(r)
         /\ Method(r)' = Method(r) /\ pc'[r] # "idle" /\ request'[r] = request[r]
  BY KeyStays DEF Step, ControlStep, Progress, Method

\* An id that is accounted for stays so.
LEMMA AccountedStays ==
  ASSUME Step, NEW i \in Id, Accounted(i)
  PROVE  Accounted(i)'
  BY AccountedStep DEF Step, Inv

\* Nobody works for the id that an admission brings back.
LEMMA AdmitUnattended ==
  ASSUME Inv, SettleInv, NEW r \in Request, NEW q \in Traffic, NEW i \in Id, Admit(r, q), q.id = i
  PROVE  /\ ~Present(i) /\ ~Remembered(i)
         /\ registry'[i] = [of |-> r, state |-> "active", byCaller |-> FALSE]
         /\ UNCHANGED <<bound, completed, cpc, canceled, stage, target>>
         /\ pc[r] = "idle" /\ pc'[r] = "queued" /\ IdOf(r)' = i
         /\ \A s \in Request : Attended(s) => IdOf(s) # i
         /\ \A p \in Settler : target[p] # i
<1>1. TypeOK /\ OnceInv /\ i # NoId /\ i \in Key
  BY DEF Inv, Key
<1>2. /\ ~Remembered(i) /\ ~Present(i) /\ (i \in forgotten => ~InUse(i))
      /\ registry'[i] = [of |-> r, state |-> "active", byCaller |-> FALSE]
      /\ UNCHANGED <<bound, completed, cpc, canceled, stage, target>>
      /\ pc[r] = "idle" /\ pc'[r] = "queued"
  BY <1>1 DEF Admit, Ask, Goto, TypeOK, cancelVars, settleVars
<1>3. IdOf(r)' = i
  BY <1>1 DEF Admit, Ask, IdOf, TypeOK
<1>4. Accounted(i) => ~InUse(i)
  BY <1>2 DEF Accounted
<1>5. \A p \in Settler : target[p] # i
  <2>1. ASSUME NEW p \in Settler, target[p] = i PROVE FALSE
    <3>1. Accounted(i)
      BY <2>1 DEF SettleInv, Pending
    <3> QED BY <1>4, <2>1, <3>1 DEF InUse
  <2> QED BY <2>1
<1>6. ASSUME NEW s \in Request, Attended(s), IdOf(s) = i PROVE FALSE
  <2>1. CASE Live(s)
    BY <1>1, <1>6, <2>1, AdmitMeets
  <2>2. ASSUME NEW c \in Canceller, canceled[c] = s, cpc[c] \in Undecided PROVE FALSE
    <3>1. canceled[c] # NoRequest
      BY <2>2
    <3>2. Accounted(i)
      BY <1>6, <2>2, <3>1 DEF SettleInv, Pending
    <3>3. CASE cpc[c] = "settling"
      <4>1. target[<<"canceller", c>>] = i
        BY <1>6, <2>2, <3>3 DEF SettleInv, Settlers, CancellerSettles
      <4> QED BY <1>5, <4>1, SettlersOf
    <3>4. CASE cpc[c] # "settling"
      BY <1>4, <1>6, <2>2, <3>2, <3>4 DEF InUse, Undecided
    <3> QED BY <3>3, <3>4
  <2>3. CASE stage[<<"task", s>>] # "off"
    <3>1. target[<<"task", s>>] = KeyOf(s) /\ KeyOf(s) = i
      BY <1>1, <1>6, <2>3 DEF SettleInv, Settlers, TaskSettles, KeyOf
    <3> QED BY <1>5, <3>1, SettlersOf
  <2> QED BY <1>6, <2>1, <2>2, <2>3 DEF Attended
<1> QED BY <1>2, <1>3, <1>5, <1>6

\* What a cancellation takes.
LEMMA CancelTakes ==
  ASSUME Inv, SettleInv, NEW c \in Canceller, NEW i \in Id, Cancel(c, i)
  PROVE  /\ Present(i) /\ ~Interrupted(i) /\ cpc[c] = "idle" /\ canceled[c] = NoRequest
         /\ registry'[i] = [of |-> registry[i].of, state |-> "interrupted", byCaller |-> TRUE]
         /\ canceled'[c] = registry[i].of /\ cpc'[c] \in {"latching", "signalling"}
         /\ \A d \in Canceller \ {c} : canceled'[d] = canceled[d] /\ cpc'[d] = cpc[d]
         /\ UNCHANGED <<pc, bound, completed, stage, target>>
<1>1. TypeOK /\ i \in Key
  BY DEF Inv, Key
<1>2. /\ registry[i].state = "active" /\ cpc[c] = "idle"
      /\ canceled' = [canceled EXCEPT ![c] = registry[i].of]
      /\ registry' = Become(i, "interrupted", TRUE)
      /\ cpc' = [cpc EXCEPT ![c] = "latching"] \/ cpc' = [cpc EXCEPT ![c] = "signalling"]
      /\ UNCHANGED <<pc, bound, completed, stage, target>>
  BY DEF Cancel, CGoto, handlerVars, settleVars
<1>3. canceled[c] = NoRequest
  BY <1>2 DEF SettleInv, Settlers, CancellerSettles
<1>4. registry'[i] = [of |-> registry[i].of, state |-> "interrupted", byCaller |-> TRUE]
  BY <1>1, <1>2 DEF Become, TypeOK
<1> QED BY <1>1, <1>2, <1>3, <1>4 DEF Present, Interrupted, TypeOK

\* Who is blamed was blamed before, or is canceled by this step.
LEMMA BlameMoves ==
  ASSUME Step, NEW r \in Request
  PROVE  /\ Blamed(r) => Blamed(r)'
         /\ Blamed(r)' => \/ Blamed(r)
                          \/ \E c \in Canceller, i \in Id : Cancel(c, i) /\ registry[i].of = r
<1>1. Inv /\ SettleInv /\ CancellerMoves
  BY DEF Step, Moves
<1>2. ASSUME NEW c \in Canceller, NEW i \in Id, Cancel(c, i)
      PROVE  canceled[c] = NoRequest /\ canceled'[c] = registry[i].of
  BY <1>1, <1>2, CancelTakes
<1>3. ASSUME NEW c \in Canceller, canceled[c] = r PROVE canceled'[c] = r
  BY <1>1, <1>2, <1>3 DEF CancellerMoves
<1>4. ASSUME NEW c \in Canceller, canceled'[c] = r
      PROVE  canceled[c] = r \/ \E i \in Id : Cancel(c, i) /\ registry[i].of = r
  BY <1>1, <1>2, <1>4 DEF CancellerMoves
<1> QED BY <1>3, <1>4, Zenon DEF Blamed

\* Who attends to a call attended before, admits it, or cancels it.
LEMMA AttendedBefore ==
  ASSUME Step, NEW s \in Request, Attended(s)'
  PROVE  \/ Attended(s) /\ pc[s] # "idle"
         \/ \E q \in Traffic : Admit(s, q)
         \/ \E c \in Canceller, i \in Id : Cancel(c, i) /\ registry[i].of = s
<1>1. Inv /\ SettleInv /\ CancellerMoves /\ StageMoves /\ Canceling /\ TypeOK
  BY DEF Step, Moves, Inv, Shape
<1>2. CASE Live(s)'
  <2>1. CASE pc[s] = "idle"
    BY <1>2, <2>1 DEF Step, ControlStep, Starting
  <2>2. CASE pc[s] # "idle"
    BY <1>2, <2>2 DEF Step, ControlStep, Ending, Live, Attended
  <2> QED BY <2>1, <2>2
<1>3. ASSUME NEW c \in Canceller, canceled'[c] = s, cpc'[c] \in Undecided
      PROVE  \/ Attended(s) /\ pc[s] # "idle"
             \/ \E d \in Canceller, i \in Id : Cancel(d, i) /\ registry[i].of = s
  <2>1. ASSUME NEW i \in Id, Cancel(c, i)
        PROVE  \E d \in Canceller, j \in Id : Cancel(d, j) /\ registry[j].of = s
    <3>1. canceled'[c] = registry[i].of
      BY <1>1, <2>1, CancelTakes
    <3> QED BY <1>3, <2>1, <3>1
  <2>2. CASE canceled'[c] = canceled[c] /\ ~ \E i \in Id : Cancel(c, i)
    <3>1. cpc[c] \in Undecided
      <4>1. CASE cpc'[c] = cpc[c]
        BY <1>3, <4>1
      <4>2. CASE CancelLatches(c) \/ CancelSignals(c)
        BY <4>2 DEF CancelLatches, CancelSignals, Undecided
      <4>3. CASE CancelCompletes(c) \/ DropCanceller(c) \/ \E i \in Id : CancelRefused(c, i)
        BY <1>1, <1>3, <4>3 DEF CancelCompletes, DropCanceller, CancelRefused, CGoto, TypeOK, Undecided
      <4>4. CASE AlreadySettled(<<"canceller", c>>) \/ PublishOutcome(<<"canceller", c>>)
        <5>1. PICK response : Settled(<<"canceller", c>>, response)
          BY <4>4 DEF AlreadySettled, PublishOutcome
        <5>2. cpc' = [cpc EXCEPT ![c] = "accepted"]
          BY <5>1 DEF Settled, CGoto
        <5> QED BY <1>1, <1>3, <5>2 DEF TypeOK, Undecided
      <4> QED BY <1>1, <2>2, <4>1, <4>2, <4>3, <4>4 DEF CancellerMoves
    <3>2. pc[s] # "idle"
      BY <1>1, <1>3, <2>2, <3>1 DEF Canceling, Undecided
    <3> QED BY <1>3, <2>2, <3>1, <3>2 DEF Attended
  <2> QED BY <1>1, <2>1, <2>2 DEF CancellerMoves
<1>4. ASSUME stage'[<<"task", s>>] # "off" PROVE Attended(s) /\ pc[s] # "idle"
  <2> DEFINE p == <<"task", s>>
  <2>1. p \in Settler
    BY SettlersOf
  <2>2. CASE stage[p] # "off"
    BY <1>1, <2>2 DEF SettleInv, Settlers, TaskSettles, Attended
  <2>3. CASE stage[p] = "off"
    <3>1. ~ (Claim(p) \/ Clear(p))
      BY <2>3 DEF Claim, Clear, Runs
    <3>2. PICK r \in Request : p = <<"task", r>> /\ FenceBound(r)
      BY <1>1, <1>4, <2>1, <2>3, <3>1 DEF StageMoves
    <3>3. r = s /\ pc[s] = "fencing"
      BY <3>2 DEF FenceBound
    <3> QED BY <3>3 DEF Attended, Live
  <2> QED BY <2>2, <2>3
<1> QED BY <1>2, <1>3, <1>4 DEF Attended

\* What is said of a call id goes on being said of the request that owns it.
LEMMA MineStays ==
  ASSUME Step, NEW s \in Request, NEW i \in Id, IdOf(s) = i, pc[s] # "idle", Mine(s),
         Attended(s) \/ Present(i)
  PROVE  Mine(s)'
<1>1. Inv /\ SettleInv /\ EntryMoves /\ RecordMoves /\ IdOf(s)' = i
  BY AskedStays DEF Step, Moves
<1>2. ASSUME NEW r \in Request, NEW q \in Traffic, Admit(r, q), q.id = i PROVE FALSE
  <2>1. ~Present(i) /\ \A t \in Request : Attended(t) => IdOf(t) # i
    BY <1>1, <1>2, AdmitUnattended
  <2> QED BY <2>1
<1>3. Present(i)' => registry'[i].of = s
  <2>1. ASSUME NEW c \in Canceller, Cancel(c, i) PROVE registry'[i].of = s
    <3>1. Present(i) /\ registry'[i] = [of |-> registry[i].of, state |-> "interrupted", byCaller |-> TRUE]
      BY <1>1, <2>1, CancelTakes
    <3>2. registry[i].of = s
      BY <3>1 DEF Mine
    <3> QED BY <3>1, <3>2
  <2> QED BY <1>1, <1>2, <2>1 DEF EntryMoves, Mine, Present
<1>4. ASSUME NEW x \in Outcomes', x.id = i PROVE x.of = s
  <2>1. CASE x \in Outcomes
    BY <1>4, <2>1 DEF Mine
  <2>2. CASE x \notin Outcomes
    <3>1. PICK j \in Id, response \in Responses : Present(j) /\ x = RecordOf(j, response)
      BY <1>1, <1>4, <2>2 DEF RecordMoves, Ends
    <3>2. j = i /\ x.of = registry[i].of
      BY <1>4, <3>1 DEF RecordOf
    <3> QED BY <3>1, <3>2 DEF Mine
  <2> QED BY <2>1, <2>2
<1> QED BY <1>1, <1>3, <1>4 DEF Mine

\* What is said of a call id is said of everybody who attends to it.
LEMMA OwnershipStep ==
  ASSUME Step
  PROVE  Ownership'
<1> SUFFICES ASSUME NEW s \in Request, Attended(s)', IdOf(s)' \in Id
             PROVE  Mine(s)'
  BY DEF Ownership
<1>1. Inv /\ SettleInv /\ Records /\ Ownership
  BY DEF Step, SettleInv
<1>2. CASE Attended(s) /\ pc[s] # "idle"
  <2>1. IdOf(s) \in Id
    BY <1>2, AskedStays
  <2> QED BY <1>1, <1>2, <2>1, MineStays DEF Ownership
<1>3. ASSUME NEW q \in Traffic, Admit(s, q) PROVE Mine(s)'
  <2>1. PICK i \in Id : i = IdOf(s)'
    OBVIOUS
  <2>2. q.id = i
    BY <1>1, <1>3, <2>1 DEF Admit, Ask, IdOf, Inv, TypeOK
  <2>3. /\ ~Remembered(i) /\ completed' = completed
        /\ registry'[i] = [of |-> s, state |-> "active", byCaller |-> FALSE]
    BY <1>1, <1>3, <2>2, AdmitUnattended
  <2>4. \A x \in Outcomes' : x.id # i
    <3>1. Outcomes' = Outcomes
      BY <2>3 DEF Outcomes, Elements
    <3> QED BY <1>1, <2>3, <3>1, RememberedOutcome DEF Inv
  <2> QED BY <2>1, <2>3, <2>4 DEF Mine
<1>4. ASSUME NEW c \in Canceller, NEW i \in Id, Cancel(c, i), registry[i].of = s PROVE Mine(s)'
  <2>1. Present(i) /\ IdOf(s) = i /\ pc[s] # "idle"
    BY <1>1, <1>4, CancelTakes, EntryOwner
  <2>2. Mine(s)
    <3>1. \A x \in Outcomes : x.id # i
      BY <1>1, <2>1, RememberedOutcome DEF Records, Inv
    <3> QED BY <1>4, <2>1, <3>1 DEF Mine
  <2> QED BY <2>1, <2>2, MineStays
<1> QED BY <1>2, <1>3, <1>4, AttendedBefore

\* A call id has one outcome, and none while its call is in flight.
LEMMA RecordsStep ==
  ASSUME Step
  PROVE  Records'
<1>1. Inv /\ TypeOK /\ SettleInv /\ Records /\ EntryMoves /\ RecordMoves
  BY DEF Step, SettleInv, Moves, Inv
<1>2. ASSUME NEW x \in Outcomes', x \notin Outcomes
      PROVE  \E i \in Id, response \in Responses :
               Present(i) /\ ~Present(i)' /\ x = RecordOf(i, response)
                 /\ Outcomes' \subseteq Outcomes \cup {x}
  BY <1>1, <1>2 DEF RecordMoves, Ends
<1>3. ASSUME NEW x \in Outcomes', NEW y \in Outcomes', x \notin Outcomes, x.id = y.id
      PROVE  x = y
  <2>1. PICK i \in Id, response \in Responses :
          Present(i) /\ x = RecordOf(i, response) /\ Outcomes' \subseteq Outcomes \cup {x}
    BY <1>2, <1>3
  <2>2. x.id = i
    BY <2>1 DEF RecordOf
  <2>3. ASSUME y \in Outcomes PROVE FALSE
    BY <1>1, <1>3, <2>1, <2>2, <2>3, RememberedOutcome DEF Records
  <2> QED BY <2>1, <2>3
<1>4. \A x, y \in Outcomes' : x.id = y.id => x = y
  <2> SUFFICES ASSUME NEW x \in Outcomes', NEW y \in Outcomes', x.id = y.id PROVE x = y
    OBVIOUS
  <2>1. CASE x \in Outcomes /\ y \in Outcomes
    BY <1>1, <2>1 DEF Records
  <2>2. CASE x \notin Outcomes
    BY <1>3, <2>2
  <2>3. CASE y \notin Outcomes
    BY <1>3, <2>3
  <2> QED BY <2>1, <2>2, <2>3
<1>5. ASSUME NEW x \in Outcomes' PROVE pc'[x.of] # "idle" /\ IdOf(x.of)' = x.id
  <2>1. x.of \in Request /\ pc[x.of] # "idle" /\ IdOf(x.of) = x.id
    <3>1. CASE x \in Outcomes
      BY <1>1, <3>1, OutcomeType DEF Records, Memory
    <3>2. CASE x \notin Outcomes
      <4>1. PICK i \in Id, response \in Responses : Present(i) /\ x = RecordOf(i, response)
        BY <1>2, <3>2
      <4>2. x.of = registry[i].of /\ x.id = i
        BY <4>1 DEF RecordOf
      <4> QED BY <1>1, <4>1, <4>2, EntryOwner
    <3> QED BY <3>1, <3>2
  <2>2. PICK r \in Request : r = x.of
    BY <2>1
  <2> QED BY <2>1, <2>2, AskedStays
<1>6. ASSUME NEW i \in Id, Present(i)', Remembered(i)' PROVE FALSE
  <2>1. PICK x \in Outcomes' : x.id = i
    BY <1>6, Zenon DEF Remembered, IdsIn, Outcomes, Elements
  <2>2. CASE x \in Outcomes
    <3>1. Remembered(i) /\ ~Present(i)
      BY <1>1, <2>1, <2>2, RememberedOutcome DEF Records
    <3>2. ASSUME NEW r \in Request, NEW q \in Traffic, Admit(r, q), q.id = i PROVE FALSE
      BY <1>1, <3>1, <3>2, AdmitUnattended
    <3>3. ASSUME NEW c \in Canceller, Cancel(c, i) PROVE FALSE
      BY <1>1, <3>1, <3>3, CancelTakes
    <3> QED BY <1>1, <1>6, <3>1, <3>2, <3>3 DEF EntryMoves, Present
  <2>3. CASE x \notin Outcomes
    <3>1. PICK j \in Id, response \in Responses : ~Present(j)' /\ x = RecordOf(j, response)
      BY <1>2, <2>3
    <3>2. j = i
      BY <2>1, <3>1 DEF RecordOf
    <3> QED BY <1>6, <3>1, <3>2
  <2> QED BY <2>2, <2>3
<1>7. \A x \in Outcomes' : pc'[x.of] # "idle" /\ IdOf(x.of)' = x.id
  BY <1>5
<1>8. \A i \in Id : Present(i)' => ~Remembered(i)'
  BY <1>6
<1> QED BY <1>4, <1>7, <1>8, Zenon DEF Records

\* Every settler's new target is the target it had or an entry in use.
LEMMA PendingStep ==
  ASSUME Step
  PROVE  Pending'
<1>1. Inv /\ TypeOK /\ Asked /\ OnceInv /\ Canceling /\ SettleInv /\ Pending /\ Settlers
      /\ StageMoves /\ CancellerMoves
  BY DEF Step, SettleInv, Moves, Inv, Shape
<1>2. ASSUME NEW p \in Settler, NEW i \in Id, target'[p] = i PROVE Accounted(i)'
  <2>1. i # NoId /\ i \notin Request
    OBVIOUS
  <2>2. Accounted(i)
    <3>1. CASE target'[p] = target[p]
      BY <1>1, <1>2, <3>1 DEF Pending
    <3>2. CASE Claim(p) \/ Clear(p)
      BY <1>1, <1>2, <3>2 DEF Claim, Clear, Pending
    <3>3. ASSUME NEW r \in Request, NEW k \in Key, p = <<"handler", r>>, HelpSettle(r, k)
          PROVE  Accounted(i)
      <4>1. target'[p] = k /\ Present(k)
        BY <1>1, <3>3 DEF HelpSettle, TypeOK, OtherComputerOwners
      <4> QED BY <1>2, <4>1 DEF Accounted
    <3>4. ASSUME NEW r \in Request, p = <<"handler", r>>, AwaitSettlement(r)
          PROVE  Accounted(i)
      <4>1. target'[p] = IdOf(r) /\ Interrupted(IdOf(r))
        BY <1>1, <3>4 DEF AwaitSettlement, TypeOK
      <4> QED BY <1>2, <4>1 DEF Accounted, Interrupted, Present
    <3>5. ASSUME NEW r \in Request, p = <<"task", r>>, FenceBound(r)
          PROVE  Accounted(i)
      <4>1. target'[p] = KeyOf(r) /\ Live(r)
        BY <1>1, <3>5 DEF FenceBound, TypeOK, Live
      <4>2. IdOf(r) = i
        BY <1>2, <2>1, <4>1 DEF KeyOf
      <4> QED BY <1>1, <4>1, <4>2 DEF OnceInv
    <3>6. ASSUME NEW c \in Canceller, p = <<"canceller", c>>, CancelSignals(c), bound[canceled[c]]
          PROVE  Accounted(i)
      <4>1. target'[p] = IdOf(canceled[c]) /\ cpc[c] = "signalling"
        BY <1>1, <3>6 DEF CancelSignals, TypeOK
      <4>2. canceled[c] # NoRequest
        BY <1>1, <4>1 DEF Settlers, CancellerSettles
      <4> QED BY <1>1, <1>2, <4>1, <4>2 DEF Pending
    <3>7. target'[p] # NoId
      BY <1>2, <2>1
    <3> QED BY <1>1, <3>1, <3>2, <3>3, <3>4, <3>5, <3>6, <3>7 DEF StageMoves
  <2> QED BY <2>2, AccountedStays
<1>3. ASSUME NEW c \in Canceller, canceled'[c] # NoRequest
      PROVE  \E r \in Request, i \in Id : r = canceled'[c] /\ IdOf(r)' = i /\ Accounted(i)'
  <2>1. CASE canceled'[c] = canceled[c]
    <3>1. canceled[c] \in Request /\ pc[canceled[c]] # "idle" /\ IdOf(canceled[c]) \in Id
      BY <1>1, <1>3, <2>1 DEF Settlers, CancellerSettles, Canceling
    <3>2. PICK r \in Request, i \in Id : r = canceled[c] /\ i = IdOf(r) /\ pc[r] # "idle"
      BY <3>1
    <3>3. Accounted(i)'
      BY <1>1, <1>3, <2>1, <3>2, AccountedStays DEF Pending
    <3>4. IdOf(r)' = i
      BY <3>2, AskedStays
    <3> QED BY <2>1, <3>2, <3>3, <3>4
  <2>2. ASSUME NEW i \in Id, Cancel(c, i)
        PROVE  \E r \in Request, j \in Id : r = canceled'[c] /\ IdOf(r)' = j /\ Accounted(j)'
    <3>1. Present(i) /\ canceled'[c] = registry[i].of
      BY <1>1, <2>2, CancelTakes
    <3>2. PICK r \in Request : r = registry[i].of /\ IdOf(r) = i /\ pc[r] # "idle"
      BY <1>1, <3>1, EntryOwner
    <3>3. IdOf(r)' = i /\ Accounted(i)'
      BY <3>1, <3>2, AskedStays, AccountedStays DEF Accounted
    <3> QED BY <3>1, <3>2, <3>3
  <2> QED BY <1>1, <2>1, <2>2 DEF CancellerMoves
<1>4. \A p \in Settler : target'[p] \in Id => Present(target[p])' \/ Remembered(target[p])' \/ target'[p] \in forgotten'
  BY <1>2 DEF Accounted, Present, Remembered
<1>5. ASSUME NEW c \in Canceller, canceled'[c] # NoRequest PROVE Accounted(IdOf(canceled[c]))'
  BY <1>3, <1>5 DEF Accounted, IdOf, Present, Remembered
<1> QED BY <1>4, <1>5 DEF Pending, Accounted

\* The entry that a settler is after was there before, of the same request.
LEMMA TargetBefore ==
  ASSUME Step, NEW p \in Settler, NEW k \in Key, target[p] = k, Present(k)'
  PROVE  Present(k) /\ registry'[k].of = registry[k].of
<1>1. Inv /\ SettleInv /\ TypeOK /\ Unregistered /\ RegistryStep /\ Starting
  BY DEF Step, Inv, OwnerInv, ControlStep
<1>2. ASSUME NEW r \in Request, NEW s \in {"active", "interrupted"}, Enters(r, k, s) PROVE FALSE
  <2>1. CASE k \in Id
    <3>1. request'[r].id = k /\ pc[r] = "idle" /\ pc'[r] = "queued"
      BY <1>2, <2>1 DEF Enters
    <3>2. PICK q \in Traffic : Admit(r, q)
      BY <1>1, <3>1 DEF Starting, Live
    <3>3. q.id = k
      BY <1>1, <3>1, <3>2 DEF Admit, Ask, TypeOK
    <3> QED BY <1>1, <2>1, <3>2, <3>3, AdmitUnattended
  <2>2. CASE k \notin Id
    BY <1>1, <1>2, <2>2 DEF Enters, Unregistered
  <2> QED BY <2>1, <2>2
<1> QED BY <1>1, <1>2, EntryBefore

\* A handler that settles after the step settled before it, or begins to.
LEMMA HandlerSettlesStep ==
  ASSUME Step, NEW r \in Request
  PROVE  HandlerSettles(r)'
<1> DEFINE p == <<"handler", r>>
<1>1. Inv /\ SettleInv /\ TypeOK /\ Shape /\ StageMoves /\ PlaceMoves /\ BindMoves /\ HandlerSettles(r)
      /\ p \in Settler
  BY SettlersOf DEF Step, Moves, Inv, SettleInv, Settlers
<1>2. ASSUME stage[p] # "off", stage'[p] # "off", target'[p] = target[p] PROVE HandlerSettles(r)'
  <2>1. /\ pc[r] \in {"settling unregistered", "settling registered", "settling", "fencing", "unwinding"}
        /\ pc[r] = "settling" => target[p] = IdOf(r)
        /\ Settling(r) /\ Present(target[p]) =>
             Computer(registry[target[p]].of) /\ bound[registry[target[p]].of]
    BY <1>1, <1>2 DEF HandlerSettles
  <2>2. pc'[r] = pc[r] \/ (pc[r] # "settling" /\ pc'[r] \in {"fencing", "unwinding"})
    BY <1>1, <1>2 DEF PlaceMoves
  <2>3. pc'[r] = "settling" => target'[p] = IdOf(r)'
    BY <1>2, <2>1, <2>2, AskedStays
  <2>4. PICK k \in Key : k = target[p]
    BY <1>1, <1>2 DEF Shape, Staged, TypeOK
  <2>5. ASSUME Settling(r)', Present(k)'
        PROVE  \E s \in Request : registry'[k].of = s /\ Computer(s)' /\ bound'[s]
    <3>1. Present(k) /\ registry'[k].of = registry[k].of
      BY <1>1, <2>4, <2>5, TargetBefore
    <3>2. PICK s \in Request : s = registry[k].of /\ pc[s] # "idle"
      BY <1>1, <3>1 DEF Shape, Entry
    <3>3. Settling(r)
      BY <2>2, <2>5 DEF Settling
    <3>4. Computer(s) /\ bound[s]
      BY <2>1, <2>4, <3>1, <3>2, <3>3
    <3>5. Computer(s)' /\ bound'[s]
      <4>1. Computer(s)'
        BY <3>2, <3>4, AskedStays
      <4>2. ~Bind(s)
        BY <3>4, <1>1 DEF Bind, Inv, OwnerInv, Unbound
      <4> QED BY <1>1, <3>4, <4>1, <4>2 DEF BindMoves
    <3> QED BY <3>1, <3>2, <3>5
  <2>6. ASSUME Settling(r)', Present(target[p])'
        PROVE  Computer(registry[target[p]].of)' /\ bound'[registry'[target'[p]].of]
    <3>1. target'[p] = k
      BY <1>2, <2>4
    <3>2. Present(k)'
      BY <2>6, <3>1 DEF Present
    <3>3. PICK s \in Request : registry'[k].of = s /\ Computer(s)' /\ bound'[s]
      BY <2>5, <2>6, <3>2
    <3> QED BY <3>1, <3>3 DEF Computer, Method
  <2>7. pc'[r] \in {"settling unregistered", "settling registered", "settling", "fencing", "unwinding"}
    BY <2>1, <2>2
  <2> QED BY <2>3, <2>6, <2>7 DEF HandlerSettles
<1>3. CASE stage'[p] = stage[p] /\ target'[p] = target[p]
  BY <1>2, <1>3 DEF HandlerSettles
<1>4. CASE stage'[p] = "off"
  BY <1>4 DEF HandlerSettles
<1>5. CASE Claim(p) \/ Clear(p)
  <2>1. stage[p] # "off" /\ target'[p] = target[p]
    BY <1>5 DEF Claim, Clear, Runs
  <2> QED BY <1>2, <1>4, <2>1
<1>6. ASSUME NEW k \in Key, HelpSettle(r, k) PROVE HandlerSettles(r)'
  <2>1. /\ UNCHANGED <<request, pc, bound, registry>> /\ target'[p] = k /\ Settling(r)
        /\ Present(k) /\ Computer(registry[k].of) /\ bound[registry[k].of]
    BY <1>1, <1>6 DEF HelpSettle, OtherComputerOwners, TypeOK, handlerVars, replayVars
  <2>2. Computer(registry[k].of)' /\ bound'[registry'[k].of]
    BY <2>1 DEF Computer, Method
  <2> HIDE DEF p
  <2>3. Computer(registry[target[p]].of)' /\ bound'[registry'[target'[p]].of]
    BY <2>1, <2>2 DEF Computer, Method
  <2> QED BY <2>1, <2>3 DEF HandlerSettles, Settling, p
<1>7. CASE AwaitSettlement(r)
  <2>1. /\ pc'[r] = "settling" /\ target'[p] = IdOf(r) /\ request' = request
    BY <1>1, <1>7 DEF AwaitSettlement, Goto, TypeOK
  <2> QED BY <2>1 DEF HandlerSettles, Settling, IdOf
<1> QED BY <1>1, <1>3, <1>4, <1>5, <1>6, <1>7 DEF StageMoves

\* A task settles for the handler that left it behind.
LEMMA TaskSettlesStep ==
  ASSUME Step, NEW r \in Request
  PROVE  TaskSettles(r)'
<1> DEFINE p == <<"task", r>>
<1>1. TypeOK /\ StageMoves /\ TaskSettles(r) /\ Ending /\ p \in Settler
  BY SettlersOf DEF Step, Moves, Inv, SettleInv, Settlers, ControlStep
<1>2. ASSUME stage[p] # "off", target'[p] = target[p] PROVE TaskSettles(r)'
  <2>1. target[p] = KeyOf(r) /\ pc[r] \in {"unwinding", "gone"}
    BY <1>1, <1>2 DEF TaskSettles
  <2>2. KeyOf(r)' = KeyOf(r) /\ pc'[r] \in {"unwinding", "gone"}
    BY <1>1, <2>1, AskedStays DEF Ending
  <2> QED BY <1>2, <2>1, <2>2 DEF TaskSettles
<1>3. CASE stage'[p] = stage[p] /\ target'[p] = target[p]
  BY <1>2, <1>3 DEF TaskSettles
<1>4. CASE stage'[p] = "off"
  BY <1>4 DEF TaskSettles
<1>5. CASE Claim(p) \/ Clear(p)
  <2>1. stage[p] # "off" /\ target'[p] = target[p]
    BY <1>5 DEF Claim, Clear, Runs
  <2> QED BY <1>2, <2>1
<1>6. CASE FenceBound(r)
  <2>1. target'[p] = KeyOf(r) /\ pc'[r] = "unwinding" /\ request' = request
    BY <1>1, <1>6 DEF FenceBound, Goto, TypeOK
  <2> QED BY <2>1 DEF TaskSettles, KeyOf, IdOf
<1> QED BY <1>1, <1>3, <1>4, <1>5, <1>6 DEF StageMoves

\* A canceller settles the call it canceled, and nothing else.
LEMMA CancellerSettlesStep ==
  ASSUME Step, NEW c \in Canceller
  PROVE  CancellerSettles(c)'
<1> DEFINE p == <<"canceller", c>>
<1>1. Inv /\ SettleInv /\ TypeOK /\ Canceling /\ StageMoves /\ CancellerMoves /\ CancellerSettles(c)
      /\ p \in Settler
  BY SettlersOf DEF Step, Moves, Inv, Shape, SettleInv, Settlers
<1>2. /\ canceled'[c] # NoRequest <=> cpc'[c] \notin {"idle", "refused"}
      /\ stage'[p] # "off" <=> cpc'[c] = "settling"
  <2>1. ASSUME NEW i \in Id, Cancel(c, i)
        PROVE  /\ canceled'[c] # NoRequest /\ cpc'[c] \in {"latching", "signalling"}
               /\ stage'[p] = "off"
    <3>1. /\ Present(i) /\ cpc[c] = "idle" /\ canceled'[c] = registry[i].of
          /\ cpc'[c] \in {"latching", "signalling"} /\ stage' = stage
      BY <1>1, <2>1, CancelTakes
    <3>2. registry[i].of # NoRequest
      BY <1>1, <3>1, EntryOwner
    <3> QED BY <1>1, <3>1, <3>2 DEF CancellerSettles
  <2>2. CASE canceled'[c] = canceled[c]
    <3>1. CASE cpc'[c] = cpc[c] /\ (stage'[p] = "off" <=> stage[p] = "off")
      BY <1>1, <2>2, <3>1 DEF CancellerSettles
    <3>2. ASSUME NEW i \in Id, CancelRefused(c, i)
          PROVE  cpc[c] = "idle" /\ cpc'[c] = "refused" /\ stage' = stage
      BY <1>1, <3>2 DEF CancelRefused, CGoto, TypeOK, settleVars
    <3>3. ASSUME CancelLatches(c)
          PROVE  cpc[c] = "latching" /\ cpc'[c] = "signalling" /\ stage' = stage
      BY <1>1, <3>3 DEF CancelLatches, CGoto, TypeOK, settleVars
    <3>4. ASSUME CancelSignals(c)
          PROVE  /\ cpc[c] = "signalling"
                 /\ \/ cpc'[c] = "settling" /\ stage'[p] = "claiming"
                    \/ cpc'[c] = "completing" /\ stage' = stage
      BY <1>1, <3>4 DEF CancelSignals, CGoto, TypeOK, settleVars
    <3>5. ASSUME CancelCompletes(c)
          PROVE  cpc[c] = "completing" /\ cpc'[c] = "accepted" /\ stage' = stage
      BY <1>1, <3>5 DEF CancelCompletes, CGoto, TypeOK, settleVars
    <3>6. ASSUME DropCanceller(c)
          PROVE  cpc[c] = "settling" /\ cpc'[c] = "gone" /\ stage'[p] = "off"
      BY <1>1, <3>6 DEF DropCanceller, ReleaseClaim, CGoto, TypeOK
    <3>7. ASSUME AlreadySettled(p) \/ PublishOutcome(p)
          PROVE  cpc[c] = "settling" /\ cpc'[c] = "accepted" /\ stage'[p] = "off"
      <4>1. PICK where, response : Runs(p, where) /\ where # "off" /\ Settled(p, response)
        BY <3>7 DEF AlreadySettled, PublishOutcome
      <4>2. cpc' = [cpc EXCEPT ![c] = "accepted"] /\ stage' = [stage EXCEPT ![p] = "off"]
        BY <4>1 DEF Settled, CGoto
      <4>3. cpc[c] = "settling"
        BY <1>1, <4>1 DEF Runs, CancellerSettles
      <4> QED BY <1>1, <4>2, <4>3 DEF TypeOK
    <3> HIDE DEF p
    <3>8. CASE \E i \in Id : CancelRefused(c, i)
      BY <1>1, <2>2, <3>2, <3>8 DEF CancellerSettles, p
    <3>9. CASE CancelLatches(c)
      BY <1>1, <2>2, <3>3, <3>9 DEF CancellerSettles, p
    <3>10. CASE CancelSignals(c)
      BY <1>1, <2>2, <3>4, <3>10 DEF CancellerSettles, p
    <3>11. CASE CancelCompletes(c)
      BY <1>1, <2>2, <3>5, <3>11 DEF CancellerSettles, p
    <3>12. CASE DropCanceller(c)
      BY <1>1, <2>2, <3>6, <3>12 DEF CancellerSettles, p
    <3>13. CASE AlreadySettled(p) \/ PublishOutcome(p)
      BY <1>1, <2>2, <3>7, <3>13 DEF CancellerSettles, p
    <3>14. CASE \E i \in Id : Cancel(c, i)
      BY <2>1, <3>14
    <3> QED BY <1>1, <3>1, <3>8, <3>9, <3>10, <3>11, <3>12, <3>13, <3>14 DEF CancellerMoves, p
  <2> QED BY <1>1, <2>1, <2>2 DEF CancellerMoves
<1>3. ASSUME stage'[p] # "off"
      PROVE  \E r \in Request : canceled'[c] = r /\ target'[p] = IdOf(r)'
  <2>1. CASE stage[p] # "off" /\ target'[p] = target[p]
    <3>1. cpc[c] = "settling" /\ target[p] = IdOf(canceled[c])
      BY <1>1, <2>1 DEF CancellerSettles
    <3>2. canceled'[c] = canceled[c]
      <4>1. ASSUME NEW i \in Id, Cancel(c, i) PROVE FALSE
        BY <3>1, <4>1 DEF Cancel
      <4> QED BY <1>1, <4>1 DEF CancellerMoves
    <3>3. PICK r \in Request : canceled[c] = r /\ pc[r] # "idle"
      BY <1>1, <3>1 DEF Canceling
    <3>4. IdOf(r)' = IdOf(r)
      BY <3>3, AskedStays
    <3> QED BY <2>1, <3>1, <3>2, <3>3, <3>4
  <2>2. CASE CancelSignals(c)
    <3>1. cpc[c] = "signalling"
      BY <2>2 DEF CancelSignals
    <3>2. PICK r \in Request : canceled[c] = r
      BY <1>1, <3>1 DEF Canceling
    <3>3. stage[p] = "off"
      BY <1>1, <3>1 DEF CancellerSettles
    <3>4. target'[p] = IdOf(r) /\ canceled'[c] = r /\ request' = request
      BY <1>1, <1>3, <2>2, <3>2, <3>3 DEF CancelSignals, TypeOK, settleVars
    <3> QED BY <3>4 DEF IdOf
  <2>3. CASE Claim(p) \/ Clear(p)
    BY <2>1, <2>3 DEF Claim, Clear, Runs
  <2>4. CASE stage'[p] = stage[p] /\ target'[p] = target[p]
    BY <1>3, <2>1, <2>4
  <2> QED BY <1>1, <1>3, <2>2, <2>3, <2>4 DEF StageMoves
<1>4. stage'[p] # "off" => target'[p] = IdOf(canceled[c])'
  BY <1>3 DEF IdOf
<1> QED BY <1>2, <1>4 DEF CancellerSettles

\* The settlers are where they should be.
LEMMA SettlersStep ==
  ASSUME Step
  PROVE  Settlers'
<1>1. \A r \in Request : HandlerSettles(r)' /\ TaskSettles(r)'
  BY HandlerSettlesStep, TaskSettlesStep
<1>2. \A c \in Canceller : CancellerSettles(c)'
  BY CancellerSettlesStep
<1> QED BY <1>1, <1>2, Zenon DEF Settlers

\* The handler whose call is still registered has not answered.
LEMMA OwnerUnanswered ==
  ASSUME Step, NEW i \in Id, NEW s \in Request, Present(i), Present(i)', registry[i].of = s
  PROVE  pc'[s] # "done"
<1>1. Inv /\ SettleInv /\ TypeOK /\ Records /\ Interruption(i) /\ HandlerSettles(s) /\ AnswerMoves
  BY DEF Step, Moves, Inv, SettleInv, Settlers, Interruptions
<1>2. IdOf(s) = i /\ pc[s] # "idle" /\ pc[s] # "done" /\ i # NoId /\ ~Remembered(i) /\ i \in Key
  BY <1>1, EntryOwner DEF Interruption, Records, Key
<1>3. ASSUME NEW response, Store(i, response) PROVE FALSE
  BY <1>1, <1>2, <1>3 DEF Store, TypeOK, Present, NoEntry
<1>4. CASE Complete(s)
  BY <1>2, <1>3, <1>4 DEF Complete
<1>5. CASE pc[s] = "settling" /\ (AlreadySettled(<<"handler", s>>) \/ PublishOutcome(<<"handler", s>>))
  <2>1. Interrupted(i)
    BY <1>1, <1>5 DEF Interruption
  <2>2. target[<<"handler", s>>] = i
    <3>1. stage[<<"handler", s>>] # "off"
      BY <1>5 DEF AlreadySettled, PublishOutcome, Runs
    <3> QED BY <1>1, <1>2, <1>5, <3>1 DEF HandlerSettles
  <2>3. ~AlreadySettled(<<"handler", s>>)
    BY <1>2, <2>1, <2>2 DEF AlreadySettled
  <2>4. CompleteInterrupted(i)
    BY <1>5, <2>2, <2>3 DEF PublishOutcome
  <2> QED BY <1>3, <2>1, <2>4 DEF CompleteInterrupted
<1> QED BY <1>1, <1>2, <1>4, <1>5 DEF AnswerMoves

\* A call that is blamed on its caller is blamed on it in its entry.
LEMMA InterruptionsStep ==
  ASSUME Step
  PROVE  Interruptions'
<1> SUFFICES ASSUME NEW i \in Id, Present(i)' PROVE Interruption(i)'
  BY DEF Interruptions, Interruption, Present
<1>1. Inv /\ SettleInv /\ TypeOK /\ Canceling /\ Interruption(i) /\ EntryMoves /\ PlaceMoves /\ Ending
  BY DEF Step, Moves, Inv, Shape, SettleInv, Interruptions, ControlStep
<1>2. ASSUME Present(i), registry'[i].of = registry[i].of, registry'[i].byCaller = registry[i].byCaller,
             \/ registry'[i].state = registry[i].state
             \/ /\ Interrupted(i)'
                /\ Interrupted(i) \/ \E r \in Request : IdOf(r) = i /\ Live(r) /\ pc'[r] = "fencing"
      PROVE  Interruption(i)'
  <2>1. PICK s \in Request : s = registry[i].of /\ IdOf(s) = i /\ pc[s] # "idle"
    BY <1>1, <1>2, EntryOwner
  <2>2. /\ pc[s] = "settling" => Interrupted(i)
        /\ registry[i].byCaller <=> Blamed(s)
        /\ registry[i].byCaller => Interrupted(i)
        /\ Interrupted(i) /\ ~registry[i].byCaller => pc[s] \in {"fencing", "unwinding", "gone"}
    BY <1>1, <1>2, <2>1 DEF Interruption
  <2>3. pc'[s] # "done"
    BY <1>2, <2>1, OwnerUnanswered
  <2>4. Interrupted(i) => Interrupted(i)'
    BY <1>2 DEF Interrupted
  <2>5. pc'[s] = "settling" => Interrupted(i)'
    BY <1>1, <2>1, <2>2, <2>4 DEF PlaceMoves, AwaitSettlement
  <2>6. registry'[i].byCaller <=> Blamed(s)'
    <3>1. ASSUME NEW c \in Canceller, NEW j \in Id, Cancel(c, j), registry[j].of = s PROVE FALSE
      <4>1. /\ Present(j) /\ ~Interrupted(j)
            /\ registry'[j] = [of |-> registry[j].of, state |-> "interrupted", byCaller |-> TRUE]
        BY <1>1, <3>1, CancelTakes
      <4>2. j = i
        BY <1>1, <2>1, <3>1, <4>1, EntryOwner
      <4> QED BY <1>2, <2>2, <4>1, <4>2
    <3> QED BY <1>2, <2>2, <3>1, BlameMoves
  <2>7. Interrupted(i)' /\ ~registry'[i].byCaller => pc'[s] \in {"fencing", "unwinding", "gone"}
    <3>1. pc[s] \in {"fencing", "unwinding", "gone"} => pc'[s] \in {"fencing", "unwinding", "gone"}
      BY <1>1 DEF PlaceMoves, Ending
    <3>2. ASSUME NEW r \in Request, IdOf(r) = i, Live(r), pc'[r] = "fencing"
          PROVE  pc'[s] = "fencing"
      <4>1. Mine(r)
        BY <1>1, <3>2 DEF SettleInv, Ownership, Attended
      <4> QED BY <1>2, <2>1, <3>2, <4>1 DEF Mine
    <3>3. CASE registry'[i].state = registry[i].state
      BY <1>2, <2>2, <3>1, <3>3 DEF Interrupted
    <3>4. CASE Interrupted(i)
      BY <1>2, <2>2, <3>1, <3>4
    <3> QED BY <1>2, <3>2, <3>3, <3>4
  <2> QED BY <1>2, <2>1, <2>2, <2>3, <2>4, <2>5, <2>6, <2>7 DEF Interruption, Blamed
<1>3. ASSUME NEW r \in Request, NEW q \in Traffic, Admit(r, q), q.id = i PROVE Interruption(i)'
  <2>1. /\ registry'[i] = [of |-> r, state |-> "active", byCaller |-> FALSE]
        /\ pc[r] = "idle" /\ pc'[r] = "queued"
    BY <1>1, <1>3, AdmitUnattended
  <2>2. ~Blamed(r)
    <3>1. ASSUME NEW c \in Canceller, canceled[c] = r PROVE FALSE
      <4>1. canceled[c] # NoRequest
        BY <3>1
      <4>2. cpc[c] \notin {"idle", "refused"}
        BY <1>1, <4>1 DEF SettleInv, Settlers, CancellerSettles
      <4> QED BY <1>1, <2>1, <3>1, <4>2 DEF Canceling
    <3> QED BY <3>1 DEF Blamed
  <2>3. ~Blamed(r)'
    <3>1. ASSUME NEW c \in Canceller, NEW j \in Id, Cancel(c, j), registry[j].of = r PROVE FALSE
      BY <1>1, <2>1, <3>1, CancelTakes, EntryOwner
    <3> QED BY <2>2, <3>1, BlameMoves
  <2> QED BY <2>1, <2>3 DEF Interruption, Interrupted, Blamed
<1>4. ASSUME NEW c \in Canceller, Cancel(c, i) PROVE Interruption(i)'
  <2>1. /\ Present(i) /\ pc' = pc /\ canceled'[c] = registry[i].of
        /\ registry'[i] = [of |-> registry[i].of, state |-> "interrupted", byCaller |-> TRUE]
    BY <1>1, <1>4, CancelTakes
  <2>2. pc[registry[i].of] # "done"
    BY <1>1, <2>1 DEF Interruption
  <2> QED BY <2>1, <2>2 DEF Interruption, Interrupted, Blamed
<1>5. CASE registry'[i] = registry[i]
  BY <1>2, <1>5 DEF Present
<1>6. CASE /\ Present(i) /\ Interrupted(i)' /\ registry'[i].of = registry[i].of
           /\ registry'[i].byCaller = registry[i].byCaller
           /\ Interrupted(i) \/ \E r \in Request : IdOf(r) = i /\ Live(r) /\ pc'[r] = "fencing"
  BY <1>2, <1>6
<1> QED BY <1>1, <1>3, <1>4, <1>5, <1>6 DEF EntryMoves

\* A settler claims an entry that nobody else has claimed.
LEMMA ClaimedStep ==
  ASSUME Step
  PROVE  Claimed'
<1>1. Inv /\ SettleInv /\ TypeOK /\ Staged /\ Claimed /\ EntryMoves /\ StageMoves
  BY DEF Step, Moves, Inv, Shape, SettleInv
<1>2. ASSUME NEW p \in Settler, NEW i \in Id, Claims(p, i)'
      PROVE  Claims(p, i) \/ (Claim(p) /\ target[p] = i)
  <2>1. CASE stage'[p] = stage[p] /\ target'[p] = target[p]
    BY <1>2, <2>1 DEF Claims
  <2>2. CASE Claim(p) \/ Clear(p)
    <3>1. target'[p] = target[p] /\ (Clear(p) => stage[p] = "clearing")
      BY <2>2 DEF Claim, Clear, Runs
    <3> QED BY <1>2, <2>2, <3>1 DEF Claims
  <2>3. CASE stage'[p] = "off"
    BY <1>2, <2>3 DEF Claims
  <2>4. ASSUME NEW r \in Request, NEW k \in Key, p = <<"handler", r>>, HelpSettle(r, k)
        PROVE  stage'[p] = "claiming"
    BY <1>1, <2>4 DEF HelpSettle, TypeOK
  <2>5. ASSUME NEW r \in Request, p = <<"handler", r>>, AwaitSettlement(r)
        PROVE  stage'[p] = "claiming"
    BY <1>1, <2>5 DEF AwaitSettlement, TypeOK
  <2>6. ASSUME NEW r \in Request, p = <<"task", r>>, FenceBound(r)
        PROVE  stage'[p] = "claiming"
    BY <1>1, <2>6 DEF FenceBound, TypeOK
  <2>7. ASSUME NEW c \in Canceller, p = <<"canceller", c>>, CancelSignals(c), bound[canceled[c]]
        PROVE  stage'[p] = "claiming"
    BY <1>1, <2>7 DEF CancelSignals, TypeOK
  <2>8. stage'[p] # "claiming"
    BY <1>2 DEF Claims
  <2> QED BY <1>1, <2>1, <2>2, <2>3, <2>4, <2>5, <2>6, <2>7, <2>8 DEF StageMoves
\* Whoever claims now is the only one.
<1>3. ASSUME NEW p \in Settler, NEW i \in Id, Claim(p), target[p] = i
      PROVE  /\ Present(i) /\ registry[i].state = "interrupted" /\ registry'[i].state = "claimed"
             /\ \A q \in Settler : ~Claims(q, i) /\ (Claim(q) => q = p)
  <2>1. /\ registry[i].state = "interrupted"
        /\ registry' = Become(i, "claimed", registry[i].byCaller)
        /\ stage' = [stage EXCEPT ![p] = "clearing"] /\ stage[p] = "claiming"
    BY <1>3 DEF Claim, Runs
  <2>2. registry'[i].state = "claimed"
    BY <1>1, <2>1 DEF Become, TypeOK, Key
  <2>3. Present(i) /\ \A q \in Settler : ~Claims(q, i)
    BY <1>1, <2>1 DEF Present, Claimed
  <2>4. ASSUME NEW q \in Settler, Claim(q) PROVE q = p
    <3>1. stage[q] = "claiming" /\ stage'[q] = "clearing"
      BY <1>1, <2>4 DEF Claim, Runs, TypeOK
    <3> QED BY <1>1, <2>1, <3>1 DEF TypeOK
  <2> QED BY <2>1, <2>2, <2>3, <2>4
<1>4. ASSUME NEW i \in Id, Present(i)', NEW p \in Settler, Claims(p, i)'
      PROVE  registry'[i].state = "claimed"
  <2>1. CASE Claim(p) /\ target[p] = i
    BY <1>3, <2>1
  <2>2. CASE Claims(p, i)
    <3>1. target[p] = i /\ i \in Key
      BY <2>2 DEF Claims, Key
    <3>2. Present(i)
      BY <1>4, <3>1, TargetBefore
    <3>3. registry[i].state = "claimed"
      BY <1>1, <2>2, <3>2 DEF Claimed
    <3>4. ASSUME NEW r \in Request, NEW q \in Traffic, Admit(r, q), q.id = i PROVE FALSE
      BY <1>1, <3>2, <3>4, AdmitUnattended
    <3>5. ASSUME NEW c \in Canceller, Cancel(c, i) PROVE FALSE
      BY <1>1, <3>3, <3>5, CancelTakes DEF Interrupted
    <3>6. ASSUME NEW q \in Settler, Claims(q, i), stage'[q] = "off" PROVE FALSE
      <4>1. q = p
        BY <1>1, <2>2, <3>6 DEF Claimed
      <4> QED BY <1>4, <3>6, <4>1 DEF Claims
    <3> QED BY <1>1, <1>4, <3>3, <3>4, <3>5, <3>6 DEF EntryMoves
  <2> QED BY <1>2, <1>4, <2>1, <2>2
<1>5. ASSUME NEW i \in Id, NEW p \in Settler, NEW q \in Settler, Claims(p, i)', Claims(q, i)'
      PROVE  p = q
  <2>1. CASE Claims(p, i) /\ Claims(q, i)
    BY <1>1, <2>1 DEF Claimed
  <2>2. CASE Claim(p) /\ target[p] = i
    BY <1>2, <1>3, <1>5, <2>2
  <2>3. CASE Claim(q) /\ target[q] = i
    BY <1>2, <1>3, <1>5, <2>3
  <2> QED BY <1>2, <1>5, <2>1, <2>2, <2>3
<1>6. \A i \in Id : Present(i)' => \A p \in Settler : Claims(p, i)' => registry'[i].state = "claimed"
  BY <1>4
<1>7. \A i \in Id : \A p, q \in Settler : Claims(p, i)' /\ Claims(q, i)' => p = q
  BY <1>5
<1> QED BY <1>6, <1>7 DEF Claimed

\* How the handler of a call with an id answers.
LEMMA OwnAnswer ==
  ASSUME Step, NEW s \in Request, NEW i \in Id, IdOf(s) = i,
         pc[s] \notin {"idle", "done"}, pc'[s] = "done"
  PROVE  \/ Complete(s) /\ ~Remembered(i) /\ ~Interrupted(i) /\ answer'[s] = outcome[s]
         \/ Remembered(i) /\ ~Interrupted(i) /\ answer'[s] = OutcomeOf(i).response
         \/ /\ pc[s] = "settling" /\ Interrupted(i) /\ answer'[s] = SyntheticFor(i)
            /\ PublishOutcome(<<"handler", s>>)
         \/ pc[s] = "settling" /\ ~Remembered(i) /\ ~Interrupted(i) /\ answer'[s] = "canceled"
<1> DEFINE p == <<"handler", s>>
<1>1. Inv /\ SettleInv /\ TypeOK /\ Records /\ HandlerSettles(s) /\ AnswerMoves /\ i # NoId
  BY DEF Step, Moves, Inv, SettleInv, Settlers
<1>2. Present(i) => ~Remembered(i)
  BY <1>1 DEF Records
<1>3. Interrupted(i) => Present(i)
  BY DEF Interrupted, Present
<1>4. CASE Complete(s)
  <2>1. ~Interrupted(i)
    BY <1>1, <1>4 DEF Complete
  <2>2. answer' = [answer EXCEPT ![s] = IF ~Present(i) /\ Remembered(i)
                                          THEN OutcomeOf(i).response ELSE outcome[s]]
    BY <1>1, <1>4 DEF Complete
  <2>3. answer'[s] = IF Remembered(i) THEN OutcomeOf(i).response ELSE outcome[s]
    BY <1>1, <1>2, <2>2 DEF TypeOK
  <2> QED BY <1>4, <2>1, <2>3
<1>5. ASSUME pc[s] = "settling", NEW response, Settled(p, response)
      PROVE  answer'[s] = response
  <2>1. answer' = [answer EXCEPT ![s] = response]
    BY <1>5 DEF Settled, Settling
  <2> QED BY <1>1, <2>1 DEF TypeOK
<1>6. CASE pc[s] = "settling" /\ (AlreadySettled(p) \/ PublishOutcome(p))
  <2>1. stage[p] # "off"
    BY <1>6 DEF AlreadySettled, PublishOutcome, Runs
  <2>2. target[p] = i
    BY <1>1, <1>6, <2>1 DEF HandlerSettles
  <2>3. CASE AlreadySettled(p)
    <3>1. /\ Remembered(i) \/ ~Interrupted(i)
          /\ Settled(p, IF Remembered(i) THEN OutcomeOf(i).response ELSE "canceled")
      BY <2>2, <2>3 DEF AlreadySettled
    <3>2. answer'[s] = IF Remembered(i) THEN OutcomeOf(i).response ELSE "canceled"
      BY <1>5, <1>6, <3>1
    <3> QED BY <1>2, <1>3, <1>6, <3>1, <3>2
  <2>4. CASE PublishOutcome(p)
    <3>1. Settled(p, IF Interrupted(i) THEN SyntheticFor(i)
                     ELSE IF Remembered(i) THEN OutcomeOf(i).response ELSE "canceled")
      BY <2>2, <2>4 DEF PublishOutcome
    <3>2. answer'[s] = IF Interrupted(i) THEN SyntheticFor(i)
                       ELSE IF Remembered(i) THEN OutcomeOf(i).response ELSE "canceled"
      BY <1>5, <1>6, <3>1
    <3> QED BY <1>2, <1>3, <1>6, <2>4, <3>2
  <2> QED BY <1>6, <2>3, <2>4
<1> QED BY <1>1, <1>4, <1>6 DEF AnswerMoves

\* A remembered outcome goes on being the one story of its call.
LEMMA OneStoryStep ==
  ASSUME Step
  PROVE  OneStory'
<1>1. Inv /\ SettleInv /\ TypeOK /\ Records /\ Ownership /\ Interruptions /\ OneStory /\ AnswerMoves
      /\ RecordMoves
  BY DEF Step, Moves, Inv, SettleInv
<1>2. ASSUME NEW x \in Outcomes', x \in Outcomes,
             NEW s \in Request, x.of = s, NEW i \in Id, x.id = i
      PROVE  /\ pc'[s] = "done" => answer'[s] = x.response
             /\ Blamed(s)' => x.response = "canceled"
  <2>1. /\ IdOf(s) = i /\ pc[s] # "idle" /\ ~Present(i) /\ Remembered(i)
        /\ \A y \in Outcomes : y.id = i => y = x
    BY <1>1, <1>2, RememberedOutcome DEF Records
  <2>2. ASSUME Blamed(s)' PROVE x.response = "canceled"
    <3>1. ASSUME NEW c \in Canceller, NEW j \in Id, Cancel(c, j), registry[j].of = s PROVE FALSE
      BY <1>1, <2>1, <3>1, CancelTakes, EntryOwner
    <3>2. Blamed(s)
      BY <2>2, <3>1, BlameMoves
    <3> QED BY <1>1, <1>2, <3>2 DEF OneStory
  <2>3. ASSUME pc'[s] = "done" PROVE answer'[s] = x.response
    <3>1. CASE pc[s] = "done"
      <4>1. answer'[s] = answer[s]
        BY <1>1, <3>1 DEF AnswerMoves, Complete
      <4> QED BY <1>1, <1>2, <3>1, <4>1 DEF OneStory
    <3>2. CASE pc[s] # "done"
      <4>1. answer'[s] = OutcomeOf(i).response
        BY <2>1, <2>3, <3>2, OwnAnswer DEF Interrupted, Present
      <4>2. OutcomeOf(i) = x
        BY <1>1, <2>1, RememberedOutcome
      <4> QED BY <4>1, <4>2
    <3> QED BY <3>1, <3>2
  <2> QED BY <2>2, <2>3
<1>3. ASSUME NEW i \in Id, NEW response \in Responses, Ends(i, response),
             NEW s \in Request, registry[i].of = s
      PROVE  /\ pc'[s] = "done" => answer'[s] = response
             /\ Blamed(s)' => response = "canceled"
  <2>1. /\ Present(i) /\ ~Present(i)' /\ ~Remembered(i) /\ IdOf(s) = i /\ pc[s] # "idle"
        /\ Interruption(i)
    BY <1>1, <1>3, EntryOwner DEF Ends, Records, Interruptions
  <2>2. Blamed(s)' => registry[i].byCaller /\ Interrupted(i)
    <3>1. ASSUME NEW c \in Canceller, NEW j \in Id, Cancel(c, j), registry[j].of = s PROVE FALSE
      <4>1. /\ Present(j)
            /\ registry'[j] = [of |-> registry[j].of, state |-> "interrupted", byCaller |-> TRUE]
        BY <1>1, <3>1, CancelTakes
      <4>2. j = i
        BY <1>1, <2>1, <3>1, <4>1, EntryOwner
      <4> QED BY <2>1, <4>1, <4>2 DEF Present
    <3>2. Blamed(s) => registry[i].byCaller /\ Interrupted(i)
      BY <1>3, <2>1 DEF Interruption
    <3> QED BY <3>1, <3>2, BlameMoves
  <2>3. pc[s] # "done"
    BY <1>3, <2>1 DEF Interruption
  <2>4. ASSUME NEW r \in Request, Complete(r), IdOf(r) = i, ~Interrupted(i), response = outcome[r]
        PROVE  pc'[s] = "done" => answer'[s] = response
    <3>1. Mine(r)
      <4>1. Live(r)
        BY <2>4 DEF Complete, Live
      <4> QED BY <1>1, <2>4, <4>1 DEF Ownership, Attended
    <3>2. r = s
      BY <1>3, <2>1, <2>4, <3>1 DEF Mine
    <3>3. pc[s] = "acted"
      BY <2>4, <3>2 DEF Complete
    <3> QED BY <2>1, <2>3, <2>4, <3>2, <3>3, OwnAnswer
  <2>5. CASE CompletesInterrupted(i) /\ response = SyntheticFor(i)
    <3>1. Interrupted(i)
      BY <2>5 DEF CompletesInterrupted
    <3>2. pc'[s] = "done" => answer'[s] = response
      BY <2>1, <2>3, <2>5, <3>1, OwnAnswer
    <3>3. Blamed(s)' => response = "canceled"
      BY <2>2, <2>5 DEF SyntheticFor
    <3> QED BY <3>2, <3>3
  <2> QED BY <1>3, <2>2, <2>4, <2>5 DEF Ends
<1>4. ASSUME NEW x \in Outcomes', NEW s \in Request, x.of = s
      PROVE  /\ pc'[s] = "done" => answer'[s] = x.response
             /\ Blamed(s)' => x.response = "canceled"
  <2>1. CASE x \in Outcomes
    <3>1. x.id \in Id
      BY <1>1, <2>1, OutcomeType DEF Memory
    <3> QED BY <1>2, <1>4, <2>1, <3>1
  <2>2. CASE x \notin Outcomes
    <3>1. PICK i \in Id, response \in Responses : Ends(i, response) /\ x = RecordOf(i, response)
      BY <1>1, <2>2 DEF RecordMoves
    <3>2. x.of = registry[i].of /\ x.response = response
      BY <3>1 DEF RecordOf
    <3> QED BY <1>3, <1>4, <3>1, <3>2
  <2> QED BY <2>1, <2>2
<1>5. ASSUME NEW x \in Outcomes' PROVE x.of \in Request
  <2>1. TypeOK'
    BY DEF Step, Inv
  <2>2. completed' \in Seq(Memory)
    BY <2>1 DEF TypeOK, Memory
  <2>3. PICK n \in DOMAIN completed' : x = completed'[n]
    BY <1>5, Zenon DEF Outcomes, Elements
  <2>4. x \in Memory
    BY <2>2, <2>3
  <2> QED BY <2>4 DEF Memory
<1>6. ASSUME NEW x \in Outcomes'
      PROVE  /\ pc'[x.of] = "done" => answer'[x.of] = x.response
             /\ Blamed(x.of)' => x.response = "canceled"
  <2>1. PICK s \in Request : x.of = s
    BY <1>5, <1>6
  <2> QED BY <1>4, <2>1, Zenon DEF Blamed
<1> QED BY <1>6, Zenon DEF OneStory

-----------------------------------------------------------------------------
(* The theorem.                                                            *)

\* The invariant holds at first ...
LEMMA InitSettle == Init => SettleInv
<1> SUFFICES ASSUME Init PROVE SettleInv
  OBVIOUS
<1>1. Outcomes = {}
  BY DEF Init, Outcomes, Elements
<1>2. /\ \A k \in Key : ~Present(k) /\ ~Interrupted(k)
      /\ \A r \in Request : pc[r] = "idle"
      /\ \A c \in Canceller : cpc[c] = "idle" /\ canceled[c] = NoRequest
      /\ \A p \in Settler : stage[p] = "off" /\ target[p] = NoId
  BY DEF Init, Present, Interrupted, NoEntry
<1>3. \A i \in Id : i \in Key /\ i # NoId
  BY DEF Key
<1>4. Records /\ OneStory
  BY <1>1, <1>2, <1>3 DEF Records, OneStory
<1>5. Ownership
  BY <1>2, SettlersOf DEF Ownership, Attended, Live, Undecided
<1>6. Pending /\ Claimed
  BY <1>2, <1>3 DEF Pending, Claimed, Claims
<1>7. Settlers
  BY <1>2, SettlersOf DEF Settlers, HandlerSettles, TaskSettles, CancellerSettles
<1>8. Interruptions
  BY <1>2, <1>3 DEF Interruptions, Interruption
<1> QED BY <1>4, <1>5, <1>6, <1>7, <1>8 DEF SettleInv

\* ... is kept by every step ...
LEMMA SettleStep == Inv /\ SettleInv /\ [Next]_vars => (Inv /\ SettleInv)'
<1> SUFFICES ASSUME Inv, SettleInv, [Next]_vars PROVE (Inv /\ SettleInv)'
  OBVIOUS
<1>1. Step
  BY StepFacts
<1>2. Records' /\ Ownership' /\ Pending' /\ Settlers' /\ Interruptions' /\ Claimed' /\ OneStory'
  BY <1>1, RecordsStep, OwnershipStep, PendingStep, SettlersStep, InterruptionsStep, ClaimedStep,
     OneStoryStep
<1> QED BY <1>1, <1>2, Zenon DEF SettleInv, Step

\* ... so it holds always.
LEMMA AlwaysSettle == Spec => [](Inv /\ SettleInv)
BY InitInv, InitSettle, SettleStep, PTL DEF Spec

\* One call, one story: what the owner of a call id was told is what a retry
\* replays, and both are the canceled answer once a cancellation was accepted.
THEOREM OneCallOneOutcome == Spec => []OneOutcome
<1>1. SettleInv => OneOutcome
  <2> SUFFICES ASSUME SettleInv, NEW n \in DOMAIN completed
               PROVE  /\ pc[completed[n].of] = "done" =>
                           answer[completed[n].of] = completed[n].response
                      /\ Blamed(completed[n].of) => completed[n].response = "canceled"
    BY Zenon DEF OneOutcome, Blamed
  <2>1. completed[n] \in Outcomes
    BY Zenon DEF Outcomes, Elements
  <2> QED BY <2>1 DEF SettleInv, OneStory
<1> QED BY <1>1, AlwaysSettle, PTL
=============================================================================
