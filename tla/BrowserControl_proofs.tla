------------------------- MODULE BrowserControl_proofs -------------------------
(***************************************************************************)
(* Proofs about BrowserControl, for any tabs, owners, starts and stops:    *)
(* its types, that a session that ended stays ended (by the inductive      *)
(* invariant LeaseInv), and that the lease implements the human pause.     *)
(***************************************************************************)
EXTENDS BrowserControl, HumanPause_proofs, FunctionTheorems, SequenceTheorems

USE ControlAssumption

Entry == [by : Caller \cup {None}, snap : Snapshot]

\* What a call, the memory and the store are.
MemTypes ==
  /\ lease \in Lease \cup {None} /\ epoch \in Nat /\ revocation \in Revocation
  /\ cleanups \in [Tab -> Cleanup \cup {None}]
CoreTypes ==
  /\ MemTypes
  /\ call \in [Caller -> Call]
  /\ saved \in Snapshot
  /\ writes \in Seq(Entry)

\* Where a start stands before its lease, and where a call waits for a part of
\* it to come back.
Before   == {"idle", "open", "intending", "attaching", "replaced"}
Taking   == {"stopping", "detaching", "reporting"}
Sweeping == {"sweeping", "checking"}
Within   == Taking \cup Sweeping \cup {"uninitialized", "sweep", "swept"}
Booting  == {"down", "reading", "looking", "dropping"}
Looking  == {"looking", "dropping"}

\* s may still make a lease.
Unused(s) == call[s].pc \in Before \/ call[s].back = "replaced"
New       == {s \in Start : Unused(s)}

\* What a call holds where it needs it.
Posts ==
  /\ \A c \in Caller : call[c].pc \in Sweeping => call[c].tab \in Tab /\ call[c].plan[call[c].tab] # None
  /\ call[Boot].pc \in Looking =>
       call[Boot].tab \in Tab /\ call[Boot].owner \in Owner /\ call[Boot].by \in Start
  /\ \A s \in Start : Unused(s) /\ call[s].pc # "idle" => call[s].owner \in Owner

\* The empty plans, the cleanups and the revocations a call is made of have their types.
LEMMA NothingTypes ==
  /\ NoRevocation \in Revocation /\ NoCleanup \in [Tab -> Cleanup \cup {None}]
  /\ Plain \in Cleanup /\ Blank \in Snapshot
  /\ \A t \in Tab : \A p \in BOOLEAN : Revoked(t, p) \in Revocation
  /\ \A s \in Start : \A p \in BOOLEAN : Unknown(s, p) \in Cleanup
<1>1. NoRevocation \in Revocation /\ NoCleanup \in [Tab -> Cleanup \cup {None}] /\ Plain \in Cleanup
  BY DEF NoRevocation, NoCleanup, Revocation, Plain, Cleanup
<1>2. Blank \in Snapshot
  BY <1>1 DEF Blank, Snapshot
<1>3. \A t \in Tab : \A p \in BOOLEAN : Revoked(t, p) \in Revocation
  BY DEF Revoked, Revocation
<1>4. \A s \in Start : \A p \in BOOLEAN : Unknown(s, p) \in Cleanup
  BY DEF Unknown, Cleanup
<1> QED BY <1>1, <1>2, <1>3, <1>4

\* A call that starts anew is a call.
LEMMA FreshType == ASSUME NEW pc \in Pc PROVE Fresh(pc) \in Call
BY NothingTypes DEF Fresh, Call, Pc

\* A call stays a call when one of its fields is set to a value of the field.
LEMMA CallFields ==
  ASSUME NEW f \in Call
  PROVE  /\ \A v \in Pc : [f EXCEPT !.pc = v] \in Call /\ [f EXCEPT !.back = v] \in Call
         /\ \A v \in Tab \cup {None} : [f EXCEPT !.tab = v] \in Call
         /\ \A v \in Owner \cup {None} : [f EXCEPT !.owner = v] \in Call
         /\ \A v \in Start \cup {None} : [f EXCEPT !.by = v] \in Call
         /\ \A v \in Nat : [f EXCEPT !.epoch = v] \in Call
         /\ \A v \in Revocation : [f EXCEPT !.prior = v] \in Call
         /\ \A v \in [Tab -> Cleanup \cup {None}] : [f EXCEPT !.plan = v] \in Call
         /\ \A v \in {"", "ok", "bad"} : [f EXCEPT !.reply = v] \in Call
BY Zenon DEF Call

\* A call that goes on.
LEMMA EnterTypes ==
  ASSUME CoreTypes, NEW c \in Caller
  PROVE  /\ \A f \in Call : Enter(c, f) => /\ call' \in [Caller -> Call] /\ call'[c] = f
                                           /\ \A d \in Caller : d # c => call'[d] = call[d]
         /\ \A pc \in Pc : Go(c, pc) => Enter(c, [call[c] EXCEPT !.pc = pc])
         /\ \A pc \in Pc : Await(c, pc) => Enter(c, [call[c] EXCEPT !.pc = pc, !.reply = ""])
<1>1. \A f \in Call : Enter(c, f) => /\ call' \in [Caller -> Call] /\ call'[c] = f
                                     /\ \A d \in Caller : d # c => call'[d] = call[d]
  BY DEF Enter, CoreTypes
<1>2. \A pc \in Pc : Go(c, pc) => Enter(c, [call[c] EXCEPT !.pc = pc])
  BY Zenon DEF Enter, Go
<1>3. \A pc \in Pc : Await(c, pc) => Enter(c, [call[c] EXCEPT !.pc = pc, !.reply = ""])
  BY Zenon DEF Enter, Await
<1> QED BY <1>1, <1>2, <1>3

\* A call has the reply it is given.
LEMMA ReplyOf == ASSUME NEW f \in Call, NEW v PROVE [f EXCEPT !.reply = v].reply = v
BY DEF Call

\* Going on to another place of the code keeps the types.
LEMMA GoTypes ==
  ASSUME CoreTypes, NEW c \in Caller, NEW pc \in Pc
  PROVE  Go(c, pc) \/ Await(c, pc) => /\ call' \in [Caller -> Call]
                                      /\ \A d \in Caller : d # c => call'[d] = call[d]
<1>1. call[c] \in Call
  BY DEF CoreTypes
<1>2. [call[c] EXCEPT !.pc = pc] \in Call /\ [call[c] EXCEPT !.pc = pc, !.reply = ""] \in Call
  BY <1>1, CallFields
<1> QED BY <1>2, EnterTypes

\* Queuing a write of the lease snapshot (background.js persistControlState) keeps them.
LEMMA PersistTypes ==
  ASSUME CoreTypes, MemTypes', NEW c \in Caller \cup {None}, Persist(c)
  PROVE  writes' \in Seq(Entry)
<1>1. Record(lease', revocation', cleanups') \in Snapshot
  BY DEF Record, Snapshot, MemTypes
<1>2. [by |-> c, snap |-> Record(lease', revocation', cleanups')] \in Entry
  BY <1>1 DEF Entry
<1> QED BY <1>2 DEF Persist, CoreTypes

\* Beginning the retry of the cleanups (retryPendingControlCleanups) keeps them.
LEMMA SweepTypes ==
  ASSUME CoreTypes, NEW c \in Caller, NEW back \in Pc, EnterSweep(c, back)
  PROVE  call' \in [Caller -> Call]
<1>1. Fresh(back) \in Call /\ [Fresh("sweep") EXCEPT !.plan = cleanups, !.back = back] \in Call
  <2>1. Fresh("sweep") \in Call
    BY FreshType DEF Pc
  <2> QED BY <2>1, FreshType, CallFields DEF CoreTypes, MemTypes
<1> QED BY <1>1, EnterTypes DEF EnterSweep

\* A stop that takes the lease out of memory keeps them.
LEMMA StopTakesTypes ==
  ASSUME CoreTypes, NEW c \in Caller, NEW explicit \in BOOLEAN, NEW back \in Pc,
         StopTakes(c, explicit, back)
  PROVE  CoreTypes'
<1> DEFINE r == [Fresh("stopping") EXCEPT !.tab = lease.tab, !.by = lease.by, !.back = back,
                                            !.owner = call[c].owner]
<1>1. lease \in Lease /\ lease.tab \in Tab /\ lease.by \in Start /\ call[c].owner \in Owner \cup {None}
  BY DEF StopTakes, CoreTypes, MemTypes, Lease, Call
<1>2. r \in Call
  <2>1. Fresh("stopping") \in Call
    BY FreshType DEF Pc
  <2> QED BY <2>1, <1>1, CallFields
<1>3. call' \in [Caller -> Call]
  BY <1>2, EnterTypes DEF StopTakes
<1>4. MemTypes'
  BY <1>1, NothingTypes DEF StopTakes, CoreTypes, MemTypes, Revocation
<1>5. writes' \in Seq(Entry)
  BY <1>4, PersistTypes DEF StopTakes
<1> QED BY <1>3, <1>4, <1>5 DEF StopTakes, CoreTypes

\* A stop that finds no lease keeps them.
LEMMA StopFindsNoneTypes ==
  ASSUME CoreTypes, NEW c \in Caller, NEW back \in Pc, StopFindsNone(c, back)
  PROVE  CoreTypes'
<1>1. [Fresh("uninitialized") EXCEPT !.back = back] \in Call
  <2>1. Fresh("uninitialized") \in Call
    BY FreshType DEF Pc
  <2> QED BY <2>1, CallFields
<1>2. call' \in [Caller -> Call]
  <2>1. CASE EnterSweep(c, back)
    BY <2>1, SweepTypes
  <2>2. CASE Enter(c, [Fresh("uninitialized") EXCEPT !.back = back])
    BY <1>1, <2>2, EnterTypes
  <2> QED BY <2>1, <2>2 DEF StopFindsNone
<1>3. MemTypes'
  BY DEF StopFindsNone, CoreTypes, MemTypes
<1> QED BY <1>2, <1>3 DEF StopFindsNone, CoreTypes, store

\* So does a stop from wherever it is called.
LEMMA StopFromTypes ==
  ASSUME CoreTypes, NEW c \in Caller, NEW explicit \in BOOLEAN, NEW back \in Pc,
         StopFrom(c, explicit, back)
  PROVE  CoreTypes'
BY StopTakesTypes, StopFindsNoneTypes DEF StopFrom

\* Where a call goes is a place.
LEMMA BackType == ASSUME NEW there \in Pc, NEW ok \in BOOLEAN PROVE Back(there, ok) \in Pc
BY DEF Back, Pc

\* What a caller keeps between two of its steps is a call.
LEMMA Locals ==
  ASSUME CoreTypes, NEW c \in Caller
  PROVE  /\ call[c] \in Call /\ call[c].pc \in Pc /\ call[c].back \in Pc
         /\ call[c].tab \in Tab \cup {None} /\ call[c].owner \in Owner \cup {None}
         /\ call[c].by \in Start \cup {None} /\ call[c].epoch \in Nat
         /\ call[c].prior \in Revocation /\ call[c].plan \in [Tab -> Cleanup \cup {None}]
BY DEF CoreTypes, Call

\* The memory and the store are as they were.
LEMMA SameTypes ==
  ASSUME CoreTypes, call' \in [Caller -> Call],
         UNCHANGED <<lease, epoch, revocation, cleanups, saved, writes>>
  PROVE  CoreTypes'
BY DEF CoreTypes, MemTypes

\* They are, and the chain is longer.
LEMMA LongerTypes ==
  ASSUME CoreTypes, call' \in [Caller -> Call], MemTypes', saved' = saved,
         writes' = writes \/ \E c \in Caller \cup {None} : Persist(c)
  PROVE  CoreTypes'
BY PersistTypes DEF CoreTypes

\* The steps of a stop keep the types.
LEMMA StopStepTypes ==
  ASSUME CoreTypes, NEW c \in Caller, StopStep(c)
  PROVE  CoreTypes'
<1>1. CASE StopInitialized(c)
  <2>1. CASE StopTakes(c, TRUE, call[c].back)
    BY <2>1, StopTakesTypes, Locals
  <2>2. CASE lease = None /\ epoch' = epoch + 1 /\ EnterSweep(c, call[c].back)
              /\ UNCHANGED <<lease, revocation, cleanups, teardowns, attaches, detaches,
                             intentional, canceled, store, chrome>>
    <3>1. call' \in [Caller -> Call]
      BY <2>2, SweepTypes, Locals
    <3>2. MemTypes'
      BY <2>2 DEF CoreTypes, MemTypes
    <3> QED BY <2>2, <3>1, <3>2, LongerTypes DEF store
  <2> QED BY <1>1, <2>1, <2>2 DEF StopInitialized
<1>2. CASE StopDetaches(c)
  BY <1>2, GoTypes, SameTypes DEF StopDetaches, Pc, store
<1>3. CASE \E seen \in BOOLEAN : StopConfirms(c, seen)
  <2>1. PICK seen \in BOOLEAN : StopConfirms(c, seen)
    BY <1>3
  <2>2. call' \in [Caller -> Call]
    BY <2>1, GoTypes DEF StopConfirms, Pc
  <2>3. MemTypes'
    <3>1. cleanups' \in [Tab -> Cleanup \cup {None}]
      BY <2>1, NothingTypes DEF StopConfirms, CoreTypes, MemTypes
    <3>2. revocation' \in Revocation
      <4>1. PICK yes \in BOOLEAN : revocation' = [revocation EXCEPT !.pending = yes]
        BY <2>1 DEF StopConfirms, DetachConfirmed
      <4> QED BY <4>1 DEF CoreTypes, MemTypes, Revocation
    <3> QED BY <2>1, <3>1, <3>2 DEF StopConfirms, CoreTypes, MemTypes
  <2> QED BY <2>1, <2>2, <2>3, LongerTypes DEF StopConfirms
<1>4. CASE StopEnds(c)
  <2> DEFINE ok == call[c].reply = "ok"
             r == [Fresh(Back(call[c].back, ok)) EXCEPT
                        !.tab = IF c \in Stopper THEN call[c].tab ELSE None,
                        !.owner = IF call[c].back = "replaced" /\ ok THEN call[c].owner ELSE None]
  <2>1. Fresh(Back(call[c].back, ok)) \in Call
    BY Locals, FreshType, BackType
  <2>2. r \in Call
    BY <2>1, Locals, CallFields
  <2> QED BY <1>4, <2>2, EnterTypes, SameTypes DEF StopEnds, store
<1> QED BY <1>1, <1>2, <1>3, <1>4 DEF StopStep

\* So does a stop that notes the pause when it is over.
LEMMA NotesTypes ==
  ASSUME CoreTypes, NEW c \in Caller, NEW over \in Pc, Notes(c, over)
  PROVE  CoreTypes'
<1>1. call' \in [Caller -> Call]
  BY FreshType, EnterTypes DEF Notes
<1>2. revocation' \in Revocation
  <2>1. CASE revocation' = revocation
    BY <2>1 DEF CoreTypes, MemTypes
  <2>2. CASE revocation' = [revocation EXCEPT !.tab = call[c].tab, !.explicit = TRUE]
    BY <2>2, Locals DEF CoreTypes, MemTypes, Revocation
  <2> QED BY <2>1, <2>2 DEF Notes
<1>3. MemTypes'
  BY <1>2 DEF Notes, CoreTypes, MemTypes
<1> QED BY <1>1, <1>3, LongerTypes DEF Notes

\* Going on with the next cleanup keeps the types.
LEMMA SweepsOnTypes ==
  ASSUME CoreTypes, NEW c \in Caller, NEW t, SweepsOn(c, t)
  PROVE  call' \in [Caller -> Call]
<1> DEFINE rest == [call[c].plan EXCEPT ![t] = None]
<1>1. Fresh(call[c].back) \in Call
  BY Locals, FreshType
<1>2. rest \in [Tab -> Cleanup \cup {None}]
  BY Locals
<1>3. [call[c] EXCEPT !.pc = "sweep", !.plan = rest] \in Call
  BY <1>2, Locals, CallFields DEF Pc
<1> QED BY <1>1, <1>3, EnterTypes DEF SweepsOn

\* The steps of the retry of the cleanups keep them.
LEMMA SweepStepTypes ==
  ASSUME CoreTypes, Posts, NEW c \in Caller, SweepStep(c)
  PROVE  CoreTypes'
<1>1. CASE \E t \in Tab : SweepSkips(c, t)
  BY <1>1, SweepsOnTypes, SameTypes DEF SweepSkips, control, store
<1>2. CASE \E t \in Tab : SweepDetaches(c, t)
  <2>1. PICK t \in Tab : SweepDetaches(c, t)
    BY <1>2
  <2>2. PICK pc \in {"sweeping", "checking"} :
          call' = [call EXCEPT ![c] = [call[c] EXCEPT !.tab = t, !.pc = pc]]
    BY <2>1, Zenon DEF SweepDetaches
  <2>3. [call[c] EXCEPT !.tab = t, !.pc = pc] \in Call
    BY Locals, CallFields DEF Pc
  <2>4. call' \in [Caller -> Call]
    BY <2>2, <2>3 DEF CoreTypes
  <2> QED BY <2>1, <2>4, SameTypes DEF SweepDetaches, store
<1>3. CASE \E seen, apart \in BOOLEAN : SweepChecks(c, seen, apart)
  <2>1. PICK seen \in BOOLEAN, apart \in BOOLEAN : SweepChecks(c, seen, apart)
    BY <1>3
  <2> DEFINE t == call[c].tab
             rec == call[c].plan[t]
  <2>2. call' \in [Caller -> Call]
    <3>1. CASE call' = [call EXCEPT ![c].pc = "swept", ![c].reply = "ok"]
      <4>1. call' = [call EXCEPT ![c] = [call[c] EXCEPT !.pc = "swept", !.reply = "ok"]]
        BY <3>1, Zenon
      <4>2. [call[c] EXCEPT !.pc = "swept", !.reply = "ok"] \in Call
        BY Locals, CallFields DEF Pc
      <4> QED BY <4>1, <4>2 DEF CoreTypes
    <3>2. CASE Await(c, "swept")
      BY <3>2, GoTypes DEF Pc
    <3> QED BY <2>1, <3>1, <3>2 DEF SweepChecks
  <2>3. cleanups' \in [Tab -> Cleanup \cup {None}]
    <3>1. cleanups \in [Tab -> Cleanup \cup {None}]
      BY DEF CoreTypes, MemTypes
    <3>2. t \in Tab /\ rec \in Cleanup
      <4>1. call[c].pc \in Sweeping
        BY <2>1 DEF SweepChecks, Sweeping
      <4> QED BY <4>1, Locals DEF Posts
    <3>3. \A n \in Nat : ~Resolved(rec, n) => [rec EXCEPT !.confirms = n] \in Cleanup
      <4> SUFFICES ASSUME NEW n \in Nat, n < 2 PROVE [rec EXCEPT !.confirms = n] \in Cleanup
        BY DEF Resolved
      <4>1. n \in 0..1
        OBVIOUS
      <4> QED BY <4>1, <3>2, Zenon DEF Cleanup
    <3>4. rec.confirms \in Nat
      BY <3>2 DEF Cleanup
    <3> DEFINE n == rec.confirms + (IF rec.confirms = 0 \/ apart THEN 1 ELSE 0)
    <3>5. n \in Nat
      BY <3>4
    <3>6. PICK v \in Cleanup \cup {None} : cleanups' = [cleanups EXCEPT ![t] = v]
      <4>1. CASE ~Resolved(rec, n) /\ cleanups' = [cleanups EXCEPT ![t] = [rec EXCEPT !.confirms = n]]
        BY <4>1, <3>3, <3>5
      <4>2. CASE cleanups' = [cleanups EXCEPT ![t] = None] \/ cleanups' = [cleanups EXCEPT ![t] = rec]
        BY <4>2, <3>2
      <4> QED BY <2>1, <4>1, <4>2 DEF SweepChecks
    <3> QED BY <3>1, <3>6
  <2>4. revocation' \in Revocation
    <3>1. PICK yes \in BOOLEAN : revocation' = revocation \/ revocation' = [revocation EXCEPT !.pending = yes]
      BY <2>1 DEF SweepChecks, PendingOf
    <3> QED BY <3>1 DEF CoreTypes, MemTypes, Revocation
  <2>5. MemTypes'
    BY <2>1, <2>3, <2>4 DEF SweepChecks, CoreTypes, MemTypes
  <2> QED BY <2>1, <2>2, <2>5, LongerTypes DEF SweepChecks
<1>4. CASE SweepWritten(c)
  <2>1. Fresh(Back(call[c].back, FALSE)) \in Call
    BY Locals, FreshType, BackType
  <2>2. call' \in [Caller -> Call]
    BY <1>4, <2>1, EnterTypes, SweepsOnTypes DEF SweepWritten
  <2> QED BY <1>4, <2>2, SameTypes DEF SweepWritten, store
<1> QED BY <1>1, <1>2, <1>3, <1>4 DEF SweepStep

\* A tab marked for a cleanup keeps the cleanups a function of the tabs.
LEMMA MarkTypes ==
  ASSUME CoreTypes, NEW s \in Start, NEW settled \in BOOLEAN, MarkUnknown(s, settled)
  PROVE  cleanups' \in [Tab -> Cleanup \cup {None}] /\ revocation' \in Revocation
<1>1. TabOf[s] \in Tab
  OBVIOUS
<1> QED BY <1>1, NothingTypes DEF MarkUnknown, CoreTypes, MemTypes

\* Starts, tabs, the heartbeat, the alarm and the initialization are callers.
LEMMA Callers ==
  /\ Start \subseteq Caller /\ Stops \subseteq Caller /\ Tab \subseteq Caller
  /\ Boot \in Caller /\ Beat \in Caller /\ Alarm \in Caller
BY DEF Caller

\* A start that writes its intent keeps the types.
LEMMA StartIntendsTypes ==
  ASSUME CoreTypes, NEW s \in Start, StartIntends(s)
  PROVE  CoreTypes'
<1> DEFINE r == [Fresh("intending") EXCEPT !.prior = revocation, !.owner = call[s].owner]
<1>1. r \in Call /\ Fresh("refused") \in Call
  <2>1. Fresh("intending") \in Call /\ Fresh("refused") \in Call
    BY FreshType DEF Pc
  <2> QED BY <2>1, Locals, Callers, CallFields DEF CoreTypes, MemTypes
<1>2. call' \in [Caller -> Call]
  <2>1. Enter(s, r) \/ Enter(s, Fresh("refused"))
    BY DEF StartIntends, Refuse
  <2> QED BY <1>1, <2>1, EnterTypes, Callers
<1>3. MemTypes'
  <2>1. TabOf[s] \in Tab
    OBVIOUS
  <2>2. revocation' = revocation \/ revocation' = Revoked(TabOf[s], TRUE)
    BY DEF StartIntends
  <2>7. Revoked(TabOf[s], TRUE) \in Revocation
    BY <2>1 DEF Revoked, Revocation
  <2>3. revocation' \in Revocation
    BY <2>2, <2>7 DEF CoreTypes, MemTypes
  <2>4. Unknown(s, FALSE) \in Cleanup
    BY DEF Unknown, Cleanup
  <2>5. cleanups' = cleanups \/ cleanups' = [cleanups EXCEPT ![TabOf[s]] = Unknown(s, FALSE)]
    BY DEF StartIntends
  <2>6. cleanups' \in [Tab -> Cleanup \cup {None}]
    BY <2>4, <2>5 DEF CoreTypes, MemTypes
  <2> QED BY <2>3, <2>6 DEF StartIntends, CoreTypes, MemTypes
<1> QED BY <1>2, <1>3, LongerTypes, Callers DEF StartIntends

\* A start whose intent was not written keeps them.
LEMMA StartWithdrawsTypes ==
  ASSUME CoreTypes, NEW s \in Start, StartWithdraws(s)
  PROVE  CoreTypes'
<1>1. call' \in [Caller -> Call]
  BY FreshType, EnterTypes, Callers DEF StartWithdraws, Refuse, Pc
<1>2. MemTypes'
  <2>1. call[s].prior \in Revocation
    BY Locals, Callers
  <2>2. cleanups' \in [Tab -> Cleanup \cup {None}]
    BY DEF StartWithdraws, CoreTypes, MemTypes
  <2> QED BY <2>1, <2>2 DEF StartWithdraws, CoreTypes, MemTypes
<1> QED BY <1>1, <1>2, LongerTypes DEF StartWithdraws

\* A start that attaches the debugger keeps them.
LEMMA StartAttachesTypes ==
  ASSUME CoreTypes, NEW s \in Start, StartAttaches(s)
  PROVE  CoreTypes'
<1> DEFINE r == [Fresh("attaching") EXCEPT !.epoch = epoch, !.owner = call[s].owner]
<1>1. r \in Call
  <2>1. Fresh("attaching") \in Call
    BY FreshType DEF Pc
  <2> QED BY <2>1, Locals, Callers, CallFields DEF CoreTypes, MemTypes
<1>2. call' \in [Caller -> Call]
  BY <1>1, EnterTypes, Callers DEF StartAttaches
<1> QED BY <1>2, SameTypes DEF StartAttaches, store

\* A start that makes the lease keeps them.
LEMMA StartLeasesTypes ==
  ASSUME CoreTypes, Posts, NEW s \in Start, StartLeases(s)
  PROVE  CoreTypes'
<1> DEFINE r == [Fresh("initializing") EXCEPT !.by = s, !.epoch = epoch']
<1>1. epoch' \in Nat
  BY DEF StartLeases, CoreTypes, MemTypes
<1>2. r \in Call
  <2>1. Fresh("initializing") \in Call
    BY FreshType DEF Pc
  <2> QED BY <2>1, <1>1, CallFields
<1>3. call' \in [Caller -> Call]
  BY <1>2, EnterTypes, Callers DEF StartLeases
<1>4. call[s].owner \in Owner
  BY DEF StartLeases, Posts, Unused, Before
<1>5. lease' \in Lease
  <2>1. TabOf[s] \in Tab
    OBVIOUS
  <2> QED BY <2>1, <1>1, <1>4 DEF StartLeases, Lease
<1>6. MemTypes'
  BY <1>1, <1>5 DEF StartLeases, CoreTypes, MemTypes
<1> QED BY <1>3, <1>6, LongerTypes DEF StartLeases, store

\* A start that gives up after its attach keeps them.
LEMMA StartGivesUpTypes ==
  ASSUME CoreTypes, NEW s \in Start, StartGivesUp(s)
  PROVE  CoreTypes'
<1>1. Fresh("rejected") \in Call /\ Fresh("late") \in Call
  BY FreshType DEF Pc
<1>2. call' \in [Caller -> Call]
  BY <1>1, EnterTypes, Callers DEF StartGivesUp
<1>3. MemTypes'
  <2>1. PICK no \in BOOLEAN : MarkUnknown(s, no)
    BY DEF StartGivesUp
  <2> QED BY <2>1, MarkTypes DEF StartGivesUp, CoreTypes, MemTypes
<1> QED BY <1>2, <1>3, LongerTypes, Callers DEF StartGivesUp

\* A start that settles a late or rejected attach keeps them.
LEMMA StartSettlesTypes ==
  ASSUME CoreTypes, NEW s \in Start, StartSettles(s)
  PROVE  CoreTypes'
<1>1. Fresh("settling") \in Call /\ Fresh("refused") \in Call
  BY FreshType DEF Pc
<1>2. call' \in [Caller -> Call]
  BY <1>1, EnterTypes, Callers DEF StartSettles, Refuse
<1>3. MemTypes'
  BY MarkTypes DEF StartSettles, CoreTypes, MemTypes
<1> QED BY <1>2, <1>3, LongerTypes, Callers DEF StartSettles

\* A start that reports its session keeps them.
LEMMA StartReadyTypes ==
  ASSUME CoreTypes, NEW s \in Start, StartReady(s)
  PROVE  CoreTypes'
<1>1. call' \in [Caller -> Call]
  BY GoTypes, Callers DEF StartReady, Pc
<1>2. MemTypes'
  BY NothingTypes DEF StartReady, CoreTypes, MemTypes
<1> QED BY <1>1, <1>2, LongerTypes, Callers DEF StartReady

\* A start whose lease is written keeps them.
LEMMA StartCommitsTypes ==
  ASSUME CoreTypes, NEW s \in Start, StartCommits(s)
  PROVE  CoreTypes'
<1>1. Fresh("uncommitted") \in Call /\ Fresh("granted") \in Call /\ Fresh("refused") \in Call
  BY FreshType DEF Pc
<1>2. call' \in [Caller -> Call]
  BY <1>1, EnterTypes, Callers DEF StartCommits
<1>3. MemTypes'
  BY MarkTypes DEF StartCommits, CoreTypes, MemTypes
<1> QED BY <1>2, <1>3, LongerTypes, Callers DEF StartCommits

\* A start that finds the lease its own and renews it keeps them.
LEMMA StartRenewsTypes ==
  ASSUME CoreTypes, NEW s \in Start, StartRenews(s)
  PROVE  CoreTypes'
<1> DEFINE r == [Fresh("committing") EXCEPT !.by = lease.by, !.epoch = epoch]
<1>1. lease.by \in Start
  BY DEF StartRenews, Own, CoreTypes, MemTypes, Lease
<1>2. r \in Call /\ Fresh("refused") \in Call
  <2>1. Fresh("committing") \in Call /\ Fresh("refused") \in Call
    BY FreshType DEF Pc
  <2> QED BY <2>1, <1>1, CallFields DEF CoreTypes, MemTypes
<1>3. call' \in [Caller -> Call]
  <2>1. Enter(s, r) \/ Enter(s, Fresh("refused"))
    BY DEF StartRenews, Refuse
  <2> QED BY <1>2, <2>1, EnterTypes, Callers
<1>4. MemTypes'
  BY NothingTypes DEF StartRenews, CoreTypes, MemTypes
<1> QED BY <1>3, <1>4, LongerTypes, Callers DEF StartRenews

\* A start that is called keeps them.
LEMMA StartCallTypes ==
  ASSUME CoreTypes, NEW s \in Start, StartCall(s)
  PROVE  CoreTypes'
<1>1. Fresh("refused") \in Call /\ \A o \in Owner : [Fresh("open") EXCEPT !.owner = o] \in Call
  <2>1. Fresh("open") \in Call /\ Fresh("refused") \in Call
    BY FreshType DEF Pc
  <2> QED BY <2>1, CallFields
<1>2. call' \in [Caller -> Call]
  BY <1>1, EnterTypes, Callers DEF StartCall
<1> QED BY <1>2, SameTypes DEF StartCall, control, store

\* Every step of a start keeps them.
LEMMA StartStepTypes ==
  ASSUME CoreTypes, Posts, NEW s \in Start, StartStep(s) \/ StartBreaks(s)
  PROVE  CoreTypes'
<1>1. CASE StartRefused(s) \/ StartBusy(s)
  BY <1>1, FreshType, EnterTypes, Callers, SameTypes DEF StartRefused, StartBusy, Refuse, Pc, control, store
<1>2. CASE StartReplaces(s)
  BY <1>2, StopTakesTypes, Callers DEF StartReplaces, Pc
<1>3. CASE StartSweeps(s)
  BY <1>3, SweepTypes, Callers, SameTypes DEF StartSweeps, Pc, control, store
<1>4. CASE StartBreaks(s)
  BY <1>4, StopFromTypes, Callers DEF StartBreaks, Pc
<1> QED BY <1>1, <1>2, <1>3, <1>4, StartRenewsTypes, StartIntendsTypes, StartAttachesTypes, StartWithdrawsTypes,
           StartLeasesTypes, StartGivesUpTypes, StartSettlesTypes, StartReadyTypes, StartCommitsTypes
        DEF StartStep

\* So does every step of the heartbeat.
LEMMA BeatStepTypes ==
  ASSUME CoreTypes, BeatStep
  PROVE  CoreTypes'
<1>1. CASE BeatBegins
  <2> DEFINE r == [Fresh("beating") EXCEPT !.by = lease.by, !.epoch = lease.epoch]
  <2>1. lease.by \in Start /\ lease.epoch \in Nat
    BY <1>1 DEF BeatBegins, CoreTypes, MemTypes, Lease
  <2>2. r \in Call
    <3>1. Fresh("beating") \in Call
      BY FreshType DEF Pc
    <3> QED BY <3>1, <2>1, CallFields
  <2>3. call' \in [Caller -> Call]
    BY <1>1, <2>2, EnterTypes, Callers DEF BeatBegins
  <2> QED BY <1>1, <2>3, SameTypes DEF BeatBegins, control, store
<1>2. CASE BeatHolds
  <2>1. call' \in [Caller -> Call]
    BY <1>2, GoTypes, Callers DEF BeatHolds, Pc
  <2>2. MemTypes'
    BY <1>2 DEF BeatHolds, CoreTypes, MemTypes
  <2> QED BY <1>2, <2>1, <2>2, LongerTypes, Callers DEF BeatHolds
<1>3. CASE BeatEnds
  <2>1. call' \in [Caller -> Call]
    BY <1>3, FreshType, EnterTypes, Callers DEF BeatEnds, Pc
  <2> QED BY <1>3, <2>1, SameTypes DEF BeatEnds, control, store
<1>4. CASE BeatFails
  BY <1>4, StopFromTypes, Callers DEF BeatFails, Pc
<1> QED BY <1>1, <1>2, <1>3, <1>4 DEF BeatStep

\* The listener for Chrome's detaches keeps the types when it is told of one.
LEMMA OnDetachTypes ==
  ASSUME CoreTypes, NEW t \in Tab, OnDetach(t)
  PROVE  CoreTypes'
<1> DEFINE settled == IF cleanups[t] # None /\ revocation.tab = t
                       THEN [revocation EXCEPT !.pending = FALSE] ELSE revocation
<1>1. settled \in Revocation
  BY DEF CoreTypes, MemTypes, Revocation
<1>2. cleanups' \in [Tab -> Cleanup \cup {None}]
  BY DEF OnDetach, CoreTypes, MemTypes
<1>3. revocation' \in Revocation
  <2>1. revocation' = settled \/ revocation' = Revoked(t, FALSE)
    BY DEF OnDetach
  <2>2. Revoked(t, FALSE) \in Revocation
    BY DEF Revoked, Revocation
  <2> QED BY <1>1, <2>1, <2>2
<1>4. lease' \in Lease \cup {None} /\ epoch' \in Nat
  BY DEF OnDetach, CoreTypes, MemTypes
<1>5. call' \in [Caller -> Call]
  <2>1. \A pc \in {"hard", "noting", "idle", "uninitialized"} : [Fresh(pc) EXCEPT !.tab = t] \in Call
    <3> TAKE pc \in {"hard", "noting", "idle", "uninitialized"}
    <3>1. Fresh(pc) \in Call
      BY FreshType DEF Pc
    <3> QED BY <3>1, CallFields
  <2>2. call' = call \/ \E pc \in {"hard", "noting", "idle", "uninitialized"} : Enter(t, [Fresh(pc) EXCEPT !.tab = t])
    BY DEF OnDetach, Noting
  <2> QED BY <2>1, <2>2, EnterTypes, Callers DEF CoreTypes
<1>6. writes' \in Seq(Entry)
  <2>1. Record(lease, settled, cleanups') \in Snapshot
    BY <1>1, <1>2 DEF Record, Snapshot, CoreTypes, MemTypes
  <2>2. [by |-> None, snap |-> Record(lease, settled, cleanups')] \in Entry
    BY <2>1 DEF Entry
  <2>3. writes' = writes \/ writes' = Append(writes, [by |-> None, snap |-> Record(lease, settled, cleanups')])
    BY DEF OnDetach
  <2> QED BY <2>2, <2>3 DEF CoreTypes
<1> QED BY <1>2, <1>3, <1>4, <1>5, <1>6 DEF OnDetach, CoreTypes, MemTypes

\* Every step of that listener keeps them.
LEMMA DetachStepTypes ==
  ASSUME CoreTypes, NEW t \in Tab, DetachStep(t)
  PROVE  CoreTypes'
<1>1. \A pc \in {"hard", "noting", "idle"} : [Fresh(pc) EXCEPT !.tab = t] \in Call
  <2> TAKE pc \in {"hard", "noting", "idle"}
  <2>1. Fresh(pc) \in Call
    BY FreshType DEF Pc
  <2> QED BY <2>1, CallFields
<1>2. CASE HardInitialized(t)
  <2>1. \E pc \in {"hard", "noting", "idle"} : Enter(t, [Fresh(pc) EXCEPT !.tab = t])
    BY <1>2 DEF HardInitialized, Noting
  <2>2. call' \in [Caller -> Call]
    BY <1>1, <2>1, EnterTypes, Callers
  <2>3. Revoked(t, FALSE) \in Revocation
    BY DEF Revoked, Revocation
  <2>4. /\ lease' = lease \/ lease' = None
        /\ revocation' = revocation \/ revocation' = Revoked(t, FALSE)
        /\ epoch' = epoch \/ epoch' = epoch + 1
        /\ cleanups' = cleanups
    BY <1>2 DEF HardInitialized
  <2>6. revocation' \in Revocation
    BY <2>3, <2>4, Zenon DEF CoreTypes, MemTypes
  <2>5. MemTypes'
    BY <2>4, <2>6 DEF CoreTypes, MemTypes
  <2> QED BY <1>2, <2>2, <2>5, LongerTypes DEF HardInitialized, store
<1>3. CASE HardWrites(t)
  <2>1. \E pc \in {"hard", "noting", "idle"} : Enter(t, [Fresh(pc) EXCEPT !.tab = t])
    BY <1>3 DEF HardWrites, Noting
  <2>2. call' \in [Caller -> Call]
    BY <1>1, <2>1, EnterTypes, Callers
  <2>3. MemTypes'
    BY <1>3 DEF HardWrites, CoreTypes, MemTypes
  <2> QED BY <1>3, <2>2, <2>3, LongerTypes DEF HardWrites
<1>4. CASE Notes(t, "idle")
  BY <1>4, NotesTypes, Callers DEF Pc
<1> QED BY <1>2, <1>3, <1>4, OnDetachTypes DEF DetachStep

\* The initialization keeps the types when it loads the store.
LEMMA BootLoadsTypes ==
  ASSUME CoreTypes, BootLoads
  PROVE  CoreTypes'
<1>1. saved.revocation \in Revocation /\ saved.cleanups \in [Tab -> Cleanup \cup {None}]
      /\ saved.lease \in Lease \cup {None}
  BY DEF CoreTypes, Snapshot
<1>2. Due \in [Tab -> Cleanup \cup {None}]
  BY <1>1, NothingTypes DEF Due
<1>3. MemTypes'
  BY <1>1, <1>2 DEF BootLoads, CoreTypes, MemTypes
<1> DEFINE with(pc) == [Fresh(pc) EXCEPT !.tab = saved.lease.tab, !.owner = saved.lease.owner,
                                         !.by = saved.lease.by, !.epoch = saved.lease.epoch]
<1>4. saved.lease # None => with("dropping") \in Call /\ with("looking") \in Call
  <2>1. Fresh("dropping") \in Call /\ Fresh("looking") \in Call
    BY FreshType DEF Pc
  <2>2. saved.lease # None => /\ saved.lease.tab \in Tab /\ saved.lease.owner \in Owner
                              /\ saved.lease.by \in Start /\ saved.lease.epoch \in Nat
    BY <1>1 DEF Lease
  <2> QED BY <2>1, <2>2, CallFields
<1>5. Fresh("recording") \in Call
  BY FreshType DEF Pc
<1>6. Enter(Boot, Fresh("recording")) \/ (saved.lease # None /\ Enter(Boot, with("dropping")))
        \/ (saved.lease # None /\ Enter(Boot, with("looking")))
  BY DEF BootLoads
<1> HIDE DEF with
<1>7. call' \in [Caller -> Call]
  BY <1>4, <1>5, <1>6, EnterTypes, Callers
<1>8. saved' = saved /\ (writes' = writes \/ Persist(Boot))
  BY DEF BootLoads
<1> QED BY <1>3, <1>7, <1>8, LongerTypes, Callers

\* Every step of the initialization keeps them.
LEMMA BootStepTypes ==
  ASSUME CoreTypes, Posts, BootWakes \/ BootStep
  PROVE  CoreTypes'
<1>1. CASE BootWakes
  BY <1>1, GoTypes, Callers, SameTypes DEF BootWakes, Pc, control, store
<1>2. CASE BootReads
  BY <1>2, SameTypes DEF BootReads, control, store, CoreTypes
<1>3. CASE BootTakesUp
  <2>1. call' \in [Caller -> Call]
    BY <1>3, GoTypes, Callers DEF BootTakesUp, Pc
  <2>2. lease' \in Lease
    BY <1>3, Locals, Callers DEF BootTakesUp, Posts, Looking, Lease
  <2>3. epoch' \in Nat
    BY <1>3, Locals, Callers DEF BootTakesUp, CoreTypes, MemTypes
  <2>4. MemTypes'
    BY <1>3, <2>2, <2>3 DEF BootTakesUp, CoreTypes, MemTypes
  <2> QED BY <1>3, <2>1, <2>4, LongerTypes DEF BootTakesUp, store
<1>4. CASE BootLost
  <2>1. call' \in [Caller -> Call]
    BY <1>4, GoTypes, Callers DEF BootLost, Pc
  <2>2. revocation' \in Revocation
    BY <1>4, Locals, Callers DEF BootLost, Revoked, Revocation
  <2>3. MemTypes'
    BY <1>4, <2>2 DEF BootLost, CoreTypes, MemTypes
  <2> QED BY <1>4, <2>1, <2>3, LongerTypes, Callers DEF BootLost
<1>5. CASE BootEnds
  <2>1. PICK yes \in BOOLEAN : Enter(Boot, Fresh(Back("up", yes)))
    BY <1>5 DEF BootEnds
  <2>2. Fresh(Back("up", yes)) \in Call
    BY BackType, FreshType DEF Pc
  <2>3. call' \in [Caller -> Call]
    BY <2>1, <2>2, EnterTypes, Callers
  <2> QED BY <1>5, <2>3, SameTypes DEF BootEnds, control, store
<1>6. CASE BootVerifies
  <2>1. call' \in [Caller -> Call]
    BY <1>6, GoTypes, Callers DEF BootVerifies, Pc
  <2>2. MemTypes'
    BY <1>6 DEF BootVerifies, CoreTypes, MemTypes
  <2> QED BY <1>6, <2>1, <2>2, LongerTypes, Callers DEF BootVerifies
<1>7. CASE BootFails
  BY <1>7, StopFromTypes, Callers DEF BootFails, Pc
<1>8. CASE \E seen \in BOOLEAN : BootDrops(seen)
  <2>1. PICK seen \in BOOLEAN : BootDrops(seen)
    BY <1>8
  <2>2. call' \in [Caller -> Call]
    BY <2>1, GoTypes, Callers DEF BootDrops, Pc
  <2>3. revocation' \in Revocation
    BY <2>1, Locals, Callers DEF BootDrops, Revoked, Revocation
  <2>4. cleanups' \in [Tab -> Cleanup \cup {None}]
    BY <2>1, NothingTypes DEF BootDrops, CoreTypes, MemTypes
  <2>5. MemTypes'
    BY <2>1, <2>3, <2>4 DEF BootDrops, CoreTypes, MemTypes
  <2> QED BY <2>1, <2>2, <2>5, LongerTypes, Callers DEF BootDrops
<1>9. CASE \E seen \in BOOLEAN : BootLoses(seen)
  <2>1. PICK seen \in BOOLEAN : BootLoses(seen)
    BY <1>9
  <2>2. call' \in [Caller -> Call]
    BY <2>1, GoTypes, Callers DEF BootLoses, Pc
  <2>3. MemTypes'
    BY <2>1 DEF BootLoses, CoreTypes, MemTypes
  <2> QED BY <2>1, <2>2, <2>3, LongerTypes DEF BootLoses, store
<1> QED BY <1>1, <1>2, <1>3, <1>4, <1>5, <1>6, <1>7, <1>8, <1>9, BootLoadsTypes DEF BootStep

\* storage keeps them when it applies or refuses the first write of the chain.
LEMMA DiskTypes ==
  ASSUME CoreTypes, NEW done \in BOOLEAN, Disk(done)
  PROVE  CoreTypes'
<1> DEFINE w == Head(writes)
<1>1. w \in Entry /\ Tail(writes) \in Seq(Entry)
  BY TailFacts DEF Disk, CoreTypes
<1>2. w.snap \in Snapshot /\ w.by \in Caller \cup {None}
  BY <1>1 DEF Entry
<1>3. call' \in [Caller -> Call]
  <2>1. CASE w.by = None
    BY <2>1 DEF Disk, CoreTypes
  <2>2. CASE w.by # None
    <3>1. PICK v \in {"ok", "bad"} : call' = [call EXCEPT ![w.by] = [call[w.by] EXCEPT !.reply = v]]
      <4>1. PICK v \in {"ok", "bad"} : call' = [call EXCEPT ![w.by].reply = v]
        BY <2>2 DEF Disk
      <4> QED BY <4>1, Zenon
    <3>2. [call[w.by] EXCEPT !.reply = v] \in Call
      BY <1>2, <2>2, Locals, CallFields
    <3> QED BY <3>1, <3>2 DEF CoreTypes
  <2> QED BY <2>1, <2>2
<1>4. saved' \in Snapshot
  BY <1>2 DEF Disk, CoreTypes
<1> QED BY <1>1, <1>3, <1>4 DEF Disk, control, CoreTypes, MemTypes

\* Chrome keeps them when it runs the first attach or detach of a tab.
LEMMA RunChromeTypes ==
  ASSUME CoreTypes, NEW t \in Tab, NEW done \in BOOLEAN, RunChrome(t, done)
  PROVE  CoreTypes'
<1> DEFINE op == Head(ops[t])
<1>1. call' \in [Caller -> Call]
  <2>1. CASE call' = call
    BY <2>1 DEF CoreTypes
  <2>2. CASE call' # call
    <3>1. op.by \in Start /\ \E v \in {"ok", "bad"} : call' = [call EXCEPT ![op.by].reply = v]
      BY <2>2 DEF RunChrome
    <3>2. PICK v \in {"ok", "bad"} : call' = [call EXCEPT ![op.by] = [call[op.by] EXCEPT !.reply = v]]
      BY <3>1, Zenon
    <3>3. [call[op.by] EXCEPT !.reply = v] \in Call
      BY <3>1, Locals, Callers, CallFields
    <3> QED BY <3>2, <3>3 DEF CoreTypes
  <2> QED BY <2>1, <2>2
<1> QED BY <1>1, SameTypes DEF RunChrome, store

\* A restart of the worker or of the browser keeps them: what memory held is gone.
LEMMA RestartTypes ==
  ASSUME CoreTypes, WorkerRestarts \/ BrowserRestarts
  PROVE  CoreTypes'
<1>1. \A pc \in {"gone", "down", "idle"} : Fresh(pc) \in Call
  BY FreshType DEF Pc
<1>2. call' \in [Caller -> Call]
  <2>1. call' = [c \in Caller |->
          IF c \in Start \cup Stops
          THEN IF call[c].pc \in {"idle", "granted", "refused", "done"} THEN call[c] ELSE Fresh("gone")
          ELSE Fresh(IF c = Boot THEN "down" ELSE "idle")]
    BY DEF WorkerRestarts, BrowserRestarts, Restarts
  <2> QED BY <1>1, <2>1 DEF CoreTypes
<1>3. saved' \in Snapshot /\ writes' \in Seq(Entry)
  <2>1. writes' = <<>> /\ (saved' = saved \/ saved' = Blank)
    BY DEF WorkerRestarts, BrowserRestarts, Restarts
  <2> QED BY <2>1, NothingTypes DEF CoreTypes
<1>4. MemTypes'
  BY NothingTypes DEF WorkerRestarts, BrowserRestarts, Restarts, MemTypes
<1> QED BY <1>2, <1>3, <1>4 DEF CoreTypes

\* Every step keeps the types of the calls, the memory and the store.
LEMMA NextTypes ==
  ASSUME CoreTypes, Posts, [Next]_vars
  PROVE  CoreTypes'
<1>1. ASSUME NEW c \in Caller, Goes(c) PROVE CoreTypes'
  <2>1. CASE Broken(c)
    <3>1. Fresh(Back(call[c].back, FALSE)) \in Call
      BY Locals, BackType, FreshType
    <3> QED BY <2>1, <3>1, EnterTypes, SameTypes DEF Broken, control, store
  <2>2. CASE c = Alarm /\ AlarmRings
    BY <2>2, SweepTypes, SameTypes DEF AlarmRings, Pc, control, store
  <2>3. CASE c \in Stops /\ Notes(c, "done")
    BY <2>3, NotesTypes DEF Pc
  <2> QED BY <1>1, <2>1, <2>2, <2>3, StartStepTypes, DetachStepTypes, BeatStepTypes, BootStepTypes,
             StopStepTypes, SweepStepTypes DEF Goes
<1>2. ASSUME NEW c \in Caller, Comes(c) PROVE CoreTypes'
  <2>1. CASE c \in Stops /\ Release(c)
    <3>1. Noting(c, "done") \in Pc
      BY DEF Noting, Pc
    <3> QED BY <2>1, <3>1, StopFromTypes DEF Release
  <2> QED BY <1>2, <2>1, StartCallTypes DEF Comes
<1>3. CASE Outside
  <2>1. CASE \E s \in Start : CancelStart(s)
    <3>1. PICK s \in Start : CancelStart(s)
      BY <2>1
    <3>2. epoch' \in Nat
      BY <3>1 DEF CancelStart, CoreTypes, MemTypes
    <3> QED BY <3>1, <3>2 DEF CancelStart, CoreTypes, MemTypes, store
  <2>2. CASE \E t \in Tab : \E why \in {"canceled_by_user", "target_closed"} : ChromeDetaches(t, why)
    BY <2>2, SameTypes DEF ChromeDetaches, control, store, CoreTypes
  <2>3. CASE \E done \in BOOLEAN : Pauses(done)
    BY <2>3, SameTypes DEF Pauses, control, store, CoreTypes
  <2> QED BY <1>3, <2>1, <2>2, <2>3, RunChromeTypes, DiskTypes DEF Outside
<1>4. CASE UNCHANGED vars
  BY <1>4, SameTypes DEF vars, control, store, CoreTypes
<1> QED BY <1>1, <1>2, <1>3, <1>4, RestartTypes DEF Next

------------------------------------------------------------------------------
(* A session that ended: the invariant.                                     *)

Waiting == {"stopping", "reporting", "intending", "rejected", "late", "settling",
            "committing", "uncommitted", "swept", "beaten", "recording", "recovered"}
Over    == {"idle", "refused", "undoing", "replaced", "up", "failing", "noting", "done"}

Used(l)       == l # None => l.by \notin New
Without(l, b) == l # None => l.by # b

\* A part of a call returns to where it was called from.
ReturnsAt(c, r) ==
  /\ r.back \in Over
  /\ c \in Start => r.back \in (IF r.pc \in Taking THEN {"refused", "undoing", "replaced"}
                                ELSE IF r.pc \in Within THEN {"refused", "undoing"} ELSE {"idle"})
  /\ c = Boot /\ r.pc \in Within => r.back \in {"up", "failing"}

Returns == \A c \in Caller : ReturnsAt(c, call[c])

\* The initialization of the lease and that of the pause go together.
Loading ==
  /\ call[Boot].pc = "down" <=> loaded = "down"
  /\ call[Boot].pc = "reading" <=> loaded \in {"reading", "read"}

\* Nobody is in control, or on the way to it, before the stored lease is.
Boots ==
  call[Boot].pc \in Booting =>
    /\ lease = None
    /\ \A c \in Caller : call[c].pc \notin Taking
    /\ \A s \in New : call[s].pc = "idle"

\* Who has a write in the chain waits for it, and has no other there.
Waits ==
  \A i \in DOMAIN writes : writes[i].by # None =>
    /\ call[writes[i].by].reply = "" /\ call[writes[i].by].pc \in Waiting
    /\ \A j \in DOMAIN writes : writes[j].by = writes[i].by => j = i

\* A start makes one lease.
OneLease ==
  /\ Used(lease) /\ Used(saved.lease)
  /\ \A i \in DOMAIN writes : Used(writes[i].snap.lease)
  /\ call[Boot].pc \in Looking => call[Boot].by \notin New
  /\ \A c \in Caller : call[c].pc \in Taking => call[c].by \in Start \ New
  /\ ended \subseteq Start \ New

\* The lease that a stop took is gone from the memory; and from the disk, when
\* the last write of the stop is.
TakenAt(c) ==
  /\ Without(lease, call[c].by)
  /\ call[c].pc = "reporting" /\ call[c].reply = "" =>
       \E i \in DOMAIN writes :
         /\ writes[i].by = c
         /\ \A j \in DOMAIN writes : j >= i => Without(writes[j].snap.lease, call[c].by)
  /\ call[c].pc = "reporting" /\ call[c].reply = "ok" =>
       /\ Without(saved.lease, call[c].by)
       /\ \A j \in DOMAIN writes : Without(writes[j].snap.lease, call[c].by)

Taken == \A c \in Caller : call[c].pc \in Taking => TakenAt(c)

\* And nothing brings it back.
Gone ==
  \A b \in ended :
    /\ Without(lease, b) /\ Without(saved.lease, b)
    /\ \A j \in DOMAIN writes : Without(writes[j].snap.lease, b)
    /\ call[Boot].pc \in Looking => call[Boot].by # b

LeaseInv == CoreTypes /\ Posts /\ Returns /\ Loading /\ Boots /\ Waits /\ OneLease /\ Taken /\ Gone

------------------------------------------------------------------------------
(* A turn of one call.                                                      *)

\* A write is added to the chain, by the call or by nobody.
Pushes(c, w) ==
  /\ writes' = Append(writes, w)
  /\ w.snap.lease \in {lease, lease'}
  /\ w.by # None => w.by = c /\ call'[c].pc \in Waiting /\ call'[c].reply = ""

Written(c) == writes' = writes \/ \E w \in Entry : Pushes(c, w)

\* A call goes on that waits for no write.
Turn(c) ==
  /\ \A d \in Caller : d # c => call'[d] = call[d]
  /\ call[c].pc \in Waiting => Answered(c)
  /\ saved' = saved
  /\ Written(c)
  /\ lease' = lease \/ lease' = None

\* It takes the lease, or goes on with what it took.
Takes(c) ==
  call'[c].pc \in Taking =>
    \/ /\ call'[c].pc = "stopping" /\ lease # None /\ lease' = None /\ call'[c].by = lease.by
    \/ /\ call[c].pc \in Taking /\ call'[c].by = call[c].by
       /\ call'[c].pc = "reporting" =>
            call'[c].reply = "" /\ \E w \in Entry : writes' = Append(writes, w) /\ w.by = c /\ w.snap.lease = lease'

\* It ends a session, or does not.
Ends(c) ==
  \/ ended' = ended
  \/ /\ call[c].pc = "reporting" /\ call[c].reply = "ok"
     /\ ended' = ended \cup {call[c].by} /\ lease' = lease /\ writes' = writes

\* A start does not become new.
Uses(c) ==
  c \in Start /\ Unused(c)' => Unused(c) /\ (call[c].pc # "idle" \/ Initialized)

\* The initialization looks at the stored lease.
Looks(c) ==
  c = Boot =>
    /\ call'[Boot].pc \in Booting => call[Boot].pc \in Booting
    /\ call'[Boot].pc \in Looking => saved.lease # None /\ call'[Boot].by = saved.lease.by

\* No start becomes new again by a turn of a call, and the other new ones stand still.
LEMMA NewShrinks ==
  ASSUME NEW c \in Caller, Turn(c), Uses(c)
  PROVE  New' \subseteq New /\ \A s \in New' : s = c \/ call'[s] = call[s]
BY Callers DEF Turn, Uses, New, Unused

\* The chain, before and after.
LEMMA WritesAfter ==
  ASSUME LeaseInv, NEW w \in Entry, writes' = Append(writes, w)
  PROVE  \E n \in Nat : /\ DOMAIN writes = 1..n /\ DOMAIN writes' = 1..(n + 1)
                        /\ writes'[n + 1] = w /\ \A i \in 1..n : writes'[i] = writes[i] /\ writes[i] \in Entry
<1>1. writes \in Seq(Entry)
  BY DEF LeaseInv, CoreTypes
<1>2. DOMAIN writes = 1..Len(writes) /\ Len(writes) \in Nat
  BY <1>1
<1>3. DOMAIN writes' = 1..(Len(writes) + 1) /\ writes'[Len(writes) + 1] = w
  BY <1>1
<1>4. \A i \in 1..Len(writes) : writes'[i] = writes[i] /\ writes[i] \in Entry
  BY <1>1
<1> QED BY <1>2, <1>3, <1>4

\* A turn keeps who waits for which write: a call that goes on waits for none, and one
\* that waits has added the only one.
LEMMA WaitsKept ==
  ASSUME LeaseInv, NEW c \in Caller, Turn(c)
  PROVE  Waits'
<1>1. \A i \in DOMAIN writes : writes[i].by # c /\ (writes[i].by # None => writes[i].by \in Caller)
  <2> SUFFICES ASSUME NEW i \in DOMAIN writes PROVE writes[i].by # c /\ writes[i].by \in Caller \cup {None}
    OBVIOUS
  <2>1. writes[i] \in Entry
    BY DEF LeaseInv, CoreTypes
  <2>2. writes[i].by \in Caller \cup {None}
    BY <2>1 DEF Entry
  <2>3. c # None
    BY DEF Caller
  <2>4. writes[i].by = c => call[c].reply = "" /\ call[c].pc \in Waiting
    BY <2>3 DEF LeaseInv, Waits
  <2> QED BY <2>2, <2>4 DEF Turn, Answered
<1>2. CASE writes' = writes
  BY <1>1, <1>2 DEF LeaseInv, Waits, Turn
<1>3. ASSUME NEW w \in Entry, Pushes(c, w) PROVE Waits'
  <2>1. PICK n \in Nat : /\ DOMAIN writes = 1..n /\ DOMAIN writes' = 1..(n + 1)
                         /\ writes'[n + 1] = w /\ \A i \in 1..n : writes'[i] = writes[i] /\ writes[i] \in Entry
    BY <1>3, WritesAfter DEF Pushes
  <2> SUFFICES ASSUME NEW i \in 1..(n + 1), writes'[i].by # None
               PROVE  /\ call'[writes'[i].by].reply = "" /\ call'[writes'[i].by].pc \in Waiting
                      /\ \A j \in 1..(n + 1) : writes'[j].by = writes'[i].by => j = i
    BY <2>1 DEF Waits
  <2>2. CASE i = n + 1
    <3>1. writes'[i].by = c
      BY <1>3, <2>1, <2>2 DEF Pushes
    <3>2. \A j \in 1..(n + 1) : writes'[j].by = c => j = n + 1
      <4> SUFFICES ASSUME NEW j \in 1..(n + 1), writes'[j].by = c, j # n + 1 PROVE FALSE
        OBVIOUS
      <4>1. j \in 1..n
        OBVIOUS
      <4> QED BY <1>1, <2>1, <4>1
    <3> QED BY <1>3, <2>1, <2>2, <3>1, <3>2 DEF Pushes
  <2>3. CASE i # n + 1
    <3>1. i \in 1..n
      BY <2>3
    <3>2. writes'[i] = writes[i] /\ writes[i].by # c /\ writes[i].by \in Caller /\ writes[i].by # None
      BY <1>1, <2>1, <3>1
    <3>3. /\ call[writes[i].by].reply = "" /\ call[writes[i].by].pc \in Waiting
          /\ \A j \in 1..n : writes[j].by = writes[i].by => j = i
      BY <2>1, <3>1, <3>2 DEF LeaseInv, Waits
    <3>4. call'[writes[i].by] = call[writes[i].by]
      BY <3>2 DEF Turn
    <3>5. \A j \in 1..(n + 1) : writes'[j].by = writes'[i].by => j = i
      <4> SUFFICES ASSUME NEW j \in 1..(n + 1), writes'[j].by = writes[i].by PROVE j = i
        BY <3>2
      <4>1. CASE j = n + 1
        BY <1>3, <2>1, <3>2, <4>1 DEF Pushes
      <4>2. CASE j # n + 1
        <5>1. j \in 1..n
          BY <4>2
        <5> QED BY <2>1, <3>3, <5>1
      <4> QED BY <4>1, <4>2
    <3> QED BY <3>2, <3>3, <3>4, <3>5
  <2> QED BY <2>2, <2>3
<1> QED BY <1>2, <1>3 DEF Turn, Written

\* A turn before the stored lease was looked at puts nobody in control.
LEMMA BootsKept ==
  ASSUME LeaseInv, NEW c \in Caller, Turn(c), Takes(c), Uses(c), Looks(c)
  PROVE  Boots'
<1> SUFFICES ASSUME call'[Boot].pc \in Booting
             PROVE  /\ lease' = None
                    /\ \A d \in Caller : call'[d].pc \notin Taking
                    /\ \A s \in New' : call'[s].pc = "idle"
  BY DEF Boots
<1>1. call[Boot].pc \in Booting
  BY Callers DEF Turn, Looks
<1>2. /\ lease = None /\ \A d \in Caller : call[d].pc \notin Taking
      /\ \A s \in New : call[s].pc = "idle"
  BY <1>1 DEF LeaseInv, Boots
<1>3. ~Initialized
  BY <1>1 DEF Booting, Initialized
<1>4. \A d \in Caller : call'[d].pc \notin Taking
  BY <1>2 DEF Turn, Takes
<1>5. \A s \in New' : call'[s].pc = "idle"
  <2> SUFFICES ASSUME NEW s \in New' PROVE call'[s].pc = "idle"
    OBVIOUS
  <2>1. s \in New /\ s \in Start /\ call[s].pc = "idle"
    BY <1>2, NewShrinks DEF New
  <2>2. s # c
    BY <1>3, <2>1 DEF Uses, New
  <2> QED BY <2>1, <2>2, Callers DEF Turn
<1> QED BY <1>2, <1>4, <1>5 DEF Turn

\* What a stored lease is.
LEMMA StoredLease ==
  ASSUME LeaseInv
  PROVE  /\ lease # None => lease \in Lease /\ lease.by \in Start
         /\ saved.lease # None => saved.lease \in Lease /\ saved.lease.by \in Start
         /\ \A i \in DOMAIN writes : writes[i].snap.lease # None =>
              writes[i].snap.lease \in Lease /\ writes[i].snap.lease.by \in Start
<1>1. lease \in Lease \cup {None} /\ saved.lease \in Lease \cup {None}
  BY DEF LeaseInv, CoreTypes, MemTypes, Snapshot
<1>2. \A i \in DOMAIN writes : writes[i].snap.lease \in Lease \cup {None}
  <2> SUFFICES ASSUME NEW i \in DOMAIN writes PROVE writes[i].snap.lease \in Lease \cup {None}
    OBVIOUS
  <2>1. writes[i] \in Entry
    BY DEF LeaseInv, CoreTypes
  <2> QED BY <2>1 DEF Entry, Snapshot
<1>3. \A l \in Lease : l.by \in Start
  BY DEF Lease
<1> QED BY <1>1, <1>2, <1>3

\* A turn makes no lease of a start that is still new.
LEMMA OneLeaseKept ==
  ASSUME LeaseInv, NEW c \in Caller, Turn(c), Takes(c), Ends(c), Uses(c), Looks(c)
  PROVE  OneLease'
<1>1. New' \subseteq New
  BY NewShrinks
<1>2. Used(lease)' /\ Used(saved.lease)'
  BY <1>1, StoredLease DEF LeaseInv, OneLease, Used, Turn
<1>3. \A i \in DOMAIN writes' : (writes'[i].snap.lease # None => writes'[i].snap.lease.by \notin New')
  <2>1. CASE writes' = writes
    BY <1>1, <2>1, StoredLease DEF LeaseInv, OneLease, Used
  <2>2. ASSUME NEW w \in Entry, Pushes(c, w), NEW i \in DOMAIN writes', writes'[i].snap.lease # None
        PROVE  writes'[i].snap.lease.by \notin New'
    <3>1. PICK n \in Nat : /\ DOMAIN writes = 1..n /\ DOMAIN writes' = 1..(n + 1)
                           /\ writes'[n + 1] = w /\ \A k \in 1..n : writes'[k] = writes[k] /\ writes[k] \in Entry
      BY <2>2, WritesAfter DEF Pushes
    <3>2. CASE i = n + 1
      <4>1. w.snap.lease # None /\ w.snap.lease = lease
        BY <2>2, <3>1, <3>2 DEF Pushes, Turn
      <4> QED BY <1>1, <3>1, <3>2, <4>1, StoredLease DEF LeaseInv, OneLease, Used
    <3>3. CASE i # n + 1
      <4>1. i \in 1..n
        BY <3>1, <3>3
      <4>2. writes'[i] = writes[i] /\ i \in DOMAIN writes
        BY <3>1, <4>1
      <4> QED BY <1>1, <2>2, <4>2, StoredLease DEF LeaseInv, OneLease, Used
    <3> QED BY <3>2, <3>3
  <2> QED BY <2>1, <2>2 DEF Turn, Written
<1>4. call'[Boot].pc \in Looking => call'[Boot].by \notin New'
  <2> SUFFICES ASSUME call'[Boot].pc \in Looking PROVE call'[Boot].by \notin New'
    OBVIOUS
  <2>1. CASE c = Boot
    BY <1>1, <2>1, StoredLease DEF Looks, LeaseInv, OneLease, Used
  <2>2. CASE c # Boot
    BY <1>1, <2>2, Callers DEF Turn, LeaseInv, OneLease, Posts
  <2> QED BY <2>1, <2>2
<1>5. \A d \in Caller : call'[d].pc \in Taking => call'[d].by \in Start \ New'
  <2> SUFFICES ASSUME NEW d \in Caller, call'[d].pc \in Taking
               PROVE  call'[d].by \in Start \ New'
    OBVIOUS
  <2>1. CASE d = c /\ lease # None /\ call'[c].by = lease.by
    BY <1>1, <2>1, StoredLease DEF LeaseInv, OneLease, Used
  <2>2. CASE call[d].pc \in Taking /\ call'[d].by = call[d].by
    BY <1>1, <2>2 DEF LeaseInv, OneLease
  <2> QED BY <2>1, <2>2 DEF Turn, Takes
<1>6. \A b \in ended' : b \in Start \ New'
  <2> SUFFICES ASSUME NEW b \in ended' PROVE b \in Start \ New'
    OBVIOUS
  <2>1. CASE b \in ended
    BY <1>1, <2>1 DEF LeaseInv, OneLease
  <2>2. CASE b = call[c].by /\ call[c].pc = "reporting"
    BY <1>1, <2>2 DEF LeaseInv, OneLease, Taking
  <2> QED BY <2>1, <2>2 DEF Ends
<1> QED BY <1>2, <1>3, <1>4, <1>5, <1>6 DEF OneLease, Used

\* A turn brings no ended session back: a session ends when its lease is in no snapshot.
LEMMA GoneKept ==
  ASSUME LeaseInv, NEW c \in Caller, Turn(c), Takes(c), Ends(c), Uses(c), Looks(c)
  PROVE  Gone'
<1> SUFFICES ASSUME NEW b \in ended'
             PROVE  /\ Without(lease', b) /\ Without(saved'.lease, b)
                    /\ \A j \in DOMAIN writes' : Without(writes'[j].snap.lease, b)
                    /\ call'[Boot].pc \in Looking => call'[Boot].by # b
  BY DEF Gone, Without
<1>1. CASE b \in ended
  <2>1. /\ Without(lease, b) /\ Without(saved.lease, b)
        /\ \A j \in DOMAIN writes : Without(writes[j].snap.lease, b)
        /\ call[Boot].pc \in Looking => call[Boot].by # b
    BY <1>1 DEF LeaseInv, Gone
  <2>2. Without(lease', b) /\ Without(saved'.lease, b)
    BY <2>1 DEF Turn, Without
  <2>3. \A j \in DOMAIN writes' : Without(writes'[j].snap.lease, b)
    <3>1. CASE writes' = writes
      BY <2>1, <3>1
    <3>2. ASSUME NEW w \in Entry, Pushes(c, w), NEW j \in DOMAIN writes' PROVE Without(writes'[j].snap.lease, b)
      <4>1. PICK n \in Nat : /\ DOMAIN writes = 1..n /\ DOMAIN writes' = 1..(n + 1)
                             /\ writes'[n + 1] = w /\ \A k \in 1..n : writes'[k] = writes[k] /\ writes[k] \in Entry
        BY <3>2, WritesAfter DEF Pushes
      <4>2. CASE j = n + 1
        BY <2>1, <2>2, <3>2, <4>1, <4>2 DEF Pushes
      <4>3. CASE j # n + 1
        <5>1. j \in 1..n
          BY <4>1, <4>3
        <5> QED BY <2>1, <4>1, <5>1
      <4> QED BY <4>2, <4>3
    <3> QED BY <3>1, <3>2 DEF Turn, Written
  <2>4. call'[Boot].pc \in Looking => call'[Boot].by # b
    <3>1. CASE c = Boot
      BY <2>1, <3>1 DEF Looks, Without
    <3>2. CASE c # Boot
      BY <2>1, <3>2, Callers DEF Turn
    <3> QED BY <3>1, <3>2
  <2> QED BY <2>2, <2>3, <2>4
<1>2. CASE b \notin ended
  <2>1. /\ call[c].pc = "reporting" /\ call[c].reply = "ok" /\ b = call[c].by
        /\ lease' = lease /\ writes' = writes
    BY <1>2 DEF Ends
  <2>2. /\ Without(lease, b) /\ Without(saved.lease, b)
        /\ \A j \in DOMAIN writes : Without(writes[j].snap.lease, b)
    BY <2>1 DEF LeaseInv, Taken, TakenAt, Taking
  <2>3. call[Boot].pc \notin Booting
    BY <2>1 DEF LeaseInv, Boots, Taking
  <2>4. call'[Boot].pc \notin Looking
    BY <2>3, Callers DEF Turn, Looks, Looking, Booting
  <2> QED BY <2>1, <2>2, <2>4 DEF Turn
<1> QED BY <1>1, <1>2

\* A turn keeps the lease a stop took out of memory, and out of the last write it queued.
LEMMA TakenKept ==
  ASSUME LeaseInv, NEW c \in Caller, Turn(c), Takes(c)
  PROVE  Taken'
<1> SUFFICES ASSUME NEW d \in Caller, call'[d].pc \in Taking
             PROVE  TakenAt(d)'
  BY DEF Taken
<1> DEFINE b == call'[d].by
<1>1. CASE d = c /\ call'[c].pc = "stopping" /\ lease' = None
  BY <1>1 DEF TakenAt, Without
<1>2. CASE call[d].pc \in Taking /\ b = call[d].by
           /\ (d = c => (call'[d].pc = "reporting" =>
                 call'[c].reply = "" /\ \E w \in Entry : writes' = Append(writes, w) /\ w.by = c /\ w.snap.lease = lease'))
  <2>1. TakenAt(d)
    BY <1>2 DEF LeaseInv, Taken
  <2>2. Without(lease, b) /\ Without(lease', b)
    BY <1>2, <2>1 DEF TakenAt, Turn, Without
  <2>3. CASE d = c
    <3>1. CASE call'[d].pc # "reporting"
      BY <2>2, <3>1 DEF TakenAt
    <3>2. ASSUME call'[d].pc = "reporting", NEW w \in Entry, writes' = Append(writes, w), w.by = c, w.snap.lease = lease'
          PROVE  TakenAt(d)'
      <4>1. PICK n \in Nat : /\ DOMAIN writes = 1..n /\ DOMAIN writes' = 1..(n + 1)
                             /\ writes'[n + 1] = w /\ \A k \in 1..n : writes'[k] = writes[k] /\ writes[k] \in Entry
        BY <3>2, WritesAfter
      <4>2. \A j \in DOMAIN writes' : j >= n + 1 => Without(writes'[j].snap.lease, b)
        <5> SUFFICES ASSUME NEW j \in 1..(n + 1), j >= n + 1 PROVE Without(writes'[j].snap.lease, b)
          BY <4>1
        <5>1. j = n + 1
          OBVIOUS
        <5> QED BY <2>2, <3>2, <4>1, <5>1
      <4>3. n + 1 \in DOMAIN writes' /\ writes'[n + 1].by = d
        BY <2>3, <3>2, <4>1
      <4>4. call'[d].reply = ""
        BY <1>2, <2>3, <3>2
      <4> QED BY <2>2, <4>2, <4>3, <4>4 DEF TakenAt
    <3> QED BY <1>2, <2>3, <3>1, <3>2
  <2>4. CASE d # c
    <3>1. call'[d] = call[d] /\ saved' = saved
      BY <2>4 DEF Turn
    <3>2. CASE writes' = writes
      BY <2>1, <2>2, <3>1, <3>2 DEF TakenAt
    <3>3. ASSUME NEW w \in Entry, Pushes(c, w) PROVE TakenAt(d)'
      <4>1. PICK n \in Nat : /\ DOMAIN writes = 1..n /\ DOMAIN writes' = 1..(n + 1)
                             /\ writes'[n + 1] = w /\ \A k \in 1..n : writes'[k] = writes[k] /\ writes[k] \in Entry
        BY <3>3, WritesAfter DEF Pushes
      <4>2. Without(w.snap.lease, b)
        BY <2>2, <3>3 DEF Pushes
      <4>3. ASSUME call[d].pc = "reporting", call[d].reply = ""
            PROVE  \E i \in DOMAIN writes' :
                     /\ writes'[i].by = d
                     /\ \A j \in DOMAIN writes' : j >= i => Without(writes'[j].snap.lease, b)
        <5>1. PICK i \in 1..n : /\ writes[i].by = d
                                /\ \A j \in 1..n : j >= i => Without(writes[j].snap.lease, b)
          BY <1>2, <2>1, <4>1, <4>3 DEF TakenAt
        <5>2. \A j \in 1..(n + 1) : j >= i => Without(writes'[j].snap.lease, b)
          <6> SUFFICES ASSUME NEW j \in 1..(n + 1), j >= i PROVE Without(writes'[j].snap.lease, b)
            OBVIOUS
          <6>1. CASE j = n + 1
            BY <4>1, <4>2, <6>1
          <6>2. CASE j # n + 1
            <7>1. j \in 1..n
              BY <6>2
            <7> QED BY <4>1, <5>1, <7>1
          <6> QED BY <6>1, <6>2
        <5>3. i \in 1..(n + 1) /\ writes'[i].by = d
          BY <4>1, <5>1
        <5> QED BY <4>1, <5>2, <5>3
      <4>4. ASSUME call[d].pc = "reporting", call[d].reply = "ok", NEW j \in DOMAIN writes'
            PROVE  Without(writes'[j].snap.lease, b)
        <5>1. CASE j = n + 1
          BY <4>1, <4>2, <5>1
        <5>2. CASE j # n + 1
          <6>1. j \in 1..n
            BY <4>1, <5>2
          <6> QED BY <1>2, <2>1, <4>1, <4>4, <6>1 DEF TakenAt
        <5> QED BY <5>1, <5>2
      <4>5. call[d].pc = "reporting" /\ call[d].reply = "ok" => Without(saved.lease, b)
        BY <1>2, <2>1 DEF TakenAt
      <4> QED BY <2>2, <3>1, <4>3, <4>4, <4>5 DEF TakenAt
    <3> QED BY <3>2, <3>3 DEF Turn, Written
  <2> QED BY <2>3, <2>4
<1> QED BY <1>1, <1>2 DEF Turn, Takes

\* What the call holds after its turn.
Holding(c) ==
  /\ call[c].pc \in Sweeping => call[c].tab \in Tab /\ call[c].plan[call[c].tab] # None
  /\ c = Boot /\ call[c].pc \in Looking =>
       call[c].tab \in Tab /\ call[c].owner \in Owner /\ call[c].by \in Start
  /\ c \in New /\ call[c].pc # "idle" => call[c].owner \in Owner

\* A turn of one call keeps the invariant.
LEMMA TurnKeeps ==
  ASSUME LeaseInv, CoreTypes', Loading', NEW c \in Caller,
         Turn(c), Takes(c), Ends(c), Uses(c), Looks(c), ReturnsAt(c, call'[c]), Holding(c)'
  PROVE  LeaseInv'
<1>1. Posts'
  <2>1. \A d \in Caller : call'[d].pc \in Sweeping => call'[d].tab \in Tab /\ call'[d].plan[call'[d].tab] # None
    BY DEF Holding, Turn, LeaseInv, Posts
  <2>2. call'[Boot].pc \in Looking =>
          call'[Boot].tab \in Tab /\ call'[Boot].owner \in Owner /\ call'[Boot].by \in Start
    BY Callers DEF Holding, Turn, LeaseInv, Posts
  <2>3. \A s \in New' : call'[s].pc # "idle" => call'[s].owner \in Owner
    BY NewShrinks, Callers DEF Holding, Turn, LeaseInv, Posts, New
  <2> QED BY <2>1, <2>2, <2>3 DEF Posts, New
<1>2. Returns'
  BY DEF Returns, Turn, LeaseInv
<1> QED BY <1>1, <1>2, WaitsKept, BootsKept, OneLeaseKept, GoneKept, TakenKept DEF LeaseInv

------------------------------------------------------------------------------
(* The other steps.                                                         *)

\* Nothing happens to the lease, its store or the calls.
LEMMA StillKeeps ==
  ASSUME LeaseInv, CoreTypes', Loading', UNCHANGED <<lease, call, saved, writes, ended>>
  PROVE  LeaseInv'
<1>1. Posts' /\ Returns'
  BY DEF LeaseInv, Posts, Returns, Unused
<1>2. Boots' /\ Waits'
  BY DEF LeaseInv, Boots, Waits, New, Unused
<1>3. OneLease' /\ Gone'
  BY DEF LeaseInv, OneLease, Used, Gone, Without, New, Unused
<1>4. Taken'
  <2> SUFFICES ASSUME NEW d \in Caller, call[d].pc \in Taking PROVE TakenAt(d)'
    BY DEF Taken
  <2>1. TakenAt(d)
    BY DEF LeaseInv, Taken
  <2> QED BY <2>1 DEF TakenAt
<1> QED BY <1>1, <1>2, <1>3, <1>4 DEF LeaseInv

\* A lease is made or taken up by c, for the start b, of whom there is no other.
LeaseOf(c, b) ==
  /\ \A d \in Caller : d # c => call'[d] = call[d]
  /\ call[c].pc \notin Waiting \/ Answered(c)
  /\ UNCHANGED <<saved, writes, ended>>
  /\ lease'.by = b /\ b \in Start
  /\ c \notin New' /\ call'[c].pc \notin Within \cup Booting /\ ReturnsAt(c, call'[c])
  /\ b \notin New' /\ b \notin ended
  /\ \A d \in Caller : call[d].pc \in Taking => call[d].by # b
  /\ c # Boot => call[Boot].pc \notin Booting

\* So does a step that makes a lease in memory, of a start that was new or of the
\* lease the store holds at the initialization.
LEMMA LeaseKeeps ==
  ASSUME LeaseInv, CoreTypes', Loading', NEW c \in Caller, NEW b, LeaseOf(c, b)
  PROVE  LeaseInv'
<1>1. New' \subseteq New /\ \A s \in New' : s # c /\ call'[s] = call[s]
  BY Callers DEF LeaseOf, New, Unused
<1>2. call'[Boot].pc \notin Booting
  BY Callers DEF LeaseOf
<1>3. Posts'
  <2>1. \A d \in Caller : call'[d].pc \in Sweeping => call'[d].tab \in Tab /\ call'[d].plan[call'[d].tab] # None
    BY DEF LeaseOf, Within, LeaseInv, Posts
  <2>2. call'[Boot].pc \notin Looking
    BY <1>2 DEF Looking, Booting
  <2>3. \A s \in New' : call'[s].pc # "idle" => call'[s].owner \in Owner
    BY <1>1 DEF LeaseInv, Posts, New
  <2> QED BY <2>1, <2>2, <2>3 DEF Posts, New
<1>4. Returns'
  BY DEF Returns, LeaseOf, LeaseInv
<1>5. Boots'
  BY <1>2 DEF Boots
<1>6. Waits'
  <2> SUFFICES ASSUME NEW i \in DOMAIN writes, writes[i].by # None
               PROVE  call'[writes[i].by] = call[writes[i].by]
    BY DEF LeaseOf, LeaseInv, Waits
  <2>1. writes[i] \in Entry
    BY DEF LeaseInv, CoreTypes
  <2>2. writes[i].by \in Caller
    BY <2>1 DEF Entry
  <2>3. writes[i].by # c
    BY DEF LeaseOf, LeaseInv, Waits, Answered
  <2> QED BY <2>2, <2>3 DEF LeaseOf
<1>7. OneLease'
  <2>1. Used(lease)' /\ Used(saved.lease)' /\ \A i \in DOMAIN writes' : Used(writes[i].snap.lease)'
    BY <1>1 DEF LeaseInv, OneLease, Used, LeaseOf
  <2>2. \A d \in Caller : call'[d].pc \in Taking => call'[d].by \in Start \ New'
    BY <1>1 DEF LeaseInv, OneLease, LeaseOf, Within
  <2>3. call'[Boot].pc \notin Looking
    BY <1>2 DEF Looking, Booting
  <2>4. ended' \subseteq Start \ New'
    BY <1>1 DEF LeaseInv, OneLease, LeaseOf
  <2> QED BY <2>1, <2>2, <2>3, <2>4 DEF OneLease, Used
<1>8. Gone'
  <2>1. call'[Boot].pc \notin Looking
    BY <1>2 DEF Looking, Booting
  <2> QED BY <2>1 DEF LeaseInv, Gone, Without, LeaseOf
<1>9. Taken'
  <2> SUFFICES ASSUME NEW d \in Caller, call'[d].pc \in Taking PROVE TakenAt(d)'
    BY DEF Taken
  <2>1. call'[d] = call[d] /\ TakenAt(d) /\ call[d].by # b
    BY DEF LeaseOf, Within, LeaseInv, Taken
  <2>2. Without(lease', call'[d].by)
    BY <2>1 DEF Without, LeaseOf
  <2> QED BY <2>1, <2>2 DEF TakenAt, LeaseOf
<1> QED BY <1>3, <1>4, <1>5, <1>6, <1>7, <1>8, <1>9 DEF LeaseInv

\* A start that makes its lease keeps the invariant.
LEMMA StartLeasesKeeps ==
  ASSUME LeaseInv, CoreTypes', Loading', NEW s \in Start, StartLeases(s)
  PROVE  LeaseInv'
<1>1. s \in New
  BY DEF StartLeases, New, Unused, Before
<1>2. call[Boot].pc \notin Booting
  BY <1>1 DEF LeaseInv, Boots, StartLeases
<1>3. s \notin ended /\ \A d \in Caller : call[d].pc \in Taking => call[d].by # s
  BY <1>1 DEF LeaseInv, OneLease
<1> DEFINE r == [Fresh("initializing") EXCEPT !.by = s, !.epoch = epoch']
<1>4. call' = [call EXCEPT ![s] = r]
  BY DEF StartLeases, Enter
<1>5. call'[s].pc = "initializing" /\ call'[s].back = "idle" /\ \A d \in Caller : d # s => call'[d] = call[d]
  BY <1>4, Callers DEF LeaseInv, CoreTypes, Fresh
<1>6. s \notin New'
  BY <1>5 DEF New, Unused, Before
<1>7. lease'.by = s
  BY DEF StartLeases
<1>8. LeaseOf(s, s)
  <2>1. ReturnsAt(s, call'[s])
    BY <1>5 DEF ReturnsAt, Over, Within, Taking, Sweeping
  <2>2. call[s].pc = "attaching" /\ UNCHANGED <<saved, writes, ended>>
    BY DEF StartLeases, store, past
  <2> QED BY <1>2, <1>3, <1>5, <1>6, <1>7, <2>1, <2>2 DEF LeaseOf, Waiting, Within, Taking, Sweeping, Booting
<1> QED BY <1>8, LeaseKeeps, Callers

\* So does the initialization that takes the stored lease up.
LEMMA BootTakesUpKeeps ==
  ASSUME LeaseInv, CoreTypes', Loading', BootTakesUp
  PROVE  LeaseInv'
<1> DEFINE b == call[Boot].by
<1>1. call[Boot].pc \in Looking /\ call[Boot].pc \in Booting /\ call[Boot].pc \notin Waiting
  BY DEF BootTakesUp, Looking, Booting, Waiting
<1>2. b \in Start /\ b \notin New /\ b \notin ended /\ \A d \in Caller : call[d].pc \notin Taking
  BY <1>1 DEF LeaseInv, Posts, OneLease, Gone, Boots
<1>3. call'[Boot] = [call[Boot] EXCEPT !.pc = "recovering"] /\ \A d \in Caller : d # Boot => call'[d] = call[d]
  BY Callers DEF BootTakesUp, Go, LeaseInv, CoreTypes
<1>4. call'[Boot].pc = "recovering" /\ call'[Boot].back = call[Boot].back
  <2>1. call[Boot] \in Call
    BY Locals, Callers DEF LeaseInv
  <2> QED BY <1>3, <2>1 DEF Call
<1>5. Boot \notin Start
  OBVIOUS
<1>6. \A s \in Start : call'[s] = call[s]
  BY <1>3, <1>5, Callers
<1>7. New' = New
  BY <1>6 DEF New, Unused
<1>8. UNCHANGED <<saved, writes, ended>> /\ lease'.by = b
  BY DEF BootTakesUp, store, past
<1>9. ReturnsAt(Boot, call'[Boot])
  <2>1. call[Boot].back \in Over
    BY Callers DEF LeaseInv, Returns, ReturnsAt
  <2> QED BY <1>4, <1>5, <2>1 DEF ReturnsAt, Within, Taking, Sweeping
<1>10. LeaseOf(Boot, b)
  BY <1>1, <1>2, <1>3, <1>4, <1>5, <1>7, <1>8, <1>9 DEF LeaseOf, New, Within, Taking, Sweeping, Booting
<1> QED BY <1>10, LeaseKeeps, Callers

\* A write of the chain is applied, or fails.
LEMMA DiskKeeps ==
  ASSUME LeaseInv, CoreTypes', Loading', NEW done \in BOOLEAN, Disk(done)
  PROVE  LeaseInv'
<1> DEFINE w == Head(writes)
<1>1. /\ writes \in Seq(Entry) /\ writes # <<>> /\ writes' = Tail(writes)
      /\ UNCHANGED <<lease, ended>>
  BY DEF LeaseInv, CoreTypes, Disk, control, past
<1>2. /\ \A i \in DOMAIN writes' : i \in Nat /\ i >= 1 /\ i + 1 \in DOMAIN writes /\ writes'[i] = writes[i + 1]
      /\ \A i \in DOMAIN writes : i \in Nat /\ i >= 1 /\ writes[i] \in Entry
      /\ \A i \in DOMAIN writes : i > 1 => i - 1 \in DOMAIN writes' /\ writes'[i - 1] = writes[i]
      /\ 1 \in DOMAIN writes /\ w = writes[1]
  BY <1>1, TailFacts
<1>3. \A i \in DOMAIN writes : writes[i].by \in Caller \cup {None}
  BY <1>2 DEF Entry
<1>4. saved' = IF done THEN w.snap ELSE saved
  BY DEF Disk
<1>5. \A d \in Caller : d # w.by => call'[d] = call[d]
  BY <1>2, <1>3 DEF Disk, LeaseInv, CoreTypes
<1>6. \A d \in Caller : d = w.by => call'[d] = [call[d] EXCEPT !.reply = IF done THEN "ok" ELSE "bad"]
  <2>1. None \notin Caller
    BY DEF Caller
  <2> QED BY <2>1, Zenon DEF Disk, LeaseInv, CoreTypes
<1> HIDE DEF w
<1>7. \A d \in Caller : /\ call'[d].pc = call[d].pc /\ call'[d].back = call[d].back /\ call'[d].by = call[d].by
                        /\ call'[d].tab = call[d].tab /\ call'[d].owner = call[d].owner
                        /\ call'[d].plan = call[d].plan
  <2> SUFFICES ASSUME NEW d \in Caller
               PROVE  /\ call'[d].pc = call[d].pc /\ call'[d].back = call[d].back /\ call'[d].by = call[d].by
                      /\ call'[d].tab = call[d].tab /\ call'[d].owner = call[d].owner
                      /\ call'[d].plan = call[d].plan
    OBVIOUS
  <2>1. call[d] \in Call
    BY Locals DEF LeaseInv
  <2>2. PICK v \in {"ok", "bad"} : d = w.by => call'[d] = [call[d] EXCEPT !.reply = v]
    BY <1>6
  <2>3. CASE d = w.by
    BY <2>1, <2>2, <2>3 DEF Call
  <2>4. CASE d # w.by
    BY <1>5, <2>4
  <2> QED BY <2>3, <2>4
<1>8. New' = New
  BY <1>7, Callers DEF New, Unused
<1>9. Posts' /\ Returns'
  <2>1. Posts'
    BY <1>7, Callers DEF LeaseInv, Posts, Unused
  <2>2. Returns'
    BY <1>7 DEF LeaseInv, Returns, ReturnsAt
  <2> QED BY <2>1, <2>2
<1>10. Boots'
  BY <1>1, <1>7, <1>8, Callers DEF LeaseInv, Boots, New
<1>11. Waits'
  <2> SUFFICES ASSUME NEW i \in DOMAIN writes', writes'[i].by # None
               PROVE  /\ call'[writes'[i].by].reply = "" /\ call'[writes'[i].by].pc \in Waiting
                      /\ \A j \in DOMAIN writes' : writes'[j].by = writes'[i].by => j = i
    BY DEF Waits
  <2> DEFINE d == writes[i + 1].by
  <2>1. i \in Nat /\ i >= 1 /\ i + 1 \in DOMAIN writes /\ writes'[i] = writes[i + 1] /\ d # None /\ d \in Caller
    BY <1>2, <1>3
  <2>2. /\ call[d].reply = "" /\ call[d].pc \in Waiting
        /\ \A j \in DOMAIN writes : writes[j].by = d => j = i + 1
    BY <2>1 DEF LeaseInv, Waits
  <2>3. d # w.by
    <3>1. w.by = d => 1 = i + 1
      BY <1>2, <2>2
    <3> QED BY <2>1, <3>1
  <2>4. call'[d] = call[d]
    BY <1>5, <2>1, <2>3
  <2>5. ASSUME NEW j \in DOMAIN writes', writes'[j].by = d PROVE j = i
    <3>1. j \in Nat /\ j + 1 \in DOMAIN writes /\ writes[j + 1].by = d
      BY <1>2, <2>5
    <3>2. j + 1 = i + 1
      BY <2>2, <3>1
    <3> QED BY <2>1, <3>1, <3>2
  <2> QED BY <2>1, <2>2, <2>4, <2>5
<1>12. \A i \in DOMAIN writes : writes[i].snap.lease # None => writes[i].snap.lease.by \notin New
  BY DEF LeaseInv, OneLease, Used
<1>13. OneLease'
  <2>1. saved'.lease # None => saved'.lease.by \notin New
    BY <1>2, <1>4, <1>12 DEF LeaseInv, OneLease, Used
  <2>2. \A i \in DOMAIN writes' : writes'[i].snap.lease # None => writes'[i].snap.lease.by \notin New
    BY <1>2, <1>12
  <2>3. /\ lease' # None => lease'.by \notin New
        /\ call'[Boot].pc \in Looking => call'[Boot].by \notin New
        /\ \A d \in Caller : call'[d].pc \in Taking => call'[d].by \in Start \ New
        /\ ended' \subseteq Start \ New
    BY <1>1, <1>7, Callers DEF LeaseInv, OneLease, Used
  <2> QED BY <1>8, <2>1, <2>2, <2>3 DEF OneLease, Used
<1>14. Gone'
  <2> SUFFICES ASSUME NEW b \in ended
               PROVE  /\ Without(lease', b) /\ Without(saved'.lease, b)
                      /\ \A j \in DOMAIN writes' : Without(writes'[j].snap.lease, b)
                      /\ call'[Boot].pc \in Looking => call'[Boot].by # b
    BY <1>1 DEF Gone, Without
  <2>1. /\ Without(lease, b) /\ Without(saved.lease, b)
        /\ \A j \in DOMAIN writes : Without(writes[j].snap.lease, b)
        /\ call[Boot].pc \in Looking => call[Boot].by # b
    BY DEF LeaseInv, Gone
  <2> QED BY <1>1, <1>2, <1>4, <1>7, <2>1, Callers
<1>15. Taken'
  <2> SUFFICES ASSUME NEW d \in Caller, call'[d].pc \in Taking PROVE TakenAt(d)'
    BY DEF Taken
  <2> DEFINE b == call[d].by
  <2>1. call'[d].by = b /\ call'[d].pc = call[d].pc /\ TakenAt(d)
    BY <1>7 DEF LeaseInv, Taken
  <2>2. Without(lease', b)
    BY <1>1, <2>1 DEF TakenAt
  <2>3. ASSUME call[d].pc = "reporting", call[d].reply = "ok"
        PROVE  Without(saved'.lease, b) /\ \A j \in DOMAIN writes' : Without(writes'[j].snap.lease, b)
    <3>1. Without(saved.lease, b) /\ \A j \in DOMAIN writes : Without(writes[j].snap.lease, b)
      BY <2>1, <2>3 DEF TakenAt
    <3> QED BY <1>2, <1>4, <3>1
  <2>4. ASSUME call[d].pc = "reporting", call[d].reply = ""
        PROVE  /\ d # w.by => \E i \in DOMAIN writes' :
                    /\ writes'[i].by = d
                    /\ \A j \in DOMAIN writes' : j >= i => Without(writes'[j].snap.lease, b)
               /\ d = w.by /\ done =>
                    Without(saved'.lease, b) /\ \A j \in DOMAIN writes' : Without(writes'[j].snap.lease, b)
    <3>1. PICK i \in DOMAIN writes : /\ writes[i].by = d
                                     /\ \A j \in DOMAIN writes : j >= i => Without(writes[j].snap.lease, b)
      BY <2>1, <2>4 DEF TakenAt
    <3>2. CASE d # w.by
      <4>1. i > 1 /\ i - 1 \in DOMAIN writes' /\ writes'[i - 1].by = d
        BY <1>2, <3>1, <3>2
      <4>2. ASSUME NEW j \in DOMAIN writes', j >= i - 1 PROVE Without(writes'[j].snap.lease, b)
        <5>1. j + 1 \in DOMAIN writes /\ writes'[j] = writes[j + 1] /\ j + 1 >= i
          BY <1>2, <4>2
        <5> QED BY <3>1, <5>1
      <4> QED BY <3>2, <4>1, <4>2
    <3>3. CASE d = w.by /\ done
      <4>1. None \notin Caller
        BY DEF Caller
      <4>2. \A j \in DOMAIN writes : writes[j].by = d => j = i
        BY <3>1, <4>1 DEF LeaseInv, Waits
      <4>3. i = 1
        BY <1>2, <3>3, <4>2
      <4>4. \A j \in DOMAIN writes : Without(writes[j].snap.lease, b)
        BY <1>2, <3>1, <4>3
      <4> QED BY <1>2, <1>4, <3>3, <4>4
    <3> QED BY <3>2, <3>3
  <2>0. PICK v : (d = w.by => call'[d] = [call[d] EXCEPT !.reply = v]) /\ v # "" /\ (v = "ok" => done)
    <3>1. CASE done
      <4>1. d = w.by => call'[d] = [call[d] EXCEPT !.reply = "ok"]
        BY <1>6, <3>1
      <4> QED BY <3>1, <4>1
    <3>2. CASE ~done
      <4>1. d = w.by => call'[d] = [call[d] EXCEPT !.reply = "bad"]
        BY <1>6, <3>2
      <4> QED BY <4>1
    <3> QED BY <3>1, <3>2
  <2>5. call'[d].reply = "" => call[d].reply = "" /\ d # w.by
    <3>1. CASE d = w.by
      <4>1. call[d] \in Call
        BY Locals DEF LeaseInv
      <4>2. [call[d] EXCEPT !.reply = v].reply = v
        BY <4>1, ReplyOf
      <4> QED BY <2>0, <3>1, <4>2
    <3> QED BY <1>5, <3>1
  <2>6. call'[d].reply = "ok" => call[d].reply = "ok" \/ (d = w.by /\ done)
    <3>1. CASE d = w.by
      <4>1. call[d] \in Call
        BY Locals DEF LeaseInv
      <4>2. [call[d] EXCEPT !.reply = v].reply = v
        BY <4>1, ReplyOf
      <4> QED BY <2>0, <3>1, <4>2
    <3> QED BY <1>5, <3>1
  <2>7. d = w.by => call[d].reply = ""
    <3>1. None \notin Caller
      BY DEF Caller
    <3> QED BY <1>2, <3>1 DEF LeaseInv, Waits
  <2> QED BY <2>1, <2>2, <2>3, <2>4, <2>5, <2>6, <2>7 DEF TakenAt
<1> QED BY <1>9, <1>10, <1>11, <1>13, <1>14, <1>15 DEF LeaseInv

\* The worker or the browser restarts.
LEMMA RestartKeeps ==
  ASSUME LeaseInv, CoreTypes', Loading', WorkerRestarts \/ BrowserRestarts
  PROVE  LeaseInv'
<1>1. /\ lease' = None /\ writes' = <<>> /\ ended' = ended
      /\ saved' = saved \/ saved'.lease = None
  BY DEF WorkerRestarts, BrowserRestarts, Restarts, past, Blank
<1>2. call' = [c \in Caller |->
          IF c \in Start \cup Stops
          THEN IF call[c].pc \in {"idle", "granted", "refused", "done"} THEN call[c] ELSE Fresh("gone")
          ELSE Fresh(IF c = Boot THEN "down" ELSE "idle")]
  BY DEF WorkerRestarts, BrowserRestarts, Restarts
<1>3. call'[Boot].pc = "down"
  BY <1>2, Callers DEF Fresh
<1>4. \A c \in Caller : /\ call'[c].pc \in {"idle", "granted", "refused", "done", "gone", "down"}
                        /\ call'[c] = call[c] \/ call'[c].back = "idle"
  BY <1>2 DEF Fresh
<1>5. \A s \in Start : s \in New' => s \in New /\ call'[s].pc = "idle"
  <2> SUFFICES ASSUME NEW s \in Start, s \in New' PROVE s \in New /\ call'[s].pc = "idle"
    OBVIOUS
  <2>1. call'[s].pc \in Before \/ call'[s].back = "replaced"
    BY DEF New, Unused
  <2>2. call[s].back = "replaced" => call[s].pc \in Taking
    BY Callers DEF LeaseInv, Returns, ReturnsAt, Within
  <2>3. call'[s] = call[s] \/ call'[s] = Fresh("gone")
    BY <1>2, Callers
  <2>4. call'[s] = call[s]
    <3>1. Fresh("gone").pc = "gone" /\ Fresh("gone").back = "idle"
      BY DEF Fresh
    <3> QED BY <2>1, <2>3, <3>1 DEF Before
  <2>5. call'[s].pc = "idle"
    BY <1>4, <2>1, <2>2, <2>4, Callers DEF Before, Taking
  <2> QED BY <2>4, <2>5 DEF New, Unused, Before
<1>6. Posts'
  BY <1>3, <1>4, <1>5 DEF Posts, Sweeping, Looking, New
<1>7. Returns'
  <2> SUFFICES ASSUME NEW c \in Caller PROVE ReturnsAt(c, call'[c])
    BY DEF Returns
  <2>1. call'[c].pc \notin Within
    BY <1>4 DEF Within, Taking, Sweeping
  <2>2. call'[c] = call[c] \/ call'[c].back = "idle"
    BY <1>4
  <2>3. ReturnsAt(c, call[c])
    BY DEF LeaseInv, Returns
  <2> QED BY <2>1, <2>2, <2>3 DEF ReturnsAt, Within, Over
<1>8. Boots'
  BY <1>1, <1>4, <1>5 DEF Boots, Taking, New
<1>9. Waits' /\ DOMAIN writes' = {}
  <2>1. DOMAIN writes' = {}
    BY <1>1
  <2> QED BY <2>1 DEF Waits
<1>10. OneLease'
  BY <1>1, <1>3, <1>4, <1>5, <1>9 DEF LeaseInv, OneLease, Used, Looking, Taking, New
<1>11. Taken' /\ Gone'
  BY <1>1, <1>3, <1>4, <1>9 DEF LeaseInv, Taken, Taking, Gone, Without, Looking
<1> QED BY <1>6, <1>7, <1>8, <1>9, <1>10, <1>11 DEF LeaseInv

------------------------------------------------------------------------------
(* What the steps of a call are to its turn.                                *)

\* A call enters its next place, and the others stay.
LEMMA Entered ==
  ASSUME CoreTypes, NEW c \in Caller, NEW f, Enter(c, f)
  PROVE  call'[c] = f /\ \A d \in Caller : d # c => call'[d] = call[d]
BY DEF Enter, CoreTypes

\* A call that only goes on keeps what it holds.
LEMMA Goings ==
  ASSUME CoreTypes, NEW c \in Caller, NEW pc \in Pc, Go(c, pc) \/ Await(c, pc)
  PROVE  /\ call'[c].pc = pc
         /\ Await(c, pc) => call'[c].reply = ""
         /\ call'[c].tab = call[c].tab /\ call'[c].owner = call[c].owner /\ call'[c].by = call[c].by
         /\ call'[c].back = call[c].back /\ call'[c].plan = call[c].plan
         /\ \A d \in Caller : d # c => call'[d] = call[d]
<1>1. call[c] \in Call
  BY DEF CoreTypes
<1>2. Go(c, pc) => call'[c] = [call[c] EXCEPT !.pc = pc]
  <2> SUFFICES ASSUME Go(c, pc) PROVE call'[c] = [call[c] EXCEPT !.pc = pc]
    OBVIOUS
  <2>1. Enter(c, [call[c] EXCEPT !.pc = pc])
    BY EnterTypes
  <2> QED BY <2>1, Entered, Zenon
<1>3. Await(c, pc) => call'[c] = [call[c] EXCEPT !.pc = pc, !.reply = ""]
  <2> SUFFICES ASSUME Await(c, pc) PROVE call'[c] = [call[c] EXCEPT !.pc = pc, !.reply = ""]
    OBVIOUS
  <2>1. Enter(c, [call[c] EXCEPT !.pc = pc, !.reply = ""])
    BY EnterTypes
  <2> QED BY <2>1, Entered, Zenon
<1>4. \A d \in Caller : d # c => call'[d] = call[d]
  BY GoTypes
<1>5. /\ call'[c].pc = pc
      /\ call'[c].tab = call[c].tab /\ call'[c].owner = call[c].owner /\ call'[c].by = call[c].by
      /\ call'[c].back = call[c].back /\ call'[c].plan = call[c].plan
  <2>1. CASE call'[c] = [call[c] EXCEPT !.pc = pc]
    BY <1>1, <2>1 DEF Call
  <2>2. CASE call'[c] = [call[c] EXCEPT !.pc = pc, !.reply = ""]
    BY <1>1, <2>2 DEF Call
  <2> QED BY <1>2, <1>3, <2>1, <2>2
<1>6. Await(c, pc) => call'[c].reply = ""
  BY <1>1, <1>3 DEF Call
<1> QED BY <1>4, <1>5, <1>6

\* What is recorded for c, or for nobody, is a write of c's turn.
LEMMA PersistWrites ==
  ASSUME CoreTypes, CoreTypes', NEW c \in Caller, NEW b \in {c, None}, Persist(b),
         b = c => call'[c].pc \in Waiting /\ call'[c].reply = ""
  PROVE  /\ Written(c)
         /\ \E w \in Entry : writes' = Append(writes, w) /\ w.by = b /\ w.snap.lease = lease'
<1> DEFINE w == [by |-> b, snap |-> Record(lease', revocation', cleanups')]
<1>1. Record(lease', revocation', cleanups') \in Snapshot
  BY DEF Record, Snapshot, CoreTypes, MemTypes
<1>2. w \in Entry
  BY <1>1 DEF Entry
<1>3. writes' = Append(writes, w) /\ w.by = b /\ w.snap.lease = lease'
  BY DEF Persist, Record
<1> HIDE DEF w
<1>4. Pushes(c, w)
  BY <1>3 DEF Pushes
<1> QED BY <1>2, <1>3, <1>4 DEF Written

\* The initialization is not yet, or is by now, through with its reading.
Steady(c) ==
  /\ loaded' = loaded
  /\ c = Boot => call[c].pc \notin {"down", "reading"} /\ call'[c].pc \notin {"down", "reading"}

\* A call that is steady about the initialization leaves it where it is.
LEMMA LoadingKept ==
  ASSUME LeaseInv, NEW c \in Caller, Turn(c), Steady(c)
  PROVE  Loading'
BY Callers DEF Turn, Steady, LeaseInv, Loading

\* A call is in a part of itself, and returns where it may.
PartAt(c, back) ==
  /\ back \in Over
  /\ c \in Start => back \in {"refused", "undoing"}
  /\ c = Boot => back \in {"up", "failing"}

\* A call that goes into a part it shares with others (a stop, a retry) keeps the invariant.
LEMMA PartKeeps ==
  ASSUME LeaseInv, CoreTypes', NEW c \in Caller, Turn(c), Steady(c), ended' = ended,
         call'[c].pc \in {"sweep", "swept", "uninitialized"}, PartAt(c, call'[c].back)
  PROVE  LeaseInv'
<1>1. Takes(c) /\ Ends(c) /\ Looks(c)
  BY DEF Takes, Ends, Looks, Taking, Booting, Looking
<1>2. Uses(c)
  BY DEF Uses, Unused, Before, PartAt
<1>3. ReturnsAt(c, call'[c])
  BY DEF ReturnsAt, PartAt, Taking, Within
<1>4. Holding(c)'
  BY DEF Holding, Sweeping, Looking, New, Unused, Before, PartAt
<1> QED BY <1>1, <1>2, <1>3, <1>4, LoadingKept, TurnKeeps

\* A call stands outside the parts that it shares with the others.
Aside(c) ==
  /\ call'[c].pc \notin Taking \cup Sweeping \cup Booting
  /\ c \in Start \cup {Boot} => call'[c].pc \notin Within
  /\ call'[c].back \in Over
  /\ c \in Start =>
       /\ call'[c].back = "idle"
       /\ call'[c].pc \in Before =>
            Unused(c) /\ (call[c].pc # "idle" \/ Initialized) /\ call'[c].owner \in Owner

\* So does one that goes on to a place where it holds nothing.
LEMMA AsideKeeps ==
  ASSUME LeaseInv, CoreTypes', NEW c \in Caller, Turn(c), Steady(c), Ends(c), Aside(c)
  PROVE  LeaseInv'
<1>1. Takes(c) /\ Looks(c)
  BY DEF Takes, Looks, Aside, Booting, Looking
<1>2. Uses(c)
  BY DEF Uses, Unused, Aside
<1>3. ReturnsAt(c, call'[c])
  BY DEF ReturnsAt, Aside, Within
<1>4. Holding(c)'
  BY DEF Holding, Aside, Looking, Booting, New, Unused
<1> QED BY <1>1, <1>2, <1>3, <1>4, LoadingKept, TurnKeeps

\* The same of a call that starts afresh.
LEMMA FreshKeeps ==
  ASSUME LeaseInv, CoreTypes', NEW c \in Caller, Turn(c), Steady(c), ended' = ended,
         call'[c].pc \notin Taking \cup Sweeping \cup Booting, call'[c].back = "idle",
         c \in Start => call'[c].pc \notin Within \cup Before,
         c = Boot => call'[c].pc \notin Within
  PROVE  LeaseInv'
<1>1. Aside(c)
  BY DEF Aside, Over
<1> QED BY <1>1, AsideKeeps DEF Ends

------------------------------------------------------------------------------
(* Stops and sweeps.                                                        *)

\* c may take its turn now.
MayGo(c) ==
  /\ call[c].pc \in Waiting => Answered(c)
  /\ c = Boot => call[c].pc \notin {"down", "reading"}

\* A turn that leaves the lease, its store and the sessions alone.
LEMMA QuietTurn ==
  ASSUME NEW c \in Caller, MayGo(c), \A d \in Caller : d # c => call'[d] = call[d],
         UNCHANGED <<lease, saved, writes>>
  PROVE  Turn(c)
BY DEF Turn, MayGo, Written

\* retryPendingControlCleanups begins.
LEMMA EnterSweepKeeps ==
  ASSUME LeaseInv, CoreTypes', NEW c \in Caller, NEW back, EnterSweep(c, back), PartAt(c, back),
         MayGo(c), UNCHANGED <<lease, saved, writes, ended, loaded>>
  PROVE  LeaseInv'
<1> DEFINE r == [Fresh("sweep") EXCEPT !.plan = cleanups, !.back = back]
<1>1. Enter(c, Fresh(back)) \/ Enter(c, r)
  BY DEF EnterSweep
<1>2. r.pc = "sweep" /\ r.back = back /\ Fresh(back).pc = back /\ Fresh(back).back = "idle"
  BY DEF Fresh
<1> HIDE DEF r
<1>3. /\ call'[c] = Fresh(back) \/ call'[c] = r
      /\ \A d \in Caller : d # c => call'[d] = call[d]
  BY <1>1, Entered DEF LeaseInv
<1>4. Turn(c)
  BY <1>3, QuietTurn
<1>5. CASE call'[c] = Fresh(back)
  <2>1. Steady(c)
    BY <1>2, <1>5 DEF Steady, MayGo, PartAt
  <2>2. call'[c].pc \notin Within \cup Booting
    BY <1>2, <1>5 DEF PartAt, Over, Within, Taking, Sweeping, Booting
  <2>3. c \in Start => call'[c].pc \notin Before
    BY <1>2, <1>5 DEF PartAt, Before
  <2> QED BY <1>2, <1>4, <1>5, <2>1, <2>2, <2>3, FreshKeeps DEF Within
<1>6. CASE call'[c] = r
  <2>1. Steady(c)
    BY <1>2, <1>6 DEF Steady, MayGo
  <2> QED BY <1>2, <1>4, <1>6, <2>1, PartKeeps
<1> QED BY <1>3, <1>5, <1>6

\* A stop returns to where it was called from; a start that replaces another
\* lease is new then.
StopAt(c, back) ==
  /\ back \in Over
  /\ c \in Start => back \in {"refused", "undoing", "replaced"}
  /\ c \in Start /\ back = "replaced" => call[c].pc = "open"
  /\ c = Boot => back \in {"up", "failing"}

\* A stop that takes the lease keeps the invariant.
LEMMA StopTakesKeeps ==
  ASSUME LeaseInv, CoreTypes', NEW c \in Caller, NEW explicit, NEW back, StopTakes(c, explicit, back),
         StopAt(c, back), MayGo(c), UNCHANGED <<ended, loaded>>
  PROVE  LeaseInv'
<1> DEFINE r == [Fresh("stopping") EXCEPT !.tab = lease.tab, !.by = lease.by, !.back = back,
                                            !.owner = call[c].owner]
<1>1. Enter(c, r)
  BY DEF StopTakes
<1>2. r.pc = "stopping" /\ r.by = lease.by /\ r.back = back /\ r.owner = call[c].owner /\ r.reply = ""
  BY DEF Fresh
<1> HIDE DEF r
<1>3. call'[c] = r /\ \A d \in Caller : d # c => call'[d] = call[d]
  BY <1>1, Entered DEF LeaseInv
<1>4. Written(c)
  BY <1>2, <1>3, PersistWrites DEF LeaseInv, StopTakes, Waiting
<1>5. Turn(c)
  BY <1>3, <1>4 DEF Turn, StopTakes, MayGo
<1>6. Steady(c)
  BY <1>2, <1>3 DEF Steady, MayGo
<1>7. Takes(c) /\ Ends(c) /\ Looks(c)
  BY <1>2, <1>3 DEF Takes, Ends, Looks, StopTakes, Booting, Looking
<1>8. Uses(c)
  BY <1>2, <1>3 DEF Uses, Unused, StopAt, Before
<1>9. ReturnsAt(c, call'[c])
  BY <1>2, <1>3 DEF ReturnsAt, StopAt, Within, Taking
<1>10. Holding(c)'
  <2>1. c \in New' => call[c].owner \in Owner
    <3>1. c \in New' => c \in Start /\ call[c].pc = "open"
      BY <1>2, <1>3 DEF New, Unused, Before, StopAt
    <3> QED BY <3>1 DEF LeaseInv, Posts, Unused, Before
  <2> QED BY <1>2, <1>3, <2>1 DEF Holding, Sweeping, Looking
<1> QED BY <1>5, <1>6, <1>7, <1>8, <1>9, <1>10, LoadingKept, TurnKeeps

\* A stop that finds no lease keeps it.
LEMMA StopFindsNoneKeeps ==
  ASSUME LeaseInv, CoreTypes', NEW c \in Caller, NEW back, StopFindsNone(c, back),
         PartAt(c, back), MayGo(c), UNCHANGED <<ended, loaded>>
  PROVE  LeaseInv'
<1>1. UNCHANGED <<lease, saved, writes, ended, loaded>>
  BY DEF StopFindsNone, store
<1>2. CASE EnterSweep(c, back)
  BY <1>1, <1>2, EnterSweepKeeps
<1>3. CASE Enter(c, [Fresh("uninitialized") EXCEPT !.back = back])
  <2> DEFINE r == [Fresh("uninitialized") EXCEPT !.back = back]
  <2>1. r.pc = "uninitialized" /\ r.back = back
    BY DEF Fresh
  <2> HIDE DEF r
  <2>2. call'[c] = r /\ \A d \in Caller : d # c => call'[d] = call[d]
    BY <1>3, Entered DEF LeaseInv, r
  <2>3. Turn(c)
    BY <1>1, <2>2, QuietTurn
  <2>4. Steady(c)
    BY <1>1, <2>1, <2>2 DEF Steady, MayGo
  <2> QED BY <1>1, <2>1, <2>2, <2>3, <2>4, PartKeeps
<1> QED BY <1>2, <1>3 DEF StopFindsNone

\* So does a stop from wherever it is called.
LEMMA StopFromKeeps ==
  ASSUME LeaseInv, CoreTypes', NEW c \in Caller, NEW explicit, NEW back, StopFrom(c, explicit, back),
         PartAt(c, back), MayGo(c), UNCHANGED <<ended, loaded>>
  PROVE  LeaseInv'
<1>1. StopAt(c, back)
  BY DEF StopAt, PartAt
<1> QED BY <1>1, StopTakesKeeps, StopFindsNoneKeeps DEF StopFrom

\* A call within a part of itself, that is no stop, returns where a part may.
LEMMA Parts ==
  ASSUME LeaseInv, NEW c \in Caller, call[c].pc \in Within \ Taking
  PROVE  PartAt(c, call[c].back)
BY DEF LeaseInv, Returns, ReturnsAt, PartAt

\* A stop that detaches the debugger keeps it.
LEMMA StopDetachesKeeps ==
  ASSUME LeaseInv, CoreTypes', NEW c \in Caller, StopDetaches(c)
  PROVE  LeaseInv'
<1>1. /\ call[c].pc = "stopping" /\ MayGo(c)
      /\ UNCHANGED <<lease, saved, writes, ended, loaded>>
  BY DEF StopDetaches, MayGo, store, past, pauseVars, memory
<1>2. Go(c, "detaching")
  BY DEF StopDetaches
<1>3. /\ call'[c].pc = "detaching" /\ call'[c].owner = call[c].owner /\ call'[c].by = call[c].by
      /\ call'[c].back = call[c].back
      /\ \A d \in Caller : d # c => call'[d] = call[d]
  BY <1>2, Goings DEF Pc, LeaseInv
<1>4. Turn(c) /\ Steady(c)
  BY <1>1, <1>3, QuietTurn DEF Steady, MayGo
<1>5. Takes(c) /\ Ends(c) /\ Looks(c)
  BY <1>1, <1>3 DEF Takes, Ends, Looks, Taking, Booting, Looking
<1>6. Uses(c)
  BY <1>1, <1>3 DEF Uses, Unused, Before
<1>7. ReturnsAt(c, call'[c])
  BY <1>1, <1>3 DEF LeaseInv, Returns, ReturnsAt, Within, Taking
<1>8. Holding(c)'
  BY <1>1, <1>3 DEF LeaseInv, Posts, Holding, Sweeping, Looking, New, Unused, Before
<1> QED BY <1>4, <1>5, <1>6, <1>7, <1>8, LoadingKept, TurnKeeps

\* A stop that looks whether the debugger is gone, and queues the last write, keeps it.
LEMMA StopConfirmsKeeps ==
  ASSUME LeaseInv, CoreTypes', NEW c \in Caller, NEW seen, StopConfirms(c, seen)
  PROVE  LeaseInv'
<1>1. /\ call[c].pc = "detaching" /\ MayGo(c) /\ lease' = lease
      /\ UNCHANGED <<saved, ended, loaded>>
  BY DEF StopConfirms, MayGo, past, pauseVars, memory, Waiting
<1>2. Await(c, "reporting") /\ Persist(c)
  BY DEF StopConfirms
<1>3. /\ call'[c].pc = "reporting" /\ call'[c].owner = call[c].owner /\ call'[c].by = call[c].by
      /\ call'[c].back = call[c].back /\ call'[c].reply = ""
      /\ \A d \in Caller : d # c => call'[d] = call[d]
  BY <1>2, Goings DEF Pc, LeaseInv
<1>4. Written(c) /\ \E w \in Entry : writes' = Append(writes, w) /\ w.by = c /\ w.snap.lease = lease'
  BY <1>2, <1>3, PersistWrites DEF LeaseInv, Waiting
<1>5. Turn(c) /\ Steady(c)
  BY <1>1, <1>3, <1>4 DEF Steady, MayGo, Turn
<1>6. Takes(c) /\ Ends(c) /\ Looks(c)
  BY <1>1, <1>3, <1>4 DEF Takes, Ends, Looks, Taking, Booting, Looking
<1>7. Uses(c)
  BY <1>1, <1>3 DEF Uses, Unused, Before
<1>8. ReturnsAt(c, call'[c])
  BY <1>1, <1>3 DEF LeaseInv, Returns, ReturnsAt, Within, Taking
<1>9. Holding(c)'
  BY <1>1, <1>3 DEF LeaseInv, Posts, Holding, Sweeping, Looking, New, Unused, Before
<1> QED BY <1>5, <1>6, <1>7, <1>8, <1>9, LoadingKept, TurnKeeps

\* A stop that reports the end of the session keeps it: its write is on the disk.
LEMMA StopEndsKeeps ==
  ASSUME LeaseInv, CoreTypes', NEW c \in Caller, StopEnds(c)
  PROVE  LeaseInv'
<1>1. /\ call[c].pc = "reporting" /\ MayGo(c)
      /\ UNCHANGED <<lease, saved, writes, loaded>>
      /\ ended' = IF call[c].reply = "ok" THEN ended \cup {call[c].by} ELSE ended
  BY DEF StopEnds, MayGo, store, pauseVars, memory
<1>2. PICK ok \in BOOLEAN :
        LET r == [Fresh(Back(call[c].back, ok)) EXCEPT
                        !.tab = IF c \in Stopper THEN call[c].tab ELSE None,
                        !.owner = IF call[c].back = "replaced" /\ ok THEN call[c].owner ELSE None]
        IN  Enter(c, r)
  BY DEF StopEnds
<1> DEFINE r == [Fresh(Back(call[c].back, ok)) EXCEPT
                        !.tab = IF c \in Stopper THEN call[c].tab ELSE None,
                        !.owner = IF call[c].back = "replaced" /\ ok THEN call[c].owner ELSE None]
<1>3. /\ r.pc = Back(call[c].back, ok) /\ r.back = "idle"
      /\ r.owner = IF call[c].back = "replaced" /\ ok THEN call[c].owner ELSE None
  BY DEF Fresh
<1>4. Enter(c, r)
  BY <1>2
<1> HIDE DEF r
<1>5. call'[c] = r /\ \A d \in Caller : d # c => call'[d] = call[d]
  BY <1>4, Entered DEF LeaseInv
<1>6. call[c].back \in Over /\ (c \in Start => call[c].back \in {"refused", "undoing", "replaced"})
      /\ (c = Boot => call[c].back \in {"up", "failing"})
  BY <1>1 DEF LeaseInv, Returns, ReturnsAt, Within, Taking
<1>7. /\ r.pc \in Over \cup {"broken"}
      /\ c \in Start => r.pc \in {"refused", "undoing", "replaced"}
      /\ r.pc = "replaced" => call[c].back = "replaced" /\ ok
  BY <1>3, <1>6 DEF Back, Over
<1>8. Turn(c)
  BY <1>1, <1>5, QuietTurn
<1>9. Ends(c)
  BY <1>1 DEF Ends
<1>10. Aside(c)
  <2>1. r.pc \notin Within \cup Booting
    BY <1>7 DEF Over, Within, Taking, Sweeping, Booting
  <2>2. c \in Start /\ r.pc \in Before => Unused(c) /\ call[c].pc # "idle" /\ r.owner \in Owner
    <3>1. c \in Start /\ r.pc \in Before => call[c].back = "replaced" /\ r.owner = call[c].owner
      BY <1>3, <1>7 DEF Before
    <3> QED BY <1>1, <3>1 DEF Unused, LeaseInv, Posts
  <2> QED BY <1>3, <1>5, <2>1, <2>2 DEF Aside, Over, Within
<1>11. Steady(c)
  <2>1. r.pc \notin {"down", "reading"}
    BY <1>7 DEF Over
  <2> QED BY <1>1, <1>5, <2>1 DEF Steady
<1> QED BY <1>8, <1>9, <1>10, <1>11, AsideKeeps

\* Every step of a stop keeps the invariant.
LEMMA StopStepKeeps ==
  ASSUME LeaseInv, CoreTypes', NEW c \in Caller, StopStep(c)
  PROVE  LeaseInv'
<1>1. CASE StopInitialized(c)
  <2>1. call[c].pc = "uninitialized" /\ MayGo(c) /\ UNCHANGED <<ended, loaded>>
    BY <1>1 DEF StopInitialized, MayGo, past, pauseVars, memory, Waiting
  <2>2. PartAt(c, call[c].back)
    BY <2>1, Parts DEF Within, Taking
  <2>3. CASE StopTakes(c, TRUE, call[c].back)
    <3>1. StopAt(c, call[c].back)
      BY <2>2 DEF StopAt, PartAt
    <3> QED BY <2>1, <2>3, <3>1, StopTakesKeeps
  <2>4. CASE EnterSweep(c, call[c].back) /\ UNCHANGED <<lease, saved, writes>>
    BY <2>1, <2>2, <2>4, EnterSweepKeeps
  <2> QED BY <1>1, <2>3, <2>4 DEF StopInitialized, store
<1> QED BY <1>1, StopDetachesKeeps, StopConfirmsKeeps, StopEndsKeeps DEF StopStep

\* The loop of the sweep goes on, or ends.
LEMMA SweepsOnKeeps ==
  ASSUME LeaseInv, CoreTypes', NEW c \in Caller, NEW t, SweepsOn(c, t), call[c].pc \in Within \ Taking,
         MayGo(c), UNCHANGED <<lease, saved, writes, ended, loaded>>
  PROVE  LeaseInv'
<1> DEFINE rest == [call[c].plan EXCEPT ![t] = None]
           r    == [call[c] EXCEPT !.pc = "sweep", !.plan = rest]
<1>1. PartAt(c, call[c].back)
  BY Parts
<1>2. call[c] \in Call
  BY Locals DEF LeaseInv
<1>3. r.pc = "sweep" /\ r.back = call[c].back
  <2> HIDE DEF rest
  <2> QED BY <1>2 DEF Call
<1>4. Enter(c, Fresh(call[c].back)) \/ Enter(c, r)
  BY DEF SweepsOn
<1> HIDE DEF r
<1>5. Fresh(call[c].back).pc = call[c].back /\ Fresh(call[c].back).back = "idle"
  BY DEF Fresh
<1>6. /\ call'[c] = Fresh(call[c].back) \/ call'[c] = r
      /\ \A d \in Caller : d # c => call'[d] = call[d]
  BY <1>4, Entered DEF LeaseInv
<1>7. Turn(c)
  BY <1>6, QuietTurn
<1>8. CASE call'[c] = Fresh(call[c].back)
  <2>1. Steady(c)
    BY <1>1, <1>5, <1>8 DEF Steady, MayGo, PartAt
  <2>2. call'[c].pc \notin Within \cup Booting
    BY <1>1, <1>5, <1>8 DEF PartAt, Over, Within, Taking, Sweeping, Booting
  <2>3. c \in Start => call'[c].pc \notin Before
    BY <1>1, <1>5, <1>8 DEF PartAt, Before
  <2> QED BY <1>5, <1>7, <1>8, <2>1, <2>2, <2>3, FreshKeeps DEF Within
<1>9. CASE call'[c] = r
  <2>1. Steady(c)
    BY <1>3, <1>9 DEF Steady, MayGo
  <2> QED BY <1>1, <1>3, <1>7, <1>9, <2>1, PartKeeps
<1> QED BY <1>6, <1>8, <1>9

\* A retry that detaches a tab keeps the invariant.
LEMMA SweepDetachesKeeps ==
  ASSUME LeaseInv, CoreTypes', NEW c \in Caller, NEW t \in Tab, SweepDetaches(c, t)
  PROVE  LeaseInv'
<1>1. /\ call[c].pc = "sweep" /\ call[c].plan[t] # None /\ MayGo(c)
      /\ UNCHANGED <<lease, saved, writes, ended, loaded>>
  BY DEF SweepDetaches, MayGo, store, past, pauseVars, memory, Waiting
<1>2. PICK pc \in {"sweeping", "checking"} :
        call' = [call EXCEPT ![c] = [call[c] EXCEPT !.tab = t, !.pc = pc]]
  BY Zenon DEF SweepDetaches
<1>3. call[c] \in Call
  BY Locals DEF LeaseInv
<1> DEFINE r == [call[c] EXCEPT !.tab = t, !.pc = pc]
<1>4. r.pc = pc /\ r.tab = t /\ r.back = call[c].back /\ r.plan = call[c].plan
  BY <1>3 DEF Call
<1> HIDE DEF r
<1>5. call'[c] = r /\ \A d \in Caller : d # c => call'[d] = call[d]
  BY <1>2 DEF LeaseInv, CoreTypes, r
<1>6. PartAt(c, call[c].back)
  BY <1>1, Parts DEF Within, Taking
<1>7. Turn(c) /\ Steady(c)
  BY <1>1, <1>4, <1>5, QuietTurn DEF Steady, MayGo
<1>8. Takes(c) /\ Ends(c) /\ Looks(c)
  BY <1>1, <1>4, <1>5 DEF Takes, Ends, Looks, Taking, Booting, Looking
<1>9. Uses(c)
  BY <1>4, <1>5, <1>6 DEF Uses, Unused, Before, PartAt
<1>10. ReturnsAt(c, call'[c])
  BY <1>4, <1>5, <1>6 DEF ReturnsAt, PartAt, Taking, Sweeping, Within
<1>11. Holding(c)'
  BY <1>1, <1>4, <1>5, <1>6 DEF Holding, Looking, New, Unused, Before, PartAt
<1> QED BY <1>7, <1>8, <1>9, <1>10, <1>11, LoadingKept, TurnKeeps

\* A retry that looks at what Chrome did keeps it.
LEMMA SweepChecksKeeps ==
  ASSUME LeaseInv, CoreTypes', NEW c \in Caller, NEW seen, NEW apart, SweepChecks(c, seen, apart)
  PROVE  LeaseInv'
<1>1. /\ call[c].pc \in {"sweeping", "checking"} /\ MayGo(c) /\ lease' = lease
      /\ UNCHANGED <<saved, ended, loaded>>
  BY DEF SweepChecks, MayGo, past, pauseVars, memory, Waiting
<1>2. PartAt(c, call[c].back)
  BY <1>1, Parts DEF Within, Sweeping, Taking
<1>3. CASE writes' = writes /\ call' = [call EXCEPT ![c].pc = "swept", ![c].reply = "ok"]
  <2> DEFINE r == [call[c] EXCEPT !.pc = "swept", !.reply = "ok"]
  <2>1. call' = [call EXCEPT ![c] = r]
    BY <1>3, Zenon
  <2>2. call[c] \in Call
    BY Locals DEF LeaseInv
  <2>3. r.pc = "swept" /\ r.back = call[c].back
    BY <2>2 DEF Call
  <2> HIDE DEF r
  <2>4. call'[c] = r /\ \A d \in Caller : d # c => call'[d] = call[d]
    BY <2>1 DEF LeaseInv, CoreTypes
  <2>5. Turn(c) /\ Steady(c)
    BY <1>1, <1>3, <2>3, <2>4, QuietTurn DEF Steady, MayGo
  <2> QED BY <1>1, <1>2, <2>3, <2>4, <2>5, PartKeeps
<1>4. CASE Await(c, "swept") /\ Persist(c)
  <2>1. /\ call'[c].pc = "swept" /\ call'[c].reply = "" /\ call'[c].back = call[c].back
        /\ \A d \in Caller : d # c => call'[d] = call[d]
    BY <1>4, Goings DEF Pc, LeaseInv
  <2>2. Written(c)
    BY <1>4, <2>1, PersistWrites DEF LeaseInv, Waiting
  <2>3. Turn(c) /\ Steady(c)
    BY <1>1, <2>1, <2>2 DEF Turn, Steady, MayGo
  <2> QED BY <1>1, <1>2, <2>1, <2>3, PartKeeps
<1> QED BY <1>3, <1>4 DEF SweepChecks

\* A part of a call is broken off.
LEMMA BreaksOffKeeps ==
  ASSUME LeaseInv, CoreTypes', NEW c \in Caller, Enter(c, Fresh(Back(call[c].back, FALSE))),
         call[c].pc \in Within \ Taking, MayGo(c), UNCHANGED <<lease, saved, writes, ended, loaded>>
  PROVE  LeaseInv'
<1>1. PartAt(c, call[c].back)
  BY Parts
<1> DEFINE pc == Back(call[c].back, FALSE)
<1>2. /\ pc \in Over \cup {"broken"} /\ (c \in Start => pc \in {"refused", "undoing"})
  BY <1>1 DEF Back, Over, PartAt
<1>3. Fresh(pc).pc = pc /\ Fresh(pc).back = "idle"
  BY DEF Fresh
<1> HIDE DEF pc
<1>4. call'[c] = Fresh(pc) /\ \A d \in Caller : d # c => call'[d] = call[d]
  BY Entered DEF LeaseInv, pc
<1>5. call'[c].pc \notin Within \cup Booting /\ (c \in Start => call'[c].pc \notin Before)
  BY <1>2, <1>3, <1>4 DEF Over, Within, Taking, Sweeping, Booting, Before
<1>6. Turn(c)
  BY <1>4, QuietTurn
<1>7. Steady(c)
  BY <1>5 DEF Steady, MayGo, Booting
<1> QED BY <1>3, <1>4, <1>5, <1>6, <1>7, FreshKeeps DEF Within

\* Every step of the retry of the cleanups keeps it.
LEMMA SweepStepKeeps ==
  ASSUME LeaseInv, CoreTypes', NEW c \in Caller, SweepStep(c)
  PROVE  LeaseInv'
<1>1. CASE \E t \in Tab : SweepSkips(c, t)
  <2>1. PICK t \in Tab : SweepSkips(c, t)
    BY <1>1
  <2>2. call[c].pc \in Within \ Taking /\ MayGo(c) /\ SweepsOn(c, t)
    BY <2>1 DEF SweepSkips, MayGo, Within, Taking, Waiting
  <2>3. UNCHANGED <<lease, saved, writes, ended, loaded>>
    BY <2>1 DEF SweepSkips, control, store, past, pauseVars, memory
  <2> QED BY <2>2, <2>3, SweepsOnKeeps
<1>2. CASE SweepWritten(c)
  <2>1. call[c].pc = "swept" /\ MayGo(c) /\ UNCHANGED <<lease, saved, writes, ended, loaded>>
    BY <1>2 DEF SweepWritten, MayGo, store, past, pauseVars, memory
  <2>2. call[c].pc \in Within \ Taking
    BY <2>1 DEF Within, Taking
  <2>3. CASE SweepsOn(c, call[c].tab)
    BY <2>1, <2>2, <2>3, SweepsOnKeeps
  <2>4. CASE Enter(c, Fresh(Back(call[c].back, FALSE)))
    BY <2>1, <2>2, <2>4, BreaksOffKeeps
  <2> QED BY <1>2, <2>3, <2>4 DEF SweepWritten
<1> QED BY <1>1, <1>2, SweepDetachesKeeps, SweepChecksKeeps DEF SweepStep

------------------------------------------------------------------------------
(* The steps of a start.                                                    *)

\* A call goes on afresh, and may record what the memory holds by then.
Afresh(c) ==
  /\ \A d \in Caller : d # c => call'[d] = call[d]
  /\ call'[c].pc \notin Within \cup Booting /\ call'[c].back \in Over
  /\ c \in Start => call'[c].back = "idle" /\ call'[c].pc \notin Before
  /\ lease' = lease \/ lease' = None
  /\ UNCHANGED <<saved, ended, loaded>>
  /\ \/ writes' = writes
     \/ Persist(None)
     \/ Persist(c) /\ call'[c].pc \in Waiting /\ call'[c].reply = ""

\* A call that begins afresh keeps the invariant.
LEMMA AfreshKeeps ==
  ASSUME LeaseInv, CoreTypes', NEW c \in Caller, MayGo(c), Afresh(c)
  PROVE  LeaseInv'
<1>1. Written(c)
  <2>1. CASE writes' = writes
    BY <2>1 DEF Written
  <2>2. CASE Persist(None)
    <3>1. None # c
      BY DEF Caller
    <3> QED BY <2>2, <3>1, PersistWrites DEF LeaseInv
  <2>3. CASE Persist(c) /\ call'[c].pc \in Waiting /\ call'[c].reply = ""
    BY <2>3, PersistWrites DEF LeaseInv
  <2> QED BY <2>1, <2>2, <2>3 DEF Afresh
<1>2. Turn(c)
  BY <1>1 DEF Afresh, Turn, MayGo
<1>3. Steady(c)
  BY DEF Afresh, MayGo, Steady, Booting
<1>4. Aside(c)
  BY DEF Afresh, Aside, Within
<1> QED BY <1>2, <1>3, <1>4, AsideKeeps DEF Afresh, Ends

\* A start is not at its end, nor in a part of itself, when it goes to pc.
Onward == {"refused", "granted", "rejected", "late", "settling", "committing", "uncommitted"}

\* A start that goes on past its lease, or waits for a write on the way, keeps it.
LEMMA OnwardKeeps ==
  ASSUME LeaseInv, CoreTypes', NEW s \in Start, MayGo(s), NEW f, Enter(s, f),
         f.pc \in Onward, f.back = "idle", f.reply = "",
         lease' = lease, UNCHANGED <<saved, ended, loaded>>,
         writes' = writes \/ Persist(None) \/ (Persist(s) /\ f.pc \in Waiting)
  PROVE  LeaseInv'
<1>1. call'[s] = f /\ \A d \in Caller : d # s => call'[d] = call[d]
  <2>1. CoreTypes /\ s \in Caller
    BY Callers DEF LeaseInv
  <2> QED BY <2>1, Entered
<1>2. f.pc \notin Within \cup Booting \cup Before
  BY DEF Onward, Within, Taking, Sweeping, Booting, Before
<1>3. Afresh(s)
  BY <1>1, <1>2 DEF Afresh, Over
<1> QED BY <1>3, AfreshKeeps, Callers

\* Fresh calls.
LEMMA FreshFields ==
  ASSUME NEW pc
  PROVE  Fresh(pc).pc = pc /\ Fresh(pc).back = "idle" /\ Fresh(pc).reply = "" /\ Fresh(pc).tab = None
BY DEF Fresh

\* A start that is refused and writes nothing keeps it.
LEMMA RefusedKeeps ==
  ASSUME LeaseInv, CoreTypes', NEW s \in Start, MayGo(s), Enter(s, Fresh("refused")),
         lease' = lease, UNCHANGED <<saved, ended, loaded>>, writes' = writes
  PROVE  LeaseInv'
<1> DEFINE f == Fresh("refused")
<1>1. f.pc = "refused" /\ f.back = "idle" /\ f.reply = "" /\ Enter(s, f)
  BY FreshFields
<1>2. f.pc \in Onward
  BY <1>1 DEF Onward
<1> HIDE DEF f
<1> QED BY <1>1, <1>2, OnwardKeeps

\* A start that is refused, withdraws, gives up, settles or commits keeps it.
LEMMA StartEndsKeeps ==
  ASSUME LeaseInv, CoreTypes', NEW s \in Start,
         StartRefused(s) \/ StartBusy(s) \/ StartWithdraws(s) \/ StartGivesUp(s) \/ StartSettles(s)
           \/ StartCommits(s)
  PROVE  LeaseInv'
<1>1. MayGo(s)
  BY DEF StartRefused, StartBusy, StartWithdraws, StartGivesUp, StartSettles, StartCommits, MayGo, Waiting
<1>2. lease' = lease /\ UNCHANGED <<saved, ended, loaded>>
  BY DEF StartRefused, StartBusy, StartWithdraws, StartGivesUp, StartSettles, StartCommits,
         pauseVars, memory, control, store, past
<1>3. PICK pc \in Onward :
        /\ Enter(s, Fresh(pc))
        /\ writes' = writes \/ Persist(None) \/ (Persist(s) /\ pc \in Waiting)
  <2>1. CASE StartRefused(s) \/ StartBusy(s)
    BY <2>1 DEF StartRefused, StartBusy, Refuse, store, Onward
  <2>2. CASE StartWithdraws(s)
    BY <2>2 DEF StartWithdraws, Refuse, Onward
  <2>3. CASE StartGivesUp(s)
    BY <2>3 DEF StartGivesUp, Onward, Waiting
  <2>4. CASE StartSettles(s)
    BY <2>4 DEF StartSettles, Refuse, Onward, Waiting
  <2>5. CASE StartCommits(s)
    BY <2>5 DEF StartCommits, Onward, Waiting
  <2> QED BY <2>1, <2>2, <2>3, <2>4, <2>5
<1> DEFINE f == Fresh(pc)
<1>4. f.pc = pc /\ f.back = "idle" /\ f.reply = ""
  BY FreshFields
<1>5. Enter(s, f)
  BY <1>3
<1> HIDE DEF f
<1> QED BY <1>1, <1>2, <1>3, <1>4, <1>5, OnwardKeeps

\* A start that renews its lease keeps it.
LEMMA StartRenewsKeeps ==
  ASSUME LeaseInv, CoreTypes', NEW s \in Start, StartRenews(s)
  PROVE  LeaseInv'
<1> DEFINE f == [Fresh("committing") EXCEPT !.by = lease.by, !.epoch = epoch]
<1>1. MayGo(s) /\ lease' = lease /\ UNCHANGED <<saved, ended, loaded>>
  BY DEF StartRenews, MayGo, Waiting, pauseVars, memory, past
<1>2. f.pc = "committing" /\ f.back = "idle" /\ f.reply = ""
  BY DEF Fresh
<1>3. (Enter(s, Fresh("refused")) /\ writes' = writes) \/ (Enter(s, f) /\ Persist(s))
  BY DEF StartRenews, Refuse
<1> HIDE DEF f
<1>4. CASE Enter(s, Fresh("refused")) /\ writes' = writes
  BY <1>1, <1>4, RefusedKeeps
<1>5. CASE Enter(s, f) /\ Persist(s)
  BY <1>1, <1>2, <1>5, OnwardKeeps DEF Onward, Waiting
<1> QED BY <1>3, <1>4, <1>5

\* A start that writes its intent keeps it.
LEMMA StartIntendsKeeps ==
  ASSUME LeaseInv, CoreTypes', NEW s \in Start, StartIntends(s)
  PROVE  LeaseInv'
<1> DEFINE f == [Fresh("intending") EXCEPT !.prior = revocation, !.owner = call[s].owner]
<1>1. MayGo(s) /\ lease' = lease /\ UNCHANGED <<saved, ended, loaded>> /\ call[s].pc \in {"open", "replaced"}
  BY DEF StartIntends, MayGo, Waiting, pauseVars, memory, past
<1>2. f.pc = "intending" /\ f.back = "idle" /\ f.reply = "" /\ f.owner = call[s].owner
  BY DEF Fresh
<1>3. (Enter(s, Fresh("refused")) /\ writes' = writes) \/ (Enter(s, f) /\ Persist(s))
  BY DEF StartIntends, Refuse
<1> HIDE DEF f
<1>4. CASE Enter(s, Fresh("refused")) /\ writes' = writes
  BY <1>1, <1>4, RefusedKeeps
<1>5. CASE Enter(s, f) /\ Persist(s)
  <2>1. call'[s] = f /\ \A d \in Caller : d # s => call'[d] = call[d]
    BY <1>5, Entered, Callers DEF LeaseInv
  <2>2. Unused(s) /\ call[s].pc # "idle" /\ call[s].owner \in Owner
    BY <1>1 DEF LeaseInv, Posts, Unused, Before
  <2>3. Aside(s)
    BY <1>2, <2>1, <2>2 DEF Aside, Within, Taking, Sweeping, Booting, Over
  <2>4. Written(s)
    BY <1>2, <1>5, <2>1, PersistWrites, Callers DEF LeaseInv, Waiting
  <2>5. Turn(s) /\ Steady(s)
    BY <1>1, <1>2, <2>1, <2>4 DEF Steady, MayGo, Turn
  <2> QED BY <1>1, <2>3, <2>5, AsideKeeps, Callers DEF Ends
<1> QED BY <1>3, <1>4, <1>5

\* A start that reports its session keeps it.
LEMMA StartReadyKeeps ==
  ASSUME LeaseInv, CoreTypes', NEW s \in Start, StartReady(s)
  PROVE  LeaseInv'
<1>1. /\ call[s].pc = "initializing" /\ MayGo(s) /\ Await(s, "committing") /\ Persist(s)
      /\ lease' = lease /\ UNCHANGED <<saved, ended, loaded>>
  BY DEF StartReady, MayGo, Waiting, pauseVars, memory
<1>2. /\ call'[s].pc = "committing" /\ call'[s].reply = "" /\ call'[s].back = call[s].back
      /\ \A d \in Caller : d # s => call'[d] = call[d]
  BY <1>1, Goings, Callers DEF Pc, LeaseInv
<1>3. call[s].back = "idle"
  BY <1>1, Callers DEF LeaseInv, Returns, ReturnsAt, Within, Taking, Sweeping
<1>4. Afresh(s)
  BY <1>1, <1>2, <1>3 DEF Afresh, Over, Waiting, Within, Taking, Sweeping, Booting, Before
<1> QED BY <1>1, <1>4, AfreshKeeps, Callers

\* A start that may still make its lease.
LEMMA StartOpensKeeps ==
  ASSUME LeaseInv, CoreTypes', NEW s \in Start, StartAttaches(s) \/ StartCall(s)
  PROVE  LeaseInv'
<1>1. /\ call[s].pc \in {"intending", "idle"} /\ MayGo(s) /\ (call[s].pc = "idle" => Initialized)
      /\ UNCHANGED <<lease, saved, writes, ended, loaded>>
  BY DEF StartAttaches, StartCall, MayGo, Answered, pauseVars, memory, control, store, past, Waiting
<1>2. CASE StartAttaches(s)
  <2> DEFINE f == [Fresh("attaching") EXCEPT !.epoch = epoch, !.owner = call[s].owner]
  <2>1. f.pc = "attaching" /\ f.back = "idle" /\ f.owner = call[s].owner
    BY DEF Fresh
  <2>2. Enter(s, f)
    BY <1>2 DEF StartAttaches
  <2> HIDE DEF f
  <2>3. call'[s] = f /\ \A d \in Caller : d # s => call'[d] = call[d]
    BY <2>2, Entered, Callers DEF LeaseInv
  <2>4. call[s].pc = "intending" /\ Unused(s) /\ call[s].owner \in Owner
    BY <1>2 DEF StartAttaches, LeaseInv, Posts, Unused, Before
  <2>5. Aside(s)
    BY <2>1, <2>3, <2>4 DEF Aside, Within, Taking, Sweeping, Booting, Over
  <2>6. Turn(s) /\ Steady(s)
    BY <1>1, <2>1, <2>3, QuietTurn, Callers DEF Steady, MayGo
  <2> QED BY <1>1, <2>5, <2>6, AsideKeeps, Callers DEF Ends
<1>3. CASE StartCall(s)
  <2>1. PICK o \in Owner : Enter(s, Fresh("refused")) \/ Enter(s, [Fresh("open") EXCEPT !.owner = o])
    BY <1>3 DEF StartCall
  <2>2. CASE Enter(s, Fresh("refused"))
    BY <1>1, <2>2, RefusedKeeps
  <2>3. CASE Enter(s, [Fresh("open") EXCEPT !.owner = o])
    <3> DEFINE f == [Fresh("open") EXCEPT !.owner = o]
    <3>1. f.pc = "open" /\ f.back = "idle" /\ f.owner = o
      BY DEF Fresh
    <3> HIDE DEF f
    <3>2. call'[s] = f /\ \A d \in Caller : d # s => call'[d] = call[d]
      BY <2>3, Entered, Callers DEF LeaseInv, f
    <3>3. call[s].pc = "idle" /\ Initialized /\ Unused(s)
      BY <1>3 DEF StartCall, Unused, Before
    <3>4. Aside(s)
      BY <3>1, <3>2, <3>3 DEF Aside, Within, Taking, Sweeping, Booting, Over
    <3>5. Turn(s) /\ Steady(s)
      BY <1>1, <3>1, <3>2, QuietTurn, Callers DEF Steady, MayGo
    <3> QED BY <1>1, <3>4, <3>5, AsideKeeps, Callers DEF Ends
  <2> QED BY <2>1, <2>2, <2>3
<1> QED BY <1>2, <1>3

\* Every step of a start keeps it.
LEMMA StartStepKeeps ==
  ASSUME LeaseInv, CoreTypes', NEW s \in Start, StartStep(s) \/ StartBreaks(s)
  PROVE  LeaseInv'
<1>1. CASE StartReplaces(s)
  <2>1. PICK theirs \in BOOLEAN, back \in {"refused", "replaced"} : StopTakes(s, theirs, back)
    BY <1>1 DEF StartReplaces
  <2>2. call[s].pc = "open" /\ UNCHANGED <<ended, loaded>>
    BY <1>1 DEF StartReplaces, pauseVars, memory, past
  <2>3. StopAt(s, back) /\ MayGo(s)
    BY <2>2 DEF StopAt, Over, MayGo, Waiting
  <2> QED BY <2>1, <2>2, <2>3, StopTakesKeeps, Callers
<1>2. CASE StartSweeps(s)
  <2>1. MayGo(s) /\ EnterSweep(s, "refused") /\ UNCHANGED <<lease, saved, writes, ended, loaded>>
    BY <1>2 DEF StartSweeps, MayGo, pauseVars, memory, control, store, past
  <2>2. PartAt(s, "refused")
    BY DEF PartAt, Over
  <2> QED BY <2>1, <2>2, EnterSweepKeeps, Callers
<1>3. CASE StartBreaks(s)
  <2>1. PICK back \in {"refused", "undoing"} : StopFrom(s, TRUE, back)
    BY <1>3 DEF StartBreaks
  <2>2. MayGo(s) /\ UNCHANGED <<ended, loaded>>
    BY <1>3 DEF StartBreaks, MayGo, Waiting, pauseVars, memory, past
  <2>3. PartAt(s, back)
    BY DEF PartAt, Over
  <2> QED BY <2>1, <2>2, <2>3, StopFromKeeps, Callers
<1>4. CASE StartLeases(s)
  <2>1. loaded' = loaded /\ \A d \in Caller : d # s => call'[d] = call[d]
    BY <1>4, Entered, Callers DEF StartLeases, pauseVars, memory, LeaseInv
  <2>2. Loading'
    BY <2>1, Callers DEF LeaseInv, Loading
  <2> QED BY <1>4, <2>2, StartLeasesKeeps
<1> QED BY <1>1, <1>2, <1>3, <1>4, StartEndsKeeps, StartRenewsKeeps, StartIntendsKeeps,
             StartReadyKeeps, StartOpensKeeps DEF StartStep

------------------------------------------------------------------------------
(* The other calls.                                                         *)

\* The calls that the constants name are different ones.
LEMMA Others ==
  /\ Beat \notin Start /\ Beat # Boot /\ Alarm \notin Start /\ Alarm # Boot /\ Boot \notin Start
  /\ \A c \in Stops \cup Tab : c \notin Start /\ c # Boot
OBVIOUS

\* Every step of the heartbeat keeps it.
LEMMA BeatStepKeeps ==
  ASSUME LeaseInv, CoreTypes', BeatStep
  PROVE  LeaseInv'
<1>1. MayGo(Beat)
  BY Others DEF BeatStep, BeatBegins, BeatHolds, BeatEnds, BeatFails, MayGo, Waiting, Answered
<1>2. UNCHANGED <<ended, loaded>>
  BY DEF BeatStep, BeatBegins, BeatHolds, BeatEnds, BeatFails, pauseVars, memory, past
<1>3. CASE BeatBegins
  <2> DEFINE f == [Fresh("beating") EXCEPT !.by = lease.by, !.epoch = lease.epoch]
  <2>1. f.pc = "beating" /\ f.back = "idle"
    BY DEF Fresh
  <2>2. Enter(Beat, f) /\ UNCHANGED <<lease, saved, writes>>
    BY <1>3 DEF BeatBegins, control, store
  <2> HIDE DEF f
  <2>3. call'[Beat] = f /\ \A d \in Caller : d # Beat => call'[d] = call[d]
    BY <2>2, Entered, Callers DEF LeaseInv
  <2>4. Afresh(Beat)
    BY <1>2, <2>1, <2>2, <2>3, Others DEF Afresh, Within, Taking, Sweeping, Booting, Over
  <2> QED BY <1>1, <2>4, AfreshKeeps, Callers
<1>4. CASE BeatHolds
  <2>1. Await(Beat, "beaten") /\ Persist(Beat) /\ UNCHANGED <<lease, saved>>
    BY <1>4 DEF BeatHolds
  <2>2. /\ call'[Beat].pc = "beaten" /\ call'[Beat].reply = "" /\ call'[Beat].back = call[Beat].back
        /\ \A d \in Caller : d # Beat => call'[d] = call[d]
    BY <2>1, Goings, Callers DEF Pc, LeaseInv
  <2>3. call[Beat].back \in Over
    BY Callers DEF LeaseInv, Returns, ReturnsAt
  <2>4. Afresh(Beat)
    BY <1>2, <2>1, <2>2, <2>3, Others DEF Afresh, Within, Taking, Sweeping, Booting, Waiting
  <2> QED BY <1>1, <2>4, AfreshKeeps, Callers
<1>5. CASE BeatEnds
  <2>1. Enter(Beat, Fresh("idle")) /\ UNCHANGED <<lease, saved, writes>>
    BY <1>5 DEF BeatEnds, control, store
  <2>2. call'[Beat] = Fresh("idle") /\ \A d \in Caller : d # Beat => call'[d] = call[d]
    BY <2>1, Entered, Callers DEF LeaseInv
  <2>3. call'[Beat].pc = "idle" /\ call'[Beat].back = "idle"
    BY <2>2, FreshFields
  <2>4. Afresh(Beat)
    BY <1>2, <2>1, <2>2, <2>3, Others DEF Afresh, Within, Taking, Sweeping, Booting, Over
  <2> QED BY <1>1, <2>4, AfreshKeeps, Callers
<1>6. CASE BeatFails
  <2>1. StopFrom(Beat, TRUE, "idle")
    BY <1>6 DEF BeatFails
  <2>2. PartAt(Beat, "idle")
    BY Others DEF PartAt, Over
  <2> QED BY <1>1, <1>2, <2>1, <2>2, StopFromKeeps, Callers
<1> QED BY <1>3, <1>4, <1>5, <1>6 DEF BeatStep

\* A call of a stop or of a listener goes to f.
LEMMA ListenerKeeps ==
  ASSUME LeaseInv, CoreTypes', NEW c \in Stops \cup Tab, MayGo(c), NEW f, Enter(c, f),
         f.pc \in {"hard", "noting", "idle", "done"}, f.back = "idle",
         lease' = lease \/ lease' = None, UNCHANGED <<saved, ended, loaded>>,
         writes' = writes \/ Persist(None)
  PROVE  LeaseInv'
<1>1. call'[c] = f /\ \A d \in Caller : d # c => call'[d] = call[d]
  BY Entered, Callers DEF LeaseInv
<1>2. Afresh(c)
  BY <1>1, Others DEF Afresh, Within, Taking, Sweeping, Booting, Over
<1> QED BY <1>2, AfreshKeeps, Callers

\* A stop that notes the pause when it is over keeps it.
LEMMA NotesKeeps ==
  ASSUME LeaseInv, CoreTypes', NEW c \in Stops \cup Tab, NEW over \in {"idle", "done"}, Notes(c, over)
  PROVE  LeaseInv'
<1> DEFINE f == Fresh(over)
<1>1. /\ MayGo(c) /\ lease' = lease /\ UNCHANGED <<saved, ended, loaded>>
      /\ writes' = writes \/ Persist(None)
  BY Others DEF Notes, MayGo, Waiting, pauseVars, memory, past
<1>2. f.pc = over /\ f.back = "idle"
  BY FreshFields
<1>3. Enter(c, f)
  BY DEF Notes
<1> HIDE DEF f
<1> QED BY <1>1, <1>2, <1>3, ListenerKeeps

\* The listener keeps the invariant when Chrome tells it of a detach.
LEMMA OnDetachKeeps ==
  ASSUME LeaseInv, CoreTypes', NEW t \in Tab, OnDetach(t)
  PROVE  LeaseInv'
<1>1. /\ call[t].pc = "idle" /\ UNCHANGED <<saved, ended, loaded>>
      /\ lease' = lease \/ lease' = None
  BY DEF OnDetach, Stop, Latch, pauseVars, memory, past
<1>2. MayGo(t)
  BY <1>1, Others DEF MayGo, Waiting
<1>3. /\ \A d \in Caller : d # t => call'[d] = call[d]
      /\ call'[t].pc \in {"idle", "hard", "noting", "uninitialized"} /\ call'[t].back \in Over
  <2>1. CASE call' = call
    <3>1. call[t].back \in Over
      BY Callers DEF LeaseInv, Returns, ReturnsAt
    <3> QED BY <1>1, <2>1, <3>1
  <2>2. ASSUME NEW pc \in {"idle", "hard", "noting", "uninitialized"}, Enter(t, [Fresh(pc) EXCEPT !.tab = t])
        PROVE  /\ \A d \in Caller : d # t => call'[d] = call[d]
               /\ call'[t].pc = pc /\ call'[t].back = "idle"
    <3> DEFINE f == [Fresh(pc) EXCEPT !.tab = t]
    <3>1. f.pc = pc /\ f.back = "idle"
      BY DEF Fresh
    <3> HIDE DEF f
    <3>2. Enter(t, f)
      BY <2>2 DEF f
    <3> QED BY <3>1, <3>2, Entered, Callers DEF LeaseInv
  <2>3. call' = call \/ \E pc \in {"idle", "hard", "noting", "uninitialized"} : Enter(t, [Fresh(pc) EXCEPT !.tab = t])
    BY DEF OnDetach, Noting
  <2> QED BY <2>1, <2>2, <2>3 DEF Over
<1>4. Written(t)
  <2>1. CASE writes' = writes
    BY <2>1 DEF Written
  <2>2. ASSUME NEW w, writes' = Append(writes, w), w.by = None, w.snap.lease = lease PROVE Written(t)
    <3>1. w \in Entry
      <4>1. writes \in Seq(Entry) /\ writes' \in Seq(Entry)
        BY DEF LeaseInv, CoreTypes
      <4>2. Len(writes) + 1 \in DOMAIN writes' /\ writes'[Len(writes) + 1] = w
        BY <2>2, <4>1
      <4> QED BY <4>1, <4>2
    <3>2. Pushes(t, w)
      BY <2>2 DEF Pushes
    <3> QED BY <3>1, <3>2 DEF Written
  <2>3. writes' = writes \/ \E w : writes' = Append(writes, w) /\ w.by = None /\ w.snap.lease = lease
    BY DEF OnDetach, Record
  <2> QED BY <2>1, <2>2, <2>3
<1>5. Turn(t) /\ Steady(t)
  BY <1>1, <1>2, <1>3, <1>4, Others DEF Turn, MayGo, Steady
<1>6. Aside(t)
  BY <1>3, Others DEF Aside, Taking, Sweeping, Booting
<1> QED BY <1>1, <1>5, <1>6, AsideKeeps, Callers DEF Ends

\* Every step of the listener keeps it.
LEMMA DetachStepKeeps ==
  ASSUME LeaseInv, CoreTypes', NEW t \in Tab, DetachStep(t)
  PROVE  LeaseInv'
<1>1. CASE HardInitialized(t) \/ HardWrites(t)
  <2>1. /\ MayGo(t) /\ (lease' = lease \/ lease' = None) /\ UNCHANGED <<saved, ended, loaded>>
        /\ writes' = writes \/ Persist(None)
    BY <1>1, Others DEF HardInitialized, HardWrites, MayGo, Waiting, pauseVars, memory, store, past
  <2>2. PICK pc \in {"hard", "noting", "idle"} : Enter(t, [Fresh(pc) EXCEPT !.tab = t])
    BY <1>1 DEF HardInitialized, HardWrites, Noting
  <2> DEFINE f == [Fresh(pc) EXCEPT !.tab = t]
  <2>3. f.pc = pc /\ f.back = "idle"
    BY DEF Fresh
  <2>4. Enter(t, f)
    BY <2>2
  <2> HIDE DEF f
  <2> QED BY <2>1, <2>3, <2>4, ListenerKeeps
<1>2. CASE Notes(t, "idle")
  BY <1>2, NotesKeeps
<1> QED BY <1>1, <1>2, OnDetachKeeps DEF DetachStep

\* A stop of the human that is called keeps it.
LEMMA ReleaseKeeps ==
  ASSUME LeaseInv, CoreTypes', NEW c \in Stops, Release(c)
  PROVE  LeaseInv'
<1>1. PICK back \in {"noting", "done"} : StopFrom(c, TRUE, back)
  BY DEF Release, Noting
<1>2. MayGo(c) /\ UNCHANGED <<ended, loaded>>
  BY Others DEF Release, MayGo, Waiting, Stop, Latch, pauseVars, memory, past
<1>3. PartAt(c, back)
  BY Others DEF PartAt, Over
<1> QED BY <1>1, <1>2, <1>3, StopFromKeeps, Callers

\* The alarm that rings keeps it.
LEMMA AlarmKeeps ==
  ASSUME LeaseInv, CoreTypes', AlarmRings
  PROVE  LeaseInv'
<1>1. MayGo(Alarm) /\ EnterSweep(Alarm, "idle") /\ UNCHANGED <<lease, saved, writes, ended, loaded>>
  BY Others DEF AlarmRings, MayGo, Waiting, pauseVars, memory, control, store, past
<1>2. PartAt(Alarm, "idle")
  BY Others DEF PartAt, Over
<1> QED BY <1>1, <1>2, EnterSweepKeeps, Callers

\* A call that returns with an error keeps it.
LEMMA BrokenKeeps ==
  ASSUME LeaseInv, CoreTypes', NEW c \in Caller, Broken(c)
  PROVE  LeaseInv'
<1>1. call[c].pc \in Within \ Taking /\ MayGo(c) /\ UNCHANGED <<lease, saved, writes, ended, loaded>>
  BY DEF Broken, MayGo, Waiting, Within, Taking, pauseVars, memory, control, store, past
<1> QED BY <1>1, BreaksOffKeeps DEF Broken

------------------------------------------------------------------------------
(* The initialization.                                                      *)

\* The initialization keeps the invariant when it begins.
LEMMA BootWakesKeeps ==
  ASSUME LeaseInv, CoreTypes', BootWakes
  PROVE  LeaseInv'
<1>1. /\ loaded = "down" /\ loaded' = "reading" /\ Go(Boot, "reading")
      /\ UNCHANGED <<lease, saved, writes, ended>>
  BY DEF BootWakes, Wake, control, store, past
<1>2. /\ call'[Boot].pc = "reading" /\ call'[Boot].back = call[Boot].back
      /\ \A d \in Caller : d # Boot => call'[d] = call[d]
  BY <1>1, Goings, Callers DEF Pc, LeaseInv
<1>3. call[Boot].pc = "down"
  BY <1>1 DEF LeaseInv, Loading
<1>4. Turn(Boot)
  BY <1>1, <1>2, <1>3 DEF Turn, Written, Waiting
<1>5. Takes(Boot) /\ Ends(Boot) /\ Looks(Boot) /\ Uses(Boot)
  BY <1>1, <1>2, <1>3, Others DEF Takes, Ends, Looks, Uses, Taking, Booting, Looking
<1>6. call[Boot].back \in Over
  BY Callers DEF LeaseInv, Returns, ReturnsAt
<1>7. ReturnsAt(Boot, call'[Boot]) /\ Holding(Boot)'
  BY <1>2, <1>6, Others DEF ReturnsAt, Holding, Within, Taking, Sweeping, Looking, New
<1>8. Loading'
  BY <1>1, <1>2 DEF Loading
<1> QED BY <1>4, <1>5, <1>7, <1>8, TurnKeeps, Callers

\* It keeps it when it has read the store.
LEMMA BootReadsKeeps ==
  ASSUME LeaseInv, CoreTypes', BootReads
  PROVE  LeaseInv'
<1>1. UNCHANGED <<lease, call, saved, writes, ended>>
  BY DEF BootReads, control, store, past
<1>2. Loading'
  BY DEF BootReads, Read, LeaseInv, Loading
<1> QED BY <1>1, <1>2, StillKeeps

\* It keeps it when it loads what it read, and looks at a stored lease.
LEMMA BootLoadsKeeps ==
  ASSUME LeaseInv, CoreTypes', BootLoads
  PROVE  LeaseInv'
<1> DEFINE with(pc) == [Fresh(pc) EXCEPT !.tab = saved.lease.tab, !.owner = saved.lease.owner,
                                         !.by = saved.lease.by, !.epoch = saved.lease.epoch]
<1>1. /\ loaded = "read" /\ loaded' = "yes" /\ UNCHANGED <<lease, saved, ended>>
  BY DEF BootLoads, Load, past
<1>2. call[Boot].pc = "reading"
  BY <1>1 DEF LeaseInv, Loading
<1>3. ASSUME NEW f, Enter(Boot, f), f.pc \in {"recording", "dropping", "looking"}, f.back = "idle",
             f.pc \in Looking =>
               /\ saved.lease # None /\ f.by = saved.lease.by
               /\ f.tab \in Tab /\ f.owner \in Owner /\ f.by \in Start,
             writes' = writes \/ (Persist(Boot) /\ f.pc \in Waiting /\ f.reply = "")
      PROVE  LeaseInv'
  <2>1. call'[Boot] = f /\ \A d \in Caller : d # Boot => call'[d] = call[d]
    BY <1>3, Entered, Callers DEF LeaseInv
  <2>2. Written(Boot)
    <3>1. CASE writes' = writes
      BY <3>1 DEF Written
    <3>2. CASE Persist(Boot) /\ f.pc \in Waiting /\ f.reply = ""
      BY <2>1, <3>2, PersistWrites, Callers DEF LeaseInv
    <3> QED BY <1>3, <3>1, <3>2
  <2>3. Turn(Boot)
    BY <1>1, <1>2, <2>1, <2>2 DEF Turn, Waiting
  <2>4. Takes(Boot) /\ Ends(Boot) /\ Looks(Boot) /\ Uses(Boot)
    BY <1>1, <1>2, <1>3, <2>1, Others DEF Takes, Ends, Looks, Uses, Taking, Booting
  <2>5. ReturnsAt(Boot, call'[Boot]) /\ Holding(Boot)'
    BY <1>3, <2>1, Others DEF ReturnsAt, Holding, Over, Within, Taking, Sweeping, New
  <2>6. Loading'
    BY <1>1, <1>3, <2>1 DEF Loading
  <2> QED BY <2>3, <2>4, <2>5, <2>6, TurnKeeps, Callers
<1>4. CASE Enter(Boot, Fresh("recording")) /\ Persist(Boot)
  <2> DEFINE f == Fresh("recording")
  <2>1. f.pc = "recording" /\ f.back = "idle" /\ f.reply = ""
    BY FreshFields
  <2>2. Enter(Boot, f)
    BY <1>4
  <2> HIDE DEF f
  <2> QED BY <1>3, <1>4, <2>1, <2>2 DEF Looking, Waiting
<1>5. ASSUME NEW pc \in Looking, Enter(Boot, with(pc)), saved.lease # None, writes' = writes
      PROVE  LeaseInv'
  <2> DEFINE f == with(pc)
  <2>1. /\ f.pc = pc /\ f.back = "idle" /\ f.by = saved.lease.by
        /\ f.tab = saved.lease.tab /\ f.owner = saved.lease.owner
    BY DEF Fresh
  <2>2. Enter(Boot, f)
    BY <1>5
  <2>3. saved.lease \in Lease
    BY <1>5, StoredLease
  <2>4. saved.lease.tab \in Tab /\ saved.lease.owner \in Owner /\ saved.lease.by \in Start
    BY <2>3 DEF Lease
  <2> HIDE DEF f
  <2> QED BY <1>3, <1>5, <2>1, <2>2, <2>4 DEF Looking
<1>6. \/ Enter(Boot, Fresh("recording")) /\ Persist(Boot)
      \/ saved.lease # None /\ writes' = writes /\ (Enter(Boot, with("dropping")) \/ Enter(Boot, with("looking")))
  BY DEF BootLoads
<1> HIDE DEF with
<1> QED BY <1>4, <1>5, <1>6 DEF Looking

\* A stretch of the initialization that goes on to pc.
LEMMA BootGoesKeeps ==
  ASSUME LeaseInv, CoreTypes', NEW pc \in {"recording", "losing", "recovered"},
         Go(Boot, pc) \/ Await(Boot, pc), MayGo(Boot),
         lease' = lease \/ lease' = None, UNCHANGED <<saved, ended, loaded>>,
         writes' = writes \/ (Persist(Boot) /\ Await(Boot, pc) /\ pc \in Waiting)
  PROVE  LeaseInv'
<1>1. /\ call'[Boot].pc = pc /\ call'[Boot].back = call[Boot].back
      /\ Await(Boot, pc) => call'[Boot].reply = ""
      /\ \A d \in Caller : d # Boot => call'[d] = call[d]
  <2>1. pc \in Pc /\ CoreTypes /\ Boot \in Caller
    BY Callers DEF Pc, LeaseInv
  <2> QED BY <2>1, Goings
<1>2. call[Boot].back \in Over
  BY Callers DEF LeaseInv, Returns, ReturnsAt
<1>3. Afresh(Boot)
  BY <1>1, <1>2, Others DEF Afresh, Within, Taking, Sweeping, Booting
<1> QED BY <1>3, AfreshKeeps, Callers

\* Every step of the initialization keeps it.
LEMMA BootStepKeeps ==
  ASSUME LeaseInv, CoreTypes', BootWakes \/ BootStep
  PROVE  LeaseInv'
<1>1. CASE BootTakesUp
  <2>1. loaded' = loaded /\ Go(Boot, "recovering")
    BY <1>1 DEF BootTakesUp, pauseVars, memory
  <2>2. call'[Boot].pc = "recovering"
    BY <2>1, Goings, Callers DEF Pc, LeaseInv
  <2>3. Loading'
    BY <1>1, <2>1, <2>2 DEF BootTakesUp, LeaseInv, Loading
  <2> QED BY <1>1, <2>3, BootTakesUpKeeps
<1>2. CASE BootLost
  BY <1>2, BootGoesKeeps DEF BootLost, MayGo, Waiting, pauseVars, memory, past
<1>3. CASE BootVerifies
  BY <1>3, BootGoesKeeps DEF BootVerifies, MayGo, Waiting, pauseVars, memory, past
<1>4. CASE \E seen \in BOOLEAN : BootDrops(seen)
  BY <1>4, BootGoesKeeps DEF BootDrops, MayGo, Waiting, pauseVars, memory, past
<1>5. CASE \E seen \in BOOLEAN : BootLoses(seen)
  BY <1>5, BootGoesKeeps DEF BootLoses, MayGo, Waiting, pauseVars, memory, store, past
<1>6. CASE BootEnds
  <2>1. PICK pc \in {"up", "broken"} : Enter(Boot, Fresh(pc))
    BY <1>6 DEF BootEnds, Back
  <2> DEFINE f == Fresh(pc)
  <2>2. f.pc = pc /\ f.back = "idle"
    BY FreshFields
  <2>3. Enter(Boot, f)
    BY <2>1
  <2> HIDE DEF f
  <2>4. call'[Boot] = f /\ \A d \in Caller : d # Boot => call'[d] = call[d]
    BY <2>3, Entered, Callers DEF LeaseInv
  <2>5. MayGo(Boot) /\ UNCHANGED <<lease, saved, writes, ended, loaded>>
    BY <1>6 DEF BootEnds, MayGo, Waiting, pauseVars, memory, control, store, past
  <2>6. Afresh(Boot)
    BY <2>2, <2>4, <2>5, Others DEF Afresh, Within, Taking, Sweeping, Booting, Over
  <2> QED BY <2>5, <2>6, AfreshKeeps, Callers
<1>7. CASE BootFails
  <2>1. PICK back \in {"up", "failing"} : StopFrom(Boot, TRUE, back)
    BY <1>7 DEF BootFails
  <2>2. MayGo(Boot) /\ UNCHANGED <<ended, loaded>>
    BY <1>7 DEF BootFails, MayGo, Waiting, pauseVars, memory, past
  <2>3. PartAt(Boot, back)
    BY Others DEF PartAt, Over
  <2> QED BY <2>1, <2>2, <2>3, StopFromKeeps, Callers
<1> QED BY <1>1, <1>2, <1>3, <1>4, <1>5, <1>6, <1>7, BootWakesKeeps, BootReadsKeeps, BootLoadsKeeps DEF BootStep

------------------------------------------------------------------------------
(* What comes from outside; and every step.                                 *)

\* What Chrome does to a debugger keeps the invariant: a detach answers no write.
LEMMA RunChromeKeeps ==
  ASSUME LeaseInv, CoreTypes', NEW t \in Tab, NEW done \in BOOLEAN, RunChrome(t, done)
  PROVE  LeaseInv'
<1> DEFINE s == Head(ops[t]).by
<1>1. UNCHANGED <<lease, saved, writes, ended, loaded>>
  BY DEF RunChrome, store, past, pauseVars, memory
<1>2. CASE call' = call
  <2>1. Loading'
    BY <1>1, <1>2 DEF LeaseInv, Loading
  <2> QED BY <1>1, <1>2, <2>1, StillKeeps
<1>3. CASE s \in Start /\ call[s].pc = "attaching"
           /\ call' = [call EXCEPT ![s].reply = IF done THEN "ok" ELSE "bad"]
  <2> HIDE DEF s
  <2>1. PICK v \in {"ok", "bad"} : call' = [call EXCEPT ![s].reply = v]
    BY <1>3
  <2> DEFINE r == [call[s] EXCEPT !.reply = v]
  <2>2. call' = [call EXCEPT ![s] = r]
    BY <2>1, Zenon
  <2>3. call[s] \in Call
    BY <1>3, Locals, Callers DEF LeaseInv
  <2>4. r.pc = call[s].pc /\ r.back = call[s].back /\ r.owner = call[s].owner
    BY <2>3 DEF Call
  <2> HIDE DEF r
  <2>5. call'[s] = r /\ \A d \in Caller : d # s => call'[d] = call[d]
    BY <1>3, <2>2, Callers DEF LeaseInv, CoreTypes
  <2>6. call[s].back = "idle" /\ Unused(s) /\ call[s].owner \in Owner
    <3>1. Unused(s)
      BY <1>3 DEF Unused, Before
    <3>2. call[s].owner \in Owner
      BY <1>3, <3>1 DEF LeaseInv, Posts
    <3>3. call[s].back = "idle"
      BY <1>3, Callers DEF LeaseInv, Returns, ReturnsAt, Within, Taking, Sweeping
    <3> QED BY <3>1, <3>2, <3>3
  <2>7. Aside(s)
    BY <1>3, <2>4, <2>5, <2>6 DEF Aside, Within, Taking, Sweeping, Booting, Over
  <2>8. MayGo(s)
    BY <1>3, Others DEF MayGo, Waiting
  <2>9. Turn(s) /\ Steady(s)
    BY <1>1, <1>3, <2>4, <2>5, <2>8, QuietTurn, Callers DEF Steady, MayGo
  <2> QED BY <1>1, <1>3, <2>7, <2>9, AsideKeeps, Callers DEF Ends
<1> QED BY <1>2, <1>3 DEF RunChrome

\* Every step from outside, the writes that storage applies among them, keeps it.
LEMMA OutsideKeeps ==
  ASSUME LeaseInv, CoreTypes', Outside
  PROVE  LeaseInv'
<1>1. CASE \E s \in Start : CancelStart(s)
  <2>1. UNCHANGED <<lease, call, saved, writes, ended, loaded>>
    BY <1>1 DEF CancelStart, store, past, pauseVars, memory
  <2> QED BY <2>1, StillKeeps DEF LeaseInv, Loading
<1>2. CASE \E t \in Tab : \E why \in {"canceled_by_user", "target_closed"} : ChromeDetaches(t, why)
  <2>1. UNCHANGED <<lease, call, saved, writes, ended, loaded>>
    BY <1>2 DEF ChromeDetaches, control, store, past, pauseVars, memory
  <2> QED BY <2>1, StillKeeps DEF LeaseInv, Loading
<1>3. CASE \E done \in BOOLEAN : Pauses(done)
  <2>1. PICK done \in BOOLEAN : Pauses(done)
    BY <1>3
  <2>2. loaded' = loaded
    <3>1. ASSUME NEW c \in Stopper, Pen(c, done) PROVE loaded' = loaded
      BY <3>1 DEF Pen, PenMarker, PenClear, PenAgain, PenLocal, PenLocalFails, memory
    <3>2. CASE Popups(done)
      BY <3>2 DEF Popups, Resume, ResumeLifts, ResumeEnds, ResumeFails, ResumeRestores, memory
    <3> QED BY <2>1, <3>1, <3>2 DEF Pauses
  <2>3. UNCHANGED <<lease, call, saved, writes, ended>>
    BY <2>1 DEF Pauses, control, store, past
  <2> QED BY <2>2, <2>3, StillKeeps DEF LeaseInv, Loading
<1>4. CASE \E done \in BOOLEAN : Disk(done)
  <2>1. PICK done \in BOOLEAN : Disk(done)
    BY <1>4
  <2>2. loaded' = loaded /\ call'[Boot].pc = call[Boot].pc
    <3>1. call[Boot] \in Call /\ call \in [Caller -> Call]
      BY Locals, Callers DEF LeaseInv, CoreTypes
    <3>2. loaded' = loaded
      BY <2>1 DEF Disk, pauseVars, memory
    <3>3. CASE call' = call
      BY <3>2, <3>3
    <3>4. CASE Head(writes).by # None
      <4> DEFINE b == Head(writes).by
      <4>1. PICK v \in {"ok", "bad"} : call' = [call EXCEPT ![b].reply = v]
        BY <2>1, <3>4 DEF Disk
      <4> HIDE DEF b
      <4>2. CASE b = Boot
        <5>1. call' = [call EXCEPT ![Boot] = [call[Boot] EXCEPT !.reply = v]]
          BY <4>1, <4>2, Zenon
        <5>2. call'[Boot] = [call[Boot] EXCEPT !.reply = v]
          BY <3>1, <5>1, Callers
        <5> QED BY <3>1, <3>2, <5>2 DEF Call
      <4>3. CASE b # Boot
        <5>1. call'[Boot] = call[Boot]
          BY <3>1, <4>1, <4>3, Callers
        <5> QED BY <3>2, <5>1
      <4> QED BY <4>2, <4>3
    <3> QED BY <2>1, <3>3, <3>4 DEF Disk
  <2>3. Loading'
    BY <2>2 DEF LeaseInv, Loading
  <2> QED BY <2>1, <2>3, DiskKeeps
<1> QED BY <1>1, <1>2, <1>3, <1>4, RunChromeKeeps DEF Outside

\* Every step keeps the invariant.
LEMMA LeaseNext ==
  ASSUME LeaseInv, [Next]_vars
  PROVE  LeaseInv'
<1>1. CoreTypes'
  BY NextTypes DEF LeaseInv
<1>2. ASSUME NEW c \in Caller, Goes(c) PROVE LeaseInv'
  <2>1. CASE Broken(c)
    BY <1>1, <2>1, BrokenKeeps
  <2>2. CASE c \in Start /\ (StartStep(c) \/ StartBreaks(c))
    BY <1>1, <2>2, StartStepKeeps
  <2>3. CASE c \in Stops /\ Notes(c, "done")
    BY <1>1, <2>3, NotesKeeps
  <2>4. CASE c \in Tab /\ DetachStep(c)
    BY <1>1, <2>4, DetachStepKeeps
  <2>5. CASE c = Alarm /\ AlarmRings
    BY <1>1, <2>5, AlarmKeeps
  <2>6. CASE c = Beat /\ BeatStep
    BY <1>1, <2>6, BeatStepKeeps
  <2>7. CASE c = Boot /\ (BootWakes \/ BootStep)
    BY <1>1, <2>7, BootStepKeeps
  <2>8. CASE StopStep(c)
    BY <1>1, <2>8, StopStepKeeps
  <2>9. CASE SweepStep(c)
    BY <1>1, <2>9, SweepStepKeeps
  <2> QED BY <1>2, <2>1, <2>2, <2>3, <2>4, <2>5, <2>6, <2>7, <2>8, <2>9 DEF Goes
<1>3. ASSUME NEW c \in Caller, Comes(c) PROVE LeaseInv'
  <2>1. CASE c \in Start /\ StartCall(c)
    BY <1>1, <2>1, StartOpensKeeps
  <2>2. CASE c \in Stops /\ Release(c)
    BY <1>1, <2>2, ReleaseKeeps
  <2> QED BY <1>3, <2>1, <2>2 DEF Comes
<1>4. CASE WorkerRestarts \/ BrowserRestarts
  <2>1. loaded' = "down" /\ call'[Boot].pc = "down"
    <3>1. loaded' = "down"
      BY <1>4 DEF WorkerRestarts, BrowserRestarts, WorkerDies, BrowserQuits, Forget
    <3>2. call' = [c \in Caller |->
            IF c \in Start \cup Stops
            THEN IF call[c].pc \in {"idle", "granted", "refused", "done"} THEN call[c] ELSE Fresh("gone")
            ELSE Fresh(IF c = Boot THEN "down" ELSE "idle")]
      BY <1>4 DEF WorkerRestarts, BrowserRestarts, Restarts
    <3>3. call'[Boot] = Fresh("down")
      BY <3>2, Callers
    <3> QED BY <3>1, <3>3, FreshFields
  <2>2. Loading'
    BY <2>1 DEF Loading
  <2> QED BY <1>1, <1>4, <2>2, RestartKeeps
<1>5. CASE UNCHANGED vars
  <2>1. UNCHANGED <<lease, call, saved, writes, ended, loaded>>
    BY <1>5 DEF vars, pauseVars, memory, control, store, past
  <2> QED BY <1>1, <2>1, StillKeeps DEF LeaseInv, Loading
<1> QED BY <1>1, <1>2, <1>3, <1>4, <1>5, OutsideKeeps DEF Next

\* It holds at the start.
LEMMA LeaseInit == Init => LeaseInv
<1> SUFFICES ASSUME Init PROVE LeaseInv
  OBVIOUS
<1>1. /\ lease = None /\ saved = Blank /\ writes = <<>> /\ ended = {} /\ loaded = "down"
      /\ call = [c \in Caller |-> Fresh(IF c = Boot THEN "down" ELSE "idle")]
      /\ epoch = 0 /\ revocation = NoRevocation /\ cleanups = NoCleanup
  BY DEF Init, PauseInit
<1>2. Fresh("down") \in Call /\ Fresh("idle") \in Call
  BY FreshType DEF Pc
<1>3. \A c \in Caller : /\ call[c] \in Call
                        /\ call[c].pc = (IF c = Boot THEN "down" ELSE "idle") /\ call[c].back = "idle"
  BY <1>1, <1>2 DEF Fresh
<1>4. DOMAIN writes = {} /\ writes \in Seq(Entry)
  BY <1>1
<1>5. CoreTypes
  BY <1>1, <1>2, <1>4, NothingTypes DEF CoreTypes, MemTypes
<1>6. Posts
  BY <1>3, Callers DEF Posts, Sweeping, Looking
<1>7. Returns
  BY <1>3 DEF Returns, ReturnsAt, Over, Within, Taking, Sweeping
<1>8. Loading
  BY <1>1, <1>3, Callers DEF Loading
<1>9. Boots
  BY <1>1, <1>3, Callers, Others DEF Boots, Taking, New
<1>10. Waits
  BY <1>4 DEF Waits
<1>11. saved.lease = None
  BY <1>1 DEF Blank
<1>12. OneLease
  BY <1>1, <1>3, <1>4, <1>11, Callers DEF OneLease, Used, Looking, Taking
<1>13. Taken
  BY <1>3 DEF Taken, Taking
<1>14. Gone
  BY <1>1 DEF Gone
<1> QED BY <1>5, <1>6, <1>7, <1>8, <1>9, <1>10, <1>12, <1>13, <1>14 DEF LeaseInv

\* A session whose stop was reported as a success is never in control again,
\* whatever starts, stops, late attaches, failed writes and restarts follow.
THEOREM EndedForGood == Spec => []EndedStaysEnded
<1>1. LeaseInv /\ [Next]_vars => LeaseInv'
  BY LeaseNext
<1>2. LeaseInv => EndedStaysEnded
  BY DEF LeaseInv, Gone, Without, EndedStaysEnded
<1> QED BY <1>1, <1>2, LeaseInit, PTL DEF Spec

------------------------------------------------------------------------------
(* The pause inside the lease.                                              *)

\* A stop that takes the lease, or finds none, does nothing to the pause.
LEMMA StopStepPauses ==
  ASSUME NEW c \in Caller, StopStep(c) PROVE UNCHANGED pauseVars
<1>1. CASE StopInitialized(c)
  BY <1>1 DEF StopInitialized
<1>2. CASE StopDetaches(c)
  BY <1>2 DEF StopDetaches
<1>3. CASE StopEnds(c)
  BY <1>3 DEF StopEnds
<1>4. CASE \E seen \in BOOLEAN : StopConfirms(c, seen)
  BY <1>4 DEF StopConfirms
<1> QED BY <1>1, <1>2, <1>3, <1>4 DEF StopStep

\* Nor does the retry of the cleanups.
LEMMA SweepStepPauses ==
  ASSUME NEW c \in Caller, SweepStep(c) PROVE UNCHANGED pauseVars
<1>1. CASE \E t \in Tab : SweepSkips(c, t) \/ SweepDetaches(c, t)
  BY <1>1 DEF SweepSkips, SweepDetaches
<1>2. CASE \E seen, apart \in BOOLEAN : SweepChecks(c, seen, apart)
  BY <1>2 DEF SweepChecks
<1>3. CASE SweepWritten(c)
  BY <1>3 DEF SweepWritten
<1> QED BY <1>1, <1>2, <1>3 DEF SweepStep

\* Nor a start.
LEMMA StartStepPauses ==
  ASSUME NEW s \in Start, StartStep(s) \/ StartBreaks(s) \/ StartCall(s) \/ CancelStart(s)
  PROVE  UNCHANGED pauseVars
<1>1. CASE StartCall(s) \/ CancelStart(s) \/ StartBreaks(s)
  BY <1>1 DEF StartCall, CancelStart, StartBreaks
<1>2. CASE StartRefused(s) \/ StartRenews(s) \/ StartReplaces(s)
  BY <1>2 DEF StartRefused, StartRenews, StartReplaces
<1>3. CASE StartIntends(s) \/ StartBusy(s) \/ StartAttaches(s) \/ StartWithdraws(s)
  BY <1>3 DEF StartIntends, StartBusy, StartAttaches, StartWithdraws
<1>4. CASE StartLeases(s) \/ StartGivesUp(s) \/ StartSettles(s)
  BY <1>4 DEF StartLeases, StartGivesUp, StartSettles
<1>5. CASE StartSweeps(s) \/ StartReady(s) \/ StartCommits(s)
  BY <1>5 DEF StartSweeps, StartReady, StartCommits
<1> QED BY <1>1, <1>2, <1>3, <1>4, <1>5 DEF StartStep

\* Nor the heartbeat.
LEMMA BeatStepPauses ==
  ASSUME BeatStep PROVE UNCHANGED pauseVars
  BY DEF BeatStep, BeatBegins, BeatHolds, BeatEnds, BeatFails

\* The listener latches a pause, or does nothing to it.
LEMMA DetachStepPauses ==
  ASSUME NEW t \in Tab, DetachStep(t) PROVE [PauseNext]_pauseVars
<1>1. CASE OnDetach(t)
  <2>1. (t \in Stopper /\ Stop(t)) \/ UNCHANGED pauseVars
    BY <1>1 DEF OnDetach
  <2> QED BY <2>1 DEF PauseNext
<1>2. CASE HardInitialized(t) \/ HardWrites(t) \/ Notes(t, "idle")
  BY <1>2 DEF HardInitialized, HardWrites, Notes
<1> QED BY <1>1, <1>2 DEF DetachStep

\* The initialization wakes the pause, reads it and loads it.
LEMMA BootStepPauses ==
  ASSUME BootWakes \/ BootStep PROVE [PauseNext]_pauseVars
<1>1. CASE BootWakes \/ BootReads \/ BootLoads
  BY <1>1 DEF BootWakes, BootReads, BootLoads, PauseNext
<1>2. CASE BootTakesUp \/ BootLost \/ BootEnds \/ BootVerifies \/ BootFails
  BY <1>2 DEF BootTakesUp, BootLost, BootEnds, BootVerifies, BootFails
<1>3. CASE \E seen \in BOOLEAN : BootDrops(seen) \/ BootLoses(seen)
  BY <1>3 DEF BootDrops, BootLoses
<1> QED BY <1>1, <1>2, <1>3 DEF BootStep

\* What comes from outside.
LEMMA OutsidePauses ==
  ASSUME Outside PROVE [PauseNext]_pauseVars
<1>1. CASE \E s \in Start : CancelStart(s)
  BY <1>1, StartStepPauses
<1>2. CASE \E t \in Tab : \E done \in BOOLEAN : RunChrome(t, done)
  BY <1>2 DEF RunChrome
<1>3. CASE \E t \in Tab : \E why \in {"canceled_by_user", "target_closed"} : ChromeDetaches(t, why)
  BY <1>3 DEF ChromeDetaches
<1>4. CASE \E done \in BOOLEAN : Disk(done) \/ Pauses(done)
  BY <1>4 DEF Disk, Pauses, PauseNext
<1> QED BY <1>1, <1>2, <1>3, <1>4 DEF Outside

\* Every step of the lease is a step of the pause, or leaves it alone.
LEMMA NextPauses ==
  ASSUME [Next]_vars PROVE [PauseNext]_pauseVars
<1>1. ASSUME NEW c \in Caller, Goes(c) PROVE [PauseNext]_pauseVars
  <2>1. CASE Broken(c) \/ (c \in Stops /\ Notes(c, "done")) \/ (c = Alarm /\ AlarmRings)
    BY <2>1 DEF Broken, Notes, AlarmRings
  <2>2. CASE c \in Start /\ (StartStep(c) \/ StartBreaks(c))
    BY <2>2, StartStepPauses
  <2>3. CASE c \in Tab /\ DetachStep(c)
    BY <2>3, DetachStepPauses
  <2>4. CASE c = Beat /\ BeatStep
    BY <2>4, BeatStepPauses
  <2>5. CASE c = Boot /\ (BootWakes \/ BootStep)
    BY <2>5, BootStepPauses
  <2>6. CASE StopStep(c)
    BY <2>6, StopStepPauses
  <2>7. CASE SweepStep(c)
    BY <2>7, SweepStepPauses
  <2> QED BY <1>1, <2>1, <2>2, <2>3, <2>4, <2>5, <2>6, <2>7 DEF Goes
<1>2. ASSUME NEW c \in Caller, Comes(c) PROVE [PauseNext]_pauseVars
  <2>1. CASE c \in Start /\ StartCall(c)
    BY <2>1, StartStepPauses
  <2>2. CASE c \in Stops /\ Release(c)
    BY <2>2 DEF Release, PauseNext
  <2> QED BY <1>2, <2>1, <2>2 DEF Comes
<1>3. CASE WorkerRestarts \/ BrowserRestarts
  BY <1>3 DEF WorkerRestarts, BrowserRestarts, PauseNext
<1>4. CASE UNCHANGED vars
  BY <1>4 DEF vars
<1> QED BY <1>1, <1>2, <1>3, <1>4, OutsidePauses DEF Next

\* The lease implements the human pause on its own.
THEOREM ControlPauses == Spec => PauseSpec
<1>1. Init => PauseInit
  BY DEF Init
<1>2. [Next]_vars => [PauseNext]_pauseVars
  BY NextPauses
<1> QED BY <1>1, <1>2, PTL DEF Spec, PauseSpec

\* A stop after the last Resume is in force, whatever the lease, the debugger and
\* the crashes do meanwhile.
THEOREM ControlInForce == Spec => []InForce
BY ControlPauses, PauseInForce, PTL

\* And what storage.local has taken stays there.
THEOREM ControlDurable == Spec => []Durable
BY ControlPauses, PauseDurable, PTL

------------------------------------------------------------------------------
(* The type.                                                                *)

\* What the other variables are.
HandTypes ==
  /\ teardowns \in [Tab -> Caller \cup {None}] /\ attaches \in [Tab -> Start \cup {None}]
  /\ detaches \in [Tab -> Caller \cup {None}]
  /\ intentional \in Tab \cup {None} /\ canceled \in SUBSET Start
ChromeTypes ==
  /\ attached \in SUBSET Tab /\ ops \in [Tab -> Seq(Op)]
  /\ notice \in [Tab -> {"none", "canceled_by_user", "target_closed"}]
PastTypes ==
  /\ crashes \in Nat /\ fails \in Nat /\ events \in Nat
  /\ overrun \in SUBSET Start
  /\ forgotten \in SUBSET (Start \cup {None})
SideTypes == HandTypes /\ ChromeTypes /\ PastTypes

\* A detach may be added to what Chrome has to run.
LEMMA IssueTypes ==
  ASSUME SideTypes, NEW c \in Caller, NEW t, IssueDetach(c, t)
  PROVE  detaches' \in [Tab -> Caller \cup {None}] /\ ops' \in [Tab -> Seq(Op)]
<1>1. [kind |-> "detach", by |-> c] \in Op
  BY DEF Op
<1>2. \A u \in Tab : Append(ops[u], [kind |-> "detach", by |-> c]) \in Seq(Op)
  BY <1>1, AppendType DEF SideTypes, ChromeTypes
<1>3. CASE UNCHANGED <<detaches, ops>>
  BY <1>3 DEF SideTypes, HandTypes, ChromeTypes
<1>4. CASE /\ detaches' = [detaches EXCEPT ![t] = c]
           /\ ops' = [ops EXCEPT ![t] = Append(@, [kind |-> "detach", by |-> c])]
  <2>1. detaches' \in [Tab -> Caller \cup {None}]
    BY <1>4 DEF SideTypes, HandTypes
  <2>2. ops' \in [Tab -> Seq(Op)]
    BY <1>2, <1>4 DEF SideTypes, ChromeTypes
  <2> QED BY <2>1, <2>2
<1> QED BY <1>3, <1>4 DEF IssueDetach

\* A call that is disowned is a call.
LEMMA DisownTypes ==
  ASSUME NEW q \in Seq(Op), NEW kinds
  PROVE  Disown(q, kinds) \in Seq(Op)
<1> DEFINE r == Disown(q, kinds)
<1>1. Len(q) \in Nat /\ DOMAIN q = 1..Len(q) /\ \A i \in 1..Len(q) : q[i] \in Op
  OBVIOUS
<1>2. \A o \in Op : [o EXCEPT !.by = None] \in Op
  BY DEF Op
<1>3. r \in [1..Len(q) -> Op]
  BY <1>1, <1>2 DEF Disown
<1> HIDE DEF r
<1>4. r \in Seq(Op)
  BY <1>1, <1>3, SeqDef
<1> QED BY <1>4 DEF r

\* A stop that begins.
LEMMA StopFromSide ==
  ASSUME SideTypes, NEW c \in Caller, NEW explicit, NEW back, StopFrom(c, explicit, back)
  PROVE  HandTypes' /\ ChromeTypes'
<1>1. /\ UNCHANGED <<attaches, detaches, intentional, canceled, attached, ops, notice>>
      /\ teardowns' = teardowns \/ teardowns' = [teardowns EXCEPT ![lease.tab] = c]
  <2>1. CASE StopTakes(c, explicit, back)
    BY <2>1 DEF StopTakes, chrome
  <2>2. CASE StopFindsNone(c, back)
    BY <2>2 DEF StopFindsNone, chrome
  <2> QED BY <2>1, <2>2 DEF StopFrom
<1> QED BY <1>1 DEF SideTypes, HandTypes, ChromeTypes

\* The start whose record is taken is a start.
LEMMA RobbedType ==
  ASSUME CoreTypes, NEW t \in Tab, NEW token
  PROVE  Robbed(t, token) \subseteq Start \cup {None}
<1>1. cleanups[t] # None => cleanups[t].token \in Start \cup {None}
  BY DEF CoreTypes, MemTypes, Cleanup
<1> QED BY <1>1 DEF Robbed

\* The steps of a stop keep the types of what is on the side of the lease.
LEMMA StopSide ==
  ASSUME CoreTypes, SideTypes, NEW c \in Caller,
         StopStep(c) \/ Release(c) \/ Notes(c, "done") \/ Notes(c, "idle")
  PROVE  SideTypes'
<1>1. CASE StopInitialized(c)
  <2>1. HandTypes' /\ ChromeTypes'
    <3>1. CASE StopTakes(c, TRUE, call[c].back)
      BY <3>1, StopFromSide DEF StopFrom
    <3>2. CASE UNCHANGED <<teardowns, attaches, detaches, intentional, canceled, chrome>>
      BY <3>2 DEF SideTypes, HandTypes, ChromeTypes, chrome
    <3> QED BY <1>1, <3>1, <3>2 DEF StopInitialized
  <2>2. UNCHANGED <<crashes, fails, events, overrun, forgotten>>
    BY <1>1 DEF StopInitialized, budget, past
  <2> QED BY <2>1, <2>2 DEF SideTypes, PastTypes
<1>2. CASE Release(c)
  <2>1. HandTypes' /\ ChromeTypes'
    BY <1>2, StopFromSide DEF Release
  <2>2. UNCHANGED <<crashes, fails, overrun, forgotten>> /\ events' = events + 1
    BY <1>2 DEF Release, past
  <2> QED BY <2>1, <2>2 DEF SideTypes, PastTypes
<1>3. CASE StopDetaches(c)
  <2>1. detaches' \in [Tab -> Caller \cup {None}] /\ ops' \in [Tab -> Seq(Op)]
    BY <1>3, IssueTypes DEF StopDetaches
  <2>2. intentional' \in Tab \cup {None}
    BY <1>3, Locals DEF StopDetaches
  <2> QED BY <1>3, <2>1, <2>2 DEF StopDetaches, SideTypes, HandTypes, ChromeTypes, PastTypes, budget, past
<1>4. CASE \E seen \in BOOLEAN : StopConfirms(c, seen)
  BY <1>4 DEF StopConfirms, Counts, SideTypes, HandTypes, ChromeTypes, PastTypes, chrome, past
<1>5. CASE StopEnds(c)
  BY <1>5 DEF StopEnds, SideTypes, HandTypes, ChromeTypes, PastTypes, chrome, budget
<1>6. CASE Notes(c, "done") \/ Notes(c, "idle")
  BY <1>6 DEF Notes, SideTypes, HandTypes, ChromeTypes, PastTypes, chrome, budget, past
<1> QED BY <1>1, <1>2, <1>3, <1>4, <1>5, <1>6 DEF StopStep

\* So do those of the retry of the cleanups.
LEMMA SweepSide ==
  ASSUME CoreTypes, Posts, SideTypes, NEW c \in Caller, SweepStep(c) \/ AlarmRings \/ Broken(c)
  PROVE  SideTypes'
<1>1. CASE \E t \in Tab : SweepDetaches(c, t)
  <2>1. PICK t \in Tab : SweepDetaches(c, t)
    BY <1>1
  <2>2. detaches' \in [Tab -> Caller \cup {None}] /\ ops' \in [Tab -> Seq(Op)]
    BY <2>1, IssueTypes DEF SweepDetaches
  <2> QED BY <2>1, <2>2 DEF SweepDetaches, SideTypes, HandTypes, ChromeTypes, PastTypes, budget, past
<1>2. CASE \E seen, apart \in BOOLEAN : SweepChecks(c, seen, apart)
  <2>1. Robbed(call[c].tab, call[c].plan[call[c].tab].token) \subseteq Start \cup {None}
    BY <1>2, Locals, RobbedType DEF SweepChecks, Posts, Sweeping
  <2>2. Unread(call[c].tab) \subseteq Start \cup {None}
    <3>1. call[Boot].by \in Start \cup {None}
      BY Locals, Callers
    <3> QED BY <3>1 DEF Unread
  <2>3. forgotten' \in SUBSET (Start \cup {None})
    BY <1>2, <2>1, <2>2 DEF SweepChecks, SideTypes, PastTypes
  <2> QED BY <1>2, <2>3 DEF SweepChecks, Counts, SideTypes, HandTypes, ChromeTypes, PastTypes, chrome
<1>3. CASE SweepWritten(c)
  BY <1>3 DEF SweepWritten, SideTypes, HandTypes, ChromeTypes, PastTypes, chrome, budget, past
<1>4. CASE (\E t \in Tab : SweepSkips(c, t)) \/ AlarmRings \/ Broken(c)
  BY <1>4 DEF SweepSkips, AlarmRings, Broken, SideTypes, HandTypes, ChromeTypes, PastTypes,
              control, chrome, budget, past
<1> QED BY <1>1, <1>2, <1>3, <1>4 DEF SweepStep

\* So do those of a start.
LEMMA StartSide ==
  ASSUME CoreTypes, SideTypes, NEW s \in Start, StartStep(s) \/ StartBreaks(s) \/ StartCall(s) \/ CancelStart(s)
  PROVE  SideTypes'
<1>1. CASE StartRefused(s) \/ StartBusy(s) \/ StartSweeps(s) \/ StartCall(s)
  BY <1>1 DEF StartRefused, StartBusy, StartSweeps, StartCall, SideTypes, HandTypes, ChromeTypes, PastTypes,
              control, chrome, budget, past
<1>2. CASE StartRenews(s) \/ StartIntends(s) \/ StartWithdraws(s)
  <2>1. UNCHANGED <<teardowns, attaches, detaches, intentional, canceled, chrome, budget, past>>
    BY <1>2 DEF StartRenews, StartIntends, StartWithdraws
  <2> QED BY <2>1 DEF SideTypes, HandTypes, ChromeTypes, PastTypes, chrome, budget, past
<1>10. Robbed(TabOf[s], s) \subseteq Start \cup {None}
  BY RobbedType
<1>9. CASE StartCommits(s)
  <2>1. forgotten' = forgotten \/ forgotten' = forgotten \cup Robbed(TabOf[s], s)
    BY <1>9 DEF StartCommits, MarkUnknown
  <2> QED BY <1>9, <1>10, <2>1 DEF StartCommits, SideTypes, HandTypes, ChromeTypes, PastTypes, chrome, budget
<1>3. CASE StartReady(s)
  BY <1>3 DEF StartReady, SideTypes, HandTypes, ChromeTypes, PastTypes, chrome, budget
<1>4. CASE StartGivesUp(s)
  BY <1>4, <1>10 DEF StartGivesUp, MarkUnknown, Counts, SideTypes, HandTypes, ChromeTypes, PastTypes, chrome
<1>5. CASE StartSettles(s) \/ StartLeases(s)
  <2>1. CASE StartSettles(s)
    <3>1. forgotten' = forgotten \/ forgotten' = forgotten \cup Robbed(TabOf[s], s)
      BY <2>1 DEF StartSettles, MarkUnknown
    <3> QED BY <2>1, <1>10, <3>1 DEF StartSettles, SideTypes, HandTypes, ChromeTypes, PastTypes, chrome, budget
  <2>2. CASE StartLeases(s)
    BY <2>2 DEF StartLeases, SideTypes, HandTypes, ChromeTypes, PastTypes, chrome, budget, past
  <2> QED BY <1>5, <2>1, <2>2
<1>6. CASE StartReplaces(s) \/ StartBreaks(s)
  <2>1. PICK explicit, back : StopFrom(s, explicit, back)
    BY <1>6 DEF StartReplaces, StartBreaks, StopFrom
  <2>2. UNCHANGED <<crashes, fails, events, overrun, forgotten>>
    BY <1>6 DEF StartReplaces, StartBreaks, budget, past
  <2> QED BY <2>1, <2>2, StopFromSide, Callers DEF SideTypes, PastTypes
<1>7. CASE StartAttaches(s)
  <2>1. [kind |-> "attach", by |-> s] \in Op
    BY Callers DEF Op
  <2>2. \A t \in Tab : Append(ops[t], [kind |-> "attach", by |-> s]) \in Seq(Op)
    BY <2>1, AppendType DEF SideTypes, ChromeTypes
  <2> QED BY <1>7, <2>2 DEF StartAttaches, SideTypes, HandTypes, ChromeTypes, PastTypes, budget, past
<1>8. CASE CancelStart(s)
  BY <1>8 DEF CancelStart, SideTypes, HandTypes, ChromeTypes, PastTypes, chrome, budget, past
<1> QED BY <1>1, <1>2, <1>3, <1>4, <1>5, <1>6, <1>7, <1>8, <1>9 DEF StartStep

\* So do those of the heartbeat.
LEMMA BeatSide ==
  ASSUME SideTypes, BeatStep
  PROVE  SideTypes'
<1>1. CASE BeatBegins \/ BeatEnds
  BY <1>1 DEF BeatBegins, BeatEnds, SideTypes, HandTypes, ChromeTypes, PastTypes, control, chrome, budget, past
<1>2. CASE BeatHolds
  BY <1>2 DEF BeatHolds, SideTypes, HandTypes, ChromeTypes, PastTypes, chrome, budget, past
<1>3. CASE BeatFails
  <2>1. PICK back : StopFrom(Beat, TRUE, back)
    BY <1>3 DEF BeatFails
  <2>2. UNCHANGED <<crashes, fails, events, overrun, forgotten>>
    BY <1>3 DEF BeatFails, budget, past
  <2> QED BY <2>1, <2>2, StopFromSide, Callers DEF SideTypes, PastTypes
<1> QED BY <1>1, <1>2, <1>3 DEF BeatStep

\* So do those of the listener.
LEMMA ListenSide ==
  ASSUME CoreTypes, SideTypes, NEW t \in Tab, DetachStep(t)
  PROVE  SideTypes'
<1>1. CASE OnDetach(t)
  <2>1. Disown(ops[t], {"detach"}) \in Seq(Op)
    BY DisownTypes DEF SideTypes, ChromeTypes
  <2>2. ops' \in [Tab -> Seq(Op)]
    BY <1>1, <2>1 DEF OnDetach, SideTypes, ChromeTypes
  <2> QED BY <1>1, <2>2 DEF OnDetach, SideTypes, HandTypes, ChromeTypes, PastTypes, budget, past
<1>2. CASE HardInitialized(t) \/ HardWrites(t)
  BY <1>2 DEF HardInitialized, HardWrites, SideTypes, HandTypes, ChromeTypes, PastTypes, chrome, budget, past
<1>3. CASE Notes(t, "idle")
  BY <1>3, StopSide, Callers
<1> QED BY <1>1, <1>2, <1>3 DEF DetachStep

\* So do those of the initialization.
LEMMA BootSide ==
  ASSUME CoreTypes, SideTypes, BootWakes \/ BootStep
  PROVE  SideTypes'
<1>1. CASE BootWakes \/ BootReads \/ BootEnds
  BY <1>1 DEF BootWakes, BootReads, BootEnds, SideTypes, HandTypes, ChromeTypes, PastTypes,
              control, chrome, budget, past
<1>2. CASE BootTakesUp \/ BootVerifies
  BY <1>2 DEF BootTakesUp, BootVerifies, SideTypes, HandTypes, ChromeTypes, PastTypes, chrome, budget, past
<1>3. CASE BootLost \/ \E seen \in BOOLEAN : BootDrops(seen)
  <2>1. /\ UNCHANGED <<teardowns, attaches, detaches, intentional, canceled, chrome, crashes, events, overrun>>
        /\ fails' = fails \/ fails' = fails + 1
        /\ forgotten' = forgotten \/ forgotten' = forgotten \cup {call[Boot].by}
    BY <1>3 DEF BootLost, BootDrops, Counts, past
  <2>2. call[Boot].by \in Start \cup {None}
    BY Locals, Callers
  <2> QED BY <2>1, <2>2 DEF SideTypes, HandTypes, ChromeTypes, PastTypes, chrome
<1>4. CASE BootFails
  <2>1. PICK back : StopFrom(Boot, TRUE, back)
    BY <1>4 DEF BootFails
  <2>2. UNCHANGED <<crashes, fails, events, overrun, forgotten>>
    BY <1>4 DEF BootFails, budget, past
  <2> QED BY <2>1, <2>2, StopFromSide, Callers DEF SideTypes, PastTypes
<1>5. CASE BootLoads
  <2>1. UNCHANGED <<detaches, ops>> \/ \E t : IssueDetach(Boot, t)
    BY <1>5 DEF BootLoads
  <2>2. detaches' \in [Tab -> Caller \cup {None}] /\ ops' \in [Tab -> Seq(Op)]
    BY <2>1, IssueTypes, Callers DEF SideTypes, HandTypes, ChromeTypes
  <2> QED BY <1>5, <2>2 DEF BootLoads, SideTypes, HandTypes, ChromeTypes, PastTypes, budget, past
<1>6. CASE \E seen \in BOOLEAN : BootLoses(seen)
  <2>1. detaches' \in [Tab -> Caller \cup {None}] /\ ops' \in [Tab -> Seq(Op)]
    BY <1>6, IssueTypes, Callers DEF BootLoses
  <2> QED BY <1>6, <2>1 DEF BootLoses, Counts, SideTypes, HandTypes, ChromeTypes, PastTypes, past
<1> QED BY <1>1, <1>2, <1>3, <1>4, <1>5, <1>6 DEF BootStep

\* So do those from outside.
LEMMA OutsideSide ==
  ASSUME CoreTypes, SideTypes, Outside
  PROVE  SideTypes'
<1>1. CASE \E s \in Start : CancelStart(s)
  BY <1>1, StartSide
<1>2. CASE \E t \in Tab : \E done \in BOOLEAN : RunChrome(t, done)
  <2>1. PICK t \in Tab, done \in BOOLEAN : RunChrome(t, done)
    BY <1>2
  <2>2. Tail(ops[t]) \in Seq(Op)
    BY <2>1, TailFacts DEF RunChrome, SideTypes, ChromeTypes
  <2>3. ops' \in [Tab -> Seq(Op)]
    BY <2>1, <2>2 DEF RunChrome, SideTypes, ChromeTypes
  <2>4. detaches' \in [Tab -> Caller \cup {None}] /\ attached' \in SUBSET Tab
    <3>1. /\ attached' \in {attached, attached \cup {t}, attached \ {t}}
          /\ detaches' = detaches \/ \E d \in {detaches[t], None} : detaches' = [detaches EXCEPT ![t] = d]
      BY <2>1 DEF RunChrome
    <3>2. detaches \in [Tab -> Caller \cup {None}] /\ attached \in SUBSET Tab
      BY DEF SideTypes, HandTypes, ChromeTypes
    <3> QED BY <3>1, <3>2
  <2>5. UNCHANGED <<teardowns, attaches, intentional, canceled, notice, budget, past>>
    BY <2>1 DEF RunChrome
  <2> QED BY <2>3, <2>4, <2>5 DEF SideTypes, HandTypes, ChromeTypes, PastTypes, budget, past
<1>3. CASE \E t \in Tab : \E why \in {"canceled_by_user", "target_closed"} : ChromeDetaches(t, why)
  BY <1>3 DEF ChromeDetaches, SideTypes, HandTypes, ChromeTypes, PastTypes, control, past
<1>4. CASE \E done \in BOOLEAN : Disk(done) \/ Pauses(done)
  BY <1>4 DEF Disk, Pauses, Counts, SideTypes, HandTypes, ChromeTypes, PastTypes, control, chrome, past
<1> QED BY <1>1, <1>2, <1>3, <1>4 DEF Outside

\* And so do the restarts.
LEMMA RestartSide ==
  ASSUME SideTypes, WorkerRestarts \/ BrowserRestarts
  PROVE  SideTypes'
<1>1. HandTypes' /\ PastTypes'
  BY DEF WorkerRestarts, BrowserRestarts, Restarts, Free, SideTypes, HandTypes, PastTypes, past
<1>2. ChromeTypes'
  <2>1. CASE WorkerRestarts
    <3>1. \A t \in Tab : Disown(ops[t], {"attach", "detach"}) \in Seq(Op)
      BY DisownTypes DEF SideTypes, ChromeTypes
    <3> QED BY <2>1, <3>1 DEF WorkerRestarts, SideTypes, ChromeTypes
  <2>2. CASE BrowserRestarts
    <3>1. <<>> \in Seq(Op)
      OBVIOUS
    <3> QED BY <2>2, <3>1 DEF BrowserRestarts, ChromeTypes
  <2> QED BY <2>1, <2>2
<1> QED BY <1>1, <1>2 DEF SideTypes

\* Every step keeps the types on the side.
LEMMA SideNext ==
  ASSUME CoreTypes, Posts, SideTypes, [Next]_vars
  PROVE  SideTypes'
<1>1. ASSUME NEW c \in Caller, Goes(c) PROVE SideTypes'
  BY <1>1, StopSide, SweepSide, StartSide, BeatSide, ListenSide, BootSide DEF Goes
<1>2. ASSUME NEW c \in Caller, Comes(c) PROVE SideTypes'
  BY <1>2, StopSide, StartSide DEF Comes
<1>3. CASE UNCHANGED vars
  BY <1>3 DEF vars, control, chrome, budget, past, SideTypes, HandTypes, ChromeTypes, PastTypes
<1> QED BY <1>1, <1>2, <1>3, OutsideSide, RestartSide DEF Next

\* They hold at the start.
LEMMA SideInit == Init => SideTypes
<1> SUFFICES ASSUME Init PROVE SideTypes
  OBVIOUS
<1>1. <<>> \in Seq(Op)
  OBVIOUS
<1> QED BY <1>1 DEF Init, Free, SideTypes, HandTypes, ChromeTypes, PastTypes

\* Every variable of the lease, of Chrome and of the pause keeps its type.
THEOREM ControlTypes == Spec => []ControlTypeOK
<1>1. Init => LeaseInv /\ SideTypes
  BY LeaseInit, SideInit
<1>2. LeaseInv /\ SideTypes /\ [Next]_vars => (LeaseInv /\ SideTypes)'
  BY LeaseNext, SideNext DEF LeaseInv
<1>3. PauseTypeOK /\ LeaseInv /\ SideTypes => ControlTypeOK
  BY DEF LeaseInv, CoreTypes, MemTypes, OneLease, Entry, SideTypes, HandTypes, ChromeTypes, PastTypes, ControlTypeOK
<1>4. Spec => []PauseTypeOK
  BY ControlPauses, PauseTypes, PTL
<1> QED BY <1>1, <1>2, <1>3, <1>4, PTL DEF Spec
================================================================================
