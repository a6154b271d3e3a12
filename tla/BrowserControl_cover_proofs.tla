---------------------- MODULE BrowserControl_cover_proofs ----------------------
(***************************************************************************)
(* A debugged tab is somebody's, on disk and in memory, and there is one   *)
(* at most: Strong, below, is inductive together with the invariant and    *)
(* the types of BrowserControl_proofs, as long as no start goes on over a  *)
(* change of control (overrun) and no record is lost (forgotten).          *)
(*                                                                         *)
(* The argument: what is stored, and each write that is on its way, finds  *)
(* every tab that is debugged or about to be.  A start stores its record   *)
(* before it attaches, and the record stays until the lease is stored, as  *)
(* one call at most is between a lease and the next, and as nobody may     *)
(* take a record of an attach that is under way.  First come the parts     *)
(* that a turn of one call keeps; then each turn; then the initialization, *)
(* what comes from outside, and the restarts.                              *)
(***************************************************************************)
EXTENDS BrowserControl_proofs, FiniteSetTheorems

USE ControlAssumption

------------------------------------------------------------------------------
(* The invariant.                                                           *)

\* History: no start went on over a change of control, and no record was lost.
Orderly == overrun = {} /\ forgotten = {}

Asleep   == {"down", "reading"}
Viewing  == {"looking", "dropping", "losing"}
AtRest   == {"idle", "granted", "refused", "gone", "done"}
Detacher == Sweeping \cup {"detaching", "dropping"}

Loaded == call[Boot].pc \notin Asleep \cup Viewing

\* Chrome has an attach of t to run, for b.
Attaches(t)    == \E i \in DOMAIN ops[t] : ops[t][i].kind = "attach"
AttachBy(t, b) == \E i \in DOMAIN ops[t] : ops[t][i].kind = "attach" /\ ops[t][i].by = b

\* t is debugged, or Chrome is on the way to it, or from it to its listener.
Debugged(t) == t \in attached \/ notice[t] # "none" \/ Attaches(t)

\* A stored state finds t again; and that of a start that is about to attach.
Finds(z, t) == (z.lease # None /\ z.lease.tab = t) \/ z.cleanups[t] # None
Armed(z, t) == z.lease = None /\ z.cleanups[t] # None

\* What Chrome has to run on t: one attach, and one detach that somebody waits for.
Queue(t) ==
  \A i, j \in DOMAIN ops[t] :
    /\ ops[t][i].kind = "attach" =>
         /\ ops[t][i].by \in Start \cup {None}
         /\ ops[t][j].kind = "attach" => i = j
    /\ ops[t][i].kind = "detach" /\ ops[t][i].by # None =>
         /\ ops[t][i].by = detaches[t]
         /\ ops[t][j].kind = "detach" /\ ops[t][j].by # None => i = j
         /\ ops[t][j].kind = "attach" /\ ops[t][j].by = None => j < i

Chromes ==
  \A t \in Tab : /\ Queue(t)
                 /\ Attaches(t) => t \notin attached /\ notice[t] = "none" /\ lease = None
                 /\ notice[t] # "none" => t \notin attached

\* An attach is that of a start that waits for it, or gave it up.
OwnersAt(s) ==
  /\ \A t \in Tab : AttachBy(t, s) =>
       /\ TabOf[s] = t /\ attaches[t] = s
       /\ call[s].pc = "late" \/ (call[s].pc = "attaching" /\ call[s].reply = "")
  /\ call[s].pc = "attaching" /\ call[s].reply = "" => AttachBy(TabOf[s], s)
Owners == \A s \in Start : OwnersAt(s)

\* A stop, and a start before it attaches, is between the end of a lease and the next.
Between(c) == call[c].pc \in Taking \/ (c \in Start /\ call[c].pc \in {"replaced", "intending", "attaching"})

\* One call at most is there.
EntersAt(c) ==
  /\ lease = None
  /\ \A d \in Caller : Between(d) => d = c
  /\ call[c].pc \in Taking => call[c].tab \in Tab /\ teardowns[call[c].tab] = c
  /\ \A t \in Tab : Attaches(t) => AttachBy(t, c)
  /\ call[c].pc = "intending" => \A t \in Tab : ~Debugged(t)
Enters == \A c \in Caller : Between(c) => EntersAt(c)

\* It goes on as soon as it is answered.
Sole ==
  \A s \in Start : call[s].pc \in {"intending", "attaching"} /\ Answered(s) =>
    \A c \in Caller : Ready(c) => c = s

\* What a start that is about to attach has stored.
IntendsAt(s) ==
  /\ call[s].reply = "" =>
       \E i \in DOMAIN writes :
         /\ writes[i].by = s
         /\ \A j \in DOMAIN writes : j >= i => Armed(writes[j].snap, TabOf[s])
  /\ call[s].reply = "ok" =>
       /\ Armed(saved, TabOf[s])
       /\ \A j \in DOMAIN writes : Armed(writes[j].snap, TabOf[s])
Intends == \A s \in Start : call[s].pc = "intending" => IntendsAt(s)

\* The record of an attach that is intended or on its way is not settled.
Engaged(s)     == call[s].pc = "intending" \/ AttachBy(TabOf[s], s)
Open(r, s)     == r # None /\ r.token = s => r.attach /\ ~r.settled
EngagedAt(s) ==
  /\ cleanups[TabOf[s]] # None /\ cleanups[TabOf[s]].token = s
  /\ \A u \in Tab : Open(cleanups[u], s) /\ \A c \in Caller : Open(call[c].plan[u], s)
  /\ \A c \in Caller :
       call[c].pc \in Sweeping /\ call[c].tab = TabOf[s] /\ call[c].plan[TabOf[s]].token = s =>
         /\ call[c].plan[TabOf[s]].confirms = 0
         /\ call[s].pc = "intending" => teardowns[TabOf[s]] = c
Records == \A s \in Start : Engaged(s) => EngagedAt(s)

\* Once a sweep has seen no debugger for it, the next one cannot begin before
\* the start has gone on.
Seen(r, s) == r # None /\ r.token = s /\ r.confirms # 0
SeenOnce(s) == Seen(cleanups[TabOf[s]], s) \/ \E c \in Caller : Seen(call[c].plan[TabOf[s]], s)
Follows(c, s) ==
  /\ teardowns[TabOf[s]] = c /\ call[c].pc = "swept" /\ call[c].reply = ""
  /\ \E i, j \in DOMAIN writes : i < j /\ writes[i].by = s /\ writes[j].by = c
Claims ==
  \A s \in Start : call[s].pc = "intending" /\ call[s].reply = "" /\ SeenOnce(s) =>
    \E c \in Caller : Follows(c, s)

\* A start that has not got so far has no record yet.
Raw(s) == call[s].pc \in {"idle", "open", "replaced"} \/ call[s].back = "replaced"
Foreign(r, s) == r # None => r.token # s
Unknowns ==
  \A s \in Start : Raw(s) => \A u \in Tab :
    /\ Foreign(cleanups[u], s) /\ Foreign(saved.cleanups[u], s)
    /\ \A i \in DOMAIN writes : Foreign(writes[i].snap.cleanups[u], s)
    /\ \A c \in Caller : Foreign(call[c].plan[u], s)

\* Whoever finds no detach of its tab outstanding finds the tab detached.
SightsAt(c) ==
  /\ call[c].tab \in Tab
  /\ detaches[call[c].tab] = None => call[c].tab \notin attached /\ notice[call[c].tab] = "none"
  /\ call[c].pc \in Sweeping /\ AttachBy(call[c].tab, None) => detaches[call[c].tab] # None
Sights == \A c \in Caller : call[c].pc \in Detacher => SightsAt(c)

\* Before the memory is filled the calls are at rest.
Rests ==
  /\ ~Loaded => \A c \in Caller \ {Boot, Alarm} : call[c].pc \in AtRest \cup {"done", "uninitialized"}
  /\ call[Boot].pc \in Asleep \cup {"looking", "losing"} => call[Alarm].pc = "idle" /\ cleanups = NoCleanup
  /\ ~Initialized \/ (\E t \in Tab : call[t].pc = "uninitialized") => \A s \in Start : call[s].pc \in AtRest
  /\ \A t \in Tab : call[t].pc = "uninitialized" => ~Debugged(t)

\* A lease is on the tab of the start that made it.
Placed(l) == l # None => l.tab = TabOf[l.by]
Places ==
  /\ Placed(lease) /\ Placed(saved.lease)
  /\ \A i \in DOMAIN writes : Placed(writes[i].snap.lease)
  /\ call[Boot].pc \in Looking => call[Boot].tab = TabOf[call[Boot].by]
  /\ \A s \in Start : call[s].pc = "initializing" => call[s].by = s

\* The memory covers what is debugged, and so does what is or will be stored.
Memory ==
  /\ Loaded => \A t \in Tab : Debugged(t) => cleanups[t] # None \/ Leased(t)
  /\ call[Boot].pc \in Viewing =>
       /\ lease = None /\ call[Boot].tab \in Tab
       /\ \A t \in Tab : ~Attaches(t) /\ (Debugged(t) => cleanups[t] # None \/ t = call[Boot].tab)
StoredAt(z) == \A t \in Tab : (Debugged(t) => Finds(z, t)) /\ (Attaches(t) => z.lease = None)
Stored == StoredAt(saved) /\ \A i \in DOMAIN writes : StoredAt(writes[i].snap)
Single == \A t, u \in Tab : Debugged(t) /\ Debugged(u) => t = u

Strong == /\ Chromes /\ Owners /\ Enters /\ Sole /\ Intends /\ Records /\ Claims
          /\ Unknowns /\ Sights /\ Rests /\ Places /\ Memory /\ Stored /\ Single
Base   == LeaseInv /\ SideTypes

------------------------------------------------------------------------------
(* What Chrome has to run.                                                  *)

\* No attach is added or taken away.
SameAttaches ==
  \A t \in Tab : /\ Attaches(t)' <=> Attaches(t)
                 /\ \A b : AttachBy(t, b)' <=> AttachBy(t, b)

\* The calls of debugger methods on a tab that Chrome has to run.
LEMMA OpsOf ==
  ASSUME SideTypes, NEW t \in Tab
  PROVE  /\ ops[t] \in Seq(Op) /\ Len(ops[t]) \in Nat /\ DOMAIN ops[t] = 1..Len(ops[t])
         /\ \A i \in DOMAIN ops[t] : ops[t][i] \in Op
<1>1. ops[t] \in Seq(Op)
  BY DEF SideTypes, ChromeTypes
<1> QED BY <1>1

\* An attach is that of somebody.
LEMMA AttachedBy ==
  ASSUME NEW t
  PROVE  Attaches(t) <=> \E b : AttachBy(t, b)
BY DEF Attaches, AttachBy

\* A call is added at the end of the queue.
LEMMA Added ==
  ASSUME SideTypes, NEW t \in Tab, NEW o \in Op, ops' = [ops EXCEPT ![t] = Append(@, o)]
  PROVE  \E n \in Nat : /\ DOMAIN ops[t] = 1..n /\ DOMAIN ops'[t] = 1..(n + 1)
                        /\ ops'[t][n + 1] = o /\ \A i \in 1..n : ops'[t][i] = ops[t][i]
<1>1. ops[t] \in Seq(Op) /\ ops'[t] = Append(ops[t], o)
  BY DEF SideTypes, ChromeTypes
<1>2. Len(ops[t]) \in Nat /\ DOMAIN ops[t] = 1..Len(ops[t])
  BY <1>1
<1>3. /\ DOMAIN ops'[t] = 1..(Len(ops[t]) + 1) /\ ops'[t][Len(ops[t]) + 1] = o
      /\ \A i \in 1..Len(ops[t]) : ops'[t][i] = ops[t][i]
  BY <1>1
<1> QED BY <1>2, <1>3

\* The oldest one is run.
LEMMA Taken1 ==
  ASSUME SideTypes, NEW t \in Tab, ops[t] # <<>>, ops' = [ops EXCEPT ![t] = Tail(@)]
  PROVE  \E n \in Nat : /\ DOMAIN ops[t] = 1..(n + 1) /\ DOMAIN ops'[t] = 1..n
                        /\ Head(ops[t]) = ops[t][1] /\ \A i \in 1..n : ops'[t][i] = ops[t][i + 1]
<1>1. ops[t] \in Seq(Op) /\ ops'[t] = Tail(ops[t])
  BY DEF SideTypes, ChromeTypes
<1>2. Len(ops[t]) \in Nat /\ Len(ops[t]) # 0 /\ DOMAIN ops[t] = 1..Len(ops[t]) /\ Head(ops[t]) = ops[t][1]
  BY <1>1
<1> DEFINE n == Len(ops[t]) - 1
<1>3. n \in Nat /\ n + 1 = Len(ops[t])
  BY <1>2
<1>4. DOMAIN ops'[t] = 1..n /\ \A i \in 1..n : ops'[t][i] = ops[t][i + 1]
  <2>1. Tail(ops[t]) = [i \in 1..n |-> ops[t][i + 1]]
    BY <1>1, <1>2
  <2> QED BY <1>1, <2>1
<1> QED BY <1>2, <1>3, <1>4

\* The queue of another tab is as it was.
LEMMA QueueStill ==
  ASSUME NEW t \in Tab, ops'[t] = ops[t]
  PROVE  /\ Attaches(t)' <=> Attaches(t)
         /\ \A b : AttachBy(t, b)' <=> AttachBy(t, b)
         /\ detaches'[t] = detaches[t] /\ Queue(t) => Queue(t)'
<1>1. Attaches(t)' <=> Attaches(t)
  BY DEF Attaches
<1>2. \A b : AttachBy(t, b)' <=> AttachBy(t, b)
  BY DEF AttachBy
<1>3. detaches'[t] = detaches[t] /\ Queue(t) => Queue(t)'
  BY DEF Queue
<1> QED BY <1>1, <1>2, <1>3

\* A detach of t that is added, if none is outstanding there.
LEMMA Issued ==
  ASSUME SideTypes, NEW c \in Caller, NEW t \in Tab, IssueDetach(c, t), \A u \in Tab : Queue(u)
  PROVE  /\ SameAttaches /\ \A u \in Tab : Queue(u)'
         /\ \A u \in Tab : detaches'[u] = detaches[u] \/ detaches[u] = None
         /\ detaches'[t] # None
<1>0. c # None
  BY DEF Caller
<1>1. CASE detaches[t] # None
  <2>1. UNCHANGED <<detaches, ops>>
    BY <1>1 DEF IssueDetach
  <2> QED BY <1>1, <2>1, QueueStill DEF SameAttaches
<1>2. CASE detaches[t] = None
  <2> DEFINE o == [kind |-> "detach", by |-> c]
  <2>1. detaches' = [detaches EXCEPT ![t] = c] /\ ops' = [ops EXCEPT ![t] = Append(@, o)]
    BY <1>2 DEF IssueDetach
  <2>2. o \in Op /\ o.kind = "detach" /\ o.by = c
    BY DEF Op
  <2> HIDE DEF o
  <2>3. detaches'[t] = c /\ \A u \in Tab : u # t => detaches'[u] = detaches[u] /\ ops'[u] = ops[u]
    BY <2>1 DEF SideTypes, HandTypes, ChromeTypes
  <2>4. PICK n \in Nat : /\ DOMAIN ops[t] = 1..n /\ DOMAIN ops'[t] = 1..(n + 1)
                         /\ ops'[t][n + 1] = o /\ \A i \in 1..n : ops'[t][i] = ops[t][i]
    BY <2>1, <2>2, Added
  <2>5. \A i \in 1..(n + 1) : i = n + 1 \/ i \in 1..n
    OBVIOUS
  <2>9. \A i \in 1..(n + 1) : ops'[t][i].kind = "attach" => i \in 1..n
    BY <2>2, <2>4, <2>5
  <2>6. Attaches(t)' <=> Attaches(t)
    <3>1. Attaches(t) => Attaches(t)'
      BY <2>4 DEF Attaches
    <3>2. Attaches(t)' => Attaches(t)
      BY <2>4, <2>9 DEF Attaches
    <3> QED BY <3>1, <3>2
  <2>7. \A b : AttachBy(t, b)' <=> AttachBy(t, b)
    BY <2>2, <2>4, <2>5 DEF AttachBy
  <2>8. Queue(t)'
    <3>1. \A i \in 1..n : ~(ops[t][i].kind = "detach" /\ ops[t][i].by # None)
      BY <1>2, <2>4 DEF Queue
    <3>2. \A i, j \in 1..n : ops[t][i].kind = "attach" =>
             ops[t][i].by \in Start \cup {None} /\ (ops[t][j].kind = "attach" => i = j)
      BY <2>4 DEF Queue
    <3> SUFFICES ASSUME NEW i \in 1..(n + 1), NEW j \in 1..(n + 1)
                 PROVE  /\ ops'[t][i].kind = "attach" =>
                             /\ ops'[t][i].by \in Start \cup {None}
                             /\ ops'[t][j].kind = "attach" => i = j
                        /\ ops'[t][i].kind = "detach" /\ ops'[t][i].by # None =>
                             /\ ops'[t][i].by = detaches'[t]
                             /\ ops'[t][j].kind = "detach" /\ ops'[t][j].by # None => i = j
                             /\ ops'[t][j].kind = "attach" /\ ops'[t][j].by = None => j < i
      BY <2>4 DEF Queue
    <3>3. CASE i \in 1..n
      BY <2>2, <2>4, <2>5, <3>1, <3>2, <3>3
    <3>4. CASE i = n + 1
      BY <2>2, <2>3, <2>4, <2>5, <3>1, <3>4
    <3> QED BY <2>5, <3>3, <3>4
  <2> QED BY <1>0, <1>2, <2>3, <2>6, <2>7, <2>8, QueueStill DEF SameAttaches
<1> QED BY <1>1, <1>2

------------------------------------------------------------------------------
(* A turn of one call keeps the parts of the invariant.                     *)

\* c goes on: what the others hold is theirs, and the tabs stay as they are debugged.
Moves(c) ==
  /\ \A d \in Caller : d # c => call'[d] = call[d]
  /\ Ready(c) \/ NoneReady
  /\ call[c].pc \in Waiting => Answered(c)
  /\ UNCHANGED <<saved, attached, notice>>
  /\ writes' = writes \/ \E b \in {c, None} : Persist(b)
  /\ lease = None => \A u \in Tab : teardowns'[u] = teardowns[u] \/ teardowns[u] \in {c, None}
  /\ \A u \in Tab : attaches'[u] = attaches[u] \/ attaches[u] \in {c, None}
  /\ \A u \in Tab : detaches'[u] = detaches[u] \/ detaches[u] = None
  /\ lease' \in {lease, None} \/ \A d \in Caller : ~Between(d)'

\* The chain, before and after a write of c.
LEMMA Chained ==
  ASSUME LeaseInv, CoreTypes', NEW b \in Caller \cup {None}, Persist(b)
  PROVE  \E n \in Nat : /\ DOMAIN writes = 1..n /\ DOMAIN writes' = 1..(n + 1)
                        /\ \A i \in 1..n : writes'[i] = writes[i]
                        /\ writes'[n + 1].by = b
                        /\ writes'[n + 1].snap.lease = lease' /\ writes'[n + 1].snap.cleanups = cleanups'
<1> DEFINE w == [by |-> b, snap |-> Record(lease', revocation', cleanups')]
<1>1. Record(lease', revocation', cleanups') \in Snapshot
  BY DEF Record, Snapshot, CoreTypes, MemTypes
<1>2. w \in Entry
  BY <1>1 DEF Entry
<1>3. writes' = Append(writes, w) /\ w.by = b /\ w.snap.lease = lease' /\ w.snap.cleanups = cleanups'
  BY DEF Persist, Record
<1> HIDE DEF w
<1> QED BY <1>2, <1>3, WritesAfter

\* The chain after a turn: what was there, and perhaps what the memory holds by now.
LEMMA ChainOf ==
  ASSUME LeaseInv, CoreTypes', NEW c \in Caller, Moves(c)
  PROVE  \E n \in Nat, m \in Nat :
           /\ DOMAIN writes = 1..n /\ DOMAIN writes' = 1..m /\ \A i \in 1..n : writes'[i] = writes[i]
           /\ \/ m = n
              \/ /\ m = n + 1 /\ writes' # writes
                 /\ writes'[m].by \in {c, None}
                 /\ writes'[m].snap.lease = lease' /\ writes'[m].snap.cleanups = cleanups'
<1>1. CASE writes' = writes
  <2>1. writes \in Seq(Entry)
    BY DEF LeaseInv, CoreTypes
  <2>2. Len(writes) \in Nat /\ DOMAIN writes = 1..Len(writes)
    BY <2>1
  <2> QED BY <1>1, <2>2
<1>2. ASSUME NEW b \in {c, None}, Persist(b), writes' # writes
      PROVE  \E n \in Nat, m \in Nat :
               /\ DOMAIN writes = 1..n /\ DOMAIN writes' = 1..m /\ \A i \in 1..n : writes'[i] = writes[i]
               /\ \/ m = n
                  \/ /\ m = n + 1 /\ writes' # writes
                     /\ writes'[m].by \in {c, None}
                     /\ writes'[m].snap.lease = lease' /\ writes'[m].snap.cleanups = cleanups'
  <2>1. PICK n \in Nat : /\ DOMAIN writes = 1..n /\ DOMAIN writes' = 1..(n + 1)
                         /\ \A i \in 1..n : writes'[i] = writes[i]
                         /\ writes'[n + 1].by = b
                         /\ writes'[n + 1].snap.lease = lease' /\ writes'[n + 1].snap.cleanups = cleanups'
    BY <1>2, Chained
  <2>2. n + 1 \in Nat
    OBVIOUS
  <2> QED BY <1>2, <2>1, <2>2
<1> QED BY <1>1, <1>2 DEF Moves

\* A start that is answered is the one that goes on.
LEMMA OthersWait ==
  ASSUME Sole, NEW c \in Caller, Ready(c) \/ NoneReady
  PROVE  \A s \in Start : s # c /\ call[s].pc \in {"intending", "attaching"} => call[s].reply = ""
<1> SUFFICES ASSUME NEW s \in Start, s # c, call[s].pc \in {"intending", "attaching"}, call[s].reply # ""
             PROVE  FALSE
  OBVIOUS
<1>1. Ready(s)
  BY DEF Ready, Answered
<1>2. Ready(c)
  BY <1>1, Callers DEF NoneReady
<1> QED BY <1>2 DEF Sole, Answered

\* c is not answered yet, where it has stored or attaches.
Prompt(c) == call[c].pc \in {"intending", "attaching"} => ~Answered(c)

\* Nobody is answered there but the one that goes on.
LEMMA SoleKept ==
  ASSUME Sole, NEW c \in Caller, Moves(c), Prompt(c)'
  PROVE  Sole'
<1> SUFFICES ASSUME NEW s \in Start, call'[s].pc \in {"intending", "attaching"}, Answered(s)'
             PROVE  FALSE
  BY DEF Sole
<1>1. s # c
  BY DEF Prompt
<1>2. call'[s] = call[s]
  BY <1>1, Callers DEF Moves
<1>3. Ready(c) \/ NoneReady
  BY DEF Moves
<1>4. \A r \in Start : r # c /\ call[r].pc \in {"intending", "attaching"} => call[r].reply = ""
  BY <1>3, OthersWait
<1>5. call[s].reply = ""
  BY <1>1, <1>2, <1>4, Zenon
<1> QED BY <1>2, <1>5, Zenon DEF Answered

\* A call that is between two leases lets no other be there.
LEMMA EntersKept ==
  ASSUME Enters, NEW c \in Caller, Moves(c), SameAttaches, Between(c)' => EntersAt(c)'
  PROVE  Enters'
<1> SUFFICES ASSUME NEW d \in Caller, Between(d)', d # c PROVE EntersAt(d)'
  BY DEF Enters
<1>1. call'[d] = call[d] /\ EntersAt(d)
  BY DEF Moves, Enters, Between
<1>2. ~Between(c)'
  BY DEF EntersAt
<1>3. lease' = None
  BY <1>1 DEF EntersAt, Moves
<1>4. \A e \in Caller : Between(e)' => e = d
  BY <1>1, <1>2 DEF EntersAt, Moves, Between
<1>5. call'[d].pc \in Taking => call'[d].tab \in Tab /\ teardowns'[call'[d].tab] = d
  <2>1. d # None
    BY DEF Caller
  <2> QED BY <1>1, <2>1 DEF EntersAt, Moves
<1>6. \A t \in Tab : Attaches(t)' => AttachBy(t, d)'
  BY <1>1 DEF EntersAt, SameAttaches
<1>7. call'[d].pc = "intending" => \A t \in Tab : ~Debugged(t)'
  BY <1>1 DEF EntersAt, SameAttaches, Debugged, Moves
<1> QED BY <1>3, <1>4, <1>5, <1>6, <1>7 DEF EntersAt

\* The attaches on their way have their owners.
LEMMA OwnersKept ==
  ASSUME Owners, NEW c \in Caller, Moves(c), SameAttaches, c \in Start => OwnersAt(c)'
  PROVE  Owners'
<1> SUFFICES ASSUME NEW s \in Start, s # c PROVE OwnersAt(s)'
  BY DEF Owners
<1>1. call'[s] = call[s] /\ OwnersAt(s)
  BY Callers DEF Moves, Owners
<1>2. s # None
  OBVIOUS
<1>3. \A t \in Tab : AttachBy(t, s)' =>
         /\ TabOf[s] = t /\ attaches'[t] = s
         /\ call'[s].pc = "late" \/ (call'[s].pc = "attaching" /\ call'[s].reply = "")
  <2>1. \A t \in Tab : AttachBy(t, s)' => AttachBy(t, s)
    BY DEF SameAttaches
  <2>2. \A t \in Tab : attaches[t] = s => attaches'[t] = s
    BY <1>2 DEF Moves
  <2> QED BY <1>1, <2>1, <2>2, Zenon DEF OwnersAt
<1>4. call'[s].pc = "attaching" /\ call'[s].reply = "" => AttachBy(TabOf[s], s)'
  BY <1>1 DEF OwnersAt, SameAttaches
<1> QED BY <1>3, <1>4 DEF OwnersAt

\* Who waits for a detach of its tab goes on waiting.
LEMMA SightsKept ==
  ASSUME Sights, NEW c \in Caller, Moves(c), SameAttaches,
         call'[c].pc \in Detacher =>
           /\ call'[c].tab \in Tab
           /\ \/ detaches'[call'[c].tab] # None
              \/ /\ call[c].pc \in Detacher /\ call'[c].tab = call[c].tab
                 /\ call'[c].pc \in Sweeping => call[c].pc \in Sweeping
  PROVE  Sights'
<1> SUFFICES ASSUME NEW d \in Caller, call'[d].pc \in Detacher PROVE SightsAt(d)'
  BY DEF Sights
<1>1. CASE d = c /\ detaches'[call'[c].tab] # None
  BY <1>1 DEF SightsAt
<1>2. CASE /\ call'[d].tab = call[d].tab /\ call[d].pc \in Detacher
           /\ call'[d].pc \in Sweeping => call[d].pc \in Sweeping
  <2>1. SightsAt(d)
    BY <1>2 DEF Sights
  <2> QED BY <1>2, <2>1 DEF SightsAt, Moves, SameAttaches
<1> QED BY <1>1, <1>2 DEF Moves

\* Leases stay where they were made.
LEMMA PlacesKept ==
  ASSUME LeaseInv, CoreTypes', Places, NEW c \in Caller, Moves(c), Placed(lease)',
         c = Boot /\ call'[c].pc \in Looking => call'[c].tab = TabOf[call'[c].by],
         c \in Start /\ call'[c].pc = "initializing" => call'[c].by = c
  PROVE  Places'
<1>1. Placed(saved.lease)'
  BY DEF Places, Placed, Moves
<1>2. \A i \in DOMAIN writes' : Placed(writes[i].snap.lease)'
  <2>1. PICK n \in Nat, m \in Nat :
           /\ DOMAIN writes = 1..n /\ DOMAIN writes' = 1..m /\ \A i \in 1..n : writes'[i] = writes[i]
           /\ \/ m = n
              \/ /\ m = n + 1 /\ writes' # writes
                 /\ writes'[m].by \in {c, None}
                 /\ writes'[m].snap.lease = lease' /\ writes'[m].snap.cleanups = cleanups'
    BY ChainOf
  <2>2. \A i \in 1..m : i \in 1..n \/ (i = m /\ m = n + 1)
    BY <2>1
  <2> QED BY <2>1, <2>2 DEF Places, Placed
<1>3. call'[Boot].pc \in Looking => call'[Boot].tab = TabOf[call'[Boot].by]
  BY Callers DEF Places, Moves
<1>4. \A s \in Start : call'[s].pc = "initializing" => call'[s].by = s
  BY Callers DEF Places, Moves
<1> QED BY <1>1, <1>2, <1>3, <1>4 DEF Places
\* c leaves the records of the attaches under way to them.
RespectsAt(c, s) ==
  /\ cleanups'[TabOf[s]] # None /\ cleanups'[TabOf[s]].token = s
  /\ \A u \in Tab : Open(cleanups'[u], s) /\ Open(call'[c].plan[u], s)
  /\ call'[c].pc \in Sweeping /\ call'[c].tab = TabOf[s] /\ call'[c].plan[TabOf[s]].token = s =>
       /\ call'[c].plan[TabOf[s]].confirms = 0
       /\ call[s].pc = "intending" => teardowns'[TabOf[s]] = c
Respects(c) == \A s \in Start : s # c /\ Engaged(s) => RespectsAt(c, s)

\* The records of attaches that are intended or on their way stay what they are.
LEMMA RecordsKept ==
  ASSUME Records, Enters, NEW c \in Caller, Moves(c),
         \A t \in Tab : \A s \in Start : s # c => (AttachBy(t, s)' <=> AttachBy(t, s)),
         Respects(c), c \in Start /\ Engaged(c)' => EngagedAt(c)'
  PROVE  Records'
<1> SUFFICES ASSUME NEW s \in Start, s # c, Engaged(s)' PROVE EngagedAt(s)'
  BY DEF Records
<1>1. call'[s] = call[s] /\ TabOf[s] \in Tab
  BY Callers DEF Moves
<1>2. Engaged(s)
  BY <1>1 DEF Engaged
<1>3. EngagedAt(s) /\ RespectsAt(c, s)
  BY <1>2 DEF Records, Respects
<1>4. \A u \in Tab : Open(cleanups'[u], s) /\ \A d \in Caller : Open(call'[d].plan[u], s)
  <2> SUFFICES ASSUME NEW u \in Tab, NEW d \in Caller PROVE Open(cleanups'[u], s) /\ Open(call'[d].plan[u], s)
    OBVIOUS
  <2>1. Open(cleanups'[u], s) /\ Open(call'[c].plan[u], s)
    BY <1>3 DEF RespectsAt
  <2>2. d # c => Open(call'[d].plan[u], s)
    BY <1>3 DEF EngagedAt, Moves
  <2> QED BY <2>1, <2>2
<1>5. ASSUME NEW d \in Caller, call'[d].pc \in Sweeping, call'[d].tab = TabOf[s],
             call'[d].plan[TabOf[s]].token = s
      PROVE  /\ call'[d].plan[TabOf[s]].confirms = 0
             /\ call'[s].pc = "intending" => teardowns'[TabOf[s]] = d
  <2>1. CASE d = c
    BY <1>1, <1>3, <1>5, <2>1 DEF RespectsAt
  <2>2. CASE d # c
    <3>1. call'[d] = call[d]
      BY <2>2 DEF Moves
    <3>2. /\ call[d].plan[TabOf[s]].confirms = 0
          /\ call[s].pc = "intending" => teardowns[TabOf[s]] = d
      BY <1>3, <1>5, <3>1 DEF EngagedAt
    <3>3. call[s].pc = "intending" => lease = None
      BY Callers DEF Enters, EntersAt, Between
    <3>4. d # None
      BY DEF Caller
    <3> QED BY <1>1, <2>2, <3>1, <3>2, <3>3, <3>4 DEF Moves
  <2> QED BY <2>1, <2>2
<1> QED BY <1>3, <1>4, <1>5 DEF EngagedAt, RespectsAt

\* A chain that is longer.
LEMMA Further == ASSUME NEW n \in Nat, NEW m, m = n \/ m = n + 1 PROVE 1..n \subseteq 1..m
OBVIOUS

\* Once a sweep has seen no debugger for an attach that is intended, the claim

\* of that sweep stays.
LEMMA ClaimsKept ==
  ASSUME LeaseInv, CoreTypes', Claims, Enters, NEW c \in Caller, Moves(c),
         \A s \in Start : s # c /\ call[s].pc = "intending" /\ SeenOnce(s)' => SeenOnce(s) \/ Follows(c, s)',
         c \in Start /\ call'[c].pc = "intending" => ~SeenOnce(c)'
  PROVE  Claims'
<1> SUFFICES ASSUME NEW s \in Start, s # c, call'[s].pc = "intending", call'[s].reply = "", SeenOnce(s)'
             PROVE  \E d \in Caller : Follows(d, s)'
  BY DEF Claims
<1>1. call'[s] = call[s] /\ TabOf[s] \in Tab
  BY Callers DEF Moves
<1>2. CASE Follows(c, s)'
  BY <1>2
<1>3. CASE SeenOnce(s)
  <2>1. PICK d \in Caller : Follows(d, s)
    BY <1>1, <1>3 DEF Claims
  <2>2. d # c
    BY <2>1 DEF Follows, Moves, Answered, Waiting
  <2>3. call'[d] = call[d] /\ d # None
    BY <2>2 DEF Moves, Caller
  <2>4. lease = None
    BY <1>1, Callers DEF Enters, EntersAt, Between
  <2>5. teardowns'[TabOf[s]] = d
    BY <1>1, <2>1, <2>2, <2>3, <2>4 DEF Follows, Moves
  <2>6. PICK i \in DOMAIN writes, j \in DOMAIN writes : i < j /\ writes[i].by = s /\ writes[j].by = d
    BY <2>1 DEF Follows
  <2>7. i \in DOMAIN writes' /\ j \in DOMAIN writes' /\ writes'[i] = writes[i] /\ writes'[j] = writes[j]
    <3>1. PICK n \in Nat, m \in Nat :
           /\ DOMAIN writes = 1..n /\ DOMAIN writes' = 1..m /\ \A k \in 1..n : writes'[k] = writes[k]
           /\ \/ m = n
              \/ /\ m = n + 1 /\ writes' # writes
                 /\ writes'[m].by \in {c, None}
                 /\ writes'[m].snap.lease = lease' /\ writes'[m].snap.cleanups = cleanups'
      BY ChainOf
    <3>2. i \in 1..n /\ j \in 1..n
      BY <3>1
    <3>4. m = n \/ m = n + 1
      BY <3>1
    <3>5. 1..n \subseteq 1..m
      BY <3>4, Further
    <3>3. i \in 1..m /\ j \in 1..m
      BY <3>2, <3>5
    <3> QED BY <3>1, <3>2, <3>3
  <2>8. \E k, l \in DOMAIN writes' : k < l /\ writes'[k].by = s /\ writes'[l].by = d
    BY <2>6, <2>7
  <2> QED BY <2>1, <2>3, <2>5, <2>8 DEF Follows
<1> QED BY <1>1, <1>2, <1>3

\* A start that is about to attach has stored what it needs.
LEMMA IntendsKept ==
  ASSUME LeaseInv, CoreTypes', Intends, Sole, NEW c \in Caller, Moves(c), Records', Enters',
         c \in Start /\ call'[c].pc = "intending" => IntendsAt(c)'
  PROVE  Intends'
<1> SUFFICES ASSUME NEW s \in Start, s # c, call'[s].pc = "intending" PROVE IntendsAt(s)'
  BY DEF Intends
<1>1. call'[s] = call[s] /\ TabOf[s] \in Tab
  BY Callers DEF Moves
<1>2. call[s].reply = ""
  BY <1>1, OthersWait DEF Moves
<1>3. lease' = None
  BY Callers DEF Enters, EntersAt, Between
<1>4. cleanups'[TabOf[s]] # None
  BY DEF Records, Engaged, EngagedAt
<1>5. PICK i \in DOMAIN writes :
         /\ writes[i].by = s
         /\ \A j \in DOMAIN writes : j >= i => Armed(writes[j].snap, TabOf[s])
  BY <1>1, <1>2 DEF Intends, IntendsAt
<1>6. PICK n \in Nat, m \in Nat :
           /\ DOMAIN writes = 1..n /\ DOMAIN writes' = 1..m /\ \A k \in 1..n : writes'[k] = writes[k]
           /\ \/ m = n
              \/ /\ m = n + 1 /\ writes' # writes
                 /\ writes'[m].by \in {c, None}
                 /\ writes'[m].snap.lease = lease' /\ writes'[m].snap.cleanups = cleanups'
  BY ChainOf
<1>7. i \in DOMAIN writes' /\ writes'[i].by = s
  BY <1>5, <1>6
<1>8. \A j \in DOMAIN writes' : j >= i => Armed(writes'[j].snap, TabOf[s])
  <2> SUFFICES ASSUME NEW j \in DOMAIN writes', j >= i PROVE Armed(writes'[j].snap, TabOf[s])
    OBVIOUS
  <2>1. CASE j \in 1..n
    BY <1>5, <1>6, <2>1
  <2>2. CASE j \notin 1..n
    <3>1. j = m /\ m = n + 1
      BY <1>6, <2>2
    <3> QED BY <1>3, <1>4, <1>6, <3>1 DEF Armed
  <2> QED BY <2>1, <2>2
<1> QED BY <1>1, <1>2, <1>7, <1>8 DEF IntendsAt

\* A start that has not got so far has no record yet.
LEMMA UnknownsKept ==
  ASSUME LeaseInv, CoreTypes', Unknowns, NEW c \in Caller, Moves(c),
         c \in Start /\ Raw(c)' => Raw(c),
         \A s \in Start : Raw(s) /\ Raw(s)' =>
           \A u \in Tab : Foreign(cleanups'[u], s) /\ Foreign(call'[c].plan[u], s)
  PROVE  Unknowns'
<1> SUFFICES ASSUME NEW s \in Start, Raw(s)', NEW u \in Tab
             PROVE  /\ Foreign(cleanups'[u], s) /\ Foreign(saved'.cleanups[u], s)
                    /\ \A i \in DOMAIN writes' : Foreign(writes'[i].snap.cleanups[u], s)
                    /\ \A d \in Caller : Foreign(call'[d].plan[u], s)
  BY DEF Unknowns
<1>1. Raw(s)
  BY Callers DEF Moves, Raw
<1>2. Foreign(cleanups'[u], s) /\ Foreign(call'[c].plan[u], s)
  BY <1>1
<1>3. \A d \in Caller : Foreign(call'[d].plan[u], s)
  BY <1>1, <1>2 DEF Unknowns, Moves
<1>4. Foreign(saved'.cleanups[u], s)
  BY <1>1 DEF Unknowns, Moves
<1>5. \A i \in DOMAIN writes' : Foreign(writes'[i].snap.cleanups[u], s)
  <2>1. PICK n \in Nat, m \in Nat :
           /\ DOMAIN writes = 1..n /\ DOMAIN writes' = 1..m /\ \A k \in 1..n : writes'[k] = writes[k]
           /\ \/ m = n
              \/ /\ m = n + 1 /\ writes' # writes
                 /\ writes'[m].by \in {c, None}
                 /\ writes'[m].snap.lease = lease' /\ writes'[m].snap.cleanups = cleanups'
    BY ChainOf
  <2>2. \A i \in 1..m : i \in 1..n \/ (i = m /\ m = n + 1)
    BY <2>1
  <2> QED BY <1>1, <1>2, <2>1, <2>2 DEF Unknowns
<1> QED BY <1>2, <1>3, <1>4, <1>5

\* What is stored finds the debugged tabs, as the memory covers them.
LEMMA StoredKept ==
  ASSUME LeaseInv, CoreTypes', Stored, Chromes', Memory', NEW c \in Caller, Moves(c), SameAttaches,
         writes' # writes => Loaded'
  PROVE  Stored'
<1>1. \A t \in Tab : (Debugged(t)' <=> Debugged(t)) /\ (Attaches(t)' <=> Attaches(t))
  BY DEF Moves, SameAttaches, Debugged
<1>2. StoredAt(saved)'
  BY <1>1 DEF Stored, StoredAt, Moves
<1>3. \A i \in DOMAIN writes' : StoredAt(writes[i].snap)'
  <2>1. PICK n \in Nat, m \in Nat :
           /\ DOMAIN writes = 1..n /\ DOMAIN writes' = 1..m /\ \A k \in 1..n : writes'[k] = writes[k]
           /\ \/ m = n
              \/ /\ m = n + 1 /\ writes' # writes
                 /\ writes'[m].by \in {c, None}
                 /\ writes'[m].snap.lease = lease' /\ writes'[m].snap.cleanups = cleanups'
    BY ChainOf
  <2> SUFFICES ASSUME NEW i \in 1..m, NEW t \in Tab
               PROVE  (Debugged(t)' => Finds(writes'[i].snap, t)) /\ (Attaches(t)' => writes'[i].snap.lease = None)
    BY <2>1 DEF StoredAt
  <2>2. CASE i \in 1..n
    BY <1>1, <2>1, <2>2 DEF Stored, StoredAt
  <2>3. CASE i \notin 1..n
    <3>1. i = m /\ m = n + 1
      BY <2>1, <2>3
    <3>2. Attaches(t)' => lease' = None
      BY DEF Chromes
    <3>3. Debugged(t)' => cleanups'[t] # None \/ (lease' # None /\ lease'.tab = t)
      BY <2>1, <3>1 DEF Memory, Leased
    <3> QED BY <2>1, <3>1, <3>2, <3>3 DEF Finds
  <2> QED BY <2>2, <2>3
<1> QED BY <1>2, <1>3 DEF Stored

\* The initialization goes on only when the memory is filled.
Awake(c) == c = Boot => Loaded /\ Loaded' /\ ~Initialized

\* What the memory covers stays covered.
LEMMA MemoryKept ==
  ASSUME Memory, NEW c \in Caller, Moves(c), SameAttaches, Awake(c), lease' # lease => Loaded,
         \A t \in Tab : Debugged(t) /\ cleanups[t] # None =>
            cleanups'[t] # None \/ Leased(t)',
         \A t \in Tab : Debugged(t) /\ Loaded /\ Leased(t) => cleanups'[t] # None \/ Leased(t)'
  PROVE  Memory'
<1>1. \A t \in Tab : (Debugged(t)' <=> Debugged(t)) /\ (Attaches(t)' <=> Attaches(t))
  BY DEF Moves, SameAttaches, Debugged
<1>2. (Loaded' <=> Loaded) /\ (~Loaded => call'[Boot] = call[Boot])
  BY Callers DEF Loaded, Awake, Moves
<1>3. Loaded' => \A t \in Tab : Debugged(t)' => cleanups'[t] # None \/ Leased(t)'
  BY <1>1, <1>2 DEF Memory
<1>4. call'[Boot].pc \in Viewing =>
       /\ lease' = None /\ call'[Boot].tab \in Tab
       /\ \A t \in Tab : ~Attaches(t)' /\ (Debugged(t)' => cleanups'[t] # None \/ t = call'[Boot].tab)
  <2> SUFFICES ASSUME call'[Boot].pc \in Viewing
               PROVE  /\ lease' = None /\ call'[Boot].tab \in Tab
                      /\ \A t \in Tab : ~Attaches(t)' /\ (Debugged(t)' => cleanups'[t] # None \/ t = call'[Boot].tab)
    OBVIOUS
  <2>1. ~Loaded /\ lease' = lease
    BY <1>2 DEF Loaded
  <2>2. call[Boot].pc \in Viewing
    BY <1>2, <2>1
  <2> QED BY <1>1, <1>2, <2>1, <2>2 DEF Memory, Leased
<1> QED BY <1>3, <1>4 DEF Memory

\* c does not stir while it should be at rest.
RestsAt(c) ==
  /\ ~Loaded /\ c # Alarm => call'[c].pc \in AtRest \cup {"done", "uninitialized"}
  /\ call[Boot].pc \in Asleep \cup {"looking", "losing"} =>
       cleanups' = NoCleanup /\ (c = Alarm => call'[c].pc = "idle")
  /\ c \in Start /\ call'[c].pc \notin AtRest =>
       Initialized /\ \A t \in Tab : call[t].pc # "uninitialized"
  /\ c \in Tab /\ call'[c].pc = "uninitialized" => call[c].pc = "uninitialized"

\* So does what is at rest.
LEMMA RestsKept ==
  ASSUME LeaseInv, Rests, NEW c \in Caller, Moves(c), SameAttaches, Awake(c), RestsAt(c)
  PROVE  Rests'
<1>1. (Loaded' <=> Loaded) /\ (c # Boot => (Initialized' <=> Initialized))
  BY Callers DEF Loaded, Initialized, Awake, Moves
<1>2. \A t \in Tab : Debugged(t)' <=> Debugged(t)
  BY DEF Moves, SameAttaches, Debugged
<1>3. \A t \in Tab : call'[t].pc = "uninitialized" => call[t].pc = "uninitialized"
  BY Callers DEF Moves, RestsAt
<1>4. ~Loaded' => \A d \in Caller \ {Boot, Alarm} : call'[d].pc \in AtRest \cup {"done", "uninitialized"}
  BY <1>1 DEF Rests, Moves, RestsAt
<1>5. call'[Boot].pc \in Asleep \cup {"looking", "losing"} => call'[Alarm].pc = "idle" /\ cleanups' = NoCleanup
  <2> SUFFICES ASSUME call'[Boot].pc \in Asleep \cup {"looking", "losing"}
               PROVE  call'[Alarm].pc = "idle" /\ cleanups' = NoCleanup
    OBVIOUS
  <2>1. c # Boot
    BY DEF Awake, Loaded, Viewing
  <2>2. call[Boot].pc \in Asleep \cup {"looking", "losing"}
    BY <2>1, Callers DEF Moves
  <2> QED BY <2>2, Callers DEF Rests, Moves, RestsAt
<1>6. ~Initialized' \/ (\E t \in Tab : call'[t].pc = "uninitialized") => \A s \in Start : call'[s].pc \in AtRest
  <2> SUFFICES ASSUME ~Initialized' \/ (\E t \in Tab : call'[t].pc = "uninitialized"), NEW s \in Start
               PROVE  call'[s].pc \in AtRest
    OBVIOUS
  <2>1. ~Initialized \/ (\E t \in Tab : call[t].pc = "uninitialized")
    BY <1>1, <1>3 DEF Awake
  <2>2. call[s].pc \in AtRest
    BY <2>1 DEF Rests
  <2> QED BY <2>1, <2>2, Callers DEF Moves, RestsAt
<1>7. \A t \in Tab : call'[t].pc = "uninitialized" => ~Debugged(t)'
  BY <1>2, <1>3 DEF Rests
<1> QED BY <1>4, <1>5, <1>6, <1>7 DEF Rests

\* Chrome has what it had, and nothing to attach under a lease.
LEMMA ChromesKept ==
  ASSUME Chromes, NEW c \in Caller, Moves(c), SameAttaches, \A t \in Tab : Queue(t)',
         lease' \in {lease, None} \/ \A t \in Tab : ~Attaches(t)
  PROVE  Chromes'
BY DEF Chromes, Moves, SameAttaches

\* One tab at most is debugged, as before.
LEMMA SingleKept ==
  ASSUME Single, NEW c \in Caller, Moves(c), SameAttaches
  PROVE  Single'
<1>1. \A t \in Tab : Debugged(t)' <=> Debugged(t)
  BY DEF Moves, SameAttaches, Debugged
<1> QED BY <1>1 DEF Single

\* What c owes where it stands now.
Owes(c) ==
  /\ Prompt(c)'
  /\ Between(c)' => EntersAt(c)'
  /\ call'[c].pc \in Detacher =>
       /\ call'[c].tab \in Tab
       /\ \/ detaches'[call'[c].tab] # None
          \/ /\ call[c].pc \in Detacher /\ call'[c].tab = call[c].tab
             /\ call'[c].pc \in Sweeping => call[c].pc \in Sweeping
  /\ c \in Start =>
       /\ OwnersAt(c)'
       /\ call'[c].pc = "initializing" => call'[c].by = c
       /\ Engaged(c)' => EngagedAt(c)'
       /\ call'[c].pc = "intending" => ~SeenOnce(c)' /\ IntendsAt(c)'
       /\ Raw(c)' => Raw(c)
  /\ RestsAt(c)

\* What it leaves to the others.
Leaves(c) ==
  /\ Respects(c)
  /\ \A s \in Start : s # c /\ call[s].pc = "intending" /\ SeenOnce(s)' => SeenOnce(s) \/ Follows(c, s)'
  /\ \A s \in Start : Raw(s) /\ Raw(s)' =>
       \A u \in Tab : Foreign(cleanups'[u], s) /\ Foreign(call'[c].plan[u], s)
  /\ \A t \in Tab : Debugged(t) =>
       /\ cleanups[t] # None => cleanups'[t] # None \/ Leased(t)'
       /\ Loaded /\ Leased(t) => cleanups'[t] # None \/ Leased(t)'
  /\ Placed(lease)' /\ (lease' # lease => Loaded)
  /\ lease' \in {lease, None} \/ \A t \in Tab : ~Attaches(t)

\* A turn of one call keeps the invariant.
LEMMA TurnCovers ==
  ASSUME Base, Base', Strong, NEW c \in Caller, Moves(c), SameAttaches, \A t \in Tab : Queue(t)',
         Awake(c), Owes(c), Leaves(c), (writes' # writes => Loaded') \/ Stored'
  PROVE  Strong'
<1>1. LeaseInv /\ CoreTypes'
  BY DEF Base, LeaseInv
<1>2. Chromes'
  BY ChromesKept DEF Strong, Leaves
<1>3. Owners' /\ Enters' /\ Sole'
  BY OwnersKept, EntersKept, SoleKept DEF Strong, Owes
<1>4. Sights'
  BY SightsKept DEF Strong, Owes
<1>5. Places'
  <2>1. c = Boot => call'[c].pc \notin Looking
    BY DEF Awake, Loaded, Looking, Viewing
  <2> QED BY <1>1, <2>1, PlacesKept DEF Strong, Owes, Leaves
<1>6. Records'
  <2>1. \A t \in Tab : \A s \in Start : s # c => (AttachBy(t, s)' <=> AttachBy(t, s))
    BY DEF SameAttaches
  <2> QED BY <2>1, RecordsKept DEF Strong, Owes, Leaves
<1>7. Claims'
  BY <1>1, ClaimsKept DEF Strong, Owes, Leaves
<1>8. Intends'
  BY <1>1, <1>3, <1>6, IntendsKept DEF Strong, Owes
<1>9. Unknowns'
  BY <1>1, UnknownsKept DEF Strong, Owes, Leaves
<1>10. Memory'
  BY MemoryKept DEF Strong, Leaves
<1>11. Rests'
  BY <1>1, RestsKept DEF Strong, Owes
<1>12. Stored'
  BY <1>1, <1>2, <1>10, StoredKept DEF Strong
<1>13. Single'
  BY SingleKept DEF Strong
<1> QED BY <1>2, <1>3, <1>4, <1>5, <1>6, <1>7, <1>8, <1>9, <1>10, <1>11, <1>12, <1>13 DEF Strong

------------------------------------------------------------------------------
(* The steps of a call.                                                     *)

\* Where a turn of c begins.
Ground(c) == Base /\ Base' /\ Strong /\ (Ready(c) \/ NoneReady)

\* Whoever was going already, or may go, lets what should be at rest be.
LEMMA Stirring ==
  ASSUME Rests, NEW c \in Caller, Awake(c),
         c \in Tab => call'[c].pc # "uninitialized",
         c = Alarm => call[c].pc # "idle" \/ (cleanups # NoCleanup /\ cleanups' = cleanups),
         c \notin {Boot, Alarm} =>
           \/ call[c].pc \notin AtRest \cup {"done", "uninitialized"}
           \/ Loaded /\ (c \in Start => call[c].pc \notin AtRest \/ (Initialized /\ \A t \in Tab : call[t].pc # "uninitialized"))
           \/ c \in Stops /\ call'[c].pc = "uninitialized" /\ cleanups' = cleanups
  PROVE  RestsAt(c)
<1>1. Boot # Alarm /\ Alarm \notin Start \cup Tab /\ Boot \notin Start \cup Tab /\ Start \cap Stops = {} /\ Tab \cap Stops = {}
  OBVIOUS
<1>2. Initialized => Loaded
  BY DEF Initialized, Loaded, Asleep, Viewing
<1>3. Loaded => call[Boot].pc \notin Asleep \cup {"looking", "losing"}
  BY DEF Loaded, Viewing
<1>4. CASE c = Boot
  BY <1>1, <1>3, <1>4 DEF RestsAt, Awake
<1>5. CASE c = Alarm
  BY <1>1, <1>5 DEF RestsAt, Rests
<1>6. CASE c \notin {Boot, Alarm} /\ call[c].pc \notin AtRest \cup {"done", "uninitialized"}
  <2>1. Loaded
    BY <1>6 DEF Rests
  <2>2. c \in Start => Initialized /\ \A t \in Tab : call[t].pc # "uninitialized"
    BY <1>6 DEF Rests
  <2> QED BY <1>3, <1>6, <2>1, <2>2 DEF RestsAt
<1>7. CASE c \notin {Boot, Alarm} /\ Loaded /\ (c \in Start => call[c].pc \notin AtRest \/ (Initialized /\ \A t \in Tab : call[t].pc # "uninitialized"))
  BY <1>2, <1>3, <1>7 DEF RestsAt, Rests
<1>8. CASE c \in Stops /\ call'[c].pc = "uninitialized" /\ cleanups' = cleanups
  BY <1>1, <1>8 DEF RestsAt, Rests
<1> QED BY <1>4, <1>5, <1>6, <1>7, <1>8

\* When the initialization is over, the memory is filled.
LEMMA UpLoaded == Initialized => Loaded
BY DEF Initialized, Loaded, Asleep, Viewing

\* A turn that leaves what is in hand alone.
LEMMA Stays ==
  ASSUME NEW c \in Caller, \A d \in Caller : d # c => call'[d] = call[d], Ready(c) \/ NoneReady,
         call[c].pc \in Waiting => Answered(c),
         UNCHANGED <<lease, saved, attached, notice, teardowns, attaches, detaches>>,
         writes' = writes \/ \E b \in {c, None} : Persist(b)
  PROVE  Moves(c)
BY DEF Moves

\* What is not under way has no attach.
LEMMA Unattached ==
  ASSUME Owners, NEW s \in Start, call[s].pc # "late", call[s].pc = "attaching" => Answered(s)
  PROVE  \A t \in Tab : ~AttachBy(t, s)
<1> SUFFICES ASSUME NEW t \in Tab, AttachBy(t, s) PROVE FALSE
  OBVIOUS
<1>1. call[s].pc = "late" \/ (call[s].pc = "attaching" /\ call[s].reply = "")
  BY Zenon DEF Owners, OwnersAt
<1> QED BY <1>1, Zenon DEF Answered

\* A start that has no attach on its way owns none.
LEMMA OwnsNone ==
  ASSUME NEW s \in Start, \A t \in Tab : ~AttachBy(t, s)', call'[s].pc # "attaching"
  PROVE  OwnersAt(s)'
BY Zenon DEF OwnersAt

\* A turn of c that leaves the lease and the records alone, and of the records

\* that it holds itself makes nothing that an attach under way would miss.
LEMMA LeavesAlone ==
  ASSUME NEW c \in Caller, Ground(c), Moves(c), UNCHANGED <<lease, cleanups>>,
         \A u \in Tab : call'[c].plan[u] \in {None, call[c].plan[u], cleanups[u]},
         \A s \in Start :
           s # c /\ Engaged(s) /\ call'[c].pc \in Sweeping /\ call'[c].tab = TabOf[s]
             /\ call'[c].plan[TabOf[s]].token = s =>
               /\ call'[c].plan[TabOf[s]].confirms = 0
               /\ call[s].pc = "intending" => teardowns'[TabOf[s]] = c
  PROVE  Leaves(c)
<1>1. Respects(c)
  <2> SUFFICES ASSUME NEW s \in Start, s # c, Engaged(s) PROVE RespectsAt(c, s)
    BY DEF Respects
  <2>1. EngagedAt(s)
    BY DEF Ground, Strong, Records
  <2>2. \A u \in Tab : Open(cleanups'[u], s) /\ Open(call'[c].plan[u], s)
    BY <2>1 DEF EngagedAt, Open
  <2> QED BY <2>1, <2>2 DEF RespectsAt, EngagedAt
<1>2. \A s \in Start : SeenOnce(s)' => SeenOnce(s)
  <2> SUFFICES ASSUME NEW s \in Start, SeenOnce(s)' PROVE SeenOnce(s)
    OBVIOUS
  <2>1. TabOf[s] \in Tab
    OBVIOUS
  <2>2. CASE Seen(cleanups'[TabOf[s]], s)
    BY <2>2 DEF SeenOnce
  <2>3. ASSUME NEW d \in Caller, Seen(call'[d].plan[TabOf[s]], s) PROVE SeenOnce(s)
    <3>1. CASE d = c
      BY <2>1, <2>3, <3>1 DEF SeenOnce, Seen
    <3>2. CASE d # c
      BY <2>3, <3>2 DEF SeenOnce, Moves
    <3> QED BY <3>1, <3>2
  <2> QED BY <2>2, <2>3 DEF SeenOnce
<1>3. \A s \in Start : Raw(s) => \A u \in Tab : Foreign(cleanups'[u], s) /\ Foreign(call'[c].plan[u], s)
  BY DEF Ground, Strong, Unknowns, Foreign
<1>4. Placed(lease)'
  BY DEF Ground, Strong, Places, Placed
<1> QED BY <1>1, <1>2, <1>3, <1>4 DEF Leaves, Leased

\* A turn of c that leaves the records, the lease and the debugger alone.
LEMMA CalmKeeps ==
  ASSUME NEW c \in Caller, Ground(c), Moves(c), UNCHANGED <<lease, cleanups, detaches, ops>>, Awake(c), RestsAt(c),
         call'[c].pc \notin Detacher \cup Taking \cup {"intending", "attaching", "initializing"},
         c \in Start /\ call'[c].pc = "replaced" => EntersAt(c)',
         \A u \in Tab : call'[c].plan[u] \in {None, call[c].plan[u], cleanups[u]},
         c \in Start => (\A t \in Tab : ~AttachBy(t, c)) /\ (Raw(c)' => Raw(c)),
         writes' # writes => Loaded'
  PROVE  Strong'
<1>1. SameAttaches /\ \A t \in Tab : Queue(t)'
  BY QueueStill DEF SameAttaches, Ground, Strong, Chromes
<1>2. Owes(c)
  <2>1. Between(c)' => EntersAt(c)'
    BY DEF Between
  <2>2. c \in Start => OwnersAt(c)'
    BY <1>1, OwnsNone DEF SameAttaches
  <2>3. c \in Start => ~Engaged(c)'
    BY <1>1 DEF Engaged, SameAttaches
  <2> QED BY <2>1, <2>2, <2>3 DEF Owes, Prompt
<1>3. Leaves(c)
  BY LeavesAlone DEF Detacher
<1> QED BY <1>1, <1>2, <1>3, TurnCovers DEF Ground
\* c may go on: it is not at rest before the memory is filled.
Fit(c) ==
  /\ call[c].pc \in Waiting => Answered(c)
  /\ c = Boot => Loaded /\ ~Initialized
  /\ c = Alarm => call[c].pc # "idle" \/ cleanups # NoCleanup
  /\ c \notin {Boot, Alarm} =>
       \/ call[c].pc \notin AtRest \cup {"done", "uninitialized"}
       \/ Loaded /\ (c \in Start => call[c].pc \notin AtRest \/ (Initialized /\ \A t \in Tab : call[t].pc # "uninitialized"))

\* Where c goes on to.
Ways(c, r) ==
  /\ r.pc \notin Detacher \cup Taking \cup {"intending", "attaching", "initializing"} \cup Asleep \cup Viewing
  /\ \A u \in Tab : r.plan[u] \in {None, call[c].plan[u], cleanups[u]}
  /\ c \in Start =>
       /\ r.pc \notin {"replaced", "idle"} /\ r.back # "replaced" /\ (r.pc = "open" => Raw(c))
       /\ call[c].pc # "late" /\ (call[c].pc = "attaching" => Answered(c))
  /\ c \in Tab => r.pc # "uninitialized"

\* The memory is filled, if c may write.
LEMMA FitLoaded ==
  ASSUME Rests, NEW c \in Caller, Fit(c), c # Alarm
  PROVE  Loaded
BY DEF Fit, Rests, Initialized, Loaded, Asleep, Viewing

\* What should be at rest is.
LEMMA FitRests ==
  ASSUME Rests, NEW c \in Caller, Fit(c), Awake(c), cleanups' = cleanups,
         c \in Tab => call'[c].pc # "uninitialized"
  PROVE  RestsAt(c)
BY Stirring DEF Fit

\* c goes on, and has nothing of the lease or of the debugger in hand.
LEMMA CalmEnters ==
  ASSUME NEW c \in Caller, Ground(c), Fit(c), NEW r, Enter(c, r), Ways(c, r),
         UNCHANGED <<lease, cleanups, attaches, detaches, ops, saved, attached, notice>>,
         \A u \in Tab : teardowns'[u] = teardowns[u] \/ teardowns[u] = c,
         writes' = writes \/ (c # Alarm /\ \E b \in {c, None} : Persist(b))
  PROVE  Strong'
<1>1. call'[c] = r /\ \A d \in Caller : d # c => call'[d] = call[d]
  BY Entered DEF Ground, Base, LeaseInv
<1>2. Moves(c)
  BY <1>1 DEF Moves, Ground, Fit
<1>3. Awake(c)
  BY <1>1 DEF Awake, Fit, Ways, Loaded
<1>4. RestsAt(c)
  BY <1>1, <1>3, Stirring DEF Ground, Strong, Fit, Ways
<1>5. writes' # writes => Loaded'
  <2>1. c # Alarm => Loaded
    BY FitLoaded DEF Ground, Strong
  <2>2. Loaded => Loaded'
    BY <1>1, <1>3, Callers DEF Loaded, Awake
  <2> QED BY <2>1, <2>2
<1>6. c \in Start => (\A t \in Tab : ~AttachBy(t, c)) /\ (Raw(c)' => Raw(c))
  <2> SUFFICES ASSUME c \in Start PROVE (\A t \in Tab : ~AttachBy(t, c)) /\ (Raw(c)' => Raw(c))
    OBVIOUS
  <2>1. \A t \in Tab : ~AttachBy(t, c)
    BY Unattached DEF Ground, Strong, Ways
  <2>2. Raw(c)' => Raw(c)
    BY <1>1 DEF Ways, Raw
  <2> QED BY <2>1, <2>2
<1>7. /\ call'[c].pc \notin Detacher \cup Taking \cup {"intending", "attaching", "initializing"}
      /\ c \in Start => call'[c].pc # "replaced"
      /\ \A u \in Tab : call'[c].plan[u] \in {None, call[c].plan[u], cleanups[u]}
  BY <1>1 DEF Ways
<1> QED BY <1>2, <1>3, <1>4, <1>5, <1>6, <1>7, CalmKeeps

\* A fresh call has no plan.
LEMMA FreshPlan ==
  ASSUME NEW pc
  PROVE  /\ Fresh(pc).pc = pc /\ Fresh(pc).back = "idle"
         /\ \A u \in Tab : Fresh(pc).plan[u] = None
BY DEF Fresh, NoCleanup

\* retryPendingControlCleanups begins.
LEMMA SweepBegins ==
  ASSUME NEW c \in Caller, Ground(c), Fit(c), NEW back, EnterSweep(c, back), PartAt(c, back),
         c \in Start => call[c].pc # "late" /\ (call[c].pc = "attaching" => Answered(c)),
         UNCHANGED <<lease, cleanups, teardowns, attaches, detaches, ops, saved, writes, attached, notice>>
  PROVE  Strong'
<1> DEFINE r == [Fresh("sweep") EXCEPT !.plan = cleanups, !.back = back]
<1>1. r.pc = "sweep" /\ r.back = back /\ r.plan = cleanups
  BY DEF Fresh
<1>2. Enter(c, Fresh(back)) \/ Enter(c, r)
  BY DEF EnterSweep
<1> HIDE DEF r
<1>3. back \notin Detacher \cup Taking \cup {"intending", "attaching", "initializing", "open", "uninitialized"} \cup Asleep \cup Viewing
      /\ (c \in Start => back \notin {"replaced", "idle"})
  BY DEF PartAt, Over, Detacher, Sweeping, Taking, Asleep, Viewing
<1>4. Ways(c, Fresh(back))
  BY <1>3, FreshPlan DEF Ways
<1>5. Ways(c, r)
  BY <1>1, <1>3 DEF Ways, Detacher, Sweeping, Taking, Asleep, Viewing
<1> QED BY <1>2, <1>4, <1>5, CalmEnters

\* A stop that finds no lease.
LEMMA StopFindsNoneCovers ==
  ASSUME NEW c \in Caller, Ground(c), NEW back, StopFindsNone(c, back), PartAt(c, back),
         Fit(c) \/ (c \in Stops /\ call[c].pc = "idle"),
         c \in Start => call[c].pc \notin {"late", "attaching"}, c \notin Tab
  PROVE  Strong'
<1>1. UNCHANGED <<lease, cleanups, teardowns, attaches, detaches, ops, saved, writes, attached, notice>>
  BY DEF StopFindsNone, store, chrome
<1>2. CASE Initialized /\ EnterSweep(c, back)
  <2>1. c \in Stops => c \notin Start /\ c # Boot /\ c # Alarm
    OBVIOUS
  <2>2. Fit(c)
    BY <1>2, <2>1, UpLoaded DEF Fit, Waiting
  <2> QED BY <1>1, <1>2, <2>2, SweepBegins
<1>3. CASE ~Initialized /\ Enter(c, [Fresh("uninitialized") EXCEPT !.back = back])
  <2> DEFINE r == [Fresh("uninitialized") EXCEPT !.back = back]
  <2>1. r.pc = "uninitialized" /\ r.back = back /\ r.plan = NoCleanup
    BY DEF Fresh
  <2>2. Enter(c, r)
    BY <1>3
  <2> HIDE DEF r
  <2>3. \A u \in Tab : r.plan[u] = None
    BY <2>1 DEF NoCleanup
  <2>4. Ways(c, r)
    BY <2>1, <2>3 DEF Ways, Detacher, Sweeping, Taking, Asleep, Viewing, PartAt
  <2>5. CASE Fit(c)
    BY <1>1, <2>2, <2>4, <2>5, CalmEnters
  <2>6. CASE c \in Stops /\ call[c].pc = "idle"
    <3>1. c \notin Start \cup Tab \cup {Boot, Alarm}
      BY <2>6
    <3>2. call'[c] = r /\ \A d \in Caller : d # c => call'[d] = call[d]
      BY <2>2, Entered DEF Ground, Base, LeaseInv
    <3>3. Moves(c)
      BY <1>1, <2>6, <3>2, Stays DEF Ground, Waiting
    <3>4. Awake(c)
      BY <3>1 DEF Awake
    <3>5. RestsAt(c)
      BY <1>1, <2>1, <2>6, <3>1, <3>2, <3>4, Stirring DEF Ground, Strong
    <3> QED BY <1>1, <2>1, <2>3, <3>1, <3>2, <3>3, <3>4, <3>5, CalmKeeps DEF Detacher, Sweeping, Taking
  <2> QED BY <2>5, <2>6
<1> QED BY <1>2, <1>3 DEF StopFindsNone

\* Whoever stands in a part of itself, or holds something, has gone on already.
LEMMA FitWithin ==
  ASSUME NEW c \in Caller, call[c].pc \notin AtRest \cup {"done", "uninitialized"}, call[c].pc \in Waiting => Answered(c),
         c = Boot => call[c].pc \notin Asleep \cup Viewing \cup {"up"}
  PROVE  Fit(c)
BY DEF Fit, AtRest, Loaded, Initialized

\* A stop that finds none after the initialization.
LEMMA StopInitializedCovers ==
  ASSUME NEW c \in Caller, Ground(c), call[c].pc = "uninitialized", Initialized,
         EnterSweep(c, call[c].back), c \notin Tab, c # Alarm,
         UNCHANGED <<lease, cleanups, teardowns, attaches, detaches, ops, saved, writes, attached, notice>>
  PROVE  Strong'
<1>1. PartAt(c, call[c].back)
  BY Parts DEF Ground, Base, Within, Taking
<1>2. c # Boot
  BY DEF Initialized
<1>3. Fit(c)
  BY <1>2, UpLoaded DEF Fit, Waiting, AtRest
<1> QED BY <1>1, <1>3, SweepBegins

\* The initialization failed, and with it a call that waited.
LEMMA BrokenCovers ==
  ASSUME NEW c \in Caller, Ground(c), Broken(c)
  PROVE  Strong'
<1>1. /\ call[c].pc = "uninitialized" /\ call[Boot].pc = "broken"
      /\ Enter(c, Fresh(Back(call[c].back, FALSE)))
      /\ UNCHANGED <<lease, cleanups, teardowns, attaches, detaches, ops, saved, writes, attached, notice>>
  BY DEF Broken, control, store, chrome
<1>2. PartAt(c, call[c].back)
  BY <1>1, Parts DEF Ground, Base, Within, Taking
<1>3. PICK pc : pc = Back(call[c].back, FALSE)
  OBVIOUS
<1>4. pc \in {"idle", "refused", "undoing", "broken", "failing", "noting", "done"}
      /\ (c \in Start => pc \notin {"replaced", "idle"})
  BY <1>2, <1>3 DEF PartAt, Over, Back
<1>5. Ways(c, Fresh(pc))
  BY <1>1, <1>4, FreshPlan DEF Ways, Detacher, Sweeping, Taking, Asleep, Viewing
<1>6. Loaded /\ c # Boot
  BY <1>1 DEF Loaded, Asleep, Viewing
<1>7. Fit(c)
  BY <1>1, <1>6 DEF Fit, Waiting, AtRest
<1> QED BY <1>1, <1>3, <1>5, <1>7, CalmEnters

\* The outcome of a stop is written: the claim on its tab goes.
LEMMA StopEndsCovers ==
  ASSUME NEW c \in Caller, Ground(c), StopEnds(c), c \notin Tab
  PROVE  Strong'
<1>1. /\ call[c].pc = "reporting" /\ Answered(c)
      /\ teardowns' = [teardowns EXCEPT ![call[c].tab] = IF @ = c THEN None ELSE @]
      /\ UNCHANGED <<lease, cleanups, attaches, detaches, ops, saved, writes, attached, notice>>
  BY DEF StopEnds, store, chrome
<1>2. PICK r \in Call :
         /\ Enter(c, r) /\ r.pc = Back(call[c].back, call[c].reply = "ok")
         /\ r.back = "idle" /\ r.plan = NoCleanup
  <2> DEFINE pc == Back(call[c].back, call[c].reply = "ok")
             r0 == [Fresh(pc) EXCEPT
                        !.tab = IF c \in Stopper THEN call[c].tab ELSE None,
                        !.owner = IF call[c].back = "replaced" /\ call[c].reply = "ok" THEN call[c].owner ELSE None]
  <2>1. Enter(c, r0)
    BY DEF StopEnds
  <2>2. r0.pc = pc /\ r0.back = "idle" /\ r0.plan = NoCleanup
    BY DEF Fresh
  <2> HIDE DEF r0, pc
  <2>3. call'[c] = r0
    BY <2>1, Entered DEF Ground, Base, LeaseInv
  <2>4. r0 \in Call
    BY <2>3 DEF Ground, Base, LeaseInv, CoreTypes
  <2> QED BY <2>1, <2>2, <2>4 DEF pc
<1>3. call'[c] = r /\ \A d \in Caller : d # c => call'[d] = call[d]
  BY <1>2, Entered DEF Ground, Base, LeaseInv
<1>4. EntersAt(c)
  BY <1>1 DEF Ground, Strong, Enters, Between, Taking
<1>5. call[c].back \in Over /\ (c \in Start => call[c].back \in {"refused", "undoing", "replaced"})
      /\ (c = Boot => call[c].back \in {"up", "failing"})
  BY <1>1 DEF Ground, Base, LeaseInv, Returns, ReturnsAt, Taking, Within
<1>6. r.pc \in {"idle", "refused", "undoing", "replaced", "up", "failing", "noting", "done", "broken"}
      /\ (c \in Start => r.pc \in {"refused", "undoing", "replaced"}) /\ (c = Boot => r.pc \in {"up", "broken", "failing"})
      /\ (c \in Start /\ r.pc = "replaced" => call[c].back = "replaced")
  BY <1>2, <1>5 DEF Back, Over
<1>7. Fit(c)
  <2>1. c = Boot => ~Initialized /\ Loaded
    BY <1>1 DEF Initialized, Loaded, Asleep, Viewing
  <2> QED BY <1>1, <2>1 DEF Fit, AtRest
<1>8. Moves(c)
  <2>1. \A u \in Tab : teardowns'[u] = teardowns[u] \/ teardowns[u] = c
    BY <1>1 DEF Ground, Base, SideTypes, HandTypes
  <2> QED BY <1>1, <1>3, <2>1 DEF Moves, Ground
<1>9. Awake(c) /\ RestsAt(c)
  <2>1. Awake(c)
    BY <1>3, <1>6, <1>7 DEF Awake, Fit, Loaded, Asleep, Viewing
  <2>2. Rests /\ cleanups' = cleanups /\ call'[c].pc # "uninitialized"
    BY <1>1, <1>3, <1>6 DEF Ground, Strong
  <2> QED BY <1>7, <2>1, <2>2, FitRests
<1>10. c \in Start => (\A t \in Tab : ~AttachBy(t, c)) /\ (Raw(c)' => Raw(c))
  <2>1. c \in Start => \A t \in Tab : ~AttachBy(t, c)
    BY <1>1, Unattached DEF Ground, Strong
  <2>2. c \in Start => (Raw(c)' => Raw(c))
    BY <1>2, <1>3, <1>6 DEF Raw
  <2> QED BY <2>1, <2>2
<1>11. c \in Start /\ call'[c].pc = "replaced" => EntersAt(c)'
  <2> SUFFICES ASSUME c \in Start, call'[c].pc = "replaced" PROVE EntersAt(c)'
    OBVIOUS
  <2>1. \A d \in Caller : Between(d)' => d = c
    BY <1>3, <1>4 DEF EntersAt, Between
  <2>2. call'[c].pc \notin Taking
    BY DEF Taking
  <2>3. \A t \in Tab : Attaches(t)' => AttachBy(t, c)'
    BY <1>1, <1>4 DEF EntersAt, Attaches, AttachBy
  <2> QED BY <1>1, <1>4, <2>1, <2>2, <2>3 DEF EntersAt
<1>12. call'[c].pc \notin Detacher \cup Taking \cup {"intending", "attaching", "initializing"}
  BY <1>3, <1>6 DEF Detacher, Sweeping, Taking
<1>13. \A u \in Tab : call'[c].plan[u] = None
  BY <1>2, <1>3 DEF NoCleanup
<1> QED BY <1>1, <1>8, <1>9, <1>10, <1>11, <1>12, <1>13, CalmKeeps

\* A call with another plan.
LEMMA Replanned ==
  ASSUME NEW f \in Call, NEW pc, NEW plan
  PROVE  /\ [f EXCEPT !.pc = pc, !.plan = plan].pc = pc
         /\ [f EXCEPT !.pc = pc, !.plan = plan].plan = plan
         /\ [f EXCEPT !.pc = pc, !.plan = plan].back = f.back
<1>1. [f EXCEPT !.pc = pc, !.plan = plan].pc = pc
  BY Zenon DEF Call
<1>2. [f EXCEPT !.pc = pc, !.plan = plan].plan = plan
  BY Zenon DEF Call
<1>3. [f EXCEPT !.pc = pc, !.plan = plan].back = f.back
  BY Zenon DEF Call
<1> QED BY <1>1, <1>2, <1>3

\* The loop of a sweep goes on to its next tab, or ends.
LEMMA SweepWays ==
  ASSUME NEW c \in Caller, Base, call[c].pc \in {"sweep", "swept"}, NEW t, SweepsOn(c, t)
  PROVE  \E r : Enter(c, r) /\ Ways(c, r)
<1> DEFINE rest == [call[c].plan EXCEPT ![t] = None]
           r == [call[c] EXCEPT !.pc = "sweep", !.plan = rest]
<1>1. PartAt(c, call[c].back) /\ call[c] \in Call
  BY Parts DEF Base, LeaseInv, CoreTypes, Within, Taking
<1>2. Enter(c, Fresh(call[c].back)) \/ Enter(c, r)
  BY DEF SweepsOn
<1>3. Ways(c, Fresh(call[c].back))
  <2>1. call[c].back \notin Detacher \cup Taking \cup {"intending", "attaching", "initializing", "open", "uninitialized"} \cup Asleep \cup Viewing
        /\ (c \in Start => call[c].back \notin {"replaced", "idle"})
    BY <1>1 DEF PartAt, Over, Detacher, Sweeping, Taking, Asleep, Viewing
  <2> QED BY <2>1, FreshPlan DEF Ways
<1>4. Ways(c, r)
  <2>1. \A u \in Tab : rest[u] \in {None, call[c].plan[u]}
    BY Locals DEF Base, LeaseInv
  <2> HIDE DEF rest
  <2>2. r.pc = "sweep" /\ r.plan = rest /\ r.back = call[c].back
    BY <1>1, Replanned
  <2> HIDE DEF r
  <2>3. c \in Start => r.back # "replaced"
    BY <1>1, <2>2 DEF PartAt
  <2> QED BY <2>1, <2>2, <2>3 DEF Ways, Detacher, Sweeping, Taking, Asleep, Viewing
<1> QED BY <1>2, <1>3, <1>4

\* A sweep skips a tab that is busy.
LEMMA SweepSkipsCovers ==
  ASSUME NEW c \in Caller, Ground(c), NEW t \in Tab, SweepSkips(c, t)
  PROVE  Strong'
<1>1. call[c].pc = "sweep" /\ SweepsOn(c, t)
      /\ UNCHANGED <<lease, cleanups, teardowns, attaches, detaches, ops, saved, writes, attached, notice>>
  BY DEF SweepSkips, control, store, chrome
<1>2. PICK r : Enter(c, r) /\ Ways(c, r)
  BY <1>1, SweepWays DEF Ground
<1>3. Fit(c)
  BY <1>1, FitWithin DEF AtRest, Asleep, Viewing, Waiting
<1> QED BY <1>1, <1>2, <1>3, CalmEnters

\* The write of a sweep is answered, and its claim on the tab goes.
LEMMA SweepWrittenCovers ==
  ASSUME NEW c \in Caller, Ground(c), SweepWritten(c)
  PROVE  Strong'
<1>1. /\ call[c].pc = "swept" /\ Answered(c)
      /\ teardowns' = [teardowns EXCEPT ![call[c].tab] = IF @ = c THEN None ELSE @]
      /\ SweepsOn(c, call[c].tab) \/ Enter(c, Fresh(Back(call[c].back, FALSE)))
      /\ UNCHANGED <<lease, cleanups, attaches, detaches, ops, saved, writes, attached, notice>>
  BY DEF SweepWritten, store, chrome
<1>2. PartAt(c, call[c].back) /\ call[c] \in Call
  BY <1>1, Parts DEF Ground, Base, LeaseInv, CoreTypes, Within, Taking
<1>3. \A u \in Tab : teardowns'[u] = teardowns[u] \/ teardowns[u] = c
  BY <1>1 DEF Ground, Base, SideTypes, HandTypes
<1>4. Fit(c)
  BY <1>1, FitWithin DEF AtRest, Asleep, Viewing
<1>5. PICK r : Enter(c, r) /\ Ways(c, r)
  <2>1. CASE SweepsOn(c, call[c].tab)
    <3> QED BY <1>1, <2>1, SweepWays DEF Ground
  <2>2. CASE Enter(c, Fresh(Back(call[c].back, FALSE)))
    <3>1. PICK pc : pc = Back(call[c].back, FALSE)
      OBVIOUS
    <3>2. pc \in {"idle", "refused", "undoing", "broken", "failing", "noting", "done"}
          /\ (c \in Start => pc \notin {"replaced", "idle"})
      BY <1>2, <3>1 DEF PartAt, Over, Back
    <3>3. Ways(c, Fresh(pc))
      BY <1>1, <3>2, FreshPlan DEF Ways, Detacher, Sweeping, Taking, Asleep, Viewing
    <3> QED BY <2>2, <3>1, <3>3
  <2> QED BY <1>1, <2>1, <2>2
<1> QED BY <1>1, <1>3, <1>4, <1>5, CalmEnters

\* The alarm begins a sweep.
LEMMA AlarmCovers ==
  ASSUME Ground(Alarm), AlarmRings
  PROVE  Strong'
<1>1. /\ call[Alarm].pc = "idle" /\ cleanups # NoCleanup /\ EnterSweep(Alarm, "idle")
      /\ UNCHANGED <<lease, cleanups, teardowns, attaches, detaches, ops, saved, writes, attached, notice>>
  BY DEF AlarmRings, control, store, chrome, NoCleanup
<1>2. Alarm \in Caller /\ Alarm \notin Start /\ Alarm # Boot
  BY DEF Caller
<1>3. Fit(Alarm) /\ PartAt(Alarm, "idle")
  BY <1>1, <1>2 DEF Fit, Waiting, PartAt, Over
<1> QED BY <1>1, <1>2, <1>3, SweepBegins

\* A start comes in.
LEMMA StartCallCovers ==
  ASSUME NEW s \in Start, Ground(s), NoneReady, StartCall(s)
  PROVE  Strong'
<1>1. /\ call[s].pc = "idle" /\ Initialized
      /\ UNCHANGED <<lease, cleanups, teardowns, attaches, detaches, ops, saved, writes, attached, notice>>
  BY DEF StartCall, control, store, chrome
<1>2. s \in Caller /\ s \notin {Boot, Alarm} \cup Tab
  BY DEF Caller
<1>3. \A t \in Tab : call[t].pc # "uninitialized"
  BY <1>1, Callers DEF NoneReady, Ready, Initialized
<1>4. Fit(s)
  BY <1>1, <1>2, <1>3, UpLoaded DEF Fit, Waiting
<1>5. PICK o : Enter(s, Fresh("refused")) \/ Enter(s, [Fresh("open") EXCEPT !.owner = o])
  BY DEF StartCall
<1> DEFINE r == [Fresh("open") EXCEPT !.owner = o]
<1>6. r.pc = "open" /\ r.back = "idle" /\ r.plan = NoCleanup
  BY DEF Fresh
<1>7. Ways(s, Fresh("refused"))
  BY <1>1, FreshPlan DEF Ways, Detacher, Sweeping, Taking, Asleep, Viewing
<1>8. Ways(s, r)
  <2> HIDE DEF r
  <2>1. \A u \in Tab : r.plan[u] = None
    BY <1>6 DEF NoCleanup
  <2> QED BY <1>1, <1>2, <1>6, <2>1 DEF Ways, Detacher, Sweeping, Taking, Asleep, Viewing, Raw
<1> HIDE DEF r
<1> QED BY <1>1, <1>2, <1>4, <1>5, <1>7, <1>8, CalmEnters DEF r

\* A start that writes nothing more of an attach.
LEMMA StartGoesCovers ==
  ASSUME NEW s \in Start, Ground(s), NEW r, Enter(s, r), Ways(s, r),
         call[s].pc \notin {"idle", "granted", "refused", "gone", "done", "uninitialized"},
         call[s].pc \in Waiting => Answered(s),
         UNCHANGED <<lease, cleanups, teardowns, attaches, detaches, ops, saved, attached, notice>>,
         writes' = writes \/ Persist(s) \/ Persist(None)
  PROVE  Strong'
<1>1. s \in Caller /\ s \notin {Boot, Alarm} \cup Tab
  BY DEF Caller
<1>2. Fit(s)
  BY <1>1, FitWithin DEF AtRest
<1> QED BY <1>1, <1>2, CalmEnters

\* A start is refused, or renews its lease.
LEMMA StartRefusedCovers ==
  ASSUME NEW s \in Start, Ground(s), StartRefused(s) \/ StartBusy(s) \/ StartRenews(s)
  PROVE  Strong'
<1>1. /\ call[s].pc \in {"open", "replaced"}
      /\ UNCHANGED <<lease, cleanups, teardowns, attaches, detaches, ops, saved, attached, notice>>
      /\ writes' = writes \/ Persist(s)
  BY DEF StartRefused, StartBusy, StartRenews, control, store, chrome
<1> DEFINE r == [Fresh("committing") EXCEPT !.by = lease.by, !.epoch = epoch]
<1>2. Enter(s, Fresh("refused")) \/ Enter(s, r)
  BY DEF StartRefused, StartBusy, StartRenews, Refuse
<1>3. r.pc = "committing" /\ r.back = "idle" /\ r.plan = NoCleanup
  BY DEF Fresh
<1>4. Ways(s, Fresh("refused"))
  BY <1>1, FreshPlan DEF Ways, Detacher, Sweeping, Taking, Asleep, Viewing
<1>5. Ways(s, r)
  <2> HIDE DEF r
  <2>1. \A u \in Tab : r.plan[u] = None
    BY <1>3 DEF NoCleanup
  <2> QED BY <1>1, <1>3, <2>1 DEF Ways, Detacher, Sweeping, Taking, Asleep, Viewing
<1> HIDE DEF r
<1> QED BY <1>1, <1>2, <1>4, <1>5, StartGoesCovers DEF Waiting

\* A start whose attach has settled begins a sweep.
LEMMA StartSweepsCovers ==
  ASSUME NEW s \in Start, Ground(s), StartSweeps(s)
  PROVE  Strong'
<1>1. /\ call[s].pc = "settling" /\ Answered(s) /\ EnterSweep(s, "refused")
      /\ UNCHANGED <<lease, cleanups, teardowns, attaches, detaches, ops, saved, writes, attached, notice>>
  BY DEF StartSweeps, control, store, chrome
<1>2. s \in Caller /\ s \notin {Boot, Alarm} \cup Tab
  BY DEF Caller
<1>3. Fit(s) /\ PartAt(s, "refused")
  BY <1>1, <1>2, FitWithin DEF AtRest, PartAt, Over
<1> QED BY <1>1, <1>2, <1>3, SweepBegins

\* A call that only goes on keeps its plan and its tab.
LEMMA GoneOn ==
  ASSUME CoreTypes, NEW c \in Caller, NEW pc \in Pc, Go(c, pc) \/ Await(c, pc)
  PROVE  \E r : /\ Enter(c, r) /\ call'[c] = r /\ r.pc = pc
                /\ r.plan = call[c].plan /\ r.tab = call[c].tab /\ r.back = call[c].back
<1>1. /\ call'[c].pc = pc /\ call'[c].plan = call[c].plan /\ call'[c].tab = call[c].tab
      /\ call'[c].back = call[c].back
  BY Goings, Zenon
<1>2. \E r : Enter(c, r)
  <2>1. CASE Go(c, pc)
    <3>1. Enter(c, [call[c] EXCEPT !.pc = pc])
      BY <2>1, Zenon DEF Go, Enter
    <3> QED BY <3>1, Zenon
  <2>2. CASE Await(c, pc)
    <3>1. Enter(c, [call[c] EXCEPT !.pc = pc, !.reply = ""])
      BY <2>2, Zenon DEF Await, Enter
    <3> QED BY <3>1, Zenon
  <2> QED BY <2>1, <2>2
<1>3. PICK r : Enter(c, r)
  BY <1>2
<1>4. call'[c] = r
  BY <1>3, Entered
<1> QED BY <1>1, <1>3, <1>4

\* The heartbeat goes on.
LEMMA BeatCovers ==
  ASSUME Ground(Beat), BeatBegins \/ BeatHolds \/ BeatEnds
  PROVE  Strong'
<1>1. Beat \in Caller /\ Beat \notin {Boot, Alarm} \cup Start \cup Tab
  BY DEF Caller
<1>2. UNCHANGED <<lease, cleanups, teardowns, attaches, detaches, ops, saved, attached, notice>>
      /\ (writes' = writes \/ Persist(Beat))
  BY DEF BeatBegins, BeatHolds, BeatEnds, control, store, chrome
<1>3. (call[Beat].pc = "idle" /\ Initialized) \/ call[Beat].pc = "beating" \/ (call[Beat].pc = "beaten" /\ Answered(Beat))
  BY Zenon DEF BeatBegins, BeatHolds, BeatEnds, Answered
<1>4. Fit(Beat)
  BY <1>1, <1>3, UpLoaded DEF Fit, Waiting, AtRest
<1>5. \E r : Enter(Beat, r) /\ Ways(Beat, r)
  <2>1. CASE BeatBegins
    <3> DEFINE r == [Fresh("beating") EXCEPT !.by = lease.by, !.epoch = lease.epoch]
    <3>1. Enter(Beat, r)
      BY <2>1 DEF BeatBegins
    <3>2. r.pc = "beating" /\ r.plan = NoCleanup
      BY DEF Fresh
    <3> HIDE DEF r
    <3>3. Ways(Beat, r)
      BY <1>1, <3>2 DEF Ways, Detacher, Sweeping, Taking, Asleep, Viewing, NoCleanup
    <3> QED BY <3>1, <3>3
  <2>2. CASE BeatHolds
    <3>1. Await(Beat, "beaten") /\ "beaten" \in Pc /\ CoreTypes
      BY <2>2 DEF BeatHolds, Pc, Ground, Base, LeaseInv
    <3>2. PICK r : Enter(Beat, r) /\ r.pc = "beaten" /\ r.plan = call[Beat].plan
      BY <1>1, <3>1, GoneOn
    <3>3. Ways(Beat, r)
      BY <1>1, <3>2 DEF Ways, Detacher, Sweeping, Taking, Asleep, Viewing
    <3> QED BY <3>2, <3>3
  <2>3. CASE BeatEnds
    <3>1. Enter(Beat, Fresh("idle"))
      BY <2>3 DEF BeatEnds
    <3>2. Ways(Beat, Fresh("idle"))
      BY <1>1, FreshPlan DEF Ways, Detacher, Sweeping, Taking, Asleep, Viewing
    <3> QED BY <3>1, <3>2
  <2> QED BY <2>1, <2>2, <2>3
<1> QED BY <1>1, <1>2, <1>4, <1>5, CalmEnters

\* A pause that was latched is seen to.
LEMMA NotesCovers ==
  ASSUME NEW c \in Caller, Ground(c), c \in Stops \cup Tab, NEW over \in {"idle", "done"}, Notes(c, over)
  PROVE  Strong'
<1>1. c \notin {Boot, Alarm} \cup Start
  OBVIOUS
<1>2. /\ call[c].pc = "noting" /\ Enter(c, Fresh(over))
      /\ UNCHANGED <<lease, cleanups, teardowns, attaches, detaches, ops, saved, attached, notice>>
      /\ (writes' = writes \/ Persist(None))
  BY DEF Notes, chrome
<1>3. Fit(c)
  BY <1>1, <1>2, FitWithin DEF AtRest, Waiting
<1>4. Ways(c, Fresh(over))
  BY <1>1, FreshPlan DEF Ways, Detacher, Sweeping, Taking, Asleep, Viewing
<1> QED BY <1>1, <1>2, <1>3, <1>4, CalmEnters

\* The listener writes the end of a lease that Chrome took.
LEMMA HardWritesCovers ==
  ASSUME NEW t \in Tab, Ground(t), HardWrites(t)
  PROVE  Strong'
<1>1. t \in Caller /\ t \notin {Boot, Alarm} \cup Start
  BY DEF Caller
<1> DEFINE pc == Noting(t, "idle")
           r == [Fresh(pc) EXCEPT !.tab = t]
<1>2. /\ call[t].pc = "hard" /\ Enter(t, r) /\ Persist(None)
      /\ UNCHANGED <<lease, cleanups, teardowns, attaches, detaches, ops, saved, attached, notice>>
  BY DEF HardWrites, chrome
<1>3. pc \in {"noting", "idle"}
  BY DEF Noting
<1>4. r.pc = pc /\ r.plan = NoCleanup
  BY DEF Fresh
<1> HIDE DEF r, pc
<1>5. Ways(t, r)
  BY <1>1, <1>3, <1>4 DEF Ways, Detacher, Sweeping, Taking, Asleep, Viewing, NoCleanup
<1>6. Fit(t)
  BY <1>1, <1>2, FitWithin DEF AtRest, Waiting
<1> QED BY <1>1, <1>2, <1>5, <1>6, CalmEnters

\* The initialization ends, or verifies the lease it took up.
LEMMA BootEndsCovers ==
  ASSUME Ground(Boot), BootEnds \/ BootVerifies
  PROVE  Strong'
<1>1. Boot \in Caller /\ Boot \notin {Alarm} \cup Start \cup Tab
  BY DEF Caller
<1>2. UNCHANGED <<lease, cleanups, teardowns, attaches, detaches, ops, saved, attached, notice>>
      /\ (writes' = writes \/ Persist(Boot))
  BY DEF BootEnds, BootVerifies, control, store, chrome
<1>3. call[Boot].pc = "recovering" \/ (call[Boot].pc \in {"recording", "recovered"} /\ Answered(Boot))
  BY DEF BootEnds, BootVerifies
<1>4. Fit(Boot)
  BY <1>1, <1>3 DEF Fit, Waiting, Loaded, Initialized, Asleep, Viewing
<1>5. \E r : Enter(Boot, r) /\ Ways(Boot, r)
  <2>1. CASE BootEnds
    <3>1. PICK pc : pc = Back("up", call[Boot].reply = "ok")
      OBVIOUS
    <3>2. Enter(Boot, Fresh(pc))
      BY <2>1, <3>1 DEF BootEnds
    <3>3. pc \in {"up", "broken"}
      BY <3>1 DEF Back
    <3>4. Ways(Boot, Fresh(pc))
      BY <1>1, <3>3, FreshPlan DEF Ways, Detacher, Sweeping, Taking, Asleep, Viewing
    <3> QED BY <3>2, <3>4
  <2>2. CASE BootVerifies
    <3>1. Await(Boot, "recovered") /\ "recovered" \in Pc /\ CoreTypes
      BY <2>2 DEF BootVerifies, Pc, Ground, Base, LeaseInv
    <3>2. PICK r : Enter(Boot, r) /\ r.pc = "recovered" /\ r.plan = call[Boot].plan
      BY <1>1, <3>1, GoneOn
    <3>3. Ways(Boot, r)
      BY <1>1, <3>2 DEF Ways, Detacher, Sweeping, Taking, Asleep, Viewing
    <3> QED BY <3>2, <3>3
  <2> QED BY <2>1, <2>2
<1> QED BY <1>1, <1>2, <1>4, <1>5, CalmEnters

------------------------------------------------------------------------------
(* Stops.                                                                   *)

\* Under a lease nobody is on the way to one.
LEMMA UnderLease ==
  ASSUME Base, Strong, lease # None
  PROVE  /\ Loaded /\ \A c \in Caller : ~Between(c)
         /\ \A t \in Tab : ~Attaches(t)
         /\ \A s \in Start : ~Engaged(s)
<1>1. \A c \in Caller : ~Between(c)
  BY DEF Strong, Enters, EntersAt
<1>2. \A t \in Tab : ~Attaches(t)
  BY DEF Strong, Chromes
<1>3. Loaded
  BY DEF Loaded, Strong, Memory, Base, LeaseInv, Boots, Asleep, Booting
<1>4. \A s \in Start : ~Engaged(s)
  BY <1>1, <1>2, Callers, AttachedBy DEF Engaged, Between
<1> QED BY <1>1, <1>2, <1>3, <1>4

\* While a stop is at work nobody else is, and nothing is attached.
LEMMA UnderStop ==
  ASSUME Base, Strong, NEW c \in Caller, call[c].pc \in Taking
  PROVE  /\ EntersAt(c) /\ \A t \in Tab : ~Attaches(t)
         /\ \A s \in Start : ~Engaged(s)
<1>1. EntersAt(c)
  BY DEF Strong, Enters, Between
<1>2. \A t \in Tab : ~Attaches(t)
  <2> SUFFICES ASSUME NEW t \in Tab, Attaches(t) PROVE FALSE
    OBVIOUS
  <2>1. AttachBy(t, c)
    BY <1>1 DEF EntersAt
  <2>2. c # None
    BY DEF Caller
  <2>3. c \in Start
    BY <2>1, <2>2 DEF AttachBy, Strong, Chromes, Queue
  <2>4. ~AttachBy(t, c)
    BY <2>3, Unattached DEF Strong, Taking
  <2> QED BY <2>1, <2>4
<1>3. \A s \in Start : ~Engaged(s)
  <2> SUFFICES ASSUME NEW s \in Start, Engaged(s) PROVE FALSE
    OBVIOUS
  <2>1. ~AttachBy(TabOf[s], s)
    BY <1>2, AttachedBy
  <2>2. call[s].pc = "intending" /\ s \in Caller
    BY <2>1 DEF Engaged, Caller
  <2>3. s = c
    BY <1>1, <2>2 DEF EntersAt, Between
  <2> QED BY <2>2, <2>3 DEF Taking
<1> QED BY <1>1, <1>2, <1>3

\* The records may change where no attach of another is under way: what a record

\* is made into is nobody's, or it was there, and a debugged tab keeps one.
LEMMA LeavesFree ==
  ASSUME NEW c \in Caller, Ground(c), \A s \in Start : s # c => ~Engaged(s),
         \A u \in Tab : cleanups'[u] \in {None, Plain, cleanups[u]} /\ call'[c].plan[u] \in {None, call[c].plan[u], cleanups[u]},
         \A t \in Tab : Debugged(t) /\ (cleanups[t] # None \/ Leased(t)) => cleanups'[t] # None \/ Leased(t)',
         lease' \in {lease, None}, lease' # lease => Loaded
  PROVE  Leaves(c)
<1>1. Respects(c)
  BY DEF Respects
<1>2. \A s \in Start : s # c => call[s].pc # "intending"
  BY DEF Engaged
<1>3. \A s \in Start : Raw(s) => \A u \in Tab : Foreign(cleanups'[u], s) /\ Foreign(call'[c].plan[u], s)
  <2>1. \A s \in Start : Foreign(Plain, s)
    BY DEF Foreign, Plain
  <2>2. \A s \in Start : Foreign(None, s)
    BY DEF Foreign
  <2> QED BY <2>1, <2>2 DEF Ground, Strong, Unknowns
<1>4. Placed(lease)'
  BY DEF Ground, Strong, Places, Placed
<1> QED BY <1>1, <1>2, <1>3, <1>4 DEF Leaves

\* A stop takes the lease.
LEMMA StopTakesCovers ==
  ASSUME NEW c \in Caller, Ground(c), NEW explicit, NEW back, StopTakes(c, explicit, back), StopAt(c, back),
         call[c].pc \in Waiting => Answered(c), c \notin Tab \cup {Alarm}, c \in Start => call[c].pc \notin AtRest,
         c = Boot => ~Initialized
  PROVE  Strong'
<1> DEFINE r == [Fresh("stopping") EXCEPT !.tab = lease.tab, !.by = lease.by, !.back = back,
                                            !.owner = call[c].owner]
<1>1. /\ lease # None /\ lease' = None /\ Persist(c) /\ Enter(c, r)
      /\ teardowns' = [teardowns EXCEPT ![lease.tab] = c]
      /\ cleanups' = [cleanups EXCEPT ![lease.tab] = Plain]
      /\ UNCHANGED <<attaches, detaches, ops, saved, attached, notice>>
  BY DEF StopTakes, chrome
<1>2. r.pc = "stopping" /\ r.tab = lease.tab /\ r.back = back /\ r.plan = NoCleanup
  BY DEF Fresh
<1> HIDE DEF r
<1>3. call'[c] = r /\ \A d \in Caller : d # c => call'[d] = call[d]
  BY <1>1, Entered DEF Ground, Base, LeaseInv
<1>4. /\ Loaded /\ \A d \in Caller : ~Between(d)
      /\ \A t \in Tab : ~Attaches(t)
      /\ \A s \in Start : ~Engaged(s)
  BY <1>1, UnderLease DEF Ground
<1>5. lease.tab \in Tab
  BY <1>1 DEF Ground, Base, LeaseInv, CoreTypes, MemTypes, Lease
<1>6. SameAttaches /\ \A t \in Tab : Queue(t)'
  BY <1>1, QueueStill DEF SameAttaches, Ground, Strong, Chromes
<1>7. Moves(c)
  BY <1>1, <1>3 DEF Moves, Ground
<1>8. Awake(c)
  BY <1>2, <1>3, <1>4 DEF Awake, Loaded, Asleep, Viewing
<1>9. RestsAt(c)
  BY <1>4, <1>8, Stirring DEF Ground, Strong, Loaded, Viewing
<1>10. EntersAt(c)'
  <2>1. \A d \in Caller : Between(d)' => d = c
    BY <1>3, <1>4 DEF Between
  <2>2. teardowns'[lease.tab] = c
    BY <1>1, <1>5 DEF Ground, Base, SideTypes, HandTypes
  <2>3. \A t \in Tab : ~Attaches(t)'
    BY <1>4, <1>6 DEF SameAttaches
  <2> QED BY <1>1, <1>2, <1>3, <1>5, <2>1, <2>2, <2>3 DEF EntersAt
<1>11. Owes(c)
  <2>1. c \in Start => OwnersAt(c)' /\ ~Engaged(c)'
    <3>1. \A t \in Tab : ~AttachBy(t, c)'
      BY <1>4, <1>6, AttachedBy DEF SameAttaches
    <3>2. call'[c].pc \notin {"attaching", "intending"}
      BY <1>2, <1>3
    <3> QED BY <3>1, <3>2, OwnsNone DEF Engaged
  <2>2. c \in Start => (Raw(c)' => Raw(c))
    BY <1>2, <1>3 DEF Raw, StopAt
  <2>3. Prompt(c)' /\ call'[c].pc \notin Detacher \cup {"intending", "initializing"}
    BY <1>2, <1>3 DEF Prompt, Detacher, Sweeping
  <2> QED BY <1>9, <1>10, <2>1, <2>2, <2>3 DEF Owes
<1>12. Leaves(c)
  <2>1. \A u \in Tab : cleanups'[u] = IF u = lease.tab THEN Plain ELSE cleanups[u]
    BY <1>1 DEF Ground, Base, LeaseInv, CoreTypes, MemTypes
  <2>2. \A u \in Tab : call'[c].plan[u] = None
    BY <1>2, <1>3 DEF NoCleanup
  <2>3. Plain # None
    BY NoneApart, NothingTypes
  <2>4. \A t \in Tab : cleanups[t] # None \/ Leased(t) => cleanups'[t] # None
    BY <2>1, <2>3 DEF Leased
  <2> QED BY <1>1, <1>4, <2>1, <2>2, <2>4, LeavesFree
<1>13. Loaded'
  BY <1>3, <1>4, <1>8, Callers DEF Loaded, Awake
<1> QED BY <1>6, <1>7, <1>8, <1>11, <1>12, <1>13, TurnCovers DEF Ground

\* A stop goes on, and goes on keeping the others out.
LEMMA TakingGoesOn ==
  ASSUME NEW c \in Caller, Ground(c), call[c].pc \in Taking, call[c].pc \in Waiting => Answered(c),
         \A d \in Caller : d # c => call'[d] = call[d],
         call'[c].pc \in Taking, call'[c].tab = call[c].tab, call'[c].back = call[c].back,
         lease' = lease, UNCHANGED <<teardowns, attaches, saved, attached, notice>>,
         SameAttaches, \A u \in Tab : detaches'[u] = detaches[u] \/ detaches[u] = None,
         writes' = writes \/ Persist(c), \A t \in Tab : Queue(t)',
         call'[c].pc = "detaching" => detaches'[call[c].tab] # None, c \notin Tab \cup {Alarm},
         Leaves(c)
  PROVE  Strong'
<1>1. Moves(c)
  BY DEF Moves, Ground
<1>2. Fit(c)
  BY FitWithin DEF Taking, AtRest, Asleep, Viewing
<1>3. Loaded
  BY <1>2, FitLoaded DEF Ground, Strong
<1>4. Awake(c)
  BY <1>2 DEF Awake, Fit, Loaded, Taking, Asleep, Viewing
<1>5. RestsAt(c)
  BY <1>3, <1>4, Stirring DEF Ground, Strong, Loaded, Viewing, Taking, AtRest
<1>6. EntersAt(c) /\ (\A t \in Tab : ~Attaches(t)) /\ \A s \in Start : ~Engaged(s)
  BY UnderStop DEF Ground
<1>7. EntersAt(c)'
  <2>1. \A d \in Caller : Between(d)' => d = c
    BY <1>6 DEF EntersAt, Between
  <2>2. \A t \in Tab : ~Attaches(t)'
    BY <1>6 DEF SameAttaches
  <2> QED BY <1>6, <2>1, <2>2 DEF EntersAt, Taking
<1>8. Owes(c)
  <2>1. c \in Start => OwnersAt(c)' /\ ~Engaged(c)'
    <3>1. \A t \in Tab : ~AttachBy(t, c)'
      BY <1>6, AttachedBy DEF SameAttaches
    <3>2. call'[c].pc \notin {"attaching", "intending"}
      BY DEF Taking
    <3> QED BY <3>1, <3>2, OwnsNone DEF Engaged
  <2>2. Raw(c)' => Raw(c)
    BY DEF Raw, Taking
  <2>3. Prompt(c)' /\ call'[c].pc \notin {"intending", "initializing"}
    BY DEF Prompt, Taking
  <2>4. call'[c].pc \in Detacher => call'[c].tab \in Tab /\ detaches'[call'[c].tab] # None
    BY <1>6 DEF EntersAt, Detacher, Sweeping, Taking
  <2> QED BY <1>5, <1>7, <2>1, <2>2, <2>3, <2>4 DEF Owes
<1>9. Loaded'
  BY <1>3, <1>4, Callers DEF Loaded, Awake
<1> QED BY <1>1, <1>4, <1>8, <1>9, TurnCovers DEF Ground

\* It detaches the debugger.
LEMMA StopDetachesCovers ==
  ASSUME NEW c \in Caller, Ground(c), StopDetaches(c), c \notin Tab \cup {Alarm}
  PROVE  Strong'
<1>1. /\ call[c].pc = "stopping" /\ Answered(c) /\ Go(c, "detaching") /\ IssueDetach(c, call[c].tab)
      /\ UNCHANGED <<lease, cleanups, teardowns, attaches, saved, writes, attached, notice>>
  BY DEF StopDetaches, store
<1>2. EntersAt(c) /\ \A s \in Start : ~Engaged(s)
  BY <1>1, UnderStop DEF Ground, Taking
<1>3. call[c].tab \in Tab
  BY <1>1, <1>2 DEF EntersAt, Taking
<1>4. /\ SameAttaches /\ \A u \in Tab : Queue(u)'
      /\ \A u \in Tab : detaches'[u] = detaches[u] \/ detaches[u] = None
      /\ detaches'[call[c].tab] # None
  BY <1>1, <1>3, Issued DEF Ground, Base, Strong, Chromes
<1>5. CoreTypes /\ "detaching" \in Pc
  BY DEF Ground, Base, LeaseInv, Pc
<1>6. PICK r : /\ Enter(c, r) /\ call'[c] = r /\ r.pc = "detaching"
               /\ r.plan = call[c].plan /\ r.tab = call[c].tab /\ r.back = call[c].back
  BY <1>1, <1>5, GoneOn
<1>7. \A d \in Caller : d # c => call'[d] = call[d]
  BY <1>5, <1>6, Entered
<1>8. Leaves(c)
  BY <1>1, <1>2, <1>6, LeavesFree DEF Leased
<1> QED BY <1>1, <1>4, <1>6, <1>7, <1>8, TakingGoesOn DEF Taking

\* It asks whether the debugger is gone, and records what it finds.
LEMMA StopConfirmsCovers ==
  ASSUME NEW c \in Caller, Ground(c), NEW seen, StopConfirms(c, seen), c \notin Tab \cup {Alarm}
  PROVE  Strong'
<1> DEFINE t == call[c].tab
           k == IF DetachConfirmed(t, seen) THEN None ELSE Plain
<1>1. /\ call[c].pc = "detaching" /\ Await(c, "reporting") /\ Persist(c)
      /\ cleanups' = [cleanups EXCEPT ![t] = k]
      /\ UNCHANGED <<lease, teardowns, attaches, detaches, ops, saved, attached, notice>>
  BY DEF StopConfirms, chrome
<1>2. EntersAt(c) /\ (\A u \in Tab : ~Attaches(u)) /\ \A s \in Start : ~Engaged(s)
  BY <1>1, UnderStop DEF Ground, Taking
<1>3. t \in Tab /\ lease = None
  BY <1>1, <1>2 DEF EntersAt, Taking
<1>4. SameAttaches /\ \A u \in Tab : Queue(u)'
  BY <1>1, QueueStill DEF SameAttaches, Ground, Strong, Chromes
<1>5. CoreTypes /\ "reporting" \in Pc
  BY DEF Ground, Base, LeaseInv, Pc
<1>6. PICK r : /\ Enter(c, r) /\ call'[c] = r /\ r.pc = "reporting"
               /\ r.plan = call[c].plan /\ r.tab = call[c].tab /\ r.back = call[c].back
  BY <1>1, <1>5, GoneOn
<1>7. \A d \in Caller : d # c => call'[d] = call[d]
  BY <1>5, <1>6, Entered
<1>8. \A u \in Tab : cleanups'[u] = IF u = t THEN k ELSE cleanups[u]
  BY <1>1 DEF Ground, Base, LeaseInv, CoreTypes, MemTypes
<1>9. k # None \/ ~Debugged(t)
  <2>1. DetachConfirmed(t, seen) => t \notin attached /\ detaches[t] = None
    BY DEF DetachConfirmed
  <2>2. SightsAt(c)
    BY <1>1 DEF Ground, Strong, Sights, Detacher
  <2>3. Plain # None
    BY NoneApart, NothingTypes
  <2> QED BY <1>2, <1>3, <2>1, <2>2, <2>3 DEF SightsAt, Debugged
<1>10. Leaves(c)
  <2>1. k \in {None, Plain}
    OBVIOUS
  <2> HIDE DEF k
  <2>2. \A u \in Tab : Debugged(u) /\ (cleanups[u] # None \/ Leased(u)) => cleanups'[u] # None
    BY <1>3, <1>8, <1>9 DEF Leased
  <2>3. \A u \in Tab : cleanups'[u] \in {None, Plain, cleanups[u]} /\ call'[c].plan[u] \in {None, call[c].plan[u], cleanups[u]}
    BY <1>6, <1>8, <2>1
  <2> QED BY <1>1, <1>2, <2>2, <2>3, LeavesFree
<1> QED BY <1>1, <1>4, <1>6, <1>7, <1>10, TakingGoesOn DEF Taking, Waiting

\* A stop begins, with a lease or without.
LEMMA StopFromCovers ==
  ASSUME NEW c \in Caller, Ground(c), NEW explicit, NEW back, StopFrom(c, explicit, back), PartAt(c, back),
         Fit(c) \/ (c \in Stops /\ call[c].pc = "idle"),
         c \in Start => call[c].pc \notin AtRest \cup {"late", "attaching"}, c \notin Tab \cup {Alarm}
  PROVE  Strong'
<1>1. StopAt(c, back)
  BY DEF StopAt, PartAt
<1>2. /\ call[c].pc \in Waiting => Answered(c)
      /\ c = Boot => ~Initialized
  <2>1. Boot \notin Stops
    OBVIOUS
  <2> QED BY <2>1 DEF Fit, Waiting
<1>3. CASE StopTakes(c, explicit, back)
  BY <1>1, <1>2, <1>3, StopTakesCovers
<1>4. CASE StopFindsNone(c, back)
  BY <1>4, StopFindsNoneCovers
<1> QED BY <1>3, <1>4 DEF StopFrom

\* The steps of a stop.
LEMMA StopStepCovers ==
  ASSUME NEW c \in Caller, Ground(c), StopStep(c), c \notin Tab \cup {Alarm}
  PROVE  Strong'
<1>1. CASE StopInitialized(c)
  <2>1. call[c].pc = "uninitialized" /\ Initialized
    BY <1>1 DEF StopInitialized
  <2>2. CASE StopTakes(c, TRUE, call[c].back)
    <3>1. PartAt(c, call[c].back)
      BY <2>1, Parts DEF Ground, Base, Within, Taking
    <3>2. StopAt(c, call[c].back)
      BY <3>1 DEF StopAt, PartAt
    <3>3. /\ call[c].pc \in Waiting => Answered(c)
          /\ c \in Start => call[c].pc \notin AtRest
          /\ c = Boot => ~Initialized
      BY <2>1 DEF Waiting, AtRest, Initialized
    <3> QED BY <2>2, <3>2, <3>3, StopTakesCovers
  <2>3. CASE EnterSweep(c, call[c].back) /\ UNCHANGED <<lease, cleanups, teardowns, attaches, detaches, store, chrome>>
    <3>1. UNCHANGED <<lease, cleanups, teardowns, attaches, detaches, ops, saved, writes, attached, notice>>
      BY <2>3 DEF store, chrome
    <3> QED BY <2>1, <2>3, <3>1, StopInitializedCovers
  <2> QED BY <1>1, <2>2, <2>3 DEF StopInitialized
<1>2. CASE StopDetaches(c)
  BY <1>2, StopDetachesCovers
<1>3. CASE StopEnds(c)
  BY <1>3, StopEndsCovers
<1>4. CASE \E seen \in BOOLEAN : StopConfirms(c, seen)
  BY <1>4, StopConfirmsCovers
<1> QED BY <1>1, <1>2, <1>3, <1>4 DEF StopStep

------------------------------------------------------------------------------
(* Sweeps.                                                                  *)

\* A start that intends to attach is not answered while another call goes on.
LEMMA IntentWaits ==
  ASSUME NEW c \in Caller, Ground(c), NEW s \in Start, s # c, call[s].pc = "intending"
  PROVE  ~Answered(s)
<1>1. Sole /\ (Ready(c) \/ NoneReady)
  BY DEF Ground, Strong
<1>2. \A r \in Start : r # c /\ call[r].pc \in {"intending", "attaching"} => call[r].reply = ""
  BY <1>1, OthersWait, Zenon
<1>3. call[s].reply = ""
  BY <1>2, Zenon
<1> QED BY <1>3, Zenon DEF Answered

\* No sweep that has a claim to make is past its first confirmation for an

\* attach that is under way.
LEMMA FirstSight ==
  ASSUME NEW c \in Caller, Ground(c), NEW s \in Start, s # c, Engaged(s),
         teardowns[TabOf[s]] = None, attaches[TabOf[s]] = None
  PROVE  call[s].pc = "intending" /\ ~SeenOnce(s)
<1>1. TabOf[s] \in Tab
  OBVIOUS
<1>2. ~AttachBy(TabOf[s], s)
  <2>1. AttachBy(TabOf[s], s) => attaches[TabOf[s]] = s
    BY <1>1, Zenon DEF Ground, Strong, Owners, OwnersAt
  <2> QED BY <2>1
<1>3. call[s].pc = "intending"
  BY <1>2 DEF Engaged
<1>4. ~Answered(s)
  BY <1>3, IntentWaits
<1>5. call[s].reply = ""
  BY <1>4, Zenon DEF Answered
<1>6. ~SeenOnce(s)
  <2> SUFFICES ASSUME SeenOnce(s) PROVE FALSE
    OBVIOUS
  <2>1. PICK d \in Caller : Follows(d, s)
    BY <1>3, <1>5, Zenon DEF Ground, Strong, Claims
  <2>2. teardowns[TabOf[s]] = d
    BY <2>1, Zenon DEF Follows
  <2> QED BY <2>2 DEF Caller
<1> QED BY <1>3, <1>6

\* A call that goes on to a tab.
LEMMA Replaced ==
  ASSUME NEW f \in Call, NEW t, NEW pc
  PROVE  /\ [f EXCEPT !.tab = t, !.pc = pc].pc = pc
         /\ [f EXCEPT !.tab = t, !.pc = pc].tab = t
         /\ [f EXCEPT !.tab = t, !.pc = pc].back = f.back
         /\ [f EXCEPT !.tab = t, !.pc = pc].plan = f.plan
<1>1. [f EXCEPT !.tab = t, !.pc = pc].pc = pc
  BY Zenon DEF Call
<1>2. [f EXCEPT !.tab = t, !.pc = pc].tab = t
  BY Zenon DEF Call
<1>3. [f EXCEPT !.tab = t, !.pc = pc].back = f.back /\ [f EXCEPT !.tab = t, !.pc = pc].plan = f.plan
  BY Zenon DEF Call
<1> QED BY <1>1, <1>2, <1>3

\* A sweep detaches the debugger of a tab.
LEMMA SweepDetachesCovers ==
  ASSUME NEW c \in Caller, Ground(c), NEW t \in Tab, SweepDetaches(c, t)
  PROVE  Strong'
<1>1. /\ call[c].pc = "sweep" /\ call[c].plan[t] # None /\ teardowns[t] = None /\ attaches[t] = None
      /\ teardowns' = [teardowns EXCEPT ![t] = c] /\ IssueDetach(c, t)
      /\ UNCHANGED <<lease, cleanups, attaches, saved, writes, attached, notice>>
  BY DEF SweepDetaches, Busy, store
<1>2. PICK pc \in {"sweeping", "checking"} :
        call' = [call EXCEPT ![c] = [call[c] EXCEPT !.tab = t, !.pc = pc]]
  BY Zenon DEF SweepDetaches
<1>3. call[c] \in Call
  BY Locals DEF Ground, Base, LeaseInv
<1> DEFINE r == [call[c] EXCEPT !.tab = t, !.pc = pc]
<1>4. r.pc = pc /\ r.tab = t /\ r.back = call[c].back /\ r.plan = call[c].plan
  BY <1>3, Replaced
<1> HIDE DEF r
<1>5. call'[c] = r /\ \A d \in Caller : d # c => call'[d] = call[d]
  BY <1>2 DEF Ground, Base, LeaseInv, CoreTypes, r
<1>6. /\ SameAttaches /\ \A u \in Tab : Queue(u)'
      /\ \A u \in Tab : detaches'[u] = detaches[u] \/ detaches[u] = None
      /\ detaches'[t] # None
  BY <1>1, Issued DEF Ground, Base, Strong, Chromes
<1>7. \A u \in Tab : teardowns'[u] = IF u = t THEN c ELSE teardowns[u]
  BY <1>1 DEF Ground, Base, SideTypes, HandTypes
<1>8. Moves(c)
  BY <1>1, <1>5, <1>6, <1>7 DEF Moves, Ground, Waiting
<1>9. Fit(c)
  BY <1>1, FitWithin DEF Waiting, AtRest, Asleep, Viewing
<1>10. Awake(c)
  BY <1>4, <1>5, <1>9 DEF Awake, Fit, Loaded, Asleep, Viewing
<1>11. RestsAt(c)
  <2>1. Rests /\ cleanups' = cleanups /\ call'[c].pc # "uninitialized"
    BY <1>1, <1>4, <1>5 DEF Ground, Strong
  <2> QED BY <1>9, <1>10, <2>1, FitRests
<1>12. Leaves(c)
  <2>1. ASSUME NEW s \in Start, s # c, Engaged(s), call'[c].tab = TabOf[s], call'[c].plan[TabOf[s]].token = s
        PROVE  call'[c].plan[TabOf[s]].confirms = 0 /\ teardowns'[TabOf[s]] = c
    <3>1. TabOf[s] = t
      BY <1>4, <1>5, <2>1
    <3>2. ~SeenOnce(s)
      BY <1>1, <2>1, <3>1, FirstSight
    <3> QED BY <1>1, <1>4, <1>5, <1>7, <2>1, <3>1, <3>2 DEF SeenOnce, Seen
  <2>2. \A u \in Tab : call'[c].plan[u] \in {None, call[c].plan[u], cleanups[u]}
    BY <1>4, <1>5
  <2> QED BY <1>1, <1>8, <2>1, <2>2, LeavesAlone
<1>13. Owes(c)
  <2>1. c \in Start => OwnersAt(c)' /\ ~Engaged(c)'
    <3> SUFFICES ASSUME c \in Start PROVE OwnersAt(c)' /\ ~Engaged(c)'
      OBVIOUS
    <3>1. \A u \in Tab : ~AttachBy(u, c)'
      BY <1>1, <1>6, Unattached DEF SameAttaches, Ground, Strong
    <3>2. call'[c].pc \notin {"attaching", "intending"}
      BY <1>4, <1>5
    <3> QED BY <3>1, <3>2, OwnsNone DEF Engaged
  <2>2. Raw(c)' => Raw(c)
    BY <1>4, <1>5 DEF Raw
  <2>3. Prompt(c)' /\ ~Between(c)' /\ call'[c].pc \notin {"intending", "initializing"}
    BY <1>4, <1>5 DEF Prompt, Between, Taking
  <2>4. call'[c].tab \in Tab /\ detaches'[call'[c].tab] # None
    BY <1>4, <1>5, <1>6
  <2> QED BY <1>11, <2>1, <2>2, <2>3, <2>4 DEF Owes
<1> QED BY <1>1, <1>6, <1>8, <1>10, <1>12, <1>13, TurnCovers DEF Ground

\* What a sweep makes of the record it holds: nothing, when the debugger is seen
\* to be gone often enough, or the record, perhaps with one confirmation more.
LEMMA SweepMakes ==
  ASSUME Base, NEW c \in Caller, NEW seen, NEW apart, SweepChecks(c, seen, apart)
  PROVE  LET t   == call[c].tab
             rec == call[c].plan[t]
         IN  /\ t \in Tab /\ rec # None /\ rec \in Cleanup
             /\ \E v : /\ cleanups' = [cleanups EXCEPT ![t] = v]
                       /\ \/ /\ v = None /\ t \notin attached /\ detaches[t] = None
                             /\ ~rec.attach \/ rec.settled \/ rec.confirms # 0
                          \/ v # None /\ v.token = rec.token /\ v.attach = rec.attach /\ v.settled = rec.settled
<1> DEFINE t   == call[c].tab
           rec == call[c].plan[t]
           n   == rec.confirms + (IF rec.confirms = 0 \/ apart THEN 1 ELSE 0)
<1>1. t \in Tab /\ rec # None /\ rec \in Cleanup
  <2>1. call[c].pc \in Sweeping
    BY DEF SweepChecks, Sweeping
  <2> QED BY <2>1, Locals DEF Base, LeaseInv, Posts
<1>2. rec.confirms \in 0..1
  BY <1>1 DEF Cleanup
<1>3. n \in Nat /\ (rec.confirms = 0 => n = 1)
  BY <1>2
<1>4. ~Resolved(rec, n) =>
        LET v == [rec EXCEPT !.confirms = n]
        IN  v # None /\ v.token = rec.token /\ v.attach = rec.attach /\ v.settled = rec.settled
  <2> SUFFICES ASSUME ~Resolved(rec, n)
               PROVE  LET v == [rec EXCEPT !.confirms = n]
                      IN  v # None /\ v.token = rec.token /\ v.attach = rec.attach /\ v.settled = rec.settled
    OBVIOUS
  <2>1. n \in 0..1
    BY <1>3 DEF Resolved
  <2> HIDE DEF n, rec
  <2>2. [rec EXCEPT !.confirms = n] \in Cleanup
    BY <1>1, <2>1, Zenon DEF Cleanup
  <2>3. [rec EXCEPT !.confirms = n] # None
    BY <2>2, NoneApart
  <2>4. /\ [rec EXCEPT !.confirms = n].token = rec.token /\ [rec EXCEPT !.confirms = n].attach = rec.attach
        /\ [rec EXCEPT !.confirms = n].settled = rec.settled
    BY <1>1 DEF Cleanup
  <2> QED BY <2>3, <2>4
<1>5. Resolved(rec, n) => ~rec.attach \/ rec.settled \/ rec.confirms # 0
  BY <1>3 DEF Resolved
<1>6. \/ ~Resolved(rec, n) /\ cleanups' = [cleanups EXCEPT ![t] = [rec EXCEPT !.confirms = n]]
      \/ Resolved(rec, n) /\ t \notin attached /\ detaches[t] = None /\ cleanups' = [cleanups EXCEPT ![t] = None]
      \/ cleanups' = [cleanups EXCEPT ![t] = rec]
  BY DEF SweepChecks, DetachConfirmed
<1> HIDE DEF n, rec, t
<1>7. CASE ~Resolved(rec, n) /\ cleanups' = [cleanups EXCEPT ![t] = [rec EXCEPT !.confirms = n]]
  BY <1>1, <1>4, <1>7 DEF t, rec
<1>8. CASE Resolved(rec, n) /\ t \notin attached /\ detaches[t] = None /\ cleanups' = [cleanups EXCEPT ![t] = None]
  BY <1>1, <1>5, <1>8 DEF t, rec
<1>9. CASE cleanups' = [cleanups EXCEPT ![t] = rec]
  BY <1>1, <1>9 DEF t, rec
<1> QED BY <1>6, <1>7, <1>8, <1>9

\* A sweep that has looked at its tab goes on with its record.
LEMMA SweepSwept ==
  ASSUME Base, NEW c \in Caller, NEW seen, NEW apart, SweepChecks(c, seen, apart)
  PROVE  /\ call'[c].pc = "swept" /\ call'[c].tab = call[c].tab
         /\ call'[c].plan = call[c].plan /\ call'[c].back = call[c].back
         /\ \A d \in Caller : d # c => call'[d] = call[d]
<1>1. CASE call' = [call EXCEPT ![c].pc = "swept", ![c].reply = "ok"]
  <2> DEFINE r == [call[c] EXCEPT !.pc = "swept", !.reply = "ok"]
  <2>1. call' = [call EXCEPT ![c] = r]
    BY <1>1, Zenon
  <2>2. call[c] \in Call
    BY Locals DEF Base, LeaseInv
  <2>3. r.pc = "swept" /\ r.back = call[c].back /\ r.plan = call[c].plan /\ r.tab = call[c].tab
    BY <2>2, Zenon DEF Call
  <2> HIDE DEF r
  <2>4. call'[c] = r /\ \A d \in Caller : d # c => call'[d] = call[d]
    BY <2>1 DEF Base, LeaseInv, CoreTypes
  <2> QED BY <2>3, <2>4
<1>2. CASE Await(c, "swept")
  <2>1. CoreTypes /\ "swept" \in Pc
    BY DEF Base, LeaseInv, Pc
  <2>2. PICK r : /\ Enter(c, r) /\ call'[c] = r /\ r.pc = "swept"
                 /\ r.plan = call[c].plan /\ r.tab = call[c].tab /\ r.back = call[c].back
    BY <1>2, <2>1, GoneOn
  <2>3. \A d \in Caller : d # c => call'[d] = call[d]
    BY <2>1, <2>2, Entered
  <2> QED BY <2>2, <2>3
<1> QED BY <1>1, <1>2 DEF SweepChecks

\* A turn of c that ends where no attach and no debugger is in hand.
LEMMA CalmOwes ==
  ASSUME Strong, SameAttaches, NEW c \in Caller,
         call'[c].pc \notin Detacher \cup Taking \cup {"intending", "attaching", "initializing"},
         c \in Start => call'[c].pc # "replaced" /\ (\A t \in Tab : ~AttachBy(t, c)) /\ (Raw(c)' => Raw(c)),
         RestsAt(c)
  PROVE  Owes(c)
<1>1. c \in Start => OwnersAt(c)' /\ ~Engaged(c)'
  <2> SUFFICES ASSUME c \in Start PROVE OwnersAt(c)' /\ ~Engaged(c)'
    OBVIOUS
  <2>1. \A t \in Tab : ~AttachBy(t, c)'
    BY DEF SameAttaches
  <2> QED BY <2>1, OwnsNone DEF Engaged
<1>2. Prompt(c)' /\ ~Between(c)'
  BY DEF Prompt, Between
<1> QED BY <1>1, <1>2 DEF Owes

\* A sweep looks at the tab, and writes.
LEMMA SweepChecksCovers ==
  ASSUME NEW c \in Caller, Ground(c), NEW seen, NEW apart, SweepChecks(c, seen, apart), Orderly'
  PROVE  Strong'
<1> DEFINE t   == call[c].tab
           rec == call[c].plan[t]
<1>1. /\ call[c].pc \in {"sweeping", "checking"}
      /\ UNCHANGED <<lease, teardowns, attaches, detaches, ops, saved, attached, notice>>
  BY DEF SweepChecks, chrome
<1>2. t \in Tab /\ rec # None /\ rec \in Cleanup
  BY SweepMakes DEF Ground
<1>3. PICK v : /\ cleanups' = [cleanups EXCEPT ![t] = v]
               /\ \/ /\ v = None /\ t \notin attached /\ detaches[t] = None
                     /\ ~rec.attach \/ rec.settled \/ rec.confirms # 0
                  \/ v # None /\ v.token = rec.token /\ v.attach = rec.attach /\ v.settled = rec.settled
  BY SweepMakes DEF Ground
<1>4. \A u \in Tab : cleanups'[u] = IF u = t THEN v ELSE cleanups[u]
  BY <1>3 DEF Ground, Base, LeaseInv, CoreTypes, MemTypes
<1>5. /\ call'[c].pc = "swept" /\ call'[c].tab = t /\ call'[c].plan = call[c].plan /\ call'[c].back = call[c].back
      /\ \A d \in Caller : d # c => call'[d] = call[d]
  BY SweepSwept DEF Ground
<1>6. /\ writes' = writes \/ Persist(c)
      /\ cleanups[t] = None /\ v = None => writes' = writes
      /\ cleanups[t] # None \/ v # None =>
           /\ Persist(c) /\ ~Answered(c)'
           /\ cleanups[t] = None \/ cleanups[t].token \in {None, rec.token}
           /\ call[Boot].pc # "dropping" \/ call[Boot].tab = t
  <2>1. cleanups'[t] = v
    BY <1>2, <1>4
  <2>2. CASE cleanups[t] = None /\ v = None
    BY <2>1, <2>2 DEF SweepChecks, store
  <2>3. CASE cleanups[t] # None \/ v # None
    <3>1. Await(c, "swept") /\ Persist(c) /\ forgotten' = forgotten \cup Robbed(t, rec.token) \cup Unread(t)
      BY <2>1, <2>3 DEF SweepChecks
    <3>2. Robbed(t, rec.token) = {} /\ Unread(t) = {}
      BY <3>1 DEF Orderly
    <3>3. ~Answered(c)'
      <4>1. CoreTypes /\ "swept" \in Pc
        BY DEF Ground, Base, LeaseInv, Pc
      <4>2. call'[c].reply = ""
        BY <3>1, <4>1, Goings, Zenon
      <4> QED BY <4>2, Zenon DEF Answered
    <3> QED BY <2>3, <3>1, <3>2, <3>3 DEF Robbed, Unread
  <2> QED BY <2>2, <2>3
<1>7. SameAttaches /\ \A u \in Tab : Queue(u)'
  BY <1>1, QueueStill DEF SameAttaches, Ground, Strong, Chromes
<1>8. Fit(c)
  BY <1>1, FitWithin DEF Waiting, AtRest, Asleep, Viewing
<1>9. Awake(c)
  BY <1>5, <1>8 DEF Awake, Fit, Loaded, Asleep, Viewing
<1>10. Moves(c)
  BY <1>1, <1>5, <1>6 DEF Moves, Ground, Waiting
<1>11. RestsAt(c)
  BY <1>1, <1>5, <1>8, <1>9, Stirring DEF Ground, Strong, Fit
<1>12. c \in Start => \A u \in Tab : ~AttachBy(u, c)
  BY <1>1, Unattached DEF Ground, Strong
<1>13. Owes(c)
  <2>1. c \in Start => (Raw(c)' => Raw(c))
    BY <1>5 DEF Raw
  <2> QED BY <1>5, <1>7, <1>11, <1>12, <2>1, CalmOwes DEF Ground, Detacher, Sweeping, Taking
<1>14. ASSUME NEW s \in Start, s # c, Engaged(s), TabOf[s] = t
       PROVE  /\ rec.token = s /\ rec.confirms = 0 /\ v # None /\ v.token = s
              /\ call[s].pc = "intending" => teardowns[t] = c
  <2>1. EngagedAt(s)
    BY <1>14 DEF Ground, Strong, Records
  <2>2. cleanups[t] # None /\ cleanups[t].token = s /\ s # None
    BY <1>14, <2>1 DEF EngagedAt
  <2>3. rec.token = s
    BY <1>6, <2>2
  <2>4. rec.confirms = 0 /\ (call[s].pc = "intending" => teardowns[t] = c)
    BY <1>1, <1>14, <2>1, <2>3 DEF EngagedAt, Sweeping
  <2>5. rec.attach /\ ~rec.settled
    BY <1>2, <2>1, <2>3 DEF EngagedAt, Open
  <2> QED BY <1>3, <2>3, <2>4, <2>5
<1>15. Respects(c)
  <2> SUFFICES ASSUME NEW s \in Start, s # c, Engaged(s) PROVE RespectsAt(c, s)
    BY DEF Respects
  <2>1. EngagedAt(s) /\ TabOf[s] \in Tab
    BY DEF Ground, Strong, Records
  <2>2. \A u \in Tab : Open(call[c].plan[u], s) /\ Open(cleanups[u], s)
    BY <2>1 DEF EngagedAt
  <2>3. \A u \in Tab : Open(cleanups'[u], s)
    BY <1>2, <1>3, <1>4, <2>2 DEF Open
  <2>4. cleanups'[TabOf[s]] # None /\ cleanups'[TabOf[s]].token = s
    BY <1>4, <1>14, <2>1 DEF EngagedAt
  <2> QED BY <1>5, <2>2, <2>3, <2>4 DEF RespectsAt, Sweeping
<1>16. ASSUME NEW s \in Start, s # c, call[s].pc = "intending", SeenOnce(s)'
       PROVE  SeenOnce(s) \/ Follows(c, s)'
  <2>1. TabOf[s] \in Tab /\ Engaged(s)
    BY <1>16 DEF Engaged
  <2>2. ASSUME NEW d \in Caller, Seen(call'[d].plan[TabOf[s]], s) PROVE SeenOnce(s)
    BY <1>5, <2>2 DEF SeenOnce
  <2>3. CASE Seen(cleanups'[TabOf[s]], s) /\ TabOf[s] # t
    BY <1>4, <2>1, <2>3 DEF SeenOnce
  <2>4. CASE TabOf[s] = t
    <3>1. v # None /\ teardowns[t] = c
      BY <1>14, <1>16, <2>1, <2>4
    <3>2. Persist(c) /\ ~Answered(c)'
      BY <1>6, <3>1
    <3>3. ~Answered(s)
      BY <1>16, IntentWaits
    <3>4. PICK i \in DOMAIN writes : writes[i].by = s
      BY <1>16, <3>3, Zenon DEF Ground, Strong, Intends, IntendsAt, Answered
    <3>5. PICK n \in Nat : /\ DOMAIN writes = 1..n /\ DOMAIN writes' = 1..(n + 1)
                           /\ \A k \in 1..n : writes'[k] = writes[k]
                           /\ writes'[n + 1].by = c
      BY <3>2, Chained DEF Ground, Base, LeaseInv
    <3>6. i \in DOMAIN writes' /\ n + 1 \in DOMAIN writes' /\ i < n + 1
          /\ writes'[i].by = s /\ writes'[n + 1].by = c
      BY <3>4, <3>5
    <3>7. \E k, j \in DOMAIN writes' : k < j /\ writes'[k].by = s /\ writes'[j].by = c
      BY <3>6
    <3>8. teardowns'[TabOf[s]] = c /\ call'[c].pc = "swept"
      BY <1>1, <1>5, <2>4, <3>1
    <3> QED BY <3>2, <3>7, <3>8, Zenon DEF Follows, Answered
  <2> QED BY <1>16, <2>2, <2>3, <2>4 DEF SeenOnce
<1>17. \A s \in Start : Raw(s) => \A u \in Tab : Foreign(cleanups'[u], s) /\ Foreign(call'[c].plan[u], s)
  <2>1. \A s \in Start : Raw(s) => \A u \in Tab : Foreign(cleanups[u], s) /\ Foreign(call[c].plan[u], s)
    BY DEF Ground, Strong, Unknowns
  <2>2. \A s \in Start : Raw(s) => Foreign(v, s)
    BY <1>2, <1>3, <2>1 DEF Foreign
  <2> QED BY <1>4, <1>5, <2>1, <2>2
<1>18. v = None => ~Debugged(t)
  <2> SUFFICES ASSUME v = None, Debugged(t) PROVE FALSE
    OBVIOUS
  <2>1. t \notin attached /\ detaches[t] = None /\ SightsAt(c)
    BY <1>1, <1>3 DEF Ground, Strong, Sights, Detacher, Sweeping
  <2>2. Attaches(t) /\ ~AttachBy(t, None)
    BY <1>1, <2>1 DEF SightsAt, Debugged, Sweeping
  <2>3. PICK s \in Start : AttachBy(t, s)
    BY <1>2, <2>2 DEF Attaches, AttachBy, Ground, Strong, Chromes, Queue
  <2>6. s # c
    BY <1>2, <1>12, <2>3
  <2>7. OwnersAt(s)
    BY DEF Ground, Strong, Owners
  <2>8. TabOf[s] = t
    BY <1>2, <2>3, <2>7, Zenon DEF OwnersAt
  <2>4. s # c /\ TabOf[s] = t
    BY <2>6, <2>8
  <2>5. Engaged(s)
    BY <2>3, <2>4 DEF Engaged
  <2> QED BY <1>14, <2>4, <2>5
<1>19. Leaves(c)
  <2>1. \A u \in Tab : Debugged(u) /\ cleanups[u] # None => cleanups'[u] # None
    BY <1>4, <1>18
  <2>2. Placed(lease)' /\ lease' = lease
    BY <1>1 DEF Ground, Strong, Places, Placed
  <2> QED BY <1>15, <1>16, <1>17, <2>1, <2>2 DEF Leaves, Leased
<1>20. (writes' # writes => Loaded') \/ Stored'
  <2>1. Loaded => Loaded'
    BY <1>5, <1>9, Callers DEF Loaded, Awake
  <2>2. CASE Loaded \/ writes' = writes
    BY <2>1, <2>2
  <2>3. CASE ~Loaded /\ writes' # writes
    <3>1. c = Alarm
      BY <1>8, <2>3, FitLoaded DEF Ground, Strong
    <3>2. call[Boot].pc = "dropping"
      BY <1>1, <2>3, <3>1 DEF Ground, Strong, Rests, Loaded, Asleep, Viewing
    <3>3. call[Boot].tab = t /\ Persist(c)
      BY <1>6, <2>3, <3>2
    <3>4. lease = None /\ \A u \in Tab : ~Attaches(u) /\ (Debugged(u) => cleanups[u] # None \/ u = t)
      BY <3>2, <3>3 DEF Ground, Strong, Memory, Viewing
    <3>5. PICK n \in Nat : /\ DOMAIN writes = 1..n /\ DOMAIN writes' = 1..(n + 1)
                           /\ \A k \in 1..n : writes'[k] = writes[k]
                           /\ writes'[n + 1].snap.lease = lease' /\ writes'[n + 1].snap.cleanups = cleanups'
      BY <3>3, Chained DEF Ground, Base, LeaseInv
    <3>6. \A u \in Tab : (Debugged(u)' <=> Debugged(u)) /\ ~Attaches(u)'
      BY <1>1, <1>7, <3>4 DEF SameAttaches, Debugged
    <3>7. \A u \in Tab : Debugged(u) => cleanups'[u] # None
      BY <1>4, <1>18, <3>4
    <3>8. StoredAt(saved)'
      BY <1>1, <3>6 DEF Ground, Strong, Stored, StoredAt
    <3>9. \A k \in DOMAIN writes' : StoredAt(writes[k].snap)'
      <4> SUFFICES ASSUME NEW k \in 1..(n + 1), NEW u \in Tab, Debugged(u)'
                   PROVE  Finds(writes'[k].snap, u)
        BY <3>5, <3>6 DEF StoredAt
      <4>1. CASE k \in 1..n
        BY <3>5, <3>6, <4>1 DEF Ground, Strong, Stored, StoredAt
      <4>2. CASE k \notin 1..n
        <5>1. k = n + 1
          BY <4>2
        <5> QED BY <3>5, <3>6, <3>7, <5>1 DEF Finds
      <4> QED BY <4>1, <4>2
    <3> QED BY <3>8, <3>9 DEF Stored
  <2> QED BY <2>2, <2>3
<1> QED BY <1>7, <1>9, <1>10, <1>13, <1>19, <1>20, TurnCovers DEF Ground

------------------------------------------------------------------------------
(* Starts.                                                                  *)

\* A start is at work: the memory is filled, and it is none of the others.
LEMMA Working ==
  ASSUME NEW s \in Start, Ground(s), call[s].pc \notin AtRest \cup {"done", "uninitialized"},
         call[s].pc \in Waiting => Answered(s)
  PROVE  /\ s \in Caller /\ s \notin {Boot, Alarm} \cup Tab /\ s # None
         /\ Fit(s) /\ Loaded /\ Awake(s) /\ TabOf[s] \in Tab
<1>1. s \in Caller /\ s \notin {Boot, Alarm} \cup Tab /\ s # None
  BY DEF Caller
<1>2. Fit(s)
  BY <1>1, FitWithin
<1>3. Loaded
  BY <1>1, <1>2, FitLoaded DEF Ground, Strong
<1> QED BY <1>1, <1>2, <1>3 DEF Awake

\* The record of an attach that nobody saw settle, or that has.
LEMMA UnknownIs ==
  ASSUME NEW s \in Start, NEW settled \in BOOLEAN
  PROVE  /\ Unknown(s, settled) # None /\ Unknown(s, settled).token = s
         /\ Unknown(s, settled).attach /\ Unknown(s, settled).confirms = 0
         /\ Unknown(s, settled).settled = settled
<1>1. Unknown(s, settled) # None
  BY NoneApart, NothingTypes
<1> QED BY <1>1 DEF Unknown

\* markUnknownAttachCleanup leaves the records of the others, if it overwrites none.
LEMMA MarkLeaves ==
  ASSUME NEW s \in Start, Ground(s), NEW settled \in BOOLEAN, MarkUnknown(s, settled), forgotten' = {},
         lease' = lease, Moves(s), call'[s].pc \notin Sweeping, ~Raw(s)',
         \A u \in Tab : call'[s].plan[u] = None
  PROVE  Leaves(s)
<1> DEFINE t == TabOf[s]
           k == Unknown(s, settled)
<1>1. s \in Caller /\ t \in Tab /\ s # None
  BY DEF Caller
<1>2. \A u \in Tab : cleanups'[u] = IF u = t THEN k ELSE cleanups[u]
  BY <1>1 DEF MarkUnknown, Ground, Base, LeaseInv, CoreTypes, MemTypes
<1>3. cleanups[t] = None \/ cleanups[t].token \in {None, s}
  BY DEF MarkUnknown, Robbed
<1>4. k # None /\ k.token = s
  BY UnknownIs
<1> HIDE DEF k
<1>5. ASSUME NEW x \in Start, x # s, Engaged(x)
      PROVE  TabOf[x] # t /\ RespectsAt(s, x)
  <2>1. EngagedAt(x) /\ TabOf[x] \in Tab /\ x # None
    BY <1>5 DEF Ground, Strong, Records
  <2>2. TabOf[x] # t
    BY <1>3, <1>5, <2>1 DEF EngagedAt
  <2>3. \A u \in Tab : Open(cleanups'[u], x) /\ Open(call'[s].plan[u], x)
    BY <1>2, <1>4, <1>5, <2>1 DEF EngagedAt, Open
  <2> QED BY <1>2, <2>1, <2>2, <2>3 DEF RespectsAt, EngagedAt
<1>6. ASSUME NEW x \in Start, x # s, call[x].pc = "intending", SeenOnce(x)'
      PROVE  SeenOnce(x)
  <2>1. TabOf[x] # t /\ TabOf[x] \in Tab
    BY <1>5, <1>6 DEF Engaged
  <2>2. CASE Seen(cleanups'[TabOf[x]], x)
    BY <1>2, <2>1, <2>2 DEF SeenOnce
  <2>3. ASSUME NEW d \in Caller, Seen(call'[d].plan[TabOf[x]], x) PROVE SeenOnce(x)
    <3>1. d # s
      BY <2>1, <2>3 DEF Seen
    <3> QED BY <2>3, <3>1 DEF SeenOnce, Moves
  <2> QED BY <1>6, <2>2, <2>3 DEF SeenOnce
<1>7. \A x \in Start : Raw(x) /\ Raw(x)' =>
        \A u \in Tab : Foreign(cleanups'[u], x) /\ Foreign(call'[s].plan[u], x)
  <2> SUFFICES ASSUME NEW x \in Start, Raw(x), Raw(x)', NEW u \in Tab
               PROVE  Foreign(cleanups'[u], x) /\ Foreign(call'[s].plan[u], x)
    OBVIOUS
  <2>1. x # s
    OBVIOUS
  <2>2. Foreign(cleanups[u], x)
    BY DEF Ground, Strong, Unknowns
  <2> QED BY <1>2, <1>4, <2>1, <2>2 DEF Foreign
<1>8. \A u \in Tab : cleanups[u] # None => cleanups'[u] # None
  BY <1>2, <1>4
<1>9. Placed(lease)'
  BY DEF Ground, Strong, Places, Placed
<1>10. Respects(s)
  BY <1>5 DEF Respects
<1> QED BY <1>6, <1>7, <1>8, <1>9, <1>10 DEF Leaves, Leased

\* A start whose attach is over records that it may not be.
LEMMA MarksCovers ==
  ASSUME NEW s \in Start, Ground(s), NEW settled \in BOOLEAN, MarkUnknown(s, settled), forgotten' = {},
         lease' = lease, Persist(s), NEW pc \in {"rejected", "settling", "uncommitted"}, Enter(s, Fresh(pc)),
         call[s].pc \notin AtRest \cup {"done", "uninitialized"}, call[s].pc \in Waiting => Answered(s),
         \A t \in Tab : ~AttachBy(t, s),
         UNCHANGED <<teardowns, detaches, ops, saved, attached, notice>>,
         \A u \in Tab : attaches'[u] = attaches[u] \/ attaches[u] \in {s, None}
  PROVE  Strong'
<1>1. s \in Caller /\ s \notin {Boot, Alarm} \cup Tab /\ Fit(s) /\ Loaded /\ Awake(s)
  BY Working
<1>2. call'[s] = Fresh(pc) /\ \A d \in Caller : d # s => call'[d] = call[d]
  BY <1>1, Entered DEF Ground, Base, LeaseInv
<1>3. call'[s].pc = pc /\ call'[s].back = "idle" /\ \A u \in Tab : call'[s].plan[u] = None
  BY <1>2, FreshPlan
<1>4. Moves(s)
  BY <1>2 DEF Moves, Ground
<1>5. SameAttaches /\ \A u \in Tab : Queue(u)'
  BY QueueStill DEF SameAttaches, Ground, Strong, Chromes
<1>6. RestsAt(s)
  BY <1>1, Stirring DEF Ground, Strong
<1>7. ~Raw(s)'
  BY <1>3 DEF Raw
<1>8. Owes(s)
  BY <1>1, <1>3, <1>5, <1>6, <1>7, CalmOwes DEF Ground, Detacher, Sweeping, Taking
<1>9. Leaves(s)
  BY <1>3, <1>4, <1>7, MarkLeaves DEF Sweeping
<1>10. Loaded'
  BY <1>1, <1>2, Callers DEF Loaded
<1> QED BY <1>1, <1>4, <1>5, <1>8, <1>9, <1>10, TurnCovers DEF Ground

\* An attach that Chrome is through with is on no queue.
LEMMA NotAttaching ==
  ASSUME SideTypes, Owners, NEW s \in Start, ~Attaching(s)
  PROVE  \A t \in Tab : ~AttachBy(t, s)
<1> SUFFICES ASSUME NEW t \in Tab, AttachBy(t, s) PROVE FALSE
  OBVIOUS
<1>1. TabOf[s] = t
  BY Zenon DEF Owners, OwnersAt
<1>2. PICK i \in DOMAIN ops[t] : ops[t][i].kind = "attach" /\ ops[t][i].by = s
  BY DEF AttachBy
<1>3. ops[t][i] \in Op
  BY OpsOf
<1>4. ops[t][i] = [kind |-> "attach", by |-> s]
  BY <1>2, <1>3 DEF Op
<1> QED BY <1>1, <1>2, <1>4 DEF Attaching

\* An attach settles, late or to no use.
LEMMA StartSettlesCovers ==
  ASSUME NEW s \in Start, Ground(s), StartSettles(s), Orderly'
  PROVE  Strong'
<1>1. /\ call[s].pc \in {"attaching", "rejected", "late"} /\ Answered(s)
      /\ UNCHANGED <<lease, teardowns, detaches, ops, saved, attached, notice>>
  BY Zenon DEF StartSettles, Answered, chrome
<1>2. \A t \in Tab : ~AttachBy(t, s)
  <2>1. CASE call[s].pc = "late"
    <3>1. ~Attaching(s)
      BY <2>1 DEF StartSettles
    <3> QED BY <3>1, NotAttaching DEF Ground, Base, Strong
  <2>2. CASE call[s].pc # "late"
    BY <1>1, <2>2, Unattached DEF Ground, Strong
  <2> QED BY <2>1, <2>2
<1>3. s \in Caller /\ s \notin {Boot, Alarm} \cup Tab /\ Fit(s) /\ Loaded /\ Awake(s) /\ TabOf[s] \in Tab
  BY <1>1, Working DEF AtRest
<1>4. CASE attaches[TabOf[s]] \notin {None, s}
  <2>1. Enter(s, Fresh("refused")) /\ UNCHANGED <<cleanups, attaches, writes>>
    BY <1>4 DEF StartSettles, Refuse
  <2>2. call'[s] = Fresh("refused") /\ \A d \in Caller : d # s => call'[d] = call[d]
    BY <1>3, <2>1, Entered DEF Ground, Base, LeaseInv
  <2>3. call'[s].pc = "refused" /\ call'[s].back = "idle" /\ \A u \in Tab : call'[s].plan[u] = None
    BY <2>2, FreshPlan
  <2>4. Moves(s)
    BY <1>1, <2>1, <2>2, <1>3, Stays DEF Ground
  <2>5. RestsAt(s)
    BY <1>3, <2>1, FitRests DEF Ground, Strong
  <2>6. ~Raw(s)'
    BY <2>3 DEF Raw
  <2> QED BY <1>1, <1>2, <1>3, <2>1, <2>3, <2>4, <2>5, <2>6, CalmKeeps DEF Detacher, Sweeping, Taking
<1>5. CASE attaches[TabOf[s]] \in {None, s}
  <2>1. /\ attaches' = [attaches EXCEPT ![TabOf[s]] = None] /\ MarkUnknown(s, TRUE)
        /\ Persist(s) /\ Enter(s, Fresh("settling"))
    BY <1>5 DEF StartSettles
  <2>2. \A u \in Tab : attaches'[u] = attaches[u] \/ attaches[u] \in {s, None}
    BY <1>5, <2>1 DEF Ground, Base, SideTypes, HandTypes
  <2>3. forgotten' = {} /\ TRUE \in BOOLEAN
    BY DEF Orderly
  <2> QED BY <1>1, <1>2, <2>1, <2>2, <2>3, MarksCovers DEF AtRest
<1> QED BY <1>4, <1>5

\* The write of a commit is answered.
LEMMA StartCommitsCovers ==
  ASSUME NEW s \in Start, Ground(s), StartCommits(s), Orderly'
  PROVE  Strong'
<1>1. /\ call[s].pc = "committing" /\ Answered(s) /\ lease' = lease
      /\ UNCHANGED <<teardowns, attaches, detaches, ops, saved, attached, notice>>
  BY DEF StartCommits, chrome
<1>2. CASE call[s].reply = "bad" /\ call[s].by = s
  <2>1. MarkUnknown(s, FALSE) /\ Persist(s) /\ Enter(s, Fresh("uncommitted"))
    BY <1>2 DEF StartCommits
  <2>2. \A t \in Tab : ~AttachBy(t, s)
    BY <1>1, Unattached DEF Ground, Strong
  <2>3. forgotten' = {} /\ FALSE \in BOOLEAN
    BY DEF Orderly
  <2> QED BY <1>1, <2>1, <2>2, <2>3, MarksCovers DEF AtRest
<1>3. CASE ~(call[s].reply = "bad" /\ call[s].by = s)
  <2>1. UNCHANGED <<cleanups, writes>>
    BY <1>3 DEF StartCommits
  <2>2. PICK pc \in {"granted", "refused"} : Enter(s, Fresh(pc))
    BY <1>3, Zenon DEF StartCommits
  <2>3. Ways(s, Fresh(pc))
    BY <1>1, FreshPlan DEF Ways, Detacher, Sweeping, Taking, Asleep, Viewing
  <2> QED BY <1>1, <2>1, <2>2, <2>3, StartGoesCovers
<1> QED BY <1>2, <1>3

\* While a start is on its way to a lease no other one is.
LEMMA OnTheWay ==
  ASSUME NEW s \in Start, Ground(s), call[s].pc \in {"replaced", "intending", "attaching"}
  PROVE  /\ EntersAt(s) /\ \A x \in Start : x # s => ~Engaged(x)
<1>1. s \in Caller /\ s # None
  BY DEF Caller
<1>2. EntersAt(s)
  BY <1>1 DEF Ground, Strong, Enters, Between
<1>3. ASSUME NEW x \in Start, x # s, Engaged(x) PROVE FALSE
  <2>1. x \in Caller /\ TabOf[x] \in Tab
    BY DEF Caller
  <2>2. CASE call[x].pc = "intending"
    BY <1>2, <1>3, <2>1, <2>2 DEF EntersAt, Between
  <2>3. CASE AttachBy(TabOf[x], x)
    <3>1. AttachBy(TabOf[x], s)
      BY <1>2, <2>1, <2>3, AttachedBy DEF EntersAt
    <3>2. PICK i \in DOMAIN ops[TabOf[x]] : ops[TabOf[x]][i].kind = "attach" /\ ops[TabOf[x]][i].by = x
      BY <2>3 DEF AttachBy
    <3>3. PICK j \in DOMAIN ops[TabOf[x]] : ops[TabOf[x]][j].kind = "attach" /\ ops[TabOf[x]][j].by = s
      BY <3>1 DEF AttachBy
    <3>4. i = j
      BY <2>1, <3>2, <3>3 DEF Ground, Strong, Chromes, Queue
    <3> QED BY <1>3, <3>2, <3>3, <3>4
  <2> QED BY <1>3, <2>2, <2>3 DEF Engaged
<1> QED BY <1>2, <1>3

\* An attach is rejected, or given up while Chrome may still run it.
LEMMA StartGivesUpCovers ==
  ASSUME NEW s \in Start, Ground(s), StartGivesUp(s), Orderly'
  PROVE  Strong'
<1>1. /\ call[s].pc = "attaching" /\ lease' = lease /\ MarkUnknown(s, FALSE) /\ Persist(s)
      /\ UNCHANGED <<teardowns, attaches, detaches, ops, saved, attached, notice>>
  BY DEF StartGivesUp, chrome
<1>2. forgotten' = {} /\ FALSE \in BOOLEAN
  BY DEF Orderly
<1>3. CASE Answered(s)
  <2>1. Enter(s, Fresh("rejected"))
    BY <1>3 DEF StartGivesUp
  <2>2. \A t \in Tab : ~AttachBy(t, s)
    BY <1>1, <1>3, Unattached DEF Ground, Strong
  <2> QED BY <1>1, <1>2, <1>3, <2>1, <2>2, MarksCovers DEF AtRest
<1>4. CASE ~Answered(s)
  <2>1. Enter(s, Fresh("late"))
    BY <1>4 DEF StartGivesUp
  <2>2. s \in Caller /\ s \notin {Boot, Alarm} \cup Tab /\ Fit(s) /\ Loaded /\ Awake(s) /\ TabOf[s] \in Tab
    BY <1>1, Working DEF AtRest, Waiting
  <2>3. call'[s] = Fresh("late") /\ \A d \in Caller : d # s => call'[d] = call[d]
    BY <2>1, <2>2, Entered DEF Ground, Base, LeaseInv
  <2>4. call'[s].pc = "late" /\ call'[s].back = "idle" /\ \A u \in Tab : call'[s].plan[u] = None
    BY <2>3, FreshPlan
  <2>5. Moves(s)
    BY <1>1, <2>3 DEF Moves, Ground, Waiting
  <2>6. SameAttaches /\ \A u \in Tab : Queue(u)'
    BY <1>1, QueueStill DEF SameAttaches, Ground, Strong, Chromes
  <2>7. RestsAt(s)
    BY <1>1, <2>2, Stirring DEF Ground, Strong, AtRest
  <2>8. ~Raw(s)' /\ ~Between(s)' /\ Prompt(s)'
    BY <2>2, <2>4 DEF Raw, Between, Prompt, Taking
  <2>9. Leaves(s)
    BY <1>1, <1>2, <2>4, <2>5, <2>8, MarkLeaves DEF Sweeping
  <2>10. OwnersAt(s)'
    <3>1. OwnersAt(s) /\ s # None
      BY DEF Ground, Strong, Owners
    <3>2. \A t \in Tab : AttachBy(t, s)' => TabOf[s] = t /\ attaches'[t] = s
      BY <1>1, <2>6, <3>1, Zenon DEF OwnersAt, SameAttaches
    <3> QED BY <2>4, <3>2, Zenon DEF OwnersAt
  <2>11. Engaged(s)' => EngagedAt(s)'
    <3> SUFFICES ASSUME Engaged(s)' PROVE EngagedAt(s)'
      OBVIOUS
    <3>1. AttachBy(TabOf[s], s)' /\ call'[s].pc # "intending"
      BY <2>4 DEF Engaged
    <3>2. AttachBy(TabOf[s], s)
      BY <2>2, <2>6, <3>1 DEF SameAttaches
    <3>3. EngagedAt(s)
      BY <3>2 DEF Ground, Strong, Records, Engaged
    <3> DEFINE k == Unknown(s, FALSE)
    <3>4. \A u \in Tab : cleanups'[u] = IF u = TabOf[s] THEN k ELSE cleanups[u]
      BY <1>1, <2>2 DEF MarkUnknown, Ground, Base, LeaseInv, CoreTypes, MemTypes
    <3>5. k # None /\ k.token = s /\ k.attach /\ ~k.settled
      BY <1>2, UnknownIs
    <3> HIDE DEF k
    <3>6. \A u \in Tab : Open(cleanups'[u], s)
      BY <3>3, <3>4, <3>5 DEF EngagedAt, Open
    <3>7. \A u \in Tab : \A c \in Caller : Open(call'[c].plan[u], s)
      BY <2>3, <2>4, <3>3 DEF EngagedAt, Open
    <3>8. \A c \in Caller : call'[c].pc \in Sweeping /\ call'[c].tab = TabOf[s] /\ call'[c].plan[TabOf[s]].token = s =>
            call'[c].plan[TabOf[s]].confirms = 0
      BY <2>3, <2>4, <3>3 DEF EngagedAt, Sweeping
    <3> QED BY <2>2, <3>1, <3>4, <3>5, <3>6, <3>7, <3>8 DEF EngagedAt
  <2>12. Owes(s)
    BY <2>4, <2>7, <2>8, <2>10, <2>11 DEF Owes, Detacher, Sweeping
  <2>13. Loaded'
    BY <2>2, <2>3, Callers DEF Loaded
  <2> QED BY <2>2, <2>5, <2>6, <2>9, <2>12, <2>13, TurnCovers DEF Ground
<1> QED BY <1>3, <1>4

\* A start that is about to attach takes its intent back.
LEMMA StartWithdrawsCovers ==
  ASSUME NEW s \in Start, Ground(s), StartWithdraws(s)
  PROVE  Strong'
<1>1. /\ call[s].pc = "intending" /\ Answered(s) /\ lease' = lease /\ Persist(None) /\ Enter(s, Fresh("refused"))
      /\ UNCHANGED <<teardowns, attaches, detaches, ops, saved, attached, notice>>
  BY DEF StartWithdraws, chrome, Refuse
<1>2. PICK k \in {None, cleanups[TabOf[s]]} : cleanups' = [cleanups EXCEPT ![TabOf[s]] = k]
  BY DEF StartWithdraws
<1>3. s \in Caller /\ s \notin {Boot, Alarm} \cup Tab /\ Fit(s) /\ Loaded /\ Awake(s) /\ TabOf[s] \in Tab
  BY <1>1, Working DEF AtRest
<1>4. \A u \in Tab : cleanups'[u] \in {None, cleanups[u]}
  BY <1>2, <1>3 DEF Ground, Base, LeaseInv, CoreTypes, MemTypes
<1>5. EntersAt(s) /\ \A x \in Start : x # s => ~Engaged(x)
  BY <1>1, OnTheWay
<1>6. call'[s] = Fresh("refused") /\ \A d \in Caller : d # s => call'[d] = call[d]
  BY <1>1, <1>3, Entered DEF Ground, Base, LeaseInv
<1>7. call'[s].pc = "refused" /\ call'[s].back = "idle" /\ \A u \in Tab : call'[s].plan[u] = None
  BY <1>6, FreshPlan
<1>8. Moves(s)
  BY <1>1, <1>6 DEF Moves, Ground
<1>9. SameAttaches /\ \A u \in Tab : Queue(u)'
  BY <1>1, QueueStill DEF SameAttaches, Ground, Strong, Chromes
<1>10. RestsAt(s)
  BY <1>1, <1>3, Stirring DEF Ground, Strong, AtRest
<1>11. Owes(s)
  <2>1. \A t \in Tab : ~AttachBy(t, s)
    BY <1>1, Unattached DEF Ground, Strong
  <2>2. ~Raw(s)'
    BY <1>7 DEF Raw
  <2> QED BY <1>3, <1>7, <1>9, <1>10, <2>1, <2>2, CalmOwes DEF Ground, Detacher, Sweeping, Taking
<1>12. Leaves(s)
  <2>1. \A t \in Tab : ~Debugged(t)
    BY <1>1, <1>5 DEF EntersAt
  <2> QED BY <1>1, <1>3, <1>4, <1>5, <1>7, <2>1, LeavesFree
<1>13. Loaded'
  BY <1>3, <1>6, Callers DEF Loaded
<1> QED BY <1>3, <1>8, <1>9, <1>11, <1>12, <1>13, TurnCovers DEF Ground

\* The attach has settled and nothing has changed: the lease begins.
LEMMA StartLeasesCovers ==
  ASSUME NEW s \in Start, Ground(s), StartLeases(s)
  PROVE  Strong'
<1>1. /\ call[s].pc = "attaching" /\ Answered(s)
      /\ attaches' = [attaches EXCEPT ![TabOf[s]] = IF @ = s THEN None ELSE @]
      /\ UNCHANGED <<cleanups, teardowns, detaches, ops, saved, writes, attached, notice>>
  BY Zenon DEF StartLeases, Answered, store, chrome
<1>2. lease'.tab = TabOf[s] /\ lease'.by = s
  BY DEF StartLeases
<1> DEFINE r == [Fresh("initializing") EXCEPT !.by = s, !.epoch = epoch']
<1>3. r.pc = "initializing" /\ r.back = "idle" /\ r.plan = NoCleanup /\ r.by = s
  BY DEF Fresh
<1>4. Enter(s, r)
  BY DEF StartLeases
<1> HIDE DEF r
<1>5. s \in Caller /\ s \notin {Boot, Alarm} \cup Tab /\ Fit(s) /\ Loaded /\ Awake(s) /\ TabOf[s] \in Tab
  BY <1>1, Working DEF AtRest
<1>6. call'[s] = r /\ \A d \in Caller : d # s => call'[d] = call[d]
  BY <1>4, <1>5, Entered DEF Ground, Base, LeaseInv
<1>7. EntersAt(s) /\ \A x \in Start : x # s => ~Engaged(x)
  BY <1>1, OnTheWay
<1>8. \A t \in Tab : ~Attaches(t)
  <2>1. \A t \in Tab : ~AttachBy(t, s)
    BY <1>1, Unattached DEF Ground, Strong
  <2> QED BY <1>7, <2>1 DEF EntersAt
<1>9. \A d \in Caller : ~Between(d)'
  BY <1>3, <1>6, <1>7 DEF EntersAt, Between, Taking
<1>10. Moves(s)
  <2>1. \A u \in Tab : attaches'[u] = attaches[u] \/ attaches[u] = s
    BY <1>1 DEF Ground, Base, SideTypes, HandTypes
  <2> QED BY <1>1, <1>6, <1>9, <2>1 DEF Moves, Ground
<1>11. SameAttaches /\ \A u \in Tab : Queue(u)'
  BY <1>1, QueueStill DEF SameAttaches, Ground, Strong, Chromes
<1>12. RestsAt(s)
  BY <1>1, <1>3, <1>5, <1>6, FitRests DEF Ground, Strong
<1>13. Owes(s)
  <2>1. OwnersAt(s)' /\ ~Engaged(s)'
    <3>1. \A t \in Tab : ~AttachBy(t, s)'
      BY <1>8, <1>11, AttachedBy DEF SameAttaches
    <3> QED BY <1>3, <1>6, <3>1, OwnsNone DEF Engaged
  <2>2. ~Raw(s)' /\ Prompt(s)' /\ call'[s].pc \notin Detacher \cup {"intending"} /\ ~Between(s)'
    BY <1>3, <1>6, <1>9, <1>5 DEF Raw, Prompt, Detacher, Sweeping
  <2> QED BY <1>3, <1>6, <1>12, <2>1, <2>2 DEF Owes
<1>14. Leaves(s)
  <2>1. Respects(s)
    BY <1>7 DEF Respects
  <2>2. \A x \in Start : x # s => call[x].pc # "intending"
    BY <1>7 DEF Engaged
  <2>3. \A x \in Start : Raw(x) => \A u \in Tab : Foreign(cleanups'[u], x) /\ Foreign(call'[s].plan[u], x)
    BY <1>1, <1>3, <1>6 DEF Ground, Strong, Unknowns, Foreign, NoCleanup
  <2>4. Placed(lease)'
    BY <1>2 DEF Placed
  <2>5. lease = None
    BY <1>7 DEF EntersAt
  <2> QED BY <1>1, <1>5, <1>8, <2>1, <2>2, <2>3, <2>4, <2>5 DEF Leaves, Leased
<1> QED BY <1>1, <1>5, <1>10, <1>11, <1>13, <1>14, TurnCovers DEF Ground

\* The record of the intent goes, under the lease of the start.
LEMMA StartReadyCovers ==
  ASSUME NEW s \in Start, Ground(s), StartReady(s), Orderly'
  PROVE  Strong'
<1>1. /\ call[s].pc = "initializing" /\ lease' = lease /\ Persist(s) /\ Await(s, "committing") /\ Holds(s)
      /\ cleanups' = [cleanups EXCEPT ![TabOf[s]] = None]
      /\ UNCHANGED <<teardowns, attaches, detaches, ops, saved, attached, notice>>
  BY DEF StartReady, Orderly, chrome
<1>2. s \in Caller /\ s \notin {Boot, Alarm} \cup Tab /\ Fit(s) /\ Loaded /\ Awake(s) /\ TabOf[s] \in Tab
  BY <1>1, Working DEF AtRest, Waiting
<1>3. lease # None /\ lease.tab = TabOf[s]
  BY <1>1 DEF Holds, Ground, Strong, Places, Placed
<1>4. \A x \in Start : ~Engaged(x)
  BY <1>3, UnderLease DEF Ground
<1>5. CoreTypes /\ "committing" \in Pc
  BY DEF Ground, Base, LeaseInv, Pc
<1>6. PICK r : /\ Enter(s, r) /\ call'[s] = r /\ r.pc = "committing"
               /\ r.plan = call[s].plan /\ r.tab = call[s].tab /\ r.back = call[s].back
  BY <1>1, <1>2, <1>5, GoneOn
<1>7. \A d \in Caller : d # s => call'[d] = call[d]
  BY <1>2, <1>5, <1>6, Entered
<1>8. \A u \in Tab : cleanups'[u] = IF u = TabOf[s] THEN None ELSE cleanups[u]
  BY <1>1 DEF Ground, Base, LeaseInv, CoreTypes, MemTypes
<1>9. Moves(s)
  BY <1>1, <1>7 DEF Moves, Ground, Waiting
<1>10. SameAttaches /\ \A u \in Tab : Queue(u)'
  BY <1>1, QueueStill DEF SameAttaches, Ground, Strong, Chromes
<1>11. RestsAt(s)
  BY <1>1, <1>2, Stirring DEF Ground, Strong, AtRest
<1>12. Owes(s)
  <2>1. \A t \in Tab : ~AttachBy(t, s)
    BY <1>1, Unattached DEF Ground, Strong
  <2>2. Raw(s)' => Raw(s)
    BY <1>6 DEF Raw
  <2> QED BY <1>2, <1>6, <1>10, <1>11, <2>1, <2>2, CalmOwes DEF Ground, Detacher, Sweeping, Taking
<1>13. Leaves(s)
  BY <1>1, <1>2, <1>3, <1>4, <1>6, <1>8, LeavesFree DEF Leased
<1>14. Loaded'
  BY <1>2, <1>7, Callers DEF Loaded
<1> QED BY <1>2, <1>9, <1>10, <1>12, <1>13, <1>14, TurnCovers DEF Ground

\* Who is quietly about to begin an attach finds nobody on the way to one, and
\* no tab that is debugged.
LEMMA BeginsAlone ==
  ASSUME NEW s \in Start, Ground(s), call[s].pc = "replaced" \/ (call[s].pc = "open" /\ lease = None), Quiet
  PROVE  /\ lease = None /\ (\A d \in Caller : Between(d) => d = s)
         /\ (\A t \in Tab : ~Debugged(t)) /\ \A x \in Start : ~Engaged(x)
<1>1. s \in Caller /\ Loaded
  BY Working DEF AtRest, Waiting
<1>2. cleanups = NoCleanup /\ teardowns = Free
  BY DEF Quiet
<1>3. lease = None
  BY <1>1, OnTheWay DEF EntersAt
<1>4. \A t \in Tab : ~Debugged(t)
  BY <1>1, <1>2, <1>3 DEF Ground, Strong, Memory, Leased, NoCleanup
<1>5. \A x \in Start : ~Engaged(x)
  BY <1>2 DEF Ground, Strong, Records, EngagedAt, NoCleanup
<1>6. ASSUME NEW d \in Caller, Between(d), d # s PROVE FALSE
  <2>1. CASE call[s].pc = "replaced"
    BY <1>1, <1>6, <2>1, OnTheWay DEF EntersAt
  <2>2. CASE call[s].pc = "open"
    <3>1. ~Ready(s)
      BY <2>2, Zenon DEF Ready
    <3>2. ~Ready(d)
      BY <3>1 DEF Ground, NoneReady
    <3>3. CASE call[d].pc \in Taking
      BY <1>2, <1>6, <3>3 DEF Ground, Strong, Enters, EntersAt, Free, Caller
    <3>4. CASE d \in Start /\ call[d].pc = "replaced"
      BY <3>2, <3>4 DEF Ready
    <3>5. CASE d \in Start /\ call[d].pc = "intending"
      BY <1>5, <3>5 DEF Engaged
    <3>6. CASE d \in Start /\ call[d].pc = "attaching"
      <4>1. ~Answered(d)
        BY <3>2, <3>6 DEF Ready
      <4>2. AttachBy(TabOf[d], d)
        BY <3>6, <4>1, Zenon DEF Ground, Strong, Owners, OwnersAt, Answered
      <4> QED BY <1>5, <3>6, <4>2 DEF Engaged
    <3> QED BY <1>6, <3>3, <3>4, <3>5, <3>6 DEF Between
  <2> QED BY <2>1, <2>2
<1> QED BY <1>3, <1>4, <1>5, <1>6

\* The intent to attach is recorded.
LEMMA StartIntendsCovers ==
  ASSUME NEW s \in Start, Ground(s), StartIntends(s)
  PROVE  Strong'
<1>1. /\ call[s].pc = "replaced" \/ (call[s].pc = "open" /\ lease = None)
      /\ Quiet /\ lease' = lease
      /\ UNCHANGED <<teardowns, attaches, detaches, ops, saved, attached, notice>>
  BY DEF StartIntends, chrome
<1>2. CASE Enter(s, Fresh("refused")) /\ UNCHANGED <<cleanups, writes>>
  <2>1. Ways(s, Fresh("refused"))
    BY <1>1, FreshPlan DEF Ways, Detacher, Sweeping, Taking, Asleep, Viewing
  <2> QED BY <1>1, <1>2, <2>1, StartGoesCovers DEF Waiting
<1> DEFINE r == [Fresh("intending") EXCEPT !.prior = revocation, !.owner = call[s].owner]
           t == TabOf[s]
           k == Unknown(s, FALSE)
<1>3. CASE Enter(s, r) /\ Persist(s) /\ cleanups' = [cleanups EXCEPT ![t] = k]
  <2>1. r.pc = "intending" /\ r.back = "idle" /\ r.plan = NoCleanup
    BY DEF Fresh
  <2>2. r.reply = ""
    BY Zenon DEF Fresh
  <2> HIDE DEF r
  <2>3. s \in Caller /\ s \notin {Boot, Alarm} \cup Tab /\ s # None /\ Fit(s) /\ Loaded /\ Awake(s) /\ t \in Tab
    BY <1>1, Working DEF AtRest, Waiting
  <2>4. call'[s] = r /\ \A d \in Caller : d # s => call'[d] = call[d]
    BY <1>3, <2>3, Entered DEF Ground, Base, LeaseInv
  <2>5. \A u \in Tab : cleanups'[u] = IF u = t THEN k ELSE cleanups[u]
    BY <1>3 DEF Ground, Base, LeaseInv, CoreTypes, MemTypes
  <2>6. k # None /\ k.token = s /\ k.attach /\ ~k.settled /\ k.confirms = 0
    BY UnknownIs
  <2> HIDE DEF k
  <2>7. /\ lease = None /\ (\A d \in Caller : Between(d) => d = s)
        /\ (\A u \in Tab : ~Debugged(u)) /\ \A x \in Start : ~Engaged(x)
    BY <1>1, BeginsAlone
  <2>8. Moves(s)
    BY <1>1, <1>3, <2>4 DEF Moves, Ground, Waiting
  <2>9. SameAttaches /\ \A u \in Tab : Queue(u)'
    BY <1>1, QueueStill DEF SameAttaches, Ground, Strong, Chromes
  <2>10. RestsAt(s)
    BY <1>1, <2>3, Stirring DEF Ground, Strong, AtRest
  <2>11. \A u \in Tab : ~Attaches(u) /\ ~Attaches(u)' /\ ~Debugged(u)'
    BY <1>1, <2>7, <2>9 DEF Debugged, SameAttaches
  <2>12. \A u \in Tab : \A c \in Caller : Foreign(call[c].plan[u], s) /\ Foreign(call'[c].plan[u], s)
    BY <1>1, <2>1, <2>4 DEF Ground, Strong, Unknowns, Raw, Foreign, NoCleanup
  <2>13. EntersAt(s)'
    BY <1>1, <2>1, <2>4, <2>7, <2>11 DEF EntersAt, Between, Taking
  <2>14. EngagedAt(s)'
    <3>1. \A u \in Tab : Open(cleanups'[u], s)
      BY <1>1, <2>5, <2>6 DEF Open, Quiet, NoCleanup
    <3>2. \A u \in Tab : \A c \in Caller : Open(call'[c].plan[u], s)
      BY <2>12 DEF Open, Foreign
    <3>3. ASSUME NEW c \in Caller, call'[c].pc \in Sweeping, call'[c].tab = t, call'[c].plan[t].token = s PROVE FALSE
      <4>1. c # s
        BY <2>1, <2>4, <3>3 DEF Sweeping
      <4>2. call'[c].plan[t] # None
        BY <2>4, <3>3, <4>1 DEF Ground, Base, LeaseInv, Posts
      <4> QED BY <2>3, <2>12, <3>3, <4>2 DEF Foreign
    <3> QED BY <2>3, <2>5, <2>6, <3>1, <3>2, <3>3 DEF EngagedAt
  <2>15. ~SeenOnce(s)'
    BY <2>3, <2>5, <2>6, <2>12 DEF SeenOnce, Seen, Foreign
  <2>16. IntendsAt(s)'
    <3>1. PICK n \in Nat : /\ DOMAIN writes = 1..n /\ DOMAIN writes' = 1..(n + 1)
                           /\ \A i \in 1..n : writes'[i] = writes[i]
                           /\ writes'[n + 1].by = s
                           /\ writes'[n + 1].snap.lease = lease' /\ writes'[n + 1].snap.cleanups = cleanups'
      BY <1>3, <2>3, Chained DEF Ground, Base, LeaseInv
    <3>2. n + 1 \in DOMAIN writes' /\ \A j \in DOMAIN writes' : j >= n + 1 => j = n + 1
      BY <3>1
    <3>3. Armed(writes'[n + 1].snap, t)
      BY <1>1, <2>3, <2>5, <2>6, <2>7, <3>1 DEF Armed
    <3>4. \E i \in DOMAIN writes' :
            /\ writes'[i].by = s
            /\ \A j \in DOMAIN writes' : j >= i => Armed(writes'[j].snap, t)
      BY <3>1, <3>2, <3>3
    <3>5. call'[s].reply = "" /\ "" # "ok"
      BY <2>2, <2>4, Zenon
    <3> QED BY <3>4, <3>5, Zenon DEF IntendsAt
  <2>17. Prompt(s)'
    BY <2>2, <2>4, Zenon DEF Prompt, Answered
  <2>18. OwnersAt(s)'
    <3>1. \A u \in Tab : ~AttachBy(u, s)'
      BY <2>9, <2>11, AttachedBy DEF SameAttaches
    <3> QED BY <2>1, <2>4, <3>1, OwnsNone
  <2>19. Owes(s)
    BY <2>1, <2>3, <2>4, <2>10, <2>13, <2>14, <2>15, <2>16, <2>17, <2>18 DEF Owes, Detacher, Sweeping, Raw
  <2>20. Leaves(s)
    <3>1. Respects(s)
      BY <2>7 DEF Respects
    <3>2. \A x \in Start : call[x].pc # "intending"
      BY <2>7 DEF Engaged
    <3>3. \A x \in Start : Raw(x) /\ Raw(x)' =>
            \A u \in Tab : Foreign(cleanups'[u], x) /\ Foreign(call'[s].plan[u], x)
      <4> SUFFICES ASSUME NEW x \in Start, Raw(x), Raw(x)', NEW u \in Tab
                   PROVE  Foreign(cleanups'[u], x) /\ Foreign(call'[s].plan[u], x)
        OBVIOUS
      <4>1. x # s
        BY <2>1, <2>4 DEF Raw
      <4>2. Foreign(cleanups[u], x)
        BY DEF Ground, Strong, Unknowns
      <4> QED BY <2>1, <2>4, <2>5, <2>6, <4>1, <4>2 DEF Foreign, NoCleanup
    <3>4. Placed(lease)'
      BY <1>1 DEF Ground, Strong, Places, Placed
    <3> QED BY <1>1, <2>7, <3>1, <3>2, <3>3, <3>4 DEF Leaves
  <2>21. Loaded'
    BY <2>3, <2>4, Callers DEF Loaded
  <2> QED BY <2>3, <2>8, <2>9, <2>19, <2>20, <2>21, TurnCovers DEF Ground
<1> HIDE DEF r, k
<1> QED BY <1>2, <1>3 DEF StartIntends, Refuse, r, k

\* The intent is stored, and the attach is with Chrome.
LEMMA StartAttachesCovers ==
  ASSUME NEW s \in Start, Ground(s), StartAttaches(s)
  PROVE  Strong'
<1> DEFINE t == TabOf[s]
           o == [kind |-> "attach", by |-> s]
           r == [Fresh("attaching") EXCEPT !.epoch = epoch, !.owner = call[s].owner]
<1>1. /\ call[s].pc = "intending" /\ Answered(s)
      /\ ops' = [ops EXCEPT ![t] = Append(@, o)]
      /\ attaches' = [attaches EXCEPT ![t] = s] /\ Enter(s, r)
      /\ UNCHANGED <<lease, cleanups, teardowns, detaches, saved, writes, attached, notice>>
  BY Zenon DEF StartAttaches, Answered, store
<1>2. r.pc = "attaching" /\ r.back = "idle" /\ r.plan = NoCleanup
  BY DEF Fresh
<1>3. r.reply = ""
  BY Zenon DEF Fresh
<1>4. o \in Op /\ o.kind = "attach" /\ o.by = s
  BY Callers DEF Op
<1> HIDE DEF r, o
<1>5. s \in Caller /\ s \notin {Boot, Alarm} \cup Tab /\ s # None /\ Fit(s) /\ Loaded /\ t \in Tab
  BY <1>1, Working DEF AtRest
<1>6. call'[s] = r /\ \A d \in Caller : d # s => call'[d] = call[d]
  BY <1>1, <1>5, Entered DEF Ground, Base, LeaseInv
<1>7. EntersAt(s) /\ (\A u \in Tab : ~Debugged(u)) /\ (\A u \in Tab : ~Attaches(u)) /\ \A x \in Start : x # s => ~Engaged(x)
  BY <1>1, OnTheWay DEF EntersAt, Debugged
<1>40. SideTypes
  BY DEF Ground, Base
<1>41. t \in Tab /\ o \in Op /\ ops' = [ops EXCEPT ![t] = Append(@, o)]
  BY <1>1, <1>4, <1>5
<1> DEFINE Grown(n, u, x) == /\ DOMAIN ops[u] = 1..n /\ DOMAIN ops'[u] = 1..(n + 1)
                             /\ ops'[u][n + 1] = x /\ \A i \in 1..n : ops'[u][i] = ops[u][i]
<1>42. \A u \in Tab, x \in Op : ops' = [ops EXCEPT ![u] = Append(@, x)] => \E n \in Nat : Grown(n, u, x)
  BY <1>40, Added
<1> HIDE DEF t, Grown
<1>43. \E n \in Nat : Grown(n, t, o)
  BY <1>41, <1>42, Zenon
<1> USE DEF Grown
<1>8. PICK n \in Nat : /\ DOMAIN ops[t] = 1..n /\ DOMAIN ops'[t] = 1..(n + 1)
                       /\ ops'[t][n + 1] = o /\ \A i \in 1..n : ops'[t][i] = ops[t][i]
  BY <1>43, Zenon
<1> USE DEF t
<1>9. \A i \in 1..(n + 1) : i = n + 1 \/ i \in 1..n
  OBVIOUS
<1>10. \A i \in 1..n : ops[t][i].kind # "attach"
  BY <1>5, <1>7, <1>8 DEF Attaches
<1>11. \A i \in 1..(n + 1) : ops'[t][i].kind = "attach" => i = n + 1
  BY <1>8, <1>9, <1>10
<1>12. \A u \in Tab : u # t => ops'[u] = ops[u]
  BY <1>1 DEF Ground, Base, SideTypes, ChromeTypes
<1>13. \A u \in Tab : (Attaches(u)' => u = t) /\ \A b : AttachBy(u, b)' => u = t /\ b = s
  BY <1>4, <1>7, <1>8, <1>11, <1>12 DEF Attaches, AttachBy
<1>14. AttachBy(t, s)'
  BY <1>4, <1>8 DEF AttachBy
<1>15. \A u \in Tab : Debugged(u)' => u = t
  BY <1>1, <1>7, <1>13 DEF Debugged
<1>16. \A d \in Caller : Between(d)' => d = s
  BY <1>6, <1>7 DEF EntersAt, Between
<1>17. \A x \in Start : x # s => call'[x] = call[x] /\ call[x].pc \notin {"intending", "attaching"}
  BY <1>6, <1>7, Callers DEF EntersAt, Between
<1>18. \A u \in Tab : call'[s].plan[u] = None
  BY <1>2, <1>6 DEF NoCleanup
<1>19. call'[s].pc = "attaching" /\ call'[s].back = "idle"
  BY <1>2, <1>6
<1>20. Loaded' /\ (Initialized' <=> Initialized)
  BY <1>5, <1>6, Callers DEF Loaded, Initialized
<1>21. EngagedAt(s)
  BY <1>1 DEF Ground, Strong, Records, Engaged
<1>22. Chromes'
  <2>1. Queue(t)'
    <3>1. Queue(t) /\ detaches'[t] = detaches[t]
      BY <1>1, <1>5 DEF Ground, Strong, Chromes
    <3>2. \A i \in 1..n : ops[t][i].kind = "detach" /\ ops[t][i].by # None =>
             /\ ops[t][i].by = detaches[t]
             /\ \A j \in 1..n : ops[t][j].kind = "detach" /\ ops[t][j].by # None => i = j
      BY <1>8, <3>1 DEF Queue
    <3> SUFFICES ASSUME NEW i \in 1..(n + 1), NEW j \in 1..(n + 1)
                 PROVE  /\ ops'[t][i].kind = "attach" =>
                             /\ ops'[t][i].by \in Start \cup {None}
                             /\ ops'[t][j].kind = "attach" => i = j
                        /\ ops'[t][i].kind = "detach" /\ ops'[t][i].by # None =>
                             /\ ops'[t][i].by = detaches'[t]
                             /\ ops'[t][j].kind = "detach" /\ ops'[t][j].by # None => i = j
                             /\ ops'[t][j].kind = "attach" /\ ops'[t][j].by = None => j < i
      BY <1>8 DEF Queue
    <3>3. CASE i \in 1..n
      BY <1>4, <1>5, <1>8, <1>9, <1>10, <3>1, <3>2, <3>3
    <3>4. CASE i = n + 1
      BY <1>4, <1>8, <1>11, <3>4
    <3> QED BY <1>9, <3>3, <3>4
  <2>2. \A u \in Tab : u # t => Queue(u)'
    BY <1>1, <1>12, QueueStill DEF Ground, Strong, Chromes
  <2>3. \A u \in Tab : Attaches(u)' => u \notin attached' /\ notice'[u] = "none" /\ lease' = None
    BY <1>1, <1>7 DEF Debugged, EntersAt
  <2> QED BY <1>1, <2>1, <2>2, <2>3 DEF Chromes, Ground, Strong
<1>23. Owners'
  <2>1. OwnersAt(s)'
    <3>1. attaches'[t] = s
      BY <1>1, <1>5 DEF Ground, Base, SideTypes, HandTypes
    <3>2. call'[s].reply = ""
      BY <1>3, <1>6, Zenon
    <3> QED BY <1>13, <1>14, <1>19, <3>1, <3>2, Zenon DEF OwnersAt
  <2>2. \A x \in Start : x # s => OwnersAt(x)'
    BY <1>13, <1>17, OwnsNone
  <2> QED BY <2>1, <2>2 DEF Owners
<1>24. Enters'
  <2>1. EntersAt(s)'
    BY <1>1, <1>5, <1>7, <1>13, <1>14, <1>16, <1>19 DEF EntersAt, Taking
  <2> QED BY <1>16, <2>1 DEF Enters
<1>25. Sole'
  <2>1. ~Answered(s)'
    BY <1>3, <1>6, Zenon DEF Answered
  <2> QED BY <1>17, <2>1 DEF Sole
<1>26. Intends' /\ Claims'
  <2>1. \A x \in Start : call'[x].pc # "intending"
    BY <1>17, <1>19
  <2> QED BY <2>1, Zenon DEF Intends, Claims
<1>27. Records'
  <2>1. \A x \in Start : Engaged(x)' => x = s
    BY <1>13, <1>17 DEF Engaged
  <2>2. EngagedAt(s)'
    <3>1. \A c \in Caller : c # s \/ call'[c].pc \notin Sweeping
      BY <1>19 DEF Sweeping
    <3>2. \A u \in Tab : \A c \in Caller : Open(call'[c].plan[u], s)
      BY <1>6, <1>18, <1>21 DEF EngagedAt, Open
    <3> QED BY <1>1, <1>6, <1>19, <1>21, <3>1, <3>2 DEF EngagedAt
  <2> QED BY <2>1, <2>2 DEF Records
<1>28. Unknowns'
  <2>1. \A x \in Start : Raw(x)' => x # s /\ Raw(x)
    BY <1>17, <1>19 DEF Raw
  <2>2. \A x \in Start : \A u \in Tab : Foreign(call'[s].plan[u], x)
    BY <1>18 DEF Foreign
  <2> QED BY <1>1, <1>6, <2>1, <2>2 DEF Ground, Strong, Unknowns
<1>29. Sights'
  <2> SUFFICES ASSUME NEW d \in Caller, call'[d].pc \in Detacher PROVE SightsAt(d)'
    BY DEF Sights
  <2>1. d # s
    BY <1>19 DEF Detacher, Sweeping
  <2>2. call'[d] = call[d] /\ SightsAt(d)
    BY <1>6, <2>1 DEF Ground, Strong, Sights
  <2> QED BY <1>1, <1>5, <1>13, <2>2 DEF SightsAt
<1>30. Rests'
  <2>1. Initialized /\ \A u \in Tab : call[u].pc # "uninitialized"
    BY <1>1 DEF Ground, Strong, Rests, AtRest
  <2>2. \A u \in Tab : call'[u].pc # "uninitialized"
    BY <1>5, <1>6, <2>1, Callers
  <2>3. call'[Boot].pc \notin Asleep \cup {"looking", "losing"}
    BY <1>20 DEF Loaded, Viewing
  <2> QED BY <1>20, <2>1, <2>2, <2>3 DEF Rests
<1>31. Places'
  <2>1. call'[Boot] = call[Boot]
    BY <1>5, <1>6, Callers
  <2> QED BY <1>1, <1>17, <1>19, <2>1 DEF Ground, Strong, Places
<1>32. Memory'
  BY <1>1, <1>15, <1>20, <1>21 DEF Memory, EngagedAt, Loaded
<1>33. Stored'
  <2>1. call[s].reply = "ok"
    BY Zenon DEF StartAttaches
  <2>2. Armed(saved, t) /\ \A j \in DOMAIN writes : Armed(writes[j].snap, t)
    BY <1>1, <2>1, Zenon DEF Ground, Strong, Intends, IntendsAt
  <2> QED BY <1>1, <1>13, <1>15, <2>2 DEF Stored, StoredAt, Armed, Finds
<1>34. Single'
  BY <1>15 DEF Single
<1> QED BY <1>22, <1>23, <1>24, <1>25, <1>26, <1>27, <1>28, <1>29, <1>30, <1>31, <1>32, <1>33, <1>34 DEF Strong

\* A start stops another lease, or its own.
LEMMA StartStopsCovers ==
  ASSUME NEW s \in Start, Ground(s), StartReplaces(s) \/ StartBreaks(s)
  PROVE  Strong'
<1>1. CASE StartReplaces(s)
  <2>1. PICK theirs \in BOOLEAN, back \in {"refused", "replaced"} : StopTakes(s, theirs, back)
    BY <1>1 DEF StartReplaces
  <2>2. call[s].pc = "open" /\ s \in Caller /\ s \notin {Boot, Alarm} \cup Tab
    BY <1>1 DEF StartReplaces, Caller
  <2>3. StopAt(s, back)
    BY <2>2 DEF StopAt, Over
  <2> QED BY <2>1, <2>2, <2>3, StopTakesCovers DEF Waiting, AtRest
<1>2. CASE StartBreaks(s)
  <2>1. PICK back \in {"refused", "undoing"} : StopFrom(s, TRUE, back)
    BY <1>2 DEF StartBreaks
  <2>2. call[s].pc \in {"initializing", "undoing"} \/ (call[s].pc = "uncommitted" /\ Answered(s))
    BY <1>2 DEF StartBreaks
  <2>3. s \in Caller /\ s \notin {Boot, Alarm} \cup Tab /\ Fit(s)
    BY <2>2, Working DEF AtRest, Waiting
  <2>4. PartAt(s, back)
    BY <2>3 DEF PartAt, Over
  <2> QED BY <2>1, <2>2, <2>3, <2>4, StopFromCovers DEF AtRest
<1> QED BY <1>1, <1>2

\* The steps of a start.
LEMMA StartStepCovers ==
  ASSUME NEW s \in Start, Ground(s), StartStep(s) \/ StartBreaks(s), Orderly'
  PROVE  Strong'
<1>1. CASE StartRefused(s) \/ StartBusy(s) \/ StartRenews(s)
  BY <1>1, StartRefusedCovers
<1>2. CASE StartReplaces(s) \/ StartBreaks(s)
  BY <1>2, StartStopsCovers
<1>3. CASE StartIntends(s) \/ StartAttaches(s) \/ StartWithdraws(s) \/ StartLeases(s)
  BY <1>3, StartIntendsCovers, StartAttachesCovers, StartWithdrawsCovers, StartLeasesCovers
<1>4. CASE StartGivesUp(s) \/ StartSettles(s) \/ StartSweeps(s) \/ StartReady(s) \/ StartCommits(s)
  BY <1>4, StartGivesUpCovers, StartSettlesCovers, StartSweepsCovers, StartReadyCovers, StartCommitsCovers
<1> QED BY <1>1, <1>2, <1>3, <1>4 DEF StartStep

------------------------------------------------------------------------------
(* The other calls.                                                         *)

\* The heartbeat and the initialization stop the lease when they fail.
LEMMA FailsCovers ==
  ASSUME NEW c \in {Beat, Boot}, Ground(c), (c = Beat /\ BeatFails) \/ (c = Boot /\ BootFails)
  PROVE  Strong'
<1>1. c \in Caller /\ c \notin {Alarm} \cup Start \cup Tab /\ Beat # Boot
  BY DEF Caller
<1>2. CASE c = Beat /\ BeatFails
  <2>1. StopFrom(Beat, TRUE, "idle") /\ (call[Beat].pc = "beating" \/ (call[Beat].pc = "beaten" /\ Answered(Beat)))
    BY <1>2 DEF BeatFails
  <2>2. Fit(Beat)
    BY <1>1, <1>2, <2>1, FitWithin DEF AtRest, Waiting
  <2>3. PartAt(Beat, "idle")
    BY <1>1, <1>2 DEF PartAt, Over
  <2> QED BY <1>1, <1>2, <2>1, <2>2, <2>3, StopFromCovers
<1>3. CASE c = Boot /\ BootFails
  <2>1. PICK back \in {"up", "failing"} : StopFrom(Boot, TRUE, back)
    BY <1>3 DEF BootFails
  <2>2. call[Boot].pc \in {"recovering", "failing"} \/ (call[Boot].pc = "recovered" /\ Answered(Boot))
    BY <1>3 DEF BootFails
  <2>3. Fit(Boot)
    BY <1>1, <1>3, <2>2, FitWithin DEF AtRest, Waiting, Asleep, Viewing
  <2>4. PartAt(Boot, back)
    BY <1>1, <1>3 DEF PartAt, Over
  <2> QED BY <1>1, <1>3, <2>1, <2>3, <2>4, StopFromCovers
<1> QED BY <1>2, <1>3

\* A stop comes from outside.
LEMMA ReleaseCovers ==
  ASSUME NEW c \in Stops, Ground(c), Release(c)
  PROVE  Strong'
<1>1. c \in Caller /\ c \notin {Boot, Alarm} \cup Start \cup Tab
  BY DEF Caller
<1>2. PICK back : back = Noting(c, "done")
  OBVIOUS
<1>3. StopFrom(c, TRUE, back) /\ call[c].pc = "idle"
  BY <1>2 DEF Release
<1>4. PartAt(c, back)
  BY <1>1, <1>2 DEF PartAt, Over, Noting
<1> QED BY <1>1, <1>3, <1>4, StopFromCovers

\* The listener waited for the initialization.
LEMMA HardInitializedCovers ==
  ASSUME NEW t \in Tab, Ground(t), HardInitialized(t)
  PROVE  Strong'
<1> DEFINE takes == lease # None /\ lease.tab = t
           other == lease # None /\ lease.tab # t
<1>1. t \in Caller /\ t \notin {Boot, Alarm} \cup Start
  BY DEF Caller
<1>2. PICK pc : pc = IF takes THEN "hard" ELSE IF other THEN "idle" ELSE Noting(t, "idle")
  OBVIOUS
<1> DEFINE r == [Fresh(pc) EXCEPT !.tab = t]
<1>3. /\ call[t].pc = "uninitialized" /\ Initialized
      /\ lease' = IF takes THEN None ELSE lease
      /\ Enter(t, r)
      /\ UNCHANGED <<cleanups, teardowns, attaches, detaches, ops, saved, writes, attached, notice>>
  BY <1>2 DEF HardInitialized, store, chrome
<1>4. pc \in {"hard", "idle", "noting"}
  BY <1>2 DEF Noting
<1>5. r.pc = pc /\ r.plan = NoCleanup
  BY DEF Fresh
<1> HIDE DEF r
<1>6. call'[t] = r /\ \A d \in Caller : d # t => call'[d] = call[d]
  BY <1>1, <1>3, Entered DEF Ground, Base, LeaseInv
<1>7. \A u \in Tab : call'[t].plan[u] = None
  BY <1>5, <1>6 DEF NoCleanup
<1>8. Moves(t)
  BY <1>3, <1>6 DEF Moves, Ground, Waiting
<1>9. SameAttaches /\ \A u \in Tab : Queue(u)'
  BY <1>3, QueueStill DEF SameAttaches, Ground, Strong, Chromes
<1>10. Awake(t) /\ Loaded
  BY <1>1, <1>3, UpLoaded DEF Awake
<1>11. RestsAt(t)
  BY <1>1, <1>4, <1>5, <1>6, <1>10, Stirring DEF Ground, Strong
<1>12. Owes(t)
  BY <1>1, <1>4, <1>5, <1>6, <1>9, <1>11, CalmOwes DEF Ground, Strong, Detacher, Sweeping, Taking
<1>13. ~Debugged(t)
  BY <1>3 DEF Ground, Strong, Rests
<1>14. Leaves(t)
  <2>1. CASE takes
    <3>1. \A s \in Start : ~Engaged(s)
      BY <2>1, UnderLease DEF Ground
    <3>2. \A u \in Tab : Debugged(u) /\ (cleanups[u] # None \/ Leased(u)) => cleanups'[u] # None
      BY <1>3, <1>13, <2>1 DEF Leased
    <3> QED BY <1>1, <1>3, <1>7, <1>10, <2>1, <3>1, <3>2, LeavesFree
  <2>2. CASE ~takes
    BY <1>1, <1>3, <1>4, <1>5, <1>6, <1>7, <1>8, <2>2, LeavesAlone DEF Sweeping
  <2> QED BY <2>1, <2>2
<1> QED BY <1>1, <1>3, <1>8, <1>9, <1>10, <1>12, <1>14, TurnCovers DEF Ground

\* The steps of a sweep.
LEMMA SweepStepCovers ==
  ASSUME NEW c \in Caller, Ground(c), SweepStep(c), Orderly'
  PROVE  Strong'
<1>1. CASE \E t \in Tab : SweepSkips(c, t) \/ SweepDetaches(c, t)
  BY <1>1, SweepSkipsCovers, SweepDetachesCovers
<1>2. CASE \E seen, apart \in BOOLEAN : SweepChecks(c, seen, apart)
  BY <1>2, SweepChecksCovers
<1>3. CASE SweepWritten(c)
  BY <1>3, SweepWrittenCovers
<1> QED BY <1>1, <1>2, <1>3 DEF SweepStep

------------------------------------------------------------------------------
(* The initialization, until the memory is filled.                          *)

\* Whoever is not at rest, but for the alarm, is the initialization, and a start

\* has no attach on its way.
LEMMA Unloaded ==
  ASSUME Base, Strong, ~Loaded
  PROVE  /\ \A s \in Start : call[s].pc \in AtRest
         /\ \A s \in Start : \A t \in Tab : ~AttachBy(t, s)
         /\ \A c \in Caller : ~Between(c)
<1>1. \A c \in Caller \ {Boot, Alarm} : call[c].pc \in AtRest \cup {"done", "uninitialized"}
  BY DEF Strong, Rests
<1>2. \A s \in Start : call[s].pc \in AtRest
  BY UpLoaded DEF Strong, Rests
<1>3. \A s \in Start : \A t \in Tab : ~AttachBy(t, s)
  BY <1>2, Unattached DEF Strong, AtRest
<1>4. ~Between(Boot)
  BY DEF Loaded, Between, Taking, Asleep, Viewing
<1>5. ~Between(Alarm)
  <2>1. call[Boot].pc \in Booting \cup {"losing"}
    BY DEF Loaded, Asleep, Viewing, Booting
  <2>2. CASE call[Boot].pc = "losing"
    BY <2>2 DEF Strong, Rests, Between, Taking
  <2>3. CASE call[Boot].pc \in Booting
    BY <2>3, Callers DEF Base, LeaseInv, Boots, Between
  <2> QED BY <2>1, <2>2, <2>3
<1>6. \A c \in Caller : ~Between(c)
  BY <1>1, <1>4, <1>5 DEF Between, AtRest, Taking
<1> QED BY <1>2, <1>3, <1>6

\* A turn of the initialization keeps the invariant, if what it makes of the

\* memory covers what is debugged.
LEMMA BootTurnCovers ==
  ASSUME Ground(Boot), ~Loaded, Moves(Boot), SameAttaches, \A u \in Tab : Queue(u)',
         call'[Boot].pc \in {"recording", "dropping", "looking", "losing", "recovering"},
         call'[Boot].pc = "dropping" => call'[Boot].tab \in Tab /\ detaches'[call'[Boot].tab] # None,
         call'[Boot].pc \in Looking => call'[Boot].tab = TabOf[call'[Boot].by],
         \A u \in Tab : call'[Boot].plan[u] \in {None, call[Boot].plan[u]},
         \A u \in Tab : cleanups'[u] \in {None, Plain, cleanups[u], saved.cleanups[u]},
         Placed(lease)', lease' \in {lease, None} \/ \A t \in Tab : ~Attaches(t),
         writes' # writes => Loaded', Memory', Rests'
  PROVE  Strong'
<1>1. /\ \A s \in Start : call[s].pc \in AtRest
      /\ \A s \in Start : \A t \in Tab : ~AttachBy(t, s)
      /\ \A c \in Caller : ~Between(c)
  BY Unloaded DEF Ground
<1>2. Boot \in Caller /\ Boot \notin Start \cup Tab \cup {Alarm}
  BY Callers
<1>3. LeaseInv /\ CoreTypes'
  BY DEF Ground, Base, LeaseInv
<1>4. ~Between(Boot)' /\ Prompt(Boot)'
  BY <1>2 DEF Between, Taking, Prompt
<1>5. \A s \in Start : ~Engaged(s)
  BY <1>1 DEF Engaged, AtRest
<1>6. \A s \in Start : call[s].pc # "intending"
  BY <1>5 DEF Engaged
<1>7. Chromes' /\ Single'
  BY <1>2, ChromesKept, SingleKept DEF Ground, Strong
<1>8. Owners' /\ Enters' /\ Sole'
  BY <1>2, <1>4, OwnersKept, EntersKept, SoleKept DEF Ground, Strong
<1>9. Sights'
  <2>1. call'[Boot].pc \in Detacher => call'[Boot].pc = "dropping"
    BY DEF Detacher, Sweeping
  <2> QED BY <1>2, <2>1, SightsKept DEF Ground, Strong
<1>10. Places'
  BY <1>2, <1>3, PlacesKept DEF Ground, Strong
<1>11. Records'
  <2>1. \A t \in Tab : \A s \in Start : s # Boot => (AttachBy(t, s)' <=> AttachBy(t, s))
    BY DEF SameAttaches
  <2>2. Respects(Boot)
    BY <1>5 DEF Respects
  <2> QED BY <1>2, <2>1, <2>2, RecordsKept DEF Ground, Strong
<1>12. Claims'
  BY <1>2, <1>3, <1>6, ClaimsKept DEF Ground, Strong
<1>13. Intends'
  BY <1>2, <1>3, <1>8, <1>11, IntendsKept DEF Ground, Strong
<1>14. Unknowns'
  <2>1. \A s \in Start : Raw(s) => \A u \in Tab : Foreign(cleanups'[u], s) /\ Foreign(call'[Boot].plan[u], s)
    <3>1. \A s \in Start : Foreign(Plain, s) /\ Foreign(None, s)
      BY DEF Foreign, Plain
    <3> QED BY <1>2, <3>1 DEF Ground, Strong, Unknowns
  <2> QED BY <1>2, <1>3, <2>1, UnknownsKept DEF Ground, Strong
<1>15. Stored'
  BY <1>2, <1>3, <1>7, StoredKept DEF Ground, Strong
<1> QED BY <1>7, <1>8, <1>9, <1>10, <1>11, <1>12, <1>13, <1>14, <1>15 DEF Strong

\* A turn of the initialization leaves the others at rest.
LEMMA BootRests ==
  ASSUME Rests, ~Loaded, Moves(Boot), SameAttaches, ~Initialized',
         Loaded' \/ (call'[Boot].pc \in {"dropping", "looking", "losing"}),
         call'[Boot].pc \in {"looking", "losing"} =>
           cleanups' = NoCleanup /\ call[Boot].pc \in Asleep \cup {"looking", "losing"},
         call'[Boot].pc # "uninitialized"
  PROVE  Rests'
<1>1. \A d \in Caller : d # Boot => call'[d] = call[d]
  BY DEF Moves
<1>2. \A t \in Tab : Debugged(t)' <=> Debugged(t)
  BY DEF Moves, SameAttaches, Debugged
<1>3. ~Initialized
  BY UpLoaded
<1>4. call'[Boot].pc \notin Asleep
  BY DEF Loaded, Asleep
<1>5. ~Loaded' => \A d \in Caller \ {Boot, Alarm} : call'[d].pc \in AtRest \cup {"done", "uninitialized"}
  BY <1>1 DEF Rests
<1>6. call'[Boot].pc \in Asleep \cup {"looking", "losing"} => call'[Alarm].pc = "idle" /\ cleanups' = NoCleanup
  BY <1>1, <1>4, Callers DEF Rests
<1>7. \A s \in Start : call'[s].pc \in AtRest
  BY <1>1, <1>3, Callers DEF Rests
<1>8. \A t \in Tab : call'[t].pc = "uninitialized" => ~Debugged(t)'
  BY <1>1, <1>2, Callers DEF Rests
<1> QED BY <1>5, <1>6, <1>7, <1>8 DEF Rests

\* What the memory covers, once it is filled or while the stored lease is looked at.
LEMMA BootMemory ==
  ASSUME Moves(Boot), SameAttaches,
         Loaded' => \A t \in Tab : Debugged(t) => cleanups'[t] # None \/ Leased(t)',
         call'[Boot].pc \in Viewing =>
           /\ lease' = None /\ call'[Boot].tab \in Tab
           /\ \A t \in Tab : ~Attaches(t) /\ (Debugged(t) => cleanups'[t] # None \/ t = call'[Boot].tab)
  PROVE  Memory'
<1>1. \A t \in Tab : (Debugged(t)' <=> Debugged(t)) /\ (Attaches(t)' <=> Attaches(t))
  BY DEF Moves, SameAttaches, Debugged
<1> QED BY <1>1 DEF Memory

\* The stored state is read.
LEMMA BootLoadsCovers ==
  ASSUME Ground(Boot), BootLoads
  PROVE  Strong'
<1>1. loaded = "read" /\ UNCHANGED <<lease, teardowns, attaches, saved, attached, notice>>
      /\ cleanups' = Due
  BY DEF BootLoads, Load
<1>2. call[Boot].pc = "reading" /\ lease = None
  BY <1>1 DEF Ground, Base, LeaseInv, Loading, Boots, Booting
<1>3. ~Loaded /\ CoreTypes /\ SideTypes
  BY <1>2 DEF Loaded, Asleep, Ground, Base, LeaseInv
<1>4. saved.lease \in Lease \cup {None}
  BY <1>3 DEF CoreTypes, Snapshot
<1>5. \A u \in Tab : Due[u] \in {Plain, saved.cleanups[u]} /\ (saved.cleanups[u] # None => Due[u] # None)
  BY DEF Due
<1>6. \A u \in Tab : (Debugged(u) => Finds(saved, u)) /\ (Attaches(u) => saved.lease = None)
  BY DEF Ground, Strong, Stored, StoredAt
<1>7. ASSUME NEW r, Enter(Boot, r), r.plan = NoCleanup, r.pc \in {"recording", "dropping", "looking"},
             SameAttaches, \A u \in Tab : Queue(u)', \A u \in Tab : detaches'[u] = detaches[u] \/ detaches[u] = None,
             writes' = writes \/ (r.pc = "recording" /\ Persist(Boot)),
             r.pc = "recording" => saved.lease = None,
             r.pc \in Looking => saved.lease # None /\ r.tab = saved.lease.tab /\ r.by = saved.lease.by,
             r.pc = "dropping" => detaches'[r.tab] # None,
             r.pc = "looking" => Due = NoCleanup
      PROVE  Strong'
  <2>1. call'[Boot] = r /\ \A d \in Caller : d # Boot => call'[d] = call[d]
    BY <1>3, <1>7, Entered, Callers
  <2>2. Moves(Boot)
    BY <1>1, <1>2, <1>7, <2>1 DEF Moves, Ground, Waiting
  <2>3. \A u \in Tab : call'[Boot].plan[u] = None
    BY <1>7, <2>1 DEF NoCleanup
  <2>4. r.pc \in Looking => r.tab \in Tab /\ r.tab = TabOf[r.by]
    BY <1>4, <1>7 DEF Lease, Ground, Strong, Places, Placed
  <2>5. Memory'
    <3>1. Loaded' => \A t \in Tab : Debugged(t) => cleanups'[t] # None
      BY <1>1, <1>5, <1>6, <1>7, <2>1 DEF Loaded, Viewing, Finds
    <3>2. call'[Boot].pc \in Viewing =>
           /\ lease' = None /\ call'[Boot].tab \in Tab
           /\ \A t \in Tab : ~Attaches(t) /\ (Debugged(t) => cleanups'[t] # None \/ t = call'[Boot].tab)
      BY <1>1, <1>2, <1>5, <1>6, <1>7, <2>1, <2>4 DEF Viewing, Looking, Finds
    <3> QED BY <1>7, <2>2, <3>1, <3>2, BootMemory
  <2>6. Rests'
    <3>1. ~Initialized' /\ call'[Boot].pc # "uninitialized"
      BY <1>7, <2>1 DEF Initialized
    <3>2. Loaded' \/ call'[Boot].pc \in {"dropping", "looking", "losing"}
      BY <1>7, <2>1 DEF Loaded, Asleep, Viewing
    <3>3. call'[Boot].pc \in {"looking", "losing"} =>
            cleanups' = NoCleanup /\ call[Boot].pc \in Asleep \cup {"looking", "losing"}
      BY <1>1, <1>2, <1>7, <2>1 DEF Asleep
    <3> QED BY <1>3, <1>7, <2>2, <3>1, <3>2, <3>3, BootRests DEF Ground, Strong
  <2>7. writes' # writes => Loaded'
    BY <1>7, <2>1 DEF Loaded, Asleep, Viewing
  <2>8. Placed(lease)'
    BY <1>1, <1>2 DEF Placed
  <2>9. \A u \in Tab : cleanups'[u] \in {None, Plain, cleanups[u], saved.cleanups[u]}
    BY <1>1, <1>5
  <2> QED BY <1>1, <1>3, <1>7, <2>1, <2>2, <2>3, <2>4, <2>5, <2>6, <2>7, <2>8, <2>9, BootTurnCovers DEF Looking
<1> DEFINE with(pc) == [Fresh(pc) EXCEPT !.tab = saved.lease.tab, !.owner = saved.lease.owner,
                                         !.by = saved.lease.by, !.epoch = saved.lease.epoch]
<1>8. \A u \in Tab : Queue(u)
  BY DEF Ground, Strong, Chromes
<1>9. ASSUME UNCHANGED <<detaches, ops>>
      PROVE  SameAttaches /\ (\A u \in Tab : Queue(u)') /\ \A u \in Tab : detaches'[u] = detaches[u]
  BY <1>8, <1>9, QueueStill DEF SameAttaches
<1>10. CASE saved.lease = None /\ Persist(Boot) /\ Enter(Boot, Fresh("recording")) /\ UNCHANGED <<detaches, ops>>
  <2>1. Fresh("recording").plan = NoCleanup /\ Fresh("recording").pc = "recording"
    BY DEF Fresh
  <2> QED BY <1>7, <1>9, <1>10, <2>1 DEF Looking
<1>11. CASE saved.lease # None /\ IssueDetach(Boot, saved.lease.tab) /\ Enter(Boot, with("dropping")) /\ writes' = writes
  <2>1. with("dropping").plan = NoCleanup /\ with("dropping").pc = "dropping"
        /\ with("dropping").tab = saved.lease.tab /\ with("dropping").by = saved.lease.by
    BY DEF Fresh
  <2>2. saved.lease.tab \in Tab
    BY <1>4, <1>11 DEF Lease
  <2> HIDE DEF with
  <2>3. /\ SameAttaches /\ \A u \in Tab : Queue(u)'
        /\ \A u \in Tab : detaches'[u] = detaches[u] \/ detaches[u] = None
        /\ detaches'[saved.lease.tab] # None
    <3>1. \A x \in Tab : IssueDetach(Boot, x) =>
            /\ SameAttaches /\ \A u \in Tab : Queue(u)'
            /\ \A u \in Tab : detaches'[u] = detaches[u] \/ detaches[u] = None
            /\ detaches'[x] # None
      BY <1>3, <1>8, Issued, Callers
    <3> QED BY <1>11, <2>2, <3>1
  <2> QED BY <1>7, <1>11, <2>1, <2>3 DEF Looking
<1>12. CASE saved.lease # None /\ Due = NoCleanup /\ Enter(Boot, with("looking")) /\ UNCHANGED <<detaches, ops, writes>>
  <2>1. with("looking").plan = NoCleanup /\ with("looking").pc = "looking"
        /\ with("looking").tab = saved.lease.tab /\ with("looking").by = saved.lease.by
    BY DEF Fresh
  <2> HIDE DEF with
  <2> QED BY <1>7, <1>9, <1>12, <2>1 DEF Looking
<1> QED BY <1>10, <1>11, <1>12 DEF BootLoads

\* The initialization goes on with the lease that it looks at.
LEMMA BootGoesOn ==
  ASSUME CoreTypes, NEW pc \in Pc, Go(Boot, pc) \/ Await(Boot, pc)
  PROVE  /\ call'[Boot].pc = pc /\ call'[Boot].plan = call[Boot].plan
         /\ call'[Boot].tab = call[Boot].tab /\ call'[Boot].by = call[Boot].by
         /\ \A d \in Caller : d # Boot => call'[d] = call[d]
<1>1. Boot \in Caller
  BY Callers
<1> QED BY <1>1, Goings, Zenon

\* Its debugger was told to go, and it is looked at.
LEMMA BootDropsCovers ==
  ASSUME Ground(Boot), NEW seen, BootDrops(seen)
  PROVE  Strong'
<1> DEFINE t == call[Boot].tab
<1>1. /\ call[Boot].pc = "dropping" /\ lease' = None /\ Persist(Boot) /\ Await(Boot, "recording")
      /\ cleanups' = [cleanups EXCEPT ![t] = IF DetachConfirmed(t, seen) THEN None
                                             ELSE IF @ = None THEN Plain ELSE @]
      /\ UNCHANGED <<teardowns, attaches, detaches, ops, saved, attached, notice>>
  BY DEF BootDrops, chrome
<1>2. ~Loaded /\ CoreTypes /\ "recording" \in Pc
  BY <1>1 DEF Loaded, Viewing, Ground, Base, LeaseInv, Pc
<1>3. /\ call'[Boot].pc = "recording" /\ call'[Boot].plan = call[Boot].plan
      /\ \A d \in Caller : d # Boot => call'[d] = call[d]
  BY <1>1, <1>2, BootGoesOn
<1>4. lease = None /\ t \in Tab /\ \A u \in Tab : ~Attaches(u) /\ (Debugged(u) => cleanups[u] # None \/ u = t)
  BY <1>1 DEF Ground, Strong, Memory, Viewing
<1>5. Moves(Boot)
  BY <1>1, <1>3 DEF Moves, Ground, Waiting
<1>6. SameAttaches /\ \A u \in Tab : Queue(u)'
  BY <1>1, QueueStill DEF SameAttaches, Ground, Strong, Chromes
<1>7. DetachConfirmed(t, seen) => ~Debugged(t)
  <2>1. SightsAt(Boot)
    BY <1>1, Callers DEF Ground, Strong, Sights, Detacher
  <2> QED BY <1>4, <2>1 DEF DetachConfirmed, SightsAt, Debugged
<1>8. Plain # None
  <2>1. Plain \in Cleanup
    BY DEF Cleanup, Plain
  <2> QED BY <2>1, NoneApart
<1>9. \A u \in Tab : cleanups'[u] = IF u = t THEN (IF DetachConfirmed(t, seen) THEN None
                                             ELSE IF cleanups[t] = None THEN Plain ELSE cleanups[t]) ELSE cleanups[u]
  BY <1>1, <1>2 DEF CoreTypes, MemTypes
<1>10. \A u \in Tab : Debugged(u) => cleanups'[u] # None
  BY <1>4, <1>7, <1>8, <1>9
<1>11. Memory'
  BY <1>3, <1>5, <1>6, <1>10, BootMemory DEF Viewing
<1>12. Rests'
  BY <1>2, <1>3, <1>5, <1>6, BootRests DEF Ground, Strong, Loaded, Initialized, Asleep, Viewing
<1>13. \A u \in Tab : cleanups'[u] \in {None, Plain, cleanups[u], saved.cleanups[u]}
  BY <1>9
<1>14. Placed(lease)' /\ Loaded'
  BY <1>1, <1>3 DEF Placed, Loaded, Asleep, Viewing
<1> QED BY <1>1, <1>2, <1>3, <1>5, <1>6, <1>11, <1>12, <1>13, <1>14, BootTurnCovers DEF Looking

\* Its debugger is there: it is taken up.
LEMMA BootTakesUpCovers ==
  ASSUME Ground(Boot), BootTakesUp
  PROVE  Strong'
<1> DEFINE t == call[Boot].tab
<1>1. /\ call[Boot].pc = "looking" /\ Go(Boot, "recovering")
      /\ lease' = [tab |-> t, owner |-> call[Boot].owner, epoch |-> call[Boot].epoch, by |-> call[Boot].by]
      /\ UNCHANGED <<cleanups, teardowns, attaches, detaches, ops, saved, writes, attached, notice>>
  BY DEF BootTakesUp, chrome, store
<1>2. ~Loaded /\ CoreTypes /\ "recovering" \in Pc
  BY <1>1 DEF Loaded, Viewing, Ground, Base, LeaseInv, Pc
<1>3. /\ call'[Boot].pc = "recovering" /\ call'[Boot].plan = call[Boot].plan
      /\ \A d \in Caller : d # Boot => call'[d] = call[d]
  BY <1>1, <1>2, BootGoesOn
<1>4. t \in Tab /\ \A u \in Tab : ~Attaches(u) /\ (Debugged(u) => cleanups[u] # None \/ u = t)
  BY <1>1 DEF Ground, Strong, Memory, Viewing
<1>5. t = TabOf[call[Boot].by]
  BY <1>1 DEF Ground, Strong, Places, Looking
<1>6. lease'.tab = t /\ lease'.by = call[Boot].by /\ lease' # None
  <2>1. call[Boot].owner \in Owner /\ call[Boot].by \in Start
    BY <1>1 DEF Ground, Base, LeaseInv, Posts, Looking
  <2>2. call[Boot].epoch \in Nat
    BY <1>2, Callers, Locals
  <2>3. lease' \in Lease
    BY <1>1, <1>4, <2>1, <2>2 DEF Lease
  <2> QED BY <1>1, <2>3, NoneApart
<1>7. Moves(Boot)
  <2>1. \A d \in Caller : ~Between(d)'
    <3>1. \A d \in Caller : ~Between(d)
      BY <1>2, Unloaded DEF Ground
    <3> QED BY <1>3, <3>1, Callers DEF Between, Taking
  <2> QED BY <1>1, <1>3, <2>1 DEF Moves, Ground, Waiting
<1>8. SameAttaches /\ \A u \in Tab : Queue(u)'
  BY <1>1, QueueStill DEF SameAttaches, Ground, Strong, Chromes
<1>9. \A u \in Tab : Debugged(u) => cleanups'[u] # None \/ Leased(u)'
  BY <1>1, <1>4, <1>6 DEF Leased
<1>10. Memory'
  BY <1>3, <1>7, <1>8, <1>9, BootMemory DEF Viewing
<1>11. Rests'
  BY <1>2, <1>3, <1>7, <1>8, BootRests DEF Ground, Strong, Loaded, Initialized, Asleep, Viewing
<1>12. Placed(lease)'
  BY <1>5, <1>6 DEF Placed
<1> QED BY <1>1, <1>2, <1>3, <1>4, <1>7, <1>8, <1>10, <1>11, <1>12, BootTurnCovers DEF Looking

\* It is not, or nobody knows: the lease is lost.
LEMMA BootLosesCovers ==
  ASSUME Ground(Boot), NEW seen, BootLoses(seen)
  PROVE  Strong'
<1>1. /\ call[Boot].pc = "looking" /\ Go(Boot, "losing") /\ lease' = None /\ IssueDetach(Boot, call[Boot].tab)
      /\ UNCHANGED <<cleanups, teardowns, attaches, saved, writes, attached, notice>>
  BY DEF BootLoses, store
<1>2. ~Loaded /\ CoreTypes /\ SideTypes /\ "losing" \in Pc
  BY <1>1 DEF Loaded, Viewing, Ground, Base, LeaseInv, Pc
<1>3. /\ call'[Boot].pc = "losing" /\ call'[Boot].plan = call[Boot].plan /\ call'[Boot].tab = call[Boot].tab
      /\ \A d \in Caller : d # Boot => call'[d] = call[d]
  BY <1>1, <1>2, BootGoesOn
<1>4. call[Boot].tab \in Tab
      /\ \A u \in Tab : ~Attaches(u) /\ (Debugged(u) => cleanups[u] # None \/ u = call[Boot].tab)
  BY <1>1 DEF Ground, Strong, Memory, Viewing
<1>5. /\ SameAttaches /\ \A u \in Tab : Queue(u)'
      /\ \A u \in Tab : detaches'[u] = detaches[u] \/ detaches[u] = None
  <2>1. \A u \in Tab : Queue(u)
    BY DEF Ground, Strong, Chromes
  <2>2. \A x \in Tab : IssueDetach(Boot, x) =>
          /\ SameAttaches /\ \A u \in Tab : Queue(u)'
          /\ \A u \in Tab : detaches'[u] = detaches[u] \/ detaches[u] = None
    BY <1>2, <2>1, Issued, Callers
  <2> QED BY <1>1, <1>4, <2>2
<1>6. Moves(Boot)
  BY <1>1, <1>3, <1>5 DEF Moves, Ground, Waiting
<1>7. cleanups = NoCleanup
  BY <1>1 DEF Ground, Strong, Rests
<1>8. ~Loaded' /\ ~Initialized'
  BY <1>3 DEF Loaded, Initialized, Viewing
<1>9. Memory'
  BY <1>1, <1>3, <1>4, <1>5, <1>6, <1>8, BootMemory
<1>10. Rests'
  BY <1>1, <1>2, <1>3, <1>5, <1>6, <1>7, <1>8, BootRests DEF Ground, Strong
<1>11. Placed(lease)'
  BY <1>1 DEF Placed
<1> QED BY <1>1, <1>2, <1>3, <1>5, <1>6, <1>9, <1>10, <1>11, BootTurnCovers DEF Looking

\* The loss is recorded: unless it is forgotten, its debugger is gone by then.
LEMMA BootLostCovers ==
  ASSUME Ground(Boot), BootLost, Orderly'
  PROVE  Strong'
<1> DEFINE t == call[Boot].tab
<1>1. /\ call[Boot].pc = "losing" /\ Persist(Boot) /\ Await(Boot, "recording")
      /\ UNCHANGED <<lease, cleanups, teardowns, attaches, detaches, ops, saved, attached, notice>>
  BY DEF BootLost, chrome
<1>2. ~Loaded /\ CoreTypes /\ "recording" \in Pc
  BY <1>1 DEF Loaded, Viewing, Ground, Base, LeaseInv, Pc
<1>3. /\ call'[Boot].pc = "recording" /\ call'[Boot].plan = call[Boot].plan
      /\ \A d \in Caller : d # Boot => call'[d] = call[d]
  BY <1>1, <1>2, BootGoesOn
<1>4. lease = None /\ t \in Tab /\ \A u \in Tab : ~Attaches(u) /\ (Debugged(u) => cleanups[u] # None \/ u = t)
  BY <1>1 DEF Ground, Strong, Memory, Viewing
<1>5. ~Debugged(t)
  <2>1. forgotten' = {}
    BY DEF Orderly
  <2>2. t \notin attached /\ notice[t] = "none"
    BY <2>1 DEF BootLost
  <2> QED BY <1>4, <2>2 DEF Debugged
<1>6. Moves(Boot)
  BY <1>1, <1>3, <1>4 DEF Moves, Ground, Waiting
<1>7. SameAttaches /\ \A u \in Tab : Queue(u)'
  BY <1>1, QueueStill DEF SameAttaches, Ground, Strong, Chromes
<1>8. Memory'
  BY <1>1, <1>3, <1>4, <1>5, <1>6, <1>7, BootMemory DEF Viewing
<1>9. Rests'
  BY <1>2, <1>3, <1>6, <1>7, BootRests DEF Ground, Strong, Loaded, Initialized, Asleep, Viewing
<1>10. Placed(lease)' /\ Loaded'
  BY <1>1, <1>3, <1>4 DEF Placed, Loaded, Asleep, Viewing
<1> QED BY <1>1, <1>2, <1>3, <1>4, <1>6, <1>7, <1>8, <1>9, <1>10, BootTurnCovers DEF Looking

------------------------------------------------------------------------------
(* Chrome, the store, and what comes from outside.                          *)

\* A call keeps what it holds, though it may be answered, or wake up.
StillAt(c) ==
  /\ call'[c].pc = call[c].pc \/ (c = Boot /\ {call[c].pc, call'[c].pc} \subseteq Asleep)
  /\ call'[c].tab = call[c].tab /\ call'[c].by = call[c].by
  /\ call'[c].back = call[c].back /\ call'[c].plan = call[c].plan
Still == \A c \in Caller : StillAt(c)

\* Whatever is stored, or is going to be, was so before.
Shrinks ==
  /\ saved' = saved \/ \E i \in DOMAIN writes : saved' = writes[i].snap
  /\ \A i \in DOMAIN writes' : \E j \in DOMAIN writes : writes'[i] = writes[j]

\* Nothing comes nearer to being debugged.
Fades ==
  \A u \in Tab : /\ (Debugged(u)' => Debugged(u)) /\ (Attaches(u)' => Attaches(u))
                 /\ \A b : AttachBy(u, b)' => AttachBy(u, b)

\* A step from outside keeps the parts of the invariant that are not about it.
LEMMA AbroadCovers ==
  ASSUME Base, Strong, Still, Shrinks, Fades, UNCHANGED <<lease, cleanups, teardowns>>,
         Chromes', Owners', Sole', Intends', Claims', Sights'
  PROVE  Strong'
<1>1. \A c \in Caller : Between(c)' <=> Between(c)
  BY DEF Still, StillAt, Between, Taking, Asleep
<1>2. Enters'
  <2> SUFFICES ASSUME NEW c \in Caller, Between(c)' PROVE EntersAt(c)'
    BY DEF Enters
  <2>1. Between(c) /\ EntersAt(c)
    BY <1>1 DEF Strong, Enters
  <2>2. \A t \in Tab : Attaches(t)' => AttachBy(t, c)'
    <3> SUFFICES ASSUME NEW t \in Tab, Attaches(t)' PROVE AttachBy(t, c)'
      OBVIOUS
    <3>1. PICK b : AttachBy(t, b)'
      BY DEF Attaches, AttachBy
    <3>2. AttachBy(t, b) /\ AttachBy(t, c)
      BY <2>1, <3>1 DEF Fades, EntersAt
    <3>3. b = c
      BY <3>2 DEF Strong, Chromes, Queue, AttachBy
    <3> QED BY <3>1, <3>3
  <2>3. StillAt(c) /\ (call'[c].pc \in Taking \cup {"intending"} => call[c].pc = call'[c].pc)
    BY DEF Still, StillAt, Taking, Asleep
  <2> QED BY <1>1, <2>1, <2>2, <2>3 DEF EntersAt, StillAt, Fades
<1>3. Records'
  <2> SUFFICES ASSUME NEW s \in Start, Engaged(s)' PROVE EngagedAt(s)'
    BY DEF Records
  <2>1. s \in Caller /\ s # Boot /\ TabOf[s] \in Tab
    BY Callers
  <2>2. call'[s].pc = call[s].pc
    BY <2>1 DEF Still, StillAt
  <2>3. EngagedAt(s)
    BY <2>1, <2>2 DEF Engaged, Fades, Strong, Records
  <2>4. \A c \in Caller : call'[c].pc \in Sweeping => call[c].pc = call'[c].pc
    BY DEF Still, StillAt, Sweeping, Asleep
  <2> QED BY <2>2, <2>3, <2>4 DEF EngagedAt, Still, StillAt
<1>4. \A s \in Start : Raw(s)' => Raw(s)
  BY Callers DEF Still, StillAt, Raw
<1>5. Unknowns'
  <2> SUFFICES ASSUME NEW s \in Start, Raw(s), NEW u \in Tab
               PROVE  /\ Foreign(cleanups'[u], s) /\ Foreign(saved'.cleanups[u], s)
                      /\ \A i \in DOMAIN writes' : Foreign(writes'[i].snap.cleanups[u], s)
                      /\ \A c \in Caller : Foreign(call'[c].plan[u], s)
    BY <1>4 DEF Unknowns
  <2>1. /\ Foreign(cleanups[u], s) /\ Foreign(saved.cleanups[u], s)
        /\ \A i \in DOMAIN writes : Foreign(writes[i].snap.cleanups[u], s)
        /\ \A c \in Caller : Foreign(call[c].plan[u], s)
    BY DEF Strong, Unknowns
  <2> QED BY <2>1 DEF Shrinks, Still, StillAt
<1>6. (Loaded' <=> Loaded) /\ (Initialized' <=> Initialized)
  BY Callers DEF Still, StillAt, Loaded, Initialized, Asleep, Viewing
<1>7. Rests'
  <2>1. \A c \in Caller : c # Boot => call'[c].pc = call[c].pc
    BY DEF Still, StillAt
  <2>2. call'[Boot].pc \in Asleep \cup {"looking", "losing"} => call[Boot].pc \in Asleep \cup {"looking", "losing"}
    BY Callers DEF Still, StillAt
  <2>3. ~Loaded' => \A c \in Caller \ {Boot, Alarm} : call'[c].pc \in AtRest \cup {"done", "uninitialized"}
    BY <1>6, <2>1 DEF Strong, Rests
  <2>4. call'[Boot].pc \in Asleep \cup {"looking", "losing"} => call'[Alarm].pc = "idle" /\ cleanups' = NoCleanup
    BY <2>1, <2>2, Callers DEF Strong, Rests
  <2>5. ~Initialized' \/ (\E t \in Tab : call'[t].pc = "uninitialized") => \A s \in Start : call'[s].pc \in AtRest
    BY <1>6, <2>1, Callers DEF Strong, Rests
  <2>6. \A t \in Tab : call'[t].pc = "uninitialized" => ~Debugged(t)'
    BY <2>1, Callers DEF Strong, Rests, Fades
  <2> QED BY <2>3, <2>4, <2>5, <2>6 DEF Rests
<1>8. Places'
  <2>1. Placed(saved.lease) /\ (\A i \in DOMAIN writes : Placed(writes[i].snap.lease)) /\ Placed(lease)
    BY DEF Strong, Places
  <2>2. Placed(saved.lease)' /\ (\A i \in DOMAIN writes' : Placed(writes[i].snap.lease)') /\ Placed(lease)'
    BY <2>1 DEF Shrinks, Placed
  <2>3. call'[Boot].pc \in Looking => call[Boot].pc = call'[Boot].pc
    BY Callers DEF Still, StillAt, Looking, Asleep
  <2>4. \A s \in Start : call'[s].pc = call[s].pc /\ call'[s].by = call[s].by
    BY Callers DEF Still, StillAt
  <2> QED BY <2>2, <2>3, <2>4, Callers DEF Strong, Places, Still, StillAt
<1>9. Memory'
  <2>1. call'[Boot].pc \in Viewing => call[Boot].pc = call'[Boot].pc
    BY Callers DEF Still, StillAt, Viewing, Asleep
  <2> QED BY <1>6, <2>1, Callers DEF Strong, Memory, Leased, Fades, Still, StillAt
<1>10. Stored'
  <2>1. StoredAt(saved) /\ \A i \in DOMAIN writes : StoredAt(writes[i].snap)
    BY DEF Strong, Stored
  <2>2. StoredAt(saved)' /\ \A i \in DOMAIN writes' : StoredAt(writes[i].snap)'
    BY <2>1 DEF Shrinks, StoredAt, Fades
  <2> QED BY <2>2 DEF Stored
<1>11. Single'
  BY DEF Strong, Single, Fades
<1> QED BY <1>2, <1>3, <1>5, <1>7, <1>8, <1>9, <1>10, <1>11 DEF Strong

\* When no call may go on by itself, and none is answered, Sole says nothing.
LEMMA HushedSole ==
  ASSUME NoneReady, \A s \in Start : call'[s] = call[s]
  PROVE  Sole'
<1> SUFFICES ASSUME NEW s \in Start, call'[s].pc \in {"intending", "attaching"}, Answered(s)' PROVE FALSE
  BY DEF Sole
<1>1. call[s].pc \in {"intending", "attaching"} /\ call'[s] = call[s]
  OBVIOUS
<1>2. Answered(s)
  BY <1>1, Zenon DEF Answered
<1>3. Ready(s)
  BY <1>1, <1>2 DEF Ready
<1> QED BY <1>3, Callers DEF NoneReady

\* A start that Chrome and its caller leave alone is where it was.
LEMMA OwnerStill ==
  ASSUME NEW s \in Start, OwnersAt(s), call'[s] = call[s], \A t \in Tab : attaches'[t] = attaches[t],
         \A t \in Tab : AttachBy(t, s)' <=> AttachBy(t, s)
  PROVE  OwnersAt(s)'
<1>1. \A t \in Tab : AttachBy(t, s)' =>
         /\ TabOf[s] = t /\ attaches'[t] = s
         /\ call'[s].pc = "late" \/ (call'[s].pc = "attaching" /\ call'[s].reply = "")
  BY Zenon DEF OwnersAt
<1>2. call'[s].pc = "attaching" /\ call'[s].reply = "" => AttachBy(TabOf[s], s)'
  <2>1. TabOf[s] \in Tab
    OBVIOUS
  <2> QED BY <2>1, Zenon DEF OwnersAt
<1> QED BY <1>1, <1>2, Zenon DEF OwnersAt

\* What the starts intend, and the claims, if the chain and the calls are as they were.
LEMMA IntentStill ==
  ASSUME Strong, UNCHANGED <<saved, writes, cleanups, teardowns>>,
         \A c \in Caller : call'[c] = call[c] \/ (c = Boot /\ call[c].pc \in Asleep /\ StillAt(c))
  PROVE  Intends' /\ Claims'
<1>1. \A s \in Start : call'[s] = call[s]
  BY Callers
<1>2. Intends'
  <2> SUFFICES ASSUME NEW s \in Start, call'[s].pc = "intending" PROVE IntendsAt(s)'
    BY DEF Intends
  <2>1. call'[s] = call[s] /\ IntendsAt(s)
    BY <1>1 DEF Strong, Intends
  <2> QED BY <2>1, Zenon DEF IntendsAt, Armed
<1>3. Claims'
  <2> SUFFICES ASSUME NEW s \in Start, call'[s].pc = "intending", call'[s].reply = "", SeenOnce(s)'
               PROVE  \E c \in Caller : Follows(c, s)'
    BY Zenon DEF Claims
  <2>1. SeenOnce(s)
    BY DEF SeenOnce, StillAt
  <2>2. call[s].pc = "intending" /\ call[s].reply = ""
    BY <1>1, Zenon
  <2>3. PICK c \in Caller : Follows(c, s)
    BY <2>1, <2>2, Zenon DEF Strong, Claims
  <2>4. call[c].pc = "swept"
    BY <2>3, Zenon DEF Follows
  <2>5. call'[c] = call[c]
    BY <2>4 DEF Asleep
  <2>6. Follows(c, s)'
    BY <2>3, <2>5, Zenon DEF Follows
  <2> QED BY <2>6
<1> QED BY <1>2, <1>3

\* A step that is not about the lease or the debugger.
LEMMA AsideCovers ==
  ASSUME Base, Strong, Sole',
         \A c \in Caller : call'[c] = call[c] \/ (c = Boot /\ call[c].pc \in Asleep /\ StillAt(c)),
         UNCHANGED <<lease, cleanups, teardowns, attaches, detaches, ops, saved, writes, attached, notice>>
  PROVE  Strong'
<1>1. Still
  BY DEF Still, StillAt
<1>2. SameAttaches /\ \A u \in Tab : Queue(u)'
  BY QueueStill DEF SameAttaches, Strong, Chromes
<1>3. Fades /\ Shrinks
  BY <1>2 DEF Fades, Debugged, SameAttaches, Shrinks
<1>4. Chromes'
  BY <1>2 DEF Strong, Chromes, SameAttaches
<1>5. Owners'
  <2> SUFFICES ASSUME NEW s \in Start PROVE OwnersAt(s)'
    BY DEF Owners
  <2>1. OwnersAt(s) /\ call'[s] = call[s]
    BY Callers DEF Strong, Owners
  <2>2. \A t \in Tab : attaches'[t] = attaches[t]
    OBVIOUS
  <2> QED BY <1>2, <2>1, <2>2, OwnerStill DEF SameAttaches
<1>6. Intends' /\ Claims'
  BY IntentStill
<1>7. Sights'
  <2> SUFFICES ASSUME NEW c \in Caller, call'[c].pc \in Detacher PROVE SightsAt(c)'
    BY DEF Sights
  <2>1. call'[c].pc = call[c].pc /\ call'[c].tab = call[c].tab
    BY <1>1 DEF Still, StillAt, Detacher, Sweeping, Asleep
  <2>2. SightsAt(c)
    BY <2>1 DEF Strong, Sights
  <2> QED BY <1>2, <2>1, <2>2 DEF SightsAt, SameAttaches
<1> QED BY <1>1, <1>3, <1>4, <1>5, <1>6, <1>7, AbroadCovers

\* The cancellation of a start, the writes of the pause, and the beginning of the

\* initialization.
LEMMA AsideSteps ==
  ASSUME Base, Strong, NoneReady,
         \/ \E s \in Start : CancelStart(s)
         \/ \E done \in BOOLEAN : Pauses(done)
         \/ BootWakes \/ BootReads
  PROVE  Strong'
<1>1. UNCHANGED <<lease, cleanups, teardowns, attaches, detaches, ops, saved, writes, attached, notice>>
  BY DEF CancelStart, Pauses, BootWakes, BootReads, control, store, chrome
<1>2. \A c \in Caller : call'[c] = call[c] \/ (c = Boot /\ call[c].pc \in Asleep /\ StillAt(c))
  <2>1. CASE call' = call
    BY <2>1
  <2>2. CASE BootWakes
    <3>1. loaded = "down" /\ Go(Boot, "reading") /\ "reading" \in Pc
      BY <2>2 DEF BootWakes, Wake, Pc
    <3>2. call[Boot].pc = "down" /\ CoreTypes
      BY <3>1 DEF Base, LeaseInv, Loading
    <3>3. /\ call'[Boot].pc = "reading" /\ call'[Boot].plan = call[Boot].plan /\ call'[Boot].back = call[Boot].back
          /\ call'[Boot].tab = call[Boot].tab /\ call'[Boot].by = call[Boot].by
          /\ \A d \in Caller : d # Boot => call'[d] = call[d]
      BY <3>1, <3>2, Callers, Goings, Zenon
    <3> QED BY <3>2, <3>3 DEF StillAt, Asleep
  <2> QED BY <2>1, <2>2 DEF CancelStart, Pauses, BootReads
<1>3. Sole'
  BY <1>2, Callers, HushedSole
<1> QED BY <1>1, <1>2, <1>3, AsideCovers

\* The user or the closing of the tab detaches the debugger.
LEMMA ChromeDetachesCovers ==
  ASSUME Base, Strong, NoneReady, NEW t \in Tab, NEW why \in {"canceled_by_user", "target_closed"}, ChromeDetaches(t, why)
  PROVE  Strong'
<1>1. /\ t \in attached /\ notice[t] = "none"
      /\ attached' = attached \ {t} /\ notice' = [notice EXCEPT ![t] = why]
      /\ UNCHANGED <<lease, cleanups, teardowns, attaches, detaches, call, saved, writes, ops>>
  BY DEF ChromeDetaches, control, store
<1>2. \A u \in Tab : notice'[u] = IF u = t THEN why ELSE notice[u]
  BY <1>1 DEF Base, SideTypes, ChromeTypes
<1>3. SameAttaches /\ \A u \in Tab : Queue(u)'
  BY <1>1, QueueStill DEF SameAttaches, Strong, Chromes
<1>4. Still /\ Shrinks
  BY <1>1 DEF Still, StillAt, Shrinks
<1>5. Fades
  BY <1>1, <1>2, <1>3 DEF Fades, Debugged, SameAttaches
<1>6. Chromes'
  <2>1. ~Attaches(t)
    BY <1>1 DEF Strong, Chromes
  <2>2. \A u \in Tab : u # t => (u \in attached' <=> u \in attached) /\ notice'[u] = notice[u]
    BY <1>1, <1>2
  <2>3. t \notin attached' /\ ~Attaches(t)'
    BY <1>1, <1>3, <2>1 DEF SameAttaches
  <2> QED BY <1>1, <1>3, <2>2, <2>3 DEF Strong, Chromes, SameAttaches
<1>7. Owners'
  BY <1>1, <1>3, OwnerStill DEF Owners, SameAttaches, Strong
<1>8. Intends' /\ Claims'
  BY <1>1, IntentStill
<1>9. Sole'
  BY <1>1, HushedSole
<1>10. Sights'
  <2> SUFFICES ASSUME NEW c \in Caller, call'[c].pc \in Detacher PROVE SightsAt(c)'
    BY DEF Sights
  <2>1. SightsAt(c) /\ call'[c] = call[c]
    BY <1>1 DEF Strong, Sights
  <2> QED BY <1>1, <1>2, <1>3, <2>1 DEF SightsAt, SameAttaches
<1> QED BY <1>1, <1>4, <1>5, <1>6, <1>7, <1>8, <1>9, <1>10, AbroadCovers

\* Chrome runs the oldest call on a tab: the queue of the rest.
LEMMA QueueTaken ==
  ASSUME SideTypes, NEW t \in Tab, ops[t] # <<>>, ops' = [ops EXCEPT ![t] = Tail(@)], Queue(t),
         detaches'[t] = IF Head(ops[t]).kind = "detach" /\ detaches[t] = Head(ops[t]).by THEN None ELSE detaches[t]
  PROVE  /\ Queue(t)'
         /\ \A b : AttachBy(t, b)' => AttachBy(t, b)
         /\ \A b : AttachBy(t, b) => AttachBy(t, b)' \/ (Head(ops[t]).kind = "attach" /\ Head(ops[t]).by = b)
         /\ Head(ops[t]).kind = "attach" => ~Attaches(t)'
<1>1. PICK n \in Nat : /\ DOMAIN ops[t] = 1..(n + 1) /\ DOMAIN ops'[t] = 1..n
                       /\ Head(ops[t]) = ops[t][1] /\ \A i \in 1..n : ops'[t][i] = ops[t][i + 1]
  BY Taken1
<1>2. \A i \in 1..n : i + 1 \in 1..(n + 1) /\ i + 1 # 1
  OBVIOUS
<1>3. \A i \in 1..(n + 1) : i = 1 \/ \E k \in 1..n : i = k + 1
  <2> SUFFICES ASSUME NEW i \in 1..(n + 1), i # 1 PROVE \E k \in 1..n : i = k + 1
    OBVIOUS
  <2>1. i - 1 \in 1..n /\ i = (i - 1) + 1
    OBVIOUS
  <2> QED BY <2>1
<1>4. 1 \in 1..(n + 1)
  OBVIOUS
<1>5. Queue(t)'
  <2> SUFFICES ASSUME NEW i \in 1..n, NEW j \in 1..n
               PROVE  /\ ops'[t][i].kind = "attach" =>
                           /\ ops'[t][i].by \in Start \cup {None}
                           /\ ops'[t][j].kind = "attach" => i = j
                      /\ ops'[t][i].kind = "detach" /\ ops'[t][i].by # None =>
                           /\ ops'[t][i].by = detaches'[t]
                           /\ ops'[t][j].kind = "detach" /\ ops'[t][j].by # None => i = j
                           /\ ops'[t][j].kind = "attach" /\ ops'[t][j].by = None => j < i
    BY <1>1 DEF Queue
  <2> DEFINE k == i + 1
             l == j + 1
  <2>1. k \in 1..(n + 1) /\ l \in 1..(n + 1) /\ k # 1
        /\ (k = l => i = j) /\ (l < k => j < i)
    OBVIOUS
  <2>2. ops'[t][i] = ops[t][k] /\ ops'[t][j] = ops[t][l]
    BY <1>1
  <2> HIDE DEF k, l
  <2>3. /\ ops[t][k].kind = "attach" =>
             /\ ops[t][k].by \in Start \cup {None}
             /\ ops[t][l].kind = "attach" => k = l
        /\ ops[t][k].kind = "detach" /\ ops[t][k].by # None =>
             /\ ops[t][k].by = detaches[t]
             /\ ops[t][l].kind = "detach" /\ ops[t][l].by # None => k = l
             /\ ops[t][l].kind = "attach" /\ ops[t][l].by = None => l < k
    BY <1>1, <2>1 DEF Queue
  <2>4. ops[t][k].kind = "detach" /\ ops[t][k].by # None => detaches'[t] = detaches[t]
    <3>1. ops[t][1].kind = "detach" /\ ops[t][1].by # None /\ ops[t][k].kind = "detach" /\ ops[t][k].by # None => k = 1
      BY <1>1, <1>4, <2>1 DEF Queue
    <3> QED BY <1>1, <2>1, <2>3, <3>1
  <2> QED BY <2>1, <2>2, <2>3, <2>4
<1>6. \A b : AttachBy(t, b)' => AttachBy(t, b)
  BY <1>1, <1>2 DEF AttachBy
<1>7. \A b : AttachBy(t, b) => AttachBy(t, b)' \/ (Head(ops[t]).kind = "attach" /\ Head(ops[t]).by = b)
  <2> SUFFICES ASSUME NEW b, NEW i \in 1..(n + 1), ops[t][i].kind = "attach", ops[t][i].by = b, i # 1
               PROVE  AttachBy(t, b)'
    BY <1>1 DEF AttachBy
  <2>1. PICK k \in 1..n : i = k + 1
    BY <1>3
  <2>2. ops'[t][k].kind = "attach" /\ ops'[t][k].by = b
    BY <1>1, <2>1
  <2> QED BY <1>1, <2>2 DEF AttachBy
<1>8. Head(ops[t]).kind = "attach" => ~Attaches(t)'
  <2> SUFFICES ASSUME ops[t][1].kind = "attach", NEW i \in 1..n, ops'[t][i].kind = "attach" PROVE FALSE
    BY <1>1 DEF Attaches
  <2>1. i + 1 \in 1..(n + 1) /\ i + 1 # 1 /\ ops[t][i + 1].kind = "attach"
    BY <1>1, <1>2
  <2> QED BY <1>1, <1>4, <2>1 DEF Queue
<1> QED BY <1>5, <1>6, <1>7, <1>8

\* An attach that Chrome ran is that of a start that waits for it or gave it up,
\* or of nobody.
LEMMA ChromeAttachesCovers ==
  ASSUME Base, Strong, NoneReady, NEW t \in Tab, NEW done \in BOOLEAN, RunChrome(t, done), Head(ops[t]).kind = "attach"
  PROVE  Strong'
<1> DEFINE o == Head(ops[t])
<1>1. /\ ops[t] # <<>> /\ notice[t] = "none" /\ ~Asking(t)
      /\ ops' = [ops EXCEPT ![t] = Tail(@)]
      /\ attached' = IF done THEN attached \cup {t} ELSE attached
      /\ UNCHANGED <<lease, cleanups, teardowns, attaches, detaches, saved, writes, notice>>
  BY DEF RunChrome, store
<1>2. call' = IF o.by \in Start /\ call[o.by].pc = "attaching"
              THEN [call EXCEPT ![o.by].reply = IF done THEN "ok" ELSE "bad"] ELSE call
  BY DEF RunChrome
<1>3. SideTypes /\ CoreTypes /\ Queue(t)
  BY DEF Base, LeaseInv, Strong, Chromes
<1>4. /\ Queue(t)' /\ ~Attaches(t)'
      /\ \A b : AttachBy(t, b)' => AttachBy(t, b)
      /\ \A b : AttachBy(t, b) => AttachBy(t, b)' \/ b = o.by
  BY <1>1, <1>3, QueueTaken
<1>5. \A u \in Tab : u # t => ops'[u] = ops[u]
  BY <1>1, <1>3 DEF SideTypes, ChromeTypes
<1>6. \A u \in Tab : Queue(u)'
  BY <1>1, <1>4, <1>5, QueueStill DEF Strong, Chromes
<1>7. \A u \in Tab : u # t => (Attaches(u)' <=> Attaches(u)) /\ \A b : AttachBy(u, b)' <=> AttachBy(u, b)
  BY <1>5, QueueStill
<1>8. AttachBy(t, o.by) /\ Attaches(t)
  <2>1. PICK n \in Nat : DOMAIN ops[t] = 1..(n + 1) /\ o = ops[t][1]
    BY <1>1, <1>3, Taken1
  <2>2. 1 \in 1..(n + 1)
    OBVIOUS
  <2> QED BY <2>1, <2>2 DEF AttachBy, Attaches
<1>9. Fades
  BY <1>1, <1>4, <1>7, <1>8 DEF Fades, Debugged
<1>10. PICK v \in {"ok", "bad"} : call' = IF o.by \in Start /\ call[o.by].pc = "attaching"
              THEN [call EXCEPT ![o.by] = [call[o.by] EXCEPT !.reply = v]] ELSE call
  BY <1>2, Zenon
<1> HIDE DEF o
<1>11. \A c \in Caller : c # o.by => call'[c] = call[c]
  BY <1>3, <1>10 DEF CoreTypes
<1>12. /\ o.by \in Start /\ call[o.by].pc = "attaching" => call'[o.by] = [call[o.by] EXCEPT !.reply = v]
       /\ o.by \notin Start \/ call[o.by].pc # "attaching" => call' = call
  BY <1>3, <1>10, Callers DEF CoreTypes
<1>13. Still /\ Shrinks
  <2> SUFFICES ASSUME NEW c \in Caller PROVE StillAt(c)
    BY <1>1 DEF Still, Shrinks
  <2>1. CASE call'[c] = call[c]
    BY <2>1 DEF StillAt
  <2>2. CASE call'[c] # call[c]
    <3>1. call'[c] = [call[c] EXCEPT !.reply = v] /\ call[c] \in Call
      BY <1>3, <1>11, <1>12, <2>2, Locals
    <3> QED BY <3>1 DEF StillAt, Call
  <2> QED BY <2>1, <2>2
<1>14. ~Attaches(t)' /\ t \notin attached /\ lease = None
  BY <1>4, <1>8 DEF Strong, Chromes
<1>15. Chromes'
  <2>1. \A u \in Tab : u # t => (u \in attached' <=> u \in attached)
    BY <1>1
  <2> QED BY <1>1, <1>6, <1>7, <1>14, <2>1 DEF Strong, Chromes
<1>16. \A s \in Start : AttachBy(t, s)' => FALSE
  BY <1>4 DEF AttachBy, Attaches
<1>17. Owners'
  <2> SUFFICES ASSUME NEW s \in Start PROVE OwnersAt(s)'
    BY DEF Owners
  <2>1. OwnersAt(s) /\ s \in Caller /\ TabOf[s] \in Tab
    BY Callers DEF Strong, Owners
  <2>2. CASE s = o.by
    <3>1. TabOf[s] = t
      BY <1>8, <2>1, <2>2, Zenon DEF OwnersAt
    <3>2. \A u \in Tab : ~AttachBy(u, s)'
      <4> SUFFICES ASSUME NEW u \in Tab, AttachBy(u, s)' PROVE FALSE
        OBVIOUS
      <4>1. u # t
        BY <1>16
      <4>2. AttachBy(u, s)
        BY <1>7, <4>1
      <4> QED BY <2>1, <3>1, <4>1, <4>2, Zenon DEF OwnersAt
    <3>3. ~(call'[s].pc = "attaching" /\ call'[s].reply = "")
      <4>1. CASE call[s].pc = "attaching"
        <5>1. call'[s] = [call[s] EXCEPT !.reply = v] /\ call[s] \in Call
          BY <1>3, <1>12, <2>1, <2>2, <4>1, Locals
        <5>2. call'[s].reply = v
          BY <5>1 DEF Call
        <5>3. v # ""
          BY Zenon
        <5> QED BY <5>2, <5>3, Zenon
      <4>2. CASE call[s].pc # "attaching"
        BY <1>12, <2>2, <4>2, Zenon
      <4> QED BY <4>1, <4>2
    <3> QED BY <3>2, <3>3, Zenon DEF OwnersAt
  <2>3. CASE s # o.by
    <3>1. call'[s] = call[s] /\ \A u \in Tab : attaches'[u] = attaches[u]
      BY <1>1, <1>11, <2>1, <2>3
    <3>2. \A u \in Tab : AttachBy(u, s)' <=> AttachBy(u, s)
      BY <1>4, <1>7, <2>3
    <3> QED BY <2>1, <3>1, <3>2, OwnerStill
  <2> QED BY <2>2, <2>3
<1>18. \A s \in Start : call'[s].pc # "intending"
  <2> SUFFICES ASSUME NEW s \in Start, call'[s].pc = "intending" PROVE FALSE
    OBVIOUS
  <2>1. s \in Caller /\ call[s].pc = "intending"
    BY <1>13, Callers DEF Still, StillAt, Asleep
  <2>2. ~Debugged(t)
    BY <2>1 DEF Strong, Enters, EntersAt, Between
  <2> QED BY <1>8, <2>2 DEF Debugged
<1>19. Intends' /\ Claims'
  BY <1>18, Zenon DEF Intends, Claims
<1>20. Sole'
  <2> SUFFICES ASSUME NEW s \in Start, call'[s].pc \in {"intending", "attaching"}, Answered(s)',
                      NEW c \in Caller, Ready(c)', c # s
               PROVE  FALSE
    BY DEF Sole
  <2>1. s = o.by
    <3> SUFFICES ASSUME s # o.by PROVE FALSE
      OBVIOUS
    <3>1. call'[s] = call[s] /\ s \in Caller
      BY <1>11, Callers
    <3>2. Answered(s)
      BY <3>1, Zenon DEF Answered
    <3>3. Ready(s)
      BY <3>1, <3>2 DEF Ready
    <3> QED BY <3>1, <3>3 DEF NoneReady
  <2>2. call'[c] = call[c]
    BY <1>11, <2>1
  <2>3. call'[Boot].pc = call[Boot].pc
    BY <1>11, <2>1, Callers
  <2>4. UNCHANGED pen
    BY DEF RunChrome, pauseVars
  <2>5. Answered(c)' <=> Answered(c)
    BY <2>2, Zenon DEF Answered
  <2>6. c \in Start => (Attaching(c) => Attaching(c)')
    <3> SUFFICES ASSUME c \in Start, Attaching(c) PROVE Attaching(c)'
      OBVIOUS
    <3>1. TabOf[c] \in Tab
      OBVIOUS
    <3>2. CASE TabOf[c] = t
      <4>1. AttachBy(t, c)
        BY <3>2 DEF Attaching, AttachBy
      <4>2. AttachBy(t, c)'
        BY <1>4, <2>1, <4>1
      <4> QED BY <1>14, <4>2 DEF AttachBy, Attaches
    <3>3. CASE TabOf[c] # t
      <4>1. ops'[TabOf[c]] = ops[TabOf[c]]
        BY <1>5, <3>1, <3>3
      <4> QED BY <4>1, Zenon DEF Attaching
    <3> QED BY <3>2, <3>3
  <2>7. Ready(c)
    BY <2>2, <2>3, <2>4, <2>5, <2>6 DEF Ready
  <2> QED BY <2>7 DEF NoneReady
<1>21. Sights'
  <2> SUFFICES ASSUME NEW c \in Caller, call'[c].pc \in Detacher PROVE SightsAt(c)'
    BY DEF Sights
  <2>1. call'[c].pc = call[c].pc /\ call'[c].tab = call[c].tab
    BY <1>13 DEF Still, StillAt, Detacher, Sweeping, Asleep
  <2>2. SightsAt(c)
    BY <2>1 DEF Strong, Sights
  <2>3. call[c].tab = t => detaches[t] # None
    <3> SUFFICES ASSUME call[c].tab = t PROVE detaches[t] # None
      OBVIOUS
    <3>1. PICK i \in DOMAIN ops[t] : ops[t][i] = [kind |-> "detach", by |-> c]
      BY <1>1, <2>1 DEF Asking, Detacher, Sweeping
    <3>2. c # None
      BY DEF Caller
    <3> QED BY <1>3, <3>1, <3>2 DEF Queue
  <2>4. call[c].tab # t => (call[c].tab \in attached' <=> call[c].tab \in attached)
    BY <1>1
  <2> QED BY <1>1, <1>4, <1>7, <2>1, <2>2, <2>3, <2>4 DEF SightsAt
<1> QED BY <1>1, <1>9, <1>13, <1>15, <1>17, <1>19, <1>20, <1>21, AbroadCovers

\* The attaches are those of the same starts: there is one when there was one.
LEMMA SameOwners ==
  ASSUME NEW t, \A b : AttachBy(t, b)' <=> AttachBy(t, b)
  PROVE  Attaches(t)' <=> Attaches(t)
<1>1. ASSUME Attaches(t) PROVE Attaches(t)'
  <2>1. PICK i \in DOMAIN ops[t] : ops[t][i].kind = "attach"
    BY <1>1 DEF Attaches
  <2>2. AttachBy(t, ops[t][i].by)
    BY <2>1 DEF AttachBy
  <2>3. PICK b : b = ops[t][i].by
    OBVIOUS
  <2>4. AttachBy(t, b)'
    BY <2>2, <2>3
  <2> QED BY <2>4 DEF Attaches, AttachBy
<1>2. ASSUME Attaches(t)' PROVE Attaches(t)
  <2>1. PICK i \in DOMAIN ops'[t] : ops'[t][i].kind = "attach"
    BY <1>2 DEF Attaches
  <2> DEFINE b == ops'[t][i].by
  <2>2. \E j \in DOMAIN ops'[t] : ops'[t][j].kind = "attach" /\ ops'[t][j].by = b
    BY <2>1
  <2> HIDE DEF b
  <2>3. PICK a : a = b
    OBVIOUS
  <2>4. AttachBy(t, a)'
    BY <2>2, <2>3 DEF AttachBy
  <2>5. AttachBy(t, a)
    BY <2>4
  <2> QED BY <2>5 DEF Attaches, AttachBy
<1> QED BY <1>1, <1>2

\* A detach that Chrome ran: the tab is not debugged by what it was.
LEMMA ChromeDropsCovers ==
  ASSUME Base, Strong, NoneReady, NEW t \in Tab, NEW done \in BOOLEAN, RunChrome(t, done), Head(ops[t]).kind # "attach"
  PROVE  Strong'
<1> DEFINE o == Head(ops[t])
<1>1. /\ ops[t] # <<>> /\ notice[t] = "none"
      /\ ops' = [ops EXCEPT ![t] = Tail(@)]
      /\ attached' = attached \ {t} /\ call' = call
      /\ detaches' = [detaches EXCEPT ![t] = IF @ = o.by THEN None ELSE @]
      /\ UNCHANGED <<lease, cleanups, teardowns, attaches, saved, writes, notice>>
  BY DEF RunChrome, store
<1>2. SideTypes /\ Queue(t)
  BY DEF Base, Strong, Chromes
<1>3. PICK n \in Nat : DOMAIN ops[t] = 1..(n + 1) /\ o = ops[t][1]
  BY <1>1, <1>2, Taken1
<1>4. 1 \in 1..(n + 1)
  OBVIOUS
<1>5. o.kind = "detach"
  <2>1. o \in Op
    BY <1>2, <1>3, <1>4, OpsOf
  <2> QED BY <2>1 DEF Op
<1> HIDE DEF o
<1>6. \A u \in Tab : detaches'[u] = IF u = t THEN (IF detaches[t] = o.by THEN None ELSE detaches[t]) ELSE detaches[u]
  BY <1>1, <1>2 DEF SideTypes, HandTypes
<1>7. /\ Queue(t)' /\ \A b : AttachBy(t, b)' <=> AttachBy(t, b)
  BY <1>1, <1>2, <1>5, <1>6, QueueTaken DEF o
<1>8. \A u \in Tab : u # t => ops'[u] = ops[u]
  BY <1>1, <1>2 DEF SideTypes, ChromeTypes
<1>9. SameAttaches /\ \A u \in Tab : Queue(u)'
  <2>1. \A u \in Tab : u # t => (\A b : AttachBy(u, b)' <=> AttachBy(u, b)) /\ Queue(u)'
    BY <1>6, <1>8, QueueStill DEF Strong, Chromes
  <2>2. \A u \in Tab : \A b : AttachBy(u, b)' <=> AttachBy(u, b)
    BY <1>7, <2>1
  <2>3. \A u \in Tab : Attaches(u)' <=> Attaches(u)
    BY <2>2, SameOwners
  <2> QED BY <1>7, <2>1, <2>2, <2>3 DEF SameAttaches
<1>10. Still /\ Shrinks
  BY <1>1 DEF Still, StillAt, Shrinks
<1>11. Fades
  BY <1>1, <1>9 DEF Fades, Debugged, SameAttaches
<1>12. Chromes'
  <2>1. \A u \in Tab : u \in attached' => u \in attached
    BY <1>1
  <2> QED BY <1>1, <1>9, <2>1 DEF Strong, Chromes, SameAttaches
<1>13. Owners'
  BY <1>1, <1>9, OwnerStill DEF Owners, SameAttaches, Strong
<1>14. Intends' /\ Claims'
  BY <1>1, IntentStill
<1>15. Sole'
  BY <1>1, HushedSole
<1>16. Sights'
  <2> SUFFICES ASSUME NEW c \in Caller, call'[c].pc \in Detacher PROVE SightsAt(c)'
    BY DEF Sights
  <2>1. SightsAt(c) /\ call'[c] = call[c]
    BY <1>1 DEF Strong, Sights
  <2>2. CASE call[c].tab = t
    <3>1. call[c].pc \in Sweeping /\ AttachBy(t, None) => detaches'[t] # None
      <4> SUFFICES ASSUME AttachBy(t, None), detaches[t] # None, detaches[t] = o.by PROVE FALSE
        BY <1>6, <2>1, <2>2 DEF SightsAt
      <4>1. PICK j \in 1..(n + 1) : ops[t][j].kind = "attach" /\ ops[t][j].by = None
        BY <1>3 DEF AttachBy
      <4>2. j < 1
        BY <1>2, <1>3, <1>4, <1>5, <4>1 DEF Queue
      <4> QED BY <4>2
    <3> QED BY <1>1, <1>7, <2>1, <2>2, <3>1 DEF SightsAt
  <2>3. CASE call[c].tab # t
    BY <1>1, <1>6, <1>9, <2>1, <2>3 DEF SightsAt, SameAttaches
  <2> QED BY <2>2, <2>3
<1> QED BY <1>1, <1>10, <1>11, <1>12, <1>13, <1>14, <1>15, <1>16, AbroadCovers

\* The chain without its oldest write.
LEMMA OldestGone ==
  ASSUME writes \in Seq(Entry), writes # <<>>, writes' = Tail(writes)
  PROVE  \E n \in Nat : /\ DOMAIN writes = 1..(n + 1) /\ DOMAIN writes' = 1..n
                        /\ Head(writes) = writes[1] /\ \A i \in 1..n : writes'[i] = writes[i + 1]
<1>1. /\ writes \in Seq(Entry) /\ writes' = Tail(writes)
      /\ Len(writes) \in Nat /\ Len(writes) # 0 /\ DOMAIN writes = 1..Len(writes) /\ Head(writes) = writes[1]
  OBVIOUS
<1> DEFINE n == Len(writes) - 1
<1>2. n \in Nat /\ n + 1 = Len(writes)
  BY <1>1
<1>3. writes' \in Seq(Entry) /\ Len(writes') = Len(writes) - 1
  BY <1>1
<1>4. DOMAIN writes' = 1..n
  BY <1>2, <1>3
<1>5. \A i \in 1..n : writes'[i] = writes[i + 1]
  BY <1>1, <1>2
<1> QED BY <1>1, <1>2, <1>4, <1>5

\* storage applies the oldest write, or refuses it.
LEMMA DiskCovers ==
  ASSUME Base, Strong, NoneReady, NEW done \in BOOLEAN, Disk(done)
  PROVE  Strong'
<1> DEFINE w == Head(writes)
<1>1. /\ writes # <<>> /\ writes' = Tail(writes)
      /\ saved' = IF done THEN w.snap ELSE saved
      /\ UNCHANGED <<lease, cleanups, teardowns, attaches, detaches, ops, attached, notice>>
  BY DEF Disk, control, chrome
<1>2. call' = IF w.by = None THEN call ELSE [call EXCEPT ![w.by].reply = IF done THEN "ok" ELSE "bad"]
  BY DEF Disk
<1>3. CoreTypes /\ SideTypes
  BY DEF Base, LeaseInv
<1>4. PICK n \in Nat : /\ DOMAIN writes = 1..(n + 1) /\ DOMAIN writes' = 1..n
                       /\ w = writes[1] /\ \A i \in 1..n : writes'[i] = writes[i + 1]
  <2>1. writes \in Seq(Entry)
    BY <1>3 DEF CoreTypes
  <2> QED BY <1>1, <2>1, OldestGone
<1>5. 1 \in 1..(n + 1) /\ \A i \in 1..n : i + 1 \in 1..(n + 1) /\ i + 1 # 1
  OBVIOUS
<1>22. \A i, j \in 1..(n + 1) : i < j /\ i # 1 => j # 1
  OBVIOUS
<1>23. \A k, l \in 1..n : k + 1 < l + 1 => k < l
  OBVIOUS
<1>6. \A i \in 1..(n + 1) : i = 1 \/ \E k \in 1..n : i = k + 1
  <2> SUFFICES ASSUME NEW i \in 1..(n + 1), i # 1 PROVE \E k \in 1..n : i = k + 1
    OBVIOUS
  <2>1. i - 1 \in 1..n /\ i = (i - 1) + 1
    OBVIOUS
  <2> QED BY <2>1
<1>7. w \in Entry
  BY <1>3, <1>4, <1>5 DEF CoreTypes
<1>8. PICK v \in {"ok", "bad"} : /\ call' = IF w.by = None THEN call ELSE [call EXCEPT ![w.by] = [call[w.by] EXCEPT !.reply = v]]
                                /\ v = IF done THEN "ok" ELSE "bad"
  BY <1>2, Zenon
<1>9. w.by # None => w.by \in Caller /\ call[w.by].pc \in Waiting
                       /\ \A j \in 1..(n + 1) : writes[j].by = w.by => j = 1
  BY <1>4, <1>5, <1>7 DEF Entry, Base, LeaseInv, Waits
<1> HIDE DEF w
<1>10. \A c \in Caller : c # w.by => call'[c] = call[c]
  BY <1>3, <1>8 DEF CoreTypes
<1>11. w.by # None => call'[w.by] = [call[w.by] EXCEPT !.reply = v]
  BY <1>3, <1>8, <1>9 DEF CoreTypes
<1>12. Still
  <2> SUFFICES ASSUME NEW c \in Caller PROVE StillAt(c)
    BY DEF Still
  <2>1. CASE c # w.by
    BY <1>10, <2>1 DEF StillAt
  <2>2. CASE c = w.by
    <3>1. c # None
      BY DEF Caller
    <3>2. call'[c] = [call[c] EXCEPT !.reply = v] /\ call[c] \in Call
      BY <1>3, <1>11, <2>2, <3>1, Locals
    <3> QED BY <3>2 DEF StillAt, Call
  <2> QED BY <2>1, <2>2
<1>13. Shrinks
  BY <1>1, <1>4, <1>5 DEF Shrinks
<1>14. SameAttaches /\ \A u \in Tab : Queue(u)'
  BY <1>1, QueueStill DEF SameAttaches, Strong, Chromes
<1>15. Fades
  BY <1>1, <1>14 DEF Fades, Debugged, SameAttaches
<1>16. Chromes'
  BY <1>1, <1>14 DEF Strong, Chromes, SameAttaches
<1>17. Owners'
  <2> SUFFICES ASSUME NEW s \in Start PROVE OwnersAt(s)'
    BY DEF Owners
  <2>1. OwnersAt(s) /\ s \in Caller /\ s # None /\ s # Boot
    BY Callers DEF Strong, Owners
  <2>2. CASE s # w.by
    <3>1. call'[s] = call[s] /\ \A u \in Tab : attaches'[u] = attaches[u]
      BY <1>1, <1>10, <2>1, <2>2
    <3> QED BY <1>14, <2>1, <3>1, OwnerStill DEF SameAttaches
  <2>3. CASE s = w.by
    <3>1. call'[s].pc = call[s].pc /\ call[s].pc \in Waiting
      BY <1>9, <1>12, <2>1, <2>3 DEF Still, StillAt
    <3>2. call[s].pc # "attaching"
      BY <3>1 DEF Waiting
    <3>3. \A u \in Tab : AttachBy(u, s)' => TabOf[s] = u /\ attaches'[u] = s /\ call[s].pc = "late"
      <4> SUFFICES ASSUME NEW u \in Tab, AttachBy(u, s)' PROVE TabOf[s] = u /\ attaches'[u] = s /\ call[s].pc = "late"
        OBVIOUS
      <4>1. AttachBy(u, s) /\ attaches'[u] = attaches[u]
        BY <1>1, <1>14 DEF SameAttaches
      <4> QED BY <2>1, <3>2, <4>1, Zenon DEF OwnersAt
    <3> QED BY <3>1, <3>2, <3>3, Zenon DEF OwnersAt
  <2> QED BY <2>2, <2>3
<1>18. Intends'
  <2> SUFFICES ASSUME NEW s \in Start, call'[s].pc = "intending" PROVE IntendsAt(s)'
    BY DEF Intends
  <2>1. s \in Caller /\ s # None /\ call[s].pc = "intending"
    BY <1>12, Callers DEF Still, StillAt
  <2>2. ~Answered(s)
    BY <2>1 DEF NoneReady, Ready
  <2>3. call[s].reply = ""
    BY <2>2, Zenon DEF Answered
  <2>4. IntendsAt(s)
    BY <2>1 DEF Strong, Intends
  <2>5. PICK i \in 1..(n + 1) : /\ writes[i].by = s
                                /\ \A j \in 1..(n + 1) : j >= i => Armed(writes[j].snap, TabOf[s])
    BY <1>4, <2>3, <2>4, Zenon DEF IntendsAt
  <2>6. CASE s = w.by
    <3>1. i = 1
      BY <1>9, <2>1, <2>5, <2>6
    <3>2. \A j \in 1..(n + 1) : Armed(writes[j].snap, TabOf[s])
      BY <2>5, <3>1
    <3>3. \A j \in DOMAIN writes' : Armed(writes'[j].snap, TabOf[s])
      BY <1>4, <1>5, <3>2
    <3>4. done => Armed(saved', TabOf[s])
      BY <1>1, <1>4, <1>5, <3>2
    <3>5. call'[s].reply = v
      <4>1. call[s] \in Call /\ call'[s] = [call[s] EXCEPT !.reply = v]
        BY <1>3, <1>11, <2>1, <2>6, Locals
      <4> QED BY <4>1 DEF Call
    <3>6. v = "ok" => done
      BY <1>8
    <3>7. v # ""
      BY Zenon
    <3> QED BY <3>3, <3>4, <3>5, <3>6, <3>7, Zenon DEF IntendsAt, Armed
  <2>7. CASE s # w.by
    <3>1. call'[s] = call[s]
      BY <1>10, <2>1, <2>7
    <3>2. i # 1
      BY <1>4, <2>5, <2>7
    <3>3. PICK k \in 1..n : i = k + 1
      BY <1>6, <3>2
    <3>4. writes'[k].by = s
      BY <1>4, <2>5, <3>3
    <3>5. \A j \in 1..n : j >= k => Armed(writes'[j].snap, TabOf[s])
      <4> SUFFICES ASSUME NEW j \in 1..n, j >= k PROVE Armed(writes'[j].snap, TabOf[s])
        OBVIOUS
      <4>1. j + 1 \in 1..(n + 1) /\ j + 1 >= i
        BY <3>3
      <4> QED BY <1>4, <2>5, <4>1
    <3>6. \E l \in DOMAIN writes' : writes'[l].by = s /\ \A j \in DOMAIN writes' : j >= l => Armed(writes'[j].snap, TabOf[s])
      BY <1>4, <3>4, <3>5
    <3>7. call'[s].reply # "ok"
      BY <2>3, <3>1, Zenon
    <3> QED BY <3>6, <3>7, Zenon DEF IntendsAt, Armed
  <2> QED BY <2>6, <2>7
<1>19. Claims'
  <2> SUFFICES ASSUME NEW s \in Start, call'[s].pc = "intending", call'[s].reply = "", SeenOnce(s)'
               PROVE  \E c \in Caller : Follows(c, s)'
    BY Zenon DEF Claims
  <2>1. s \in Caller /\ s # None /\ call[s].pc = "intending"
    BY <1>12, Callers DEF Still, StillAt
  <2>2. SeenOnce(s)
    BY <1>1, <1>12 DEF SeenOnce, Still, StillAt
  <2>3. s # w.by
    <3> SUFFICES ASSUME s = w.by PROVE FALSE
      OBVIOUS
    <3>1. call[s] \in Call /\ call'[s] = [call[s] EXCEPT !.reply = v]
      BY <1>3, <1>11, <2>1, Locals
    <3>2. call'[s].reply = v
      BY <3>1 DEF Call
    <3>3. v # ""
      BY Zenon
    <3> QED BY <3>2, <3>3, Zenon
  <2>4. call'[s] = call[s]
    BY <1>10, <2>1, <2>3
  <2>5. call[s].reply = ""
    BY <2>4, Zenon
  <2>6. PICK c \in Caller : Follows(c, s)
    BY <2>1, <2>2, <2>5, Zenon DEF Strong, Claims
  <2>7. PICK i \in 1..(n + 1), j \in 1..(n + 1) : i < j /\ writes[i].by = s /\ writes[j].by = c
    BY <1>4, <2>6, Zenon DEF Follows
  <2>8. i # 1 /\ j # 1
    <3>1. writes[1].by # s
      BY <1>4, <2>3, Zenon
    <3>2. i # 1
      BY <2>7, <3>1, Zenon
    <3> QED BY <2>7, <3>2, <1>22, Zenon
  <2>9. PICK k \in 1..n, l \in 1..n : i = k + 1 /\ j = l + 1
    BY <1>6, <2>8
  <2>10. k < l /\ writes'[k].by = s /\ writes'[l].by = c
    <3>1. writes'[k].by = s /\ writes'[l].by = c
      BY <1>4, <2>7, <2>9
    <3>2. k + 1 < l + 1
      BY <2>7, <2>9, Zenon
    <3>3. k < l
      BY <1>23, <3>2, Zenon
    <3> QED BY <3>1, <3>3
  <2>11. c # w.by
    <3>1. c # None
      BY DEF Caller
    <3> QED BY <1>9, <2>7, <2>8, <3>1
  <2>12. call'[c] = call[c] /\ teardowns' = teardowns
    BY <1>1, <1>10, <2>11
  <2>13. \E x \in DOMAIN writes', y \in DOMAIN writes' : x < y /\ writes'[x].by = s /\ writes'[y].by = c
    BY <1>4, <2>10
  <2>14. Follows(c, s)'
    BY <2>6, <2>12, <2>13, Zenon DEF Follows
  <2> QED BY <2>14
<1>20. Sole'
  <2> SUFFICES ASSUME NEW s \in Start, call'[s].pc \in {"intending", "attaching"}, Answered(s)',
                      NEW c \in Caller, Ready(c)', c # s
               PROVE  FALSE
    BY DEF Sole
  <2>1. s = w.by
    <3> SUFFICES ASSUME s # w.by PROVE FALSE
      OBVIOUS
    <3>1. call'[s] = call[s] /\ s \in Caller
      BY <1>10, Callers
    <3>2. Answered(s)
      BY <3>1, Zenon DEF Answered
    <3>3. Ready(s)
      BY <3>1, <3>2 DEF Ready
    <3> QED BY <3>1, <3>3 DEF NoneReady
  <2>2. call'[c] = call[c] /\ call'[Boot].pc = call[Boot].pc
    BY <1>10, <2>1, Callers
  <2>3. UNCHANGED <<pen, ops>>
    BY <1>1 DEF Disk, pauseVars
  <2>4. (Answered(c)' <=> Answered(c)) /\ (Attaching(c)' <=> Attaching(c))
    BY <2>2, <2>3, Zenon DEF Answered, Attaching
  <2>5. Ready(c)
    BY <2>2, <2>3, <2>4 DEF Ready
  <2> QED BY <2>5 DEF NoneReady
<1>21. Sights'
  <2> SUFFICES ASSUME NEW c \in Caller, call'[c].pc \in Detacher PROVE SightsAt(c)'
    BY DEF Sights
  <2>1. call'[c].pc = call[c].pc /\ call'[c].tab = call[c].tab
    BY <1>12 DEF Still, StillAt, Detacher, Sweeping, Asleep
  <2>2. SightsAt(c)
    BY <2>1 DEF Strong, Sights
  <2> QED BY <1>1, <1>14, <2>1, <2>2 DEF SightsAt, SameAttaches
<1> QED BY <1>1, <1>12, <1>13, <1>15, <1>16, <1>17, <1>18, <1>19, <1>20, <1>21, AbroadCovers

\* onDetach (background.js 5405-5440): the tab that is no longer debugged was the
\* only one that Chrome knew of.
LEMMA OnDetachCovers ==
  ASSUME NEW t \in Tab, Ground(t), OnDetach(t)
  PROVE  Strong'
<1> DEFINE mine == t = intentional
           settled == IF cleanups[t] # None /\ revocation.tab = t THEN [revocation EXCEPT !.pending = FALSE] ELSE revocation
           other == lease # None /\ lease.tab # t
           takes == ~mine /\ lease # None /\ lease.tab = t
<1>1. t \in Caller /\ t \notin {Boot, Alarm} \cup Start
  BY DEF Caller
<1>2. PICK pc : pc = IF takes THEN "hard" ELSE IF Initialized THEN Noting(t, "idle") ELSE "uninitialized"
  OBVIOUS
<1> DEFINE r == [Fresh(pc) EXCEPT !.tab = t]
<1>3. /\ notice[t] # "none" /\ call[t].pc = "idle"
      /\ notice' = [notice EXCEPT ![t] = "none"]
      /\ detaches' = [detaches EXCEPT ![t] = None]
      /\ ops' = [ops EXCEPT ![t] = Disown(@, {"detach"})]
      /\ cleanups' = [cleanups EXCEPT ![t] = None]
      /\ lease' \in {lease, None}
      /\ IF mine \/ other THEN call' = call ELSE Enter(t, r)
      /\ UNCHANGED <<teardowns, saved, attached>>
  BY <1>2 DEF OnDetach
<1>4. /\ writes' = writes \/ writes' = Append(writes, [by |-> None, snap |-> Record(lease, settled, cleanups')])
      /\ attaches' = [attaches EXCEPT ![t] = None]
  BY DEF OnDetach
<1>5. takes => pc = "hard"
  BY <1>2
<1>6. ~takes => (pc = "uninitialized" /\ ~Initialized) \/ (pc \in {"idle", "noting"} /\ Initialized)
  <2>1. Noting(t, "idle") \in {"idle", "noting"}
    BY DEF Noting
  <2>2. CASE Initialized
    BY <1>2, <2>1, <2>2
  <2>3. CASE ~Initialized
    BY <1>2, <2>3
  <2> QED BY <2>2, <2>3
<1>7. r.pc = pc /\ r.plan = NoCleanup
  BY DEF Fresh
<1> HIDE DEF r, settled
<1>8. NoneReady /\ Base /\ Strong /\ CoreTypes /\ SideTypes
  BY <1>1, <1>3 DEF Ready, Ground, Base, LeaseInv
<1>9. \A d \in Caller : d # t => call'[d] = call[d]
  BY <1>1, <1>3, <1>8, Entered
<1>10. call'[t] = call[t] \/ (call'[t] = r /\ ~(mine \/ other))
  <2>1. CASE mine \/ other
    BY <1>3, <2>1
  <2>2. CASE ~(mine \/ other)
    <3>1. Enter(t, r)
      BY <1>3, <2>2
    <3> QED BY <1>1, <1>8, <2>2, <3>1, Entered
  <2> QED BY <2>1, <2>2
<1>11. pc \in {"hard", "uninitialized", "idle", "noting"}
  BY <1>5, <1>6
<1>12. call'[t].pc \in {"hard", "uninitialized", "idle", "noting"}
  BY <1>3, <1>7, <1>10, <1>11
<1>13. \A u \in Tab : call'[t].plan[u] \in {None, call[t].plan[u]}
  BY <1>7, <1>10 DEF NoCleanup
<1>14. /\ \A u \in Tab : cleanups'[u] = IF u = t THEN None ELSE cleanups[u]
       /\ \A u \in Tab : notice'[u] = IF u = t THEN "none" ELSE notice[u]
       /\ \A u \in Tab : detaches'[u] = IF u = t THEN None ELSE detaches[u]
       /\ \A u \in Tab : u # t => ops'[u] = ops[u]
  BY <1>3, <1>8 DEF CoreTypes, MemTypes, SideTypes, HandTypes, ChromeTypes
<1>15. Debugged(t) /\ t \notin attached /\ ~Attaches(t)
  BY <1>3, <1>8 DEF Debugged, Strong, Chromes
<1>16. \A u \in Tab : u # t => ~Debugged(u)
  BY <1>8, <1>15 DEF Strong, Single
<1>17. \A i \in DOMAIN ops'[t] : i \in DOMAIN ops[t] /\ ops'[t][i].kind = ops[t][i].kind
                                 /\ (ops'[t][i].kind = "detach" => ops'[t][i].by = None)
  <2>1. ops'[t] = Disown(ops[t], {"detach"})
    BY <1>3, <1>8 DEF SideTypes, ChromeTypes
  <2>2. \A i \in DOMAIN ops[t] : ops[t][i] \in Op
    BY <1>8, OpsOf
  <2>3. \A i \in DOMAIN ops[t] : [ops[t][i] EXCEPT !.by = None].kind = ops[t][i].kind
                                 /\ [ops[t][i] EXCEPT !.by = None].by = None
    BY <2>2 DEF Op
  <2> QED BY <2>1, <2>3 DEF Disown
<1>18. ~Attaches(t)'
  BY <1>15, <1>17 DEF Attaches
<1>19. \A u \in Tab : ~Attaches(u)' /\ ~Debugged(u)'
  <2> SUFFICES ASSUME NEW u \in Tab PROVE ~Attaches(u)' /\ ~Debugged(u)'
    OBVIOUS
  <2>1. CASE u = t
    BY <1>3, <1>14, <1>15, <1>18, <2>1 DEF Debugged
  <2>2. CASE u # t
    BY <1>3, <1>14, <1>16, <2>2 DEF Debugged, Attaches
  <2> QED BY <2>1, <2>2
<1>20. \A u \in Tab : \A b : ~AttachBy(u, b)'
  BY <1>19 DEF Attaches, AttachBy
<1>21. \A s \in Start : call'[s] = call[s] /\ call[s].pc # "intending"
  <2> SUFFICES ASSUME NEW s \in Start PROVE call'[s] = call[s] /\ call[s].pc # "intending"
    OBVIOUS
  <2>1. s \in Caller /\ s # t
    BY <1>1, Callers
  <2> QED BY <1>8, <1>9, <1>15, <2>1 DEF Strong, Enters, EntersAt, Between
<1>22. Chromes'
  <2> SUFFICES ASSUME NEW u \in Tab PROVE Queue(u)'
    BY <1>3, <1>15, <1>19 DEF Chromes, Debugged
  <2>1. CASE u = t
    <3>1. \A i \in DOMAIN ops'[t] : ops'[t][i].kind # "attach"
      BY <1>18 DEF Attaches
    <3> QED BY <1>17, <2>1, <3>1 DEF Queue
  <2>2. CASE u # t
    BY <1>8, <1>14, <2>2, QueueStill DEF Strong, Chromes
  <2> QED BY <2>1, <2>2
<1>23. Owners'
  <2> SUFFICES ASSUME NEW s \in Start PROVE OwnersAt(s)'
    BY DEF Owners
  <2>1. OwnersAt(s) /\ call'[s] = call[s] /\ TabOf[s] \in Tab
    BY <1>8, <1>21 DEF Strong, Owners
  <2>2. ~AttachBy(TabOf[s], s)
    BY <1>15, <1>16, <2>1, AttachedBy DEF Debugged
  <2>3. ~(call'[s].pc = "attaching" /\ call'[s].reply = "")
    BY <2>1, <2>2, Zenon DEF OwnersAt
  <2> QED BY <1>20, <2>3, Zenon DEF OwnersAt
<1>24. Sole'
  BY <1>8, <1>21, HushedSole
<1>25. Enters'
  <2> SUFFICES ASSUME NEW c \in Caller, Between(c)' PROVE EntersAt(c)'
    BY DEF Enters
  <2>1. \A d \in Caller : Between(d)' => Between(d) /\ call'[d] = call[d]
    BY <1>1, <1>9, <1>12 DEF Between, Taking
  <2>2. EntersAt(c) /\ call'[c] = call[c]
    BY <1>8, <2>1 DEF Strong, Enters
  <2> QED BY <1>3, <1>19, <2>1, <2>2 DEF EntersAt
<1>26. \A s \in Start : ~Engaged(s)'
  BY <1>20, <1>21 DEF Engaged
<1>27. Intends' /\ Records' /\ Claims'
  <2>1. Intends' /\ Records'
    BY <1>21, <1>26 DEF Intends, Records
  <2>2. Claims'
    BY <1>21, Zenon DEF Claims
  <2> QED BY <2>1, <2>2
<1>28. PICK n \in Nat, m \in Nat :
         /\ DOMAIN writes = 1..n /\ DOMAIN writes' = 1..m
         /\ \A i \in 1..m : (i \in 1..n /\ writes'[i] = writes[i]) \/
              (writes'[i].snap.lease = lease /\ writes'[i].snap.cleanups = cleanups')
  <2>1. writes \in Seq(Entry)
    BY <1>8 DEF CoreTypes
  <2>2. Len(writes) \in Nat /\ DOMAIN writes = 1..Len(writes)
    BY <2>1
  <2> DEFINE k == Len(writes)
  <2>5. k \in Nat /\ DOMAIN writes = 1..k
    BY <2>2
  <2>3. CASE writes' = writes
    <3> HIDE DEF k
    <3>1. DOMAIN writes' = 1..k /\ \A i \in 1..k : i \in 1..k /\ writes'[i] = writes[i]
      BY <2>3, <2>5
    <3> QED BY <2>5, <3>1
  <2>4. CASE writes' # writes
    <3> DEFINE w == [by |-> None, snap |-> Record(lease, settled, cleanups')]
    <3>1. w \in Entry /\ writes' = Append(writes, w)
      <4>1. writes' \in Seq(Entry) /\ writes' = Append(writes, w)
        BY <1>4, <2>4 DEF Ground, Base, LeaseInv, CoreTypes
      <4>2. lease \in Lease \cup {None} /\ cleanups' \in [Tab -> Cleanup \cup {None}]
        BY <1>8 DEF CoreTypes, MemTypes, Ground, Base, LeaseInv
      <4>3. settled \in Revocation
        BY <1>8 DEF settled, CoreTypes, MemTypes, Revocation
      <4> QED BY <4>1, <4>2, <4>3 DEF Entry, Record, Snapshot
    <3>2. w.snap.lease = lease /\ w.snap.cleanups = cleanups'
      BY DEF Record
    <3> HIDE DEF w
    <3>3. /\ DOMAIN writes' = 1..(k + 1) /\ writes'[k + 1] = w
          /\ \A i \in 1..k : writes'[i] = writes[i]
      BY <2>1, <3>1
    <3> HIDE DEF k
    <3>4. \A i \in 1..(k + 1) : i \in 1..k \/ i = k + 1
      BY <2>5
    <3>5. k + 1 \in Nat
      BY <2>5
    <3>6. \A i \in 1..(k + 1) : (i \in 1..k /\ writes'[i] = writes[i]) \/
              (writes'[i].snap.lease = lease /\ writes'[i].snap.cleanups = cleanups')
      BY <3>2, <3>3, <3>4
    <3> QED BY <2>5, <3>3, <3>5, <3>6
  <2> QED BY <2>3, <2>4
<1>29. Unknowns'
  <2> SUFFICES ASSUME NEW s \in Start, Raw(s)', NEW u \in Tab
               PROVE  /\ Foreign(cleanups'[u], s) /\ Foreign(saved'.cleanups[u], s)
                      /\ \A i \in DOMAIN writes' : Foreign(writes'[i].snap.cleanups[u], s)
                      /\ \A d \in Caller : Foreign(call'[d].plan[u], s)
    BY DEF Unknowns
  <2>1. Raw(s)
    BY <1>21 DEF Raw
  <2>2. /\ Foreign(cleanups[u], s) /\ Foreign(saved.cleanups[u], s)
        /\ \A i \in DOMAIN writes : Foreign(writes[i].snap.cleanups[u], s)
        /\ \A d \in Caller : Foreign(call[d].plan[u], s)
    BY <1>8, <2>1 DEF Strong, Unknowns
  <2>3. Foreign(cleanups'[u], s)
    BY <1>14, <2>2 DEF Foreign
  <2>4. \A i \in DOMAIN writes' : Foreign(writes'[i].snap.cleanups[u], s)
    BY <1>28, <2>2, <2>3
  <2>5. \A d \in Caller : Foreign(call'[d].plan[u], s)
    <3> SUFFICES ASSUME NEW d \in Caller PROVE Foreign(call'[d].plan[u], s)
      OBVIOUS
    <3>1. CASE d = t
      BY <1>13, <2>2, <3>1 DEF Foreign
    <3>2. CASE d # t
      BY <1>9, <2>2, <3>2
    <3> QED BY <3>1, <3>2
  <2> QED BY <1>3, <2>2, <2>3, <2>4, <2>5
<1>30. Sights'
  <2> SUFFICES ASSUME NEW c \in Caller, call'[c].pc \in Detacher PROVE SightsAt(c)'
    BY DEF Sights
  <2>1. c # t /\ call'[c] = call[c]
    BY <1>9, <1>12 DEF Detacher, Sweeping
  <2>2. SightsAt(c)
    BY <1>8, <2>1 DEF Strong, Sights
  <2> QED BY <1>19, <1>20, <2>1, <2>2 DEF SightsAt, Debugged
<1>31. (Loaded' <=> Loaded) /\ (Initialized' <=> Initialized) /\ call'[Boot] = call[Boot] /\ call'[Alarm] = call[Alarm]
  <2>1. Boot \in Caller /\ Alarm \in Caller /\ Boot # t /\ Alarm # t
    BY <1>1, Callers
  <2>2. call'[Boot] = call[Boot] /\ call'[Alarm] = call[Alarm]
    BY <1>9, <2>1
  <2> QED BY <2>2 DEF Loaded, Initialized
<1>32. Rests'
  <2>1. ~Loaded => lease = None /\ ~Initialized
    BY <1>8, UnderLease, UpLoaded
  <2>2. ~Loaded' => \A c \in Caller \ {Boot, Alarm} : call'[c].pc \in AtRest \cup {"done", "uninitialized"}
    <3> SUFFICES ASSUME ~Loaded, NEW c \in Caller \ {Boot, Alarm}
                 PROVE  call'[c].pc \in AtRest \cup {"done", "uninitialized"}
      BY <1>31
    <3>1. CASE c = t
      BY <1>3, <1>5, <1>6, <1>7, <1>10, <2>1, <3>1 DEF AtRest
    <3>2. CASE c # t
      BY <1>8, <1>9, <3>2 DEF Strong, Rests
    <3> QED BY <3>1, <3>2
  <2>3. call'[Boot].pc \in Asleep \cup {"looking", "losing"} => call'[Alarm].pc = "idle" /\ cleanups' = NoCleanup
    <3> SUFFICES ASSUME call[Boot].pc \in Asleep \cup {"looking", "losing"}
                 PROVE  call[Alarm].pc = "idle" /\ cleanups' = NoCleanup
      BY <1>31
    <3>1. call[Alarm].pc = "idle" /\ cleanups = NoCleanup
      BY <1>8 DEF Strong, Rests
    <3> QED BY <1>3, <3>1 DEF NoCleanup
  <2>4. \A u \in Tab : call'[u].pc = "uninitialized" => call[u].pc = "uninitialized" \/ ~Initialized
    <3> SUFFICES ASSUME NEW u \in Tab, call'[u].pc = "uninitialized" PROVE call[u].pc = "uninitialized" \/ ~Initialized
      OBVIOUS
    <3>1. CASE u = t
      BY <1>3, <1>5, <1>6, <1>7, <1>10, <3>1
    <3>2. CASE u # t
      <4>1. u \in Caller
        BY DEF Caller
      <4> QED BY <1>9, <3>2, <4>1
    <3> QED BY <3>1, <3>2
  <2>5. ~Initialized' \/ (\E u \in Tab : call'[u].pc = "uninitialized") => \A s \in Start : call'[s].pc \in AtRest
    BY <1>8, <1>21, <1>31, <2>4 DEF Strong, Rests
  <2> QED BY <1>19, <2>2, <2>3, <2>5 DEF Rests
<1>33. Places'
  <2>1. Placed(lease) /\ Placed(saved.lease) /\ \A i \in DOMAIN writes : Placed(writes[i].snap.lease)
    BY <1>8 DEF Strong, Places
  <2>2. Placed(lease)' /\ Placed(saved.lease)'
    BY <1>3, <2>1 DEF Placed
  <2>3. \A i \in DOMAIN writes' : Placed(writes'[i].snap.lease)
    BY <1>28, <2>1
  <2> QED BY <1>8, <1>21, <1>31, <2>2, <2>3 DEF Places, Strong, Placed
<1>34. Memory'
  <2>1. call'[Boot].pc \in Viewing => lease' = None /\ call'[Boot].tab \in Tab
    BY <1>3, <1>8, <1>31 DEF Strong, Memory
  <2> QED BY <1>19, <2>1 DEF Memory
<1>35. Stored' /\ Single'
  BY <1>19 DEF Stored, StoredAt, Single
<1> QED BY <1>22, <1>23, <1>24, <1>25, <1>27, <1>29, <1>30, <1>32, <1>33, <1>34, <1>35 DEF Strong

------------------------------------------------------------------------------
(* Restarts.                                                                *)

\* Who is left behind is at rest, and has nothing in hand.
LEMMA RestartCalls ==
  ASSUME CoreTypes, Restarts
  PROVE  /\ call'[Boot].pc = "down" /\ call'[Alarm].pc = "idle"
         /\ \A c \in Caller : /\ call'[c].pc \in {"idle", "granted", "refused", "done", "gone", "down"}
                              /\ c # Boot => call'[c].pc # "down"
                              /\ \A u \in Tab : call'[c].plan[u] \in {None, call[c].plan[u]}
         /\ \A s \in Start : Raw(s)' => Raw(s)
<1>1. \A pc : Fresh(pc).pc = pc /\ Fresh(pc).back = "idle" /\ \A u \in Tab : Fresh(pc).plan[u] = None
  BY DEF Fresh, NoCleanup
<1>2. Boot \in Caller /\ Alarm \in Caller /\ Boot \notin Start \cup Stops /\ Alarm \notin Start \cup Stops /\ Boot # Alarm
  BY Callers DEF Caller
<1>3. \A c \in Caller : call'[c] =
          IF c \in Start \cup Stops
          THEN IF call[c].pc \in {"idle", "granted", "refused", "done"} THEN call[c] ELSE Fresh("gone")
          ELSE Fresh(IF c = Boot THEN "down" ELSE "idle")
  BY DEF Restarts
<1>4. \A c \in Caller : \/ call'[c] = call[c] /\ call[c].pc \in {"idle", "granted", "refused", "done"} /\ c \in Start \cup Stops
                        \/ call'[c] = Fresh("gone") /\ c \in Start \cup Stops
                        \/ call'[c] = Fresh("down") /\ c = Boot
                        \/ call'[c] = Fresh("idle") /\ c \notin Start \cup Stops \cup {Boot}
  BY <1>2, <1>3
<1>5. call'[Boot].pc = "down" /\ call'[Alarm].pc = "idle"
  BY <1>1, <1>2, <1>4
<1>6. \A c \in Caller : /\ call'[c].pc \in {"idle", "granted", "refused", "done", "gone", "down"}
                        /\ c # Boot => call'[c].pc # "down"
                        /\ \A u \in Tab : call'[c].plan[u] \in {None, call[c].plan[u]}
  BY <1>1, <1>2, <1>4
<1>7. \A s \in Start : Raw(s)' => Raw(s)
  <2> SUFFICES ASSUME NEW s \in Start, Raw(s)' PROVE Raw(s)
    OBVIOUS
  <2>1. s \in Caller /\ s # Boot
    BY <1>2, Callers
  <2>2. CASE call'[s] = call[s]
    BY <2>2 DEF Raw
  <2>3. CASE call'[s] = Fresh("gone")
    BY <1>1, <2>3 DEF Raw
  <2> QED BY <1>4, <2>1, <2>2, <2>3
<1> QED BY <1>5, <1>6, <1>7

\* After a restart the store finds what is still debugged, and nobody else holds it.
LEMMA RestartCovers ==
  ASSUME Base, Strong, Restarts, saved' \in {saved, Blank}, saved' # saved => \A u \in Tab : ~Debugged(u)',
         \A u \in Tab : /\ Debugged(u)' => Debugged(u)
                        /\ Attaches(u)' => Attaches(u)
                        /\ u \in attached' => u \in attached
                        /\ notice'[u] \in {"none", notice[u]},
         \A u \in Tab : \A i, j \in DOMAIN ops'[u] :
           /\ ops'[u][i].by = None
           /\ ops'[u][i].kind = "attach" /\ ops'[u][j].kind = "attach" => i = j
  PROVE  Strong'
<1>1. CoreTypes
  BY DEF Base, LeaseInv
<1>2. /\ lease' = None /\ writes' = <<>> /\ cleanups' = NoCleanup
      /\ \A u \in Tab : cleanups'[u] = None
  BY DEF Restarts, NoCleanup
<1>3. DOMAIN writes' = {}
  BY <1>2
<1>4. call'[Boot].pc = "down" /\ call'[Alarm].pc = "idle"
  BY <1>1, RestartCalls
<1>5. \A c \in Caller : /\ call'[c].pc \in {"idle", "granted", "refused", "done", "gone", "down"}
                        /\ c # Boot => call'[c].pc # "down"
                        /\ \A u \in Tab : call'[c].plan[u] \in {None, call[c].plan[u]}
  BY <1>1, RestartCalls
<1>6. \A s \in Start : Raw(s)' => Raw(s)
  BY <1>1, RestartCalls
<1>7. \A s \in Start : s \in Caller /\ s # Boot /\ s # None
  BY Callers
<1>8. \A s \in Start : \A u \in Tab : ~AttachBy(u, s)'
  BY <1>7 DEF AttachBy
<1>9. \A c \in Caller : ~Between(c)'
  BY <1>5 DEF Between, Taking
<1>10. Chromes'
  BY <1>2 DEF Strong, Chromes, Queue
<1>11. Owners' /\ Claims' /\ Sole' /\ Intends'
  <2>1. \A s \in Start : call'[s].pc \notin {"attaching", "intending"}
    BY <1>5, <1>7
  <2>2. Owners' /\ Claims'
    BY <1>8, <2>1, Zenon DEF Owners, OwnersAt, Claims
  <2> QED BY <2>1, <2>2 DEF Sole, Intends
<1>12. Enters'
  BY <1>9 DEF Enters
<1>13. Records'
  BY <1>5, <1>7, <1>8 DEF Records, Engaged
<1>14. Unknowns'
  <2> SUFFICES ASSUME NEW s \in Start, Raw(s), NEW u \in Tab
               PROVE  /\ Foreign(cleanups'[u], s) /\ Foreign(saved'.cleanups[u], s)
                      /\ \A d \in Caller : Foreign(call'[d].plan[u], s)
    BY <1>3, <1>6 DEF Unknowns
  <2>1. Foreign(saved.cleanups[u], s) /\ \A d \in Caller : Foreign(call[d].plan[u], s)
    BY DEF Strong, Unknowns
  <2>2. Foreign(None, s) /\ Blank.cleanups[u] = None
    BY DEF Foreign, Blank, NoCleanup
  <2>3. Foreign(saved'.cleanups[u], s)
    BY <2>1, <2>2
  <2>4. \A d \in Caller : Foreign(call'[d].plan[u], s)
    BY <1>5, <2>1, <2>2
  <2> QED BY <1>2, <2>2, <2>3, <2>4
<1>15. Sights'
  BY <1>5 DEF Sights, Detacher, Sweeping
<1>16. Rests'
  <2>1. ~Loaded' /\ ~Initialized'
    BY <1>4 DEF Loaded, Initialized, Asleep
  <2>2. \A c \in Caller : call'[c].pc \in AtRest \cup {"down"} /\ (c # Boot => call'[c].pc \in AtRest)
    BY <1>5 DEF AtRest
  <2>3. \A u \in Tab : call'[u].pc # "uninitialized"
    BY <1>5 DEF Caller
  <2> QED BY <1>2, <1>4, <1>7, <2>1, <2>2, <2>3 DEF Rests
<1>17. Places'
  <2>1. Placed(saved.lease) /\ Placed(Blank.lease)
    BY DEF Strong, Places, Placed, Blank
  <2>2. Placed(saved.lease)' /\ Placed(lease)'
    BY <1>2, <2>1 DEF Placed
  <2>3. call'[Boot].pc \notin Looking /\ \A s \in Start : call'[s].pc # "initializing"
    BY <1>4, <1>5, <1>7 DEF Looking
  <2> QED BY <1>3, <2>2, <2>3 DEF Places
<1>18. Memory'
  BY <1>4 DEF Memory, Loaded, Asleep, Viewing
<1>19. Stored'
  <2>1. CASE saved' = saved
    BY <1>3, <2>1 DEF Strong, Stored, StoredAt
  <2>2. CASE saved' # saved
    <3>1. \A u \in Tab : ~Debugged(u)' /\ ~Attaches(u)'
      BY <2>2 DEF Debugged
    <3> QED BY <1>3, <3>1 DEF Stored, StoredAt
  <2> QED BY <2>1, <2>2
<1>20. Single'
  BY DEF Strong, Single
<1> QED BY <1>10, <1>11, <1>12, <1>13, <1>14, <1>15, <1>16, <1>17, <1>18, <1>19, <1>20 DEF Strong

\* The service worker ends, and Chrome goes on with what it has to run.
LEMMA WorkerRestartsCovers ==
  ASSUME Base, Strong, WorkerRestarts
  PROVE  Strong'
<1>1. Restarts /\ UNCHANGED <<saved, attached, notice>> /\ ops' = [t \in Tab |-> Disown(ops[t], {"attach", "detach"})]
  BY DEF WorkerRestarts
<1>2. \A u \in Tab : \A i \in DOMAIN ops'[u] :
        i \in DOMAIN ops[u] /\ ops'[u][i].kind = ops[u][i].kind /\ ops'[u][i].by = None
  <2> SUFFICES ASSUME NEW u \in Tab, NEW i \in DOMAIN ops'[u]
               PROVE  i \in DOMAIN ops[u] /\ ops'[u][i].kind = ops[u][i].kind /\ ops'[u][i].by = None
    OBVIOUS
  <2>1. i \in DOMAIN ops[u]
    BY <1>1 DEF Disown
  <2>2. ops[u][i] \in Op
    BY <2>1, OpsOf DEF Base
  <2>3. ops[u][i].kind \in {"attach", "detach"}
    BY <2>2 DEF Op
  <2>4. ops'[u][i] = [ops[u][i] EXCEPT !.by = None]
    BY <1>1, <2>1, <2>3 DEF Disown
  <2> QED BY <2>1, <2>2, <2>4 DEF Op
<1>3. \A u \in Tab : Attaches(u)' => Attaches(u)
  BY <1>2 DEF Attaches
<1>4. \A u \in Tab : Debugged(u)' => Debugged(u)
  BY <1>1, <1>3 DEF Debugged
<1>5. \A u \in Tab : \A i, j \in DOMAIN ops'[u] :
           /\ ops'[u][i].by = None
           /\ ops'[u][i].kind = "attach" /\ ops'[u][j].kind = "attach" => i = j
  BY <1>2 DEF Strong, Chromes, Queue
<1> QED BY <1>1, <1>3, <1>4, <1>5, RestartCovers

\* The browser quits: nothing is debugged, and the session store is empty.
LEMMA BrowserRestartsCovers ==
  ASSUME Base, Strong, BrowserRestarts
  PROVE  Strong'
<1>1. Restarts /\ saved' = Blank /\ attached' = {} /\ ops' = [t \in Tab |-> <<>>] /\ notice' = [t \in Tab |-> "none"]
  BY DEF BrowserRestarts
<1>2. \A u \in Tab : ops'[u] = <<>> /\ DOMAIN ops'[u] = {}
  BY <1>1
<1>3. \A u \in Tab : ~Attaches(u)' /\ ~Debugged(u)'
  BY <1>1, <1>2 DEF Attaches, Debugged
<1>4. \A u \in Tab : \A i, j \in DOMAIN ops'[u] :
           /\ ops'[u][i].by = None
           /\ ops'[u][i].kind = "attach" /\ ops'[u][j].kind = "attach" => i = j
  BY <1>2
<1> QED BY <1>1, <1>3, <1>4, RestartCovers

------------------------------------------------------------------------------
(* Every step.                                                              *)

\* What went wrong once is remembered: what was orderly after a step was so

\* before it.
LEMMA OrderlyBefore ==
  ASSUME [Next]_vars, Orderly'
  PROVE  Orderly
<1> DEFINE Grows == overrun \subseteq overrun' /\ forgotten \subseteq forgotten'
<1>1. ASSUME NEW c \in Caller, StopStep(c) \/ Release(c) \/ Notes(c, "done") \/ Notes(c, "idle") PROVE Grows
  BY <1>1 DEF StopStep, Release, Notes, StopInitialized, StopDetaches, StopConfirms, StopEnds, past
<1>2. ASSUME NEW c \in Caller, SweepStep(c) \/ AlarmRings \/ Broken(c) PROVE Grows
  BY <1>2 DEF SweepStep, SweepSkips, SweepDetaches, SweepChecks, SweepWritten, AlarmRings, Broken, past
<1>3. ASSUME NEW s \in Start, StartStep(s) \/ StartBreaks(s) \/ StartCall(s) \/ CancelStart(s) PROVE Grows
  <2>1. CASE StartRefused(s) \/ StartRenews(s) \/ StartReplaces(s) \/ StartIntends(s) \/ StartBusy(s)
    BY <2>1 DEF StartRefused, StartRenews, StartReplaces, StartIntends, StartBusy, past
  <2>2. CASE StartAttaches(s) \/ StartWithdraws(s) \/ StartLeases(s) \/ StartGivesUp(s) \/ StartSweeps(s)
    BY <2>2 DEF StartAttaches, StartWithdraws, StartLeases, StartGivesUp, StartSweeps, MarkUnknown, past
  <2>3. CASE StartSettles(s) \/ StartReady(s) \/ StartBreaks(s) \/ StartCommits(s) \/ StartCall(s) \/ CancelStart(s)
    BY <2>3 DEF StartSettles, StartReady, StartBreaks, StartCommits, StartCall, CancelStart, MarkUnknown, past
  <2> QED BY <1>3, <2>1, <2>2, <2>3 DEF StartStep
<1>4. ASSUME BeatStep PROVE Grows
  BY <1>4 DEF BeatStep, BeatBegins, BeatHolds, BeatEnds, BeatFails, past
<1>5. ASSUME NEW t \in Tab, DetachStep(t) PROVE Grows
  BY <1>1, <1>5 DEF DetachStep, OnDetach, HardInitialized, HardWrites, Notes, past
<1>6. ASSUME BootWakes \/ BootStep PROVE Grows
  BY <1>6 DEF BootStep, BootWakes, BootReads, BootLoads, BootTakesUp, BootLost, BootEnds, BootVerifies, BootFails,
              BootDrops, BootLoses, past
<1>7. ASSUME NEW c \in Caller, Goes(c) PROVE Grows
  BY <1>1, <1>2, <1>3, <1>4, <1>5, <1>6, <1>7 DEF Goes
<1>8. ASSUME NEW c \in Caller, Comes(c) PROVE Grows
  BY <1>1, <1>3, <1>8 DEF Comes
<1>9. ASSUME Outside PROVE Grows
  BY <1>3, <1>9 DEF Outside, RunChrome, ChromeDetaches, Disk, Pauses, past
<1>10. CASE WorkerRestarts \/ BrowserRestarts \/ UNCHANGED vars
  BY <1>10 DEF WorkerRestarts, BrowserRestarts, Restarts, vars, past, Orderly
<1>11. CASE Grows
  BY <1>11 DEF Orderly
<1> HIDE DEF Grows
<1> QED BY <1>7, <1>8, <1>9, <1>10, <1>11 DEF Next

\* The next stretch of a call keeps the invariant.
LEMMA GoesCovers ==
  ASSUME NEW c \in Caller, Ground(c), Goes(c), Orderly'
  PROVE  Strong'
<1>1. CASE Broken(c)
  BY <1>1, BrokenCovers
<1>2. CASE c \in Start /\ (StartStep(c) \/ StartBreaks(c))
  BY <1>2, StartStepCovers
<1>3. CASE c \in Stops /\ Notes(c, "done")
  BY <1>3, NotesCovers
<1>4. CASE c \in Tab /\ DetachStep(c)
  BY <1>4, OnDetachCovers, HardInitializedCovers, HardWritesCovers, NotesCovers DEF DetachStep
<1>5. CASE c = Alarm /\ AlarmRings
  BY <1>5, AlarmCovers
<1>6. CASE c = Beat /\ BeatStep
  BY <1>6, BeatCovers, FailsCovers DEF BeatStep
<1>7. CASE c = Boot /\ (BootWakes \/ BootReads)
  <2>1. call[Boot].pc \in {"down", "reading"}
    BY <1>7 DEF BootWakes, BootReads, Wake, Read, Ground, Base, LeaseInv, Loading
  <2>2. NoneReady
    BY <1>7, <2>1 DEF Ready, Ground
  <2> QED BY <1>7, <2>2, AsideSteps DEF Ground
<1>8. CASE c = Boot /\ (BootLoads \/ BootTakesUp \/ BootLost \/ BootEnds \/ BootVerifies \/ BootFails)
  BY <1>8, BootLoadsCovers, BootTakesUpCovers, BootLostCovers, BootEndsCovers, FailsCovers
<1>9. CASE c = Boot /\ \E seen \in BOOLEAN : BootDrops(seen) \/ BootLoses(seen)
  BY <1>9, BootDropsCovers, BootLosesCovers
<1>10. CASE c \in Start \cup Stops \cup {Beat, Boot} /\ StopStep(c)
  <2>1. c \notin Tab \cup {Alarm}
    BY <1>10
  <2> QED BY <1>10, <2>1, StopStepCovers
<1>11. CASE SweepStep(c)
  BY <1>11, SweepStepCovers
<1> QED BY <1>1, <1>2, <1>3, <1>4, <1>5, <1>6, <1>7, <1>8, <1>9, <1>10, <1>11 DEF Goes, BootStep

\* Nothing is done at all.
LEMMA IdleCovers ==
  ASSUME Base, Strong, UNCHANGED vars
  PROVE  Strong'
<1>1. UNCHANGED <<lease, cleanups, teardowns, attaches, detaches, call, ops, saved, writes, attached, notice, pen>>
  BY DEF vars, pauseVars, control, store, chrome
<1>2. \A c \in Caller : (Answered(c)' <=> Answered(c)) /\ (Attaching(c)' <=> Attaching(c))
  BY <1>1, Zenon DEF Answered, Attaching
<1>3. \A c \in Caller : Ready(c)' <=> Ready(c)
  BY <1>1, <1>2 DEF Ready
<1>4. Sole'
  <2>1. \A s \in Start : Answered(s)' <=> Answered(s)
    BY <1>2, Callers
  <2> QED BY <1>1, <1>3, <2>1 DEF Strong, Sole
<1> QED BY <1>1, <1>4, AsideCovers

\* Every step keeps the invariant, as long as no start went on over a change of

\* control and no record was lost.
LEMMA CoversNext ==
  ASSUME Base, Base', Strong, [Next]_vars, Orderly'
  PROVE  Strong'
<1>1. ASSUME NEW c \in Caller, Ready(c) \/ NoneReady, Goes(c) PROVE Strong'
  BY <1>1, GoesCovers DEF Ground
<1>2. ASSUME NEW c \in Caller, NoneReady, Comes(c) PROVE Strong'
  BY <1>2, StartCallCovers, ReleaseCovers DEF Comes, Ground
<1>3. CASE NoneReady /\ Outside
  <2>1. CASE (\E s \in Start : CancelStart(s)) \/ (\E done \in BOOLEAN : Pauses(done))
    BY <1>3, <2>1, AsideSteps
  <2>2. CASE \E done \in BOOLEAN : Disk(done)
    BY <1>3, <2>2, DiskCovers
  <2>3. CASE \E t \in Tab : \E why \in {"canceled_by_user", "target_closed"} : ChromeDetaches(t, why)
    BY <1>3, <2>3, ChromeDetachesCovers
  <2>4. CASE \E t \in Tab : \E done \in BOOLEAN : RunChrome(t, done)
    BY <1>3, <2>4, ChromeAttachesCovers, ChromeDropsCovers
  <2> QED BY <1>3, <2>1, <2>2, <2>3, <2>4 DEF Outside
<1>4. CASE WorkerRestarts \/ BrowserRestarts
  BY <1>4, WorkerRestartsCovers, BrowserRestartsCovers
<1>5. CASE UNCHANGED vars
  BY <1>5, IdleCovers
<1> QED BY <1>1, <1>2, <1>3, <1>4, <1>5 DEF Next

\* The invariant holds at the start.
LEMMA CoversInit == Init => Strong
<1> SUFFICES ASSUME Init PROVE Strong
  OBVIOUS
<1>1. /\ lease = None /\ saved = Blank /\ writes = <<>> /\ attached = {} /\ cleanups = NoCleanup
      /\ ops = [t \in Tab |-> <<>>] /\ notice = [t \in Tab |-> "none"]
      /\ call = [c \in Caller |-> Fresh(IF c = Boot THEN "down" ELSE "idle")]
  BY DEF Init
<1>2. \A c \in Caller : /\ call[c].pc = (IF c = Boot THEN "down" ELSE "idle")
                        /\ call[c].back = "idle" /\ \A u \in Tab : call[c].plan[u] = None
  BY <1>1 DEF Fresh, NoCleanup
<1>3. DOMAIN writes = {} /\ \A u \in Tab : DOMAIN ops[u] = {} /\ cleanups[u] = None
  BY <1>1 DEF NoCleanup
<1>4. \A u \in Tab : ~Attaches(u) /\ ~Debugged(u) /\ \A b : ~AttachBy(u, b)
  BY <1>1, <1>3 DEF Attaches, AttachBy, Debugged
<1>5. \A s \in Start : s \in Caller /\ s # Boot /\ call[s].pc = "idle"
  BY <1>2, Callers
<1>6. saved.lease = None /\ \A u \in Tab : saved.cleanups[u] = None
  BY <1>1 DEF Blank, NoCleanup
<1>7. Chromes
  BY <1>1, <1>3, <1>4 DEF Chromes, Queue
<1>8. Owners /\ Claims
  BY <1>4, <1>5, Zenon DEF Owners, OwnersAt, Claims
<1>9. Enters /\ Sole /\ Intends
  BY <1>2, <1>5 DEF Enters, Between, Taking, Sole, Intends
<1>10. Records
  BY <1>4, <1>5 DEF Records, Engaged
<1>11. Unknowns
  BY <1>2, <1>3, <1>6 DEF Unknowns, Foreign
<1>12. Sights
  BY <1>2 DEF Sights, Detacher, Sweeping
<1>13. Rests
  <2>1. ~Initialized /\ ~Loaded /\ Boot \in Caller /\ Alarm \in Caller /\ Alarm # Boot
    BY <1>2, Callers DEF Initialized, Loaded, Asleep
  <2>2. \A c \in Caller \ {Boot} : call[c].pc \in AtRest
    BY <1>2 DEF AtRest
  <2>3. call[Alarm].pc = "idle"
    BY <1>2, <2>1
  <2>4. \A s \in Start : call[s].pc \in AtRest
    BY <1>5, <2>2
  <2> QED BY <1>1, <1>4, <2>1, <2>2, <2>3, <2>4 DEF Rests
<1>14. Places
  <2>1. call[Boot].pc \notin Looking
    BY <1>2, Callers DEF Looking
  <2> QED BY <1>1, <1>3, <1>5, <1>6, <2>1 DEF Places, Placed
<1>15. Memory
  <2>1. ~Loaded /\ call[Boot].pc \notin Viewing
    BY <1>2, Callers DEF Loaded, Asleep, Viewing
  <2> QED BY <2>1 DEF Memory
<1>16. Stored /\ Single
  BY <1>3, <1>4 DEF Stored, StoredAt, Single
<1> QED BY <1>7, <1>8, <1>9, <1>10, <1>11, <1>12, <1>13, <1>14, <1>15, <1>16 DEF Strong

\* While everything is orderly, what is stored, what is in memory and what is

\* debugged fit.
LEMMA Fitting == Spec => [](Base /\ (Orderly => Strong))
<1>1. Init => Base /\ (Orderly => Strong)
  BY LeaseInit, SideInit, CoversInit DEF Base
<1>2. Base /\ (Orderly => Strong) /\ [Next]_vars => (Base /\ (Orderly => Strong))'
  <2> SUFFICES ASSUME Base, Orderly => Strong, [Next]_vars PROVE Base' /\ (Orderly' => Strong')
    OBVIOUS
  <2>1. Base'
    BY LeaseNext, SideNext DEF Base, LeaseInv
  <2>2. ASSUME Orderly' PROVE Strong'
    <3>1. Orderly
      BY <2>2, OrderlyBefore
    <3> QED BY <2>1, <2>2, <3>1, CoversNext
  <2> QED BY <2>1, <2>2
<1> QED BY <1>1, <1>2, PTL DEF Spec

\* The stored record alone finds every debugged tab again, at each moment at which

\* the worker may die, whatever stops, timeouts, failed writes and detaches came
\* in between.
THEOREM CrashCoveredAlways == Spec => []CrashCovered
<1>1. Base /\ (Orderly => Strong) => CrashCovered
  <2> SUFFICES ASSUME Base, Strong, NEW t \in attached
               PROVE  (saved.lease # None /\ saved.lease.tab = t) \/ saved.cleanups[t] # None
    <3>1. Orderly <=> overrun = {} /\ forgotten = {}
      BY DEF Orderly
    <3> QED BY <3>1 DEF CrashCovered
  <2>1. t \in Tab
    BY DEF Base, SideTypes, ChromeTypes
  <2> QED BY <2>1 DEF Strong, Stored, StoredAt, Debugged, Finds
<1> QED BY <1>1, Fitting, PTL

\* So does the memory, when the initialization is over: every debugged tab is
\* somebody's, and the next stop or the alarm will look for it.
THEOREM CoveredAlways == Spec => []Covered
<1>1. Base /\ (Orderly => Strong) => Covered
  <2> SUFFICES ASSUME Base, Strong, Initialized, NEW t \in attached
               PROVE  Leased(t) \/ cleanups[t] # None
    BY DEF Orderly, Covered
  <2>1. t \in Tab
    BY DEF Base, SideTypes, ChromeTypes
  <2>2. Loaded
    BY UpLoaded
  <2> QED BY <2>1, <2>2 DEF Strong, Memory, Debugged
<1> QED BY <1>1, Fitting, PTL

\* One tab at most is debugged, whichever way the starts of the popup and of the
\* server interleave.
THEOREM OneDebuggerAlways == Spec => []OneDebugger
<1>1. Base /\ (Orderly => Strong) => OneDebugger
  <2> SUFFICES ASSUME Base, Strong PROVE Cardinality(attached) <= 1
    BY DEF Orderly, OneDebugger
  <2>1. attached \subseteq Tab
    BY DEF Base, SideTypes, ChromeTypes
  <2>2. \A t, u \in attached : t = u
    BY <2>1 DEF Strong, Single, Debugged
  <2>3. CASE attached = {}
    BY <2>3, FS_EmptySet
  <2>4. ASSUME NEW t \in attached PROVE Cardinality(attached) <= 1
    <3>1. attached = {t}
      BY <2>2
    <3>2. Cardinality({t}) = 1
      BY FS_Singleton
    <3> QED BY <3>1, <3>2
  <2> QED BY <2>3, <2>4
<1> QED BY <1>1, Fitting, PTL
================================================================================
