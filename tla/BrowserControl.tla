---------------------------- MODULE BrowserControl ----------------------------
(* The control lease of extension/background.js and the life of the debugger*)
(* attachment under it: startControl, stopControl, the verified cleanups,   *)
(* the onDetach listener, the heartbeat, and initializeControlState after   *)
(* the service worker restarts.  The human pause is HumanPause.             *)
(*                                                                          *)
(* The worker runs one continuation at a time: an action is a stretch of a  *)
(* function between two awaits, and a call may find at its next stretch     *)
(* that others ran meanwhile.  Chrome runs the debugger calls on a tab in   *)
(* the order in which they were made.                                       *)
EXTENDS HumanPause, FiniteSets

CONSTANTS
    Tab, Owner,         \* tabs, and the sessions that may own a lease
    Start, Stops,       \* calls of startControl, and of stopControl by itself
    Alarm, Beat, Boot,  \* the retry of the cleanups, the heartbeat, initializeControlState
    TabOf,              \* the tab that a start asks for
    Explicit,           \* the starts by browser.control.start or by the popup
    Cancelable,         \* the starts that run under a command of the server
    None,
    MaxCrashes, MaxFails, MaxEvents  \* bounds

ASSUME ControlAssumption ==
    /\ Stopper \subseteq Stops \cup Tab
    /\ TabOf \in [Start -> Tab] /\ None \notin Owner
    /\ Explicit \subseteq Start /\ Cancelable \subseteq Start
    /\ Alarm # Beat /\ Alarm # Boot /\ Beat # Boot
    /\ Start \cap Stops = {} /\ Start \cap Tab = {} /\ Stops \cap Tab = {}
    /\ {Alarm, Beat, Boot, None} \cap (Start \cup Stops \cup Tab) = {}
    /\ None \notin {Alarm, Beat, Boot}

Caller == Start \cup Stops \cup Tab \cup {Alarm, Beat, Boot}

Lease      == [tab : Tab, owner : Owner, epoch : Nat, by : Start]
Cleanup    == [attach : BOOLEAN, settled : BOOLEAN, confirms : 0..1, token : Start \cup {None}]
Revocation == [tab : Tab \cup {None}, explicit : BOOLEAN, pending : BOOLEAN]
Snapshot   == [lease : Lease \cup {None}, revocation : Revocation,
               cleanups : [Tab -> Cleanup \cup {None}]]
Op         == [kind : {"attach", "detach"}, by : Caller \cup {None}]

\* Nothing is neither a lease nor a cleanup.
ASSUME NoneApart == None \notin Lease \cup Cleanup

VARIABLES
    lease, epoch,          \* controlLease, controlEpoch
    revocation,            \* lastControlRevocation
    cleanups, teardowns,   \* pendingControlCleanups, pendingControlTeardowns
    attaches, detaches,    \* pendingDebuggerAttaches, pendingDebuggerDetaches
    intentional,           \* intentionalDetachTabId
    canceled,              \* the starts whose command was canceled
    call,                  \* where every call stands
    saved, writes,         \* storage.session, and the chain controlStateWrite
    attached, ops, notice, \* Chrome: debugged tabs, calls it has to run, onDetach to deliver
    crashes, fails, events,
    ended,                 \* history: the sessions whose stop reported success
    overrun,               \* history: the starts that went on over a change of control
    forgotten              \* history: the starts whose record was lost, see Robbed and Unread

control == <<lease, epoch, revocation, cleanups, teardowns, attaches, detaches,
             intentional, canceled>>
chrome  == <<attached, ops, notice>>
budget  == <<crashes, fails, events>>
store   == <<saved, writes>>
past    == <<ended, overrun, forgotten>>
vars    == <<pauseVars, control, call, store, chrome, budget, past>>

NoRevocation == [tab |-> None, explicit |-> FALSE, pending |-> FALSE]
NoCleanup    == [t \in Tab |-> None]
Free         == [t \in Tab |-> None]

Plain == [attach |-> FALSE, settled |-> FALSE, confirms |-> 0, token |-> None]
Unknown(s, settled) == [attach |-> TRUE, settled |-> settled, confirms |-> 0, token |-> s]
Revoked(t, pending) == [tab |-> t, explicit |-> TRUE, pending |-> pending]

Fresh(pc) == [pc |-> pc, tab |-> None, owner |-> None, by |-> None, epoch |-> 0, prior |-> NoRevocation,
              plan |-> NoCleanup, back |-> "idle", reply |-> ""]
Blank == [lease |-> None, revocation |-> NoRevocation, cleanups |-> NoCleanup]

Init ==
    /\ PauseInit
    /\ lease = None /\ epoch = 0 /\ revocation = NoRevocation
    /\ cleanups = NoCleanup /\ teardowns = Free /\ attaches = Free /\ detaches = Free
    /\ intentional = None /\ canceled = {}
    /\ call = [c \in Caller |-> Fresh(IF c = Boot THEN "down" ELSE "idle")]
    /\ saved = Blank
    /\ writes = <<>>
    /\ attached = {} /\ ops = [t \in Tab |-> <<>>] /\ notice = [t \in Tab |-> "none"]
    /\ crashes = 0 /\ fails = 0 /\ events = 0
    /\ ended = {} /\ overrun = {} /\ forgotten = {}

------------------------------------------------------------------------------
(* Vocabulary.                                                              *)

Initialized == call[Boot].pc = "up"

\* Mutant: an attach that is on its way does not count.
QuietButAttaches ==
    /\ \A t \in Tab : cleanups[t] # None => cleanups[t].attach
    /\ teardowns = Free /\ detaches = Free

\* assertNoPendingControlLifecycle passes.
Quiet ==
    /\ cleanups = NoCleanup
    /\ teardowns = Free /\ attaches = Free /\ detaches = Free

Enter(c, there)  == call' = [call EXCEPT ![c] = there]
Go(c, pc)        == call' = [call EXCEPT ![c].pc = pc]
Await(c, pc)     == call' = [call EXCEPT ![c].pc = pc, ![c].reply = ""]
Answered(c)      == call[c].reply # ""

\* Mutant: a lease that is gone is left out of the record.
RecordOfLease(l, r, k) ==
    [lease |-> IF l = None THEN saved.lease ELSE l, revocation |-> r, cleanups |-> k]

\* persistControlState: what is stored is what the memory holds at the call; c
\* waits for it, or nobody does.
Record(l, r, k) == [lease |-> l, revocation |-> r, cleanups |-> k]

Persist(c) == writes' = Append(writes, [by |-> c, snap |-> Record(lease', revocation', cleanups')])

\* chrome.debugger.detach, unless one is outstanding (boundedDebuggerDetach).
IssueDetach(c, t) ==
    IF detaches[t] # None THEN UNCHANGED <<detaches, ops>>
    ELSE /\ detaches' = [detaches EXCEPT ![t] = c]
         /\ ops' = [ops EXCEPT ![t] = Append(@, [kind |-> "detach", by |-> c])]

\* debuggerDetachConfirmed, after the detach settled or timed out and when
\* getTargets answers or not.
DetachConfirmed(t, seen) == seen /\ t \notin attached /\ detaches[t] = None

\* What fails or times out is counted.
Counts(failed) ==
    /\ failed => fails < MaxFails
    /\ fails' = IF failed THEN fails + 1 ELSE fails

\* Where a call goes when what it waited for has succeeded, or not.
Back(there, ok) ==
    IF ok THEN there
    ELSE CASE there = "replaced" -> "refused" [] there = "up" -> "broken" [] OTHER -> there

\* retryPendingControlCleanups starts for c, or finds nothing that it may do.
Busy(t) == teardowns[t] # None \/ attaches[t] # None

EnterSweep(c, back) ==
    Enter(c, IF \A t \in Tab : cleanups[t] = None \/ Busy(t) THEN Fresh(back)
             ELSE [Fresh("sweep") EXCEPT !.plan = cleanups, !.back = back])

------------------------------------------------------------------------------
(* stopControl.                                                             *)

\* synchronouslyTakeControlLease finds a lease, and the stop records that its
\* debugger has to be detached.
StopTakes(c, explicit, back) ==
    /\ lease # None
    /\ lease' = None
    /\ epoch' = epoch + 1
    /\ revocation' = [tab |-> lease.tab, explicit |-> explicit, pending |-> TRUE]
    /\ teardowns' = [teardowns EXCEPT ![lease.tab] = c]
    /\ cleanups' = [cleanups EXCEPT ![lease.tab] = Plain]
    /\ Persist(c)
    /\ Enter(c, [Fresh("stopping") EXCEPT !.tab = lease.tab, !.by = lease.by, !.back = back,
                                            !.owner = call[c].owner])
    /\ UNCHANGED <<attaches, detaches, intentional, canceled, saved, chrome>>

\* It finds none: not even after initializeControlState, which may still run.
StopFindsNone(c, back) ==
    /\ lease = None
    /\ IF Initialized
       THEN epoch' = epoch + 2 /\ EnterSweep(c, back)
       ELSE epoch' = epoch + 1 /\ Enter(c, [Fresh("uninitialized") EXCEPT !.back = back])
    /\ UNCHANGED <<lease, revocation, cleanups, teardowns, attaches, detaches,
                   intentional, canceled, store, chrome>>

StopFrom(c, explicit, back) == StopTakes(c, explicit, back) \/ StopFindsNone(c, back)

\* initializeControlState is over.
StopInitialized(c) ==
    /\ call[c].pc = "uninitialized"
    /\ Initialized
    /\ \/ StopTakes(c, TRUE, call[c].back)
       \/ /\ lease = None
          /\ epoch' = epoch + 1
          /\ EnterSweep(c, call[c].back)
          /\ UNCHANGED <<lease, revocation, cleanups, teardowns, attaches, detaches,
                         intentional, canceled, store, chrome>>
    /\ UNCHANGED <<pauseVars, budget, past>>

\* It has failed, and with it the call that waited for it.
Broken(c) ==
    /\ call[c].pc = "uninitialized" /\ call[Boot].pc = "broken"
    /\ Enter(c, Fresh(Back(call[c].back, FALSE)))
    /\ UNCHANGED <<pauseVars, control, store, chrome, budget, past>>

\* The record and the pause are written, or could not be: detach.
StopDetaches(c) ==
    /\ call[c].pc = "stopping" /\ Answered(c)
    /\ c \in Stops \cap Stopper => pen[c] \in Resting
    /\ intentional' = call[c].tab
    /\ IssueDetach(c, call[c].tab)
    /\ Go(c, "detaching")
    /\ UNCHANGED <<pauseVars, lease, epoch, revocation, cleanups, teardowns, attaches,
                   canceled, store, attached, notice, budget, past>>

\* The detach settled or timed out, and the targets were asked for.
StopConfirms(c, seen) ==
    LET t == call[c].tab
        confirmed == DetachConfirmed(t, seen)
    IN  /\ call[c].pc = "detaching"
        /\ Counts(~seen \/ detaches[t] # None)
        /\ intentional' = None
        /\ cleanups' = [cleanups EXCEPT ![t] = IF confirmed THEN None ELSE Plain]
        /\ revocation' = [revocation EXCEPT !.pending = ~confirmed]
        /\ lease' = lease
        /\ Persist(c)
        /\ Await(c, "reporting")
        /\ UNCHANGED <<pauseVars, epoch, teardowns, attaches, detaches, canceled,
                       saved, chrome, crashes, events, past>>

\* The outcome is written, or the stop fails.
StopEnds(c) ==
    LET ok == call[c].reply = "ok"
    IN  /\ call[c].pc = "reporting" /\ Answered(c)
        /\ teardowns' = [teardowns EXCEPT ![call[c].tab] = IF @ = c THEN None ELSE @]
        /\ ended' = IF ok THEN ended \cup {call[c].by} ELSE ended
        /\ Enter(c, [Fresh(Back(call[c].back, ok)) EXCEPT
                        !.tab = IF c \in Stopper THEN call[c].tab ELSE None,
                        !.owner = IF call[c].back = "replaced" /\ ok THEN call[c].owner ELSE None])
        /\ UNCHANGED <<pauseVars, lease, epoch, revocation, cleanups, attaches, detaches,
                       intentional, canceled, store, chrome, budget, overrun, forgotten>>

\* Where a call goes that may have latched the pause.
Noting(c, over) == IF c \in Stopper THEN "noting" ELSE over

\* Release control in the popup, with the pause it latches; and without one,
\* browser.control.stop, an expired lease, a lost or rotated transport.
Release(c) ==
    /\ c \in Stops /\ call[c].pc = "idle"
    /\ events < MaxEvents /\ events' = events + 1
    /\ IF c \in Stopper THEN Stop(c) ELSE loaded # "down" /\ UNCHANGED pauseVars
    /\ StopFrom(c, TRUE, Noting(c, "done"))
    /\ UNCHANGED <<crashes, fails, past>>

\* noteHumanPausePersistenceFailure, if the pause was latched and not kept.
Notes(c, over) ==
    /\ c \in Stopper /\ call[c].pc = "noting"
    /\ pen[c] \in Resting
    /\ IF pen[c] = "lost"
       THEN /\ revocation' = [revocation EXCEPT !.tab = call[c].tab, !.explicit = TRUE]
            /\ UNCHANGED <<lease, cleanups>>
            /\ Persist(None)
       ELSE UNCHANGED <<lease, revocation, cleanups, writes>>
    /\ Enter(c, Fresh(over))
    /\ UNCHANGED <<pauseVars, epoch, teardowns, attaches, detaches, intentional, canceled,
                   saved, chrome, budget, past>>

StopStep(c) ==
    \/ StopInitialized(c) \/ StopDetaches(c) \/ StopEnds(c)
    \/ \E seen \in BOOLEAN : StopConfirms(c, seen)

------------------------------------------------------------------------------
(* retryPendingControlCleanups.                                             *)

\* The loop is through with t, and goes on or ends.
SweepsOn(c, t) ==
    LET rest == [call[c].plan EXCEPT ![t] = None]
    IN  Enter(c, IF rest = NoCleanup THEN Fresh(call[c].back) ELSE [call[c] EXCEPT !.pc = "sweep", !.plan = rest])

SweepSkips(c, t) ==
    /\ call[c].pc = "sweep" /\ call[c].plan[t] # None
    /\ Busy(t)
    /\ SweepsOn(c, t)
    /\ UNCHANGED <<pauseVars, control, store, chrome, budget, past>>

SweepDetaches(c, t) ==
    /\ call[c].pc = "sweep" /\ call[c].plan[t] # None
    /\ ~Busy(t)
    /\ teardowns' = [teardowns EXCEPT ![t] = c]
    /\ intentional' = IF detaches[t] = None THEN t ELSE intentional
    /\ IssueDetach(c, t)
    /\ call' = [call EXCEPT ![c].tab = t,
                            ![c].pc = IF detaches[t] = None THEN "sweeping" ELSE "checking"]
    /\ UNCHANGED <<pauseVars, lease, epoch, revocation, cleanups, attaches, canceled,
                   store, attached, notice, budget, past>>

\* Mutant: one confirmation is enough.
ResolvedAtOnce(rec, n) == ~rec.attach \/ rec.settled \/ n >= 1

\* Mutant: three are needed.
ResolvedLate(rec, n) == ~rec.attach \/ rec.settled \/ n >= 3

\* An attach whose outcome nobody saw needs two confirmations a second apart.
Resolved(rec, n) == ~rec.attach \/ rec.settled \/ n >= 2

\* The start whose record of t is overwritten or deleted by a call that holds
\* another one's: only two of the places that take a record compare the token.
Robbed(t, token) == IF cleanups[t] = None THEN {} ELSE {cleanups[t].token} \ {None, token}

\* The start whose stored lease is left out of what is written, because the
\* alarm does not wait for the initialization to be through with it.
Unread(t) == IF call[Boot].pc = "dropping" /\ call[Boot].tab # t THEN {call[Boot].by} ELSE {}

PendingOf(t, p) == revocation' = IF revocation.tab = t THEN [revocation EXCEPT !.pending = p] ELSE revocation

\* What the loop writes is built from the record it copied when it began.
SweepChecks(c, seen, apart) ==
    LET t   == call[c].tab
        rec == call[c].plan[t]
        n   == rec.confirms + (IF rec.confirms = 0 \/ apart THEN 1 ELSE 0)
    IN  /\ call[c].pc \in {"sweeping", "checking"}
        /\ Counts(~seen \/ (call[c].pc = "sweeping" /\ detaches[t] # None))
        /\ intentional' = IF call[c].pc = "sweeping" THEN None ELSE intentional
        /\ lease' = lease
        /\ IF DetachConfirmed(t, seen)
           THEN IF ~Resolved(rec, n)
                THEN cleanups' = [cleanups EXCEPT ![t] = [rec EXCEPT !.confirms = n]] /\ revocation' = revocation
                ELSE /\ cleanups' = [cleanups EXCEPT ![t] = None]
                     /\ IF cleanups[t] # None THEN PendingOf(t, FALSE) ELSE revocation' = revocation
           ELSE cleanups' = [cleanups EXCEPT ![t] = rec] /\ PendingOf(t, TRUE)
        /\ IF cleanups[t] = None /\ cleanups'[t] = None
           THEN /\ call' = [call EXCEPT ![c].pc = "swept", ![c].reply = "ok"]
                /\ UNCHANGED <<writes, forgotten>>
           ELSE /\ Await(c, "swept") /\ Persist(c)
                /\ forgotten' = forgotten \cup Robbed(t, rec.token) \cup Unread(t)
        /\ UNCHANGED <<pauseVars, epoch, teardowns, attaches, detaches, canceled,
                       saved, chrome, crashes, events, ended, overrun>>

\* Mutant: the loop never gives up its claim on the tab.
SweepWrittenKeepsClaim(c) ==
    LET t == call[c].tab
    IN  /\ call[c].pc = "swept" /\ Answered(c)
        /\ IF call[c].reply = "ok" THEN SweepsOn(c, t) ELSE Enter(c, Fresh(Back(call[c].back, FALSE)))
        /\ UNCHANGED <<pauseVars, lease, epoch, revocation, cleanups, teardowns, attaches, detaches,
                       intentional, canceled, store, chrome, budget, past>>

\* A write that fails ends the loop.
SweepWritten(c) ==
    LET t == call[c].tab
    IN  /\ call[c].pc = "swept" /\ Answered(c)
        /\ teardowns' = [teardowns EXCEPT ![t] = IF @ = c THEN None ELSE @]
        /\ IF call[c].reply = "ok" THEN SweepsOn(c, t) ELSE Enter(c, Fresh(Back(call[c].back, FALSE)))
        /\ UNCHANGED <<pauseVars, lease, epoch, revocation, cleanups, attaches, detaches,
                       intentional, canceled, store, chrome, budget, past>>

SweepStep(c) ==
    \/ \E t \in Tab : SweepSkips(c, t) \/ SweepDetaches(c, t)
    \/ \E seen, apart \in BOOLEAN : SweepChecks(c, seen, apart)
    \/ SweepWritten(c)

\* The alarm of every thirty seconds, and the timers of a second.
AlarmRings ==
    /\ call[Alarm].pc = "idle"
    /\ \E t \in Tab : cleanups[t] # None /\ ~Busy(t)
    /\ EnterSweep(Alarm, "idle")
    /\ UNCHANGED <<pauseVars, control, store, chrome, budget, past>>

------------------------------------------------------------------------------
(* startControl.                                                            *)

\* The authority that s holds since its lease was made or renewed.
Holds(s) ==
    /\ lease # None /\ lease.by = call[s].by /\ lease.epoch = call[s].epoch
    /\ epoch = call[s].epoch /\ s \notin canceled

Refuse(s) == Enter(s, Fresh("refused"))

StartCall(s) ==
    /\ call[s].pc = "idle"
    /\ Initialized
    /\ \E o \in Owner : Enter(s, IF Forbidden THEN Fresh("refused") ELSE [Fresh("open") EXCEPT !.owner = o])
    /\ UNCHANGED <<pauseVars, control, store, chrome, budget, past>>

StartRefused(s) ==
    /\ call[s].pc = "open" /\ ~Quiet
    /\ Refuse(s)
    /\ UNCHANGED <<pauseVars, control, store, chrome, budget, past>>

Own(s) == lease # None /\ lease.tab = TabOf[s] /\ lease.owner = call[s].owner

\* The lease is the caller's already, on the same tab.
StartRenews(s) ==
    /\ call[s].pc = "open" /\ Quiet /\ Own(s)
    /\ IF lease.epoch # epoch \/ s \in canceled
       THEN Refuse(s) /\ UNCHANGED <<revocation, writes>>
       ELSE /\ revocation' = IF s \in Explicit THEN NoRevocation ELSE revocation
            /\ UNCHANGED <<lease, cleanups>>
            /\ Persist(s)
            /\ Enter(s, [Fresh("committing") EXCEPT !.by = lease.by, !.epoch = epoch])
    /\ UNCHANGED <<pauseVars, lease, epoch, cleanups, teardowns, attaches, detaches,
                   intentional, canceled, saved, chrome, budget, past>>

\* Another lease is stopped first.
StartReplaces(s) ==
    /\ call[s].pc = "open" /\ Quiet /\ lease # None /\ ~Own(s)
    /\ LET theirs == lease.owner # call[s].owner
       IN  StopTakes(s, theirs, IF theirs /\ s \notin Explicit THEN "refused" ELSE "replaced")
    /\ UNCHANGED <<pauseVars, budget, past>>

\* The intent to attach is recorded before the attach.
StartIntends(s) ==
    LET t == TabOf[s]
        open == \/ call[s].pc = "open" /\ Quiet /\ lease = None
                \/ call[s].pc = "replaced" /\ Quiet
        barred == \/ s \notin Explicit /\ revocation.tab = t /\ revocation.explicit
                  \/ s \in canceled \/ Forbidden
    IN  /\ open
        /\ IF barred
           THEN Refuse(s) /\ UNCHANGED <<revocation, cleanups, writes>>
           ELSE /\ cleanups' = [cleanups EXCEPT ![t] = Unknown(s, FALSE)]
                /\ revocation' = Revoked(t, TRUE)
                /\ lease' = lease
                /\ Persist(s)
                /\ Enter(s, [Fresh("intending") EXCEPT !.prior = revocation, !.owner = call[s].owner])
        /\ UNCHANGED <<pauseVars, lease, epoch, teardowns, attaches, detaches,
                       intentional, canceled, saved, chrome, budget, past>>

StartBusy(s) ==
    /\ call[s].pc = "replaced" /\ ~Quiet
    /\ Refuse(s)
    /\ UNCHANGED <<pauseVars, control, store, chrome, budget, past>>

MineNow(s) == cleanups[TabOf[s]] # None /\ cleanups[TabOf[s]].token = s

\* Mutant: the attach does not wait for the record of its intent.
StartAttachesAtOnce(s) ==
    LET t == TabOf[s]
    IN  /\ call[s].pc = "intending" /\ call[s].reply # "bad"
        /\ s \notin canceled /\ ~Forbidden
        /\ ops' = [ops EXCEPT ![t] = Append(@, [kind |-> "attach", by |-> s])]
        /\ attaches' = [attaches EXCEPT ![t] = s]
        /\ Enter(s, [Fresh("attaching") EXCEPT !.epoch = epoch, !.owner = call[s].owner])
        /\ UNCHANGED <<pauseVars, lease, epoch, revocation, cleanups, teardowns, detaches,
                       intentional, canceled, store, attached, notice, budget, past>>

\* The intent is written: attach.  The record of it is not, or the start was
\* canceled or paused meanwhile: it is taken back.
StartAttaches(s) ==
    LET t == TabOf[s]
    IN  /\ call[s].pc = "intending" /\ call[s].reply = "ok"
        /\ s \notin canceled /\ ~Forbidden
        /\ ops' = [ops EXCEPT ![t] = Append(@, [kind |-> "attach", by |-> s])]
        /\ attaches' = [attaches EXCEPT ![t] = s]
        /\ Enter(s, [Fresh("attaching") EXCEPT !.epoch = epoch, !.owner = call[s].owner])
        /\ UNCHANGED <<pauseVars, lease, epoch, revocation, cleanups, teardowns, detaches,
                       intentional, canceled, store, attached, notice, budget, past>>

StartWithdraws(s) ==
    LET t == TabOf[s]
    IN  /\ call[s].pc = "intending" /\ Answered(s)
        /\ call[s].reply = "bad" \/ s \in canceled \/ Forbidden
        /\ cleanups' = [cleanups EXCEPT ![t] = IF MineNow(s) THEN None ELSE @]
        /\ revocation' = IF revocation = Revoked(t, TRUE) THEN call[s].prior ELSE revocation
        /\ lease' = lease
        /\ Persist(None)
        /\ Refuse(s)
        /\ UNCHANGED <<pauseVars, epoch, teardowns, attaches, detaches, intentional,
                       canceled, saved, chrome, budget, past>>

\* The debugger is attached and nothing has changed: the lease begins.
StartLeases(s) ==
    LET t == TabOf[s]
    IN  /\ call[s].pc = "attaching" /\ call[s].reply = "ok"
        /\ epoch = call[s].epoch /\ s \notin canceled /\ ~Forbidden
        /\ attaches' = [attaches EXCEPT ![t] = IF @ = s THEN None ELSE @]
        /\ epoch' = epoch + 1
        /\ lease' = [tab |-> t, owner |-> call[s].owner, epoch |-> epoch', by |-> s]
        /\ Enter(s, [Fresh("initializing") EXCEPT !.by = s, !.epoch = epoch'])
        /\ UNCHANGED <<pauseVars, revocation, cleanups, teardowns, detaches, intentional,
                       canceled, store, chrome, budget, past>>

\* markUnknownAttachCleanup
MarkUnknown(s, settled) ==
    /\ cleanups' = [cleanups EXCEPT ![TabOf[s]] = Unknown(s, settled)]
    /\ revocation' = Revoked(TabOf[s], TRUE)
    /\ forgotten' = forgotten \cup Robbed(TabOf[s], s)

\* Chrome has yet to answer the attach of s.
Attaching(s) == \E i \in DOMAIN ops[TabOf[s]] : ops[TabOf[s]][i] = [kind |-> "attach", by |-> s]

\* The attach is rejected; or it is given up, by a timeout or by a cancellation,
\* and settles later.
StartGivesUp(s) ==
    /\ call[s].pc = "attaching" /\ call[s].reply # "ok"
    /\ Counts(~Answered(s) /\ s \notin canceled)
    /\ epoch' = epoch + 1
    /\ MarkUnknown(s, FALSE)
    /\ lease' = lease
    /\ Persist(s)
    /\ Enter(s, Fresh(IF Answered(s) THEN "rejected" ELSE "late"))
    /\ UNCHANGED <<pauseVars, teardowns, attaches, detaches, intentional, canceled,
                   saved, chrome, crashes, events, ended, overrun>>

\* settleUnknownDebuggerAttach begins, after the attach was rejected, has
\* settled late, or came back to a control that has changed.
StartSettles(s) ==
    LET t == TabOf[s]
        changed == epoch # call[s].epoch \/ s \in canceled \/ Forbidden
    IN  /\ \/ call[s].pc = "attaching" /\ call[s].reply = "ok" /\ changed
           \/ call[s].pc = "rejected" /\ Answered(s)
           \/ call[s].pc = "late" /\ Answered(s) /\ ~Attaching(s)
        /\ IF attaches[t] \notin {None, s}
           THEN Refuse(s) /\ UNCHANGED <<cleanups, revocation, attaches, writes, forgotten>>
           ELSE /\ attaches' = [attaches EXCEPT ![t] = None]
                /\ MarkUnknown(s, TRUE)
                /\ lease' = lease
                /\ Persist(s)
                /\ Enter(s, Fresh("settling"))
        /\ UNCHANGED <<pauseVars, lease, epoch, teardowns, detaches, intentional, canceled,
                       saved, chrome, budget, ended, overrun>>

StartSweeps(s) ==
    /\ call[s].pc = "settling" /\ Answered(s)
    /\ EnterSweep(s, "refused")
    /\ UNCHANGED <<pauseVars, control, store, chrome, budget, past>>

\* The document is verified and the frames are set up: the record of the intent
\* goes.  A step that fails after control has changed raises, but two failures
\* of the frames are swallowed before control is looked at: one by a debugger
\* that is gone, and one by frames that were too slow.
StartReady(s) ==
    LET t == TabOf[s]
    IN  /\ call[s].pc = "initializing"
        /\ cleanups' = [cleanups EXCEPT ![t] = None]
        /\ revocation' = NoRevocation
        /\ lease' = lease
        /\ Persist(s)
        /\ Await(s, "committing")
        /\ overrun' = IF Holds(s) THEN overrun ELSE overrun \cup {s}
        /\ UNCHANGED <<pauseVars, epoch, teardowns, attaches, detaches, intentional,
                       canceled, saved, chrome, budget, ended, forgotten>>

\* A step fails: whatever lease there is now is stopped.  A debugger command
\* that times out stops it once more than that.
StartBreaks(s) ==
    /\ \/ call[s].pc = "initializing" /\ \E back \in {"refused", "undoing"} : StopFrom(s, TRUE, back)
       \/ call[s].pc = "undoing" /\ StopFrom(s, TRUE, "refused")
       \/ call[s].pc = "uncommitted" /\ Answered(s) /\ StopFrom(s, TRUE, "refused")
    /\ UNCHANGED <<pauseVars, budget, past>>

\* The write of the commit, or of the renewal, is answered.
StartCommits(s) ==
    /\ call[s].pc = "committing" /\ Answered(s)
    /\ IF call[s].reply = "bad" /\ call[s].by = s
       THEN /\ MarkUnknown(s, FALSE)
            /\ lease' = lease
            /\ Persist(s)
            /\ Enter(s, Fresh("uncommitted"))
       ELSE /\ Enter(s, Fresh(IF call[s].reply = "ok" /\ Holds(s) THEN "granted" ELSE "refused"))
            /\ UNCHANGED <<lease, cleanups, revocation, writes, forgotten>>
    /\ UNCHANGED <<pauseVars, epoch, teardowns, attaches, detaches, intentional, canceled,
                   saved, chrome, budget, ended, overrun>>

\* The server cancels the command of s; browser.control.start timing out there
\* also moves the epoch on.
CancelStart(s) ==
    /\ s \in Cancelable \ canceled
    /\ call[s].pc \notin {"idle", "granted", "refused", "gone", "late", "rejected"}
    /\ canceled' = canceled \cup {s}
    /\ \E late \in BOOLEAN : epoch' = IF late /\ s \in Explicit THEN epoch + 1 ELSE epoch
    /\ UNCHANGED <<pauseVars, lease, revocation, cleanups, teardowns, attaches, detaches,
                   intentional, call, store, chrome, budget, past>>

StartStep(s) ==
    \/ StartRefused(s) \/ StartRenews(s) \/ StartReplaces(s) \/ StartIntends(s) \/ StartBusy(s)
    \/ StartAttaches(s) \/ StartWithdraws(s) \/ StartLeases(s) \/ StartGivesUp(s)
    \/ StartSettles(s) \/ StartSweeps(s) \/ StartReady(s) \/ StartCommits(s)

------------------------------------------------------------------------------
(* The heartbeat.                                                           *)

BeatBegins ==
    /\ call[Beat].pc = "idle" /\ Initialized /\ lease # None
    /\ Enter(Beat, [Fresh("beating") EXCEPT !.by = lease.by, !.epoch = lease.epoch])
    /\ UNCHANGED <<pauseVars, control, store, chrome, budget, past>>

BeatHolds ==
    /\ call[Beat].pc = "beating"
    /\ Holds(Beat) /\ lease.tab \in attached
    /\ UNCHANGED <<lease, revocation, cleanups>>
    /\ Persist(Beat)
    /\ Await(Beat, "beaten")
    /\ UNCHANGED <<pauseVars, epoch, teardowns, attaches, detaches, intentional, canceled,
                   saved, chrome, budget, past>>

BeatEnds ==
    /\ call[Beat].pc = "beaten" /\ call[Beat].reply = "ok" /\ Holds(Beat)
    /\ Enter(Beat, Fresh("idle"))
    /\ UNCHANGED <<pauseVars, control, store, chrome, budget, past>>

\* The lease has expired, the document or the debugger does not answer, the
\* write failed, or the authority is another by now.
BeatFails ==
    /\ call[Beat].pc = "beating" \/ (call[Beat].pc = "beaten" /\ Answered(Beat))
    /\ StopFrom(Beat, TRUE, "idle")
    /\ UNCHANGED <<pauseVars, budget, past>>

BeatStep == BeatBegins \/ BeatHolds \/ BeatEnds \/ BeatFails

------------------------------------------------------------------------------
(* Chrome, and the onDetach listener.                                       *)

\* Somebody's own detach of t is over, and getTargets is asked.
Asking(t) ==
    \E c \in Caller :
        /\ call[c].pc \in {"detaching", "sweeping", "checking", "dropping"} /\ call[c].tab = t
        /\ \A i \in DOMAIN ops[t] : ops[t][i] # [kind |-> "detach", by |-> c]

\* The oldest debugger call on t is run.  Its answer does not overtake the
\* event of an earlier detach, nor an attach the answer of getTargets.
RunChrome(t, done) ==
    LET op == Head(ops[t])
    IN  /\ ops[t] # <<>> /\ notice[t] = "none"
        /\ op.kind = "attach" => ~Asking(t)
        /\ ops' = [ops EXCEPT ![t] = Tail(@)]
        /\ IF op.kind = "attach"
           THEN /\ done => t \notin attached
                /\ attached' = IF done THEN attached \cup {t} ELSE attached
                /\ detaches' = detaches
                /\ call' = IF op.by \in Start /\ call[op.by].pc = "attaching"
                           THEN [call EXCEPT ![op.by].reply = IF done THEN "ok" ELSE "bad"]
                           ELSE call
           ELSE /\ done
                /\ attached' = attached \ {t}
                /\ detaches' = [detaches EXCEPT ![t] = IF @ = op.by THEN None ELSE @]
                /\ call' = call
        /\ UNCHANGED <<pauseVars, lease, epoch, revocation, cleanups, teardowns, attaches,
                       intentional, canceled, store, notice, budget, past>>

\* The user cancels in Chrome's own warning, or the tab is gone.
ChromeDetaches(t, why) ==
    /\ t \in attached /\ notice[t] = "none"
    /\ events < MaxEvents /\ events' = events + 1
    /\ attached' = attached \ {t}
    /\ notice' = [notice EXCEPT ![t] = why]
    /\ UNCHANGED <<pauseVars, control, call, store, ops, crashes, fails, past>>

\* The calls of no one who waits for them any more.
Disown(queue, kinds) == [i \in DOMAIN queue |->
    IF queue[i].kind \in kinds THEN [queue[i] EXCEPT !.by = None] ELSE queue[i]]

\* The listener: the record of a cleanup goes, and unless the detach is the
\* bridge's own, hardRevokeDetached takes the lease.
OnDetach(t) ==
    LET mine == t = intentional
        user == ~mine /\ notice[t] = "canceled_by_user" /\ t \in Stopper
        confirmed == cleanups[t] # None
        settled == IF confirmed /\ revocation.tab = t THEN [revocation EXCEPT !.pending = FALSE] ELSE revocation
        other == lease # None /\ lease.tab # t
        takes == ~mine /\ lease # None /\ lease.tab = t
    IN  /\ notice[t] # "none" /\ call[t].pc = "idle"
        /\ notice' = [notice EXCEPT ![t] = "none"]
        /\ IF user THEN Stop(t) ELSE loaded # "down" /\ UNCHANGED pauseVars
        /\ attaches' = [attaches EXCEPT ![t] = None]
        /\ detaches' = [detaches EXCEPT ![t] = None]
        /\ ops' = [ops EXCEPT ![t] = Disown(@, {"detach"})]
        /\ cleanups' = [cleanups EXCEPT ![t] = None]
        /\ writes' = IF confirmed THEN Append(writes, [by |-> None, snap |-> Record(lease, settled, cleanups')])
                     ELSE writes
        /\ revocation' = IF takes THEN Revoked(t, FALSE) ELSE settled
        /\ lease' = IF takes THEN None ELSE lease
        /\ epoch' = IF mine \/ other THEN epoch ELSE IF takes \/ ~Initialized THEN epoch + 1 ELSE epoch + 2
        /\ IF mine \/ other THEN call' = call
           ELSE Enter(t, [Fresh(IF takes THEN "hard" ELSE IF Initialized THEN Noting(t, "idle") ELSE "uninitialized")
                             EXCEPT !.tab = t])
        /\ UNCHANGED <<teardowns, intentional, canceled, saved, attached, budget, past>>

\* The lease of t came back with the worker, or there is none.
HardInitialized(t) ==
    LET takes == lease # None /\ lease.tab = t
        other == lease # None /\ lease.tab # t
    IN  /\ call[t].pc = "uninitialized" /\ Initialized
        /\ lease' = IF takes THEN None ELSE lease
        /\ revocation' = IF takes THEN Revoked(t, FALSE) ELSE revocation
        /\ epoch' = IF other THEN epoch ELSE epoch + 1
        /\ Enter(t, [Fresh(IF takes THEN "hard" ELSE IF other THEN "idle" ELSE Noting(t, "idle")) EXCEPT !.tab = t])
        /\ UNCHANGED <<pauseVars, cleanups, teardowns, attaches, detaches, intentional,
                       canceled, store, chrome, budget, past>>

HardWrites(t) ==
    /\ call[t].pc = "hard"
    /\ UNCHANGED <<lease, revocation, cleanups>>
    /\ Persist(None)
    /\ Enter(t, [Fresh(Noting(t, "idle")) EXCEPT !.tab = t])
    /\ UNCHANGED <<pauseVars, epoch, teardowns, attaches, detaches, intentional, canceled,
                   saved, chrome, budget, past>>

DetachStep(t) == OnDetach(t) \/ HardInitialized(t) \/ HardWrites(t) \/ Notes(t, "idle")

------------------------------------------------------------------------------
(* initializeControlState.                                                  *)

BootWakes ==
    /\ Wake
    /\ Go(Boot, "reading")
    /\ UNCHANGED <<control, store, chrome, budget, past>>

BootReads ==
    /\ Read
    /\ UNCHANGED <<control, call, store, chrome, budget, past>>

\* Mutant: only the lease and the revocation are read back.
DueForgotten == NoCleanup

\* The cleanups that were stored, and that of a revocation which was not done.
Due == [t \in Tab |->
    IF saved.cleanups[t] = None /\ saved.revocation.pending /\ saved.revocation.tab = t THEN Plain
    ELSE saved.cleanups[t]]

\* The memory is filled from what was stored, and the stored lease is looked at:
\* it may have expired, and it is not taken up while a cleanup is due.
BootLoads ==
    LET r == saved.revocation
        with(pc) == [Fresh(pc) EXCEPT !.tab = saved.lease.tab, !.owner = saved.lease.owner,
                                      !.by = saved.lease.by, !.epoch = saved.lease.epoch]
    IN  /\ Load
        /\ revocation' = r
        /\ cleanups' = Due
        /\ lease' = lease
        /\ \/ /\ saved.lease = None
              /\ Persist(Boot)
              /\ Enter(Boot, Fresh("recording"))
              /\ UNCHANGED <<detaches, ops>>
           \/ /\ saved.lease # None
              /\ IssueDetach(Boot, saved.lease.tab)
              /\ Enter(Boot, with("dropping"))
              /\ writes' = writes
           \/ /\ saved.lease # None /\ Due = NoCleanup
              /\ Enter(Boot, with("looking"))
              /\ UNCHANGED <<detaches, ops, writes>>
        /\ UNCHANGED <<epoch, teardowns, attaches, intentional, canceled, saved, attached,
                       notice, budget, past>>

\* The stored lease was not taken up, and its debugger was told to go.
BootDrops(seen) ==
    LET t == call[Boot].tab
    IN  /\ call[Boot].pc = "dropping"
        /\ Counts(~seen \/ detaches[t] # None)
        /\ cleanups' = [cleanups EXCEPT ![t] = IF DetachConfirmed(t, seen) THEN None
                                               ELSE IF @ = None THEN Plain ELSE @]
        /\ revocation' = Revoked(t, cleanups' # NoCleanup)
        /\ lease' = None
        /\ Persist(Boot)
        /\ Await(Boot, "recording")
        /\ UNCHANGED <<pauseVars, epoch, teardowns, attaches, detaches, intentional,
                       canceled, saved, chrome, crashes, events, past>>

\* getTargets shows its debugger: the lease is taken up.  It does not, or does
\* not answer: the lease is lost.
BootTakesUp ==
    /\ call[Boot].pc = "looking" /\ call[Boot].tab \in attached
    /\ lease' = [tab |-> call[Boot].tab, owner |-> call[Boot].owner,
                  epoch |-> call[Boot].epoch, by |-> call[Boot].by]
    /\ epoch' = IF epoch < call[Boot].epoch THEN call[Boot].epoch ELSE epoch
    /\ Go(Boot, "recovering")
    /\ UNCHANGED <<pauseVars, revocation, cleanups, teardowns, attaches, detaches,
                   intentional, canceled, store, chrome, budget, past>>

BootLoses(seen) ==
    /\ call[Boot].pc = "looking" /\ (seen => call[Boot].tab \notin attached)
    /\ Counts(~seen)
    /\ lease' = None
    /\ IssueDetach(Boot, call[Boot].tab)
    /\ Go(Boot, "losing")
    /\ UNCHANGED <<pauseVars, epoch, revocation, cleanups, teardowns, attaches, intentional,
                   canceled, store, attached, notice, crashes, events, past>>

BootLost ==
    /\ call[Boot].pc = "losing"
    /\ forgotten' = IF call[Boot].tab \in attached \/ notice[call[Boot].tab] # "none"
                    THEN forgotten \cup {call[Boot].by} ELSE forgotten
    /\ Counts(detaches[call[Boot].tab] # None)
    /\ revocation' = Revoked(call[Boot].tab, FALSE)
    /\ UNCHANGED <<lease, cleanups>>
    /\ Persist(Boot)
    /\ Await(Boot, "recording")
    /\ UNCHANGED <<pauseVars, epoch, teardowns, attaches, detaches, intentional, canceled,
                   saved, chrome, crashes, events, ended, overrun>>

\* The write that ends the initialization without a lease, or with one.
BootEnds ==
    /\ call[Boot].pc \in {"recording", "recovered"} /\ Answered(Boot)
    /\ call[Boot].pc = "recovered" => call[Boot].reply = "ok"
    /\ Enter(Boot, Fresh(Back("up", call[Boot].reply = "ok")))
    /\ UNCHANGED <<pauseVars, control, store, chrome, budget, past>>

\* finishRecoveredLease: the document is verified.
BootVerifies ==
    /\ call[Boot].pc = "recovering"
    /\ Holds(Boot) /\ lease.tab \in attached
    /\ UNCHANGED <<lease, revocation, cleanups>>
    /\ Persist(Boot)
    /\ Await(Boot, "recovered")
    /\ UNCHANGED <<pauseVars, epoch, teardowns, attaches, detaches, intentional, canceled,
                   saved, chrome, budget, past>>

\* A step of it fails, and the lease is stopped: a debugger command that timed
\* out has done so already.
BootFails ==
    /\ \/ call[Boot].pc = "recovering" /\ \E back \in {"up", "failing"} : StopFrom(Boot, TRUE, back)
       \/ call[Boot].pc = "recovered" /\ Answered(Boot) /\ StopFrom(Boot, TRUE, "up")
       \/ call[Boot].pc = "failing" /\ StopFrom(Boot, TRUE, "up")
    /\ UNCHANGED <<pauseVars, budget, past>>

BootStep ==
    \/ BootReads \/ BootLoads \/ BootTakesUp \/ BootLost \/ BootEnds \/ BootVerifies \/ BootFails
    \/ \E seen \in BOOLEAN : BootDrops(seen) \/ BootLoses(seen)

------------------------------------------------------------------------------
(* The store, and the faults.                                               *)

Disk(done) ==
    /\ writes # <<>> /\ \A t \in Tab : ~Asking(t)
    /\ writes' = Tail(writes)
    /\ Counts(~done)
    /\ saved' = IF done THEN Head(writes).snap ELSE saved
    /\ LET by == Head(writes).by
       IN  call' = IF by = None THEN call
                   ELSE [call EXCEPT ![by].reply = IF done THEN "ok" ELSE "bad"]
    /\ UNCHANGED <<pauseVars, control, chrome, crashes, events, past>>

\* What was only in memory is gone.
Restarts ==
    /\ crashes < MaxCrashes /\ crashes' = crashes + 1
    /\ lease' = None /\ epoch' = 0 /\ revocation' = NoRevocation
    /\ cleanups' = NoCleanup /\ teardowns' = Free /\ attaches' = Free /\ detaches' = Free
    /\ intentional' = None
    /\ call' = [c \in Caller |->
          IF c \in Start \cup Stops
          THEN IF call[c].pc \in {"idle", "granted", "refused", "done"} THEN call[c] ELSE Fresh("gone")
          ELSE Fresh(IF c = Boot THEN "down" ELSE "idle")]
    /\ writes' = <<>>
    /\ UNCHANGED <<canceled, fails, events, past>>

WorkerRestarts ==
    /\ WorkerDies
    /\ Restarts
    /\ ops' = [t \in Tab |-> Disown(ops[t], {"attach", "detach"})]
    /\ UNCHANGED <<saved, attached, notice>>

BrowserRestarts ==
    /\ BrowserQuits
    /\ Restarts
    /\ saved' = Blank
    /\ attached' = {} /\ ops' = [t \in Tab |-> <<>>] /\ notice' = [t \in Tab |-> "none"]

Pauses(done) ==
    /\ (\E c \in Stopper : Pen(c, done)) \/ Popups(done)
    /\ Counts(~done)
    /\ UNCHANGED <<control, call, store, chrome, crashes, events, past>>

\* What a call waits for has come, and it goes on before the worker takes the
\* next event.
Ready(c) ==
    LET at(pcs) == call[c].pc \in pcs
    IN  \/ at({"sweep", "undoing", "failing", "replaced"})
        \/ Answered(c) /\ at({"intending", "attaching", "rejected", "settling", "swept",
                               "uncommitted", "recording"})
        \/ at({"stopping"}) /\ Answered(c) /\ (c \in Stops \cap Stopper => pen[c] \in Resting)
        \/ at({"noting"}) /\ pen[c] \in Resting
        \/ c \in Start /\ at({"late"}) /\ Answered(c) /\ ~Attaching(c)
        \/ at({"committing"}) /\ call[c].reply = "bad"
        \/ at({"uninitialized"}) /\ call[Boot].pc \in {"up", "broken"}

NoneReady == \A c \in Caller : ~Ready(c)

\* The next stretch of c; and the calls that come from outside, of which
\* nothing says that they must come.
Goes(c) ==
    \/ Broken(c)
    \/ c \in Start /\ (StartStep(c) \/ StartBreaks(c))
    \/ c \in Stops /\ Notes(c, "done")
    \/ c \in Tab /\ DetachStep(c)
    \/ c = Alarm /\ AlarmRings
    \/ c = Beat /\ BeatStep
    \/ c = Boot /\ (BootWakes \/ BootStep)
    \/ c \in Start \cup Stops \cup {Beat, Boot} /\ StopStep(c)
    \/ c \in Start \cup Stops \cup {Alarm, Beat, Boot} /\ SweepStep(c)

Comes(c) == (c \in Start /\ StartCall(c)) \/ (c \in Stops /\ Release(c))

Outside ==
    \/ \E s \in Start : CancelStart(s)
    \/ \E t \in Tab : \E done \in BOOLEAN : RunChrome(t, done)
    \/ \E t \in Tab : \E why \in {"canceled_by_user", "target_closed"} : ChromeDetaches(t, why)
    \/ \E done \in BOOLEAN : Disk(done) \/ Pauses(done)

Next ==
    \/ \E c \in Caller : (Ready(c) \/ NoneReady) /\ Goes(c)
    \/ NoneReady /\ ((\E c \in Caller : Comes(c)) \/ Outside)
    \/ WorkerRestarts \/ BrowserRestarts

Spec == Init /\ [][Next]_vars

\* The worker runs its continuations, Chrome answers in the end, and the alarm
\* rings often enough for two confirmations of a cleanup to be a second apart.
Fairness ==
    /\ \A c \in Caller : WF_vars(Goes(c))
    /\ SF_vars(SweepChecks(Alarm, TRUE, TRUE))
    /\ \A t \in Tab : WF_vars(\E done \in BOOLEAN : RunChrome(t, done))
    /\ WF_vars(\E done \in BOOLEAN : Disk(done))
    /\ WF_vars(\E done \in BOOLEAN : Pauses(done))

FairSpec == Spec /\ Fairness

------------------------------------------------------------------------------
Pc == {"idle", "open", "intending", "attaching", "rejected", "late", "settling",
       "initializing", "undoing", "committing", "uncommitted", "granted", "refused", "gone",
       "uninitialized", "stopping", "detaching", "reporting", "replaced", "noting", "done",
       "sweep", "sweeping", "checking", "swept", "beating", "beaten", "hard",
       "down", "reading", "recording", "dropping", "looking", "losing", "recovering",
       "recovered", "failing", "up", "broken"}

Call == [pc : Pc, tab : Tab \cup {None}, owner : Owner \cup {None}, by : Start \cup {None}, epoch : Nat,
         prior : Revocation, plan : [Tab -> Cleanup \cup {None}], back : Pc,
         reply : {"", "ok", "bad"}]

ControlTypeOK ==
    /\ PauseTypeOK
    /\ lease \in Lease \cup {None} /\ epoch \in Nat /\ revocation \in Revocation
    /\ cleanups \in [Tab -> Cleanup \cup {None}]
    /\ teardowns \in [Tab -> Caller \cup {None}]
    /\ attaches \in [Tab -> Start \cup {None}]
    /\ detaches \in [Tab -> Caller \cup {None}]
    /\ intentional \in Tab \cup {None} /\ canceled \in SUBSET Start
    /\ call \in [Caller -> Call]
    /\ saved \in Snapshot
    /\ writes \in Seq([by : Caller \cup {None}, snap : Snapshot])
    /\ attached \in SUBSET Tab /\ ops \in [Tab -> Seq(Op)]
    /\ notice \in [Tab -> {"none", "canceled_by_user", "target_closed"}]
    /\ crashes \in Nat /\ fails \in Nat /\ events \in Nat
    /\ ended \in SUBSET Start /\ overrun \in SUBSET Start
    /\ forgotten \in SUBSET (Start \cup {None})

------------------------------------------------------------------------------
(* Properties.                                                              *)

Leased(t) == lease # None /\ lease.tab = t

\* A detach of t, or an attach of t under a start that is still there, is with
\* Chrome.
Detaching(t) == \E i \in DOMAIN ops[t] : ops[t][i].kind = "detach"
Starting(t)  == \E s \in Start : call[s].pc = "attaching" /\ TabOf[s] = t

\* Every debugged tab is somebody's: a lease, a cleanup, a teardown or a start
\* has it in hand, whatever stop, cancel, timeout or retry came between the
\* intent and the commit.  Excepted are a start that went on over a change of
\* control, as it deletes the cleanup of the stop that changed it, and what
\* CrashCovered excepts.
Covered ==
    overrun = {} /\ forgotten = {} /\ Initialized => \A t \in attached :
        \/ Leased(t) \/ Starting(t) \/ Detaching(t)
        \/ cleanups[t] # None \/ teardowns[t] # None \/ attaches[t] # None

\* The stored record alone is enough to find every debugged tab again, at each
\* moment at which the worker may die, whatever Chrome has been asked to do.
\* Excepted are starts whose record another call took, or the recovery of a
\* lease left out.
CrashCovered ==
    overrun = {} /\ forgotten = {} => \A t \in attached :
        (saved.lease # None /\ saved.lease.tab = t) \/ saved.cleanups[t] # None

\* One tab at most is debugged, though the popup's start runs beside the queue
\* of the server's commands, and targets are switched.  A tab whose record was
\* lost is not looked for by the next start.
OneDebugger == overrun = {} /\ forgotten = {} => Cardinality(attached) <= 1

\* A session whose stop was reported as a success is never in control again,
\* not by a late attach, a late commit or a stale record after a restart.
EndedStaysEnded == lease # None => lease.by \notin ended

\* Every cleanup comes to an end, those of attaches that nobody saw included.
QuarantineEnds == \A t \in Tab : cleanups[t] # None ~> cleanups[t] = None

\* The debugger and the lease agree in the end, unless the initialization has
\* failed or waits for itself, or a start went on over a change of control.
Matches(t) == (t \in attached) <=> Leased(t)
Stuck      == call[Boot].pc \in {"broken", "uninitialized"}
Reconciled == \A t \in Tab : ~Matches(t) ~> (Matches(t) \/ Stuck \/ overrun # {})

\* finishRecoveredLease comes to an end: "a recovery that could not verify the
\* document at all [...] still revokes".
BootSettles == call[Boot].pc = "reading" ~> call[Boot].pc \in {"up", "broken", "down"}
==============================================================================
