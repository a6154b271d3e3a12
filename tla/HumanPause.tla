------------------------------ MODULE HumanPause ------------------------------
(* The human pause of extension/background.js.  "Release control" in the    *)
(* popup and Chrome's own Cancel latch it; only Resume in the popup lifts   *)
(* it; it has to outlive the service worker (storage.session keeps a marker *)
(* while a write is undecided) and the browser (storage.local).             *)
(*                                                                          *)
(* One action per stretch of a function between two awaits.  The writes of  *)
(* one storage area are applied in the order in which they were issued, and *)
(* each may fail; their completions run the rest of the function that       *)
(* issued them.  BrowserControl extends this module with the lease.         *)
EXTENDS Naturals, Sequences

CONSTANTS
    Stopper,   \* the calls that may latch the pause
    Popup      \* the popup's Resume

ASSUME PopupAssumption == Popup \notin Stopper

Area    == {"session", "local"}
Writer  == Stopper \cup {Popup}
Resting == {"off", "kept", "lost"}
Stage   == Resting \cup {"marker", "local", "bare", "clear", "again"}
                   \cup {"lift", "unmark", "restore", "restored"}
Write   == [by : Writer, val : BOOLEAN]

VARIABLES
    paused,   \* humanControlPause, in memory
    unsure,   \* humanControlPauseUncertain, in memory
    loaded,   \* initializeControlState: "down", "reading", "read" or "yes"
    found,    \* what its two reads returned
    marker,   \* the uncertainty marker in storage.session
    kept,     \* the pause in storage.local
    jobs,     \* the writes issued to each area and not applied yet
    pen,      \* where the persistence of each call stands
    since,    \* history: the stops latched after the last click on Resume
    raced     \* history: the stops latched while a Resume was running

memory    == <<paused, unsure, loaded, found>>
disk      == <<marker, kept, jobs>>
told      == <<since, raced>>
pauseVars == <<memory, disk, pen, told>>

Nothing == [session |-> FALSE, local |-> "none"]

PauseInit ==
    /\ paused = FALSE /\ unsure = FALSE /\ loaded = "down" /\ found = Nothing
    /\ marker = FALSE /\ kept = FALSE
    /\ jobs = [a \in Area |-> <<>>]
    /\ pen = [w \in Writer |-> "off"]
    /\ since = [c \in Stopper |-> "no"]
    /\ raced = {}

PauseTypeOK ==
    /\ paused \in BOOLEAN /\ unsure \in BOOLEAN
    /\ loaded \in {"down", "reading", "read", "yes"}
    /\ found \in [session : BOOLEAN, local : {"none", "paused", "unreadable"}]
    /\ marker \in BOOLEAN /\ kept \in BOOLEAN
    /\ jobs \in [Area -> Seq(Write)]
    /\ pen \in [Writer -> Stage]
    /\ since \in [Stopper -> {"no", "latched", "marked", "kept"}]
    /\ raced \in SUBSET Stopper

------------------------------------------------------------------------------
(* Latching.                                                                *)

\* assertHumanControlAvailable refuses.
Forbidden == paused \/ unsure

Issue(q, a, w, v) == [q EXCEPT ![a] = Append(@, [by |-> w, val |-> v])]

\* latchHumanControlPause and the first stretch of persistHumanControlPause,
\* which run in one piece with the call's take of the lease.
Latch(c) ==
    /\ pen[c] \in Resting
    /\ paused' = TRUE
    /\ unsure' = TRUE
    /\ pen' = [pen EXCEPT ![c] = "marker"]
    /\ jobs' = Issue(jobs, "session", c, TRUE)
    /\ since' = [since EXCEPT ![c] = "latched"]
    /\ raced' = IF pen[Popup] \in Resting THEN raced ELSE raced \cup {c}
    /\ UNCHANGED <<loaded, found, marker, kept>>

Stop(c) == loaded # "down" /\ Latch(c)

------------------------------------------------------------------------------
(* The completions of the writes of persistHumanControlPause.               *)

\* The oldest write of area a is one of w's, and is applied when done, or fails.
Completes(a, w, done) ==
    /\ jobs[a] # <<>>
    /\ Head(jobs[a]).by = w
    /\ IF a = "session"
       THEN /\ marker' = IF done THEN Head(jobs[a]).val ELSE marker
            /\ kept' = kept
       ELSE /\ kept' = IF done THEN Head(jobs[a]).val ELSE kept
            /\ marker' = marker

Rest(a) == [jobs EXCEPT ![a] = Tail(@)]

At(w, stage) == pen' = [pen EXCEPT ![w] = stage]

Rises(c, stage) ==
    since' = [since EXCEPT ![c] = IF @ = "no" THEN "no" ELSE stage]

\* The marker is stored, or not; the pause goes to storage.local either way, as
\* the memory has it by now.
PenMarker(c, done) ==
    /\ pen[c] = "marker"
    /\ Completes("session", c, done)
    /\ jobs' = Issue(Rest("session"), "local", c, paused)
    /\ At(c, IF done THEN "local" ELSE "bare")
    /\ IF done THEN Rises(c, "marked") ELSE since' = since
    /\ UNCHANGED <<memory, raced>>

\* The pause is stored: the marker, if there is one, is taken back.
PenLocal(c) ==
    /\ pen[c] \in {"local", "bare"}
    /\ Completes("local", c, TRUE)
    /\ IF pen[c] = "local"
       THEN /\ jobs' = Issue(Rest("local"), "session", c, FALSE)
            /\ At(c, "clear")
            /\ unsure' = unsure
       ELSE /\ jobs' = Rest("local")
            /\ At(c, "kept")
            /\ unsure' = FALSE
    /\ Rises(c, "kept")
    /\ UNCHANGED <<paused, loaded, found, raced>>

\* The pause is not stored: without a marker, one more attempt at that.
PenLocalFails(c) ==
    /\ pen[c] \in {"local", "bare"}
    /\ Completes("local", c, FALSE)
    /\ IF pen[c] = "local"
       THEN jobs' = Rest("local") /\ At(c, "lost")
       ELSE jobs' = Issue(Rest("local"), "session", c, TRUE) /\ At(c, "again")
    /\ UNCHANGED <<memory, told>>

\* Mutant: taking the marker back clears the pause in memory as well.
PenClearForgets(c, done) ==
    /\ pen[c] = "clear"
    /\ Completes("session", c, done)
    /\ jobs' = Rest("session")
    /\ At(c, "kept")
    /\ paused' = FALSE /\ unsure' = FALSE
    /\ UNCHANGED <<loaded, found, told>>

\* The marker is taken back, or stays where it is.
PenClear(c, done) ==
    /\ pen[c] = "clear"
    /\ Completes("session", c, done)
    /\ jobs' = Rest("session")
    /\ At(c, "kept")
    /\ unsure' = FALSE
    /\ UNCHANGED <<paused, loaded, found, told>>

PenAgain(c, done) ==
    /\ pen[c] = "again"
    /\ Completes("session", c, done)
    /\ jobs' = Rest("session")
    /\ At(c, "lost")
    /\ IF done THEN Rises(c, "marked") ELSE since' = since
    /\ UNCHANGED <<memory, raced>>

\* The write that c waits for is applied when done, or fails.
Pen(c, done) ==
    \/ PenMarker(c, done) \/ PenClear(c, done) \/ PenAgain(c, done)
    \/ done /\ PenLocal(c)
    \/ ~done /\ PenLocalFails(c)

------------------------------------------------------------------------------
(* Resume: resumeHumanControlFromPopup.                                     *)

\* The click; the popup offers Resume while the worker reports a pause.
Resume ==
    /\ loaded # "down" /\ Forbidden
    /\ pen[Popup] \in Resting
    /\ At(Popup, "lift")
    /\ jobs' = Issue(jobs, "local", Popup, FALSE)
    /\ since' = [c \in Stopper |-> "no"]
    /\ raced' = {}
    /\ UNCHANGED <<memory, marker, kept>>

ResumeLifts ==
    /\ pen[Popup] = "lift"
    /\ Completes("local", Popup, TRUE)
    /\ jobs' = Issue(Rest("local"), "session", Popup, FALSE)
    /\ At(Popup, "unmark")
    /\ UNCHANGED <<memory, told>>

ResumeEnds ==
    /\ pen[Popup] = "unmark"
    /\ Completes("session", Popup, TRUE)
    /\ jobs' = Rest("session")
    /\ At(Popup, "off")
    /\ paused' = FALSE
    /\ unsure' = FALSE
    /\ UNCHANGED <<loaded, found, told>>

\* One of the two writes fails: the pause is put back, and written back to both
\* areas as well as they take it.
ResumeFails(a) ==
    /\ pen[Popup] = (IF a = "local" THEN "lift" ELSE "unmark")
    /\ Completes(a, Popup, FALSE)
    /\ jobs' = Issue(Issue(Rest(a), "local", Popup, TRUE), "session", Popup, TRUE)
    /\ At(Popup, "restore")
    /\ paused' = TRUE
    /\ unsure' = TRUE
    /\ UNCHANGED <<loaded, found, told>>

ResumeRestores(a, done) ==
    /\ pen[Popup] \in {"restore", "restored"}
    /\ Completes(a, Popup, done)
    /\ jobs' = Rest(a)
    /\ At(Popup, IF pen[Popup] = "restore" THEN "restored" ELSE "off")
    /\ UNCHANGED <<memory, told>>

Popups(done) ==
    \/ done /\ (Resume \/ ResumeLifts \/ ResumeEnds)
    \/ ~done /\ \E a \in Area : ResumeFails(a)
    \/ \E a \in Area : ResumeRestores(a, done)

------------------------------------------------------------------------------
(* The worker dies and comes back.                                          *)

\* What is only in memory is gone: the continuations, and the stops that had
\* not reached a disk that survives.
Forget(survives) ==
    /\ paused' = FALSE /\ unsure' = FALSE /\ loaded' = "down" /\ found' = Nothing
    /\ jobs' = [a \in Area |-> <<>>]
    /\ pen' = [w \in Writer |-> "off"]
    /\ since' = [c \in Stopper |-> IF since[c] \in survives THEN since[c] ELSE "no"]
    /\ raced' = raced

WorkerDies ==
    /\ loaded # "down"
    /\ Forget({"marked", "kept"})
    /\ UNCHANGED <<marker, kept>>

\* storage.session goes with the browser.
BrowserQuits ==
    /\ Forget({"kept"})
    /\ marker' = FALSE
    /\ kept' = kept

Wake ==
    /\ loaded = "down"
    /\ loaded' = "reading"
    /\ UNCHANGED <<paused, unsure, found, disk, pen, told>>

\* The two reads; storage.local may refuse.
Read ==
    /\ loaded = "reading"
    /\ loaded' = "read"
    /\ \E local \in {IF kept THEN "paused" ELSE "none", "unreadable"} :
          found' = [session |-> marker, local |-> local]
    /\ UNCHANGED <<paused, unsure, disk, pen, told>>

\* Mutant: a pause latched during the reads is overwritten.
LoadOverwrites ==
    /\ loaded = "read"
    /\ loaded' = "yes"
    /\ unsure' = (found.session \/ found.local = "unreadable")
    /\ paused' = (found.local = "paused" \/ unsure')
    /\ found' = Nothing
    /\ UNCHANGED <<disk, pen, told>>

\* A pause latched during the reads is not overwritten.
Load ==
    /\ loaded = "read"
    /\ loaded' = "yes"
    /\ unsure' = (found.session \/ found.local = "unreadable")
    /\ paused' = (paused \/ found.local = "paused" \/ unsure')
    /\ found' = Nothing
    /\ UNCHANGED <<disk, pen, told>>

PauseNext ==
    \/ \E c \in Stopper : Stop(c)
    \/ \E done \in BOOLEAN : Popups(done) \/ \E c \in Stopper : Pen(c, done)
    \/ WorkerDies \/ BrowserQuits \/ Wake \/ Read \/ Load

PauseSpec == PauseInit /\ [][PauseNext]_pauseVars

------------------------------------------------------------------------------
(* Properties.                                                              *)

\* A stop that came after the last click on Resume is in force whenever the
\* worker has read its stores: no write that was issued before it, and no crash
\* after the marker was stored, lifts the pause.  A stop latched while a Resume
\* is still writing is not counted: ResumeEnds undoes it.
InForce ==
    raced = {} /\ loaded = "yes" /\ (\E c \in Stopper : since[c] # "no") => Forbidden

\* A stop whose pause storage.local has taken stays there, through every order of
\* the writes of other stops and of the last Resume.  A write of a stop stores
\* the pause as the memory has it by then (persistHumanControlPause), and one that
\* a Resume has undone stores none: it never comes after that of a later stop.
Durable == \A c \in Stopper : since[c] = "kept" /\ c \notin raced => kept
==============================================================================
