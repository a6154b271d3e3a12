-------------------------- MODULE HumanPause_proofs --------------------------
(***************************************************************************)
(* Proofs about HumanPause, for any stoppers.                              *)
(*                                                                         *)
(* A write of a queue is removed, added, or the queue stays: what the      *)
(* invariant says of each queue is shown to survive the three, and each    *)
(* action is shown to be made of them.                                     *)
(***************************************************************************)
EXTENDS HumanPause, TLAPS

USE PopupAssumption

\* The first element of a queue, and what is left without it.
LEMMA TailFacts ==
  ASSUME NEW W, NEW q \in Seq(W), q # <<>>
  PROVE  /\ Tail(q) \in Seq(W) /\ Head(q) \in W /\ Head(q) = q[1] /\ 1 \in DOMAIN q
         /\ \A i \in DOMAIN q : i \in Nat /\ i >= 1 /\ q[i] \in W
         /\ \A i \in DOMAIN Tail(q) :
              i \in Nat /\ i >= 1 /\ i + 1 \in DOMAIN q /\ Tail(q)[i] = q[i + 1]
         /\ \A i \in DOMAIN q : i > 1 => i - 1 \in DOMAIN Tail(q) /\ Tail(q)[i - 1] = q[i]
<1>1. /\ DOMAIN q = 1..Len(q) /\ Len(q) \in Nat /\ Len(q) >= 1
      /\ DOMAIN Tail(q) = 1..Len(q) - 1
      /\ \A i \in 1..Len(q) - 1 : Tail(q)[i] = q[i + 1]
      /\ \A i \in 1..Len(q) : q[i] \in W
  OBVIOUS
<1>2. Tail(q) \in Seq(W) /\ Head(q) \in W /\ Head(q) = q[1]
  OBVIOUS
<1> QED BY <1>1, <1>2

\* Adding an element keeps the type of a queue.
LEMMA AppendType ==
  ASSUME NEW W, NEW q \in Seq(W), NEW e \in W
  PROVE  Append(q, e) \in Seq(W)
  OBVIOUS

\* A queue with one element more.
LEMMA AppendFacts ==
  ASSUME NEW W, NEW q \in Seq(W), NEW e \in W
  PROVE  /\ Append(q, e) \in Seq(W)
         /\ \A i \in DOMAIN q : i \in Nat /\ i >= 1 /\ q[i] \in W
         /\ \E n \in DOMAIN Append(q, e) :
              /\ n \in Nat /\ n >= 1 /\ Append(q, e)[n] = e /\ n \notin DOMAIN q
              /\ \A i \in DOMAIN Append(q, e) : i = n \/ (i \in DOMAIN q /\ Append(q, e)[i] = q[i])
              /\ \A i \in DOMAIN q : i < n /\ i \in DOMAIN Append(q, e) /\ Append(q, e)[i] = q[i]
<1> DEFINE r == Append(q, e)
<1>1. /\ r \in Seq(W)
      /\ DOMAIN q = 1..Len(q) /\ Len(q) \in Nat
      /\ DOMAIN r = 1..Len(q) + 1
      /\ \A i \in 1..Len(q) : r[i] = q[i] /\ q[i] \in W
      /\ r[Len(q) + 1] = e
  OBVIOUS
<1> HIDE DEF r
<1>2. \E n \in DOMAIN r :
        /\ n \in Nat /\ n >= 1 /\ r[n] = e /\ n \notin DOMAIN q
        /\ \A i \in DOMAIN r : i = n \/ (i \in DOMAIN q /\ r[i] = q[i])
        /\ \A i \in DOMAIN q : i < n /\ i \in DOMAIN r /\ r[i] = q[i]
  <2>1. Len(q) + 1 \in DOMAIN r
    BY <1>1
  <2> WITNESS Len(q) + 1 \in DOMAIN r
  <2> QED BY <1>1
<1>3. \A i \in DOMAIN q : i \in Nat /\ i >= 1 /\ q[i] \in W
  BY <1>1
<1> QED BY <1>1, <1>2, <1>3 DEF r

------------------------------------------------------------------------------
(* The type.                                                                *)

\* Every queue of the two, and a write added to one or removed from one.
LEMMA QueueTypes ==
  ASSUME jobs \in [Area -> Seq(Write)]
  PROVE  /\ jobs["session"] \in Seq(Write) /\ jobs["local"] \in Seq(Write)
         /\ \A a \in Area : jobs[a] # <<>> =>
              /\ Rest(a) \in [Area -> Seq(Write)] /\ Rest(a)[a] = Tail(jobs[a])
              /\ \A b \in Area : b # a => Rest(a)[b] = jobs[b]
<1> DEFINE W == Write
<1>1. jobs \in [Area -> Seq(W)]
  OBVIOUS
<1> HIDE DEF W
<1>2. jobs["session"] \in Seq(W) /\ jobs["local"] \in Seq(W)
  BY <1>1 DEF Area
<1>3. ASSUME NEW a \in Area, jobs[a] # <<>>
      PROVE  /\ Rest(a) \in [Area -> Seq(W)] /\ Rest(a)[a] = Tail(jobs[a])
             /\ \A b \in Area : b # a => Rest(a)[b] = jobs[b]
  <2>1. Tail(jobs[a]) \in Seq(W)
    BY <1>1, <1>3, TailFacts
  <2> QED BY <1>1, <2>1 DEF Rest
<1> QED BY <1>2, <1>3 DEF W

\* The write that completes is well-formed.
LEMMA HeadType ==
  ASSUME PauseTypeOK, NEW a \in Area, NEW w, NEW done \in BOOLEAN, Completes(a, w, done)
  PROVE  /\ jobs[a] # <<>> /\ Head(jobs[a]) \in Write /\ w = Head(jobs[a]).by
         /\ w \in Writer /\ marker' \in BOOLEAN /\ kept' \in BOOLEAN
<1>1. jobs[a] # <<>> /\ jobs[a] \in Seq(Write)
  BY DEF Completes, PauseTypeOK
<1>2. Head(jobs[a]) \in Write
  BY <1>1, TailFacts, Zenon
<1> QED BY <1>1, <1>2 DEF Completes, PauseTypeOK, Write

\* What is kept of pen and since.
LEMMA MapTypes ==
  ASSUME PauseTypeOK
  PROVE  /\ \A w \in Writer, s \in Stage :
              /\ [pen EXCEPT ![w] = s] \in [Writer -> Stage]
         /\ \A c \in Stopper, s \in {"latched", "marked", "kept"} :
              /\ [since EXCEPT ![c] = s] \in [Stopper -> {"no", "latched", "marked", "kept"}]
              /\ [since EXCEPT ![c] = IF @ = "no" THEN "no" ELSE s]
                    \in [Stopper -> {"no", "latched", "marked", "kept"}]
  BY DEF PauseTypeOK

\* The initial state has its type.
LEMMA InitType == PauseInit => PauseTypeOK
<1> SUFFICES ASSUME PauseInit PROVE PauseTypeOK
  OBVIOUS
<1>1. jobs \in [Area -> Seq(Write)]
  BY DEF PauseInit
<1>2. pen \in [Writer -> Stage]
  BY DEF PauseInit, Stage, Resting
<1> QED BY <1>1, <1>2 DEF PauseInit, PauseTypeOK, Nothing

------------------------------------------------------------------------------
(* What each action does to the two queues; and the type is kept.           *)

\* The two queues are different ones.
LEMMA Areas == "session" \in Area /\ "local" \in Area /\ "session" # "local"
  BY DEF Area

\* The type is that of each variable.
LEMMA TypeFrom ==
  ASSUME paused' \in BOOLEAN, unsure' \in BOOLEAN,
         loaded' \in {"down", "reading", "read", "yes"},
         found' \in [session : BOOLEAN, local : {"none", "paused", "unreadable"}],
         marker' \in BOOLEAN, kept' \in BOOLEAN,
         jobs' \in [Area -> Seq(Write)], pen' \in [Writer -> Stage],
         since' \in [Stopper -> {"no", "latched", "marked", "kept"}],
         raced' \in SUBSET Stopper
  PROVE  PauseTypeOK'
  BY DEF PauseTypeOK


\* Latching adds the marker.
LEMMA LatchEffect ==
  ASSUME PauseTypeOK, NEW c \in Stopper, Latch(c)
  PROVE  /\ PauseTypeOK'
         /\ jobs'["session"] = Append(jobs["session"], [by |-> c, val |-> TRUE])
         /\ jobs'["local"] = jobs["local"]
<1>1. /\ jobs \in [Area -> Seq(Write)] /\ c \in Writer
      /\ paused \in BOOLEAN /\ TRUE \in BOOLEAN /\ FALSE \in BOOLEAN
  BY DEF PauseTypeOK, Writer
<1>2. marker' \in BOOLEAN /\ kept' \in BOOLEAN
  BY DEF Latch, PauseTypeOK, memory
<1>3. [by |-> c, val |-> TRUE] \in Write
  BY <1>1 DEF Write
<1>4. Append(jobs["session"], [by |-> c, val |-> TRUE]) \in Seq(Write)
  BY <1>1, <1>2, <1>3, AppendType, Areas
<1>5. /\ Issue(jobs, "session", c, TRUE) \in [Area -> Seq(Write)]
      /\ Issue(jobs, "session", c, TRUE)["session"]
           = Append(jobs["session"], [by |-> c, val |-> TRUE])
      /\ \A b \in Area : b # "session" => Issue(jobs, "session", c, TRUE)[b] = jobs[b]
  BY <1>1, <1>2, <1>4, Areas DEF Issue
<1>6. jobs' = Issue(jobs, "session", c, TRUE)
  BY DEF Latch
<1>7. /\ jobs' \in [Area -> Seq(Write)]
      /\ jobs'["session"] = Append(jobs["session"], [by |-> c, val |-> TRUE])
      /\ jobs'["local"] = jobs["local"]
  BY <1>1, <1>2, <1>5, <1>6, Areas
<1>8. pen' \in [Writer -> Stage]
  BY <1>1, MapTypes DEF Latch, At, Stage, Resting, PauseTypeOK
<1>9. since' \in [Stopper -> {"no", "latched", "marked", "kept"}]
  BY MapTypes DEF Latch, Rises, PauseTypeOK, told
<1>10. raced' \in SUBSET Stopper
  BY DEF Latch, PauseTypeOK, told
<1> QED BY <1>2, <1>7, <1>8, <1>9, <1>10, TypeFrom DEF PauseTypeOK, Latch, memory, disk

\* The marker is done with, and the pause goes to storage.local.
LEMMA PenMarkerEffect ==
  ASSUME PauseTypeOK, NEW c \in Stopper, NEW done \in BOOLEAN, PenMarker(c, done)
  PROVE  /\ PauseTypeOK'
         /\ jobs["session"] # <<>>
         /\ jobs'["session"] = Tail(jobs["session"])
         /\ jobs'["local"] = Append(jobs["local"], [by |-> c, val |-> paused])
<1>1. /\ jobs \in [Area -> Seq(Write)] /\ c \in Writer
      /\ paused \in BOOLEAN /\ TRUE \in BOOLEAN /\ FALSE \in BOOLEAN
  BY DEF PauseTypeOK, Writer
<1>2. jobs["session"] # <<>> /\ marker' \in BOOLEAN /\ kept' \in BOOLEAN
  BY HeadType, Areas DEF PenMarker
<1>3. /\ Rest("session") \in [Area -> Seq(Write)]
      /\ Rest("session")["session"] = Tail(jobs["session"])
      /\ Rest("session")["local"] = jobs["local"]
  BY <1>1, <1>2, QueueTypes, Areas
<1>4. [by |-> c, val |-> paused] \in Write
  BY <1>1 DEF Write
<1>5. Append(Rest("session")["local"], [by |-> c, val |-> paused]) \in Seq(Write)
  BY <1>1, <1>2, <1>3, <1>4, AppendType, Areas
<1>6. /\ Issue(Rest("session"), "local", c, paused) \in [Area -> Seq(Write)]
      /\ Issue(Rest("session"), "local", c, paused)["local"]
           = Append(Rest("session")["local"], [by |-> c, val |-> paused])
      /\ \A b \in Area : b # "local" => Issue(Rest("session"), "local", c, paused)[b] = Rest("session")[b]
  BY <1>1, <1>2, <1>3, <1>5, Areas DEF Issue
<1>7. jobs' = Issue(Rest("session"), "local", c, paused)
  BY DEF PenMarker
<1>8. /\ jobs' \in [Area -> Seq(Write)]
      /\ jobs'["session"] = Tail(jobs["session"])
      /\ jobs'["local"] = Append(jobs["local"], [by |-> c, val |-> paused])
  BY <1>1, <1>2, <1>3, <1>6, <1>7, Areas
<1>9. pen' \in [Writer -> Stage]
  BY <1>1, MapTypes DEF PenMarker, At, Stage, Resting, PauseTypeOK
<1>10. since' \in [Stopper -> {"no", "latched", "marked", "kept"}]
  BY MapTypes DEF PenMarker, Rises, PauseTypeOK, told
<1>11. raced' \in SUBSET Stopper
  BY DEF PenMarker, PauseTypeOK, told
<1> QED BY <1>2, <1>8, <1>9, <1>10, <1>11, TypeFrom DEF PauseTypeOK, PenMarker, memory, disk

\* The pause is stored, and the marker goes.
LEMMA PenLocalEffect ==
  ASSUME PauseTypeOK, NEW c \in Stopper, PenLocal(c), pen[c] = "local"
  PROVE  /\ PauseTypeOK'
         /\ jobs["local"] # <<>>
         /\ jobs'["session"] = Append(jobs["session"], [by |-> c, val |-> FALSE])
         /\ jobs'["local"] = Tail(jobs["local"])
<1>1. /\ jobs \in [Area -> Seq(Write)] /\ c \in Writer
      /\ paused \in BOOLEAN /\ TRUE \in BOOLEAN /\ FALSE \in BOOLEAN
  BY DEF PauseTypeOK, Writer
<1>2. jobs["local"] # <<>> /\ marker' \in BOOLEAN /\ kept' \in BOOLEAN
  BY HeadType, Areas DEF PenLocal
<1>3. /\ Rest("local") \in [Area -> Seq(Write)]
      /\ Rest("local")["local"] = Tail(jobs["local"])
      /\ Rest("local")["session"] = jobs["session"]
  BY <1>1, <1>2, QueueTypes, Areas
<1>4. [by |-> c, val |-> FALSE] \in Write
  BY <1>1 DEF Write
<1>5. Append(Rest("local")["session"], [by |-> c, val |-> FALSE]) \in Seq(Write)
  BY <1>1, <1>2, <1>3, <1>4, AppendType, Areas
<1>6. /\ Issue(Rest("local"), "session", c, FALSE) \in [Area -> Seq(Write)]
      /\ Issue(Rest("local"), "session", c, FALSE)["session"]
           = Append(Rest("local")["session"], [by |-> c, val |-> FALSE])
      /\ \A b \in Area : b # "session" => Issue(Rest("local"), "session", c, FALSE)[b] = Rest("local")[b]
  BY <1>1, <1>2, <1>3, <1>5, Areas DEF Issue
<1>7. jobs' = Issue(Rest("local"), "session", c, FALSE)
  BY DEF PenLocal
<1>8. /\ jobs' \in [Area -> Seq(Write)]
      /\ jobs'["session"] = Append(jobs["session"], [by |-> c, val |-> FALSE])
      /\ jobs'["local"] = Tail(jobs["local"])
  BY <1>1, <1>2, <1>3, <1>6, <1>7, Areas
<1>9. pen' \in [Writer -> Stage]
  BY <1>1, MapTypes DEF PenLocal, At, Stage, Resting, PauseTypeOK
<1>10. since' \in [Stopper -> {"no", "latched", "marked", "kept"}]
  BY MapTypes DEF PenLocal, Rises, PauseTypeOK, told
<1>11. raced' \in SUBSET Stopper
  BY DEF PenLocal, PauseTypeOK, told
<1> QED BY <1>2, <1>8, <1>9, <1>10, <1>11, TypeFrom DEF PauseTypeOK, PenLocal, memory, disk

\* The pause is stored, and there is no marker.
LEMMA PenBareEffect ==
  ASSUME PauseTypeOK, NEW c \in Stopper, PenLocal(c), pen[c] # "local"
  PROVE  /\ PauseTypeOK'
         /\ jobs["local"] # <<>>
         /\ jobs'["session"] = jobs["session"]
         /\ jobs'["local"] = Tail(jobs["local"])
<1>1. /\ jobs \in [Area -> Seq(Write)] /\ c \in Writer
      /\ paused \in BOOLEAN /\ TRUE \in BOOLEAN /\ FALSE \in BOOLEAN
  BY DEF PauseTypeOK, Writer
<1>2. jobs["local"] # <<>> /\ marker' \in BOOLEAN /\ kept' \in BOOLEAN
  BY HeadType, Areas DEF PenLocal
<1>3. /\ Rest("local") \in [Area -> Seq(Write)]
      /\ Rest("local")["local"] = Tail(jobs["local"])
      /\ Rest("local")["session"] = jobs["session"]
  BY <1>1, <1>2, QueueTypes, Areas
<1>4. jobs' = Rest("local")
  BY DEF PenLocal
<1>5. /\ jobs' \in [Area -> Seq(Write)]
      /\ jobs'["session"] = jobs["session"]
      /\ jobs'["local"] = Tail(jobs["local"])
  BY <1>1, <1>2, <1>3, <1>4, Areas
<1>6. pen' \in [Writer -> Stage]
  BY <1>1, MapTypes DEF PenLocal, At, Stage, Resting, PauseTypeOK
<1>7. since' \in [Stopper -> {"no", "latched", "marked", "kept"}]
  BY MapTypes DEF PenLocal, Rises, PauseTypeOK, told
<1>8. raced' \in SUBSET Stopper
  BY DEF PenLocal, PauseTypeOK, told
<1> QED BY <1>2, <1>5, <1>6, <1>7, <1>8, TypeFrom DEF PauseTypeOK, PenLocal, memory, disk

\* The pause is not stored, but the marker is.
LEMMA PenLocalFailsEffect ==
  ASSUME PauseTypeOK, NEW c \in Stopper, PenLocalFails(c), pen[c] = "local"
  PROVE  /\ PauseTypeOK'
         /\ jobs["local"] # <<>>
         /\ jobs'["session"] = jobs["session"]
         /\ jobs'["local"] = Tail(jobs["local"])
<1>1. /\ jobs \in [Area -> Seq(Write)] /\ c \in Writer
      /\ paused \in BOOLEAN /\ TRUE \in BOOLEAN /\ FALSE \in BOOLEAN
  BY DEF PauseTypeOK, Writer
<1>2. jobs["local"] # <<>> /\ marker' \in BOOLEAN /\ kept' \in BOOLEAN
  BY HeadType, Areas DEF PenLocalFails
<1>3. /\ Rest("local") \in [Area -> Seq(Write)]
      /\ Rest("local")["local"] = Tail(jobs["local"])
      /\ Rest("local")["session"] = jobs["session"]
  BY <1>1, <1>2, QueueTypes, Areas
<1>4. jobs' = Rest("local")
  BY DEF PenLocalFails
<1>5. /\ jobs' \in [Area -> Seq(Write)]
      /\ jobs'["session"] = jobs["session"]
      /\ jobs'["local"] = Tail(jobs["local"])
  BY <1>1, <1>2, <1>3, <1>4, Areas
<1>6. pen' \in [Writer -> Stage]
  BY <1>1, MapTypes DEF PenLocalFails, At, Stage, Resting, PauseTypeOK
<1>7. since' \in [Stopper -> {"no", "latched", "marked", "kept"}]
  BY MapTypes DEF PenLocalFails, Rises, PauseTypeOK, told
<1>8. raced' \in SUBSET Stopper
  BY DEF PenLocalFails, PauseTypeOK, told
<1> QED BY <1>2, <1>5, <1>6, <1>7, <1>8, TypeFrom DEF PauseTypeOK, PenLocalFails, memory, disk

\* Neither is stored: the marker is tried again.
LEMMA PenBareFailsEffect ==
  ASSUME PauseTypeOK, NEW c \in Stopper, PenLocalFails(c), pen[c] # "local"
  PROVE  /\ PauseTypeOK'
         /\ jobs["local"] # <<>>
         /\ jobs'["session"] = Append(jobs["session"], [by |-> c, val |-> TRUE])
         /\ jobs'["local"] = Tail(jobs["local"])
<1>1. /\ jobs \in [Area -> Seq(Write)] /\ c \in Writer
      /\ paused \in BOOLEAN /\ TRUE \in BOOLEAN /\ FALSE \in BOOLEAN
  BY DEF PauseTypeOK, Writer
<1>2. jobs["local"] # <<>> /\ marker' \in BOOLEAN /\ kept' \in BOOLEAN
  BY HeadType, Areas DEF PenLocalFails
<1>3. /\ Rest("local") \in [Area -> Seq(Write)]
      /\ Rest("local")["local"] = Tail(jobs["local"])
      /\ Rest("local")["session"] = jobs["session"]
  BY <1>1, <1>2, QueueTypes, Areas
<1>4. [by |-> c, val |-> TRUE] \in Write
  BY <1>1 DEF Write
<1>5. Append(Rest("local")["session"], [by |-> c, val |-> TRUE]) \in Seq(Write)
  BY <1>1, <1>2, <1>3, <1>4, AppendType, Areas
<1>6. /\ Issue(Rest("local"), "session", c, TRUE) \in [Area -> Seq(Write)]
      /\ Issue(Rest("local"), "session", c, TRUE)["session"]
           = Append(Rest("local")["session"], [by |-> c, val |-> TRUE])
      /\ \A b \in Area : b # "session" => Issue(Rest("local"), "session", c, TRUE)[b] = Rest("local")[b]
  BY <1>1, <1>2, <1>3, <1>5, Areas DEF Issue
<1>7. jobs' = Issue(Rest("local"), "session", c, TRUE)
  BY DEF PenLocalFails
<1>8. /\ jobs' \in [Area -> Seq(Write)]
      /\ jobs'["session"] = Append(jobs["session"], [by |-> c, val |-> TRUE])
      /\ jobs'["local"] = Tail(jobs["local"])
  BY <1>1, <1>2, <1>3, <1>6, <1>7, Areas
<1>9. pen' \in [Writer -> Stage]
  BY <1>1, MapTypes DEF PenLocalFails, At, Stage, Resting, PauseTypeOK
<1>10. since' \in [Stopper -> {"no", "latched", "marked", "kept"}]
  BY MapTypes DEF PenLocalFails, Rises, PauseTypeOK, told
<1>11. raced' \in SUBSET Stopper
  BY DEF PenLocalFails, PauseTypeOK, told
<1> QED BY <1>2, <1>8, <1>9, <1>10, <1>11, TypeFrom DEF PauseTypeOK, PenLocalFails, memory, disk

\* The marker is taken back.
LEMMA PenClearEffect ==
  ASSUME PauseTypeOK, NEW c \in Stopper, NEW done \in BOOLEAN, PenClear(c, done)
  PROVE  /\ PauseTypeOK'
         /\ jobs["session"] # <<>>
         /\ jobs'["session"] = Tail(jobs["session"])
         /\ jobs'["local"] = jobs["local"]
<1>1. /\ jobs \in [Area -> Seq(Write)] /\ c \in Writer
      /\ paused \in BOOLEAN /\ TRUE \in BOOLEAN /\ FALSE \in BOOLEAN
  BY DEF PauseTypeOK, Writer
<1>2. jobs["session"] # <<>> /\ marker' \in BOOLEAN /\ kept' \in BOOLEAN
  BY HeadType, Areas DEF PenClear
<1>3. /\ Rest("session") \in [Area -> Seq(Write)]
      /\ Rest("session")["session"] = Tail(jobs["session"])
      /\ Rest("session")["local"] = jobs["local"]
  BY <1>1, <1>2, QueueTypes, Areas
<1>4. jobs' = Rest("session")
  BY DEF PenClear
<1>5. /\ jobs' \in [Area -> Seq(Write)]
      /\ jobs'["session"] = Tail(jobs["session"])
      /\ jobs'["local"] = jobs["local"]
  BY <1>1, <1>2, <1>3, <1>4, Areas
<1>6. pen' \in [Writer -> Stage]
  BY <1>1, MapTypes DEF PenClear, At, Stage, Resting, PauseTypeOK
<1>7. since' \in [Stopper -> {"no", "latched", "marked", "kept"}]
  BY MapTypes DEF PenClear, Rises, PauseTypeOK, told
<1>8. raced' \in SUBSET Stopper
  BY DEF PenClear, PauseTypeOK, told
<1> QED BY <1>2, <1>5, <1>6, <1>7, <1>8, TypeFrom DEF PauseTypeOK, PenClear, memory, disk

\* The second attempt at the marker.
LEMMA PenAgainEffect ==
  ASSUME PauseTypeOK, NEW c \in Stopper, NEW done \in BOOLEAN, PenAgain(c, done)
  PROVE  /\ PauseTypeOK'
         /\ jobs["session"] # <<>>
         /\ jobs'["session"] = Tail(jobs["session"])
         /\ jobs'["local"] = jobs["local"]
<1>1. /\ jobs \in [Area -> Seq(Write)] /\ c \in Writer
      /\ paused \in BOOLEAN /\ TRUE \in BOOLEAN /\ FALSE \in BOOLEAN
  BY DEF PauseTypeOK, Writer
<1>2. jobs["session"] # <<>> /\ marker' \in BOOLEAN /\ kept' \in BOOLEAN
  BY HeadType, Areas DEF PenAgain
<1>3. /\ Rest("session") \in [Area -> Seq(Write)]
      /\ Rest("session")["session"] = Tail(jobs["session"])
      /\ Rest("session")["local"] = jobs["local"]
  BY <1>1, <1>2, QueueTypes, Areas
<1>4. jobs' = Rest("session")
  BY DEF PenAgain
<1>5. /\ jobs' \in [Area -> Seq(Write)]
      /\ jobs'["session"] = Tail(jobs["session"])
      /\ jobs'["local"] = jobs["local"]
  BY <1>1, <1>2, <1>3, <1>4, Areas
<1>6. pen' \in [Writer -> Stage]
  BY <1>1, MapTypes DEF PenAgain, At, Stage, Resting, PauseTypeOK
<1>7. since' \in [Stopper -> {"no", "latched", "marked", "kept"}]
  BY MapTypes DEF PenAgain, Rises, PauseTypeOK, told
<1>8. raced' \in SUBSET Stopper
  BY DEF PenAgain, PauseTypeOK, told
<1> QED BY <1>2, <1>5, <1>6, <1>7, <1>8, TypeFrom DEF PauseTypeOK, PenAgain, memory, disk

\* The click on Resume.
LEMMA ResumeEffect ==
  ASSUME PauseTypeOK, Resume
  PROVE  /\ PauseTypeOK'
         /\ jobs'["session"] = jobs["session"]
         /\ jobs'["local"] = Append(jobs["local"], [by |-> Popup, val |-> FALSE])
<1>1. /\ jobs \in [Area -> Seq(Write)] /\ Popup \in Writer
      /\ paused \in BOOLEAN /\ TRUE \in BOOLEAN /\ FALSE \in BOOLEAN
  BY DEF PauseTypeOK, Writer
<1>2. marker' \in BOOLEAN /\ kept' \in BOOLEAN
  BY DEF Resume, PauseTypeOK, memory
<1>3. [by |-> Popup, val |-> FALSE] \in Write
  BY <1>1 DEF Write
<1>4. Append(jobs["local"], [by |-> Popup, val |-> FALSE]) \in Seq(Write)
  BY <1>1, <1>2, <1>3, AppendType, Areas
<1>5. /\ Issue(jobs, "local", Popup, FALSE) \in [Area -> Seq(Write)]
      /\ Issue(jobs, "local", Popup, FALSE)["local"]
           = Append(jobs["local"], [by |-> Popup, val |-> FALSE])
      /\ \A b \in Area : b # "local" => Issue(jobs, "local", Popup, FALSE)[b] = jobs[b]
  BY <1>1, <1>2, <1>4, Areas DEF Issue
<1>6. jobs' = Issue(jobs, "local", Popup, FALSE)
  BY DEF Resume
<1>7. /\ jobs' \in [Area -> Seq(Write)]
      /\ jobs'["session"] = jobs["session"]
      /\ jobs'["local"] = Append(jobs["local"], [by |-> Popup, val |-> FALSE])
  BY <1>1, <1>2, <1>5, <1>6, Areas
<1>8. pen' \in [Writer -> Stage]
  BY <1>1, MapTypes DEF Resume, At, Stage, Resting, PauseTypeOK
<1>9. since' \in [Stopper -> {"no", "latched", "marked", "kept"}]
  BY MapTypes DEF Resume, Rises, PauseTypeOK, told
<1>10. raced' \in SUBSET Stopper
  BY DEF Resume, PauseTypeOK, told
<1> QED BY <1>2, <1>7, <1>8, <1>9, <1>10, TypeFrom DEF PauseTypeOK, Resume, memory, disk

\* Resume has lifted the pause in storage.local.
LEMMA ResumeLiftsEffect ==
  ASSUME PauseTypeOK, ResumeLifts
  PROVE  /\ PauseTypeOK'
         /\ jobs["local"] # <<>>
         /\ jobs'["session"] = Append(jobs["session"], [by |-> Popup, val |-> FALSE])
         /\ jobs'["local"] = Tail(jobs["local"])
<1>1. /\ jobs \in [Area -> Seq(Write)] /\ Popup \in Writer
      /\ paused \in BOOLEAN /\ TRUE \in BOOLEAN /\ FALSE \in BOOLEAN
  BY DEF PauseTypeOK, Writer
<1>2. jobs["local"] # <<>> /\ marker' \in BOOLEAN /\ kept' \in BOOLEAN
  BY HeadType, Areas DEF ResumeLifts
<1>3. /\ Rest("local") \in [Area -> Seq(Write)]
      /\ Rest("local")["local"] = Tail(jobs["local"])
      /\ Rest("local")["session"] = jobs["session"]
  BY <1>1, <1>2, QueueTypes, Areas
<1>4. [by |-> Popup, val |-> FALSE] \in Write
  BY <1>1 DEF Write
<1>5. Append(Rest("local")["session"], [by |-> Popup, val |-> FALSE]) \in Seq(Write)
  BY <1>1, <1>2, <1>3, <1>4, AppendType, Areas
<1>6. /\ Issue(Rest("local"), "session", Popup, FALSE) \in [Area -> Seq(Write)]
      /\ Issue(Rest("local"), "session", Popup, FALSE)["session"]
           = Append(Rest("local")["session"], [by |-> Popup, val |-> FALSE])
      /\ \A b \in Area : b # "session" => Issue(Rest("local"), "session", Popup, FALSE)[b] = Rest("local")[b]
  BY <1>1, <1>2, <1>3, <1>5, Areas DEF Issue
<1>7. jobs' = Issue(Rest("local"), "session", Popup, FALSE)
  BY DEF ResumeLifts
<1>8. /\ jobs' \in [Area -> Seq(Write)]
      /\ jobs'["session"] = Append(jobs["session"], [by |-> Popup, val |-> FALSE])
      /\ jobs'["local"] = Tail(jobs["local"])
  BY <1>1, <1>2, <1>3, <1>6, <1>7, Areas
<1>9. pen' \in [Writer -> Stage]
  BY <1>1, MapTypes DEF ResumeLifts, At, Stage, Resting, PauseTypeOK
<1>10. since' \in [Stopper -> {"no", "latched", "marked", "kept"}]
  BY MapTypes DEF ResumeLifts, Rises, PauseTypeOK, told
<1>11. raced' \in SUBSET Stopper
  BY DEF ResumeLifts, PauseTypeOK, told
<1> QED BY <1>2, <1>8, <1>9, <1>10, <1>11, TypeFrom DEF PauseTypeOK, ResumeLifts, memory, disk

\* Resume is done.
LEMMA ResumeEndsEffect ==
  ASSUME PauseTypeOK, ResumeEnds
  PROVE  /\ PauseTypeOK'
         /\ jobs["session"] # <<>>
         /\ jobs'["session"] = Tail(jobs["session"])
         /\ jobs'["local"] = jobs["local"]
<1>1. /\ jobs \in [Area -> Seq(Write)] /\ Popup \in Writer
      /\ paused \in BOOLEAN /\ TRUE \in BOOLEAN /\ FALSE \in BOOLEAN
  BY DEF PauseTypeOK, Writer
<1>2. jobs["session"] # <<>> /\ marker' \in BOOLEAN /\ kept' \in BOOLEAN
  BY HeadType, Areas DEF ResumeEnds
<1>3. /\ Rest("session") \in [Area -> Seq(Write)]
      /\ Rest("session")["session"] = Tail(jobs["session"])
      /\ Rest("session")["local"] = jobs["local"]
  BY <1>1, <1>2, QueueTypes, Areas
<1>4. jobs' = Rest("session")
  BY DEF ResumeEnds
<1>5. /\ jobs' \in [Area -> Seq(Write)]
      /\ jobs'["session"] = Tail(jobs["session"])
      /\ jobs'["local"] = jobs["local"]
  BY <1>1, <1>2, <1>3, <1>4, Areas
<1>6. pen' \in [Writer -> Stage]
  BY <1>1, MapTypes DEF ResumeEnds, At, Stage, Resting, PauseTypeOK
<1>7. since' \in [Stopper -> {"no", "latched", "marked", "kept"}]
  BY MapTypes DEF ResumeEnds, Rises, PauseTypeOK, told
<1>8. raced' \in SUBSET Stopper
  BY DEF ResumeEnds, PauseTypeOK, told
<1> QED BY <1>2, <1>5, <1>6, <1>7, <1>8, TypeFrom DEF PauseTypeOK, ResumeEnds, memory, disk

\* The first write of Resume fails.
LEMMA LiftFailsEffect ==
  ASSUME PauseTypeOK, ResumeFails("local")
  PROVE  /\ PauseTypeOK'
         /\ jobs["local"] # <<>>
         /\ jobs'["session"] = Append(jobs["session"], [by |-> Popup, val |-> TRUE])
         /\ jobs'["local"] = Append(Tail(jobs["local"]), [by |-> Popup, val |-> TRUE])
<1>1. /\ jobs \in [Area -> Seq(Write)] /\ Popup \in Writer
      /\ paused \in BOOLEAN /\ TRUE \in BOOLEAN /\ FALSE \in BOOLEAN
  BY DEF PauseTypeOK, Writer
<1>2. jobs["local"] # <<>> /\ marker' \in BOOLEAN /\ kept' \in BOOLEAN
  BY HeadType, Areas DEF ResumeFails
<1>3. /\ Rest("local") \in [Area -> Seq(Write)]
      /\ Rest("local")["local"] = Tail(jobs["local"])
      /\ Rest("local")["session"] = jobs["session"]
  BY <1>1, <1>2, QueueTypes, Areas
<1>4. [by |-> Popup, val |-> TRUE] \in Write
  BY <1>1 DEF Write
<1>5. Append(Rest("local")["local"], [by |-> Popup, val |-> TRUE]) \in Seq(Write)
  BY <1>1, <1>2, <1>3, <1>4, AppendType, Areas
<1>6. /\ Issue(Rest("local"), "local", Popup, TRUE) \in [Area -> Seq(Write)]
      /\ Issue(Rest("local"), "local", Popup, TRUE)["local"]
           = Append(Rest("local")["local"], [by |-> Popup, val |-> TRUE])
      /\ \A b \in Area : b # "local" => Issue(Rest("local"), "local", Popup, TRUE)[b] = Rest("local")[b]
  BY <1>1, <1>2, <1>3, <1>5, Areas DEF Issue
<1>7. Issue(Rest("local"), "local", Popup, TRUE)["session"] \in Seq(Write)
  BY <1>6, Areas
<1>8. Append(Issue(Rest("local"), "local", Popup, TRUE)["session"], [by |-> Popup, val |-> TRUE]) \in Seq(Write)
  BY <1>7, <1>4, AppendType, Zenon
<1>9. /\ Issue(Issue(Rest("local"), "local", Popup, TRUE), "session", Popup, TRUE) \in [Area -> Seq(Write)]
      /\ Issue(Issue(Rest("local"), "local", Popup, TRUE), "session", Popup, TRUE)["session"]
           = Append(Issue(Rest("local"), "local", Popup, TRUE)["session"], [by |-> Popup, val |-> TRUE])
      /\ \A b \in Area : b # "session" => Issue(Issue(Rest("local"), "local", Popup, TRUE), "session", Popup, TRUE)[b] = Issue(Rest("local"), "local", Popup, TRUE)[b]
  BY <1>6, <1>1, <1>7, <1>8, Areas DEF Issue
<1>10. jobs' = Issue(Issue(Rest("local"), "local", Popup, TRUE), "session", Popup, TRUE)
  BY DEF ResumeFails
<1>11. /\ jobs' \in [Area -> Seq(Write)]
      /\ jobs'["session"] = Append(jobs["session"], [by |-> Popup, val |-> TRUE])
      /\ jobs'["local"] = Append(Tail(jobs["local"]), [by |-> Popup, val |-> TRUE])
  BY <1>1, <1>2, <1>3, <1>6, <1>9, <1>10, Areas
<1>12. pen' \in [Writer -> Stage]
  BY <1>1, MapTypes DEF ResumeFails, At, Stage, Resting, PauseTypeOK
<1>13. since' \in [Stopper -> {"no", "latched", "marked", "kept"}]
  BY MapTypes DEF ResumeFails, Rises, PauseTypeOK, told
<1>14. raced' \in SUBSET Stopper
  BY DEF ResumeFails, PauseTypeOK, told
<1> QED BY <1>2, <1>11, <1>12, <1>13, <1>14, TypeFrom DEF PauseTypeOK, ResumeFails, memory, disk

\* The second write of Resume fails.
LEMMA UnmarkFailsEffect ==
  ASSUME PauseTypeOK, ResumeFails("session")
  PROVE  /\ PauseTypeOK'
         /\ jobs["session"] # <<>>
         /\ jobs'["session"] = Append(Tail(jobs["session"]), [by |-> Popup, val |-> TRUE])
         /\ jobs'["local"] = Append(jobs["local"], [by |-> Popup, val |-> TRUE])
<1>1. /\ jobs \in [Area -> Seq(Write)] /\ Popup \in Writer
      /\ paused \in BOOLEAN /\ TRUE \in BOOLEAN /\ FALSE \in BOOLEAN
  BY DEF PauseTypeOK, Writer
<1>2. jobs["session"] # <<>> /\ marker' \in BOOLEAN /\ kept' \in BOOLEAN
  BY HeadType, Areas DEF ResumeFails
<1>3. /\ Rest("session") \in [Area -> Seq(Write)]
      /\ Rest("session")["session"] = Tail(jobs["session"])
      /\ Rest("session")["local"] = jobs["local"]
  BY <1>1, <1>2, QueueTypes, Areas
<1>4. [by |-> Popup, val |-> TRUE] \in Write
  BY <1>1 DEF Write
<1>5. Append(Rest("session")["local"], [by |-> Popup, val |-> TRUE]) \in Seq(Write)
  BY <1>1, <1>2, <1>3, <1>4, AppendType, Areas
<1>6. /\ Issue(Rest("session"), "local", Popup, TRUE) \in [Area -> Seq(Write)]
      /\ Issue(Rest("session"), "local", Popup, TRUE)["local"]
           = Append(Rest("session")["local"], [by |-> Popup, val |-> TRUE])
      /\ \A b \in Area : b # "local" => Issue(Rest("session"), "local", Popup, TRUE)[b] = Rest("session")[b]
  BY <1>1, <1>2, <1>3, <1>5, Areas DEF Issue
<1>7. Issue(Rest("session"), "local", Popup, TRUE)["session"] \in Seq(Write)
  BY <1>6, Areas
<1>8. Append(Issue(Rest("session"), "local", Popup, TRUE)["session"], [by |-> Popup, val |-> TRUE]) \in Seq(Write)
  BY <1>7, <1>4, AppendType, Zenon
<1>9. /\ Issue(Issue(Rest("session"), "local", Popup, TRUE), "session", Popup, TRUE) \in [Area -> Seq(Write)]
      /\ Issue(Issue(Rest("session"), "local", Popup, TRUE), "session", Popup, TRUE)["session"]
           = Append(Issue(Rest("session"), "local", Popup, TRUE)["session"], [by |-> Popup, val |-> TRUE])
      /\ \A b \in Area : b # "session" => Issue(Issue(Rest("session"), "local", Popup, TRUE), "session", Popup, TRUE)[b] = Issue(Rest("session"), "local", Popup, TRUE)[b]
  BY <1>6, <1>1, <1>7, <1>8, Areas DEF Issue
<1>10. jobs' = Issue(Issue(Rest("session"), "local", Popup, TRUE), "session", Popup, TRUE)
  BY DEF ResumeFails
<1>11. /\ jobs' \in [Area -> Seq(Write)]
      /\ jobs'["session"] = Append(Tail(jobs["session"]), [by |-> Popup, val |-> TRUE])
      /\ jobs'["local"] = Append(jobs["local"], [by |-> Popup, val |-> TRUE])
  BY <1>1, <1>2, <1>3, <1>6, <1>9, <1>10, Areas
<1>12. pen' \in [Writer -> Stage]
  BY <1>1, MapTypes DEF ResumeFails, At, Stage, Resting, PauseTypeOK
<1>13. since' \in [Stopper -> {"no", "latched", "marked", "kept"}]
  BY MapTypes DEF ResumeFails, Rises, PauseTypeOK, told
<1>14. raced' \in SUBSET Stopper
  BY DEF ResumeFails, PauseTypeOK, told
<1> QED BY <1>2, <1>11, <1>12, <1>13, <1>14, TypeFrom DEF PauseTypeOK, ResumeFails, memory, disk

\* The pause is put back in storage.local, or is not.
LEMMA RestoreLocalEffect ==
  ASSUME PauseTypeOK, NEW done \in BOOLEAN, ResumeRestores("local", done)
  PROVE  /\ PauseTypeOK'
         /\ jobs["local"] # <<>>
         /\ jobs'["session"] = jobs["session"]
         /\ jobs'["local"] = Tail(jobs["local"])
<1>1. /\ jobs \in [Area -> Seq(Write)] /\ Popup \in Writer
      /\ paused \in BOOLEAN /\ TRUE \in BOOLEAN /\ FALSE \in BOOLEAN
  BY DEF PauseTypeOK, Writer
<1>2. jobs["local"] # <<>> /\ marker' \in BOOLEAN /\ kept' \in BOOLEAN
  BY HeadType, Areas DEF ResumeRestores
<1>3. /\ Rest("local") \in [Area -> Seq(Write)]
      /\ Rest("local")["local"] = Tail(jobs["local"])
      /\ Rest("local")["session"] = jobs["session"]
  BY <1>1, <1>2, QueueTypes, Areas
<1>4. jobs' = Rest("local")
  BY DEF ResumeRestores
<1>5. /\ jobs' \in [Area -> Seq(Write)]
      /\ jobs'["session"] = jobs["session"]
      /\ jobs'["local"] = Tail(jobs["local"])
  BY <1>1, <1>2, <1>3, <1>4, Areas
<1>6. pen' \in [Writer -> Stage]
  BY <1>1, MapTypes DEF ResumeRestores, At, Stage, Resting, PauseTypeOK
<1>7. since' \in [Stopper -> {"no", "latched", "marked", "kept"}]
  BY MapTypes DEF ResumeRestores, Rises, PauseTypeOK, told
<1>8. raced' \in SUBSET Stopper
  BY DEF ResumeRestores, PauseTypeOK, told
<1> QED BY <1>2, <1>5, <1>6, <1>7, <1>8, TypeFrom DEF PauseTypeOK, ResumeRestores, memory, disk

\* The marker is put back, or is not.
LEMMA RestoreMarkerEffect ==
  ASSUME PauseTypeOK, NEW done \in BOOLEAN, ResumeRestores("session", done)
  PROVE  /\ PauseTypeOK'
         /\ jobs["session"] # <<>>
         /\ jobs'["session"] = Tail(jobs["session"])
         /\ jobs'["local"] = jobs["local"]
<1>1. /\ jobs \in [Area -> Seq(Write)] /\ Popup \in Writer
      /\ paused \in BOOLEAN /\ TRUE \in BOOLEAN /\ FALSE \in BOOLEAN
  BY DEF PauseTypeOK, Writer
<1>2. jobs["session"] # <<>> /\ marker' \in BOOLEAN /\ kept' \in BOOLEAN
  BY HeadType, Areas DEF ResumeRestores
<1>3. /\ Rest("session") \in [Area -> Seq(Write)]
      /\ Rest("session")["session"] = Tail(jobs["session"])
      /\ Rest("session")["local"] = jobs["local"]
  BY <1>1, <1>2, QueueTypes, Areas
<1>4. jobs' = Rest("session")
  BY DEF ResumeRestores
<1>5. /\ jobs' \in [Area -> Seq(Write)]
      /\ jobs'["session"] = Tail(jobs["session"])
      /\ jobs'["local"] = jobs["local"]
  BY <1>1, <1>2, <1>3, <1>4, Areas
<1>6. pen' \in [Writer -> Stage]
  BY <1>1, MapTypes DEF ResumeRestores, At, Stage, Resting, PauseTypeOK
<1>7. since' \in [Stopper -> {"no", "latched", "marked", "kept"}]
  BY MapTypes DEF ResumeRestores, Rises, PauseTypeOK, told
<1>8. raced' \in SUBSET Stopper
  BY DEF ResumeRestores, PauseTypeOK, told
<1> QED BY <1>2, <1>5, <1>6, <1>7, <1>8, TypeFrom DEF PauseTypeOK, ResumeRestores, memory, disk

\* A crash empties the queues; waking and reading leave them alone.
LEMMA RestEffect ==
  ASSUME PauseTypeOK, WorkerDies \/ BrowserQuits \/ Wake \/ Read \/ Load \/ UNCHANGED pauseVars
  PROVE  PauseTypeOK'
<1>1. CASE WorkerDies \/ BrowserQuits
  <2>1. PICK survives : Forget(survives)
    BY <1>1 DEF WorkerDies, BrowserQuits
  <2>2. jobs' \in [Area -> Seq(Write)]
    BY <2>1 DEF Forget
  <2>3. pen' \in [Writer -> Stage]
    BY <2>1 DEF Forget, Stage, Resting
  <2>4. since' \in [Stopper -> {"no", "latched", "marked", "kept"}]
    BY <2>1 DEF Forget, PauseTypeOK
  <2>5. marker' \in BOOLEAN /\ kept' \in BOOLEAN
    BY <1>1 DEF WorkerDies, BrowserQuits, PauseTypeOK
  <2> QED BY <2>1, <2>2, <2>3, <2>4, <2>5, TypeFrom DEF Forget, PauseTypeOK, Nothing
<1>2. CASE Wake \/ UNCHANGED pauseVars
  BY <1>2 DEF Wake, pauseVars, memory, disk, told, PauseTypeOK
<1>3. CASE Read
  <2>1. found' \in [session : BOOLEAN, local : {"none", "paused", "unreadable"}]
    BY <1>3 DEF Read, PauseTypeOK
  <2> QED BY <1>3, <2>1 DEF Read, disk, told, PauseTypeOK
<1>4. CASE Load
  <2>1. unsure' \in BOOLEAN /\ paused' \in BOOLEAN
    BY <1>4 DEF Load, PauseTypeOK
  <2> QED BY <1>4, <2>1 DEF Load, disk, told, PauseTypeOK, Nothing
<1> QED BY <1>1, <1>2, <1>3, <1>4

------------------------------------------------------------------------------
(* The invariant.                                                           *)

\* Where a call stands whose write is in the queue of the one or the other area.
SessionStage == {"marker", "clear", "again", "unmark", "restore", "restored"}
LocalStage   == {"local", "bare", "lift", "restore", "restored"}

\* Each write of a queue is by a call that waits for it, and for no other there.
Owned(q, p, stages) ==
  \A i \in DOMAIN q :
    /\ p[q[i].by] \in stages
    /\ \A j \in DOMAIN q : q[i].by = q[j].by => i = j

\* A write of Resume is further back in the queue.
Later(q, i) == \E j \in DOMAIN q : j > i /\ q[j].by = Popup

\* storage.session: who stores a marker has a write in the queue; a Resume that
\* no stop raced leaves no marker to be stored behind it; and a marker is only
\* taken back when the pause is stored.
SessionInv(q, p, k, r) ==
  /\ Owned(q, p, SessionStage)
  /\ \A d \in Stopper : p[d] = "marker" => \E i \in DOMAIN q : q[i].by = d
  /\ \A i \in DOMAIN q : p[q[i].by] \notin {"clear", "unmark"} => q[i].val
  /\ r = {} => \A i \in DOMAIN q :
       /\ p[Popup] = "unmark" /\ p[q[i].by] = "marker" => Later(q, i)
       /\ p[Popup] # "lift" /\ p[q[i].by] = "clear" => k \/ Later(q, i)

\* storage.local: what lifts the pause is before the write of a Resume, or that.
LocalInv(q, p, r) ==
  /\ Owned(q, p, LocalStage)
  /\ r = {} => \A i \in DOMAIN q :
       ~q[i].val => p[Popup] = "lift" /\ (q[i].by = Popup \/ Later(q, i))

\* A stop that is not raced is behind whatever lifts the pause.
Clean(c, s, r) == s[c] # "no" /\ c \notin r

KeptInv(q, s, r, k) ==
  \A c \in Stopper : Clean(c, s, r) =>
    /\ \A i, j \in DOMAIN q : q[i].by = c /\ j >= i => q[j].val
    /\ s[c] = "kept" => k /\ \A j \in DOMAIN q : q[j].val

Roles ==
  /\ pen[Popup] \in {"off", "lift", "unmark", "restore", "restored"}
  /\ \A c \in Stopper : pen[c] \in Resting \cup {"marker", "local", "bare", "clear", "again"}

\* What the memory and the disk say of the stops.
StateInv ==
  /\ Roles
  /\ unsure => paused
  /\ \A c \in Stopper : Clean(c, since, raced) => pen[Popup] = "off"
  /\ \A c, d \in Stopper : Clean(c, since, raced) /\ pen[d] \notin Resting => paused
  /\ raced = {} => \A c \in Stopper :
       /\ pen[c] = "marker" => paused
       /\ since[c] \in {"marked", "kept"} => marker \/ kept
       /\ since[c] # "no" /\ ~paused =>
            /\ since[c] # "latched" /\ loaded # "yes"
            /\ loaded = "read" => found.session \/ found.local # "none"

\* A Resume that has put back one of the two has one write left.
Once ==
  pen[Popup] = "restored" =>
    ~(/\ \E i \in DOMAIN jobs["session"] : jobs["session"][i].by = Popup
      /\ \E i \in DOMAIN jobs["local"] : jobs["local"][i].by = Popup)

PauseInv ==
  /\ PauseTypeOK
  /\ SessionInv(jobs["session"], pen, kept, raced)
  /\ LocalInv(jobs["local"], pen, raced)
  /\ KeptInv(jobs["local"], since, raced, kept)
  /\ StateInv
  /\ Once

------------------------------------------------------------------------------
(* The three things that happen to a queue.                                 *)

\* What the end of a write of storage.session may do to its call.
Popping(q, p, r, p2, r2, w) ==
  /\ w = Head(q).by
  /\ \A v \in Writer : v # w => p2[v] = p[v]
  /\ p2[w] # "marker"
  /\ r2 = {} => r = {}
  /\ r2 = {} /\ p2[Popup] = "unmark" => p[Popup] = "unmark"
  /\ r2 = {} /\ p2[Popup] # "lift" => p[Popup] # "lift"

\* The oldest write of storage.session is done with.
LEMMA SessionPop ==
  ASSUME NEW q \in Seq(Write), q # <<>>, NEW p, NEW k, NEW r, NEW p2, NEW r2, NEW w,
         SessionInv(q, p, k, r), Popping(q, p, r, p2, r2, w)
  PROVE  /\ SessionInv(Tail(q), p2, k, r2)
         /\ \A i \in DOMAIN Tail(q) : Tail(q)[i].by # w
<1> USE DEF Popping
<1> DEFINE t == Tail(q)
<1>1. /\ \A i \in DOMAIN t : i \in Nat /\ i + 1 \in DOMAIN q /\ t[i] = q[i + 1] /\ i >= 1
      /\ \A i \in DOMAIN q : i \in Nat /\ q[i] \in Write /\ (i > 1 => i - 1 \in DOMAIN t /\ t[i - 1] = q[i])
      /\ 1 \in DOMAIN q /\ q[1].by = w
  BY TailFacts
<1> HIDE DEF t
<1>2. \A i \in DOMAIN q : q[i].by \in Writer
  BY <1>1 DEF Write
<1>3. \A i \in DOMAIN t : t[i].by # w /\ t[i].by \in Writer /\ p2[t[i].by] = p[t[i].by]
  <2> SUFFICES ASSUME NEW i \in DOMAIN t
               PROVE  t[i].by # w /\ t[i].by \in Writer
    OBVIOUS
  <2>1. i \in Nat /\ i + 1 \in DOMAIN q /\ t[i] = q[i + 1] /\ i >= 1
    BY <1>1
  <2>2. q[i + 1].by # q[1].by
    BY <1>1, <2>1 DEF SessionInv, Owned
  <2> QED BY <1>1, <1>2, <2>1, <2>2
<1>4. Owned(t, p2, SessionStage)
  <2> SUFFICES ASSUME NEW i \in DOMAIN t
               PROVE  /\ p2[t[i].by] \in SessionStage
                      /\ \A j \in DOMAIN t : t[i].by = t[j].by => i = j
    BY DEF Owned
  <2>1. p[q[i + 1].by] \in SessionStage
    BY <1>1 DEF SessionInv, Owned
  <2>2. ASSUME NEW j \in DOMAIN t, t[i].by = t[j].by PROVE i = j
    <3>1. q[i + 1].by = q[j + 1].by /\ i + 1 \in DOMAIN q /\ j + 1 \in DOMAIN q
      BY <1>1, <2>2
    <3>2. i + 1 = j + 1
      BY <3>1 DEF SessionInv, Owned
    <3> QED BY <3>2, <1>1
  <2> QED BY <1>1, <1>3, <2>1, <2>2
<1>5. ASSUME NEW d \in Stopper, p2[d] = "marker"
      PROVE  \E i \in DOMAIN t : t[i].by = d
  <2>1. d # w /\ d \in Writer /\ p[d] = "marker"
    BY <1>5 DEF Writer
  <2>2. PICK i \in DOMAIN q : q[i].by = d
    BY <2>1 DEF SessionInv
  <2>3. i > 1
    BY <1>1, <2>1, <2>2, TailFacts
  <2> QED BY <1>1, <2>2, <2>3
<1>6. ASSUME NEW i \in DOMAIN t PROVE p2[t[i].by] \notin {"clear", "unmark"} => t[i].val
  BY <1>1, <1>3 DEF SessionInv
<1>7. ASSUME NEW i \in DOMAIN t, Later(q, i + 1) PROVE Later(t, i)
  <2>1. PICK j \in DOMAIN q : j > i + 1 /\ q[j].by = Popup
    BY <1>7 DEF Later
  <2>2. j - 1 \in DOMAIN t /\ t[j - 1] = q[j] /\ j - 1 > i
    BY <2>1, <1>1
  <2> QED BY <2>1, <2>2 DEF Later
<1>8. ASSUME r2 = {}, NEW i \in DOMAIN t
      PROVE  /\ p2[Popup] = "unmark" /\ p2[t[i].by] = "marker" => Later(t, i)
             /\ p2[Popup] # "lift" /\ p2[t[i].by] = "clear" => k \/ Later(t, i)
  <2>1. i + 1 \in DOMAIN q /\ p2[t[i].by] = p[q[i + 1].by]
    BY <1>1, <1>3
  <2>2. /\ p[Popup] = "unmark" /\ p[q[i + 1].by] = "marker" => Later(q, i + 1)
        /\ p[Popup] # "lift" /\ p[q[i + 1].by] = "clear" => k \/ Later(q, i + 1)
    BY <1>8, <2>1 DEF SessionInv
  <2> QED BY <1>7, <1>8, <2>1, <2>2
<1> QED BY <1>3, <1>4, <1>5, <1>6, <1>8 DEF SessionInv, t

\* What may be issued to storage.session.
Pushing(q, e, p, k, r, p2, k2, r2) ==
  /\ \A i \in DOMAIN q : q[i].by # e.by
  /\ \A v \in Writer : v # e.by => p2[v] = p[v]
  /\ p2[e.by] \in SessionStage
  /\ p2[e.by] \notin {"clear", "unmark"} => e.val
  /\ e.by = Popup => p2[Popup] \notin {"marker", "clear"}
  /\ r2 = {} /\ e.by # Popup =>
       /\ r = {} /\ (p2[Popup] # "lift" /\ k => k2)
       /\ p2[Popup] = "unmark" => p2[e.by] # "marker"
       /\ p2[e.by] = "clear" => k2 \/ p2[Popup] = "lift"

\* A write is issued to storage.session.
LEMMA SessionPush ==
  ASSUME NEW q \in Seq(Write), NEW e \in Write, NEW p, NEW k, NEW r, NEW p2, NEW k2, NEW r2,
         SessionInv(q, p, k, r),
         Pushing(q, e, p, k, r, p2, k2, r2)
  PROVE  SessionInv(Append(q, e), p2, k2, r2)
<1> USE DEF Pushing
<1> DEFINE t == Append(q, e)
<1>1. PICK n \in DOMAIN t :
        /\ n \in Nat /\ t[n] = e /\ n \notin DOMAIN q
        /\ \A i \in DOMAIN t : i = n \/ (i \in DOMAIN q /\ t[i] = q[i])
        /\ \A i \in DOMAIN q : i < n /\ i \in DOMAIN t /\ t[i] = q[i]
  BY AppendFacts
<1>2. \A i \in DOMAIN q : q[i] \in Write /\ q[i].by \in Writer /\ p2[q[i].by] = p[q[i].by]
  <2>1. \A i \in DOMAIN q : q[i] \in Write
    BY AppendFacts
  <2> QED BY <2>1 DEF Write
<1> HIDE DEF t
<1>3. Owned(t, p2, SessionStage)
  BY <1>1, <1>2 DEF SessionInv, Owned
<1>4. ASSUME NEW d \in Stopper, p2[d] = "marker"
      PROVE  \E i \in DOMAIN t : t[i].by = d
  <2>1. CASE d = e.by
    BY <2>1, <1>1
  <2>2. CASE d # e.by
    <3>1. p[d] = "marker"
      BY <2>2, <1>4 DEF Writer
    <3>2. PICK i \in DOMAIN q : q[i].by = d
      BY <3>1 DEF SessionInv
    <3> QED BY <3>2, <1>1
  <2> QED BY <2>1, <2>2
<1>5. \A i \in DOMAIN t : p2[t[i].by] \notin {"clear", "unmark"} => t[i].val
  BY <1>1, <1>2 DEF SessionInv
<1>6. ASSUME NEW i \in DOMAIN q, Later(q, i) PROVE Later(t, i)
  BY <1>1, <1>6 DEF Later
<1>7. ASSUME r2 = {}, NEW i \in DOMAIN t
      PROVE  /\ p2[Popup] = "unmark" /\ p2[t[i].by] = "marker" => Later(t, i)
             /\ p2[Popup] # "lift" /\ p2[t[i].by] = "clear" => k2 \/ Later(t, i)
  <2>1. CASE e.by = Popup /\ i # n
    <3>1. Later(t, i)
      BY <1>1, <2>1 DEF Later
    <3> QED BY <3>1
  <2>2. CASE i = n
    BY <1>1, <1>7, <2>2
  <2>3. CASE e.by # Popup /\ i # n
    <3>1. i \in DOMAIN q /\ t[i] = q[i] /\ p2[t[i].by] = p[q[i].by] /\ p2[Popup] = p[Popup]
      BY <1>1, <1>2, <2>3 DEF Writer
    <3>2. /\ p[Popup] = "unmark" /\ p[q[i].by] = "marker" => Later(q, i)
          /\ p[Popup] # "lift" /\ p[q[i].by] = "clear" => k \/ Later(q, i)
      BY <1>7, <2>3, <3>1 DEF SessionInv
    <3> QED BY <1>6, <1>7, <2>3, <3>1, <3>2
  <2> QED BY <2>1, <2>2, <2>3
<1> QED BY <1>3, <1>4, <1>5, <1>7 DEF SessionInv, t

\* What may happen while storage.session rests.
SessionRests(q, p, k, r, p2, k2, r2) ==
  /\ \A i \in DOMAIN q : \/ p2[q[i].by] = p[q[i].by]
                         \/ p[q[i].by] = "restore" /\ p2[q[i].by] = "restored"
  /\ \A d \in Stopper : p2[d] = "marker" => p[d] = "marker"
  /\ r2 = {} /\ p2[Popup] = "unmark" => r = {} /\ p[Popup] = "unmark"
  /\ r2 = {} /\ p2[Popup] # "lift" => r = {} /\ p[Popup] # "lift" /\ (k => k2)

\* storage.session has nothing to do with it.
LEMMA SessionSame ==
  ASSUME NEW q \in Seq(Write), NEW p, NEW k, NEW r, NEW p2, NEW k2, NEW r2,
         SessionInv(q, p, k, r),
         SessionRests(q, p, k, r, p2, k2, r2)
  PROVE  SessionInv(q, p2, k2, r2)
<1> USE DEF SessionRests
<1>1. Owned(q, p2, SessionStage)
  BY DEF SessionInv, Owned, SessionStage
<1>2. \A d \in Stopper : p2[d] = "marker" => \E i \in DOMAIN q : q[i].by = d
  BY DEF SessionInv
<1>3. \A i \in DOMAIN q : p2[q[i].by] \notin {"clear", "unmark"} => q[i].val
  BY DEF SessionInv
<1>4. ASSUME r2 = {}, NEW i \in DOMAIN q
      PROVE  /\ p2[Popup] = "unmark" /\ p2[q[i].by] = "marker" => Later(q, i)
             /\ p2[Popup] # "lift" /\ p2[q[i].by] = "clear" => k2 \/ Later(q, i)
  <2>1. p2[q[i].by] \in {"marker", "clear"} => p2[q[i].by] = p[q[i].by]
    OBVIOUS
  <2>2. p2[Popup] = "unmark" => p[Popup] = "unmark" /\ r = {}
    BY <1>4
  <2>3. p2[Popup] # "lift" => p[Popup] # "lift" /\ r = {} /\ (k => k2)
    BY <1>4
  <2>4. r = {} => /\ p[Popup] = "unmark" /\ p[q[i].by] = "marker" => Later(q, i)
                  /\ p[Popup] # "lift" /\ p[q[i].by] = "clear" => k \/ Later(q, i)
    BY DEF SessionInv
  <2> QED BY <2>1, <2>2, <2>3, <2>4
<1> QED BY <1>1, <1>2, <1>3, <1>4 DEF SessionInv

\* What the end of a write of storage.local may do to its call.
LocalPopping(q, p, r, p2, r2, w) ==
  /\ w = Head(q).by
  /\ \A v \in Writer : v # w => p2[v] = p[v]
  /\ r2 = {} => r = {}

\* The oldest write of storage.local is done with.
LEMMA LocalPop ==
  ASSUME NEW q \in Seq(Write), q # <<>>, NEW p, NEW r, NEW p2, NEW r2, NEW w,
         LocalInv(q, p, r), LocalPopping(q, p, r, p2, r2, w)
  PROVE  /\ LocalInv(Tail(q), p2, r2)
         /\ \A i \in DOMAIN Tail(q) : Tail(q)[i].by # w
<1> USE DEF LocalPopping
<1> DEFINE t == Tail(q)
<1>1. /\ \A i \in DOMAIN t : i \in Nat /\ i + 1 \in DOMAIN q /\ t[i] = q[i + 1] /\ i >= 1
      /\ \A i \in DOMAIN q : i \in Nat /\ q[i] \in Write /\ (i > 1 => i - 1 \in DOMAIN t /\ t[i - 1] = q[i])
      /\ 1 \in DOMAIN q /\ q[1].by = w
  BY TailFacts
<1> HIDE DEF t
<1>2. \A i \in DOMAIN q : q[i].by \in Writer
  BY <1>1 DEF Write
<1>3. \A i \in DOMAIN t : t[i].by # w /\ t[i].by \in Writer /\ p2[t[i].by] = p[t[i].by]
  <2> SUFFICES ASSUME NEW i \in DOMAIN t
               PROVE  t[i].by # w /\ t[i].by \in Writer
    OBVIOUS
  <2>1. i \in Nat /\ i + 1 \in DOMAIN q /\ t[i] = q[i + 1] /\ i >= 1
    BY <1>1
  <2>2. q[i + 1].by # q[1].by
    BY <1>1, <2>1 DEF LocalInv, Owned
  <2> QED BY <1>1, <1>2, <2>1, <2>2
<1>4. Owned(t, p2, LocalStage)
  <2> SUFFICES ASSUME NEW i \in DOMAIN t
               PROVE  /\ p2[t[i].by] \in LocalStage
                      /\ \A j \in DOMAIN t : t[i].by = t[j].by => i = j
    BY DEF Owned
  <2>1. p[q[i + 1].by] \in LocalStage
    BY <1>1 DEF LocalInv, Owned
  <2>2. ASSUME NEW j \in DOMAIN t, t[i].by = t[j].by PROVE i = j
    <3>1. q[i + 1].by = q[j + 1].by /\ i + 1 \in DOMAIN q /\ j + 1 \in DOMAIN q
      BY <1>1, <2>2
    <3>2. i + 1 = j + 1
      BY <3>1 DEF LocalInv, Owned
    <3> QED BY <3>2, <1>1
  <2> QED BY <1>1, <1>3, <2>1, <2>2
<1>5. ASSUME r2 = {}, NEW i \in DOMAIN t, ~t[i].val
      PROVE  p2[Popup] = "lift" /\ (t[i].by = Popup \/ Later(t, i))
  <2>1. p[Popup] = "lift" /\ (q[i + 1].by = Popup \/ Later(q, i + 1))
    BY <1>1, <1>5 DEF LocalInv
  <2>2. PICK j \in DOMAIN q : j >= i + 1 /\ q[j].by = Popup
    BY <2>1, <1>1 DEF Later
  <2>3. j - 1 \in DOMAIN t /\ t[j - 1].by = Popup /\ j - 1 >= i
    BY <1>1, <2>2
  <2>4. Popup # w /\ Popup \in Writer
    BY <1>3, <2>3
  <2>5. t[i].by = Popup \/ Later(t, i)
    <3>1. i \in Nat /\ j - 1 \in Nat
      BY <1>1, <2>3
    <3>2. CASE j - 1 = i
      BY <2>3, <3>2
    <3>3. CASE j - 1 # i
      <4>1. j - 1 > i
        BY <2>3, <3>1, <3>3
      <4> QED BY <2>3, <4>1 DEF Later
    <3> QED BY <3>2, <3>3
  <2> QED BY <2>1, <2>4, <2>5
<1> QED BY <1>3, <1>4, <1>5 DEF LocalInv, t

\* What may be issued to storage.local.
LocalPushing(q, e, p, r, p2, r2) ==
  /\ \A i \in DOMAIN q : q[i].by # e.by
  /\ \A v \in Writer : v # e.by => p2[v] = p[v]
  /\ p2[e.by] \in LocalStage
  /\ r2 = {} => \/ e.by = Popup /\ p2[Popup] = "lift"
                \/ r = {} /\ e.val /\ (p[Popup] = "lift" => p2[Popup] = "lift")

\* A write is issued to storage.local.
LEMMA LocalPush ==
  ASSUME NEW q \in Seq(Write), NEW e \in Write, NEW p, NEW r, NEW p2, NEW r2,
         LocalInv(q, p, r),
         LocalPushing(q, e, p, r, p2, r2)
  PROVE  LocalInv(Append(q, e), p2, r2)
<1> USE DEF LocalPushing
<1> DEFINE t == Append(q, e)
<1>1. PICK n \in DOMAIN t :
        /\ n \in Nat /\ t[n] = e /\ n \notin DOMAIN q
        /\ \A i \in DOMAIN t : i = n \/ (i \in DOMAIN q /\ t[i] = q[i])
        /\ \A i \in DOMAIN q : i < n /\ i \in DOMAIN t /\ t[i] = q[i]
  BY AppendFacts
<1>2. \A i \in DOMAIN q : q[i] \in Write /\ q[i].by \in Writer /\ p2[q[i].by] = p[q[i].by]
  <2>1. \A i \in DOMAIN q : q[i] \in Write
    BY AppendFacts
  <2> QED BY <2>1 DEF Write
<1> HIDE DEF t
<1>3. Owned(t, p2, LocalStage)
  BY <1>1, <1>2 DEF LocalInv, Owned
<1>4. ASSUME r2 = {}, NEW i \in DOMAIN t, ~t[i].val
      PROVE  p2[Popup] = "lift" /\ (t[i].by = Popup \/ Later(t, i))
  <2>1. CASE e.by = Popup /\ p2[Popup] = "lift"
    BY <1>1, <2>1 DEF Later
  <2>2. CASE r = {} /\ e.val /\ (p[Popup] = "lift" => p2[Popup] = "lift")
    <3>1. i \in DOMAIN q /\ t[i] = q[i]
      BY <1>1, <1>4, <2>2
    <3>2. p[Popup] = "lift" /\ (q[i].by = Popup \/ Later(q, i))
      BY <1>4, <2>2, <3>1 DEF LocalInv
    <3>3. Later(q, i) => Later(t, i)
      BY <1>1 DEF Later
    <3> QED BY <2>2, <3>1, <3>2, <3>3
  <2> QED BY <1>4, <2>1, <2>2
<1> QED BY <1>3, <1>4 DEF LocalInv, t

\* What may happen while storage.local rests.
LocalRests(q, p, r, p2, r2) ==
  /\ \A i \in DOMAIN q : \/ p2[q[i].by] = p[q[i].by]
                         \/ p[q[i].by] = "restore" /\ p2[q[i].by] = "restored"
  /\ r2 = {} => r = {} /\ (p[Popup] = "lift" => p2[Popup] = "lift")

\* storage.local has nothing to do with it.
LEMMA LocalSame ==
  ASSUME NEW q \in Seq(Write), NEW p, NEW r, NEW p2, NEW r2,
         LocalInv(q, p, r),
         LocalRests(q, p, r, p2, r2)
  PROVE  LocalInv(q, p2, r2)
<1> USE DEF LocalRests
<1>1. Owned(q, p2, LocalStage)
  BY DEF LocalInv, Owned, LocalStage
<1> QED BY <1>1 DEF LocalInv

\* A write of storage.local is applied when done, and its stop is kept.
Keeps(q, s, k, s2, k2, done) ==
  /\ k2 = IF done THEN Head(q).val ELSE k
  /\ \A c \in Stopper : \/ s2[c] = s[c]
                        \/ s[c] # "no" /\ s2[c] # "kept"
                        \/ s[c] # "no" /\ done /\ c = Head(q).by

\* The stops behind what lifts the pause, as the oldest write is done with.
LEMMA KeptPop ==
  ASSUME NEW q \in Seq(Write), q # <<>>, NEW s, NEW r, NEW k, NEW s2, NEW k2, NEW done \in BOOLEAN,
         KeptInv(q, s, r, k),
         Keeps(q, s, k, s2, k2, done)
  PROVE  KeptInv(Tail(q), s2, r, k2)
<1> USE DEF Keeps
<1> DEFINE t == Tail(q)
<1>1. /\ \A i \in DOMAIN t : i \in Nat /\ i + 1 \in DOMAIN q /\ t[i] = q[i + 1] /\ i >= 1
      /\ 1 \in DOMAIN q /\ Head(q) = q[1]
  BY TailFacts
<1> HIDE DEF t
<1> SUFFICES ASSUME NEW c \in Stopper, Clean(c, s2, r)
             PROVE  /\ \A i, j \in DOMAIN t : t[i].by = c /\ j >= i => t[j].val
                    /\ s2[c] = "kept" => k2 /\ \A j \in DOMAIN t : t[j].val
  BY DEF KeptInv, t
<1>2. Clean(c, s, r)
  BY DEF Clean
<1>3. /\ \A i, j \in DOMAIN q : q[i].by = c /\ j >= i => q[j].val
      /\ s[c] = "kept" => k /\ \A j \in DOMAIN q : q[j].val
  BY <1>2 DEF KeptInv
<1>4. ASSUME NEW i \in DOMAIN t, NEW j \in DOMAIN t, t[i].by = c, j >= i PROVE t[j].val
  BY <1>1, <1>3, <1>4
<1>5. ASSUME s2[c] = "kept" PROVE k2 /\ \A j \in DOMAIN t : t[j].val
  <2>1. CASE s[c] = "kept"
    BY <1>1, <1>3, <2>1
  <2>2. CASE done /\ c = Head(q).by
    <3>1. q[1].val /\ \A j \in DOMAIN t : q[j + 1].val
      BY <1>1, <1>3, <2>2
    <3> QED BY <1>1, <2>2, <3>1
  <2> QED BY <1>5, <2>1, <2>2
<1> QED BY <1>4, <1>5

\* A write that is issued behind a stop does not lift the pause.
Adds(e, s, r, s2) ==
  \A c \in Stopper : Clean(c, s2, r) =>
    /\ Clean(c, s, r) /\ e.val
    /\ s2[c] = "kept" => s[c] = "kept"

\* And as a write is issued behind them.
LEMMA KeptPush ==
  ASSUME NEW q \in Seq(Write), NEW e \in Write, NEW s, NEW r, NEW k, NEW s2,
         KeptInv(q, s, r, k),
         Adds(e, s, r, s2)
  PROVE  KeptInv(Append(q, e), s2, r, k)
<1> USE DEF Adds
<1> DEFINE t == Append(q, e)
<1>1. PICK n \in DOMAIN t :
        /\ n \in Nat /\ t[n] = e /\ n \notin DOMAIN q
        /\ \A i \in DOMAIN t : i = n \/ (i \in DOMAIN q /\ t[i] = q[i])
        /\ \A i \in DOMAIN q : i < n /\ i \in DOMAIN t /\ t[i] = q[i]
  BY AppendFacts
<1>2. \A i \in DOMAIN q : i \in Nat
  BY AppendFacts
<1> HIDE DEF t
<1> SUFFICES ASSUME NEW c \in Stopper, Clean(c, s2, r)
             PROVE  /\ \A i, j \in DOMAIN t : t[i].by = c /\ j >= i => t[j].val
                    /\ s2[c] = "kept" => k /\ \A j \in DOMAIN t : t[j].val
  BY DEF KeptInv, t
<1>3. /\ \A i, j \in DOMAIN q : q[i].by = c /\ j >= i => q[j].val
      /\ s[c] = "kept" => k /\ \A j \in DOMAIN q : q[j].val
      /\ e.val /\ (s2[c] = "kept" => s[c] = "kept")
  BY DEF KeptInv
<1>4. ASSUME NEW i \in DOMAIN t, NEW j \in DOMAIN t, t[i].by = c, j >= i PROVE t[j].val
  <2>1. CASE j = n
    BY <1>1, <1>3, <2>1
  <2>2. CASE j # n
    <3>1. j \in DOMAIN q /\ t[j] = q[j] /\ j < n
      BY <1>1, <2>2
    <3>2. i \in DOMAIN q /\ t[i] = q[i]
      BY <1>1, <1>2, <1>4, <3>1
    <3> QED BY <1>3, <1>4, <3>1, <3>2
  <2> QED BY <2>1, <2>2
<1>5. ASSUME s2[c] = "kept" PROVE k /\ \A j \in DOMAIN t : t[j].val
  BY <1>1, <1>3, <1>5
<1> QED BY <1>4, <1>5

\* Who has a write in the queue had one before, or is w.
From(t, q, w) == \A i \in DOMAIN t : t[i].by = w \/ \E j \in DOMAIN q : t[i].by = q[j].by

\* It is kept by a push, a pop or no change of the queue.
LEMMA FromFacts ==
  ASSUME NEW q \in Seq(Write), NEW w
  PROVE  /\ From(q, q, w)
         /\ q # <<>> => From(Tail(q), q, w)
         /\ \A e \in Write : e.by = w => From(Append(q, e), q, w)
<1>1. q # <<>> => From(Tail(q), q, w)
  BY TailFacts DEF From
<1>2. ASSUME NEW e \in Write, e.by = w PROVE From(Append(q, e), q, w)
  BY <1>2, AppendFacts DEF From
<1> QED BY <1>1, <1>2 DEF From

------------------------------------------------------------------------------
(* Each action keeps the invariant.                                         *)

\* What is used of the invariant everywhere.
LEMMA InvFacts ==
  ASSUME PauseInv
  PROVE  /\ Popup \in Writer /\ Popup \notin Stopper /\ Stopper \subseteq Writer
         /\ jobs["session"] \in Seq(Write) /\ jobs["local"] \in Seq(Write)
         /\ pen \in [Writer -> Stage]
         /\ since \in [Stopper -> {"no", "latched", "marked", "kept"}]
         /\ \A w : pen[w] \notin SessionStage =>
              \A i \in DOMAIN jobs["session"] : jobs["session"][i].by # w
         /\ \A w : pen[w] \notin LocalStage =>
              \A i \in DOMAIN jobs["local"] : jobs["local"][i].by # w
<1>1. jobs["session"] \in Seq(Write) /\ jobs["local"] \in Seq(Write)
  BY QueueTypes DEF PauseInv, PauseTypeOK
<1>2. /\ pen \in [Writer -> Stage]
      /\ since \in [Stopper -> {"no", "latched", "marked", "kept"}]
  BY DEF PauseInv, PauseTypeOK
<1>3. /\ \A w : pen[w] \notin SessionStage =>
           \A i \in DOMAIN jobs["session"] : jobs["session"][i].by # w
      /\ \A w : pen[w] \notin LocalStage =>
           \A i \in DOMAIN jobs["local"] : jobs["local"][i].by # w
  BY DEF PauseInv, SessionInv, LocalInv, Owned
<1> QED BY <1>1, <1>2, <1>3 DEF Writer

\* The write that completes is the oldest, and is what its call asked for.
LEMMA HeadFacts ==
  ASSUME PauseInv, NEW a \in Area, NEW w, NEW done \in BOOLEAN, Completes(a, w, done)
  PROVE  /\ jobs[a] # <<>> /\ Head(jobs[a]).by = w /\ w \in Writer /\ 1 \in DOMAIN jobs[a]
         /\ Head(jobs[a]) = jobs[a][1]
         /\ a = "session" => /\ pen[w] \notin {"clear", "unmark"} => jobs["session"][1].val
                             /\ kept' = kept
                             /\ marker' = IF done THEN jobs["session"][1].val ELSE marker
         /\ a = "local" => /\ marker' = marker
                           /\ kept' = IF done THEN jobs["local"][1].val ELSE kept
                           /\ pen[Popup] = "off" /\ raced = {} => jobs["local"][1].val
<1>1. jobs[a] # <<>> /\ jobs[a] \in Seq(Write) /\ Head(jobs[a]).by = w /\ w \in Writer
  BY HeadType DEF PauseInv, Completes, PauseTypeOK
<1>2. 1 \in DOMAIN jobs[a] /\ Head(jobs[a]) = jobs[a][1]
  BY <1>1, TailFacts
<1>3. a = "session" => (pen[w] \notin {"clear", "unmark"} => jobs["session"][1].val)
  BY <1>1, <1>2 DEF PauseInv, SessionInv
<1>4. a = "local" => (pen[Popup] = "off" /\ raced = {} => jobs["local"][1].val)
  BY <1>1, <1>2 DEF PauseInv, LocalInv
<1> QED BY <1>1, <1>2, <1>3, <1>4 DEF Completes, Area

\* The writes of Resume are at most as many as before.
LEMMA OnceKept ==
  ASSUME PauseInv, NEW w, w # Popup, pen'[Popup] = pen[Popup],
         From(jobs'["session"], jobs["session"], w), From(jobs'["local"], jobs["local"], w)
  PROVE  Once'
<1>1. pen'[Popup] = "restored" => ~(/\ \E i \in DOMAIN jobs'["session"] : jobs'["session"][i].by = Popup
                                    /\ \E i \in DOMAIN jobs'["local"] : jobs'["local"][i].by = Popup)
  BY DEF PauseInv, Once, From
<1> QED BY <1>1 DEF Once

\* The marker is stored, or not, and the pause is on its way.
LEMMA PenMarkerInv ==
  ASSUME PauseInv, NEW c \in Stopper, NEW done \in BOOLEAN, PenMarker(c, done)
  PROVE  PauseInv'
<1> DEFINE e == [by |-> c, val |-> paused]
<1>1. /\ PauseTypeOK'
      /\ jobs["session"] # <<>>
      /\ jobs'["session"] = Tail(jobs["session"])
      /\ jobs'["local"] = Append(jobs["local"], e)
  BY PenMarkerEffect DEF PauseInv
<1>2. /\ Head(jobs["session"]).by = c /\ pen[c] = "marker" /\ kept' = kept
      /\ marker' = IF done THEN TRUE ELSE marker
      /\ paused' = paused /\ unsure' = unsure /\ loaded' = loaded /\ found' = found
      /\ raced' = raced
      /\ pen' = [pen EXCEPT ![c] = IF done THEN "local" ELSE "bare"]
      /\ since' = IF done THEN [since EXCEPT ![c] = IF @ = "no" THEN "no" ELSE "marked"] ELSE since
  <2>1. "session" \in Area /\ Completes("session", c, done)
    BY Areas DEF PenMarker
  <2>2. marker' = IF done THEN jobs["session"][1].val ELSE marker
    BY <2>1, HeadFacts
  <2>3. pen[c] = "marker" => jobs["session"][1].val
    BY <2>1, HeadFacts
  <2>4. jobs["session"][1].val \in BOOLEAN
    <3>1. jobs["session"][1] \in Write
      BY <2>1, HeadFacts, TailFacts, InvFacts
    <3> QED BY <3>1 DEF Write
  <2>5. kept' = kept /\ Head(jobs["session"]).by = c
    BY <2>1, HeadFacts
  <2> QED BY <2>2, <2>3, <2>4, <2>5 DEF PenMarker, memory, At, Rises
<1>3. /\ pen'[c] \in {"local", "bare"} /\ \A v \in Writer : v # c => pen'[v] = pen[v]
      /\ c # Popup /\ c \in Writer /\ pen'[Popup] = pen[Popup]
      /\ \A d \in Stopper : since'[d] = since[d] \/ (since[d] # "no" /\ since'[d] = "marked")
      /\ done => \A d \in Stopper : since'[d] = since[d] \/ marker'
  BY <1>2, InvFacts
<1>4. SessionInv(jobs'["session"], pen', kept', raced')
  <2>1. Popping(jobs["session"], pen, raced, pen', raced', c)
    BY <1>2, <1>3 DEF Popping
  <2> QED BY <1>1, <1>2, <2>1, InvFacts, SessionPop DEF PauseInv
<1>5. raced = {} => paused
  BY <1>2 DEF PauseInv, StateInv
<1>6. LocalInv(jobs'["local"], pen', raced')
  <2>1. e \in Write
    BY <1>3 DEF Write, PauseInv, PauseTypeOK
  <2>2. \A i \in DOMAIN jobs["local"] : jobs["local"][i].by # c
    BY <1>2, InvFacts DEF LocalStage
  <2>3. LocalPushing(jobs["local"], e, pen, raced, pen', raced')
    BY <1>2, <1>3, <1>5, <2>2 DEF LocalPushing, LocalStage
  <2> HIDE DEF e
  <2> QED BY <1>1, <2>1, <2>3, InvFacts, LocalPush DEF PauseInv
<1>7. KeptInv(jobs'["local"], since', raced', kept')
  <2>1. e \in Write
    BY <1>3 DEF Write, PauseInv, PauseTypeOK
  <2>2. ASSUME NEW d \in Stopper, Clean(d, since', raced)
        PROVE  Clean(d, since, raced) /\ paused /\ (since'[d] = "kept" => since[d] = "kept")
    <3>1. Clean(d, since, raced) /\ (since'[d] = "kept" => since[d] = "kept")
      BY <1>3, <2>2 DEF Clean
    <3>2. paused
      BY <1>2, <3>1 DEF PauseInv, StateInv, Resting
    <3> QED BY <3>1, <3>2
  <2>3. Adds(e, since, raced, since')
    BY <2>2 DEF Adds
  <2> HIDE DEF e
  <2> QED BY <1>1, <1>2, <2>1, <2>3, InvFacts, KeptPush DEF PauseInv
<1>8. StateInv'
  <2>1. Roles'
    BY <1>2, <1>3 DEF PauseInv, StateInv, Roles, Resting
  <2>2. /\ (unsure => paused)'
        /\ (\A d \in Stopper : Clean(d, since, raced) => pen[Popup] = "off")'
        /\ (\A d, f \in Stopper : Clean(d, since, raced) /\ pen[f] \notin Resting => paused)'
    BY <1>2, <1>3 DEF PauseInv, StateInv, Clean, Resting
  <2>3. ASSUME raced = {}, NEW d \in Stopper
        PROVE  /\ pen'[d] = "marker" => paused'
               /\ since'[d] \in {"marked", "kept"} => marker' \/ kept'
               /\ since'[d] # "no" /\ ~paused' =>
                    /\ since'[d] # "latched" /\ loaded' # "yes"
                    /\ loaded' = "read" => found'.session \/ found'.local # "none"
    BY <1>2, <1>3, <1>5, <2>3 DEF PauseInv, StateInv
  <2> QED BY <1>2, <2>1, <2>2, <2>3 DEF StateInv
<1>9. Once'
  <2>1. e \in Write /\ e.by = c
    BY <1>3 DEF Write, PauseInv, PauseTypeOK
  <2> HIDE DEF e
  <2>2. From(jobs'["session"], jobs["session"], c) /\ From(jobs'["local"], jobs["local"], c)
    BY <1>1, <2>1, FromFacts, InvFacts
  <2> QED BY <1>3, <2>2, OnceKept
<1> QED BY <1>1, <1>4, <1>6, <1>7, <1>8, <1>9 DEF PauseInv

\* The memory and the disk, after a step of a stop that is being stored.
LEMMA StateKept ==
  ASSUME PauseInv, NEW c \in Stopper, pen[c] \notin Resting,
         pen'[c] \in Resting \cup {"local", "bare", "clear", "again"},
         \A v \in Writer : v # c => pen'[v] = pen[v],
         paused' = paused, unsure' => unsure, loaded' = loaded, found' = found,
         raced' = raced,
         \A d \in Stopper : \/ since'[d] = since[d]
                            \/ since[d] # "no" /\ since'[d] \in {"marked", "kept"},
         raced = {} => \A d \in Stopper : since'[d] \in {"marked", "kept"} => marker' \/ kept'
  PROVE  StateInv'
<1>1. /\ c # Popup /\ pen'[Popup] = pen[Popup]
      /\ \A d \in Stopper : pen'[d] = pen[d] \/ d = c
  BY InvFacts
<1>2. Roles'
  BY <1>1 DEF PauseInv, StateInv, Roles
<1>3. /\ unsure' => paused'
      /\ \A d \in Stopper : Clean(d, since', raced') => pen'[Popup] = "off"
  <2>1. unsure => paused
    BY DEF PauseInv, StateInv
  <2>2. \A d \in Stopper : Clean(d, since, raced) => pen[Popup] = "off"
    BY DEF PauseInv, StateInv
  <2> QED BY <1>1, <2>1, <2>2 DEF Clean
<1>4. \A d, f \in Stopper : Clean(d, since', raced') /\ pen'[f] \notin Resting => paused'
  <2> SUFFICES ASSUME NEW d \in Stopper, NEW f \in Stopper,
                      Clean(d, since', raced'), pen'[f] \notin Resting
               PROVE  paused'
    OBVIOUS
  <2>1. Clean(d, since, raced)
    BY DEF Clean
  <2>2. pen[f] \notin Resting
    BY <1>1
  <2> QED BY <2>1, <2>2 DEF PauseInv, StateInv
<1>5. ASSUME raced = {}, NEW d \in Stopper
      PROVE  /\ pen'[d] = "marker" => paused'
             /\ since'[d] \in {"marked", "kept"} => marker' \/ kept'
             /\ since'[d] # "no" /\ ~paused' =>
                  /\ since'[d] # "latched" /\ loaded' # "yes"
                  /\ loaded' = "read" => found'.session \/ found'.local # "none"
  BY <1>1, <1>5 DEF PauseInv, StateInv, Resting
<1> QED BY <1>2, <1>3, <1>4, <1>5 DEF StateInv

\* While a Resume is writing no stop is clean.
LEMMA NoneClean ==
  ASSUME PauseInv, pen[Popup] # "off"
  PROVE  /\ \A c \in Stopper : ~Clean(c, since, raced)
         /\ raced = {} => \A c \in Stopper : since[c] = "no"
         /\ \A q, k : KeptInv(q, since, raced, k)
<1>1. \A c \in Stopper : ~Clean(c, since, raced)
  BY DEF PauseInv, StateInv
<1> QED BY <1>1 DEF KeptInv, Clean

\* What is written to storage.local lifts the pause only while a Resume does.
LEMMA LiftFacts ==
  ASSUME PauseInv, raced = {}, jobs["local"] # <<>>, ~jobs["local"][1].val
  PROVE  /\ pen[Popup] = "lift"
         /\ \A c \in Stopper : since[c] = "no"
<1>1. 1 \in DOMAIN jobs["local"]
  BY InvFacts, TailFacts
<1>2. pen[Popup] = "lift"
  BY <1>1 DEF PauseInv, LocalInv
<1> QED BY <1>2, NoneClean

\* A stop latches the pause.
LEMMA LatchInv ==
  ASSUME PauseInv, NEW c \in Stopper, Latch(c)
  PROVE  PauseInv'
<1> DEFINE e == [by |-> c, val |-> TRUE]
<1>1. /\ PauseTypeOK'
      /\ jobs'["session"] = Append(jobs["session"], e)
      /\ jobs'["local"] = jobs["local"]
  BY LatchEffect DEF PauseInv
<1>2. /\ paused' = TRUE /\ unsure' = TRUE /\ loaded' = loaded /\ found' = found
      /\ marker' = marker /\ kept' = kept /\ pen[c] \in Resting
      /\ pen' = [pen EXCEPT ![c] = "marker"]
      /\ since' = [since EXCEPT ![c] = "latched"]
      /\ raced' = IF pen[Popup] \in Resting THEN raced ELSE raced \cup {c}
  BY DEF Latch
<1>3. /\ pen'[c] = "marker" /\ \A v \in Writer : v # c => pen'[v] = pen[v]
      /\ c # Popup /\ c \in Writer /\ pen'[Popup] = pen[Popup]
      /\ since'[c] = "latched" /\ \A d \in Stopper : d # c => since'[d] = since[d]
  BY <1>2, InvFacts
<1>4. /\ raced' = {} => raced = {}
      /\ c \notin raced' => pen[Popup] = "off"
      /\ \A d \in Stopper : d # c /\ Clean(d, since', raced') => Clean(d, since, raced)
  BY <1>2, <1>3 DEF PauseInv, StateInv, Roles, Resting, Clean
<1>5. /\ \A i \in DOMAIN jobs["session"] : jobs["session"][i].by # c
      /\ \A i \in DOMAIN jobs["local"] : jobs["local"][i].by # c /\ jobs["local"][i].by \in Writer
  <2>1. \A i \in DOMAIN jobs["local"] : jobs["local"][i] \in Write
    BY InvFacts
  <2> QED BY <1>2, <2>1, InvFacts DEF SessionStage, LocalStage, Resting, Write
<1>6. SessionInv(jobs'["session"], pen', kept', raced')
  <2>1. e \in Write
    BY <1>3 DEF Write
  <2>2. Pushing(jobs["session"], e, pen, kept, raced, pen', kept', raced')
    BY <1>2, <1>3, <1>4, <1>5 DEF Pushing, SessionStage
  <2> HIDE DEF e
  <2> QED BY <1>1, <2>1, <2>2, InvFacts, SessionPush DEF PauseInv
<1>7. LocalInv(jobs'["local"], pen', raced')
  <2>1. \A i \in DOMAIN jobs["local"] : pen'[jobs["local"][i].by] = pen[jobs["local"][i].by]
    BY <1>3, <1>5
  <2>2. LocalRests(jobs["local"], pen, raced, pen', raced')
    BY <1>3, <1>4, <2>1 DEF LocalRests
  <2> QED BY <1>1, <2>2, InvFacts, LocalSame DEF PauseInv
<1>8. KeptInv(jobs'["local"], since', raced', kept')
  <2> DEFINE q == jobs["local"]
  <2> SUFFICES ASSUME NEW d \in Stopper, Clean(d, since', raced')
               PROVE  /\ \A i, j \in DOMAIN q : q[i].by = d /\ j >= i => q[j].val
                      /\ since'[d] = "kept" => kept /\ \A j \in DOMAIN q : q[j].val
    BY <1>1, <1>2 DEF KeptInv
  <2>1. CASE d = c
    BY <1>3, <1>5, <2>1
  <2>2. CASE d # c
    <3>1. Clean(d, since, raced) /\ since'[d] = since[d]
      BY <1>3, <1>4, <2>2
    <3>2. KeptInv(q, since, raced, kept)
      BY DEF PauseInv
    <3> QED BY <3>1, <3>2 DEF KeptInv
  <2> QED BY <2>1, <2>2
<1>9. StateInv'
  <2>1. Roles'
    BY <1>2, <1>3 DEF PauseInv, StateInv, Roles
  <2>2. \A d \in Stopper : Clean(d, since', raced') => pen'[Popup] = "off"
    <3> SUFFICES ASSUME NEW d \in Stopper, Clean(d, since', raced') PROVE pen[Popup] = "off"
      BY <1>3
    <3>1. CASE d = c
      BY <1>4, <3>1 DEF Clean
    <3>2. CASE d # c
      BY <1>4, <3>2 DEF PauseInv, StateInv
    <3> QED BY <3>1, <3>2
  <2>3. ASSUME raced' = {}, NEW d \in Stopper
        PROVE  since'[d] \in {"marked", "kept"} => marker' \/ kept'
    BY <1>2, <1>3, <1>4, <2>3 DEF PauseInv, StateInv
  <2> QED BY <1>2, <2>1, <2>2, <2>3 DEF StateInv
<1>10. Once'
  <2>1. e \in Write /\ e.by = c
    BY <1>3 DEF Write
  <2> HIDE DEF e
  <2>2. From(jobs'["session"], jobs["session"], c) /\ From(jobs'["local"], jobs["local"], c)
    BY <1>1, <2>1, FromFacts, InvFacts
  <2> QED BY <1>3, <2>2, OnceKept
<1> QED BY <1>1, <1>6, <1>7, <1>8, <1>9, <1>10 DEF PauseInv

\* The pause is stored.
LEMMA PenLocalInv ==
  ASSUME PauseInv, NEW c \in Stopper, PenLocal(c)
  PROVE  PauseInv'
<1> DEFINE e == [by |-> c, val |-> FALSE]
<1>1. /\ PauseTypeOK' /\ jobs["local"] # <<>>
      /\ jobs'["local"] = Tail(jobs["local"])
      /\ pen[c] = "local" => jobs'["session"] = Append(jobs["session"], e)
      /\ pen[c] # "local" => jobs'["session"] = jobs["session"]
  BY PenLocalEffect, PenBareEffect DEF PauseInv
<1>2. /\ pen[c] \in {"local", "bare"}
      /\ paused' = paused /\ (unsure' => unsure) /\ loaded' = loaded /\ found' = found
      /\ raced' = raced
      /\ pen' = [pen EXCEPT ![c] = IF pen[c] = "local" THEN "clear" ELSE "kept"]
      /\ since' = [since EXCEPT ![c] = IF @ = "no" THEN "no" ELSE "kept"]
  BY DEF PenLocal, At, Rises
<1>3. /\ Head(jobs["local"]).by = c /\ Head(jobs["local"]) = jobs["local"][1]
      /\ marker' = marker /\ kept' = jobs["local"][1].val
  BY HeadFacts, Areas DEF PenLocal
<1>4. /\ pen'[c] = (IF pen[c] = "local" THEN "clear" ELSE "kept")
      /\ \A v \in Writer : v # c => pen'[v] = pen[v]
      /\ c # Popup /\ c \in Writer /\ pen'[Popup] = pen[Popup]
      /\ \A d \in Stopper : since'[d] = since[d] \/ (since[d] # "no" /\ since'[d] = "kept" /\ d = c)
  BY <1>2, InvFacts
<1>5. raced = {} => kept' \/ (pen[Popup] = "lift" /\ \A d \in Stopper : since[d] = "no")
  BY <1>1, <1>3, LiftFacts
<1>6. SessionInv(jobs'["session"], pen', kept', raced')
  <2>1. \A i \in DOMAIN jobs["session"] :
           jobs["session"][i].by # c /\ jobs["session"][i].by \in Writer
    <3>1. \A i \in DOMAIN jobs["session"] : jobs["session"][i] \in Write
      BY InvFacts
    <3> QED BY <1>2, <3>1, InvFacts DEF SessionStage, Write
  <2>2. CASE pen[c] = "local"
    <3>1. e \in Write
      BY <1>4 DEF Write
    <3>2. Pushing(jobs["session"], e, pen, kept, raced, pen', kept', raced')
      BY <1>2, <1>4, <1>5, <2>1, <2>2 DEF Pushing, SessionStage
    <3>3. jobs'["session"] = Append(jobs["session"], e)
      BY <1>1, <2>2
    <3> HIDE DEF e
    <3> QED BY <3>1, <3>2, <3>3, InvFacts, SessionPush DEF PauseInv
  <2>3. CASE pen[c] # "local"
    <3>1. SessionRests(jobs["session"], pen, kept, raced, pen', kept', raced')
      <4>1. \A d \in Stopper : pen'[d] = "marker" => pen[d] = "marker"
        BY <1>4, <2>3, InvFacts
      <4>2. \A i \in DOMAIN jobs["session"] :
               pen'[jobs["session"][i].by] = pen[jobs["session"][i].by]
        BY <1>4, <2>1
      <4>3. raced' = raced /\ pen'[Popup] = pen[Popup]
        BY <1>2, <1>4
      <4>4. raced = {} /\ pen[Popup] # "lift" => kept'
        BY <1>5
      <4> QED BY <4>1, <4>2, <4>3, <4>4 DEF SessionRests
    <3>2. jobs'["session"] = jobs["session"]
      BY <1>1, <2>3
    <3> QED BY <3>1, <3>2, InvFacts, SessionSame DEF PauseInv
  <2> QED BY <2>2, <2>3
<1>7. LocalInv(jobs'["local"], pen', raced')
  <2>1. LocalPopping(jobs["local"], pen, raced, pen', raced', c)
    BY <1>2, <1>3, <1>4 DEF LocalPopping
  <2> QED BY <1>1, <2>1, InvFacts, LocalPop DEF PauseInv
<1>8. KeptInv(jobs'["local"], since', raced', kept')
  <2>1. PICK yes \in BOOLEAN : yes
    OBVIOUS
  <2>2. Keeps(jobs["local"], since, kept, since', kept', yes)
    BY <1>3, <1>4, <2>1 DEF Keeps
  <2>3. KeptInv(jobs["local"], since, raced, kept)
    BY DEF PauseInv
  <2> QED BY <1>1, <1>2, <2>2, <2>3, InvFacts, KeptPop
<1>9. StateInv'
  <2>1. raced = {} => \A d \in Stopper : since'[d] \in {"marked", "kept"} => marker' \/ kept'
    BY <1>4, <1>5
  <2>2. pen'[c] \in Resting \cup {"local", "bare", "clear", "again"} /\ pen[c] \notin Resting
    BY <1>2, <1>4 DEF Resting
  <2>3. \A d \in Stopper : \/ since'[d] = since[d]
                           \/ since[d] # "no" /\ since'[d] \in {"marked", "kept"}
    BY <1>4
  <2> QED BY <1>2, <1>4, <2>1, <2>2, <2>3, StateKept
<1>10. Once'
  <2>1. e \in Write /\ e.by = c
    BY <1>4 DEF Write
  <2> HIDE DEF e
  <2>2. From(jobs'["session"], jobs["session"], c) /\ From(jobs'["local"], jobs["local"], c)
    BY <1>1, <2>1, FromFacts, InvFacts
  <2> QED BY <1>4, <2>2, OnceKept
<1> QED BY <1>1, <1>6, <1>7, <1>8, <1>9, <1>10 DEF PauseInv

\* The pause is not stored, or not with a marker either.
LEMMA PenLocalFailsInv ==
  ASSUME PauseInv, NEW c \in Stopper, PenLocalFails(c)
  PROVE  PauseInv'
<1> DEFINE e == [by |-> c, val |-> TRUE]
<1>1. /\ PauseTypeOK' /\ jobs["local"] # <<>>
      /\ jobs'["local"] = Tail(jobs["local"])
      /\ pen[c] = "local" => jobs'["session"] = jobs["session"]
      /\ pen[c] # "local" => jobs'["session"] = Append(jobs["session"], e)
  BY PenLocalFailsEffect, PenBareFailsEffect DEF PauseInv
<1>2. /\ pen[c] \in {"local", "bare"}
      /\ paused' = paused /\ unsure' = unsure /\ loaded' = loaded /\ found' = found
      /\ raced' = raced /\ since' = since
      /\ pen' = [pen EXCEPT ![c] = IF pen[c] = "local" THEN "lost" ELSE "again"]
  BY DEF PenLocalFails, At, memory, told
<1>3. /\ Head(jobs["local"]).by = c /\ Head(jobs["local"]) = jobs["local"][1]
      /\ marker' = marker /\ kept' = kept
  <2>1. PICK no \in BOOLEAN : ~no
    OBVIOUS
  <2>2. Completes("local", c, no)
    BY <2>1, Zenon DEF PenLocalFails, Completes
  <2> QED BY <2>1, <2>2, HeadFacts, Areas
<1>4. /\ pen'[c] = (IF pen[c] = "local" THEN "lost" ELSE "again")
      /\ \A v \in Writer : v # c => pen'[v] = pen[v]
      /\ c # Popup /\ c \in Writer /\ pen'[Popup] = pen[Popup]
  BY <1>2, InvFacts
<1>6. SessionInv(jobs'["session"], pen', kept', raced')
  <2>1. \A i \in DOMAIN jobs["session"] :
           jobs["session"][i].by # c /\ jobs["session"][i].by \in Writer
    <3>1. \A i \in DOMAIN jobs["session"] : jobs["session"][i] \in Write
      BY InvFacts
    <3> QED BY <1>2, <3>1, InvFacts DEF SessionStage, Write
  <2>2. CASE pen[c] # "local"
    <3>1. e \in Write
      BY <1>4 DEF Write
    <3>2. Pushing(jobs["session"], e, pen, kept, raced, pen', kept', raced')
      BY <1>2, <1>3, <1>4, <2>1, <2>2 DEF Pushing, SessionStage
    <3>3. jobs'["session"] = Append(jobs["session"], e)
      BY <1>1, <2>2
    <3> HIDE DEF e
    <3> QED BY <3>1, <3>2, <3>3, InvFacts, SessionPush DEF PauseInv
  <2>3. CASE pen[c] = "local"
    <3>1. SessionRests(jobs["session"], pen, kept, raced, pen', kept', raced')
      <4>1. \A d \in Stopper : pen'[d] = "marker" => pen[d] = "marker"
        BY <1>4, <2>3, InvFacts
      <4>2. \A i \in DOMAIN jobs["session"] :
               pen'[jobs["session"][i].by] = pen[jobs["session"][i].by]
        BY <1>4, <2>1
      <4> QED BY <1>2, <1>3, <1>4, <4>1, <4>2 DEF SessionRests
    <3>2. jobs'["session"] = jobs["session"]
      BY <1>1, <2>3
    <3> QED BY <3>1, <3>2, InvFacts, SessionSame DEF PauseInv
  <2> QED BY <2>2, <2>3
<1>7. LocalInv(jobs'["local"], pen', raced')
  <2>1. LocalPopping(jobs["local"], pen, raced, pen', raced', c)
    BY <1>2, <1>3, <1>4 DEF LocalPopping
  <2> QED BY <1>1, <2>1, InvFacts, LocalPop DEF PauseInv
<1>8. KeptInv(jobs'["local"], since', raced', kept')
  <2>1. PICK no \in BOOLEAN : ~no
    OBVIOUS
  <2>2. Keeps(jobs["local"], since, kept, since', kept', no)
    BY <1>2, <1>3, <2>1 DEF Keeps
  <2>3. KeptInv(jobs["local"], since, raced, kept)
    BY DEF PauseInv
  <2> QED BY <1>1, <1>2, <2>2, <2>3, InvFacts, KeptPop
<1>9. StateInv'
  <2>1. raced = {} => \A d \in Stopper : since'[d] \in {"marked", "kept"} => marker' \/ kept'
    BY <1>2, <1>3 DEF PauseInv, StateInv
  <2>2. pen'[c] \in Resting \cup {"local", "bare", "clear", "again"} /\ pen[c] \notin Resting
    BY <1>2, <1>4 DEF Resting
  <2> QED BY <1>2, <1>4, <2>1, <2>2, StateKept
<1>10. Once'
  <2>1. e \in Write /\ e.by = c
    BY <1>4 DEF Write
  <2> HIDE DEF e
  <2>2. From(jobs'["session"], jobs["session"], c) /\ From(jobs'["local"], jobs["local"], c)
    BY <1>1, <2>1, FromFacts, InvFacts
  <2> QED BY <1>4, <2>2, OnceKept
<1> QED BY <1>1, <1>6, <1>7, <1>8, <1>9, <1>10 DEF PauseInv

\* What PenClear and PenAgain share: the oldest write of storage.session is done
\* with, and the call rests.
LEMMA SettleInv ==
  ASSUME PauseInv, NEW c \in Stopper, NEW stage, stage \in {"kept", "lost"},
         PauseTypeOK', jobs["session"] # <<>>, Head(jobs["session"]).by = c,
         jobs'["session"] = Tail(jobs["session"]), jobs'["local"] = jobs["local"],
         pen[c] \in {"clear", "again"}, pen' = [pen EXCEPT ![c] = stage],
         paused' = paused, unsure' => unsure, loaded' = loaded, found' = found,
         raced' = raced, kept' = kept,
         \A d \in Stopper : since'[d] = since[d] \/ (since[d] # "no" /\ since'[d] = "marked"),
         raced = {} => \A d \in Stopper : since'[d] \in {"marked", "kept"} => marker' \/ kept'
  PROVE  PauseInv'
<1>1. /\ pen'[c] = stage /\ \A v \in Writer : v # c => pen'[v] = pen[v]
      /\ c # Popup /\ c \in Writer /\ pen'[Popup] = pen[Popup]
  BY InvFacts
<1>2. SessionInv(jobs'["session"], pen', kept', raced')
  <2>1. Popping(jobs["session"], pen, raced, pen', raced', c)
    BY <1>1 DEF Popping
  <2> QED BY <2>1, InvFacts, SessionPop DEF PauseInv
<1>3. LocalInv(jobs'["local"], pen', raced')
  <2>1. \A i \in DOMAIN jobs["local"] :
           jobs["local"][i].by # c /\ jobs["local"][i].by \in Writer
    <3>1. \A i \in DOMAIN jobs["local"] : jobs["local"][i] \in Write
      BY InvFacts
    <3> QED BY <3>1, InvFacts DEF LocalStage, Write
  <2>2. \A i \in DOMAIN jobs["local"] : pen'[jobs["local"][i].by] = pen[jobs["local"][i].by]
    BY <1>1, <2>1
  <2>3. LocalRests(jobs["local"], pen, raced, pen', raced')
    BY <1>1, <2>2 DEF LocalRests
  <2> QED BY <2>3, InvFacts, LocalSame DEF PauseInv
<1>4. KeptInv(jobs'["local"], since', raced', kept')
  <2>1. KeptInv(jobs["local"], since, raced, kept)
    BY DEF PauseInv
  <2> QED BY <2>1 DEF KeptInv, Clean
<1>5. StateInv'
  <2>1. pen'[c] \in Resting \cup {"local", "bare", "clear", "again"} /\ pen[c] \notin Resting
    BY <1>1 DEF Resting
  <2>2. \A d \in Stopper : \/ since'[d] = since[d]
                           \/ since[d] # "no" /\ since'[d] \in {"marked", "kept"}
    OBVIOUS
  <2> QED BY <1>1, <2>1, <2>2, StateKept
<1>6. Once'
  <2>1. From(jobs'["session"], jobs["session"], c) /\ From(jobs'["local"], jobs["local"], c)
    BY FromFacts, InvFacts
  <2> QED BY <1>1, <2>1, OnceKept
<1> QED BY <1>2, <1>3, <1>4, <1>5, <1>6 DEF PauseInv

\* The marker is taken back, which no clean stop needs any more.
LEMMA PenClearInv ==
  ASSUME PauseInv, NEW c \in Stopper, NEW done \in BOOLEAN, PenClear(c, done)
  PROVE  PauseInv'
<1>1. /\ PauseTypeOK' /\ jobs["session"] # <<>>
      /\ jobs'["session"] = Tail(jobs["session"]) /\ jobs'["local"] = jobs["local"]
  BY PenClearEffect DEF PauseInv
<1>2. /\ pen[c] = "clear" /\ pen' = [pen EXCEPT ![c] = "kept"]
      /\ paused' = paused /\ (unsure' => unsure) /\ loaded' = loaded /\ found' = found
      /\ since' = since /\ raced' = raced
  BY DEF PenClear, At, told
<1>3. Head(jobs["session"]).by = c /\ kept' = kept /\ 1 \in DOMAIN jobs["session"]
      /\ Head(jobs["session"]) = jobs["session"][1]
  BY HeadFacts, Areas DEF PenClear
<1>4. ASSUME raced = {}, NEW d \in Stopper, since'[d] \in {"marked", "kept"}
      PROVE  kept'
  <2>1. pen[Popup] = "off"
    BY <1>2, <1>4 DEF PauseInv, StateInv, Clean
  <2>2. \A i \in DOMAIN jobs["session"] : jobs["session"][i].by # Popup
    BY <2>1, InvFacts DEF SessionStage
  <2>3. kept \/ Later(jobs["session"], 1)
    BY <1>2, <1>3, <1>4, <2>1 DEF PauseInv, SessionInv
  <2> QED BY <1>3, <2>2, <2>3 DEF Later
<1> DEFINE stage == "kept"
<1>5. stage \in {"kept", "lost"} /\ pen' = [pen EXCEPT ![c] = stage]
  BY <1>2
<1> HIDE DEF stage
<1>6. raced = {} => \A d \in Stopper : since'[d] \in {"marked", "kept"} => marker' \/ kept'
  BY <1>4
<1> QED BY <1>1, <1>2, <1>3, <1>5, <1>6, SettleInv

\* A marker is stored after all, or not.
LEMMA PenAgainInv ==
  ASSUME PauseInv, NEW c \in Stopper, NEW done \in BOOLEAN, PenAgain(c, done)
  PROVE  PauseInv'
<1>1. /\ PauseTypeOK' /\ jobs["session"] # <<>>
      /\ jobs'["session"] = Tail(jobs["session"]) /\ jobs'["local"] = jobs["local"]
  BY PenAgainEffect DEF PauseInv
<1>2. /\ pen[c] = "again" /\ pen' = [pen EXCEPT ![c] = "lost"]
      /\ paused' = paused /\ unsure' = unsure /\ loaded' = loaded /\ found' = found
      /\ raced' = raced
      /\ since' = IF done THEN [since EXCEPT ![c] = IF @ = "no" THEN "no" ELSE "marked"] ELSE since
  BY DEF PenAgain, At, Rises, memory
<1>3. Head(jobs["session"]).by = c /\ kept' = kept
      /\ marker' = IF done THEN jobs["session"][1].val ELSE marker
  BY HeadFacts, Areas DEF PenAgain
<1>4. jobs["session"][1].val
  BY <1>2, HeadFacts, Areas DEF PenAgain
<1>5. \A d \in Stopper : since'[d] = since[d] \/ (since[d] # "no" /\ since'[d] = "marked")
  BY <1>2, InvFacts
<1>6. raced = {} => \A d \in Stopper : since'[d] \in {"marked", "kept"} => marker' \/ kept'
  <2>1. CASE done
    BY <1>3, <1>4, <2>1
  <2>2. CASE ~done
    <3>1. since' = since /\ marker' = marker
      BY <1>2, <1>3, <2>2
    <3> QED BY <1>3, <3>1 DEF PauseInv, StateInv
  <2> QED BY <2>1, <2>2
<1> DEFINE stage == "lost"
<1>7. stage \in {"kept", "lost"} /\ pen' = [pen EXCEPT ![c] = stage]
  BY <1>2
<1> HIDE DEF stage
<1> QED BY <1>1, <1>2, <1>3, <1>5, <1>6, <1>7, SettleInv

\* Resume is clicked: from here on no stop is clean.
LEMMA ResumeInv ==
  ASSUME PauseInv, Resume
  PROVE  PauseInv'
<1> DEFINE e == [by |-> Popup, val |-> FALSE]
<1>1. /\ PauseTypeOK' /\ jobs'["session"] = jobs["session"]
      /\ jobs'["local"] = Append(jobs["local"], e)
  BY ResumeEffect DEF PauseInv
<1>2. /\ Forbidden /\ pen[Popup] \in Resting /\ pen' = [pen EXCEPT ![Popup] = "lift"]
      /\ since' = [c \in Stopper |-> "no"] /\ raced' = {}
      /\ paused' = paused /\ unsure' = unsure /\ loaded' = loaded /\ found' = found
      /\ marker' = marker /\ kept' = kept
  BY DEF Resume, At, memory
<1>3. /\ pen'[Popup] = "lift" /\ \A v \in Writer : v # Popup => pen'[v] = pen[v]
      /\ pen[Popup] = "off" /\ Popup \in Writer
      /\ \A d \in Stopper : pen'[d] = pen[d] /\ d # Popup
  BY <1>2, InvFacts DEF PauseInv, StateInv, Roles, Resting
<1>4. /\ \A i \in DOMAIN jobs["session"] :
           jobs["session"][i].by # Popup /\ jobs["session"][i].by \in Writer
      /\ \A i \in DOMAIN jobs["local"] : jobs["local"][i].by # Popup
  <2>1. \A i \in DOMAIN jobs["session"] : jobs["session"][i] \in Write
    BY InvFacts
  <2> QED BY <1>3, <2>1, InvFacts DEF SessionStage, LocalStage, Write
<1>5. SessionInv(jobs'["session"], pen', kept', raced')
  <2>1. \A i \in DOMAIN jobs["session"] : pen'[jobs["session"][i].by] = pen[jobs["session"][i].by]
    BY <1>3, <1>4
  <2>2. SessionRests(jobs["session"], pen, kept, raced, pen', kept', raced')
    BY <1>3, <2>1 DEF SessionRests
  <2> QED BY <1>1, <2>2, InvFacts, SessionSame DEF PauseInv
<1>6. LocalInv(jobs'["local"], pen', raced')
  <2>1. e \in Write
    BY <1>3 DEF Write
  <2>2. LocalPushing(jobs["local"], e, pen, raced, pen', raced')
    BY <1>3, <1>4 DEF LocalPushing, LocalStage
  <2> HIDE DEF e
  <2> QED BY <1>1, <2>1, <2>2, InvFacts, LocalPush DEF PauseInv
<1>7. \A d \in Stopper : since'[d] = "no" /\ ~Clean(d, since', raced')
  BY <1>2 DEF Clean
<1>8. StateInv'
  <2>1. Roles'
    BY <1>3 DEF PauseInv, StateInv, Roles
  <2>2. unsure' => paused'
    BY <1>2 DEF PauseInv, StateInv
  <2>3. paused'
    BY <1>2 DEF Forbidden, PauseInv, StateInv
  <2> QED BY <1>7, <2>1, <2>2, <2>3 DEF StateInv
<1>9. Once'
  BY <1>3 DEF Once
<1> QED BY <1>1, <1>5, <1>6, <1>7, <1>8, <1>9 DEF PauseInv, KeptInv

\* What the steps of a Resume share, when storage.local and storage.session are
\* as they should be and only the popup moves.
LEMMA ResumingInv ==
  ASSUME PauseInv, pen[Popup] # "off", PauseTypeOK',
         NEW stage, stage \in {"off", "unmark", "restore", "restored"},
         pen' = [pen EXCEPT ![Popup] = stage],
         since' = since, raced' = raced, unsure' => paused',
         raced = {} => \A d \in Stopper : pen[d] = "marker" => paused',
         SessionInv(jobs'["session"], pen', kept', raced'),
         LocalInv(jobs'["local"], pen', raced'),
         Once'
  PROVE  PauseInv'
<1>1. /\ \A c \in Stopper : ~Clean(c, since', raced')
      /\ raced' = {} => \A c \in Stopper : since'[c] = "no"
      /\ KeptInv(jobs'["local"], since', raced', kept')
  BY NoneClean
<1>2. pen'[Popup] = stage /\ \A d \in Stopper : pen'[d] = pen[d] /\ d # Popup
  BY InvFacts
<1>3. Roles'
  BY <1>2 DEF PauseInv, StateInv, Roles
<1>4. StateInv'
  BY <1>1, <1>2, <1>3 DEF StateInv
<1> QED BY <1>1, <1>4 DEF PauseInv

\* What is known of the popup while it moves.
LEMMA PopupMoves ==
  ASSUME PauseInv, NEW stage, pen' = [pen EXCEPT ![Popup] = stage]
  PROVE  /\ pen'[Popup] = stage /\ \A v \in Writer : v # Popup => pen'[v] = pen[v]
         /\ \A d \in Stopper : pen'[d] = pen[d] /\ d # Popup
         /\ \A i \in DOMAIN jobs["session"] : jobs["session"][i].by \in Writer
         /\ \A i \in DOMAIN jobs["local"] : jobs["local"][i].by \in Writer
         /\ [by |-> Popup, val |-> TRUE] \in Write /\ [by |-> Popup, val |-> FALSE] \in Write
<1>1. /\ \A i \in DOMAIN jobs["session"] : jobs["session"][i] \in Write
      /\ \A i \in DOMAIN jobs["local"] : jobs["local"][i] \in Write
  BY InvFacts
<1>2. pen'[Popup] = stage /\ \A v \in Writer : v # Popup => pen'[v] = pen[v]
  BY InvFacts
<1> QED BY <1>1, <1>2, InvFacts DEF Write

\* The pause is lifted in storage.local.
LEMMA ResumeLiftsInv ==
  ASSUME PauseInv, ResumeLifts
  PROVE  PauseInv'
<1> DEFINE e == [by |-> Popup, val |-> FALSE]
           stage == "unmark"
<1>1. /\ PauseTypeOK' /\ jobs["local"] # <<>>
      /\ jobs'["session"] = Append(jobs["session"], e)
      /\ jobs'["local"] = Tail(jobs["local"])
  BY ResumeLiftsEffect DEF PauseInv
<1>2. /\ pen[Popup] = "lift" /\ pen' = [pen EXCEPT ![Popup] = stage]
      /\ since' = since /\ raced' = raced /\ paused' = paused /\ unsure' = unsure
  BY DEF ResumeLifts, At, memory, told
<1>3. Head(jobs["local"]).by = Popup
  BY HeadFacts, Areas DEF ResumeLifts
<1>4. /\ pen'[Popup] = stage /\ \A v \in Writer : v # Popup => pen'[v] = pen[v]
      /\ e \in Write
  BY <1>2, PopupMoves
<1>5. \A i \in DOMAIN jobs["session"] : jobs["session"][i].by # Popup
  BY <1>2, InvFacts DEF SessionStage
<1>6. SessionInv(jobs'["session"], pen', kept', raced')
  <2>1. Pushing(jobs["session"], e, pen, kept, raced, pen', kept', raced')
    BY <1>4, <1>5 DEF Pushing, SessionStage
  <2> HIDE DEF e
  <2> QED BY <1>1, <1>4, <2>1, InvFacts, SessionPush DEF PauseInv
<1>7. LocalInv(jobs'["local"], pen', raced')
  <2>1. LocalPopping(jobs["local"], pen, raced, pen', raced', Popup)
    BY <1>2, <1>3, <1>4 DEF LocalPopping
  <2> QED BY <1>1, <2>1, InvFacts, LocalPop DEF PauseInv
<1>8. Once'
  BY <1>4 DEF Once
<1>9. /\ unsure' => paused'
      /\ raced = {} => \A d \in Stopper : pen[d] = "marker" => paused'
  BY <1>2 DEF PauseInv, StateInv
<1>10. stage \in {"off", "unmark", "restore", "restored"}
  OBVIOUS
<1> HIDE DEF stage
<1> QED BY <1>1, <1>2, <1>6, <1>7, <1>8, <1>9, <1>10, ResumingInv

\* The pause is lifted: whoever still stores a marker raced the Resume.
LEMMA ResumeEndsInv ==
  ASSUME PauseInv, ResumeEnds
  PROVE  PauseInv'
<1> DEFINE stage == "off"
<1>1. /\ PauseTypeOK' /\ jobs["session"] # <<>>
      /\ jobs'["session"] = Tail(jobs["session"])
      /\ jobs'["local"] = jobs["local"]
  BY ResumeEndsEffect DEF PauseInv
<1>2. /\ pen[Popup] = "unmark" /\ pen' = [pen EXCEPT ![Popup] = stage]
      /\ since' = since /\ raced' = raced /\ paused' = FALSE /\ unsure' = FALSE
  BY DEF ResumeEnds, At, told
<1>3. /\ Head(jobs["session"]).by = Popup /\ kept' = kept
      /\ 1 \in DOMAIN jobs["session"] /\ jobs["session"][1].by = Popup
  BY HeadFacts, Areas DEF ResumeEnds
<1>4. /\ pen'[Popup] = stage /\ \A v \in Writer : v # Popup => pen'[v] = pen[v]
      /\ \A i \in DOMAIN jobs["local"] : jobs["local"][i].by \in Writer
  BY <1>2, PopupMoves
<1>5. \A i \in DOMAIN jobs["local"] : jobs["local"][i].by # Popup
  BY <1>2, InvFacts DEF LocalStage
<1>6. SessionInv(jobs'["session"], pen', kept', raced')
  <2>1. Popping(jobs["session"], pen, raced, pen', raced', Popup)
    BY <1>2, <1>3, <1>4 DEF Popping
  <2> QED BY <1>1, <1>3, <2>1, InvFacts, SessionPop DEF PauseInv
<1>7. LocalInv(jobs'["local"], pen', raced')
  <2>1. \A i \in DOMAIN jobs["local"] : pen'[jobs["local"][i].by] = pen[jobs["local"][i].by]
    BY <1>4, <1>5
  <2>2. LocalRests(jobs["local"], pen, raced, pen', raced')
    BY <1>2, <2>1 DEF LocalRests
  <2> QED BY <1>1, <2>2, InvFacts, LocalSame DEF PauseInv
<1>8. Once'
  BY <1>4 DEF Once
<1>9. ASSUME raced = {}, NEW d \in Stopper, pen[d] = "marker" PROVE FALSE
  <2>1. PICK i \in DOMAIN jobs["session"] : jobs["session"][i].by = d
    BY <1>9 DEF PauseInv, SessionInv
  <2>2. Later(jobs["session"], i)
    BY <1>2, <1>9, <2>1 DEF PauseInv, SessionInv
  <2>3. PICK j \in DOMAIN jobs["session"] : j > i /\ jobs["session"][j].by = Popup
    BY <2>2 DEF Later
  <2>4. j = 1
    BY <1>3, <2>3 DEF PauseInv, SessionInv, Owned
  <2>5. i \in Nat /\ i >= 1
    BY <1>1, <2>1, InvFacts, TailFacts
  <2> QED BY <2>3, <2>4, <2>5
<1>10. /\ unsure' => paused'
       /\ stage \in {"off", "unmark", "restore", "restored"}
       /\ raced = {} => \A d \in Stopper : pen[d] = "marker" => paused'
  BY <1>2, <1>9
<1> HIDE DEF stage
<1> QED BY <1>1, <1>2, <1>6, <1>7, <1>8, <1>10, ResumingInv

\* The pause is not lifted in storage.local, and is put back.
LEMMA LiftFailsInv ==
  ASSUME PauseInv, ResumeFails("local")
  PROVE  PauseInv'
<1> DEFINE e == [by |-> Popup, val |-> TRUE]
           stage == "restore"
<1>1. /\ PauseTypeOK' /\ jobs["local"] # <<>>
      /\ jobs'["session"] = Append(jobs["session"], e)
      /\ jobs'["local"] = Append(Tail(jobs["local"]), e)
  BY LiftFailsEffect DEF PauseInv
<1>2. /\ pen[Popup] = "lift" /\ pen' = [pen EXCEPT ![Popup] = stage]
      /\ since' = since /\ raced' = raced /\ paused' = TRUE /\ unsure' = TRUE
  BY DEF ResumeFails, At, told
<1>3. Head(jobs["local"]).by = Popup
  <2>1. PICK no \in BOOLEAN : ~no
    OBVIOUS
  <2>2. Completes("local", Popup, no)
    BY <2>1, Zenon DEF ResumeFails, Completes
  <2> QED BY <2>2, HeadFacts, Areas
<1>4. /\ pen'[Popup] = stage /\ \A v \in Writer : v # Popup => pen'[v] = pen[v]
      /\ e \in Write
  BY <1>2, PopupMoves
<1>5. \A i \in DOMAIN jobs["session"] : jobs["session"][i].by # Popup
  BY <1>2, InvFacts DEF SessionStage
<1>6. SessionInv(jobs'["session"], pen', kept', raced')
  <2>1. Pushing(jobs["session"], e, pen, kept, raced, pen', kept', raced')
    BY <1>4, <1>5 DEF Pushing, SessionStage
  <2> HIDE DEF e
  <2> QED BY <1>1, <1>4, <2>1, InvFacts, SessionPush DEF PauseInv
<1>7. LocalInv(jobs'["local"], pen', raced')
  <2> DEFINE t == Tail(jobs["local"])
  <2>1. LocalPopping(jobs["local"], pen, raced, pen', raced', Popup)
    BY <1>2, <1>3, <1>4 DEF LocalPopping
  <2>2. LocalInv(t, pen', raced') /\ \A i \in DOMAIN t : t[i].by # Popup
    BY <1>1, <2>1, InvFacts, LocalPop DEF PauseInv
  <2>3. t \in Seq(Write)
    BY <1>1, InvFacts, TailFacts
  <2> HIDE DEF t
  <2>4. LocalPushing(t, e, pen', raced', pen', raced')
    BY <1>4, <2>2 DEF LocalPushing, LocalStage
  <2>5. jobs'["local"] = Append(t, e)
    BY <1>1 DEF t
  <2> HIDE DEF e
  <2> QED BY <1>4, <2>2, <2>3, <2>4, <2>5, LocalPush
<1>8. Once'
  BY <1>4 DEF Once
<1>9. /\ unsure' => paused'
      /\ stage \in {"off", "unmark", "restore", "restored"}
      /\ raced = {} => \A d \in Stopper : pen[d] = "marker" => paused'
  BY <1>2
<1> HIDE DEF stage
<1> QED BY <1>1, <1>2, <1>6, <1>7, <1>8, <1>9, ResumingInv

\* The marker is not taken back, and the pause is put back.
LEMMA UnmarkFailsInv ==
  ASSUME PauseInv, ResumeFails("session")
  PROVE  PauseInv'
<1> DEFINE e == [by |-> Popup, val |-> TRUE]
           stage == "restore"
<1>1. /\ PauseTypeOK' /\ jobs["session"] # <<>>
      /\ jobs'["session"] = Append(Tail(jobs["session"]), e)
      /\ jobs'["local"] = Append(jobs["local"], e)
  BY UnmarkFailsEffect DEF PauseInv
<1>2. /\ pen[Popup] = "unmark" /\ pen' = [pen EXCEPT ![Popup] = stage]
      /\ since' = since /\ raced' = raced /\ paused' = TRUE /\ unsure' = TRUE
  BY DEF ResumeFails, At, told
<1>3. Head(jobs["session"]).by = Popup /\ kept' = kept
  <2>1. PICK no \in BOOLEAN : ~no
    OBVIOUS
  <2>2. Completes("session", Popup, no)
    BY <2>1, Zenon DEF ResumeFails, Completes
  <2> QED BY <2>2, HeadFacts, Areas
<1>4. /\ pen'[Popup] = stage /\ \A v \in Writer : v # Popup => pen'[v] = pen[v]
      /\ e \in Write
  BY <1>2, PopupMoves
<1>5. \A i \in DOMAIN jobs["local"] : jobs["local"][i].by # Popup
  BY <1>2, InvFacts DEF LocalStage
<1>6. SessionInv(jobs'["session"], pen', kept', raced')
  <2> DEFINE t == Tail(jobs["session"])
  <2>1. Popping(jobs["session"], pen, raced, pen', raced', Popup)
    BY <1>2, <1>3, <1>4 DEF Popping
  <2>2. SessionInv(t, pen', kept, raced') /\ \A i \in DOMAIN t : t[i].by # Popup
    BY <1>1, <2>1, InvFacts, SessionPop DEF PauseInv
  <2>3. t \in Seq(Write)
    BY <1>1, InvFacts, TailFacts
  <2> HIDE DEF t
  <2>4. Pushing(t, e, pen', kept, raced', pen', kept, raced')
    BY <1>4, <2>2 DEF Pushing, SessionStage
  <2>5. jobs'["session"] = Append(t, e)
    BY <1>1 DEF t
  <2> HIDE DEF e
  <2> QED BY <1>3, <1>4, <2>2, <2>3, <2>4, <2>5, SessionPush
<1>7. LocalInv(jobs'["local"], pen', raced')
  <2>1. LocalPushing(jobs["local"], e, pen, raced, pen', raced')
    BY <1>2, <1>4, <1>5 DEF LocalPushing, LocalStage
  <2> HIDE DEF e
  <2> QED BY <1>1, <1>4, <2>1, InvFacts, LocalPush DEF PauseInv
<1>8. Once'
  BY <1>4 DEF Once
<1>9. /\ unsure' => paused'
      /\ stage \in {"off", "unmark", "restore", "restored"}
      /\ raced = {} => \A d \in Stopper : pen[d] = "marker" => paused'
  BY <1>2
<1> HIDE DEF stage
<1> QED BY <1>1, <1>2, <1>6, <1>7, <1>8, <1>9, ResumingInv

\* What is put back in storage.local, or not.
LEMMA RestoreLocalInv ==
  ASSUME PauseInv, NEW done \in BOOLEAN, ResumeRestores("local", done)
  PROVE  PauseInv'
<1> DEFINE stage == IF pen[Popup] = "restore" THEN "restored" ELSE "off"
<1>1. /\ PauseTypeOK' /\ jobs["local"] # <<>>
      /\ jobs'["session"] = jobs["session"]
      /\ jobs'["local"] = Tail(jobs["local"])
  BY RestoreLocalEffect DEF PauseInv
<1>2. /\ pen[Popup] \in {"restore", "restored"} /\ pen' = [pen EXCEPT ![Popup] = stage]
      /\ since' = since /\ raced' = raced /\ paused' = paused /\ unsure' = unsure
  BY DEF ResumeRestores, At, memory, told
<1>3. /\ Head(jobs["local"]).by = Popup /\ 1 \in DOMAIN jobs["local"]
      /\ jobs["local"][1].by = Popup
      /\ kept' = IF done THEN jobs["local"][1].val ELSE kept
  BY HeadFacts, Areas DEF ResumeRestores
<1>4. /\ pen'[Popup] = stage /\ \A v \in Writer : v # Popup => pen'[v] = pen[v]
      /\ \A d \in Stopper : pen'[d] = pen[d]
      /\ \A i \in DOMAIN jobs["session"] : jobs["session"][i].by \in Writer
  BY <1>2, PopupMoves
<1>5. raced = {} /\ kept => kept'
  BY <1>1, <1>2, <1>3, LiftFacts
<1>6. SessionInv(jobs'["session"], pen', kept', raced')
  <2>1. ASSUME NEW i \in DOMAIN jobs["session"]
        PROVE  \/ pen'[jobs["session"][i].by] = pen[jobs["session"][i].by]
               \/ /\ pen[jobs["session"][i].by] = "restore"
                  /\ pen'[jobs["session"][i].by] = "restored"
    <3>1. CASE jobs["session"][i].by # Popup
      BY <1>4, <3>1
    <3>2. CASE jobs["session"][i].by = Popup
      <4>1. pen[Popup] # "restored"
        BY <1>3, <3>2 DEF PauseInv, Once
      <4> QED BY <1>2, <1>4, <3>2, <4>1
    <3> QED BY <3>1, <3>2
  <2>2. SessionRests(jobs["session"], pen, kept, raced, pen', kept', raced')
    BY <1>2, <1>4, <1>5, <2>1 DEF SessionRests
  <2> QED BY <1>1, <2>2, InvFacts, SessionSame DEF PauseInv
<1>7. /\ LocalInv(jobs'["local"], pen', raced')
      /\ \A i \in DOMAIN jobs'["local"] : jobs'["local"][i].by # Popup
  <2>1. LocalPopping(jobs["local"], pen, raced, pen', raced', Popup)
    BY <1>2, <1>3, <1>4 DEF LocalPopping
  <2> QED BY <1>1, <2>1, InvFacts, LocalPop DEF PauseInv
<1>8. Once'
  BY <1>7 DEF Once
<1>9. /\ unsure' => paused'
      /\ pen[Popup] # "off"
      /\ raced = {} => \A d \in Stopper : pen[d] = "marker" => paused'
      /\ stage \in {"off", "unmark", "restore", "restored"}
  BY <1>2 DEF PauseInv, StateInv
<1> HIDE DEF stage
<1> QED BY <1>1, <1>2, <1>6, <1>7, <1>8, <1>9, ResumingInv

\* What is put back in storage.session, or not.
LEMMA RestoreMarkerInv ==
  ASSUME PauseInv, NEW done \in BOOLEAN, ResumeRestores("session", done)
  PROVE  PauseInv'
<1> DEFINE stage == IF pen[Popup] = "restore" THEN "restored" ELSE "off"
<1>1. /\ PauseTypeOK' /\ jobs["session"] # <<>>
      /\ jobs'["session"] = Tail(jobs["session"])
      /\ jobs'["local"] = jobs["local"]
  BY RestoreMarkerEffect DEF PauseInv
<1>2. /\ pen[Popup] \in {"restore", "restored"} /\ pen' = [pen EXCEPT ![Popup] = stage]
      /\ since' = since /\ raced' = raced /\ paused' = paused /\ unsure' = unsure
  BY DEF ResumeRestores, At, memory, told
<1>3. /\ Head(jobs["session"]).by = Popup /\ 1 \in DOMAIN jobs["session"]
      /\ jobs["session"][1].by = Popup /\ kept' = kept
  BY HeadFacts, Areas DEF ResumeRestores
<1>4. /\ pen'[Popup] = stage /\ \A v \in Writer : v # Popup => pen'[v] = pen[v]
      /\ \A d \in Stopper : pen'[d] = pen[d]
      /\ \A i \in DOMAIN jobs["local"] : jobs["local"][i].by \in Writer
  BY <1>2, PopupMoves
<1>5. /\ SessionInv(jobs'["session"], pen', kept', raced')
      /\ \A i \in DOMAIN jobs'["session"] : jobs'["session"][i].by # Popup
  <2>1. Popping(jobs["session"], pen, raced, pen', raced', Popup)
    BY <1>2, <1>3, <1>4 DEF Popping
  <2> QED BY <1>1, <1>3, <2>1, InvFacts, SessionPop DEF PauseInv
<1>6. LocalInv(jobs'["local"], pen', raced')
  <2>1. ASSUME NEW i \in DOMAIN jobs["local"]
        PROVE  \/ pen'[jobs["local"][i].by] = pen[jobs["local"][i].by]
               \/ /\ pen[jobs["local"][i].by] = "restore"
                  /\ pen'[jobs["local"][i].by] = "restored"
    <3>1. CASE jobs["local"][i].by # Popup
      BY <1>4, <3>1
    <3>2. CASE jobs["local"][i].by = Popup
      <4>1. pen[Popup] # "restored"
        BY <1>3, <3>2 DEF PauseInv, Once
      <4> QED BY <1>2, <1>4, <3>2, <4>1
    <3> QED BY <3>1, <3>2
  <2>2. LocalRests(jobs["local"], pen, raced, pen', raced')
    BY <1>2, <2>1 DEF LocalRests
  <2> QED BY <1>1, <2>2, InvFacts, LocalSame DEF PauseInv
<1>7. Once'
  BY <1>5 DEF Once
<1>8. /\ unsure' => paused'
      /\ pen[Popup] # "off"
      /\ raced = {} => \A d \in Stopper : pen[d] = "marker" => paused'
      /\ stage \in {"off", "unmark", "restore", "restored"}
  BY <1>2 DEF PauseInv, StateInv
<1> HIDE DEF stage
<1> QED BY <1>1, <1>2, <1>5, <1>6, <1>7, <1>8, ResumingInv

\* A crash: nothing is pending any more, and what a clean stop still counts on is
\* on the disk.
LEMMA CrashInv ==
  ASSUME PauseInv, WorkerDies \/ BrowserQuits
  PROVE  PauseInv'
<1>1. PauseTypeOK'
  BY RestEffect DEF PauseInv
<1>2. /\ paused' = FALSE /\ unsure' = FALSE /\ loaded' = "down" /\ raced' = raced /\ kept' = kept
      /\ jobs'["session"] = <<>> /\ jobs'["local"] = <<>>
      /\ \A w \in Writer : pen'[w] = "off"
      /\ \A c \in Stopper : since'[c] # "no" =>
           /\ since'[c] = since[c]
           /\ since[c] \in {"marked", "kept"}
           /\ since[c] = "marked" => marker' = marker
  <2>1. CASE WorkerDies
    BY <2>1, Areas DEF WorkerDies, Forget
  <2>2. CASE BrowserQuits
    BY <2>2, Areas DEF BrowserQuits, Forget
  <2> QED BY <2>1, <2>2
<1>3. /\ \A i : i \notin DOMAIN jobs'["session"] /\ i \notin DOMAIN jobs'["local"]
      /\ pen'[Popup] = "off" /\ \A c \in Stopper : pen'[c] = "off"
  BY <1>2, InvFacts
<1>4. ASSUME NEW c \in Stopper, Clean(c, since', raced')
      PROVE  Clean(c, since, raced) /\ (since[c] = "kept" => kept)
  <2>1. Clean(c, since, raced)
    BY <1>2, <1>4 DEF Clean
  <2>2. KeptInv(jobs["local"], since, raced, kept)
    BY DEF PauseInv
  <2> QED BY <2>1, <2>2 DEF KeptInv
<1>5. /\ SessionInv(jobs'["session"], pen', kept', raced')
      /\ LocalInv(jobs'["local"], pen', raced')
  BY <1>3 DEF SessionInv, LocalInv, Owned
<1>6. KeptInv(jobs'["local"], since', raced', kept')
  <2> DEFINE q == jobs'["local"]
  <2> SUFFICES ASSUME NEW c \in Stopper, Clean(c, since', raced')
               PROVE  /\ \A i, j \in DOMAIN q : q[i].by = c /\ j >= i => q[j].val
                      /\ since'[c] = "kept" => kept' /\ \A j \in DOMAIN q : q[j].val
    BY DEF KeptInv
  <2>1. since'[c] = "kept" => kept'
    BY <1>2, <1>4
  <2> QED BY <1>3, <2>1
<1>7. StateInv'
  <2>1. Roles'
    BY <1>3 DEF Roles, Resting
  <2>2. ASSUME raced' = {}, NEW c \in Stopper, since'[c] # "no"
        PROVE  marker' \/ kept'
    <3>1. Clean(c, since, raced) /\ since'[c] = since[c]
      BY <1>2, <2>2 DEF Clean
    <3>2. since[c] = "kept" => kept
      BY <1>2, <1>4, <2>2, <3>1 DEF Clean
    <3>3. marker \/ kept
      BY <1>2, <2>2 DEF PauseInv, StateInv
    <3> QED BY <1>2, <2>2, <3>2, <3>3
  <2> QED BY <1>2, <1>3, <2>1, <2>2 DEF StateInv, Resting
<1>8. Once'
  BY <1>3 DEF Once
<1> QED BY <1>1, <1>5, <1>6, <1>7, <1>8 DEF PauseInv

\* The worker wakes and reads: a clean stop that the memory does not hold is on
\* the disk, is found there, and is back in the memory.
LEMMA LoadInv ==
  ASSUME PauseInv, Wake \/ Read \/ Load \/ UNCHANGED pauseVars
  PROVE  PauseInv'
<1>1. PauseTypeOK'
  BY RestEffect DEF PauseInv
<1>2. /\ jobs' = jobs /\ pen' = pen /\ since' = since /\ raced' = raced
      /\ marker' = marker /\ kept' = kept
  BY DEF Wake, Read, Load, pauseVars, disk, told
<1>3. /\ SessionInv(jobs'["session"], pen', kept', raced')
      /\ LocalInv(jobs'["local"], pen', raced')
      /\ KeptInv(jobs'["local"], since', raced', kept')
  BY <1>2 DEF PauseInv
<1>4. Once'
  BY <1>2 DEF PauseInv, Once
<1>5. paused => paused'
  BY DEF Wake, Read, Load, pauseVars, memory
<1>6. unsure' => paused'
  BY DEF Wake, Read, Load, pauseVars, memory, PauseInv, StateInv
<1>7. ASSUME raced = {}, NEW c \in Stopper, since[c] # "no", ~paused'
      PROVE  /\ loaded' # "yes"
             /\ loaded' = "read" => found'.session \/ found'.local # "none"
  <2>1. /\ ~paused /\ since[c] \in {"marked", "kept"} /\ (marker \/ kept)
        /\ loaded # "yes"
        /\ loaded = "read" => found.session \/ found.local # "none"
    <3>1. since[c] \in {"no", "latched", "marked", "kept"}
      BY InvFacts
    <3> QED BY <1>5, <1>7, <3>1 DEF PauseInv, StateInv
  <2>2. CASE Wake
    BY <2>2 DEF Wake
  <2>3. CASE Read
    <3>1. PICK local \in {IF kept THEN "paused" ELSE "none", "unreadable"} :
            found' = [session |-> marker, local |-> local]
      BY <2>3 DEF Read
    <3> QED BY <2>1, <2>3, <3>1 DEF Read
  <2>4. CASE Load
    <3>1. found.local \in {"none", "paused", "unreadable"}
      BY DEF PauseInv, PauseTypeOK
    <3> QED BY <1>7, <2>1, <2>4, <3>1 DEF Load
  <2>5. CASE UNCHANGED pauseVars
    BY <2>1, <2>5 DEF pauseVars, memory
  <2> QED BY <2>2, <2>3, <2>4, <2>5
<1>8. StateInv'
  <2>1. Roles'
    BY <1>2 DEF PauseInv, StateInv, Roles
  <2>2. /\ \A c \in Stopper : Clean(c, since', raced') => pen'[Popup] = "off"
        /\ \A c, d \in Stopper : Clean(c, since', raced') /\ pen'[d] \notin Resting => paused'
    BY <1>2, <1>5 DEF PauseInv, StateInv
  <2>3. ASSUME raced' = {}, NEW c \in Stopper
        PROVE  /\ pen'[c] = "marker" => paused'
               /\ since'[c] \in {"marked", "kept"} => marker' \/ kept'
               /\ since'[c] # "no" /\ ~paused' => since'[c] # "latched"
    BY <1>2, <1>5, <2>3 DEF PauseInv, StateInv
  <2> QED BY <1>2, <1>6, <1>7, <2>1, <2>2, <2>3 DEF StateInv
<1> QED BY <1>1, <1>3, <1>4, <1>8 DEF PauseInv

\* The initial state.
LEMMA PauseInitInv == PauseInit => PauseInv
<1> SUFFICES ASSUME PauseInit PROVE PauseInv
  OBVIOUS
<1>1. PauseTypeOK
  BY InitType
<1>2. /\ jobs["session"] = <<>> /\ jobs["local"] = <<>> /\ raced = {}
      /\ \A w \in Writer : pen[w] = "off"
      /\ \A c \in Stopper : since[c] = "no"
      /\ paused = FALSE /\ unsure = FALSE
  BY Areas DEF PauseInit
<1>3. /\ \A i : i \notin DOMAIN jobs["session"] /\ i \notin DOMAIN jobs["local"]
      /\ pen[Popup] = "off" /\ \A c \in Stopper : pen[c] = "off"
  BY <1>2 DEF Writer
<1>4. /\ SessionInv(jobs["session"], pen, kept, raced)
      /\ LocalInv(jobs["local"], pen, raced)
  BY <1>3 DEF SessionInv, LocalInv, Owned
<1>5. KeptInv(jobs["local"], since, raced, kept)
  BY <1>2 DEF KeptInv, Clean
<1>6. StateInv
  BY <1>2, <1>3 DEF StateInv, Roles, Resting, Clean
<1>7. Once
  BY <1>3 DEF Once
<1> QED BY <1>1, <1>4, <1>5, <1>6, <1>7 DEF PauseInv

\* Every step keeps the invariant.
LEMMA PauseNextInv ==
  ASSUME PauseInv, [PauseNext]_pauseVars
  PROVE  PauseInv'
<1>1. ASSUME NEW c \in Stopper, Stop(c) PROVE PauseInv'
  BY <1>1, LatchInv DEF Stop
<1>2. ASSUME NEW done \in BOOLEAN, Popups(done) PROVE PauseInv'
  <2>1. CASE Resume \/ ResumeLifts \/ ResumeEnds
    BY <2>1, ResumeInv, ResumeLiftsInv, ResumeEndsInv
  <2>2. CASE \E a \in Area : ResumeFails(a)
    BY <2>2, LiftFailsInv, UnmarkFailsInv DEF Area
  <2>3. CASE \E a \in Area : ResumeRestores(a, done)
    BY <2>3, RestoreLocalInv, RestoreMarkerInv DEF Area
  <2> QED BY <1>2, <2>1, <2>2, <2>3 DEF Popups
<1>3. ASSUME NEW c \in Stopper, NEW done \in BOOLEAN, Pen(c, done) PROVE PauseInv'
  BY <1>3, PenMarkerInv, PenClearInv, PenAgainInv, PenLocalInv, PenLocalFailsInv DEF Pen
<1>4. CASE WorkerDies \/ BrowserQuits
  BY <1>4, CrashInv
<1>5. CASE Wake \/ Read \/ Load \/ UNCHANGED pauseVars
  BY <1>5, LoadInv
<1> QED BY <1>1, <1>2, <1>3, <1>4, <1>5 DEF PauseNext

\* The invariant says what the two properties say.
LEMMA PauseInvMeans ==
  ASSUME PauseInv
  PROVE  InForce /\ Durable
<1>1. InForce
  <2> SUFFICES ASSUME raced = {}, loaded = "yes", NEW c \in Stopper, since[c] # "no"
               PROVE  paused
    BY DEF InForce, Forbidden
  <2> QED BY DEF PauseInv, StateInv
<1>2. Durable
  BY DEF PauseInv, KeptInv, Durable, Clean
<1> QED BY <1>1, <1>2

------------------------------------------------------------------------------
(* The theorems.                                                            *)

\* The invariant holds in every state of the human pause.
THEOREM PauseSafe == PauseSpec => []PauseInv
<1>1. PauseInit => PauseInv
  BY PauseInitInv
<1>2. PauseInv /\ [PauseNext]_pauseVars => PauseInv'
  BY PauseNextInv
<1> QED BY <1>1, <1>2, PTL DEF PauseSpec

\* The variables of background.js and of its stores keep their types.
THEOREM PauseTypes == PauseSpec => []PauseTypeOK
<1>1. PauseInv => PauseTypeOK
  BY DEF PauseInv
<1> QED BY <1>1, PauseSafe, PTL

\* A stop after the last Resume is in force whenever the worker has read its
\* stores, however many calls stop, and wherever it crashed.
THEOREM PauseInForce == PauseSpec => []InForce
<1>1. PauseInv => InForce
  BY PauseInvMeans
<1> QED BY <1>1, PauseSafe, PTL

\* A pause that storage.local has taken stays there until Resume.
THEOREM PauseDurable == PauseSpec => []Durable
<1>1. PauseInv => Durable
  BY PauseInvMeans
<1> QED BY <1>1, PauseSafe, PTL
==============================================================================
