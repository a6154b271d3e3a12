------------------------------ MODULE MCControl ------------------------------
(* Instances of BrowserControl.                                             *)
EXTENDS BrowserControl, TLC

CONSTANTS t1, t2, s1, s2

\* Both starts ask for the same tab, or each for one of its own.
SameTab == [s \in Start |-> t1]
OwnTabs == s1 :> t1 @@ s2 :> t2

\* The human pause and the starts apart: stops that latch the pause and no start,
\* or starts with none of these stops and one event.
Apart ==
    \/ \A s \in Start : call[s].pc = "idle"
    \/ events <= 1 /\ \A h \in Stops \cap Stopper : call[h].pc = "idle"
==============================================================================
