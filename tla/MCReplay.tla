------------------------------ MODULE MCReplay ------------------------------
(* Instances of CommandReplay for the model checker.                        *)
EXTENDS CommandReplay, TLC

CONSTANTS i1, i2

Asks(ids, methods) == [id : ids, method : methods]

\* Retries, another command under the same id, and two ids for one slot of
\* memory.
TrafficRetry == Asks({i1}, {"page.click", "tabs.list"}) \cup Asks({i2}, {"page.click"})

\* Computer commands with and without an id.
TrafficComputer == Asks({i1, NoId}, {"computer.click", "computer.observe"})

\* Mutations and observations that can be canceled, a mutation under another id,
\* observations that cannot be canceled.
TrafficBrowser ==
  Asks({i1}, {"page.click", "page.observe"}) \cup Asks({i2}, {"page.click"})
    \cup Asks({NoId}, {"page.observe"})

\* One call and its retries, and at most one request beside them.
OneOther ==
  \A r, q \in {r \in Request : pc[r] # "idle" /\ IdOf(r) # i1} : r = q

Symmetry == Permutations(Request) \cup Permutations(Canceller)
=============================================================================
