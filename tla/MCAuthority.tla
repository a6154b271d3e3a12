----------------------------- MODULE MCAuthority -----------------------------
(* Instances of ComputerAuthority for the model checker.                    *)
EXTENDS ComputerAuthority, TLC

CONSTANTS r1, r2

\* Two starts of a share; the same with mutations and status queries; one request
\* of any method.
Starts     == {r1, r2} \X {"share.start"}
Mixed      == {r1, r2} \X {"share.start", "click", "status"}
Everything == {r1} \X Methods

\* Requests have the same traffic in the runs that use this.
Symmetry == Permutations(Request) \cup Permutations(Share)
=============================================================================
