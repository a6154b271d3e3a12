-------------------------------- MODULE MCHub --------------------------------
(* Model-checking instances of ConnectorHub. *)
EXTENDS ConnectorHub, TLC

\* Connections and calls are interchangeable when every call is detached.
Symmetry == Permutations(Conn) \cup Permutations(Call)
=============================================================================
