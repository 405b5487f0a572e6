-------------------------- MODULE MCSDLCExecution --------------------------
(* Small instances of SDLCExecution for TLC. *)
EXTENDS SDLCExecution, TLC

CONSTANTS r1, r2, w1, w2, p1, p2, c1, c2, alice, bob

Feature == [r \in Runs |-> "feature"]
Incident == [r \in Runs |-> "incident"]
Mixed == (r1 :> "feature") @@ (r2 :> "incident")
OneOwner == [r \in Runs |-> alice]
TwoOwners == (r1 :> alice) @@ (r2 :> bob)
Serial == [r \in Runs |-> 1]
Uneven == (r1 :> 2) @@ (r2 :> 1)

NoQueries == {}

Symmetry == Permutations(Workers) \cup Permutations(Contexts)
=============================================================================
