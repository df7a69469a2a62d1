---------------------------- MODULE MCCoordinator ----------------------------
(* Constants of Coordinator for TLC. *)
EXTENDS CoordinatorInv, TLC

CONSTANTS x, y, x0, x1, y0, read, write, all

\* Two units of x and one of y, or one of each.
AppOfUnit == [u \in Units |-> IF u = y0 THEN y ELSE x]

\* Peers are alike: any of them may lead.
PeerSymmetry == Permutations(Peers)

\* No meta roles.
NoMetaRoles == [m \in {} |-> {}]

AllMeansBoth == [m \in {all} |-> {read, write}]
=============================================================================
