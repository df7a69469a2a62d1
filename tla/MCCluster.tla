------------------------------ MODULE MCCluster ------------------------------
(* Constants of Cluster for TLC. *)
EXTENDS Cluster

CONSTANTS x, x0, x1, read, write, all

AppOfUnit == [u \in Units |-> x]
LeadUnit == [a \in Apps |-> x0]
AllMeansBoth == [m \in {all} |-> {read, write}]

\* Two units that read and one that writes.
TwoReadOneWrite == [r \in {read, write} |-> IF r = read THEN 2 ELSE 1]
=============================================================================
