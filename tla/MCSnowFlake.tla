---------------------------- MODULE MCSnowFlake ----------------------------
(* A site whose object two threads share, and which is unsteady, beside a  *)
(* steady one of the same datacenter.                                      *)
EXTENDS SnowFlake, TLC

CONSTANTS g1, g2, t1, t2, t3

ThreeOnTwo == (t1 :> g1) @@ (t2 :> g1) @@ (t3 :> g2)
MCDatacenter == [g \in Sites |-> 1]
MCMachine == [g \in Sites |-> IF g = g1 THEN 0 ELSE 1]
============================================================================
