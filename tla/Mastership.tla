----------------------------- MODULE Mastership -----------------------------
(* What the cluster promises about its Master: at every moment at most one *)
(* node answers routing requests, and between two masters there is a       *)
(* moment without one.  It says nothing of keys, rounds or time.           *)
CONSTANT Nodes
VARIABLE routers   \* the nodes that answer routing requests as Master

Init == routers = {}

TakeOver(n) == routers = {} /\ routers' = {n}

GiveUp(n) == routers = {n} /\ routers' = {}

Next == \E n \in Nodes : TakeOver(n) \/ GiveUp(n)

Spec == Init /\ [][Next]_routers
=============================================================================
