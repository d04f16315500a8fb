------------------------------ MODULE DodagJoin ------------------------------
(***************************************************************************)
(* What the daemons of a network promise about the DODAG they build, with  *)
(* ranks, timers, datagrams and the kernel's other tables abstracted away: *)
(*                                                                         *)
(*  - a node other than the root joins by attaching below a node that has  *)
(*    joined, or below a neighbour outside the network; it may attach     *)
(*    again later, but never below a node of its own subtree;             *)
(*  - a router installs host routes only towards one of its children, for *)
(*    destinations in that child's subtree.                               *)
(*                                                                         *)
(* RplNetwork is checked to implement this specification.                 *)
(***************************************************************************)
EXTENDS Naturals, FiniteSets

CONSTANTS
    Node,      \* the daemons
    Root,      \* the DODAG root
    Outside,   \* a neighbour outside the modelled network
    None       \* no parent

VARIABLES
    joined,    \* the nodes that have a DAG
    up,        \* the node each node is attached below, Outside or None
    routes     \* the host routes of each node: [dst, via]

vars == <<joined, up, routes>>

\* The nodes reached from k by following the parent function f at most i
\* times.
RECURSIVE Ancestors(_, _, _)
Ancestors(f, k, i) ==
    IF i = 0 \/ f[k] \notin Node THEN {}
    ELSE {f[k]} \cup Ancestors(f, f[k], i - 1)

Subtree(v) == LET f == up IN {v} \cup {k \in Node : v \in Ancestors(f, k, Cardinality(Node))}

TypeOK ==
    /\ joined \subseteq Node
    /\ up \in [Node -> Node \cup {Outside, None}]
    /\ routes \in [Node -> SUBSET [dst : Node, via : Node \cup {Outside}]]

Init ==
    /\ joined = {Root}
    /\ up = [n \in Node |-> None]
    /\ routes = [n \in Node |-> {}]

\* n attaches below p.
Attach(n, p) ==
    /\ n # Root
    /\ p \in joined \cup {Outside}
    /\ joined' = joined \cup {n}
    /\ up' = [up EXCEPT ![n] = p]
    /\ UNCHANGED routes
    /\ p \notin Subtree(n)

\* The routes n may install: through a child towards the child's subtree,
\* or through a neighbour outside the network, which is not checked.
Downward(n) ==
    LET f == up
    IN UNION {[dst : {v} \cup {k \in Node : v \in Ancestors(f, k, Cardinality(Node))},
               via : {v}] : v \in {k \in Node : f[k] = n}}
       \cup [dst : Node, via : {Outside}]

\* n installs the new routes R.
Learn(n, R) ==
    /\ n \in joined
    /\ routes' = [routes EXCEPT ![n] = @ \cup R]
    /\ UNCHANGED <<joined, up>>

Next ==
    \/ \E n \in Node, p \in Node \cup {Outside} : Attach(n, p)
    \/ \E n \in Node : \E R \in SUBSET (Downward(n) \ routes[n]) \ {{}} : Learn(n, R)

Spec == Init /\ [][Next]_vars
=============================================================================
