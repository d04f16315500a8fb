------------------------------ MODULE RplNetwork ------------------------------
(***************************************************************************)
(* A network of rpld daemons building one DODAG.                           *)
(*                                                                         *)
(* Each node runs the event loop of rpld.c with one interface: the socket  *)
(* callback hands every datagram to process() (process.c), the per-DAG     *)
(* timer re-sends the DIO (trickle_cb) and the per-interface timer sends   *)
(* one DIS (send_dis_cb).  The node Root has the interface configured as   *)
(* dodag_root and one configured DAG of rank 1; every other node creates   *)
(* its DAG from the first DIO it hears.  The kernel's routing state, which *)
(* the daemon changes through netlink.c, is part of the state.             *)
(*                                                                         *)
(* Data abstraction: one RPL instance and one DODAG id; an address is the  *)
(* node it belongs to (its link-local and its autoconfigured address are   *)
(* both named by the node), or Unspec (::); DTSN and DSN are left out      *)
(* because no receiver reads them (module DagStore keeps them).            *)
(***************************************************************************)
EXTENDS Naturals, FiniteSets, FiniteSetsExt, Netlink

CONSTANTS
    Node,           \* the daemons
    Root,           \* the node whose interface is dodag_root
    Link,           \* radio links: 2-element subsets of Node
    IflaAddrLen,    \* the payload length of each node's IFLA_ADDRESS (0: none)
    LlinfoLost,     \* nodes whose nl_get_llinfo request at startup fails
    DestPrefixLen,  \* the prefix length of the root's dest, carried by its DIOs
    NetlinkFaults,  \* can a netlink request fail for another reason?
    Lossy,          \* can the network lose a datagram?
    AllocFails,     \* can mzalloc return NULL in dag_create or dag_peer_create?
    Intruder,       \* a foreign neighbour that sends DIOs
    ForgedRank,     \* the ranks the intruder advertises
    ForgedTargets,  \* the target sets of the DAOs the intruder sends
    MaxInFlight,    \* bound: timers fire only while fewer datagrams are in flight
    NoPeer,         \* dag->parent == NULL
    Unspec          \* the unspecified address ::

ASSUME /\ Root \in Node
       /\ \A l \in Link : l \subseteq Node /\ Cardinality(l) = 2
       /\ \A n \in Node : IflaAddrLen[n] \in Nat
       /\ LlinfoLost \subseteq Node
       /\ DestPrefixLen \in 0..255
       /\ NetlinkFaults \in BOOLEAN /\ Lossy \in BOOLEAN /\ AllocFails \in BOOLEAN
       /\ Intruder \notin Node
       /\ ForgedRank \subseteq 0..65535
       /\ ForgedTargets \subseteq SUBSET (Node \cup {Unspec})
       /\ MaxInFlight \in Nat

VARIABLES
    hasDag,     \* dag_lookup() finds the DAG on the node's interface
    myRank,     \* dag->my_rank
    parent,     \* dag->parent: NoPeer or [addr, rank]
    self,       \* dag->self
    childs,     \* dag->childs: set of [addr, from]
    disArmed,   \* iface->dis_w still armed
    kaddr,      \* kernel: addresses on the interface
    kprefix,    \* kernel: on-link route for the DAG's /64 prefix present
    khost,      \* kernel: host routes [dst, via]
    kdefault,   \* kernel: default routes, by gateway
    msgs        \* datagrams in flight

nodeVars == <<hasDag, myRank, parent, self, childs, disArmed>>
kernelVars == <<kaddr, kprefix, khost, kdefault>>
vars == <<nodeVars, kernelVars, msgs>>

RankMax == 65535                      \* UINT16_MAX

\* gen_stateless_addr: only a /64 prefix and an 8-byte link-layer address
\* make an address.
GenStatelessAddrOk(plen, alen) == plen = 64 /\ alen = 8

\* The nodes whose dag_process_dio can autoconfigure self: config_load
\* ignores the result of nl_get_llinfo, so a lost request leaves addr_len 0.
SlaacOK == {n \in Node : GenStatelessAddrOk(DestPrefixLen,
                                              NlGetLlinfo(IflaAddrLen[n], n \notin LlinfoLost))}
Addr == Node \cup {Unspec}
Sender == Node \cup {Intruder}
Neighbors(n) == {m \in Node : {m, n} \in Link}

Msg(t, s, d, r, T) == [type |-> t, src |-> s, dst |-> d, rank |-> r, targets |-> T]
DioMsg(s, d, r) == Msg("DIO", s, d, r, {})
DisMsg(s, d) == Msg("DIS", s, d, 0, {})
DaoMsg(s, d, T) == Msg("DAO", s, d, 0, T)
DaoAckMsg(s, d) == Msg("DAOACK", s, d, 0, {})

\* The timers of the daemons fire seconds apart while a datagram is
\* delivered in milliseconds; the model lets a timer fire only while fewer
\* than MaxInFlight datagrams are in flight.
Quiet == Cardinality(msgs) < MaxInFlight

\* Datagrams addressed off the modelled network (to the intruder) vanish.
Send(S) == msgs' = msgs \cup {m \in S : m.dst \in Node}
Reply(m, S) == msgs' = (msgs \ {m}) \cup {x \in S : x.dst \in Node}

TypeOK ==
    /\ hasDag \in [Node -> BOOLEAN]
    /\ myRank \in [Node -> 0..RankMax]
    /\ parent \in [Node -> {NoPeer} \cup [addr : Sender, rank : 0..RankMax]]
    /\ self \in [Node -> Addr]
    /\ childs \in [Node -> SUBSET [addr : Addr, from : Sender]]
    /\ disArmed \in [Node -> BOOLEAN]
    /\ kaddr \in [Node -> SUBSET Addr]
    /\ kprefix \in [Node -> BOOLEAN]
    /\ khost \in [Node -> SUBSET [dst : Addr, via : Sender]]
    /\ kdefault \in [Node -> SUBSET Sender]
    /\ \A m \in msgs : m.dst \in Node /\ m.src \in Sender

-----------------------------------------------------------------------------
(* Startup: config_load_dags creates the root DAG with rank 1 and self =   *)
(* dodagid; rpld_setup arms the DIS timer of every interface and adds the  *)
(* dodagid to the root interface, ignoring the result.                     *)
Init ==
    /\ hasDag = [n \in Node |-> n = Root]
    /\ myRank = [n \in Node |-> IF n = Root THEN 1 ELSE RankMax]
    /\ parent = [n \in Node |-> NoPeer]
    /\ self = [n \in Node |-> IF n = Root THEN Root ELSE Unspec]
    /\ childs = [n \in Node |-> {}]
    /\ disArmed = [n \in Node |-> TRUE]
    /\ \E rootAddr \in IF NetlinkFaults THEN {{}, {Root}} ELSE {{Root}} :
          /\ kaddr = [n \in Node |-> IF n = Root THEN rootAddr ELSE {}]
          /\ kprefix = [n \in Node |-> n = Root /\ rootAddr # {}]
    /\ khost = [n \in Node |-> {}]
    /\ kdefault = [n \in Node |-> {}]
    /\ msgs = {}

\* send_dio: dag_build_dio advertises my_rank to all_rpl_addr.
DioMulticast(n) == {DioMsg(n, m, myRank[n]) : m \in Neighbors(n)}

\* trickle_cb: the DAG's periodic timer re-sends its DIO.
TrickleTimer(n) ==
    /\ Quiet
    /\ hasDag[n]
    /\ Send(DioMulticast(n))
    /\ UNCHANGED <<nodeVars, kernelVars>>

\* send_dis_cb: the one-shot timer stops itself and sends a DIS.
DisTimer(n) ==
    /\ Quiet
    /\ disArmed[n]
    /\ disArmed' = [disArmed EXCEPT ![n] = FALSE]
    /\ Send({DisMsg(n, m) : m \in Neighbors(n)})
    /\ UNCHANGED <<hasDag, myRank, parent, self, childs, kernelVars>>

-----------------------------------------------------------------------------
(* process_dio                                                             *)

\* Mutant: the "my_rank == 1" early return is missing.
RootIgnoresDioNever(n) == FALSE

\* Mutant: the root is recognised by my_rank == 0 instead of 1.
RootIgnoresDioRankZero(n) == hasDag[n] /\ myRank[n] = 0

\* A DAG of rank 1 is a root and ignores every DIO.
RootIgnoresDio(n) == hasDag[n] /\ myRank[n] = 1

\* Mutant: dag_peer_create leaves the rank at mzalloc's zero.
PeerForZeroRank(n, m) ==
    IF parent[n] = NoPeer THEN [addr |-> m.src, rank |-> 0] ELSE parent[n]

\* The parent a DIO is compared with: a fresh peer of rank UINT16_MAX for
\* the sender when the DAG has none.
PeerFor(n, m) ==
    IF parent[n] = NoPeer THEN [addr |-> m.src, rank |-> RankMax]
                          ELSE parent[n]

\* Acceptance only rewrites the rank of the existing peer.
AcceptedPeer(n, m) == [PeerFor(n, m) EXCEPT !.rank = m.rank]

\* dag_process_dio gives up when nl_add_addr fails for another reason
\* than EEXIST.
AddFailed(add) == add.rc = -1 /\ add.errno # "EEXIST"

\* Mutant: the result of nl_del_route_via is ignored and self is recorded.
RecordSelfUnchecked(n, del) == self' = [self EXCEPT ![n] = n]

\* The memcpy to dag->self, reached only when nl_del_route_via returned 0.
RecordSelf(n, del) == self' = [self EXCEPT ![n] = IF del.rc = 0 THEN n ELSE @]

\* dag_process_dio: autoconfigure self from the /64 prefix, add it (a new
\* address brings the kernel's on-link route for its prefix), then delete
\* that route; every netlink request may fail before or after the kernel
\* carried it out.
DagProcessDio(n) ==
    \/ /\ n \notin SlaacOK
       /\ UNCHANGED <<kaddr, kprefix, self>>
    \/ /\ n \in SlaacOK
       /\ \E add \in NlAddAddr(kaddr[n], n, NetlinkFaults) :
            LET onlink == kprefix[n] \/ (n \in add.k /\ n \notin kaddr[n])
            IN /\ kaddr' = [kaddr EXCEPT ![n] = add.k]
               /\ \/ /\ AddFailed(add)
                     /\ kprefix' = [kprefix EXCEPT ![n] = onlink]
                     /\ UNCHANGED self
                  \/ /\ ~AddFailed(add)
                     /\ \E del \in NlDelRouteVia(onlink, NetlinkFaults) :
                           /\ kprefix' = [kprefix EXCEPT ![n] = del.k]
                           /\ RecordSelf(n, del)

\* dag_build_dao: one target for self, then one per child.
DaoTargets(n) == {self'[n]} \cup {c.addr : c \in childs[n]}

\* Mutant: the DAO goes back to the sender of the DIO.
DaoToSender(n, m) == m.src


\* process_dio sends the DAO to dag->parent->addr.
DaoTo(n, m) == parent'[n].addr

\* dag_create returns NULL: process_dio returns before anything changed.
DagCreateFails(n, m) ==
    /\ AllocFails
    /\ ~hasDag[n]
    /\ msgs' = msgs \ {m}
    /\ UNCHANGED <<nodeVars, kernelVars>>

\* dag_peer_create returns NULL: process_dio returns, but the DAG it has
\* just created (or found) stays, with no parent and my_rank unchanged
\* (UINT16_MAX for a new one), and its trickle timer keeps advertising it.
PeerCreateFails(n, m) ==
    /\ AllocFails
    /\ ~RootIgnoresDio(n)
    /\ parent[n] = NoPeer
    /\ hasDag' = [hasDag EXCEPT ![n] = TRUE]
    /\ msgs' = msgs \ {m}
    /\ UNCHANGED <<myRank, parent, self, childs, disArmed, kernelVars>>

ProcessDio(n, m) ==
    \/ /\ RootIgnoresDio(n)
       /\ msgs' = msgs \ {m}
       /\ UNCHANGED <<nodeVars, kernelVars>>
    \/ DagCreateFails(n, m)
    \/ PeerCreateFails(n, m)
    \/ /\ ~RootIgnoresDio(n)
       /\ m.rank > PeerFor(n, m).rank
       /\ hasDag' = [hasDag EXCEPT ![n] = TRUE]
       /\ parent' = [parent EXCEPT ![n] = PeerFor(n, m)]
       /\ msgs' = msgs \ {m}
       /\ UNCHANGED <<myRank, self, childs, disArmed, kernelVars>>
    \/ /\ ~RootIgnoresDio(n)
       /\ m.rank <= PeerFor(n, m).rank
       /\ hasDag' = [hasDag EXCEPT ![n] = TRUE]
       /\ parent' = [parent EXCEPT ![n] = AcceptedPeer(n, m)]
       /\ myRank' = [myRank EXCEPT ![n] = (m.rank + 1) % (RankMax + 1)]
       /\ DagProcessDio(n)
       /\ Reply(m, {DaoMsg(n, DaoTo(n, m), DaoTargets(n))})
       /\ UNCHANGED <<childs, disArmed, khost, kdefault>>

-----------------------------------------------------------------------------
(* process_dao                                                             *)

\* Mutant: a child is recorded as reachable through its own address.
RegisterTargetsViaTarget(cs, T, from) ==
    cs \cup {[addr |-> t, from |-> t] : t \in {t \in T : \A c \in cs : c.addr # t}}

\* dag_lookup_child_or_create for every target: a known address keeps the
\* next hop it was first learned through.
RegisterTargets(cs, T, from) ==
    cs \cup {[addr |-> t, from |-> from] : t \in {t \in T : \A c \in cs : c.addr # t}}

\* nl_add_route_via for every child, each on the table the one before it
\* left (the additions commute, so the list order does not matter); the
\* return codes are ignored.
InstallChildRoutes(n) ==
    LET step(c, tables) ==
            UNION {{res.k : res \in NlAddRouteVia(h, c.addr, c.from, NetlinkFaults)} : h \in tables}
    IN \E h \in FoldSet(step, {khost[n]}, childs'[n]) :
          khost' = [khost EXCEPT ![n] = h]

ProcessDao(n, m) ==
    \/ /\ ~hasDag[n]
       /\ msgs' = msgs \ {m}
       /\ UNCHANGED <<nodeVars, kernelVars>>
    \/ /\ hasDag[n]
       /\ childs' = [childs EXCEPT ![n] = RegisterTargets(@, m.targets, m.src)]
       /\ InstallChildRoutes(n)
       /\ Reply(m, {DaoAckMsg(n, m.src)})
       /\ UNCHANGED <<hasDag, myRank, parent, self, disArmed, kaddr, kprefix, kdefault>>

\* process_daoack: no check of the acknowledged sequence number; a DAG
\* with a parent installs a default route through it.
ProcessDaoAck(n, m) ==
    \/ /\ ~hasDag[n] \/ parent[n] = NoPeer
       /\ msgs' = msgs \ {m}
       /\ UNCHANGED <<nodeVars, kernelVars>>
    \/ /\ hasDag[n] /\ parent[n] # NoPeer
       /\ \E res \in NlAddRouteDefault(kdefault[n], parent[n].addr, NetlinkFaults) :
             kdefault' = [kdefault EXCEPT ![n] = res.k]
       /\ msgs' = msgs \ {m}
       /\ UNCHANGED <<nodeVars, kaddr, kprefix, khost>>

\* process_dis: every DAG of the interface answers with its DIO at once.
ProcessDis(n, m) ==
    /\ Reply(m, IF hasDag[n] THEN DioMulticast(n) ELSE {})
    /\ UNCHANGED <<nodeVars, kernelVars>>

\* icmpv6_cb / process: dispatch on the ICMPv6 code.
Receive(m) ==
    /\ m \in msgs
    /\ CASE m.type = "DIO"    -> ProcessDio(m.dst, m)
         [] m.type = "DAO"    -> ProcessDao(m.dst, m)
         [] m.type = "DAOACK" -> ProcessDaoAck(m.dst, m)
         [] m.type = "DIS"    -> ProcessDis(m.dst, m)

-----------------------------------------------------------------------------
(* Environment                                                             *)

Lose(m) ==
    /\ Lossy
    /\ m \in msgs
    /\ msgs' = msgs \ {m}
    /\ UNCHANGED <<nodeVars, kernelVars>>

\* Any neighbour may send a DAO; process_dao trusts its targets.
ForgeDao(n, T) ==
    /\ Quiet
    /\ Send({DaoMsg(Intruder, n, T)})
    /\ UNCHANGED <<nodeVars, kernelVars>>

ForgeDio(n, rk) ==
    /\ Quiet
    /\ Send({DioMsg(Intruder, n, rk)})
    /\ UNCHANGED <<nodeVars, kernelVars>>

Next ==
    \/ \E n \in Node : TrickleTimer(n) \/ DisTimer(n)
    \/ \E m \in msgs : Receive(m) \/ Lose(m)
    \/ \E n \in Node, rk \in ForgedRank : ForgeDio(n, rk)
    \/ \E n \in Node, T \in ForgedTargets : ForgeDao(n, T)

\* The trickle timer is periodic in libev and re-armed by trickle_cb, so it
\* fires again and again; it is strongly fair because the MaxInFlight bound
\* of the model (not the code) may keep it disabled now and then.  A
\* datagram of a kind that keeps being sent over a link is eventually
\* delivered.  The one-shot DIS timer needs no fairness: the trickle timer
\* alone must make the DODAG converge.
ReceiveOf(t, s, d) == \E m \in msgs : m.type = t /\ m.src = s /\ m.dst = d /\ Receive(m)

Fairness ==
    /\ \A n \in Node : SF_vars(TrickleTimer(n))
    /\ \A t \in {"DIO", "DAO", "DAOACK", "DIS"}, s, d \in Node :
          {s, d} \in Link => SF_vars(ReceiveOf(t, s, d))

Spec == Init /\ [][Next]_vars
FairSpec == Spec /\ Fairness

-----------------------------------------------------------------------------
(* Refinement: the network implements DodagJoin.  A node has joined when   *)
(* it has a DAG; it is attached below the address of dag->parent, the      *)
(* intruder standing for every neighbour outside the network; its routes   *)
(* are the kernel's host routes to real addresses.                         *)

UpMap == [n \in Node |-> IF parent[n] = NoPeer THEN NoPeer ELSE parent[n].addr]

RouteMap == [n \in Node |-> {rt \in khost[n] : rt.dst \in Node}]

Join == INSTANCE DodagJoin
            WITH joined <- {n \in Node : hasDag[n]}, up <- UpMap, routes <- RouteMap,
                 Outside <- Intruder, None <- NoPeer

-----------------------------------------------------------------------------
(* Properties                                                              *)

\* Every step of the daemons is a step of DodagJoin: a DIO attaches a node
\* only below a node that has a DAG and never below its own subtree, and a
\* DAO makes a router install routes only through the child it came from,
\* towards that child's subtree, whatever the order in which DIOs and DAOs
\* of different nodes are delivered or lost.  This is Join!Spec, with
\* the steps that change none of its variables named first.
JoinRefinement == Join!Init /\ [][UNCHANGED Join!vars \/ Join!Next]_vars

\* The node k routes through, when that is a modelled node.
UpOf(k) == IF parent[k] # NoPeer /\ parent[k].addr \in Node THEN {parent[k].addr} ELSE {}

\* The nodes reached from k by following dag->parent up to i times.
RECURSIVE Up(_, _)
Up(k, i) == IF i = 0 THEN {} ELSE UpOf(k) \cup UNION {Up(p, i - 1) : p \in UpOf(k)}

Above(k) == Up(k, Cardinality(Node))

\* The parent pointers of all DAGs form a tree towards the root: no node
\* reaches itself by following dag->parent, however the DIOs of the nodes
\* interleave.  This is what the root's "my_rank == 1" early return in
\* process_dio and the parent being fixed at the first DIO guarantee, as
\* long as dag_peer_create succeeds: a DAG left without a parent advertises
\* UINT16_MAX, a neighbour adopting it wraps to rank 0, and the parentless
\* node then attaches below that neighbour.
ParentsAcyclic == \A n \in Node : n \notin Above(n)

\* A node k is in the subtree of v when v is reachable from k by parents.
Subtree(v) == {v} \cup {k \in Node : v \in Above(k)}

\* Every host route that process_dao installs for a real address leads
\* down the tree: its next hop is a node whose parent is the router, and
\* the destination lies in the subtree of that next hop.  A DAO that went
\* to a node other than the parent, or a child entry learned through the
\* wrong neighbour, installs a route that goes elsewhere.
RoutesFollowTree ==
    \A n \in Node : \A rt \in khost[n] :
        rt.dst # Unspec =>
            /\ rt.via \in Node
            /\ parent[rt.via] # NoPeer /\ parent[rt.via].addr = n
            /\ rt.dst \in Subtree(rt.via)

\* The rank of a node is larger than the current rank of the node it routes
\* through (the RPL rank rule that keeps a DODAG loop free).
RankAboveParent ==
    \A n \in Node : parent[n] # NoPeer /\ parent[n].addr \in Node =>
        myRank[n] > myRank[parent[n].addr]

\* Once a joined node has recorded its autoconfigured address, the on-link
\* route the kernel created for its /64 prefix is gone, whichever of the
\* netlink requests of dag_process_dio failed on the way, and however
\* often they were retried by later DIOs.
NoOnlinkRouteOnceSelf ==
    \A n \in Node \ {Root} : self[n] = n => ~kprefix[n]

\* A DAO never advertises the unspecified address as a target.
NoUnspecTarget == \A m \in msgs : m.type = "DAO" => Unspec \notin m.targets

\* Every node joins the DODAG, gets a default route, and the root learns a
\* host route to its autoconfigured address.
EveryNodeReachable ==
    \A n \in Node \ {Root} :
        <>(kdefault[n] # {} /\ \E rt \in khost[Root] : rt.dst = n)
=============================================================================
