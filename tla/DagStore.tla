------------------------------ MODULE DagStore ------------------------------
(***************************************************************************)
(* The TopologyStore of one interface (dag.c): the list iface->rpls of RPL *)
(* instances, each with its list of DAGs, as dag_create builds them for    *)
(* config_load_dags at startup and for process_dio at run time; the        *)
(* trickle watcher every DAG owns, started by dag_init and again by         *)
(* rpld_setup; and what dag_build_dio and dag_build_dao change in a DAG.   *)
(*                                                                         *)
(* Objects live in arenas: rpl[i] is the i-th struct rpl allocated, dag[j] *)
(* the j-th struct dag.  free() marks an object freed; its memory keeps   *)
(* its contents, one of the outcomes of reading it after the free.        *)
(* mzalloc may fail when AllocFails.  The watcher is described by the two  *)
(* fields of libev it depends on: whether libev takes it for active and   *)
(* how many entries the timer heap holds for it.                          *)
(*                                                                         *)
(* Around the store runs main (rpld.c): netlink_open, config_load's loop  *)
(* over the configured interfaces (the list ifaces, an IntrusiveList;     *)
(* the dodag_root interface is the one whose store this is), rpld_setup,  *)
(* set_var, open_icmpv6_socket, ev_run until SIGINT, and the shutdown     *)
(* with config_free.                                                       *)
(***************************************************************************)
EXTENDS Naturals, Sequences, SequencesExt, SafeBuffer, IntrusiveList

CONSTANTS
    InstanceIds,  \* instance ids
    DodagIds,     \* DODAG ids
    Configs,      \* the configurations: each a sequence of <<instance, dodagid>>
    AllocFails,   \* mzalloc may return NULL
    MaxAllocs,    \* bound: allocations of struct rpl, struct dag and struct child
    MaxBuilds,    \* bound: DIOs and DAOs built by one DAG (below 256, so dtsn
                  \* and dsn count them)
    ChildAddrs,   \* the target addresses DAOs carry
    TargetLists,  \* the target lists of the DAOs received, in option order
    PrefixLens,   \* the lengths of dest: from the configuration or a DIO
    IfaceLists,   \* the configured interfaces in order: dodag_root of each
    SysFails      \* the system calls of main's startup may fail

ASSUME /\ Configs \subseteq Seq(InstanceIds \X DodagIds)
       /\ AllocFails \in BOOLEAN
       /\ MaxAllocs \in Nat /\ MaxBuilds \in 0..255
       /\ TargetLists \subseteq Seq(ChildAddrs)
       /\ PrefixLens \subseteq 0..255
       /\ IfaceLists \subseteq Seq(BOOLEAN)
       /\ \A l \in IfaceLists : Cardinality({k \in DOMAIN l : l[k]}) <= 1
       /\ SysFails \in BOOLEAN

VARIABLES
    phase,  \* where main is: "start", "lua", "config" (the interface loop),
            \* "dags" (config_load_instances), "setvar", "socket", "running"
            \* (ev_run), "exit" (exit without config_free) or "done"
            \* (returned or exited after config_free)
    icfg,   \* the configured interfaces not loaded yet: dodag_root of each
    ifl,    \* ifaces: [head, t], t the struct iface arena [root, frees, prev, next]
    sock,   \* the ICMPv6 socket: "none", "open" or "closed"
    mcast,  \* the interfaces (entries of ifl.t) subscribed to ff02::1a
    cfg,    \* the configuration entries not loaded yet
    rpls,   \* iface->rpls: indexes into rpl, in list order
    rpl,    \* struct rpl arena: [inst, dags (indexes into dag), freed]
    dag,    \* struct dag arena: [inst, id, dsn, dtsn, acks, active, heap, childs]
    last,   \* the dag_create call just made and what it returned
    sent,   \* the last datagram built: [kind, dag, targets, buf]
    disw    \* the interfaces (entries of ifl.t) whose dis_w is active

mainVars == <<icfg, ifl, sock, mcast>>
vars == <<phase, cfg, rpls, rpl, dag, last, sent, disw, icfg, ifl, sock, mcast>>

NULL == 0

TypeOK ==
    /\ phase \in {"start", "lua", "config", "dags", "setvar", "socket", "running", "exit", "done"}
    /\ rpls \in Seq(DOMAIN rpl)
    /\ rpl \in Seq([inst : InstanceIds, dags : Seq(DOMAIN dag), freed : BOOLEAN])
    /\ \A j \in DOMAIN dag :
          /\ dag[j].dsn \in 0..255 /\ dag[j].dtsn \in 0..255
          /\ dag[j].acks \in 0..dag[j].dsn
          /\ dag[j].active \in BOOLEAN /\ dag[j].heap \in Nat
          /\ dag[j].childs \in Seq(ChildAddrs)
          /\ dag[j].plen \in PrefixLens
    /\ disw \subseteq DOMAIN ifl.t /\ mcast \subseteq DOMAIN ifl.t
    /\ ifl.t \in Seq([root : BOOLEAN, frees : Nat, prev : Nat, next : Nat])
    /\ sock \in {"none", "open", "closed"}

NoSent == [kind |-> "none", dag |-> NULL, targets |-> <<>>, buf |-> SafeBufferNew]

Init ==
    /\ phase = "start"
    /\ icfg \in IfaceLists
    /\ cfg \in IF \E k \in DOMAIN icfg : icfg[k] THEN Configs ELSE {<<>>}
    /\ ifl = EmptyList
    /\ sock = "none"
    /\ mcast = {}
    /\ rpls = <<>>
    /\ rpl = <<>>
    /\ dag = <<>>
    /\ last = [inst |-> NULL, id |-> NULL, ret |-> NULL]
    /\ sent = NoSent
    /\ disw = {}

\* The objects allocated so far, and room for k more.
Allocated == Len(rpl) + Len(dag) + FoldFunction(LAMBDA d, acc : Len(d.childs) + acc, 0, dag)
Room(k) == Allocated + k <= MaxAllocs

\* Room for the two allocations a dag_create may make.
CanAlloc == Room(2)

\* The outcomes of one mzalloc.
Alloc == {TRUE} \cup (IF AllocFails THEN {FALSE} ELSE {})

(***************************************************************************)
(* libev, which is not part of the repository: ev_timer_init clears the    *)
(* watcher's active flag; ev_timer_start returns at once for an active     *)
(* watcher and otherwise inserts it into the timer heap.                   *)
(***************************************************************************)
EvTimerInit(w) == [w EXCEPT !.active = FALSE]
EvTimerStart(w) == IF w.active THEN w ELSE [w EXCEPT !.active = TRUE, !.heap = @ + 1]

\* dag_init_timer: ev_timer_init and ev_timer_start on the global loop.
DagInitTimer(w) == EvTimerStart(EvTimerInit(w))

\* dag_init: the DAG zeroed and filled in, its watcher started.
DagInit(inst, id, plen) ==
    DagInitTimer([inst |-> inst, id |-> id, dsn |-> 0, dtsn |-> 0, acks |-> 0,
                  active |-> FALSE, heap |-> 0, childs |-> <<>>, plen |-> plen])

\* dag_lookup_rpl: the first instance of the list with this id (the
\* memory of a freed one is read as it was).
LookupRpl(inst) == LET k == SelectInSeq(rpls, LAMBDA r : rpl[r].inst = inst)
                   IN IF k = 0 THEN NULL ELSE rpls[k]

\* dag_lookup_dodag: the first DAG of the instance with this DODAG id.
LookupDodag(r, id) == LET k == SelectInSeq(rpl[r].dags, LAMBDA d : dag[d].id = id)
                      IN IF k = 0 THEN NULL ELSE rpl[r].dags[k]

\* dag_lookup.
DagLookup(inst, id) == LET r == LookupRpl(inst) IN IF r = NULL THEN NULL ELSE LookupDodag(r, id)

\* Mutant: a new instance is created even when the lookup found one.
NeedsRplAlways(r) == TRUE

\* dag_create appends a new instance only when dag_lookup_rpl found none.
NeedsRpl(r) == r = NULL

\* Mutant: the duplicate check is left out.
DodagExistsNever(r, id) == FALSE

\* The sanity check of dag_create against duplicate entries.
DodagExists(r, id) == LookupDodag(r, id) # NULL

Freed(r) == [rpl EXCEPT ![r].freed = TRUE]

\* dag_create: find or allocate the instance, refuse a duplicate DODAG,
\* allocate and initialise the DAG, link the new instance and the DAG.
\* Every failure frees the instance, also one that is in iface->rpls.
\* rok and ok are the outcomes of the two allocations.
DagCreate(inst, id, plen) ==
    LET found == LookupRpl(inst)
        new   == NeedsRpl(found)
        r     == IF new THEN Len(rpl) + 1 ELSE found
        rpl1  == IF new THEN Append(rpl, [inst |-> inst, dags |-> <<>>, freed |-> FALSE])
                 ELSE rpl
        d     == Len(dag) + 1
        Ret(x) == last' = [inst |-> inst, id |-> id, ret |-> x]
    IN \E rok, ok \in Alloc :
          CASE new /\ ~rok ->
                 UNCHANGED <<rpls, rpl, dag, sent, disw>> /\ Ret(NULL)
            [] ~new /\ DodagExists(found, id) ->
                 rpl' = Freed(found) /\ UNCHANGED <<rpls, dag, sent, disw>> /\ Ret(NULL)
            [] ~ok ->
                 rpl' = [rpl1 EXCEPT ![r].freed = TRUE] /\ UNCHANGED <<rpls, dag, sent, disw>> /\ Ret(NULL)
            [] OTHER ->
                 /\ rpls' = IF new THEN Append(rpls, r) ELSE rpls
                 /\ rpl' = [rpl1 EXCEPT ![r].dags = Append(@, d)]
                 /\ dag' = Append(dag, DagInit(inst, id, plen))
                 /\ Ret(d)
                 /\ UNCHANGED <<sent, disw>>

(***************************************************************************)
(* The callers.                                                           *)
(***************************************************************************)

\* The DAGs reachable from iface->rpls.
LinkedDags == {d \in DOMAIN dag : \E k \in DOMAIN rpls : d \in ToSet(rpl[rpls[k]].dags)}

(***************************************************************************)
(* main up to ev_run.  Every failure ends in exit(1) (phase "exit"): what  *)
(* config_load leaks on the way (the Lua state, an interface whose DAGs    *)
(* failed) is released by the exit.  The luaL_loadfile and Lua table       *)
(* checks are the configuration's; the model's configurations are valid.  *)
(***************************************************************************)

\* The outcomes of one system call of startup.
Sys == {TRUE} \cup (IF SysFails THEN {FALSE} ELSE {})

\* main: netlink_open (mnl_socket_open and bind); exit(1) when it fails.
NetlinkOpen ==
    /\ phase = "start"
    /\ \E ok \in Sys : phase' = IF ok THEN "lua" ELSE "exit"
    /\ UNCHANGED <<cfg, rpls, rpl, dag, last, sent, disw, icfg, ifl, sock, mcast>>

\* config_load: luaL_newstate, which allocates.
LuaNewState ==
    /\ phase = "lua"
    /\ \E ok \in Alloc : phase' = IF ok THEN "config" ELSE "exit"
    /\ UNCHANGED <<cfg, rpls, rpl, dag, last, sent, disw, icfg, ifl, sock, mcast>>

\* The end of an iteration of config_load's loop: DL_APPEND of the
\* interface to ifaces.
IfaceLink(root) ==
    /\ ifl' = ListAdd(ifl.head, Append(ifl.t, [root |-> root, frees |-> 0, prev |-> Nil, next |-> Nil]),
                      Len(ifl.t) + 1)
    /\ icfg' = Tail(icfg)

\* An iteration of config_load's loop: iface_create (mzalloc), then
\* set_interface_var of forwarding, if_nametoindex and get_iface_addrs
\* (no link-local address), each of which frees the interface and fails
\* config_load.  A dodag_root interface goes on to config_load_instances;
\* any other is linked.
ConfigIface ==
    /\ phase = "config"
    /\ icfg # <<>>
    /\ \E aok \in Alloc, ok \in Sys :
          \/ (~aok \/ ~ok) /\ phase' = "exit" /\ UNCHANGED <<icfg, ifl>>
          \/ aok /\ ok /\ Head(icfg) /\ phase' = "dags" /\ UNCHANGED <<icfg, ifl>>
          \/ aok /\ ok /\ ~Head(icfg) /\ IfaceLink(FALSE) /\ UNCHANGED phase
    /\ UNCHANGED <<cfg, rpls, rpl, dag, last, sent, disw, sock, mcast>>

\* config_load_dags: dag_create with rank 1 for the next entry; a failure
\* makes config_load_instances and config_load fail and main exit(1).
ConfigLoadDag ==
    /\ phase = "dags"
    /\ cfg # <<>>
    /\ CanAlloc
    /\ \E plen \in PrefixLens : DagCreate(Head(cfg)[1], Head(cfg)[2], plen)
    /\ cfg' = Tail(cfg)
    /\ phase' = IF last'.ret = NULL THEN "exit" ELSE "dags"
    /\ UNCHANGED mainVars

\* config_load_instances has loaded every DAG: the root interface is linked.
RootIfaceLinked ==
    /\ phase = "dags"
    /\ cfg = <<>>
    /\ IfaceLink(TRUE)
    /\ phase' = "config"
    /\ UNCHANGED <<cfg, rpls, rpl, dag, last, sent, disw, sock, mcast>>

\* rpld_setup once config_load returned: every interface's DIS watcher is
\* initialised and started, every DAG's watcher is initialised and
\* started again (and, on the root interface, nl_add_addr of the DODAG id,
\* whose effect RplNetwork models).
RpldSetup ==
    /\ phase = "config"
    /\ icfg = <<>>
    /\ dag' = [d \in DOMAIN dag |->
                 IF d \in LinkedDags THEN EvTimerStart(EvTimerInit(dag[d])) ELSE dag[d]]
    /\ disw' = ToSet(ListEntries(ifl.head, ifl.t))
    /\ phase' = "setvar"
    /\ UNCHANGED <<cfg, rpls, rpl, last, sent, icfg, ifl, sock, mcast>>

\* set_var of the hop-by-hop option limit: main returns -1 when it fails,
\* without config_free.
SetVar ==
    /\ phase = "setvar"
    /\ \E ok \in Sys : phase' = IF ok THEN "socket" ELSE "exit"
    /\ UNCHANGED <<cfg, rpls, rpl, dag, last, sent, disw, icfg, ifl, sock, mcast>>

\* process_dio for a DODAG dag_lookup does not find: dag_create with rank
\* UINT16_MAX.
DioCreate(inst, id, plen) ==
    /\ phase = "running"
    /\ CanAlloc
    /\ DagLookup(inst, id) = NULL
    /\ DagCreate(inst, id, plen)
    /\ UNCHANGED <<phase, cfg>>
    /\ UNCHANGED mainVars

(***************************************************************************)
(* The datagrams built in a safe_buffer (send.c): every send_* writes     *)
(* SAFE_BUFFER_INIT through malloc's result before it checks it, so a     *)
(* failed malloc ends the daemon; safe_buffer_resize exits for a request  *)
(* over 64 KiB.  Both end in phase "exit".                                 *)
(***************************************************************************)

IcmpHdrSize == 4      \* sizeof(struct icmp6_hdr) - 4
DaoAckSize == 20      \* sizeof(struct nd_rpl_daoack), also used for the DAO
TargetSize == 20      \* append_target of a 128-bit prefix
DioSize == 24         \* sizeof(struct nd_rpl_dio)
DisSize == 2          \* sizeof(struct nd_rpl_dis)

\* bits_to_bytes.
BitsToBytes(b) == b \div 8 + (IF b % 8 # 0 THEN 1 ELSE 0)

\* The structs dag_build_dio appends: the ICMPv6 header, the DIO base and
\* the Destination Prefix option cut to bits_to_bytes(dest.len) bytes.
DioSizes(j) == <<IcmpHdrSize, DioSize, 8 + BitsToBytes(dag[j].plen)>>

\* The DAGs in list order: iface->rpls, and each instance's dags.
ListedDags == FoldLeft(LAMBDA acc, r : acc \o rpl[r].dags, <<>>, rpls)

\* send_dio for the DAGs L[1..k]: each dag_build_dio does dtsn++ (uint8_t).
DioSent(L, k) ==
    [d \in DOMAIN dag |-> IF \E i \in 1..k : L[i] = d
                          THEN [dag[d] EXCEPT !.dtsn = (@ + 1) % 256] ELSE dag[d]]

\* trickle_cb of an active watcher: send_dio, whose safe_buffer_new ends
\* the daemon when malloc fails.
TrickleCb(j) ==
    /\ phase = "running"
    /\ dag[j].active
    /\ dag[j].dtsn < MaxBuilds
    /\ \E sbok \in Alloc :
          \/ /\ sbok
             /\ dag' = DioSent(<<j>>, 1)
             /\ sent' = [kind |-> "DIO", dag |-> j, targets |-> <<>>,
                         buf |-> SafeBufferBuild(DioSizes(j))]
             /\ UNCHANGED phase
          \/ ~sbok /\ phase' = "exit" /\ UNCHANGED <<dag, sent>>
    /\ UNCHANGED <<cfg, rpls, rpl, last, disw>>
    /\ UNCHANGED mainVars

\* process_dis: send_dio for every DAG of every instance, in list order.
\* The first k sends succeed; when k stops short, the next malloc failed
\* and the daemon ended with the DIOs before it sent.
ProcessDis ==
    LET L == ListedDags
    IN /\ phase = "running"
       /\ \A i \in DOMAIN L : dag[L[i]].dtsn < MaxBuilds
       /\ \E k \in 0..Len(L) :
             /\ k < Len(L) => FALSE \in Alloc
             /\ dag' = DioSent(L, k)
             /\ sent' = IF k = 0 THEN sent
                        ELSE [kind |-> "DIO", dag |-> L[k], targets |-> <<>>,
                              buf |-> SafeBufferBuild(DioSizes(L[k]))]
             /\ phase' = IF k < Len(L) THEN "exit" ELSE phase
       /\ UNCHANGED <<cfg, rpls, rpl, last, disw>>
    /\ UNCHANGED mainVars

\* send_dis_cb of interface i: ev_timer_stop, then send_dis (ICMPv6 header
\* and DIS base).
SendDisCb(i) ==
    /\ phase = "running"
    /\ i \in disw
    /\ disw' = disw \ {i}
    /\ \E sbok \in Alloc :
          \/ /\ sbok
             /\ sent' = [kind |-> "DIS", dag |-> NULL, targets |-> <<>>,
                         buf |-> SafeBufferBuild(<<IcmpHdrSize, DisSize>>)]
             /\ UNCHANGED phase
          \/ ~sbok /\ phase' = "exit" /\ UNCHANGED sent
    /\ UNCHANGED <<cfg, rpls, rpl, dag, last>>
    /\ UNCHANGED mainVars

\* The structs dag_build_dao appends: the ICMPv6 header, the DAO base, a
\* target for self and one per child, in list order.
DaoSizes(j) ==
    <<IcmpHdrSize, DaoAckSize, TargetSize>> \o [k \in DOMAIN dag[j].childs |-> TargetSize]

\* send_dao: the DAO is built (dag_daoack_insert appends a pending ack when
\* its allocation succeeds, its result is ignored; then dsn++, uint8_t).
BuildDao(j) ==
    /\ phase = "running"
    /\ dag[j].dsn < MaxBuilds
    /\ \E sbok, ok \in Alloc :
          LET b == SafeBufferBuild(DaoSizes(j))
          IN CASE ~sbok \/ b.exited ->
                    phase' = "exit" /\ UNCHANGED <<dag, sent>>
               [] OTHER ->
                    /\ dag' = [dag EXCEPT ![j].acks = IF ok THEN @ + 1 ELSE @,
                                           ![j].dsn = (@ + 1) % 256]
                    /\ sent' = [kind |-> "DAO", dag |-> j, targets |-> dag[j].childs, buf |-> b]
                    /\ UNCHANGED phase
    /\ UNCHANGED <<cfg, rpls, rpl, last, disw>>
    /\ UNCHANGED mainVars

\* Mutant: a child is created for every target, known or not.
LookupChildOrCreateNoLookup(cs, a, ok) == IF ok THEN Append(cs, a) ELSE cs

\* dag_lookup_child_or_create: a known address is found, an unknown one is
\* appended when dag_child_create's allocation succeeds.
LookupChildOrCreate(cs, a, ok) == IF Contains(cs, a) \/ ~ok THEN cs ELSE Append(cs, a)

\* process_dao on a DAG dag_lookup finds: one dag_lookup_child_or_create
\* per Target option in option order (oks are the allocations), the
\* kernel routes (RplNetwork), then send_dao_ack.
ProcessDao(j, T) ==
    /\ phase = "running"
    /\ Room(Len(T))
    /\ \E oks \in [DOMAIN T -> Alloc], sbok \in Alloc :
          LET cs == FoldLeftDomain(LAMBDA acc, k : LookupChildOrCreate(acc, T[k], oks[k]),
                                   dag[j].childs, T)
          IN /\ dag' = [dag EXCEPT ![j].childs = cs]
             /\ \/ /\ sbok
                   /\ sent' = [kind |-> "DAOACK", dag |-> j, targets |-> <<>>,
                               buf |-> SafeBufferBuild(<<IcmpHdrSize, DaoAckSize>>)]
                   /\ UNCHANGED phase
                \/ ~sbok /\ phase' = "exit" /\ UNCHANGED sent
    /\ UNCHANGED <<cfg, rpls, rpl, last, disw>>
    /\ UNCHANGED mainVars

(***************************************************************************)
(* The socket, SIGINT and the shutdown.                                    *)
(***************************************************************************)

\* Mutant: config_free frees every interface but never unlinks it.
RECURSIVE ConfigFreeNoDel(_, _, _, _)
ConfigFreeNoDel(h, t, pos, k) ==
    IF pos = Nil \/ k = 0 THEN [head |-> h, t |-> t]
    ELSE ConfigFreeNoDel(h, [t EXCEPT ![pos].frees = @ + 1], t[pos].next, k - 1)

\* config_free from pos: list_for_each_entry_safe reads the next entry,
\* iface_free frees the interface, then list_del unlinks it.  DL_DELETE
\* reads and writes the prev and next of the freed interface: glibc's free
\* writes only the first 16 bytes of the chunk and struct list is the last
\* member of struct iface, so it finds the pointers the interface held.
RECURSIVE ConfigFreeFrom(_, _, _, _)
ConfigFreeFrom(h, t, pos, k) ==
    IF pos = Nil \/ k = 0 THEN [head |-> h, t |-> t]
    ELSE LET d == ListDel(h, [t EXCEPT ![pos].frees = @ + 1], pos)
         IN ConfigFreeFrom(d.head, d.t, t[pos].next, k - 1)

\* config_free(&ifaces).
ConfigFree == ifl' = ConfigFreeFrom(ifl.head, ifl.t, ifl.head, Len(ifl.t))

\* open_icmpv6_socket: socket(), the setsockopt calls, then
\* rpl_multicast_handler joins ff02::1a on every interface in list order.
\* When socket() fails there is no socket; when a setsockopt or a join
\* fails the socket is closed, which drops the memberships joined.  main
\* then calls netlink_close and config_free and exits; otherwise it
\* enters ev_run.
OpenSocket ==
    /\ phase = "socket"
    /\ \E ok \in Sys :
          \/ /\ ok
             /\ sock' = "open"
             /\ mcast' = ToSet(ListEntries(ifl.head, ifl.t))
             /\ phase' = "running"
             /\ UNCHANGED ifl
          \/ /\ ~ok
             /\ sock' \in {"none", "closed"}
             /\ phase' = "done"
             /\ ConfigFree
             /\ UNCHANGED mcast
    /\ UNCHANGED <<cfg, rpls, rpl, dag, last, sent, disw, icfg>>

\* close_icmpv6_socket: rpl_multicast_handler leaves ff02::1a on each
\* interface and stops at the first failure; close drops the rest.
CloseIcmpv6Socket == sock' = "closed" /\ mcast' = {}

\* main after ev_run returns: netlink_close, close_icmpv6_socket,
\* config_free and log_close.
MainShutdown == CloseIcmpv6Socket /\ ConfigFree

\* sigint_cb: ev_break; ev_run returns and main shuts down.  Nothing runs
\* between ev_break and the end.
SigInt ==
    /\ phase = "running"
    /\ phase' = "done"
    /\ MainShutdown
    /\ UNCHANGED <<cfg, rpls, rpl, dag, last, sent, disw, icfg>>

Next ==
    \/ NetlinkOpen
    \/ LuaNewState
    \/ ConfigIface
    \/ ConfigLoadDag
    \/ RootIfaceLinked
    \/ RpldSetup
    \/ SetVar
    \/ OpenSocket
    \/ SigInt
    \/ \E inst \in InstanceIds, id \in DodagIds, plen \in PrefixLens : DioCreate(inst, id, plen)
    \/ \E j \in DOMAIN dag : TrickleCb(j) \/ BuildDao(j)
    \/ ProcessDis
    \/ \E i \in disw : SendDisCb(i)
    \/ \E j \in LinkedDags, T \in TargetLists : ProcessDao(j, T)

Spec == Init /\ [][Next]_vars

-----------------------------------------------------------------------------
(* Properties                                                              *)

\* dag_lookup finds every linked DAG by its instance and DODAG id: no two
\* linked DAGs share the pair (the uniqueness the duplicate check of
\* dag_create is for) and no DAG sits in an instance dag_lookup_rpl cannot
\* reach.
LookupFindsEveryDag == \A d \in LinkedDags : DagLookup(dag[d].inst, dag[d].id) = d

\* libev's timer heap holds an active watcher exactly once and an inactive
\* one not at all; ev_timer_init on a watcher that is still active (as
\* rpld_setup does for every configured DAG) breaks this.
WatcherInHeapOnce == \A d \in DOMAIN dag : dag[d].heap = IF dag[d].active THEN 1 ELSE 0

\* A DAO lists each child address once, however the targets of the DAOs
\* received before it repeated each other and whichever child allocations
\* failed: dag_lookup_child_or_create finds a learned address before it
\* allocates a child for it.
DaoListsChildrenOnce == sent.kind = "DAO" => IsInjective(sent.targets)

\* Every struct a builder appended was copied inside the block that
\* safe_buffer_resize allocated for it, whatever number of children put
\* the DAO across a block boundary.
SentWithinBuffer == ~sent.buf.overrun

\* No instance linked in iface->rpls has been freed; dag_create frees the
\* instance it found when the DAG allocation fails.
NoDanglingRpl == \A k \in DOMAIN rpls : ~rpl[rpls[k]].freed

\* When main ends through config_free (after SIGINT, or when the socket
\* cannot be opened), the ifaces list is empty, every interface config_load
\* linked has been freed exactly once, and neither the socket nor a
\* multicast membership is left: config_free's safe iteration must visit
\* every interface once although list_del works on one iface_free has
\* already freed.
ShutdownReleasesAll ==
    phase = "done" =>
        /\ ifl.head = Nil
        /\ \A e \in DOMAIN ifl.t : ifl.t[e].frees = 1
        /\ sock # "open"
        /\ mcast = {}
=============================================================================
