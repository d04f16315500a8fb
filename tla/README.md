# TLA+ models of rpld

rpld is a small RPL (RFC 6550) routing daemon for 6LoWPAN networks. This
directory holds TLA+ models of its DODAG engine, the TLC configurations
that check them, and `PROJECT.json`, which maps every modelled definition
to the lines of `src/` it translates.

## The system

rpld is one single-threaded process per node, built on a libev loop. Three
kinds of callback run on the loop, and each runs to completion before the
next one starts:

* `icmpv6_cb` (rpld.c) reads one ICMPv6 datagram and calls `process`
  (process.c). `process` dispatches on the RPL code:
  * `process_dio`: join a DODAG, choose a parent, set the rank, autoconfigure
    the address and send a DAO;
  * `process_dao`: register the targets as children, install host routes
    and send a DAO-ACK;
  * `process_daoack`: install a default route through the parent;
  * `process_dis`: answer with a DIO.
* `trickle_cb`: every DAG's periodic timer, which multicasts a DIO. It uses a
  fixed period, not a real trickle algorithm.
* `send_dis_cb`: a one-shot timer per interface that multicasts a DIS at
  startup.

State is spread over three owners:

* **TopologyStore** (dag.c): per interface, a list of RPL instances, each with
  a list of DAGs. A DAG holds `my_rank`, an optional `parent` peer (address
  and rank), `self`, the list of `childs` (target address and the neighbour
  it came `from`), `dsn`, `dtsn` and a `pending_acks` list.
* **The kernel**, reached through netlink (netlink.c):
  * the autoconfigured address, and with it an on-link route for its /64;
  * host routes to children;
  * the default route.
* **The network**: datagrams in flight between neighbours.

Datagrams are built with `safe_buffer` (buffer.c) by the `dag_build_*`
functions and sent by send.c. The ancestor-path tree (tree.c) is compiled
in but used only by `testprog.c`. Lua configuration (config.c) creates the
root's DAG with rank 1 and `self = dodagid` before the loop starts.

## Modules

| module | models | status |
|---|---|---|
| `RplNetwork` | N daemons on a link graph: the four handlers, both timers, netlink effects, a lossy network and a forging neighbour | done |
| `Netlink` | netlink.c's four requests that change the kernel, as the set of outcomes of send, ack and `mnl_cb_run` and `nl_get_llinfo` by the `addr_len` it leaves | done (encoding left out; open and close in `DagStore`) |
| `MC_RplNetwork` | topologies (triangle, line, pair, diamond) as definitions over model values | done |
| `RplInput` | the length checks of `process` and of the four handlers, the DAO option loop step by step, and the lengths the DIO and DAO builders produce | done |
| `RouteTree` | tree.c: `t_init`, `t_insert`, `t_path`, `t_path_free`, `t_free` over an arena of nodes, with allocation failure | done |
| `IntrusiveList` | list.h: `list_add` (utlist's DL_APPEND), `list_del` (DL_DELETE) and `list_for_each_entry` over prev/next pointers | done (used by `RouteTree`) |
| `DagStore` | dag.c's instance and DAG lists of one interface: `dag_create` from the configuration and from `process_dio`, the lookups, the trickle watcher's libev state, dsn, dtsn and pending acks, the children `process_dao` registers, and the DAO and DAO-ACK datagrams `send_dao`/`send_dao_ack` build; around it `main`: `netlink_open`, `config_load`'s interface loop, `rpld_setup`, `set_var`, `open_icmpv6_socket`, SIGINT and the shutdown through `close_icmpv6_socket` and `config_free` | done |
| `MC_DagStore` | configurations as sequences over model values, interfaces as sequences of `dodag_root` flags | done |
| `SafeBuffer` | buffer.c: `safe_buffer_new`, `safe_buffer_resize` (block rounding, exit past 64 KiB), `safe_buffer_append`, as operators over the allocated and used sizes | done (`pad`, `free` never called) |
| `DodagJoin` | the abstract join spec that `RplNetwork` is checked to implement | done |

### RplNetwork

The data is abstracted; the control is kept:

* One RPL instance and one DODAG.
* An address is a node, the intruder, or `Unspec` (`::`). dsn and dtsn are
  left out, since no handler reads them.

| variable | code |
|---|---|
| `hasDag[n]` | `dag_lookup` finds the DAG |
| `myRank[n]` | `dag->my_rank` (uint16) |
| `parent[n]` | `dag->parent` (`NoPeer` is NULL), a record `[addr, rank]` |
| `self[n]` | `dag->self` |
| `childs[n]` | `dag->childs` as a set of `[addr, from]` |
| `disArmed[n]` | the DIS watcher is active |
| `kaddr`, `kprefix`, `khost`, `kdefault` | the kernel's addresses, the on-link /64 route, host routes, default routes |
| `msgs` | datagrams in flight `[type, src, dst, rank, targets]` |

Each handler is one action that covers the whole function:

* `ProcessDio` has five disjuncts:
  * the root ignores the DIO;
  * `DagCreateFails`: `dag_create` returns NULL and nothing changes
    (process.c:80), enabled by `AllocFails`;
  * `PeerCreateFails`: `dag_peer_create` returns NULL (process.c:92); the
    DAG stays, without a parent and at `my_rank` UINT16_MAX, and its
    trickle timer advertises it. Enabled by `AllocFails`;
  * the DIO is rejected, but the DAG and peer are still created;
  * the DIO is accepted: the rank is set, `dag_process_dio` runs, and a DAO
    goes to `dag->parent->addr`.
* `DagProcessDio` covers the early returns of `dag_process_dio`:
  * `SlaacOK` is the set of nodes whose `gen_stateless_addr` succeeds
    (`GenStatelessAddrOk`: a /64 `DestPrefixLen` and an 8-byte link-layer
    address). The length is the IFLA_ADDRESS length `IflaAddrLen`, or 0
    for a node in `LlinfoLost`, because `config_load` ignores a failed
    `nl_get_llinfo`;
  * every netlink request is an operator of `Netlink`; `NetlinkFaults`
    lets its send fail (the kernel never sees it) or its receive fail
    after the kernel acted on it, both returning -1;
  * EEXIST is tolerated;
  * a newly added address brings the on-link route that `nl_del_route_via`
    then deletes (ESRCH if it is already gone).
* `InstallChildRoutes` and `ProcessDaoAck` apply `nl_add_route_via` and
  `nl_add_route_default` and ignore their results.
* `Lose` drops a datagram.
* `ForgeDio` and `ForgeDao` are a neighbour that sends arbitrary ranks and
  targets.

### RplInput

A datagram is its length and the bytes the code reads. Each option header is
read once, at an offset that only grows, so its type and length bytes are
chosen when they are read, from small sets. The struct sizes are those of
the wire format in spec section 4.1, since `rpl.h` is not in the repository:
DIO 24 bytes, Destination Prefix 8 plus the prefix, DAO and DAO-ACK 20,
option header 2, Target 20.

* `readEnd[k]` is the end of the furthest read of kind k (header, prefix,
  target).
* `copied` is what `memcpy` wrote into `pfx.prefix`.
* `sentRead` is what `append_destprefix` read from its struct.
* One action per handler covers every early return. `DaoOption` is one
  iteration of `process_dao`'s loop: `optlen` and `off` follow `int optlen`
  and `p`.
* `ReceiveBuiltDio` and `ReceiveBuiltDao` feed the parser the lengths that
  `dag_build_dio` and `dag_build_dao` produce.
* `Return` is `icmpv6_cb` returning to the loop. Nothing of a datagram is
  kept after it.

### RouteTree

The nodes live in an arena: `tree[i]` is the i-th node allocated. Each
node carries its `struct list_head` (`head`) and its own `struct list`
(`prev`, `next`), and `Childs(i)` walks the child list the way
`list_for_each_entry` does. `IntrusiveList` gives DL_APPEND and DL_DELETE
their utlist meaning: the head's prev is the tail, the tail's next is
NULL, and a deleted entry keeps its pointers. `plist` is the `t_path`
result list of `testprog.c`: `TPath` fills a fresh list (only a prefix
when `t_path_alloc` fails), and `TPathFree` is `t_path_free`'s safe
iteration, which reads the next entry before `list_del`. `Matches` is `t_insert_tail`'s
depth-first search as a RECURSIVE operator. It checks a node before its
children, does not search below a match, and moves on to the next match
when an allocation fails. `Path` and `FreeOrder` are `t_path` and
`t_free_tail`. The properties compare them with independent definitions:
`Position`/`Before` (preorder) and `AncestorSet`.

### DagStore

`rpl` and `dag` are arenas of allocated objects, and `rpls` is the list
`iface->rpls`. `free` marks an object freed but keeps its contents, one of
the outcomes of reading it later.

* `phase` is where `main` is. `NetlinkOpen`, `LuaNewState`, `SetVar` and
  `OpenSocket` are its startup steps. Each may fail (`SysFails`,
  `AllocFails`) and ends the daemon: in `"exit"`, or in `"done"` when
  `main` calls `config_free` first, as it does when the socket cannot be
  opened.
* `ConfigIface` is one pass of `config_load`'s loop over the configured
  interfaces (`icfg`, their `dodag_root` flags). `iface_create` or a
  check may fail. A non-root interface is linked to `ifl`, the `ifaces`
  list as an `IntrusiveList`. The root interface, whose store this is,
  goes on to `ConfigLoadDag` (`config_load_dags` calling `dag_create`; a
  failure exits) and `RootIfaceLinked`.
* `RpldSetup` starts every interface's DIS watcher (`disw`) and
  re-initialises and restarts every linked DAG's watcher.
* `SigInt` is `sigint_cb` followed by `MainShutdown`, the rest of `main`:
  `close_icmpv6_socket`, then `config_free` (`ConfigFreeFrom`). Its safe iteration frees each
  interface with `iface_free` and then calls `list_del` on the freed
  interface. The model lets DL_DELETE read the pointers the interface
  held. That is what glibc's `free` leaves, since it writes only the
  first 16 bytes and `struct list` is the last member of `struct iface`.
* `DioCreate` is `process_dio`'s `dag_create` for a DODAG `dag_lookup` does
  not find.
* `TrickleCb` is `trickle_cb` of an active watcher sending a DIO:
  `safe_buffer_new`, then `dag_build_dio` (dtsn++, the header, the DIO base
  and the Destination Prefix cut to the DAG's prefix length, `DioSizes`).
  `ProcessDis` sends a DIO for every DAG in list order (`ListedDags`); a
  failed malloc ends the daemon after the DIOs before it. `SendDisCb(i)`
  stops the DIS watcher `rpld_setup` started on interface i and sends a
  DIS.
* `BuildDao` is `send_dao`:
  `safe_buffer_new` (a failed malloc is written through, so the daemon
  ends), `dag_build_dao` appending the ICMPv6 header, the DAO base and one
  Target for self and per child (`DaoSizes`) through `SafeBuffer`, then the
  pending ack and dsn++. `sent` is the last datagram built.
* `ProcessDao` is `process_dao` on a DAG it finds: one
  `dag_lookup_child_or_create` per Target in option order, each allocation
  may fail, then `send_dao_ack`. `TargetLists` gives the target sequences,
  one of them repeating an address. `Room` bounds the allocations.
* `EvTimerInit` and `EvTimerStart` describe libev, which is not in the
  repository: init clears the active flag, and start inserts an inactive
  watcher into the timer heap.

### SafeBuffer

A buffer is `[allocated, used, exited, overrun]`. `SafeBufferResize` keeps
the code's order: nothing when `allocated >= n`, otherwise round `n` up to a
multiple of 64 (`n |= 63; n++`), exit past 64 KiB, then grow.
`SafeBufferAppend` records an overrun when a copy would pass `allocated`,
which the code never checks. `SafeBufferBuild` folds the appends of a
builder over its struct sizes.

### DodagJoin and the refinement

`DodagJoin` says what the network of daemons promises, with ranks, timers,
datagrams and netlink abstracted away. `joined` is the set of nodes with a
DAG. `up[n]` is the node n is attached below, `Outside`, or `None`.
`routes[n]` is n's host routes. `Attach(n, p)` puts a non-root node below
a joined node or an outside neighbour, never below its own subtree.
`Learn(n, R)` adds host routes through a child towards the child's subtree,
or through an outside neighbour.

`RplNetwork` instantiates it as `Join` with `joined <- {n : hasDag[n]}`,
`up <- UpMap` (the parent's address) and `routes <- RouteMap` (host routes
to nodes of the network). `JoinRefinement` is `Join!Init /\
[][Join!Next]_Join!vars`, checked as a PROPERTY of the safety run: every
step of the daemons is a stutter, an attach or a learn. The refinement
holds only while every allocation succeeds (`AllocFails = FALSE`): after a
failed `dag_peer_create` a node has a DAG and no parent, which no `Attach`
allows, and it later attaches inside its own subtree. The alloc_cycle run
shows that path.

## Runs

| run | module / cfg | setting | checks | result |
|---|---|---|---|---|
| safety | `MC_RplNetwork_safety.cfg` | triangle, lossy; nx is on a 6-byte (Ethernet) link and cannot autoconfigure; the intruder sends rank 0; allocations succeed | TypeOK, ParentsAcyclic, RoutesFollowTree, JoinRefinement | pass, 1,642,248 states, about 2.5 min |
| faults | `MC_RplNetwork_faults.cfg` | pair; every netlink request and every allocation of `process_dio` may fail; the intruder sends a DAO for na | NoOnlinkRouteOnceSelf | pass, 88,016 states |
| live | `MC_RplNetwork_live.cfg` | pair, lossy, FairSpec | EveryNodeReachable | pass, 192 states |
| rank_parent | `MC_RplNetwork_rank_parent.cfg` | triangle | RankAboveParent | violation |
| alloc_cycle | `MC_RplNetwork_alloc_cycle.cfg` | line nr-na-nx, no intruder, allocations may fail | ParentsAcyclic | violation |
| unspec_target | `MC_RplNetwork_unspec_target.cfg` | nx's `nl_get_llinfo` request at startup was lost | NoUnspecTarget | violation |
| input | `RplInput_input.cfg` | lengths 0..64; option lengths 0, 1, 18, 200; prefix lengths up to 128 | HeadersWithinDatagram, PrefixWithinDatagram, BuiltAccepted | pass, 41,768 states |
| prefix_overflow | `RplInput_prefix_overflow.cfg` | prefix lengths 136 and 255 | PrefixCopyFits | violation |
| target_overread | `RplInput_target_overread.cfg` | as input | TargetWithinDatagram | violation |
| tree | `RouteTree_tree.cfg` | 2 addresses, 5 nodes, allocations may fail | TypeOK, ChildListsMatchParents, InsertFollowsPreorder, PathIsAncestorChain, FreeReleasesChildrenFirst | pass, 15,168 states |
| store | `MC_DagStore_store.cfg` | 2 instances, 2 DODAG ids, 4 configurations of the root interface behind a non-root one, DAOs with targets `<<c1>>` and `<<c2, c1, c1>>`, allocations and startup calls may fail | LookupFindsEveryDag, DaoListsChildrenOnce, SentWithinBuffer, ShutdownReleasesAll | pass, 1,249,845 states, about 1.5 min |
| timer_twice | `MC_DagStore_timer_twice.cfg` | a configured DAG | WatcherInHeapOnce | violation |

What the violations show (details in `PROJECT.json` "findings"):

* **rank_parent.** A better DIO from a second neighbour rewrites the old
  parent's rank and keeps its address (process.c:99). The spec says the
  sender becomes the parent. TLC reaches a node whose rank equals its
  parent's.
* **alloc_cycle.** `dag_peer_create` fails on na (process.c:92). na keeps a
  parentless DAG and advertises 65535. nx adopts na, and `rank + 1` wraps to
  0 in uint16_t (process.c:100). na then takes nx's rank-0 DIO and makes nx
  its parent: na and nx are each other's parent, with no intruder involved.
  na's rank is now 1, so it also ignores every later DIO as a root.
* **unspec_target.** `dag_process_dio` fails silently, and the DAO then
  names `::`.
* **prefix_overflow.** `process_dio` checks that the prefix bytes are in the
  datagram, not that they fit in the 16-byte `pfx.prefix` (process.c:72). A
  53-byte DIO with prefix length 136 writes 17 bytes. The same unchecked
  length makes `append_destprefix` read past its struct (dag.c:263).
* **target_overread.** The Target case repeats the 2-byte header check
  instead of checking for 20 bytes (process.c:153). A DAO ending in a 2-byte
  Target option has its address read 18 bytes past the datagram.
* **timer_twice.** `rpld_setup` calls `ev_timer_init`/`ev_timer_start` on a
  watcher that `dag_init` already started (rpld.c:123). libev's heap then
  holds it twice.

Every property of a passing run has a mutant in `PROJECT.json`. Each one is
a plausible bug in the code, and TLC finds it under the run's own
configuration:

* the missing root check;
* a DAO sent back to the DIO's sender;
* an unchecked `nl_del_route_via`;
* a peer created with rank 0;
* a child routed through its own address;
* a dropped option-header or prefix length check;
* a DIO built without its prefix bytes;
* an off-by-one or missing child link in `t_insert`;
* children searched last first;
* a path that stops below the root;
* a parent freed before its children;
* a new instance created although one was found;
* the root recognised by rank 0 instead of 1 (breaks `JoinRefinement`);
* a child created for every target without looking it up;
* a buffer request rounded down instead of up.
* a `config_free` that frees each interface without `list_del`.

`ShutdownReleasesAll` (store run) covers the two ways `main` reaches
`config_free`: SIGINT in any running state, and a failed
`open_icmpv6_socket`. It holds under glibc's outcome for the freed
interface's list pointers.

`DagStore` also states `NoDanglingRpl`. When a DAG allocation fails,
`dag_create` frees an instance that is still in `iface->rpls`, and TLC
breaks the property in two steps. It is listed as a hazard rather than a
run.

## Bounds and why they suffice

* **Nodes.** Three nodes on a triangle give two routes to the root and
  two neighbours for the last node. That is the smallest graph where the
  order of DIOs from different neighbours matters. A line `nr - na - nx`
  would add multi-hop DAOs. The fault and liveness runs use two nodes:
  fault choices multiply the states, and TLC's check of strong fairness is
  exponential in the number of fairness conjuncts.
* **MaxInFlight = 2.** This bounds the datagrams in flight. Timers fire
  only while fewer are in flight. A timer's period is seconds and delivery
  takes milliseconds, so this loses no ordering the code can see, while
  still letting a DIO and a DAO, or two DIOs, race.
* **MaxSize = 64 (RplInput).** Every length check compares with a size of
  at most 28 bytes past the previous one. So lengths 0..64 cover each
  check's failing and passing side, a DAO with two options, and a DIO
  whose prefix needs 17 bytes.
* **Option lengths 0, 1, 18 and 200.** These give an empty option, an odd
  length, a Target and a skip past the end.
* **MaxNodes = 5 (RouteTree).** This allows two nodes with the same address
  at different depths and in sibling lists, which is what the search order
  is about.
* **MaxAllocs = 5 and MaxBuilds = 1 (DagStore).** These allow two
  configured DAGs and a DIO-created DAG of another instance, or one DAG
  with both children. MaxAllocs counts instances, DAGs and children. The
  counters are not read by any property.
* **Prefix length 255 (DagStore).** The longest length the configuration
  accepts makes a DIO of 68 bytes, across the first block boundary of its
  buffer; a /64 DIO fits in one block and adds nothing.
* **Target lists.** `<<c2, c1, c1>>` adds two children and repeats an
  address within one DAO; after `<<c1>>` it also finds a known child.
* **Interfaces `<<FALSE, TRUE>>` (DagStore).** A non-root interface first
  and the root one second. `config_free` then walks two entries and
  deletes a head that has a successor. The second interface's DIS watcher
  interleaves with the root's. A lone root interface adds only a subset
  of these behaviours.

## Fairness

`FairSpec` assumes:

* strong fairness of each `TrickleTimer`. The watcher is periodic and is
  never stopped. It is strong rather than weak only because the model's
  MaxInFlight bound may disable it for a while.
* strong fairness of receipt per message type and directed link. Datagrams
  of a kind that is sent again and again over a link are eventually
  delivered; this is what a lossy but not broken radio gives.

The DIS timer gets no fairness: it fires at most once. Loss and forgery are
never forced.

## Not modelled

* Reading the Lua tables and parsing their strings are left out: the
  model's configurations are valid. `RplNetwork`'s `Init` is their
  result. `DagStore` models the control of `config_load` and `main`.
* The ICMPv6 socket options and `recv_rs_ra` (recvmsg) are I/O.
  `DagStore` keeps only whether the socket is open and which interfaces
  have joined ff02::1a. The network models start from delivered
  datagrams.
* An allocator that poisons freed memory would make `config_free` crash
  (config.c:385); the model keeps glibc's outcome.
* When `main` ends in `"done"`, the arena `ifl.t` keeps the freed
  interfaces so that `ShutdownReleasesAll` can count their frees.
* Logging and string formatting are left out.
* The netlink message encoding is modelled only by its effect on the
  kernel. `nl_get_llinfo` is modelled by the `addr_len` it leaves.
  A failed receive of the route deletion's ack makes every later
  `dag_process_dio` end at ESRCH, so self stays `::`. This is listed as a
  hazard. The `unspec_target` run already breaks `NoUnspecTarget` by
  another path.
* The contents of wire fields, other than option types, option lengths and
  prefix lengths. The DAO sequence number is assigned after the header is
  appended (dag.c:390), so every DAO carries 0; this is listed as a
  hazard.
* From `safe_buffer`: the contents, realloc failure, and the leak of one
  buffer per send. The 64 KiB exit needs some 3270 children, beyond any
  checkable bound; it is listed as a hazard.
* `dag_lookup_daoack` and `dag_free`, which are never called.
* No property is about `list_del` alone. Every `list_del` in the code
  removes the current first entry of a safe iteration. In that pattern
  DL_DELETE repairs a wrong head on the next step, so no plausible bug of
  `list_del` changes what `t_path_free` frees. The deletion of an inner
  entry or of the tail is never reached.
* `test_list` in `testprog.c` is not modelled. It checks DL_APPEND and
  the safe-delete loop on three fixed entries: a fresh head is empty, a
  single entry has no next, entries come back in insertion order, and the
  loop empties the list. `IntrusiveList` covers these cases for every
  sequence of operations that `RouteTree` makes.

## Remaining work

* A liveness form of `DodagJoin` (every node eventually joins) checked
  under `FairSpec`.
* The project uses all twelve runs that are allowed. These hazards are
  listed without a property because each would need a violation run of
  its own:
  * `NoDanglingRpl` (dag.c:232);
  * the DAO sequence number on the wire (dag.c:390);
  * the NULL `llinfo->addr` after a failed allocation in `data_cb`
    (netlink.c:93);
  * the unbounded pending acks (dag.c:166).
