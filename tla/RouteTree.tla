----------------------------- MODULE RouteTree -----------------------------
(***************************************************************************)
(* The ancestor-path tree of tree.c.  A t_node holds an address, a back   *)
(* pointer to its parent and the list of its children; t_insert searches  *)
(* depth first for the node carrying the parent address and appends the    *)
(* new node to its children, t_path walks the back pointers to the root,   *)
(* t_free releases the tree children first.                                *)
(*                                                                         *)
(* The nodes live in an arena: tree[i] is the i-th node allocated, tree[1] *)
(* is the root, parent 0 is NULL, head is the node's childs list_head and *)
(* prev and next its struct list in its parent's childs (IntrusiveList).   *)
(* plist is the result list of t_path with its own arena of t_path entries.*)
(* The target field is only copied, so it is left out.  mzalloc may fail   *)
(* when AllocFails.                                                        *)
(***************************************************************************)
EXTENDS Naturals, FiniteSets, Sequences, SequencesExt, IntrusiveList

CONSTANTS
    Addr,        \* the addresses stored in nodes
    MaxNodes,    \* bound: at most this many nodes are allocated
    AllocFails   \* mzalloc may return NULL

ASSUME /\ MaxNodes \in Nat \ {0}
       /\ AllocFails \in BOOLEAN

VARIABLES
    tree,   \* the nodes reachable from root->n, <<>> when root->n is NULL
    last,   \* the call just made and what it returned
    plist   \* the list_head t_path fills: [head, t], t the t_path entries

vars == <<tree, last, plist>>

NoNode == 0
Enomem == 1     \* t_path returned -ENOMEM
NoCall == [op |-> "none", arg |-> NoNode, ret |-> NoNode, path |-> <<>>, failed |-> 0]

\* Every pointer is NULL or points to an allocated node.
TypeOK ==
    /\ Len(tree) <= MaxNodes
    /\ tree \in Seq([addr : Addr, parent : 0..Len(tree), head : 0..Len(tree),
                     prev : 0..Len(tree), next : 0..Len(tree)])
    /\ plist.head \in 0..Len(plist.t)
    /\ plist.t \in Seq([node : 1..MaxNodes, prev : 0..Len(plist.t), next : 0..Len(plist.t)])
    /\ last.op \in {"none", "init", "insert", "path", "pathfree", "free"}

Init ==
    /\ tree = <<>>
    /\ last = NoCall
    /\ plist = EmptyList

\* t_node_alloc: a zeroed node (no children, unlinked) with its address.
TNodeAlloc(a, p) == [addr |-> a, parent |-> p, head |-> Nil, prev |-> Nil, next |-> Nil]

\* node->childs in list order.
Childs(i) == ListEntries(tree[i].head, tree)

\* n->parent = node; list_add(&node->childs, &n->list) for the new node e.
LinkChild(i, a, e) ==
    LET r == ListAdd(tree[i].head, Append(tree, TNodeAlloc(a, i)), e)
    IN [r.t EXCEPT ![i].head = r.head]

\* Mutant: the child list records the index one past the new node.
AttachOffByOne(i, a) == tree' = LinkChild(i, a, Len(tree) + 2)

\* Mutant: the new node is not linked into its parent's child list.
AttachUnlinked(i, a) == tree' = Append(tree, TNodeAlloc(a, i))

\* The match branch of t_insert_tail: n->parent = node; list_add.
Attach(i, a) == tree' = LinkChild(i, a, Len(tree) + 1)

\* Mutant: the child list is searched from its last entry.
RECURSIVE MatchesLastChildFirst(_, _)
MatchesLastChildFirst(i, p) ==
    IF tree[i].addr = p THEN <<i>>
    ELSE FlattenSeq(Reverse([k \in DOMAIN Childs(i) |->
                                MatchesLastChildFirst(Childs(i)[k], p)]))

\* The nodes t_insert_tail offers an allocation to, in the order it does:
\* a node whose address is the parent address returns without looking at
\* its children; otherwise the children are searched in list order, and
\* the search goes on to the next child when one returns NULL.
RECURSIVE Matches(_, _)
Matches(i, p) ==
    IF tree[i].addr = p THEN <<i>>
    ELSE LET cs == Childs(i) IN FlattenSeq([k \in DOMAIN cs |-> Matches(cs[k], p)])

\* t_init: root->n = t_node_alloc(addr, dodagid), NULL on failure.
TInit(a) ==
    /\ tree = <<>>
    /\ \/ tree' = <<TNodeAlloc(a, NoNode)>>
       \/ AllocFails /\ UNCHANGED tree
    /\ last' = [NoCall EXCEPT !.op = "init"]
    /\ UNCHANGED plist

\* t_insert: the k-th match gets the new node, which is returned, after
\* the allocations at the first k - 1 matches failed; NULL when there is
\* no match or every allocation failed.  failed counts the failures.
TInsert(p, a) ==
    /\ tree # <<>>
    /\ Len(tree) < MaxNodes
    /\ LET ms == Matches(1, p) IN
          \/ \E k \in 1..Len(ms) :
                /\ k = 1 \/ AllocFails
                /\ Attach(ms[k], a)
                /\ last' = [NoCall EXCEPT !.op = "insert", !.arg = p, !.ret = Len(tree) + 1,
                                           !.failed = k - 1]
          \/ /\ ms = <<>> \/ AllocFails
             /\ UNCHANGED tree
             /\ last' = [NoCall EXCEPT !.op = "insert", !.arg = p, !.failed = Len(ms)]
    /\ UNCHANGED plist

\* Mutant: the recursion stops at the node without a parent, before
\* adding it.
RECURSIVE PathBelowRoot(_)
PathBelowRoot(i) ==
    IF i = NoNode \/ tree[i].parent = NoNode THEN <<>> ELSE <<i>> \o PathBelowRoot(tree[i].parent)

\* t_path: one t_path_alloc per node from the given one to the root,
\* appended in that order.
RECURSIVE Path(_)
Path(i) == IF i = NoNode THEN <<>> ELSE <<i>> \o Path(tree[i].parent)

\* The result list after t_path_alloc and list_add of an entry per node
\* of P, in order (mzalloc zeroes the entry's struct list).
PathList(P) ==
    FoldLeft(LAMBDA l, n : ListAdd(l.head, Append(l.t, [node |-> n, prev |-> Nil, next |-> Nil]),
                                   Len(l.t) + 1),
             EmptyList, P)

\* The nodes of the entries of a result list, in list order.
PathNodes(l) == LET es == ListEntries(l.head, l.t) IN [k \in DOMAIN es |-> l.t[es[k]].node]

\* t_path on a node into an empty list_head, as testprog.c calls it: the
\* whole path and 0, or, when t_path_alloc fails, the entries added so far
\* (left in the list) and -ENOMEM.
TPath(i) ==
    /\ plist = EmptyList
    /\ \/ /\ plist' = PathList(Path(i))
          /\ last' = [NoCall EXCEPT !.op = "path", !.arg = i, !.path = PathNodes(plist')]
       \/ /\ AllocFails
          /\ \E k \in 0..Len(Path(i)) - 1 :
                /\ plist' = PathList(SubSeq(Path(i), 1, k))
                /\ last' = [NoCall EXCEPT !.op = "path", !.arg = i, !.ret = Enomem,
                                          !.path = PathNodes(plist')]
    /\ UNCHANGED tree

\* list_for_each_entry_safe from pos with list_del and free(p): the next
\* entry is read before the current one is deleted.  The head left and the
\* entries in the order they were freed.
RECURSIVE PathFreeFrom(_, _, _, _)
PathFreeFrom(h, t, pos, k) ==
    IF pos = Nil \/ k = 0 THEN [head |-> h, order |-> <<>>]
    ELSE LET d == ListDel(h, t, pos)
             r == PathFreeFrom(d.head, d.t, t[pos].next, k - 1)
         IN [head |-> r.head, order |-> <<pos>> \o r.order]

\* t_path_free of the result list; the arena forgets the freed entries.
TPathFree ==
    /\ plist.head # Nil
    /\ LET r == PathFreeFrom(plist.head, plist.t, plist.head, Len(plist.t))
       IN last' = [NoCall EXCEPT !.op = "pathfree", !.ret = r.head, !.path = r.order]
    /\ plist' = EmptyList
    /\ UNCHANGED tree

\* Mutant: free(node) comes before the loop over its children.
RECURSIVE FreeOrderParentFirst(_)
FreeOrderParentFirst(i) ==
    <<i>> \o FlattenSeq([k \in DOMAIN Childs(i) |-> FreeOrderParentFirst(Childs(i)[k])])

\* t_free_tail: the order the nodes are freed in, every child list first.
RECURSIVE FreeOrder(_)
FreeOrder(i) ==
    LET cs == Childs(i) IN FlattenSeq([k \in DOMAIN cs |-> FreeOrder(cs[k])]) \o <<i>>

\* t_free; root->n is left dangling, the arena forgets the nodes.
TFree ==
    /\ tree # <<>>
    /\ tree' = <<>>
    /\ last' = [NoCall EXCEPT !.op = "free", !.path = FreeOrder(1)]
    /\ UNCHANGED plist

Next ==
    \/ \E a \in Addr : TInit(a)
    \/ \E p, a \in Addr : TInsert(p, a)
    \/ \E i \in DOMAIN tree : TPath(i)
    \/ TPathFree
    \/ TFree

Spec == Init /\ [][Next]_vars

-----------------------------------------------------------------------------
(* Reference definitions                                                   *)

\* The position of a node: the indexes of the child lists leading to it.
RECURSIVE Position(_)
Position(i) ==
    IF tree[i].parent = NoNode THEN <<>>
    ELSE LET p == tree[i].parent
         IN Append(Position(p), CHOOSE k \in DOMAIN Childs(p) : Childs(p)[k] = i)

\* Depth-first preorder: an ancestor, or a node in an earlier child list.
Before(j, i) ==
    LET pj == Position(j)
        pi == Position(i)
    IN \/ IsStrictPrefix(pj, pi)
       \/ \E k \in 1..Len(pj) :
             /\ k <= Len(pi)
             /\ SubSeq(pj, 1, k - 1) = SubSeq(pi, 1, k - 1)
             /\ pj[k] < pi[k]

\* The ancestors of i, i included.
RECURSIVE AncestorSet(_)
AncestorSet(i) == IF i = NoNode THEN {} ELSE {i} \cup AncestorSet(tree[i].parent)

\* The nodes other than x carrying address p with no proper ancestor that
\* carries it: the candidate parents of a node inserted below p.
Candidates(p, x) == {i \in DOMAIN tree \ {x} :
                        /\ tree[i].addr = p
                        /\ \A a \in AncestorSet(i) \ {i} : tree[a].addr # p}

\* The k-th of a set of nodes in depth-first preorder.
NthInPreorder(S, k) == CHOOSE i \in S : Cardinality({j \in S : Before(j, i)}) = k - 1

-----------------------------------------------------------------------------
(* Properties                                                              *)

\* t_insert attaches the new node below the first candidate parent of the
\* depth-first search whose allocation succeeded: with no failure that is
\* the first node carrying the parent address, after k failures the
\* (k+1)-th; NULL comes back only when there is no candidate or every
\* allocation failed.
InsertFollowsPreorder ==
    last.op = "insert" =>
        LET S == Candidates(last.arg, last.ret)
        IN IF last.ret = NoNode THEN last.failed = Cardinality(S)
           ELSE /\ last.failed < Cardinality(S)
                /\ tree[last.ret].parent = NthInPreorder(S, last.failed + 1)

\* The tree stays a tree whose child lists and back pointers agree: every
\* node but the root is in exactly one child list, that of its parent, and
\* reaches the root by its parent pointers.  t_path and t_free rely on this.
ChildListsMatchParents ==
    \A i \in DOMAIN tree :
        /\ 1 \in AncestorSet(i)
        /\ \A j \in DOMAIN tree :
              (\E k \in DOMAIN Childs(j) : Childs(j)[k] = i) <=> tree[i].parent = j
        /\ \A j \in DOMAIN tree : IsInjective(Childs(j))

\* A successful t_path lists the node, then each ancestor in turn, ending
\* at the root: it has every ancestor exactly once and each entry is the
\* parent of the one before it.
PathIsAncestorChain ==
    last.op = "path" /\ last.ret = 0 =>
        /\ last.path # <<>>
        /\ last.path[1] = last.arg
        /\ tree[Last(last.path)].parent = NoNode
        /\ \A k \in 1..Len(last.path) - 1 : last.path[k + 1] = tree[last.path[k]].parent
        /\ ToSet(last.path) = AncestorSet(last.arg)

\* t_free frees every node of the tree once, each after all its children.
FreeReleasesChildrenFirst ==
    [][TFree => /\ Len(last'.path) = Len(tree)
               /\ ToSet(last'.path) = DOMAIN tree
               /\ \A k, l \in DOMAIN last'.path :
                     tree[last'.path[k]].parent = last'.path[l] => k < l]_vars

=============================================================================
