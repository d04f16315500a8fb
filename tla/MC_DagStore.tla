----------------------------- MODULE MC_DagStore -----------------------------
(***************************************************************************)
(* DagStore on one interface with two instance ids and two DODAG ids.     *)
(***************************************************************************)
EXTENDS DagStore

CONSTANTS i1, i2, g1, g2, c1, c2

\* No configured DAG (a joining node), one DAG (a root), two DODAGs of one
\* instance, and the same DODAG listed twice.
MCConfigs == {<<>>, <<<<i1, g1>>>>, <<<<i1, g1>>, <<i1, g2>>>>, <<<<i1, g1>>, <<i1, g1>>>>}

\* DAOs with one target, and with two targets one of which is listed twice.
MCTargetLists == {<<c1>>, <<c2, c1, c1>>}

\* The longest prefix length a configuration accepts: the DIO then spans
\* two blocks of its safe_buffer.
MCPrefixLens == {255}

\* Two interfaces, the first not a root and the second the dodag_root, so
\* that config_free walks two entries and the root is not the head.
MCIfaceLists == {<<FALSE, TRUE>>}
=============================================================================
