---------------------------- MODULE IntrusiveList ----------------------------
(***************************************************************************)
(* The intrusive doubly linked list of list.h.  Entries live in an arena t *)
(* of records with prev and next fields (struct list, embedded in the     *)
(* object); a list is its head pointer h (struct list_head).  list_add and *)
(* list_del are utlist's DL_APPEND and DL_DELETE, which is not part of the *)
(* repository: the head's prev points at the tail, the tail's next is     *)
(* NULL, and a deleted entry keeps its own prev and next.  An operation    *)
(* returns the new [head, t].                                              *)
(***************************************************************************)
EXTENDS Naturals, Sequences

Nil == 0

\* An empty list_head and no entries.
EmptyList == [head |-> Nil, t |-> <<>>]

\* list_add: DL_APPEND.  The entry goes last and becomes the head's prev.
ListAdd(h, t, e) ==
    IF h # Nil
    THEN [head |-> h,
          t |-> [t EXCEPT ![e].prev = t[h].prev, ![t[h].prev].next = e,
                          ![h].prev = e, ![e].next = Nil]]
    ELSE [head |-> e, t |-> [t EXCEPT ![e].prev = e, ![e].next = Nil]]

\* list_del: DL_DELETE.  The only entry empties the list; the head passes
\* its prev (the tail) on to its successor; an inner entry is unlinked; the
\* tail makes its predecessor the head's prev.
ListDel(h, t, e) ==
    CASE t[e].prev = e -> [head |-> Nil, t |-> t]
      [] e = h          -> [head |-> t[e].next, t |-> [t EXCEPT ![t[e].next].prev = t[e].prev]]
      [] t[e].next # Nil -> [head |-> h, t |-> [t EXCEPT ![t[e].prev].next = t[e].next,
                                                        ![t[e].next].prev = t[e].prev]]
      [] OTHER          -> [head |-> h, t |-> [t EXCEPT ![t[e].prev].next = Nil,
                                                        ![h].prev = t[e].prev]]

\* At most k entries from e on, following next.
RECURSIVE Walk(_, _, _)
Walk(t, e, k) == IF e = Nil \/ k = 0 THEN <<>> ELSE <<e>> \o Walk(t, t[e].next, k - 1)

\* The entries list_for_each_entry visits: list_first_entry, then
\* list_next_entry until NULL.
ListEntries(h, t) == Walk(t, h, Len(t))
=============================================================================
