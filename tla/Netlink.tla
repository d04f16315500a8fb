------------------------------- MODULE Netlink -------------------------------
(***************************************************************************)
(* The requests of netlink.c that change the kernel's tables.  Each one is *)
(* mnl_socket_sendto of the request, one mnl_socket_recvfrom of the        *)
(* kernel's ack (every request sets NLM_F_ACK) and mnl_cb_run over it,     *)
(* which returns -1 with errno set to the ack's error, or 0.               *)
(*                                                                         *)
(* A request is described by the table it acts on: old is the table       *)
(* before it, new the table the kernel leaves when it carries it out, err *)
(* the kernel's verdict.  When faults are possible the send may fail (the *)
(* kernel never sees the request) or the receive may fail after the       *)
(* kernel acted on it; both return -1 with another errno.  The result is  *)
(* the set of possible [k, rc, errno].                                     *)
(***************************************************************************)
EXTENDS Integers

\* The outcomes of one request: its ack, or a failed send or receive.
NlResult(faults, old, new, err) ==
    {[k |-> new, rc |-> IF err = "OK" THEN 0 ELSE -1, errno |-> err]}
    \cup (IF faults THEN {[k |-> old, rc |-> -1, errno |-> "ESEND"],
                          [k |-> new, rc |-> -1, errno |-> "ERECV"]}
          ELSE {})

\* nl_get_llinfo into a zeroed iface_llinfo: data_cb sets addr_len to the
\* IFLA_ADDRESS payload length when the kernel answers; a failed send or
\* receive leaves it 0.
NlGetLlinfo(len, answered) == IF answered THEN len ELSE 0

\* nl_add_addr: RTM_NEWADDR with NLM_F_CREATE; an address the interface
\* already has is refused with EEXIST.
NlAddAddr(A, a, faults) ==
    NlResult(faults, A, A \cup {a}, IF a \in A THEN "EEXIST" ELSE "OK")

\* nl_add_route_via: RTM_NEWROUTE with NLM_F_CREATE and without NLM_F_EXCL;
\* the kernel refuses only a route with the same destination and gateway.
NlAddRouteVia(H, dst, via, faults) ==
    LET r == [dst |-> dst, via |-> via]
    IN NlResult(faults, H, H \cup {r}, IF r \in H THEN "EEXIST" ELSE "OK")

\* nl_add_route_default: RTM_NEWROUTE of ::/0 through the gateway gw.
NlAddRouteDefault(D, gw, faults) ==
    NlResult(faults, D, D \cup {gw}, IF gw \in D THEN "EEXIST" ELSE "OK")

\* nl_del_route_via of a prefix route without a gateway (P: the route is
\* present); an absent route is refused with ESRCH.
NlDelRouteVia(P, faults) ==
    NlResult(faults, P, FALSE, IF P THEN "OK" ELSE "ESRCH")
=============================================================================
