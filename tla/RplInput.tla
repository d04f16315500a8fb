------------------------------ MODULE RplInput ------------------------------
(***************************************************************************)
(* The length checks of the receive path: process() strips the ICMPv6     *)
(* header, process_dio parses the Destination Prefix option of a DIO for   *)
(* an unknown DODAG and copies the prefix into a struct in6_prefix,        *)
(* process_dao walks the options of a DAO.                                 *)
(*                                                                         *)
(* A datagram is its length and the bytes the code reads.  Every option    *)
(* header is read once, at an offset that only grows, so its bytes are     *)
(* chosen when they are read, from small sets of interesting values.       *)
(* Offsets count from the first byte of the ICMPv6 header.  The struct     *)
(* sizes are those of the wire format (spec section 4.1); rpl.h is not     *)
(* part of the repository.                                                 *)
(***************************************************************************)
EXTENDS Integers

CONSTANTS
    MaxSize,      \* bound: the longest datagram received
    OptLens,      \* values of the option length byte
    PrefixLens,   \* values of the prefix length byte of a DIO
    OptTypes,     \* option type bytes; RplDaoTarget and DioDestPrefix matter
    DestLens,     \* dag->dest.len of a DAG that builds a DIO (config: 0..255)
    MaxTargets    \* bound: targets in a DAO rpld builds (self and children)

IcmpHdr == 4          \* the part of struct icmp6_hdr before icmp6_dataun
DioSize == 24         \* sizeof(struct nd_rpl_dio)
DestPrefixSize == 24  \* sizeof(struct rpl_dio_destprefix), prefix included
AddrSize == 16        \* sizeof(struct in6_addr)
DaoSize == 20         \* sizeof(struct nd_rpl_dao)
OptHdrSize == 2       \* sizeof(struct nd_rpl_opt)
TargetSize == 20      \* sizeof(struct rpl_dao_target)
DaoAckSize == 20      \* sizeof(struct nd_rpl_daoack), which dag_build_dao uses
TargetLen == 18       \* the rpl_dao_len dag_build_dao writes
DioDestPrefix == 3
RplDaoTarget == 5

ASSUME /\ MaxSize \in Nat
       /\ OptLens \subseteq 0..255 /\ PrefixLens \subseteq 0..255
       /\ OptTypes \subseteq 0..255 /\ DestLens \subseteq 0..255
       /\ MaxTargets \in Nat \ {0}

VARIABLES
    stage,    \* "idle", "walk" (process_dao's loop), "done" or "drop"
    built,    \* the datagram was built by dag_build_dio or dag_build_dao
    size,     \* length of the datagram being processed
    off,      \* offset of p, the next DAO option
    optlen,   \* the int optlen of process_dao
    readEnd,  \* per kind of read, the end of the furthest read so far
    copied,   \* bytes memcpy'd into pfx.prefix by process_dio
    sentRead  \* bytes append_destprefix read from its struct for this DIO

vars == <<stage, built, size, off, optlen, readEnd, copied, sentRead>>

ReadKinds == {"header", "prefix", "target"}

TypeOK ==
    /\ stage \in {"idle", "walk", "done", "drop"}
    /\ built \in BOOLEAN
    /\ size \in Nat
    /\ off \in Nat /\ optlen \in Int
    /\ readEnd \in [ReadKinds -> Nat]
    /\ copied \in Nat
    /\ sentRead \in Nat

Init ==
    /\ stage = "idle"
    /\ built = FALSE
    /\ size = 0 /\ off = 0 /\ optlen = 0
    /\ readEnd = [k \in ReadKinds |-> 0]
    /\ copied = 0
    /\ sentRead = 0

\* bits_to_bytes: bits >> 3, plus one when bits & 0x7.
BitsToBytes(b) == b \div 8 + (IF b % 8 # 0 THEN 1 ELSE 0)

\* The reads of a new datagram: up to e[k] for each kind k in DOMAIN e.
ReadFresh(e) == readEnd' = [k \in ReadKinds |-> IF k \in DOMAIN e THEN e[k] ELSE 0]

\* Further reads of the same datagram, up to e[k] for each k in DOMAIN e.
ReadTo(e) == readEnd' = [k \in ReadKinds |->
                            IF k \in DOMAIN e /\ e[k] > readEnd[k] THEN e[k] ELSE readEnd[k]]

Idle == stage = "idle"

(***************************************************************************)
(* The builders.  dag_build_icmp appends the ICMPv6 header less its last   *)
(* four bytes; append_destprefix and append_target append the option       *)
(* struct truncated to the prefix bytes.                                   *)
(***************************************************************************)

\* append_destprefix: len = sizeof(diodp) - sizeof(prefix) + bits_to_bytes.
DestPrefixLen(dlen) == DestPrefixSize - AddrSize + BitsToBytes(dlen)

\* Mutant: the option is appended without its prefix bytes.
DioBuiltSizeNoPrefix(dlen) == IcmpHdr + DioSize + DestPrefixSize - AddrSize

\* The length of the DIO dag_build_dio builds.
DioBuiltSize(dlen) == IcmpHdr + DioSize + DestPrefixLen(dlen)

\* append_target of a /128 target.
TargetOptSize == TargetSize - AddrSize + BitsToBytes(128)

\* The length of the DAO dag_build_dao builds with k targets.
DaoBuiltSize(k) == IcmpHdr + DaoAckSize + k * TargetOptSize

(***************************************************************************)
(* The receive path.  Each action is one call of process for a datagram of *)
(* size sz, the handler it dispatches to included; b says whether one of   *)
(* the builders above made it.                                             *)
(***************************************************************************)

Receive(sz, b) == Idle /\ size' = sz /\ built' = b

\* process: a datagram shorter than the ICMPv6 header is dropped.
ProcessShort(sz) ==
    /\ Receive(sz, FALSE)
    /\ sz < IcmpHdr
    /\ stage' = "drop"
    /\ ReadFresh([header |-> 0])
    /\ copied' = 0 /\ sentRead' = 0
    /\ UNCHANGED <<off, optlen>>

\* Mutant: the prefix length is not compared with what is left.
PrefixFitsAlways(len, plen) == TRUE

\* process_dio: the prefix bytes must fit in what is left.
PrefixFits(len, plen) == ~(len < BitsToBytes(plen))

\* process_dio: the DIO header must fit; a known DODAG parses no option;
\* for an unknown one the Destination Prefix header must fit, its type
\* must be 3 and its prefix bytes must fit, then bits_to_bytes(prefixlen)
\* bytes are copied into pfx.prefix.
ProcessDio(sz, b, known, type, plen) ==
    LET len0 == sz - IcmpHdr
        len1 == len0 - DioSize
        len2 == len1 - (DestPrefixSize - AddrSize)
        dp   == IcmpHdr + DioSize
        pdat == dp + DestPrefixSize - AddrSize
    IN /\ Receive(sz, b)
       /\ sz >= IcmpHdr
       /\ UNCHANGED <<off, optlen>>
       /\ CASE len0 < DioSize ->
                 stage' = "drop" /\ ReadFresh([header |-> IcmpHdr]) /\ copied' = 0
            [] known ->
                 stage' = "done" /\ ReadFresh([header |-> dp]) /\ copied' = 0
            [] len1 < DestPrefixSize - AddrSize ->
                 stage' = "drop" /\ ReadFresh([header |-> dp]) /\ copied' = 0
            [] type # DioDestPrefix ->
                 stage' = "drop" /\ ReadFresh([header |-> dp + 1]) /\ copied' = 0
            [] ~PrefixFits(len2, plen) ->
                 stage' = "drop" /\ ReadFresh([header |-> dp + 3]) /\ copied' = 0
            [] OTHER ->
                 /\ stage' = "done"
                 /\ ReadFresh([header |-> dp + 3, prefix |-> pdat + BitsToBytes(plen)])
                 /\ copied' = BitsToBytes(plen)

\* A DIO dag_build_dio built for a DAG whose dest.len is dlen, received by
\* a node that does not know the DODAG.  append_destprefix reads dlen's
\* bytes from its struct rpl_dio_destprefix.
ReceiveBuiltDio(dlen) ==
    /\ ProcessDio(DioBuiltSize(dlen), TRUE, FALSE, DioDestPrefix, dlen)
    /\ sentRead' = DestPrefixLen(dlen)

\* process_dao up to its loop: the DAO header must fit; a DAO for an
\* unknown DODAG is dropped.
ProcessDao(sz, b, known) ==
    /\ Receive(sz, b)
    /\ sz >= IcmpHdr
    /\ copied' = 0 /\ sentRead' = 0
    /\ CASE sz - IcmpHdr < DaoSize ->
              stage' = "drop" /\ ReadFresh([header |-> IcmpHdr]) /\ UNCHANGED <<off, optlen>>
         [] ~known ->
              stage' = "drop" /\ ReadFresh([header |-> IcmpHdr + DaoSize]) /\ UNCHANGED <<off, optlen>>
         [] OTHER ->
              /\ stage' = IF sz - IcmpHdr - DaoSize > 0 THEN "walk" ELSE "done"
              /\ off' = IcmpHdr + DaoSize
              /\ optlen' = sz - IcmpHdr - DaoSize
              /\ ReadFresh([header |-> IcmpHdr + DaoSize])

\* A DAO dag_build_dao built with k targets, received by its parent.
ReceiveBuiltDao(k) == ProcessDao(DaoBuiltSize(k), TRUE, TRUE)

\* Mutant: the option header check is left out.
OptFitsAlways(len) == TRUE

\* process_dao compares optlen with sizeof(*opt) before the switch.  The
\* Target case makes the same comparison again, so it never drops: one
\* guard stands for both.
OptFits(len) == ~(len < OptHdrSize)

\* One iteration of the option loop of process_dao: the header check, a
\* Target option is read and registered, any other type is skipped, and
\* optlen and p advance by 2 + opt->len.  The option bytes of a built DAO
\* are those append_target wrote.
DaoOption(type, olen) ==
    /\ stage = "walk"
    /\ optlen > 0
    /\ built => type = RplDaoTarget /\ olen = TargetLen
    /\ UNCHANGED <<built, size, copied, sentRead>>
    /\ CASE ~OptFits(optlen) ->
              stage' = "drop" /\ UNCHANGED <<off, optlen, readEnd>>
         [] OTHER ->
              /\ ReadTo(IF type = RplDaoTarget
                        THEN [header |-> off + OptHdrSize, target |-> off + TargetSize]
                        ELSE [header |-> off + OptHdrSize])
              /\ optlen' = optlen - (2 + olen)
              /\ off' = off + 2 + olen
              /\ stage' = IF optlen - (2 + olen) > 0 THEN "walk" ELSE "done"

\* process_daoack: the DAO-ACK header must fit, then the DAG is looked up.
ProcessDaoAck(sz) ==
    /\ Receive(sz, FALSE)
    /\ sz >= IcmpHdr
    /\ stage' = IF sz - IcmpHdr < DaoAckSize THEN "drop" ELSE "done"
    /\ ReadFresh([header |-> IF sz - IcmpHdr < DaoAckSize THEN IcmpHdr ELSE IcmpHdr + DaoAckSize])
    /\ copied' = 0 /\ sentRead' = 0
    /\ UNCHANGED <<off, optlen>>

\* process_dis reads nothing past the ICMPv6 header.
ProcessDis(sz) ==
    /\ Receive(sz, FALSE)
    /\ sz >= IcmpHdr
    /\ stage' = "done"
    /\ ReadFresh([header |-> IcmpHdr])
    /\ copied' = 0 /\ sentRead' = 0
    /\ UNCHANGED <<off, optlen>>

\* icmpv6_cb returns to the loop; the receive path keeps nothing of a
\* datagram once it is handled.
Return ==
    /\ stage \in {"done", "drop"}
    /\ stage' = "idle" /\ built' = FALSE
    /\ size' = 0 /\ off' = 0 /\ optlen' = 0
    /\ readEnd' = [k \in ReadKinds |-> 0]
    /\ copied' = 0 /\ sentRead' = 0

Sizes == 0..MaxSize

Next ==
    \/ \E sz \in Sizes : ProcessShort(sz) \/ ProcessDaoAck(sz) \/ ProcessDis(sz)
    \/ \E sz \in Sizes, known \in BOOLEAN, type \in OptTypes, plen \in PrefixLens :
          ProcessDio(sz, FALSE, known, type, plen) /\ sentRead' = 0
    \/ \E dlen \in DestLens : ReceiveBuiltDio(dlen)
    \/ \E sz \in Sizes, known \in BOOLEAN : ProcessDao(sz, FALSE, known)
    \/ \E k \in 1..MaxTargets : ReceiveBuiltDao(k)
    \/ \E type \in OptTypes, olen \in OptLens : DaoOption(type, olen)
    \/ Return

Spec == Init /\ [][Next]_vars

-----------------------------------------------------------------------------
(* Properties                                                              *)

\* Every header byte the receive path reads (ICMPv6, DIO, Destination
\* Prefix, DAO, DAO-ACK and option headers) lies inside the datagram.
HeadersWithinDatagram == readEnd["header"] <= size

\* The prefix bytes process_dio copies lie inside the datagram.
PrefixWithinDatagram == readEnd["prefix"] <= size

\* A DIO or DAO rpld builds itself passes every length check of the
\* receiving handler: the option lengths the builders write agree with
\* the sizes the parser steps over.
BuiltAccepted == built => stage # "drop"

\* No prefix copy exceeds the 16-byte in6_addr it comes from or goes to:
\* append_destprefix reads no more than its struct rpl_dio_destprefix
\* holds, and process_dio writes no more into pfx.prefix than it holds.
PrefixCopyFits == sentRead <= DestPrefixSize /\ copied <= AddrSize

\* Every Target option process_dao reads lies inside the datagram.
TargetWithinDatagram == readEnd["target"] <= size
=============================================================================
