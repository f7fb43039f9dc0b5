----------------------------- MODULE SearchTree -----------------------------
(***************************************************************************)
(* The binary search tree of a database file: how OpenReader finds the     *)
(* IPv4 subtree (findIPv4Start) and how LookupOffset walks the tree.       *)
(*                                                                         *)
(* A node is a pair of records, left for a 0 bit and right for a 1 bit.  A *)
(* record below NodeCount is another node, NodeCount itself is the         *)
(* reserved "no data" record, and what is above is an offset into the data *)
(* section, behind the separator.  The tree is whatever the file holds: it *)
(* may share nodes, have cycles, or be deeper than an address is long.     *)
(***************************************************************************)
EXTENDS Integers, Sequences

CONSTANTS
    Width,      \* bits of an IPv6 address, 128
    V4Width,    \* bits of an IPv4 address, 32
    NodeCount,  \* the metadata's node_count; readMetadata rejects 0
    Separator,  \* bytes between the tree and the data section, 16
    Offsets     \* offsets into the data section that records may hold

ASSUME TreeAssumption ==
    /\ V4Width \in Nat /\ Width \in Nat /\ V4Width < Width
    /\ NodeCount \in Nat \ {0}
    /\ Separator \in Nat \ {0}
    /\ Offsets \subseteq Nat

Nodes == 0..(NodeCount - 1)
Records == 0..NodeCount \cup {NodeCount + Separator + o : o \in Offsets}
Trees == [Nodes -> [0..1 -> Records]]

(* An address is its bits; those net.IP.To4 accepts have V4Width of them. *)
Addresses == [1..V4Width -> 0..1] \cup [1..Width -> 0..1]
IsV4(a) == Len(a) = V4Width

Unset == -1

VARIABLES
    tree,       \* the file's search tree
    version,    \* the metadata's ip_version
    ip,         \* the address that is looked up
    ipv4Start,  \* where the IPv4 subtree begins, Unset in an IPv4 database
    pc,         \* "open", "ready", "walk", or the outcome
    node,       \* the loops' current record ...
    i,          \* ... and the bits they have consumed
    offset      \* LookupOffset's result

treeVars == <<tree, version, ip, ipv4Start, pc, node, i, offset>>

Outcomes == {"found", "unknown", "corrupt"}

TreeInit ==
    /\ tree \in Trees
    /\ version \in {4, 6}
    /\ ip \in Addresses
    /\ ipv4Start = Unset
    /\ pc = IF version = 6 THEN "open" ELSE "ready"
    /\ node = 0 /\ i = 0
    /\ offset = Unset

-----------------------------------------------------------------------------
InsideTree(record) == record < NodeCount

(* The root is depth 0: 96 zero bits lead from it to the IPv4 subtree. *)
ZeroBitsPlusOne == Width - V4Width + 1  \* as a bug: one zero bit too many
ZeroBits == Width - V4Width

(* One turn of the loop of findIPv4Start ... *)
FollowZeroBit ==
    /\ pc = "open"
    /\ i < ZeroBits /\ InsideTree(node)
    /\ node' = tree[node][0]
    /\ i' = i + 1
    /\ UNCHANGED <<tree, version, ip, ipv4Start, pc, offset>>

(* ... and its end, which may come early, at a record outside the tree. *)
FixIPv4Start ==
    /\ pc = "open"
    /\ ~(i < ZeroBits /\ InsideTree(node))
    /\ ipv4Start' = node
    /\ pc' = "ready"
    /\ node' = 0 /\ i' = 0
    /\ UNCHANGED <<tree, version, ip, offset>>

(* LookupOffset picks the node to start from.  An IPv6 address is in no IPv4
   database. *)
StartWalk ==
    /\ pc = "ready"
    /\ IF IsV4(ip) /\ version = 6 THEN node' = ipv4Start ELSE node' = 0
    /\ pc' = IF ~IsV4(ip) /\ version = 4 THEN "unknown" ELSE "walk"
    /\ i' = 0
    /\ UNCHANGED <<tree, version, ip, ipv4Start, offset>>

WalkBit ==
    /\ pc = "walk"
    /\ i < Len(ip) /\ InsideTree(node)
    /\ node' = tree[node][ip[i + 1]]
    /\ i' = i + 1
    /\ UNCHANGED <<tree, version, ip, ipv4Start, pc, offset>>

(* The record's offset, from the start of the data section. *)
DataOffset(record) == record - NodeCount - Separator

(* The loop is over: out of bits, or at a record outside the tree. *)
JudgeRecord ==
    /\ pc = "walk"
    /\ ~(i < Len(ip) /\ InsideTree(node))
    /\ pc' = IF node = NodeCount THEN "unknown"
             ELSE IF node > NodeCount THEN "found" ELSE "corrupt"
    /\ offset' = IF node > NodeCount THEN DataOffset(node) ELSE offset
    /\ UNCHANGED <<tree, version, ip, ipv4Start, node, i>>

TreeNext == FollowZeroBit \/ FixIPv4Start \/ StartWalk \/ WalkBit \/ JudgeRecord

TreeSpec == TreeInit /\ [][TreeNext]_treeVars

-----------------------------------------------------------------------------
(* The variables keep their types; a walk never leaves the file's records. *)
TreeTypeOK ==
    /\ tree \in Trees
    /\ version \in {4, 6}
    /\ ip \in Addresses
    /\ ipv4Start \in Records \cup {Unset}
    /\ pc \in {"open", "ready", "walk"} \cup Outcomes
    /\ node \in Records
    /\ i \in 0..Width
    /\ offset \in Offsets \cup {Unset}

(* A path of records that follows bits from the root of tree t and leaves the
   tree, if at all, with its last record r. *)
IsPath(t, path, bits, n, r) ==
    /\ path[0] = 0
    /\ path[n] = r
    /\ \A j \in 1..n : /\ InsideTree(path[j - 1])
                       /\ path[j] = t[path[j - 1]][bits[j]]

Leads(t, bits, n, r) == \E path \in [0..n -> Records] : IsPath(t, path, bits, n, r)

(* The bits that a database of version v files an address under. *)
FiledUnder(a, v) ==
    IF IsV4(a) /\ v = 6 THEN [j \in 1..(Width - V4Width) |-> 0] \o a ELSE a

(* Longest prefix match: the lookup of an address ends with the record that
   the one prefix of its bits leads to at which the tree ends, an IPv4 address
   being ::a.b.c.d in an IPv6 database wherever its subtree starts; only a
   tree deeper than the address is reported as corrupt (mmdb.go 230-242,
   306-361). *)
LongestPrefixMatch ==
    LET bits == FiledUnder(ip, version)
    IN /\ pc = "found" => \E n \in 0..Len(bits) :
              Leads(tree, bits, n, NodeCount + Separator + offset)
       /\ pc = "unknown" /\ (version = 6 \/ IsV4(ip)) => \E n \in 0..Len(bits) :
              Leads(tree, bits, n, NodeCount)
       /\ pc = "corrupt" => \E r \in Nodes : Leads(tree, bits, Len(bits), r)
=============================================================================
