------------------------------ MODULE ClientIP ------------------------------
(***************************************************************************)
(* How the plugin finds the client's address (ipResolver.clientIP,         *)
(* src/clientip.go), together with the chain of proxies whose work it      *)
(* reads: a client sends a request with a forwarding header of its own     *)
(* making, and every proxy of the operator appends the address of its peer *)
(* before it passes the request on.  The last of them is the peer that the *)
(* plugin sees.                                                            *)
(*                                                                         *)
(* forwardedValues flattens and trims the header's lines into one list;    *)
(* here the header is that list.  Junk stands for the entries that parseIP *)
(* cannot read, NoIP for a nil address.                                    *)
(***************************************************************************)
EXTENDS Integers, Sequences, FiniteSetsExt

CONSTANTS
    Clients,     \* addresses that are no proxy of the operator
    Proxies,     \* addresses of the operator's proxies
    Junk, NoIP,
    MaxForged,   \* bound on the entries a client makes up
    MaxHops      \* bound on the proxies of a chain

Addresses == Clients \cup Proxies

ASSUME AddressAssumption ==
    /\ Clients \cap Proxies = {}
    /\ Junk \notin Addresses /\ NoIP \notin Addresses /\ Junk # NoIP
    /\ MaxForged \in Nat /\ MaxHops \in Nat

VARIABLES
    resolver,    \* the plugin's ipResolver
    client,      \* the address the request really comes from
    peer,        \* the address the connection to the plugin comes from
    values,      \* the entries of the forwarding header
    hops         \* proxies passed

vars == <<resolver, client, peer, values, hops>>

-----------------------------------------------------------------------------
parseIP(entry) == IF entry \in Addresses THEN entry ELSE NoIP

ipInNets(ip, nets) == ip # NoIP /\ ip \in nets

HeaderIgnoredForAnyPeer(r, from, list) ==  \* as a bug: the peer not examined
    ~r.trustForwarded \/ list = <<>>

(* The header is not consulted at all: it is not trusted, or not from a peer
   that is none of the trusted proxies, or it is empty. *)
HeaderIgnored(r, from, list) ==
    \/ ~r.trustForwarded
    \/ r.trustedProxies # {} /\ ~ipInNets(from, r.trustedProxies)
    \/ list = <<>>

AtDepthFromZero(r, list) ==  \* as a bug: an index off by one
    LET i == Len(list) - r.depth
    IN IF i \in DOMAIN list THEN parseIP(list[i]) ELSE NoIP

(* The entry at the configured depth, counted from the right. *)
AtDepth(r, list) ==
    LET i == Len(list) - r.depth + 1
    IN IF i \in DOMAIN list THEN parseIP(list[i]) ELSE NoIP

UntrustedOrNot(r, list) ==  \* as a bug: a walk that stops at any address
    {i \in DOMAIN list : parseIP(list[i]) # NoIP}

(* The entries that each of the two walks stops at: the rightmost one that is
   no trusted proxy, and the leftmost one that is an address at all. *)
Untrusted(r, list) ==
    {i \in DOMAIN list : parseIP(list[i]) # NoIP
                         /\ ~ipInNets(parseIP(list[i]), r.trustedProxies)}
Readable(list) == {i \in DOMAIN list : parseIP(list[i]) # NoIP}

clientIP(r, from, list) ==
    IF HeaderIgnored(r, from, list) THEN from
    ELSE IF r.depth > 0
    THEN IF AtDepth(r, list) # NoIP THEN AtDepth(r, list) ELSE from
    ELSE IF r.trustedProxies # {}
    THEN IF Untrusted(r, list) # {} THEN list[Max(Untrusted(r, list))] ELSE from
    ELSE IF Readable(list) # {} THEN list[Min(Readable(list))] ELSE from

-----------------------------------------------------------------------------
Resolvers == [trustForwarded : BOOLEAN, depth : 0..MaxHops,
              trustedProxies : {{}, Proxies}]

Entries == Addresses \cup {Junk}

Forgeries == UNION {[1..n -> Entries] : n \in 0..MaxForged}

Init ==
    /\ resolver \in Resolvers
    /\ client \in Clients
    /\ peer = client
    /\ values \in Forgeries
    /\ hops = 0

(* A proxy accepts the request, appends its peer and passes it on. *)
Forward(proxy) ==
    /\ hops < MaxHops
    /\ values' = Append(values, peer)
    /\ peer' = proxy
    /\ hops' = hops + 1
    /\ UNCHANGED <<resolver, client>>

Next == \E proxy \in Proxies : Forward(proxy)

Spec == Init /\ [][Next]_vars
-----------------------------------------------------------------------------
(* With the proxies listed, the address found is the client's however many of
   them the request passed and whatever the client wrote into the header, even
   the proxies' own addresses (clientip.go 52-65 with 30-32). *)
WalkFindsClient ==
    resolver.trustForwarded /\ resolver.trustedProxies = Proxies
      /\ Proxies # {} /\ resolver.depth = 0
        => clientIP(resolver, peer, values) = client

(* With a depth, the address found is the client's when that many proxies
   passed the request on, whatever the client wrote ("the reliable choice
   behind a known number of hops", clientip.go 39-50). *)
DepthFindsClient ==
    resolver.trustForwarded /\ hops > 0 /\ resolver.depth = hops
        => clientIP(resolver, peer, values) = client

(* A client that connects directly cannot choose its address once the proxies
   are listed, at any depth (clientip.go 27-32). *)
DirectClientIsPeer ==
    hops = 0 /\ (~resolver.trustForwarded
                 \/ (resolver.trustedProxies = Proxies /\ Proxies # {}))
        => clientIP(resolver, peer, values) = client
=============================================================================
