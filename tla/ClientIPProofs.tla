--------------------------- MODULE ClientIPProofs ---------------------------
(***************************************************************************)
(* Proofs that the client's address is found behind any chain of proxies,  *)
(* for any forged header.  Everything rests on the shape of the header     *)
(* after h hops: the last h entries are the client's address followed by   *)
(* proxies, whatever stands before them.                                   *)
(***************************************************************************)
EXTENDS ClientIP, TLAPS

(* Where the first proxy wrote the client's address. *)
ClientIndex == Len(values) - hops + 1

ChainInv ==
    /\ values \in Seq(Entries)
    /\ hops \in 0..MaxHops /\ hops <= Len(values)
    /\ Len(values) <= hops + MaxForged
    /\ resolver \in Resolvers /\ client \in Clients
    /\ hops = 0 => peer = client
    /\ hops > 0 => peer \in Proxies /\ values[ClientIndex] = client
    /\ \A i \in DOMAIN values : i > ClientIndex => values[i] \in Proxies

LEMMA InitChain == Init => ChainInv
<1> SUFFICES ASSUME Init PROVE ChainInv
  OBVIOUS
<1>1. PICK n \in 0..MaxForged : values \in [1..n -> Entries]
  BY DEF Init, Forgeries
<1>2. n \in Nat /\ values \in Seq(Entries) /\ Len(values) = n
  BY <1>1, AddressAssumption
<1>3. \A i \in DOMAIN values : i <= n
  BY <1>1, <1>2
<1> QED
  BY <1>1, <1>2, <1>3, AddressAssumption DEF Init, ChainInv, ClientIndex

LEMMA NextChain == ChainInv /\ [Next]_vars => ChainInv'
<1> SUFFICES ASSUME ChainInv, [Next]_vars PROVE ChainInv'
  OBVIOUS
<1>1. CASE UNCHANGED vars
  BY <1>1 DEF vars, ChainInv, ClientIndex
<1>2. ASSUME NEW proxy \in Proxies, Forward(proxy) PROVE ChainInv'
  <2>1. /\ peer \in Entries
        /\ hops' = hops + 1 /\ peer' = proxy /\ values' = Append(values, peer)
        /\ UNCHANGED <<resolver, client>>
        /\ hops < MaxHops
    BY <1>2 DEF Forward, ChainInv, Entries, Addresses
  <2>2. /\ values' \in Seq(Entries)
        /\ Len(values') = Len(values) + 1
        /\ DOMAIN values' = DOMAIN values \cup {Len(values) + 1}
        /\ values'[Len(values) + 1] = peer
        /\ \A i \in DOMAIN values : values'[i] = values[i]
    BY <2>1 DEF ChainInv
  <2>3. ClientIndex' = ClientIndex
    BY <2>1, <2>2 DEF ChainInv, ClientIndex
  <2>4. values'[ClientIndex] = client
    <3>1. CASE hops = 0
      BY <2>2, <3>1 DEF ChainInv, ClientIndex
    <3>2. CASE hops > 0
      <4>1. ClientIndex \in DOMAIN values
        BY <3>2 DEF ChainInv, ClientIndex
      <4> QED
        BY <2>2, <3>2, <4>1 DEF ChainInv
    <3> QED
      BY <3>1, <3>2 DEF ChainInv
  <2>5. \A i \in DOMAIN values' : i > ClientIndex => values'[i] \in Proxies
    <3> SUFFICES ASSUME NEW i \in DOMAIN values', i > ClientIndex
                 PROVE  values'[i] \in Proxies
      OBVIOUS
    <3>1. CASE i \in DOMAIN values
      BY <2>2, <3>1 DEF ChainInv
    <3>2. CASE i = Len(values) + 1
      <4>1. hops > 0
        BY <3>2 DEF ChainInv, ClientIndex
      <4> QED
        BY <2>2, <3>2, <4>1 DEF ChainInv
    <3> QED
      BY <2>2, <3>1, <3>2
  <2> QED
    BY <2>1, <2>2, <2>3, <2>4, <2>5, AddressAssumption DEF ChainInv
<1> QED
  BY <1>1, <1>2 DEF Next

LEMMA ChainInvariance == Spec => []ChainInv
<1> QED
  BY InitChain, NextChain, PTL DEF Spec

-----------------------------------------------------------------------------
LEMMA ClientsAreReadable ==
    /\ \A a \in Clients \cup Proxies : parseIP(a) = a /\ a # NoIP
    /\ \A c \in Clients : c \notin Proxies
BY AddressAssumption DEF parseIP, Addresses

(* The walk from the right passes the proxies' entries and stops at the
   client's. *)
LEMMA ChainWalk == ChainInv => WalkFindsClient
<1> SUFFICES ASSUME ChainInv, resolver.trustForwarded,
                    resolver.trustedProxies = Proxies, Proxies # {},
                    resolver.depth = 0
             PROVE  clientIP(resolver, peer, values) = client
  BY DEF WalkFindsClient
<1>1. client \in Clients /\ parseIP(client) = client /\ client # NoIP
      /\ client \notin Proxies
  BY ClientsAreReadable DEF ChainInv
<1>2. CASE hops = 0
  BY <1>1, <1>2 DEF ChainInv, clientIP, HeaderIgnored, ipInNets
<1>3. CASE hops > 0
  <2>1. /\ peer \in Proxies /\ peer # NoIP
        /\ ClientIndex \in DOMAIN values
        /\ values[ClientIndex] = client
    BY <1>3, ClientsAreReadable DEF ChainInv, ClientIndex
  <2>2. ClientIndex \in Untrusted(resolver, values)
    BY <1>1, <2>1 DEF Untrusted, ipInNets
  <2>3. \A i \in Untrusted(resolver, values) : ClientIndex >= i
    <3> SUFFICES ASSUME NEW i \in DOMAIN values, i > ClientIndex
                 PROVE  i \notin Untrusted(resolver, values)
      BY DEF Untrusted, ChainInv, ClientIndex
    <3>1. values[i] \in Proxies
      BY DEF ChainInv
    <3> QED
      BY <3>1, ClientsAreReadable DEF Untrusted, ipInNets
  <2>4. Max(Untrusted(resolver, values)) = ClientIndex
    <3>1. Untrusted(resolver, values) \subseteq Int
      BY DEF Untrusted, ChainInv
    <3> QED
      BY <2>2, <2>3, <3>1 DEF Max
  <2>5. ~HeaderIgnored(resolver, peer, values)
    BY <2>1 DEF HeaderIgnored, ipInNets
  <2> QED
    BY <2>1, <2>2, <2>4, <2>5 DEF clientIP
<1> QED
  BY <1>2, <1>3 DEF ChainInv

(* Counting as many entries from the right as there were hops ends at the
   client's. *)
LEMMA ChainDepth == ChainInv => DepthFindsClient
<1> SUFFICES ASSUME ChainInv, resolver.trustForwarded, hops > 0,
                    resolver.depth = hops
             PROVE  clientIP(resolver, peer, values) = client
  BY DEF DepthFindsClient
<1>1. client \in Clients /\ parseIP(client) = client /\ client # NoIP
  BY ClientsAreReadable DEF ChainInv
<1>2. /\ peer \in Proxies /\ peer # NoIP
      /\ ClientIndex \in DOMAIN values
      /\ values[ClientIndex] = client
  BY ClientsAreReadable DEF ChainInv, ClientIndex
<1>3. AtDepth(resolver, values) = client
  BY <1>1, <1>2 DEF AtDepth, ClientIndex
<1>4. ~HeaderIgnored(resolver, peer, values)
  <2>1. resolver.trustedProxies \in {{}, Proxies}
    BY DEF ChainInv, Resolvers
  <2> QED
    BY <1>2, <2>1 DEF HeaderIgnored, ipInNets
<1> QED
  BY <1>1, <1>3, <1>4 DEF clientIP, ChainInv

(* A peer that is a client is none of the listed proxies, so that what it
   wrote is not consulted. *)
LEMMA ChainDirect == ChainInv => DirectClientIsPeer
<1> SUFFICES ASSUME ChainInv, hops = 0,
                    \/ ~resolver.trustForwarded
                    \/ resolver.trustedProxies = Proxies /\ Proxies # {}
             PROVE  clientIP(resolver, peer, values) = client
  BY DEF DirectClientIsPeer
<1>1. peer = client /\ client \notin Proxies
  BY ClientsAreReadable DEF ChainInv
<1>2. HeaderIgnored(resolver, peer, values)
  BY <1>1 DEF HeaderIgnored, ipInNets
<1> QED
  BY <1>1, <1>2 DEF clientIP

(* Behind listed proxies the client's address is found however many of them
   passed the request on and whatever the client forged (clientip.go 52-65). *)
THEOREM WalkIsSafe == Spec => []WalkFindsClient
BY ChainInvariance, ChainWalk, PTL

(* At a depth that equals the number of proxies the client's address is found
   whatever the client forged (clientip.go 39-50). *)
THEOREM DepthIsSafe == Spec => []DepthFindsClient
BY ChainInvariance, ChainDepth, PTL

(* A client without a proxy in between is known by its own address, whatever
   header it sends, when headers are not trusted or the proxies are listed
   (clientip.go 27-32). *)
THEOREM DirectIsSafe == Spec => []DirectClientIsPeer
BY ChainInvariance, ChainDirect, PTL
=============================================================================
