----------------------------- MODULE NetProofs ------------------------------
(***************************************************************************)
(* Proofs about the network stack: ARP and DHCP (Net), the socket table    *)
(* and the streams of TCP (Tcp), for any number of machines, servers,      *)
(* cache entries, sockets, peers and descriptors.                          *)
(***************************************************************************)
EXTENDS Net, Tcp, NumberLemmas, FiniteSetTheorems, TLAPS

(***************************************************************************)
(* ARP and DHCP.                                                           *)
(***************************************************************************)
\* The cache stays within its array, and the states of DHCP tell which address
\* an acknowledgement can name: none before the request, the requested one after.
CacheFits == IsFiniteSet(DOMAIN arp) /\ Cardinality(DOMAIN arp) <= ArpSize

DhcpKnown ==
    /\ dhcp \in [state : {"NONE", "DISCOVER_SENT", "REQUEST_SENT", "BOUND"},
                 asked : {Zero} \cup {Lease(s) : s \in Servers}]
    /\ dhcp.state \in {"NONE", "DISCOVER_SENT"} => dhcp.asked = Zero

RepliesAnswer ==
    \A r \in replies : r.type = "ACK" => r.ip = dhcp.asked /\ r.ip # Zero

PendingKnown ==
    DOMAIN pending = {"valid", "target", "left"} /\ pending = [valid |-> pending.valid,
        target |-> pending.target, left |-> pending.left]

OffersKnown == \A r \in replies : r.type \in {"OFFER", "ACK"} /\ r.ip \in {Lease(s) : s \in Servers}

NetInv ==
    /\ CacheFits /\ PendingKnown /\ DhcpKnown /\ OffersKnown /\ RepliesAnswer
    /\ PendingIsSound /\ BoundToWhatWasRequested

\* UpdateArpCache adds the address it is given or nothing, nothing only when the
\* cache is full, and never more than the array holds.
LEMMA CacheGrowth ==
    ASSUME CacheFits, NEW a, NEW mac, arp' = UpdateArpCache(a, mac)
    PROVE  /\ CacheFits'
           /\ DOMAIN arp' = DOMAIN arp \/ DOMAIN arp' = DOMAIN arp \cup {a}
           /\ a \notin DOMAIN arp' => Cardinality(DOMAIN arp) = ArpSize
           /\ Cardinality(DOMAIN arp) = ArpSize => Cardinality(DOMAIN arp') = ArpSize
           /\ a \notin DOMAIN arp' => Cardinality(DOMAIN arp') = ArpSize
<1>0. ArpSize \in Nat
    BY NetAssumption
<1>1. Cardinality(DOMAIN arp) \in Nat
    BY FS_CardinalityType DEF CacheFits
<1>2. CASE a \in DOMAIN arp
    <2>1. DOMAIN arp' = DOMAIN arp
        BY <1>2 DEF UpdateArpCache
    <2> QED BY <2>1, <1>2 DEF CacheFits
<1>3. CASE a \notin DOMAIN arp /\ Cardinality(DOMAIN arp) < ArpSize
    <2>1. DOMAIN arp' = DOMAIN arp \cup {a}
        BY <1>3 DEF UpdateArpCache
    <2>2. /\ IsFiniteSet(DOMAIN arp \cup {a})
          /\ Cardinality(DOMAIN arp \cup {a}) = Cardinality(DOMAIN arp) + 1
        BY <1>3, FS_AddElement DEF CacheFits
    <2> QED BY <2>1, <2>2, <1>0, <1>1, <1>3 DEF CacheFits
<1>4. CASE a \notin DOMAIN arp /\ ~(Cardinality(DOMAIN arp) < ArpSize)
    <2>1. arp' = arp
        BY <1>4 DEF UpdateArpCache
    <2> QED BY <2>1, <1>0, <1>1, <1>4 DEF CacheFits
<1> QED BY <1>2, <1>3, <1>4

\* The network below TCP keeps its invariant.
THEOREM NetInvariance == NetSpec => []NetInv
<1>1. NetInit => NetInv
    <2> SUFFICES ASSUME NetInit PROVE NetInv
        OBVIOUS
    <2>1. DOMAIN arp = {}
        BY DEF NetInit
    <2>2. CacheFits
        BY <2>1, FS_EmptySet, NetAssumption DEF CacheFits
    <2> QED BY <2>2 DEF NetInit, NetInv, PendingKnown, DhcpKnown, OffersKnown, RepliesAnswer,
                        PendingIsSound, BoundToWhatWasRequested
<1>2. NetInv /\ [NetNext]_netVars => NetInv'
    <2> SUFFICES ASSUME NetInv, [NetNext]_netVars PROVE NetInv'
        OBVIOUS
    <2> USE DEF NetInv
    <2>0. CASE UNCHANGED netVars
        BY <2>0 DEF netVars, CacheFits, PendingKnown, DhcpKnown, OffersKnown, RepliesAnswer,
                    PendingIsSound, BoundToWhatWasRequested, GetMacFromCache
    <2>1. ASSUME NEW d \in Machines \cup Outside, SendUDP(d) PROVE NetInv'
        <3>1. CacheFits' /\ DhcpKnown' /\ OffersKnown' /\ RepliesAnswer' /\ BoundToWhatWasRequested'
            BY <2>1 DEF SendUDP, CacheFits, DhcpKnown, OffersKnown, RepliesAnswer,
                        BoundToWhatWasRequested
        <3>2. PendingKnown'
            BY <2>1 DEF SendUDP, PendingKnown, Queued
        <3>3. PendingIsSound'
            BY <2>1 DEF SendUDP, PendingIsSound, Queued, GetMacFromCache
        <3> QED BY <3>1, <3>2, <3>3
    <2>2. ASSUME NEW d \in Machines \cup Outside, SendTCPSegment(d) PROVE NetInv'
        <3>1. CacheFits' /\ DhcpKnown' /\ OffersKnown' /\ RepliesAnswer' /\ BoundToWhatWasRequested'
            BY <2>2 DEF SendTCPSegment, CacheFits, DhcpKnown, OffersKnown, RepliesAnswer,
                        BoundToWhatWasRequested
        <3>2. PendingKnown' /\ PendingIsSound'
            BY <2>2 DEF SendTCPSegment, PendingIsSound, Queued, PendingKnown
        <3> QED BY <3>1, <3>2
    <2>3. ASSUME NEW m \in Machines, HandleARP(m) PROVE NetInv'
        <3>1. DhcpKnown' /\ OffersKnown' /\ RepliesAnswer' /\ BoundToWhatWasRequested'
            BY <2>3 DEF HandleARP, DhcpKnown, OffersKnown, RepliesAnswer, BoundToWhatWasRequested
        <3>2. arp' = UpdateArpCache(m, m) /\ card' = card
            BY <2>3 DEF HandleARP
        <3>3. PendingKnown'
            BY <2>3 DEF HandleARP, PendingKnown
        <3>4. CacheFits'
            BY <3>2, CacheGrowth
        <3>5. ASSUME pending'.valid, ~pending'.left
              PROVE  ~GetMacFromCache(NextHop(card, pending.target))' /\ pending' = pending
            <4>1. pending' = pending /\ ~(pending.valid /\ NextHop(card, pending.target) = m)
                BY <3>5, <2>3 DEF HandleARP, PendingKnown
            <4>2. ~GetMacFromCache(NextHop(card, pending.target))
                BY <4>1, <3>5 DEF PendingIsSound
            <4> QED BY <4>1, <4>2, <3>2, <3>5, CacheGrowth DEF GetMacFromCache
        <3>6. readFreed' => Cardinality(DOMAIN arp') = ArpSize
            BY <2>3, <3>2, CacheGrowth DEF HandleARP, PendingIsSound
        <3> QED BY <3>1, <3>2, <3>3, <3>4, <3>5, <3>6 DEF PendingIsSound
    <2>4. ASSUME NEW a \in Machines \cup Outside, HandleIP(a) PROVE NetInv'
        <3>1. DhcpKnown' /\ OffersKnown' /\ RepliesAnswer' /\ BoundToWhatWasRequested'
            BY <2>4 DEF HandleIP, DhcpKnown, OffersKnown, RepliesAnswer, BoundToWhatWasRequested
        <3>2. PICK mac : arp' = UpdateArpCache(ntohl(a), mac)
            BY <2>4 DEF HandleIP
        <3>3. PendingKnown' /\ pending'.valid = pending.valid /\ pending'.target = pending.target
            BY <2>4 DEF HandleIP, PendingKnown, LeftIf
        <3>4. CacheFits'
            BY <3>2, CacheGrowth
        <3>5. ASSUME pending'.valid, ~pending'.left
              PROVE  ~GetMacFromCache(NextHop(card, pending.target))'
            <4>1. ~pending.left /\ NextHop(card, pending.target) # ntohl(a)
                BY <3>3, <3>5, <2>4 DEF HandleIP, PendingKnown, LeftIf
            <4>2. ~GetMacFromCache(NextHop(card, pending.target))
                BY <4>1, <3>5, <3>3 DEF PendingIsSound
            <4>3. card' = card
                BY <2>4 DEF HandleIP
            <4> QED BY <4>1, <4>2, <4>3, <3>2, <3>3, <3>5, CacheGrowth DEF GetMacFromCache
        <3>6. readFreed' => Cardinality(DOMAIN arp') = ArpSize
            BY <2>4, <3>2, CacheGrowth DEF HandleIP, PendingIsSound
        <3> QED BY <3>1, <3>3, <3>4, <3>5, <3>6 DEF PendingIsSound
    <2>5. ASSUME SendDHCPDiscover PROVE NetInv'
        BY <2>5 DEF SendDHCPDiscover, CacheFits, PendingKnown, DhcpKnown, OffersKnown,
                    RepliesAnswer, PendingIsSound, BoundToWhatWasRequested, GetMacFromCache
    <2>6. ASSUME NEW s \in Servers, ServerReplies(s) PROVE NetInv'
        <3>1. CacheFits' /\ PendingKnown' /\ DhcpKnown' /\ PendingIsSound' /\ BoundToWhatWasRequested'
            BY <2>6 DEF ServerReplies, CacheFits, PendingKnown, DhcpKnown, PendingIsSound,
                        BoundToWhatWasRequested, GetMacFromCache
        <3>2. OffersKnown' /\ RepliesAnswer'
            BY <2>6, NetAssumption DEF ServerReplies, OffersKnown, RepliesAnswer
        <3> QED BY <3>1, <3>2
    <2>7. ASSUME NEW r \in replies, HandleDHCP(r) PROVE NetInv'
        <3>1. CASE /\ dhcp.state = "DISCOVER_SENT" /\ r.type = "OFFER"
                   /\ SendDHCPRequest(r.ip)
                   /\ UNCHANGED <<arp, pending, card, replies, readFreed>>
            <4>1. CacheFits' /\ PendingKnown' /\ OffersKnown' /\ PendingIsSound'
                BY <3>1 DEF CacheFits, PendingKnown, OffersKnown, PendingIsSound, GetMacFromCache
            <4>2. DhcpKnown' /\ BoundToWhatWasRequested'
                BY <3>1 DEF SendDHCPRequest, DhcpKnown, OffersKnown, BoundToWhatWasRequested
            <4>3. RepliesAnswer'
                \* No acknowledgement exists yet: it would name the address zero.
                BY <3>1 DEF RepliesAnswer, DhcpKnown
            <4> QED BY <4>1, <4>2, <4>3
        <3>2. CASE /\ dhcp.state = "REQUEST_SENT" /\ r.type = "ACK"
                   /\ card' = [ip |-> r.ip, masked |-> TRUE, gw |-> Router]
                   /\ dhcp' = [dhcp EXCEPT !.state = "BOUND"]
                   /\ pending' = LeftIf(pending, TRUE)
                   /\ UNCHANGED <<arp, replies, readFreed>>
            <4>1. CacheFits' /\ PendingKnown' /\ OffersKnown'
                BY <3>2 DEF CacheFits, PendingKnown, OffersKnown, LeftIf
            <4>2. DhcpKnown' /\ BoundToWhatWasRequested' /\ RepliesAnswer'
                BY <3>2 DEF DhcpKnown, RepliesAnswer, BoundToWhatWasRequested
            <4>3. PendingIsSound'
                BY <3>2 DEF PendingIsSound, PendingKnown, LeftIf
            <4> QED BY <4>1, <4>2, <4>3
        <3> QED BY <2>7, <3>1, <3>2 DEF HandleDHCP
    <2> QED BY <2>0, <2>1, <2>2, <2>3, <2>4, <2>5, <2>6, <2>7 DEF NetNext
<1> QED BY <1>1, <1>2, PTL DEF NetSpec

\* A packet waits only for a hardware address that is not known, and its payload is
\* copied before it is freed until the cache is full (HandleARP, SendUDP): for a
\* cache of any size, any machines and any order of frames.
THEOREM PacketsWaitForTheUnknown == NetSpec => []PendingIsSound
<1>1. NetInv => PendingIsSound
    BY DEF NetInv
<1> QED BY <1>1, NetInvariance, PTL

\* The address the card uses is the one of the last request (HandleDHCP), for any
\* number of servers whose replies are repeated and reordered at will.
THEOREM AddressWasRequested == NetSpec => []BoundToWhatWasRequested
<1>1. NetInv => BoundToWhatWasRequested
    BY DEF NetInv
<1> QED BY <1>1, NetInvariance, PTL

-----------------------------------------------------------------------------
(***************************************************************************)
(* The socket table of TCP.                                                *)
(***************************************************************************)
Fields == DOMAIN FreshSocket
IsOpen(k) == k.alloc /\ k.state # "CLOSED" /\ k.peer # NoPeer
SameAddress(k, l) == k.port = l.port /\ k.peer = l.peer

\* Every local port tells whose it can be: the server's, or the one Connects makes
\* of the number of the socket.
TablesKnown ==
    /\ DOMAIN sock = Slots
    /\ \A s \in Slots : DOMAIN sock[s] = Fields /\ sock[s].port \in {0, Http, 40000 + s}
    /\ \A s \in Slots : sock[s].state = "LISTEN" => sock[s].port = Http
    /\ handle \in [FDs -> 0..Sockets]

\* OneSocketPerConnection with the free sockets in it: before an open socket there
\* is not even a free one that keeps its addresses.
ConnectionsApart ==
    \A s, t \in Slots :
        s # t /\ IsOpen(sock[s]) /\ SameAddress(sock[s], sock[t]) => t > s /\ ~IsOpen(sock[t])

TcpInv == TablesKnown /\ ConnectionsApart

\* What the handlers do with a socket that was found: the addresses stay, and a
\* closed socket stays closed.
Stays(k, l) ==
    /\ DOMAIN l = Fields /\ SameAddress(k, l)
    /\ l.state = "LISTEN" => k.state = "LISTEN"
    /\ IsOpen(l) => IsOpen(k)

LEMMA FieldsAre ==
    Fields = {"alloc", "state", "port", "peer", "my", "target", "ring", "ooo", "rd", "over", "sent"}
BY DEF Fields, FreshSocket

\* Storing data changes neither addresses nor state.
LEMMA DataStays ==
    ASSUME NEW k, DOMAIN k = Fields, NEW g
    PROVE  /\ DOMAIN ReceiveData(k, g) = Fields /\ SameAddress(k, ReceiveData(k, g))
           /\ ReceiveData(k, g).alloc = k.alloc /\ ReceiveData(k, g).state = k.state
<1> DEFINE Same(l) == /\ DOMAIN l = Fields /\ SameAddress(k, l)
                      /\ l.alloc = k.alloc /\ l.state = k.state
<1>0. /\ {"alloc", "state", "port", "peer"} \subseteq Fields
      /\ {"target", "ring", "over", "ooo"} \subseteq Fields
    BY FieldsAre
<1>1. ASSUME NEW l, Same(l), NEW a, NEW b, NEW c, NEW d
      PROVE  Same([l EXCEPT !.target = a, !.ring = b, !.over = c, !.ooo = d])
    BY <1>0, <1>1 DEF SameAddress
<1>2. ASSUME NEW l, Same(l), NEW a, NEW b, NEW c
      PROVE  Same([l EXCEPT !.target = a, !.ring = b, !.over = c])
    BY <1>0, <1>2 DEF SameAddress
<1>3. ASSUME NEW l, Same(l), NEW d PROVE Same([l EXCEPT !.ooo = d])
    BY <1>0, <1>3 DEF SameAddress
<1>4. Same(k)
    BY DEF SameAddress
<1> HIDE DEF Same
<1>5. Same(AddOOOSegment(k, g))
    BY <1>0, <1>4 DEF AddOOOSegment, SameAddress, Same
<1>6. Same(PutBytes(k, g.from, g.len))
    <2>1. PICK a, b, c :
                   /\ a = Plus(k.target, g.len)
                   /\ b = Newest(k.ring \o Bytes(g.from, g.len))
                   /\ c = (k.over \/ Len(k.ring \o Bytes(g.from, g.len)) >= RingSize)
        OBVIOUS
    <2>2. PutBytes(k, g.from, g.len) = [k EXCEPT !.target = a, !.ring = b, !.over = c]
        BY <2>1, Zenon DEF PutBytes
    <2>3. Same([k EXCEPT !.target = a, !.ring = b, !.over = c])
        BY <1>2, <1>4, Zenon
    <2> QED BY <2>2, <2>3, Zenon
<1>7. Same(ProcessOOOList(PutBytes(k, g.from, g.len)))
    BY <1>1, <1>6, Zenon DEF ProcessOOOList
<1>8. Same(ReceiveData(k, g))
    BY <1>4, <1>5, <1>7, Zenon DEF ReceiveData
<1> QED BY <1>8 DEF Same

LEMMA EstablishedStays ==
    ASSUME NEW k, DOMAIN k = Fields, k.state # "CLOSED", NEW g
    PROVE  /\ DOMAIN Established(k, g).k = Fields /\ SameAddress(k, Established(k, g).k)
           /\ Established(k, g).k.alloc = k.alloc
           /\ Established(k, g).k.state # "LISTEN" \/ Established(k, g).k.state = k.state
<1> DEFINE Same(l) == /\ DOMAIN l = Fields /\ SameAddress(k, l) /\ l.alloc = k.alloc
                      /\ l.state # "LISTEN" \/ l.state = k.state
<1>0. {"alloc", "state", "port", "peer", "my", "sent", "target"} \subseteq Fields
    BY FieldsAre
<1>1. ASSUME NEW l, Same(l), NEW n PROVE Same(Counted(l, n))
    BY <1>0, <1>1 DEF SameAddress, Counted
<1>2. ASSUME NEW l, Same(l) PROVE Same([l EXCEPT !.state = "FIN_WAIT_1"])
    BY <1>0, <1>2 DEF SameAddress
<1>3. ASSUME NEW l, Same(l)
      PROVE  Same([l EXCEPT !.target = Plus(@, 1), !.state = "LAST_ACK"])
    BY <1>0, <1>3 DEF SameAddress
<1>4. Same(k)
    BY DEF SameAddress
<1>5. Same(ReceiveData(k, g))
    BY DataStays DEF SameAddress
<1>6. PICK got : got = IF g.len > 0 THEN ReceiveData(k, g) ELSE k
    OBVIOUS
<1>7. Same(got)
    BY <1>4, <1>5, <1>6, Zenon
<1>8. PICK served : served = [Counted(Counted(got, ResponseLen), 1) EXCEPT !.state = "FIN_WAIT_1"]
    OBVIOUS
<1>9. Same(Counted(got, ResponseLen))
    BY <1>1, <1>7
<1>10. Same(Counted(Counted(got, ResponseLen), 1))
    BY <1>1, <1>9
<1>11. Same(served)
    BY <1>2, <1>8, <1>10, Zenon
<1>12. \E after : /\ after \in {served, got}
                  /\ Established(k, g).k \in {after, [after EXCEPT !.target = Plus(@, 1), !.state = "LAST_ACK"]}
    BY <1>6, <1>8 DEF Established
<1>13. PICK after : /\ after \in {served, got}
                    /\ Established(k, g).k \in {after, [after EXCEPT !.target = Plus(@, 1), !.state = "LAST_ACK"]}
    BY <1>12
<1>14. Same(after)
    BY <1>7, <1>11, <1>13
<1>15. Same(Established(k, g).k)
    <2>1. Same([after EXCEPT !.target = Plus(@, 1), !.state = "LAST_ACK"])
        BY <1>3, <1>14
    <2> QED BY <1>13, <1>14, <2>1, Zenon
<1> QED BY <1>15

LEMMA HandledStays ==
    ASSUME NEW k, DOMAIN k = Fields, NEW g
    PROVE  Stays(k, Handled(k, g).k)
<1>0. {"alloc", "state", "port", "peer", "my", "sent", "target", "ring", "ooo", "rd", "over"} \subseteq Fields
    BY FieldsAre
<1>1. Stays(k, k)
    BY DEF Stays, SameAddress
<1>2. Stays(k, FreeSocket(k))
    BY <1>0 DEF Stays, SameAddress, FreeSocket, IsOpen
<1>3. ASSUME k.state = "SYN_SENT" PROVE Stays(k, Synack(k, g).k)
    BY <1>0, <1>3 DEF Stays, SameAddress, Synack, Advance, Counted, IsOpen
<1>4. ASSUME k.state = "SYN_SENT" PROVE Stays(k, SameTime(k, g).k)
    BY <1>0, <1>4 DEF Stays, SameAddress, SameTime, Counted, IsOpen
<1>5. ASSUME NEW l, DOMAIN l = Fields, SameAddress(k, l), l.alloc = k.alloc, l.state = "ESTABLISHED",
             k.state # "CLOSED"
      PROVE  Stays(k, Established(l, g).k)
    BY <1>5, EstablishedStays DEF Stays, SameAddress, IsOpen
<1>6. ASSUME k.state = "ESTABLISHED" PROVE Stays(k, Established(k, g).k)
    BY <1>5, <1>6 DEF SameAddress
<1>7. ASSUME k.state = "SYN_RCVD" PROVE Stays(k, Established([k EXCEPT !.state = "ESTABLISHED"], g).k)
    BY <1>0, <1>5, <1>7 DEF SameAddress
<1>8. ASSUME k.state = "FIN_WAIT_1" PROVE Stays(k, [k EXCEPT !.state = "FIN_WAIT_2"])
    BY <1>0, <1>8 DEF Stays, SameAddress, IsOpen
<1>9. [[k |-> k, out |-> {}] EXCEPT !.k.state = "FIN_WAIT_2"].k = [k EXCEPT !.state = "FIN_WAIT_2"]
    OBVIOUS
<1> QED BY <1>1, <1>2, <1>3, <1>4, <1>6, <1>7, <1>8, <1>9 DEF Handled

\* A step that writes one socket keeps the invariant if the socket keeps its
\* addresses and is no more open than before, has the port of its own number, has
\* no peer, or is the first free one for a connection that nobody has.
FirstFree(s, k) ==
    /\ \A t \in Slots : t < s => sock[t].alloc
    /\ \A t \in Slots : sock[t].alloc => ~SameAddress(k, sock[t])
Fits(s, k) ==
    /\ DOMAIN k = Fields /\ k.port \in {0, Http, 40000 + s}
    /\ k.state = "LISTEN" => k.port = Http
    /\ \/ SameAddress(sock[s], k) /\ (IsOpen(k) => IsOpen(sock[s]))
       \/ k.port = 40000 + s
       \/ k.peer = NoPeer
       \/ FirstFree(s, k)

LEMMA WritesOneSocket ==
    ASSUME TcpInv, NEW s \in Slots, NEW k, sock' = [sock EXCEPT ![s] = k],
           handle' \in [FDs -> 0..Sockets], Fits(s, k)
    PROVE  TcpInv'
<1>0. Slots \subseteq Nat
    BY TcpAssumption DEF Slots
<1>1. /\ DOMAIN sock' = Slots
      /\ sock'[s] = k /\ \A t \in Slots \ {s} : sock'[t] = sock[t]
    BY DEF TcpInv, TablesKnown
<1>2. TablesKnown'
    BY <1>1 DEF TcpInv, TablesKnown, Fits
<1>3. ASSUME NEW t \in Slots, t # s PROVE sock[t].port # 40000 + s \/ sock[t].port = Http
    BY <1>0, <1>3 DEF TcpInv, TablesKnown, Http
<1>4. ASSUME NEW t \in Slots, NEW u \in Slots, t # u,
             IsOpen(sock'[t]), SameAddress(sock'[t], sock'[u])
      PROVE  u > t /\ ~IsOpen(sock'[u])
    <2>1. CASE t # s /\ u # s
        BY <1>1, <1>4, <2>1 DEF TcpInv, ConnectionsApart
    <2>2. CASE SameAddress(sock[s], k) /\ (IsOpen(k) => IsOpen(sock[s]))
        BY <1>1, <1>4, <2>2 DEF TcpInv, ConnectionsApart, SameAddress
    <2>3. CASE k.port = 40000 + s
        BY <1>0, <1>1, <1>3, <1>4, <2>1, <2>3 DEF SameAddress, Http
    <2>4. CASE k.peer = NoPeer
        BY <1>1, <1>4, <2>1, <2>4 DEF SameAddress, IsOpen
    <2>5. CASE FirstFree(s, k)
        <3>1. CASE t = s
            <4>1. sock'[u] = sock[u] /\ ~sock[u].alloc
                BY <1>1, <1>4, <2>5, <3>1 DEF FirstFree
            <4>2. ~(u < s)
                BY <2>5, <4>1 DEF FirstFree
            <4> QED BY <1>0, <1>4, <3>1, <4>1, <4>2 DEF IsOpen
        <3>2. CASE u = s
            BY <1>1, <1>4, <2>5, <3>2 DEF IsOpen, SameAddress, FirstFree
        <3> QED BY <2>1, <3>1, <3>2
    <2> QED BY <2>2, <2>3, <2>4, <2>5 DEF Fits
<1>5. ConnectionsApart'
    BY <1>4 DEF ConnectionsApart, IsOpen, SameAddress
<1> QED BY <1>2, <1>5 DEF TcpInv

\* AllocateSocket closes the socket and keeps its addresses; Allocates takes the
\* first free one.
LEMMA AllocatedStays ==
    ASSUME TcpInv, NEW s \in Slots, Allocates(s)
    PROVE  /\ DOMAIN AllocateSocket(s) = Fields /\ Stays(sock[s], AllocateSocket(s))
           /\ AllocateSocket(s).state = "CLOSED"
           /\ \A t \in Slots : t < s => sock[t].alloc
<1>0. {"alloc", "state", "port", "peer", "ring", "rd", "over", "sent"} \subseteq Fields
    BY FieldsAre
<1>1. DOMAIN sock[s] = Fields
    BY DEF TcpInv, TablesKnown
<1>2. /\ DOMAIN AllocateSocket(s) = Fields /\ Stays(sock[s], AllocateSocket(s))
      /\ AllocateSocket(s).state = "CLOSED"
    BY <1>0, <1>1 DEF AllocateSocket, Stays, SameAddress, IsOpen
<1>3. FreeSlots \subseteq Nat /\ FreeSlots # {} /\ s = Min(FreeSlots)
    BY TcpAssumption DEF Allocates, FreeSlots, Slots
<1>4. \A x \in FreeSlots : s <= x
    BY <1>3, LeastMember
<1>5. Slots \subseteq Nat
    BY TcpAssumption DEF Slots
<1>6. ASSUME NEW t \in Slots, t < s PROVE sock[t].alloc
    <2>1. t \notin FreeSlots
        BY <1>4, <1>5, <1>6
    <2> QED BY <2>1 DEF FreeSlots
<1> QED BY <1>2, <1>6

\* A segment opens a socket only if nobody has the connection.
LEMMA HandleTCPKeeps ==
    ASSUME TcpInv, NEW p \in Peers, NEW g, HandleTCP(p, g)
    PROVE  TcpInv'
<1>0. handle' \in [FDs -> 0..Sockets]
    <2>1. handle' = handle
        BY DEF HandleTCP
    <2> QED BY <2>1 DEF TcpInv, TablesKnown
<1>a. {"alloc", "state", "port", "peer", "my", "target", "sent"} \subseteq Fields
    BY FieldsAre
<1>b. Slots \subseteq Nat
    BY TcpAssumption DEF Slots
<1>1. CASE GetSocket(conn[p].port, p) # {}
    <2>1. PICK s : s = Min(GetSocket(conn[p].port, p)) /\ sock' = [sock EXCEPT ![s] = Handled(sock[s], g).k]
        BY <1>1 DEF HandleTCP
    <2>2. GetSocket(conn[p].port, p) \subseteq Nat
        BY <1>b DEF GetSocket
    <2>3. s \in GetSocket(conn[p].port, p)
        BY <1>1, <2>1, <2>2, LeastMember
    <2>4. s \in Slots
        BY <2>3 DEF GetSocket
    <2>5. DOMAIN sock[s] = Fields /\ sock[s].port \in {0, Http, 40000 + s}
          /\ (sock[s].state = "LISTEN" => sock[s].port = Http)
        BY <2>4 DEF TcpInv, TablesKnown
    <2>6. Stays(sock[s], Handled(sock[s], g).k)
        BY <2>5, HandledStays
    <2>7. PICK k : k = Handled(sock[s], g).k
        OBVIOUS
    <2>8. Fits(s, k)
        BY <2>5, <2>6, <2>7 DEF Stays, SameAddress, Fits
    <2>9. sock' = [sock EXCEPT ![s] = k]
        BY <2>1, <2>7, Zenon
    <2> QED BY <1>0, <2>4, <2>8, <2>9, WritesOneSocket, Zenon
<1>2. CASE GetSocket(conn[p].port, p) = {}
    <2>1. PICK s \in Slots :
            /\ Allocates(s) /\ GetListener(conn[p].port) # {}
            /\ LET k == [AllocateSocket(s) EXCEPT !.port = conn[p].port, !.peer = p, !.state = "SYN_RCVD",
                                                  !.target = Plus(g.seq, 1), !.my = HostISN]
               IN sock' = [sock EXCEPT ![s] = Counted(k, 1)]
        BY <1>2 DEF HandleTCP
    <2>2. PICK k : k = Counted([AllocateSocket(s) EXCEPT !.port = conn[p].port, !.peer = p, !.state = "SYN_RCVD",
                                                        !.target = Plus(g.seq, 1), !.my = HostISN], 1)
        OBVIOUS
    <2>3. sock' = [sock EXCEPT ![s] = k]
        BY <2>1, <2>2, Zenon
    <2>4. DOMAIN AllocateSocket(s) = Fields /\ \A t \in Slots : t < s => sock[t].alloc
        BY <2>1, AllocatedStays
    <2>5. DOMAIN k = Fields /\ k.port = conn[p].port /\ k.peer = p /\ k.state = "SYN_RCVD"
        BY <1>a, <2>2, <2>4 DEF Counted
    <2>6. conn[p].port = Http
        BY <2>1 DEF GetListener, TcpInv, TablesKnown
    <2>7. ASSUME NEW t \in Slots, sock[t].alloc PROVE ~SameAddress(k, sock[t])
        BY <1>2, <2>5, <2>7 DEF GetSocket, SameAddress
    <2>8. Fits(s, k)
        BY <2>4, <2>5, <2>6, <2>7 DEF Fits, FirstFree
    <2> QED BY <1>0, <2>3, <2>8, WritesOneSocket, Zenon
<1> QED BY <1>1, <1>2

LEMMA ConnectsKeeps ==
    ASSUME TcpInv, NEW s \in Slots, NEW k, NEW p, DOMAIN k = Fields, Connects(s, k, p),
           handle' \in [FDs -> 0..Sockets]
    PROVE  TcpInv'
<1>0. {"alloc", "state", "port", "peer", "my", "sent"} \subseteq Fields
    BY FieldsAre
<1>1. PICK l : l = [k EXCEPT !.state = "SYN_SENT", !.peer = p, !.port = 40000 + s, !.my = HostISN, !.sent = 0]
    OBVIOUS
<1>2. sock' = [sock EXCEPT ![s] = l]
    BY <1>1 DEF Connects
<1>3. DOMAIN l = Fields /\ l.port = 40000 + s /\ l.state = "SYN_SENT"
    BY <1>0, <1>1
<1>4. Fits(s, l)
    BY <1>3 DEF Fits, Http
<1> QED BY <1>2, <1>4, WritesOneSocket, Zenon

\* A step that leaves the table alone, or changes fields of a socket that carry
\* neither its addresses nor its state.
LEMMA StaysKeeps ==
    ASSUME TcpInv, NEW s \in Slots, NEW k, Stays(sock[s], k), sock' = [sock EXCEPT ![s] = k],
           handle' \in [FDs -> 0..Sockets]
    PROVE  TcpInv'
<1>1. DOMAIN sock[s] = Fields /\ sock[s].port \in {0, Http, 40000 + s}
      /\ (sock[s].state = "LISTEN" => sock[s].port = Http)
    BY DEF TcpInv, TablesKnown
<1>2. Fits(s, k)
    BY <1>1 DEF Stays, SameAddress, Fits
<1> QED BY <1>2, WritesOneSocket, Zenon

LEMMA TableInit == TcpInit => TcpInv
<1> SUFFICES ASSUME TcpInit PROVE TcpInv
    OBVIOUS
<1>1. /\ DOMAIN sock = Slots
      /\ \A s \in Slots : sock[s] = FreshSocket
    BY DEF TcpInit
<1>2. ~FreshSocket.alloc /\ FreshSocket.port = 0 /\ FreshSocket.state = "CLOSED"
    BY DEF FreshSocket
<1>3. handle \in [FDs -> 0..Sockets]
    BY TcpAssumption DEF TcpInit
<1>4. TablesKnown
    BY <1>1, <1>2, <1>3 DEF TablesKnown, Fields
<1>5. ConnectionsApart
    BY <1>1, <1>2 DEF ConnectionsApart, IsOpen
<1> QED BY <1>4, <1>5 DEF TcpInv

LEMMA TableStep == TcpInv /\ [TcpNext]_tcpVars => TcpInv'
<1> SUFFICES ASSUME TcpInv, [TcpNext]_tcpVars PROVE TcpInv'
    OBVIOUS
<1>0. /\ handle \in [FDs -> 0..Sockets]
      /\ \A s \in Slots : DOMAIN sock[s] = Fields
      /\ {"alloc", "state", "port", "peer", "my", "target", "ring", "ooo", "rd", "over", "sent"} \subseteq Fields
    BY FieldsAre DEF TcpInv, TablesKnown
<1>1. ASSUME UNCHANGED <<sock, handle>> PROVE TcpInv'
    BY <1>1 DEF TcpInv, TablesKnown, ConnectionsApart, IsOpen, SameAddress
<1>2. ASSUME NEW p \in Peers, PeerHears(p) PROVE TcpInv'
    BY <1>1, <1>2 DEF PeerHears
<1>3. ASSUME NEW p \in Peers, NEW g, HandleTCP(p, g) PROVE TcpInv'
    BY <1>3, HandleTCPKeeps
<1>4. CASE TCPListen
    <2>1. PICK s \in Slots :
            /\ Allocates(s) /\ UNCHANGED handle
            /\ sock' = [sock EXCEPT ![s] = [AllocateSocket(s) EXCEPT !.state = "LISTEN", !.port = Http, !.peer = NoPeer]]
        BY <1>4 DEF TCPListen
    <2>2. PICK k : k = [AllocateSocket(s) EXCEPT !.state = "LISTEN", !.port = Http, !.peer = NoPeer]
        OBVIOUS
    <2>3. sock' = [sock EXCEPT ![s] = k]
        BY <2>1, <2>2, Zenon
    <2>4. DOMAIN k = Fields /\ k.port = Http /\ k.peer = NoPeer
        BY <1>0, <2>1, <2>2, AllocatedStays
    <2>5. Fits(s, k)
        BY <2>4 DEF Fits
    <2>6. handle' \in [FDs -> 0..Sockets]
        BY <1>0, <2>1
    <2> QED BY <2>3, <2>5, <2>6, WritesOneSocket, Zenon
<1>5. ASSUME NEW p, HandleDNS(p) PROVE TcpInv'
    <2>1. PICK s \in Slots : Allocates(s) /\ UNCHANGED handle
                             /\ Connects(s, [AllocateSocket(s) EXCEPT !.target = 0], p)
        BY <1>5 DEF HandleDNS
    <2>2. PICK k : k = [AllocateSocket(s) EXCEPT !.target = 0]
        OBVIOUS
    <2>3. DOMAIN k = Fields
        BY <1>0, <2>1, <2>2, AllocatedStays
    <2>4. Connects(s, k, p)
        BY <2>1, <2>2, Zenon
    <2> QED BY <1>0, <2>1, <2>3, <2>4, ConnectsKeeps
<1>6. ASSUME NEW f \in FDs, Sys_Socket(f) PROVE TcpInv'
    <2>1. PICK s \in Slots : /\ Allocates(s) /\ sock' = [sock EXCEPT ![s] = AllocateSocket(s)]
                             /\ handle' = [handle EXCEPT ![f] = s]
        BY <1>6 DEF Sys_Socket
    <2>2. handle' \in [FDs -> 0..Sockets]
        BY <1>0, <2>1 DEF Slots
    <2> QED BY <2>1, <2>2, AllocatedStays, StaysKeeps
<1>7. ASSUME NEW f \in FDs, handle[f] # 0 PROVE handle[f] \in Slots
    BY <1>0, <1>7, TcpAssumption DEF Slots
<1>8. ASSUME NEW f \in FDs, NEW p, Sys_Connect(f, p) PROVE TcpInv'
    <2>1. PICK s : s = handle[f] /\ s # 0 /\ Connects(s, sock[s], p) /\ UNCHANGED handle
        BY <1>8 DEF Sys_Connect
    <2>2. s \in Slots
        BY <1>7, <2>1
    <2> QED BY <1>0, <2>1, <2>2, ConnectsKeeps
<1>9. ASSUME NEW f \in FDs, SendTCPData(f) PROVE TcpInv'
    <2>1. PICK s : /\ s = handle[f] /\ s # 0 /\ UNCHANGED handle
                   /\ sock' = [sock EXCEPT ![s] = Counted(sock[s], WriteLen)]
        BY <1>9 DEF SendTCPData
    <2>2. s \in Slots
        BY <1>7, <2>1
    <2>3. Stays(sock[s], Counted(sock[s], WriteLen))
        BY <1>0, <2>2 DEF Stays, SameAddress, IsOpen, Counted
    <2> QED BY <1>0, <2>1, <2>2, <2>3, StaysKeeps
<1>10. ASSUME NEW f \in FDs, NEW n, TCPRecv(f, n) PROVE TcpInv'
    <2>1. PICK s : s = handle[f] /\ s # 0 /\ UNCHANGED handle
        BY <1>10 DEF TCPRecv
    <2>2. s \in Slots
        BY <1>7, <2>1
    <2>3. PICK a, b : sock' = [sock EXCEPT ![s].ring = a, ![s].rd = b]
        BY <1>10, <2>1, Zenon DEF TCPRecv
    <2>4. sock' = [sock EXCEPT ![s] = [sock[s] EXCEPT !.ring = a, !.rd = b]]
        BY <2>3
    <2>5. Stays(sock[s], [sock[s] EXCEPT !.ring = a, !.rd = b])
        BY <1>0, <2>2 DEF Stays, SameAddress, IsOpen
    <2> QED BY <1>0, <2>1, <2>2, <2>4, <2>5, StaysKeeps
<1>11. ASSUME NEW f \in FDs, CloseSocket(f) PROVE TcpInv'
    <2>1. PICK s : /\ s = handle[f] /\ s # 0 /\ handle' = [handle EXCEPT ![f] = 0]
                   /\ sock' = [sock EXCEPT ![s] = FreeSocket(sock[s])]
        BY <1>11 DEF CloseSocket
    <2>2. s \in Slots
        BY <1>7, <2>1
    <2>3. Stays(sock[s], FreeSocket(sock[s]))
        BY <1>0, <2>2 DEF Stays, SameAddress, IsOpen, FreeSocket
    <2>4. handle' \in [FDs -> 0..Sockets]
        BY <1>0, <2>1, TcpAssumption
    <2> QED BY <2>1, <2>2, <2>3, <2>4, StaysKeeps
<1>12. CASE UNCHANGED tcpVars
    BY <1>1, <1>12 DEF tcpVars
<1> QED
    BY <1>2, <1>3, <1>4, <1>5, <1>6, <1>8, <1>9, <1>10, <1>11, <1>12
       DEF TcpNext, TcpServes, TcpCalls, Hears, Peers

\* HandleTCP always finds the socket of the connection: however many connections
\* come and go on both sides, and whatever programs open, connect and close, no two
\* open sockets share their addresses, and a closed one that has kept the addresses
\* of an open one stands behind it.
THEOREM ConnectionsHaveOneSocket == TcpSpec => []OneSocketPerConnection
<1>1. TcpInv => OneSocketPerConnection
    BY DEF TcpInv, ConnectionsApart, OneSocketPerConnection, IsOpen, SameAddress
<1> QED BY <1>1, TableInit, TableStep, PTL DEF TcpSpec

-----------------------------------------------------------------------------
(***************************************************************************)
(* The stream of bytes.  A number may wrap, but a stream must not be so    *)
(* long that two of its bytes have the same number: segments of any age    *)
(* may arrive, and nothing else tells the two bytes apart.                 *)
(***************************************************************************)
StreamFits == StreamLen < SeqWrap

\* A segment in the list of the early ones is a piece of the stream.
Pieces ==
    {x \in [seq : Nat, from : 1..StreamLen, len : 1..StreamLen] :
        x.from + x.len <= StreamLen + 1 /\ x.seq = Plus(PeerISN, x.from)}

InOrder(k) ==
    /\ k.rd \in Nat /\ k.ring \in Seq(Nat)
    /\ \A i \in 1..Len(k.ring) : k.ring[i] = k.rd + i
    /\ k.target = Plus(PeerISN, 1 + k.rd + Len(k.ring))
    /\ k.rd + Len(k.ring) <= StreamLen

Received(k) ==
    /\ DOMAIN k = Fields
    /\ k.over \in BOOLEAN /\ k.ooo \in Seq(Pieces)
    /\ ~k.over => InOrder(k)

\* Before the handshake is through, and in a free socket, there are no data of an
\* earlier connection.
Quiet == {"CLOSED", "LISTEN", "SYN_SENT", "SYN_RCVD"}
Streams(k) ==
    /\ DOMAIN k = Fields
    /\ ~k.alloc => k.state \in Quiet
    /\ k.state \in Quiet => k.ring = <<>> /\ k.ooo = <<>> /\ k.rd = 0 /\ k.over = FALSE
    /\ k.state = "SYN_RCVD" => k.target = Plus(PeerISN, 1)
    /\ k.state = "ESTABLISHED" => Received(k)

StreamInv == TcpInv /\ \A s \in Slots : Streams(sock[s])

\* What HandleTCP is given.
PeersSend(g) ==
    /\ g.len \in Nat
    /\ g.len > 0 => [seq |-> g.seq, from |-> g.from, len |-> g.len] \in Pieces
    /\ g.syn => g.seq = Plus(PeerISN, 0)

\* The numbers of the bytes.
LEMMA NumbersAdd ==
    ASSUME NEW m \in Nat, NEW n \in Nat
    PROVE  Plus(Plus(PeerISN, m), n) = Plus(PeerISN, m + n) /\ Plus(PeerISN, m) \in Nat
<1>1. PICK a \in Nat : a = PeerISN + m
    BY TcpAssumption
<1>2. SeqWrap \in Nat \ {0} /\ PeerISN \in Nat
    BY TcpAssumption
<1>3. ((a % SeqWrap) + n) % SeqWrap = (a + n) % SeqWrap
    BY <1>2, RemainderOfSum
<1>4. a + n = PeerISN + (m + n) /\ a % SeqWrap \in Nat
    BY <1>1, <1>2
<1> QED BY <1>1, <1>3, <1>4 DEF Plus

LEMMA NumbersDiffer ==
    ASSUME StreamFits, NEW m \in 1..(StreamLen + 1), NEW n \in 1..(StreamLen + 1),
           Plus(PeerISN, m) = Plus(PeerISN, n)
    PROVE  m = n
<1>1. SeqWrap \in Nat \ {0} /\ PeerISN \in Nat /\ StreamLen \in Nat /\ StreamLen < SeqWrap
    BY TcpAssumption DEF StreamFits
<1>2. ASSUME NEW a \in 1..(StreamLen + 1), NEW b \in 1..(StreamLen + 1), a <= b,
             Plus(PeerISN, a) = Plus(PeerISN, b)
      PROVE  a = b
    <2>1. PICK c \in Nat, d \in Nat : c = PeerISN + a /\ d = b - a
        BY <1>1, <1>2
    <2>2. c + d = PeerISN + b /\ d < SeqWrap
        BY <1>1, <1>2, <2>1
    <2>3. (c + d) % SeqWrap = c % SeqWrap
        BY <1>2, <2>1, <2>2 DEF Plus
    <2>4. d = 0
        BY <1>1, <2>2, <2>3, RemaindersDiffer
    <2> QED BY <2>1, <2>4
<1>3. m <= n \/ n <= m
    BY <1>1
<1> QED BY <1>2, <1>3

\* Every segment of a peer is a piece of its stream, or without data.
LEMMA SegmentsArePieces ==
    ASSUME NEW p, NEW g \in PeerSegments(p)
    PROVE  PeersSend(g)
<1>0. StreamLen \in Nat \ {0} /\ MaxSeg \in Nat \ {0} /\ SeqWrap \in Nat \ {0} /\ PeerISN \in Nat
    BY TcpAssumption
<1>1. ASSUME NEW syn, NEW ack, NEW fin, NEW ackn, NEW from \in 0..(StreamLen + 1), NEW len \in Nat,
             len > 0 => from >= 1 /\ from + len <= StreamLen + 1,
             syn => from = 0, len > 0 => ~syn
      PROVE  PeersSend(Segment(syn, ack, fin, ackn, from, len))
    <2>1. PICK h : h = Segment(syn, ack, fin, ackn, from, len)
        OBVIOUS
    <2>2. h.len = len /\ h.from = from /\ h.syn = syn /\ h.seq = Plus(PeerISN, IF syn THEN 0 ELSE from)
        BY <2>1 DEF Segment
    <2>3. ASSUME len > 0 PROVE [seq |-> h.seq, from |-> h.from, len |-> h.len] \in Pieces
        <3>1. h.seq = Plus(PeerISN, from) /\ h.seq \in Nat
            BY <1>1, <2>2, <2>3, NumbersAdd
        <3>2. from \in 1..StreamLen /\ len \in 1..StreamLen /\ from + len <= StreamLen + 1
            BY <1>0, <1>1, <2>3
        <3> QED BY <2>2, <3>1, <3>2 DEF Pieces
    <2>4. PeersSend(h)
        BY <1>1, <2>2, <2>3 DEF PeersSend
    <2> QED BY <2>1, <2>4
<1>2. CASE g = Segment(TRUE, FALSE, FALSE, 0, 0, 0)
    BY <1>2 DEF PeersSend, Segment
<1>3. CASE \E a : g = Segment(TRUE, TRUE, FALSE, a, 0, 0)
    BY <1>3 DEF PeersSend, Segment
<1>4. CASE \E x \in conn[p].acks \X (1..StreamLen) \X (0..MaxSeg) :
             x[2] + x[3] <= StreamLen + 1 /\ g = Segment(FALSE, TRUE, FALSE, x[1], x[2], x[3])
    <2>1. PICK x \in conn[p].acks \X (1..StreamLen) \X (0..MaxSeg) :
             x[2] + x[3] <= StreamLen + 1 /\ g = Segment(FALSE, TRUE, FALSE, x[1], x[2], x[3])
        BY <1>4
    <2>2. PICK a, b, c : a = x[1] /\ b = x[2] /\ c = x[3]
        OBVIOUS
    <2>3. b \in 1..StreamLen /\ c \in 0..MaxSeg /\ b + c <= StreamLen + 1
        BY <2>1, <2>2
    <2>4. b \in 0..(StreamLen + 1) /\ c \in Nat /\ b >= 1
        BY <1>0, <2>3
    <2>5. PeersSend(Segment(FALSE, TRUE, FALSE, a, b, c))
        BY <1>1, <2>3, <2>4
    <2> QED BY <2>1, <2>2, <2>5
<1>5. CASE \E a : g = Segment(FALSE, TRUE, TRUE, a, StreamLen + 1, 0)
    BY <1>5 DEF PeersSend, Segment
<1>6. CASE \E a : g = Segment(FALSE, TRUE, TRUE, a, StreamLen, 1)
    <2>1. PICK a : g = Segment(FALSE, TRUE, TRUE, a, StreamLen, 1)
        BY <1>6
    <2>2. PICK b \in 0..(StreamLen + 1), c \in Nat : b = StreamLen /\ c = 1 /\ b >= 1 /\ b + c <= StreamLen + 1
        BY <1>0
    <2>3. PeersSend(Segment(FALSE, TRUE, TRUE, a, b, c))
        BY <1>1, <2>2
    <2> QED BY <2>1, <2>2, <2>3
<1>7. \/ g = Segment(TRUE, FALSE, FALSE, 0, 0, 0)
      \/ \E a : g = Segment(TRUE, TRUE, FALSE, a, 0, 0)
      \/ \E x \in conn[p].acks \X (1..StreamLen) \X (0..MaxSeg) :
             x[2] + x[3] <= StreamLen + 1 /\ g = Segment(FALSE, TRUE, FALSE, x[1], x[2], x[3])
      \/ \E a : g = Segment(FALSE, TRUE, TRUE, a, StreamLen + 1, 0)
      \/ \E a : g = Segment(FALSE, TRUE, TRUE, a, StreamLen, 1)
    BY Zenon DEF PeerSegments
<1> QED BY <1>2, <1>3, <1>4, <1>5, <1>6, <1>7

\* The segment that begins at the number that is expected begins at the byte that
\* is expected; its bytes go behind the ones that wait.
LEMMA PutInOrder ==
    ASSUME StreamFits, NEW k, Received(k), NEW x \in Pieces, x.seq = k.target
    PROVE  Received(PutBytes(k, x.from, x.len))
<1>0. {"target", "ring", "over", "ooo", "rd"} \subseteq Fields
    BY FieldsAre
<1>1. PICK f, n : f = x.from /\ n = x.len
    OBVIOUS
<1>2. f \in 1..StreamLen /\ n \in 1..StreamLen /\ f + n <= StreamLen + 1 /\ Plus(PeerISN, f) = k.target
    BY <1>1 DEF Pieces
<1>3. PICK all : all = k.ring \o Bytes(f, n)
    OBVIOUS
<1>4. PICK l : l = PutBytes(k, x.from, x.len)
    OBVIOUS
<1>5. /\ DOMAIN l = Fields /\ l.rd = k.rd /\ l.ooo = k.ooo
      /\ l.target = Plus(k.target, n) /\ l.ring = Newest(all)
      /\ l.over = (k.over \/ Len(all) >= RingSize)
    BY <1>0, <1>1, <1>3, <1>4 DEF PutBytes, Received
<1>6. l.over \in BOOLEAN /\ l.ooo \in Seq(Pieces)
    BY <1>5 DEF Received
<1>7. ASSUME ~l.over PROVE InOrder(l)
    <2>1. ~k.over /\ ~(Len(all) >= RingSize)
        BY <1>5, <1>7 DEF Received
    <2>2. PICK rd, ring, r : rd = k.rd /\ ring = k.ring /\ r = Len(k.ring)
        OBVIOUS
    <2>3. /\ rd \in Nat /\ ring \in Seq(Nat) /\ r \in Nat /\ r = Len(ring)
          /\ \A i \in 1..r : ring[i] = rd + i
          /\ k.target = Plus(PeerISN, 1 + rd + r) /\ rd + r <= StreamLen
        BY <2>1, <2>2 DEF Received, InOrder
    <2>4. StreamLen \in Nat
        BY TcpAssumption
    <2>5. f = 1 + rd + r
        <3>1. f \in 1..(StreamLen + 1) /\ 1 + rd + r \in 1..(StreamLen + 1)
            BY <1>2, <2>3, <2>4
        <3> QED BY <1>2, <2>3, <3>1, NumbersDiffer
    <2>6. PICK more : more = Bytes(f, n)
        OBVIOUS
    <2>7. f \in Nat /\ n \in Nat
        BY <1>2, <2>4
    <2>8. Len(more) = n /\ more \in Seq(Nat) /\ \A i \in 1..n : more[i] = f + i - 1
        BY <1>2, <2>6, <2>7 DEF Bytes
    <2>9. all = ring \o more
        BY <1>3, <2>2, <2>6
    <2>10. all \in Seq(Nat) /\ Len(all) = r + n
        <3>1. ring \in Seq(Nat) /\ more \in Seq(Nat)
            BY <2>3, <2>8
        <3>2. ring \o more \in Seq(Nat) /\ Len(ring \o more) = Len(ring) + Len(more)
            BY ONLY <3>1
        <3> QED BY <2>3, <2>8, <2>9, <3>2
    <2>11. ASSUME NEW i \in 1..(r + n) PROVE all[i] = rd + i
        <3>1. CASE i <= r
            <4>1. i \in 1..r
                BY <2>3, <2>7, <3>1
            <4>2. all[i] = ring[i]
                BY <2>3, <2>8, <2>9, <4>1
            <4> QED BY <2>3, <4>1, <4>2
        <3>2. CASE i > r
            <4>1. i - r \in 1..n /\ i \in Nat
                BY <2>3, <2>7, <3>2
            <4>2. all[i] = more[i - r]
                BY <2>3, <2>8, <2>9, <3>2, <4>1
            <4>3. more[i - r] = f + (i - r) - 1
                BY <2>8, <4>1
            <4> QED BY <2>3, <2>5, <4>1, <4>2, <4>3
        <3> QED BY <2>3, <2>7, <3>1, <3>2
    <2>12. l.ring = all
        <3>1. Len(all) < RingSize
            BY <2>1, <2>10, <2>3, <2>7, TcpAssumption
        <3> QED BY <1>5, <3>1 DEF Newest
    <2>13. l.target = Plus(PeerISN, 1 + rd + (r + n))
        <3>1. PICK m \in Nat : m = 1 + rd + r
            BY <2>3
        <3>2. Plus(Plus(PeerISN, m), n) = Plus(PeerISN, m + n)
            BY <2>7, NumbersAdd
        <3>3. m + n = 1 + rd + (r + n)
            BY <2>3, <2>7, <3>1
        <3> QED BY <1>5, <2>3, <3>1, <3>2, <3>3
    <2>14. rd + (r + n) <= StreamLen
        BY <1>2, <2>3, <2>4, <2>5
    <2> QED BY <1>5, <2>2, <2>3, <2>10, <2>11, <2>12, <2>13, <2>14 DEF InOrder
<1> QED BY <1>4, <1>5, <1>6, <1>7 DEF Received

\* A segment that comes too early is kept as it is.
LEMMA EarlyIsKept ==
    ASSUME NEW k, Received(k), NEW g, PeersSend(g), g.len > 0
    PROVE  Received(AddOOOSegment(k, g))
<1>0. {"target", "ring", "over", "ooo", "rd"} \subseteq Fields
    BY FieldsAre
<1>1. PICK x : x = [seq |-> g.seq, from |-> g.from, len |-> g.len]
    OBVIOUS
<1>2. x \in Pieces
    BY <1>1 DEF PeersSend
<1>3. PICK list : list = k.ooo
    OBVIOUS
<1>4. list \in Seq(Pieces) /\ Len(list) \in Nat
    BY <1>3 DEF Received
<1>5. PICK S : S = {i \in 1..Len(list) + 1 : i \in 1..Len(list) => list[i].seq > g.seq}
    OBVIOUS
<1>6. Len(list) + 1 \in S /\ S \subseteq Nat
    BY <1>4, <1>5
<1>7. PICK q : q = Min(S)
    OBVIOUS
<1>8. q \in 1..Len(list) + 1
    <2>1. q \in S
        BY <1>6, <1>7, LeastMember
    <2> QED BY <1>5, <2>1
<1>9. Inserted(list, g) = SubSeq(list, 1, q - 1) \o <<x>> \o SubSeq(list, q, Len(list))
    BY <1>1, <1>5, <1>7, Zenon DEF Inserted, InsertAt
<1>10. Inserted(list, g) \in Seq(Pieces)
    <2>1. SubSeq(list, 1, q - 1) \in Seq(Pieces) /\ SubSeq(list, q, Len(list)) \in Seq(Pieces)
        BY <1>4, <1>8
    <2>2. <<x>> \in Seq(Pieces)
        BY <1>2
    <2> QED BY <1>9, <2>1, <2>2
<1>11. PICK new : new = Inserted(list, g)
    OBVIOUS
<1>12. AddOOOSegment(k, g) = k \/ AddOOOSegment(k, g) = [k EXCEPT !.ooo = new]
    BY <1>3, <1>11, Zenon DEF AddOOOSegment
<1>13. Received([k EXCEPT !.ooo = new])
    BY <1>0, <1>10, <1>11 DEF Received, InOrder
<1> QED BY <1>12, <1>13

\* One turn of the loop of ProcessOOOList.
LEMMA NextInOrder ==
    ASSUME StreamFits, NEW k, Received(k), NEW x \in Pieces
    PROVE  Received(NextOOO(k, x))
<1>0. {"target", "ring", "over", "ooo", "rd"} \subseteq Fields
    BY FieldsAre
<1>1. PICK new : new = Append(k.ooo, x)
    OBVIOUS
<1>2. new \in Seq(Pieces)
    BY <1>1 DEF Received
<1>3. Received([k EXCEPT !.ooo = new])
    BY <1>0, <1>2 DEF Received, InOrder
<1>4. [k EXCEPT !.ooo = Append(@, x)] = [k EXCEPT !.ooo = new]
    BY <1>1
<1>5. \/ NextOOO(k, x) = [k EXCEPT !.ooo = Append(@, x)]
      \/ x.seq = k.target /\ NextOOO(k, x) = PutBytes(k, x.from, x.len)
      \/ NextOOO(k, x) = k
    BY Zenon DEF NextOOO
<1> QED BY <1>3, <1>4, <1>5, PutInOrder, Zenon

\* The turns of the loop, and that they are what ProcessOOOList takes.
Turns(k, h, n) ==
    /\ h = [i \in 0..n |-> h[i]] /\ h[0] = [k EXCEPT !.ooo = <<>>]
    /\ \A i \in 1..n : h[i] = NextOOO(h[i - 1], k.ooo[i])

LEMMA TurnsExist ==
    ASSUME NEW k, NEW n \in Nat
    PROVE  \E h : Turns(k, h, n)
<1>1. PICK S : S = {j \in 0..n : \E h : Turns(k, h, j)}
    OBVIOUS
<1>0. PICK start : start = [k EXCEPT !.ooo = <<>>]
    OBVIOUS
<1>2. 0 \in S
    <2>1. PICK h : h = [i \in 0..0 |-> start]
        OBVIOUS
    <2>2. Turns(k, h, 0)
        BY <1>0, <2>1 DEF Turns
    <2> QED BY <1>1, <2>2
<1>3. ASSUME NEW j \in 0..(n - 1), j \in S PROVE j + 1 \in S
    <2>1. PICK h : Turns(k, h, j)
        BY <1>1, <1>3
    <2>2. PICK v : v = NextOOO(h[j], k.ooo[j + 1])
        OBVIOUS
    <2>3. PICK e : e = [i \in 0..(j + 1) |-> IF i = j + 1 THEN v ELSE h[i]]
        OBVIOUS
    <2>4. j \in Nat /\ j + 1 \in 0..n
        OBVIOUS
    <2>5. e[j + 1] = v /\ \A i \in 0..j : e[i] = h[i]
        BY <2>3, <2>4
    <2>6. ASSUME NEW i \in 1..(j + 1) PROVE e[i] = NextOOO(e[i - 1], k.ooo[i])
        <3>1. CASE i = j + 1
            <4>1. i - 1 = j /\ e[i - 1] = h[j]
                BY <2>4, <2>5, <3>1
            <4> QED BY <2>2, <2>5, <3>1, <4>1
        <3>2. CASE i # j + 1
            <4>1. i \in 1..j /\ i \in 0..j /\ i - 1 \in 0..j
                BY <2>4, <3>2
            <4>2. h[i] = NextOOO(h[i - 1], k.ooo[i])
                BY <2>1, <4>1 DEF Turns
            <4> QED BY <2>5, <4>1, <4>2
        <3> QED BY <3>1, <3>2
    <2>7. e[0] = [k EXCEPT !.ooo = <<>>]
        <3>1. h[0] = [k EXCEPT !.ooo = <<>>] /\ 0 \in 0..j
            BY <2>1, <2>4 DEF Turns
        <3> QED BY <2>5, <3>1
    <2>8. e = [i \in 0..(j + 1) |-> e[i]]
        BY <2>3
    <2>9. Turns(k, e, j + 1)
        BY <2>6, <2>7, <2>8, Zenon DEF Turns
    <2> QED BY <1>1, <2>4, <2>9
<1>4. 0..n \subseteq S
    BY <1>2, <1>3, InductionUpTo
<1>5. n \in 0..n
    OBVIOUS
<1> QED BY <1>1, <1>4, <1>5

Drains(k, h, n) ==
    /\ Turns(k, h, n)
    /\ ProcessOOOList(k) = [k EXCEPT !.target = h[n].target, !.ring = h[n].ring,
                                     !.over = h[n].over, !.ooo = h[n].ooo]

LEMMA LoopTurns ==
    ASSUME NEW k, NEW n \in Nat, n = Len(k.ooo)
    PROVE  \E h : Drains(k, h, n)
<1>1. PICK h : /\ h = (CHOOSE a : a = [i \in 0..n |-> IF i = 0 THEN [k EXCEPT !.ooo = <<>>]
                                                      ELSE NextOOO(a[i - 1], k.ooo[i])])
               /\ ProcessOOOList(k) = [k EXCEPT !.target = h[n].target, !.ring = h[n].ring,
                                                !.over = h[n].over, !.ooo = h[n].ooo]
    BY Zenon DEF ProcessOOOList
<1>2. PICK e : Turns(k, e, n)
    BY TurnsExist
<1>3. e = [i \in 0..n |-> IF i = 0 THEN [k EXCEPT !.ooo = <<>>] ELSE NextOOO(e[i - 1], k.ooo[i])]
    <2>0. PICK b : b = [i \in 0..n |-> IF i = 0 THEN [k EXCEPT !.ooo = <<>>] ELSE NextOOO(e[i - 1], k.ooo[i])]
        OBVIOUS
    <2>1. ASSUME NEW i \in 0..n PROVE e[i] = b[i]
        <3>1. CASE i = 0
            BY <1>2, <2>0, <3>1 DEF Turns
        <3>2. CASE i # 0
            <4>1. i \in 1..n
                BY <3>2
            <4> QED BY <1>2, <2>0, <3>2, <4>1 DEF Turns
        <3> QED BY <3>1, <3>2
    <2>2. e = [i \in 0..n |-> e[i]]
        BY <1>2 DEF Turns
    <2> QED BY <2>0, <2>1, <2>2
<1>4. h = [i \in 0..n |-> IF i = 0 THEN [k EXCEPT !.ooo = <<>>] ELSE NextOOO(h[i - 1], k.ooo[i])]
    BY <1>1, <1>3, Zenon
<1>5. ASSUME NEW i \in 1..n PROVE h[i] = NextOOO(h[i - 1], k.ooo[i])
    <2>1. i \in 0..n /\ i # 0
        OBVIOUS
    <2> QED BY <1>4, <2>1, Zenon
<1>6. h[0] = [k EXCEPT !.ooo = <<>>]
    <2>1. 0 \in 0..n
        OBVIOUS
    <2> QED BY <1>4, <2>1, Zenon
<1>7. h = [i \in 0..n |-> h[i]]
    <2>1. PICK b : b = [i \in 0..n |-> IF i = 0 THEN [k EXCEPT !.ooo = <<>>] ELSE NextOOO(h[i - 1], k.ooo[i])]
        OBVIOUS
    <2>2. b = [i \in 0..n |-> b[i]]
        BY <2>1
    <2> QED BY <1>4, <2>1, <2>2, Zenon
<1>8. Turns(k, h, n)
    BY <1>5, <1>6, <1>7, Zenon DEF Turns
<1>9. Drains(k, h, n)
    BY <1>1, <1>8, Zenon DEF Drains
<1> QED BY <1>9

\* The list is drained in order.
LEMMA DrainedInOrder ==
    ASSUME StreamFits, NEW k, Received(k)
    PROVE  Received(ProcessOOOList(k))
<1>0. {"target", "ring", "over", "ooo", "rd"} \subseteq Fields
    BY FieldsAre
<1>1. PICK n \in Nat : n = Len(k.ooo)
    BY DEF Received
<1>a. PICK h : Drains(k, h, n)
    BY <1>1, LoopTurns
<1>2. /\ Turns(k, h, n)
      /\ ProcessOOOList(k) = [k EXCEPT !.target = h[n].target, !.ring = h[n].ring,
                                       !.over = h[n].over, !.ooo = h[n].ooo]
    BY <1>a, Zenon DEF Drains
<1>3. PICK S : S = {i \in 0..n : Received(h[i]) /\ h[i].rd = k.rd}
    OBVIOUS
<1>4. 0 \in S
    <2>1. Received([k EXCEPT !.ooo = <<>>]) /\ [k EXCEPT !.ooo = <<>>].rd = k.rd
        BY <1>0 DEF Received, InOrder
    <2> QED BY <1>2, <1>3, <2>1 DEF Turns
<1>5. ASSUME NEW i \in 0..(n - 1), i \in S PROVE i + 1 \in S
    <2>1. PICK a, x : a = h[i] /\ x = k.ooo[i + 1]
        OBVIOUS
    <2>2. i + 1 \in 1..n /\ (i + 1) - 1 = i
        BY <1>1
    <2>3. h[i + 1] = NextOOO(a, x)
        BY <1>2, <2>1, <2>2 DEF Turns
    <2>4. x \in Pieces
        BY <1>1, <2>1, <2>2 DEF Received
    <2>5. Received(a) /\ a.rd = k.rd
        BY <1>3, <1>5, <2>1
    <2>6. NextOOO(a, x).rd = a.rd
        <3>1. DOMAIN a = Fields
            BY <2>5 DEF Received
        <3> QED BY <1>0, <3>1 DEF NextOOO, PutBytes
    <2> QED BY <1>3, <2>2, <2>3, <2>4, <2>5, <2>6, NextInOrder
<1>6. n \in S
    BY <1>4, <1>5, InductionUpTo
<1>7. PICK b : b = h[n]
    OBVIOUS
<1>8. Received(b) /\ b.rd = k.rd
    BY <1>3, <1>6, <1>7
<1>9. PICK l : l = ProcessOOOList(k)
    OBVIOUS
<1>10. DOMAIN l = Fields /\ l.target = b.target /\ l.ring = b.ring /\ l.over = b.over /\ l.ooo = b.ooo /\ l.rd = b.rd
    BY <1>0, <1>2, <1>7, <1>8, <1>9 DEF Received
<1>11. Received(l)
    BY <1>8, <1>10 DEF Received, InOrder
<1> QED BY <1>9, <1>11

LEMMA DataInOrder ==
    ASSUME StreamFits, NEW k, Received(k), NEW g, PeersSend(g), g.len > 0
    PROVE  Received(ReceiveData(k, g))
<1>1. PICK x : x = [seq |-> g.seq, from |-> g.from, len |-> g.len]
    OBVIOUS
<1>2. x \in Pieces /\ x.seq = g.seq /\ x.from = g.from /\ x.len = g.len
    BY <1>1 DEF PeersSend
<1>3. ASSUME g.seq = k.target PROVE Received(ProcessOOOList(PutBytes(k, g.from, g.len)))
    <2>1. Received(PutBytes(k, x.from, x.len))
        BY <1>2, <1>3, PutInOrder
    <2>2. Received(PutBytes(k, g.from, g.len))
        BY <1>2, <2>1
    <2> QED BY <2>2, DrainedInOrder
<1>4. Received(AddOOOSegment(k, g))
    BY EarlyIsKept
<1> QED BY <1>3, <1>4, Zenon DEF ReceiveData

\* What changes only numbers of ours, addresses or the state leaves the data alone.
SameData(k, l) ==
    /\ DOMAIN l = Fields /\ l.target = k.target /\ l.ring = k.ring
    /\ l.ooo = k.ooo /\ l.rd = k.rd /\ l.over = k.over

LEMMA SameIsReceived ==
    ASSUME NEW k, NEW l, Received(k), SameData(k, l)
    PROVE  Received(l)
BY DEF Received, SameData, InOrder

LEMMA EstablishedInOrder ==
    ASSUME StreamFits, NEW k, Received(k), k.alloc, k.state = "ESTABLISHED", NEW g, PeersSend(g)
    PROVE  Streams(Established(k, g).k)
<1>0. {"alloc", "state", "port", "peer", "my", "sent", "target"} \subseteq Fields
    BY FieldsAre
<1>1. DOMAIN k = Fields
    BY DEF Received
<1>2. PICK got : got = IF g.len > 0 THEN ReceiveData(k, g) ELSE k
    OBVIOUS
<1>3. Received(got) /\ got.alloc = k.alloc /\ got.state = "ESTABLISHED" /\ DOMAIN got = Fields
    <2>1. ASSUME g.len > 0 PROVE Received(ReceiveData(k, g))
        BY <2>1, DataInOrder
    <2>2. ReceiveData(k, g).alloc = k.alloc /\ ReceiveData(k, g).state = k.state
        BY <1>1, DataStays
    <2>3. Received(got) /\ got.alloc = k.alloc /\ got.state = "ESTABLISHED"
        BY <1>2, <2>1, <2>2, Zenon
    <2> QED BY <2>3 DEF Received
<1>4. PICK served : served = [Counted(Counted(got, ResponseLen), 1) EXCEPT !.state = "FIN_WAIT_1"]
    OBVIOUS
<1>5. DOMAIN served = Fields /\ served.alloc = k.alloc /\ served.state = "FIN_WAIT_1"
    BY <1>0, <1>3, <1>4 DEF Counted
<1>6. PICK after : /\ after \in {served, got}
                   /\ Established(k, g).k \in {after, [after EXCEPT !.target = Plus(@, 1), !.state = "LAST_ACK"]}
    BY <1>2, <1>4 DEF Established
<1>7. DOMAIN after = Fields /\ after.alloc /\ (after.state = "FIN_WAIT_1" \/ after = got)
    BY <1>3, <1>5, <1>6
<1>8. Streams(after)
    BY <1>3, <1>7 DEF Streams, Quiet
<1>9. Streams([after EXCEPT !.target = Plus(@, 1), !.state = "LAST_ACK"])
    <2>1. PICK l : l = [after EXCEPT !.target = Plus(@, 1), !.state = "LAST_ACK"]
        OBVIOUS
    <2>2. DOMAIN l = Fields /\ l.alloc /\ l.state = "LAST_ACK"
        BY <1>0, <1>7, <2>1
    <2>3. Streams(l)
        BY <2>2 DEF Streams, Quiet
    <2> QED BY <2>1, <2>3
<1> QED BY <1>6, <1>8, <1>9, Zenon

\* A socket that has no data, and expects the first byte, is in order.
LEMMA FirstByteIsNext ==
    ASSUME NEW k, DOMAIN k = Fields, k.ring = <<>>, k.ooo = <<>>, k.rd = 0, k.over = FALSE,
           k.target = Plus(PeerISN, 1)
    PROVE  Received(k)
<1>1. StreamLen \in Nat
    BY TcpAssumption
<1>2. InOrder(k)
    BY <1>1 DEF InOrder
<1>3. k.over \in BOOLEAN
    OBVIOUS
<1>4. k.ooo \in Seq(Pieces)
    OBVIOUS
<1> QED BY <1>2, <1>3, <1>4, Zenon DEF Received

LEMMA HandledInOrder ==
    ASSUME StreamFits, NEW k, Streams(k), k.alloc, NEW g, PeersSend(g)
    PROVE  Streams(Handled(k, g).k)
<1>0. {"alloc", "state", "port", "peer", "my", "sent", "target", "ring", "ooo", "rd", "over"} \subseteq Fields
    BY FieldsAre
<1>1. DOMAIN k = Fields
    BY DEF Streams
<1>2. Streams(FreeSocket(k))
    BY <1>0, <1>1 DEF Streams, FreeSocket, Quiet
<1>a. ASSUME g.syn PROVE Plus(g.seq, 1) = Plus(PeerISN, 1)
    <2>1. Plus(Plus(PeerISN, 0), 1) = Plus(PeerISN, 0 + 1)
        BY NumbersAdd
    <2> QED BY <1>a, <2>1 DEF PeersSend
<1>3. ASSUME k.state = "SYN_SENT", g.syn PROVE Streams(Synack(k, g).k)
    <2>1. PICK l : l = Synack(k, g).k
        OBVIOUS
    <2>2. /\ DOMAIN l = Fields /\ l.alloc /\ l.state = "ESTABLISHED" /\ l.target = Plus(PeerISN, 1)
          /\ l.ring = k.ring /\ l.ooo = k.ooo /\ l.rd = k.rd /\ l.over = k.over
        BY <1>0, <1>1, <1>3, <1>a, <2>1 DEF Synack, Advance, Counted
    <2>3. k.ring = <<>> /\ k.ooo = <<>> /\ k.rd = 0 /\ k.over = FALSE
        BY <1>3 DEF Streams, Quiet
    <2>4. Received(l)
        BY <2>2, <2>3, FirstByteIsNext
    <2>5. Streams(l)
        BY <2>2, <2>4 DEF Streams, Quiet
    <2> QED BY <2>1, <2>5
<1>4. ASSUME k.state = "SYN_SENT", g.syn PROVE Streams(SameTime(k, g).k)
    <2>1. PICK l : l = SameTime(k, g).k
        OBVIOUS
    <2>2. /\ DOMAIN l = Fields /\ l.alloc /\ l.state = "SYN_RCVD" /\ l.target = Plus(PeerISN, 1)
          /\ l.ring = k.ring /\ l.ooo = k.ooo /\ l.rd = k.rd /\ l.over = k.over
        BY <1>0, <1>1, <1>4, <1>a, <2>1 DEF SameTime, Counted
    <2>3. k.ring = <<>> /\ k.ooo = <<>> /\ k.rd = 0 /\ k.over = FALSE
        BY <1>4 DEF Streams, Quiet
    <2>4. Streams(l)
        BY <2>2, <2>3 DEF Streams, Quiet
    <2> QED BY <2>1, <2>4
<1>5. ASSUME k.state = "ESTABLISHED" PROVE Streams(Established(k, g).k)
    BY <1>5, EstablishedInOrder DEF Streams
<1>6. ASSUME k.state = "SYN_RCVD" PROVE Streams(Established([k EXCEPT !.state = "ESTABLISHED"], g).k)
    <2>1. PICK l : l = [k EXCEPT !.state = "ESTABLISHED"]
        OBVIOUS
    <2>2. /\ DOMAIN l = Fields /\ l.alloc /\ l.state = "ESTABLISHED" /\ l.target = k.target
          /\ l.ring = k.ring /\ l.ooo = k.ooo /\ l.rd = k.rd /\ l.over = k.over
        BY <1>0, <1>1, <2>1
    <2>3. /\ k.ring = <<>> /\ k.ooo = <<>> /\ k.rd = 0 /\ k.over = FALSE
          /\ k.target = Plus(PeerISN, 1)
        BY <1>6 DEF Streams, Quiet
    <2>4. Received(l)
        BY <2>2, <2>3, FirstByteIsNext
    <2>5. Streams(Established(l, g).k)
        BY <2>2, <2>4, EstablishedInOrder
    <2> QED BY <2>1, <2>5
<1>7. ASSUME k.state = "FIN_WAIT_1" PROVE Streams([k EXCEPT !.state = "FIN_WAIT_2"])
    BY <1>0, <1>1, <1>7 DEF Streams, Quiet
<1>8. [[k |-> k, out |-> {}] EXCEPT !.k.state = "FIN_WAIT_2"].k = [k EXCEPT !.state = "FIN_WAIT_2"]
    OBVIOUS
<1> QED BY <1>2, <1>3, <1>4, <1>5, <1>6, <1>7, <1>8 DEF Handled

\* Whoever is given a socket finds it without data.
LEMMA AllocatedIsQuiet ==
    ASSUME StreamInv, NEW s \in Slots, Allocates(s)
    PROVE  /\ Streams(AllocateSocket(s)) /\ AllocateSocket(s).state = "CLOSED"
           /\ DOMAIN AllocateSocket(s) = Fields /\ AllocateSocket(s).alloc
<1>0. {"alloc", "state", "port", "peer", "my", "sent", "target", "ring", "ooo", "rd", "over"} \subseteq Fields
    BY FieldsAre
<1>1. FreeSlots \subseteq Nat /\ FreeSlots # {} /\ s = Min(FreeSlots)
    BY TcpAssumption DEF Allocates, FreeSlots, Slots
<1>2. s \in FreeSlots
    BY <1>1, LeastMember
<1>3. Streams(sock[s]) /\ ~sock[s].alloc
    BY <1>2 DEF StreamInv, FreeSlots
<1>4. DOMAIN sock[s] = Fields /\ sock[s].ooo = <<>>
    BY <1>3 DEF Streams
<1> QED BY <1>0, <1>4 DEF AllocateSocket, Streams, Quiet

\* A step writes one socket.
LEMMA WritesOneStream ==
    ASSUME StreamInv, TcpInv', NEW s \in Slots, NEW k, Streams(k), sock' = [sock EXCEPT ![s] = k]
    PROVE  StreamInv'
<1>1. DOMAIN sock = Slots
    BY DEF StreamInv, TcpInv, TablesKnown
<1>2. ASSUME NEW t \in Slots PROVE Streams(sock'[t])
    <2>1. sock'[t] = IF t = s THEN k ELSE sock[t]
        BY <1>1
    <2> QED BY <2>1 DEF StreamInv
<1>3. (\A t \in Slots : Streams(sock[t]))'
    BY <1>2 DEF Streams, Received, InOrder
<1> QED BY <1>3 DEF StreamInv

\* A reader takes bytes from the front.
LEMMA RecvInOrder ==
    ASSUME StreamInv, TcpInv', NEW f \in FDs, NEW n \in 1..RingSize, TCPRecv(f, n)
    PROVE  StreamInv'
<1>0. {"alloc", "state", "port", "peer", "my", "sent", "target", "ring", "ooo", "rd", "over"} \subseteq Fields
    BY FieldsAre
<1>1. PICK s : s = handle[f]
    OBVIOUS
<1>2. PICK k : k = sock[s]
    OBVIOUS
<1>3. PICK got : got = IF n < Len(k.ring) THEN n ELSE Len(k.ring)
    OBVIOUS
<1>4. s # 0 /\ k.alloc /\ got > 0
    BY <1>1, <1>2, <1>3 DEF TCPRecv
<1>5. s \in Slots
    <2>1. handle \in [FDs -> 0..Sockets] /\ Sockets \in Nat
        BY TcpAssumption DEF StreamInv, TcpInv, TablesKnown
    <2>2. s \in 0..Sockets
        BY <1>1, <2>1
    <2> QED BY <1>4, <2>1, <2>2 DEF Slots
<1>6. Streams(k) /\ DOMAIN k = Fields /\ DOMAIN sock = Slots
    BY <1>2, <1>5 DEF StreamInv, Streams, TcpInv, TablesKnown
<1>7. PICK l : l = [k EXCEPT !.ring = SubSeq(k.ring, got + 1, Len(k.ring)), !.rd = k.ring[got]]
    OBVIOUS
<1>8. sock' = [sock EXCEPT ![s] = l]
    <2>1. sock' = [sock EXCEPT ![s].ring = SubSeq(@, got + 1, Len(@)), ![s].rd = k.ring[got]]
        BY <1>1, <1>2, <1>3, Zenon DEF TCPRecv
    <2> QED BY <1>2, <1>5, <1>6, <1>7, <2>1
<1>9. k.state \notin Quiet
    <2>1. ASSUME k.state \in Quiet PROVE FALSE
        <3>1. k.ring = <<>>
            BY <1>6, <2>1 DEF Streams
        <3>2. Len(k.ring) = 0
            BY <3>1
        <3>3. n \in Nat
            BY TcpAssumption
        <3> QED BY <1>3, <1>4, <3>2, <3>3
    <2> QED BY <2>1
<1>10. /\ DOMAIN l = Fields /\ l.alloc = k.alloc /\ l.state = k.state /\ l.target = k.target
       /\ l.ooo = k.ooo /\ l.over = k.over
       /\ l.ring = SubSeq(k.ring, got + 1, Len(k.ring)) /\ l.rd = k.ring[got]
    BY <1>0, <1>6, <1>7
<1>11. ASSUME k.state = "ESTABLISHED" PROVE Received(l)
    <2>1. Received(k)
        BY <1>6, <1>11 DEF Streams
    <2>2. ASSUME ~k.over PROVE InOrder(l)
        <3>1. InOrder(k)
            BY <2>1, <2>2 DEF Received
        <3>2. PICK rd, ring, r : rd = k.rd /\ ring = k.ring /\ r = Len(k.ring)
            OBVIOUS
        <3>3. /\ rd \in Nat /\ ring \in Seq(Nat) /\ r \in Nat /\ r = Len(ring)
              /\ k.target = Plus(PeerISN, 1 + rd + r) /\ rd + r <= StreamLen
            BY <3>1, <3>2 DEF InOrder
        <3>4. \A i \in 1..r : ring[i] = rd + i
            BY <3>1, <3>2 DEF InOrder
        <3>5. got \in 1..r
            <4>1. RingSize \in Nat
                BY TcpAssumption
            <4>2. n \in Nat
                BY <4>1
            <4> QED BY <1>3, <1>4, <3>2, <3>3, <4>2
        <3>6. l.rd = rd + got
            BY <1>10, <3>2, <3>4, <3>5
        <3>7. PICK rest : rest = SubSeq(ring, got + 1, r)
            OBVIOUS
        <3>8. rest \in Seq(Nat) /\ Len(rest) = r - got
            BY <3>3, <3>5, <3>7
        <3>9. ASSUME NEW i \in 1..(r - got) PROVE rest[i] = l.rd + i
            <4>1. got + i \in 1..r /\ i \in Nat /\ got \in Nat
                BY <3>3, <3>5
            <4>2. rest[i] = ring[got + i]
                BY <3>3, <3>5, <3>7, <4>1
            <4>3. ring[got + i] = rd + (got + i)
                BY <3>4, <4>1
            <4> QED BY <3>3, <3>6, <4>1, <4>2, <4>3
        <3>10. l.ring = rest
            BY <1>10, <3>2, <3>3, <3>7
        <3>11. /\ rd + got \in Nat /\ 1 + (rd + got) + (r - got) = 1 + rd + r
               /\ (rd + got) + (r - got) = rd + r
            BY <3>3, <3>5
        <3> QED BY <1>10, <3>3, <3>6, <3>8, <3>9, <3>10, <3>11 DEF InOrder
    <2> QED BY <1>10, <2>1, <2>2 DEF Received
<1>12. Streams(l)
    BY <1>4, <1>9, <1>10, <1>11 DEF Streams, Quiet
<1> QED BY <1>5, <1>8, <1>12, WritesOneStream

LEMMA HandleTCPInOrder ==
    ASSUME StreamFits, StreamInv, TcpInv', NEW p, NEW g \in PeerSegments(p), HandleTCP(p, g)
    PROVE  StreamInv'
<1>0. {"alloc", "state", "port", "peer", "my", "sent", "target", "ring", "ooo", "rd", "over"} \subseteq Fields
    BY FieldsAre
<1>a. PeersSend(g)
    BY SegmentsArePieces
<1>1. CASE GetSocket(conn[p].port, p) # {}
    <2>1. PICK s : s = Min(GetSocket(conn[p].port, p)) /\ sock' = [sock EXCEPT ![s] = Handled(sock[s], g).k]
        BY <1>1 DEF HandleTCP
    <2>2. GetSocket(conn[p].port, p) \subseteq Nat
        BY TcpAssumption DEF GetSocket, Slots
    <2>3. s \in GetSocket(conn[p].port, p)
        BY <1>1, <2>1, <2>2, LeastMember
    <2>4. s \in Slots /\ sock[s].alloc
        BY <2>3 DEF GetSocket
    <2>5. Streams(sock[s])
        BY <2>4 DEF StreamInv
    <2>6. Streams(Handled(sock[s], g).k)
        BY <1>a, <2>4, <2>5, HandledInOrder
    <2> QED BY <2>1, <2>4, <2>6, WritesOneStream
<1>2. CASE GetSocket(conn[p].port, p) = {}
    <2>1. PICK s \in Slots :
            /\ Allocates(s) /\ g.syn
            /\ LET k == [AllocateSocket(s) EXCEPT !.port = conn[p].port, !.peer = p, !.state = "SYN_RCVD",
                                                  !.target = Plus(g.seq, 1), !.my = HostISN]
               IN sock' = [sock EXCEPT ![s] = Counted(k, 1)]
        BY <1>2 DEF HandleTCP
    <2>2. PICK k : k = AllocateSocket(s)
        OBVIOUS
    <2>3. PICK l : l = Counted([k EXCEPT !.port = conn[p].port, !.peer = p, !.state = "SYN_RCVD",
                                         !.target = Plus(g.seq, 1), !.my = HostISN], 1)
        OBVIOUS
    <2>4. sock' = [sock EXCEPT ![s] = l]
        BY <2>1, <2>2, <2>3, Zenon
    <2>5. Streams(k) /\ k.state = "CLOSED" /\ DOMAIN k = Fields /\ k.alloc
        BY <2>1, <2>2, AllocatedIsQuiet
    <2>6. /\ DOMAIN l = Fields /\ l.alloc /\ l.state = "SYN_RCVD" /\ l.target = Plus(g.seq, 1)
          /\ l.ring = k.ring /\ l.ooo = k.ooo /\ l.rd = k.rd /\ l.over = k.over
        BY <1>0, <2>3, <2>5 DEF Counted
    <2>7. Plus(g.seq, 1) = Plus(PeerISN, 1)
        <3>1. Plus(Plus(PeerISN, 0), 1) = Plus(PeerISN, 0 + 1)
            BY NumbersAdd
        <3> QED BY <1>a, <2>1, <3>1 DEF PeersSend
    <2>8. Streams(l)
        BY <2>5, <2>6, <2>7 DEF Streams, Quiet
    <2> QED BY <2>4, <2>8, WritesOneStream
<1> QED BY <1>1, <1>2

\* Nobody connects a socket that has data.
LEMMA ConnectsInOrder ==
    ASSUME StreamInv, TcpInv', NEW s \in Slots, NEW k, NEW p, Connects(s, k, p),
           Streams(k), k.state \in {"CLOSED", "LISTEN"}
    PROVE  StreamInv'
<1>0. {"alloc", "state", "port", "peer", "my", "sent", "target", "ring", "ooo", "rd", "over"} \subseteq Fields
    BY FieldsAre
<1>1. PICK l : l = [k EXCEPT !.state = "SYN_SENT", !.peer = p, !.port = 40000 + s, !.my = HostISN, !.sent = 0]
    OBVIOUS
<1>2. sock' = [sock EXCEPT ![s] = l]
    BY <1>1 DEF Connects
<1>3. DOMAIN k = Fields
    BY DEF Streams
<1>4. /\ DOMAIN l = Fields /\ l.alloc = k.alloc /\ l.state = "SYN_SENT"
      /\ l.ring = k.ring /\ l.ooo = k.ooo /\ l.rd = k.rd /\ l.over = k.over
    BY <1>0, <1>1, <1>3
<1>5. Streams(l)
    BY <1>4 DEF Streams, Quiet
<1> QED BY <1>2, <1>5, WritesOneStream

\* The bytes a program reads from an open connection are the next ones of the
\* peer's stream: none is lost, comes twice or out of order, however the peer has
\* cut its stream into segments, whatever order and however often they arrive, for
\* any number of connections one after another in the same sockets, and across the
\* wrap of the sequence numbers, as long as a stream is shorter than the numbers
\* and the ring has not overwritten bytes that nobody had read.
THEOREM BytesArriveInOrder ==
    ASSUME StreamFits
    PROVE  TcpSpec => []StreamInOrder
<1>1. TcpInit => StreamInv
    <2> SUFFICES ASSUME TcpInit PROVE StreamInv
        OBVIOUS
    <2>1. \A s \in Slots : sock[s] = FreshSocket
        BY DEF TcpInit
    <2>2. Streams(FreshSocket)
        BY DEF FreshSocket, Streams, Fields, Quiet
    <2> QED BY <2>1, <2>2, TableInit DEF StreamInv
<1>2. StreamInv /\ [TcpNext]_tcpVars => StreamInv'
    <2> SUFFICES ASSUME StreamInv, [TcpNext]_tcpVars PROVE StreamInv'
        OBVIOUS
    <2>0. TcpInv'
        BY TableStep DEF StreamInv
    <2>a. /\ {"alloc", "state", "port", "peer", "my", "target", "ring", "ooo", "rd", "over", "sent"} \subseteq Fields
          /\ handle \in [FDs -> 0..Sockets]
        BY FieldsAre DEF StreamInv, TcpInv, TablesKnown
    <2>1. ASSUME sock' = sock PROVE StreamInv'
        <3>1. (\A s \in Slots : Streams(sock[s]))'
            BY <2>1 DEF StreamInv, Streams, Received, InOrder
        <3> QED BY <2>0, <3>1 DEF StreamInv
    <2>2. ASSUME NEW p \in Peers, PeerHears(p) PROVE StreamInv'
        BY <2>1, <2>2 DEF PeerHears
    <2>3. ASSUME NEW p \in Peers, NEW g \in PeerSegments(p), HandleTCP(p, g) PROVE StreamInv'
        BY <2>0, <2>3, HandleTCPInOrder
    <2>4. CASE TCPListen
        <3>1. PICK s \in Slots :
                /\ Allocates(s)
                /\ sock' = [sock EXCEPT ![s] = [AllocateSocket(s) EXCEPT !.state = "LISTEN", !.port = Http, !.peer = NoPeer]]
            BY <2>4 DEF TCPListen
        <3>2. PICK k : k = AllocateSocket(s)
            OBVIOUS
        <3>3. PICK l : l = [k EXCEPT !.state = "LISTEN", !.port = Http, !.peer = NoPeer]
            OBVIOUS
        <3>4. sock' = [sock EXCEPT ![s] = l]
            BY <3>1, <3>2, <3>3, Zenon
        <3>5. Streams(k) /\ k.state = "CLOSED" /\ DOMAIN k = Fields /\ k.alloc
            BY <3>1, <3>2, AllocatedIsQuiet
        <3>6. /\ DOMAIN l = Fields /\ l.alloc /\ l.state = "LISTEN"
              /\ l.ring = k.ring /\ l.ooo = k.ooo /\ l.rd = k.rd /\ l.over = k.over
            BY <2>a, <3>3, <3>5
        <3>7. Streams(l)
            BY <3>5, <3>6 DEF Streams, Quiet
        <3> QED BY <2>0, <3>4, <3>7, WritesOneStream
    <2>5. ASSUME NEW p, HandleDNS(p) PROVE StreamInv'
        <3>1. PICK s \in Slots : Allocates(s) /\ Connects(s, [AllocateSocket(s) EXCEPT !.target = 0], p)
            BY <2>5 DEF HandleDNS
        <3>2. PICK k : k = AllocateSocket(s)
            OBVIOUS
        <3>3. Streams(k) /\ k.state = "CLOSED" /\ DOMAIN k = Fields /\ k.alloc
            BY <3>1, <3>2, AllocatedIsQuiet
        <3>4. PICK l : l = [k EXCEPT !.target = 0]
            OBVIOUS
        <3>5. /\ DOMAIN l = Fields /\ l.alloc /\ l.state = "CLOSED"
              /\ l.ring = k.ring /\ l.ooo = k.ooo /\ l.rd = k.rd /\ l.over = k.over
            BY <2>a, <3>3, <3>4
        <3>6. Streams(l)
            BY <3>3, <3>5 DEF Streams, Quiet
        <3>7. Connects(s, l, p)
            BY <3>1, <3>2, <3>4, Zenon
        <3> QED BY <2>0, <3>5, <3>6, <3>7, ConnectsInOrder
    <2>6. ASSUME NEW f \in FDs, Sys_Socket(f) PROVE StreamInv'
        <3>1. PICK s \in Slots : Allocates(s) /\ sock' = [sock EXCEPT ![s] = AllocateSocket(s)]
            BY <2>6 DEF Sys_Socket
        <3>2. Streams(AllocateSocket(s))
            BY <3>1, AllocatedIsQuiet
        <3> QED BY <2>0, <3>1, <3>2, WritesOneStream
    <2>7. ASSUME NEW f \in FDs, handle[f] # 0 PROVE handle[f] \in Slots
        BY <2>a, <2>7, TcpAssumption DEF Slots
    <2>8. ASSUME NEW f \in FDs, NEW p, Sys_Connect(f, p) PROVE StreamInv'
        <3>1. PICK s : s = handle[f] /\ s # 0 /\ Connects(s, sock[s], p) /\ sock[s].state \in {"CLOSED", "LISTEN"}
            BY <2>8 DEF Sys_Connect
        <3>2. s \in Slots
            BY <2>7, <3>1
        <3>3. Streams(sock[s])
            BY <3>2 DEF StreamInv
        <3> QED BY <2>0, <3>1, <3>2, <3>3, ConnectsInOrder
    <2>9. ASSUME NEW f \in FDs, SendTCPData(f) PROVE StreamInv'
        <3>1. PICK s : /\ s = handle[f] /\ s # 0 /\ sock[s].state = "ESTABLISHED"
                       /\ sock' = [sock EXCEPT ![s] = Counted(sock[s], WriteLen)]
            BY <2>9 DEF SendTCPData
        <3>2. s \in Slots
            BY <2>7, <3>1
        <3>3. PICK k : k = sock[s]
            OBVIOUS
        <3>4. Streams(k) /\ k.state = "ESTABLISHED"
            BY <3>1, <3>2, <3>3 DEF StreamInv
        <3>5. DOMAIN k = Fields /\ Received(k) /\ k.alloc
            BY <3>4 DEF Streams, Quiet
        <3>6. PICK l : l = Counted(k, WriteLen)
            OBVIOUS
        <3>7. SameData(k, l) /\ l.alloc = k.alloc /\ l.state = k.state
            BY <2>a, <3>5, <3>6 DEF Counted, SameData
        <3>8. Received(l)
            BY <3>5, <3>7, SameIsReceived
        <3>9. Streams(l)
            BY <3>4, <3>5, <3>7, <3>8 DEF Streams, SameData, Quiet
        <3>10. sock' = [sock EXCEPT ![s] = l]
            BY <3>1, <3>3, <3>6, Zenon
        <3> QED BY <2>0, <3>2, <3>9, <3>10, WritesOneStream
    <2>10. ASSUME NEW f \in FDs, NEW n \in 1..RingSize, TCPRecv(f, n) PROVE StreamInv'
        BY <2>0, <2>10, RecvInOrder
    <2>11. ASSUME NEW f \in FDs, CloseSocket(f) PROVE StreamInv'
        <3>1. PICK s : s = handle[f] /\ s # 0 /\ sock' = [sock EXCEPT ![s] = FreeSocket(sock[s])]
            BY <2>11 DEF CloseSocket
        <3>2. s \in Slots
            BY <2>7, <3>1
        <3>3. DOMAIN sock[s] = Fields
            BY <3>2 DEF StreamInv, Streams
        <3>4. Streams(FreeSocket(sock[s]))
            BY <2>a, <3>3 DEF Streams, FreeSocket, Quiet
        <3> QED BY <2>0, <3>1, <3>2, <3>4, WritesOneStream
    <2>12. CASE UNCHANGED tcpVars
        BY <2>1, <2>12 DEF tcpVars
    <2> QED
        BY <2>2, <2>3, <2>4, <2>5, <2>6, <2>8, <2>9, <2>10, <2>11, <2>12
           DEF TcpNext, TcpServes, TcpCalls, Hears, Peers
<1>3. StreamInv => StreamInOrder
    <2> SUFFICES ASSUME StreamInv PROVE StreamInOrder
        OBVIOUS
    <2>1. ASSUME NEW s \in Slots, sock[s].state = "ESTABLISHED", ~sock[s].over
          PROVE  /\ \A i \in DOMAIN sock[s].ring : sock[s].ring[i] = sock[s].rd + i
                 /\ sock[s].target = Plus(PeerISN, 1 + sock[s].rd + Len(sock[s].ring))
        <3>1. Received(sock[s])
            BY <2>1 DEF StreamInv, Streams
        <3>2. InOrder(sock[s])
            BY <2>1, <3>1 DEF Received
        <3>3. DOMAIN sock[s].ring = 1..Len(sock[s].ring)
            BY <3>2 DEF InOrder
        <3> QED BY <3>2, <3>3 DEF InOrder
    <2> QED BY <2>1 DEF StreamInOrder
<1> QED BY <1>1, <1>2, <1>3, PTL DEF TcpSpec
=============================================================================
