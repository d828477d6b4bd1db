-------------------------------- MODULE Net ---------------------------------
(***************************************************************************)
(* Below TCP: the ARP cache, the one packet that waits for an address, and *)
(* DHCP (lib/network/ethernetstack.cpp, dhcp.cpp).                         *)
(*                                                                         *)
(* An address has two bytes, the network and the machine, in the order of  *)
(* the wire; ntohl turns them round.  A machine's hardware address is      *)
(* written as the machine's own IP address.  Any frame a machine may send  *)
(* can arrive at any time and any number of times.                         *)
(*                                                                         *)
(* Left out: header fields, checksums and the answers that change nothing  *)
(* here (an echo, an ARP reply); the rings of UDP and ICMP sockets, which  *)
(* work as the ring of a TCP socket.                                       *)
(***************************************************************************)
EXTENDS Integers, FiniteSets

CONSTANTS Machines,    \* addresses in our network, Router and Servers among them
          Router,      \* every machine's way out
          Outside,     \* addresses elsewhere
          Servers,     \* DHCP servers
          Lease(_),    \* the address a server offers us
          ArpSize      \* entries of ArpCache

Zero == <<0, 0>>
Broadcast == <<255, 255>>
ntohl(a) == <<a[2], a[1]>>

ASSUME NetAssumption ==
    /\ Servers \cup {Router} \subseteq Machines
    /\ ArpSize \in Nat
    /\ {Zero, Broadcast} \cap (Machines \cup Outside) = {}
    /\ \A s \in Servers : Lease(s) # Zero

VARIABLES arp,        \* ArpCache: address -> hardware address
          pending,    \* g_PendingUDP
          card,       \* IP, SubnetMask (whether it is set), Gateway of the card
          dhcp,       \* g_State and the address of our last request
          replies,    \* what DHCP servers have sent so far
          readFreed   \* history: a payload was copied after it was freed

netVars == <<arp, pending, card, dhcp, replies, readFreed>>

\* The card is not cleared when it is created: mask and gateway are any value.
NetInit ==
    /\ arp = <<>>
    /\ pending = [valid |-> FALSE, target |-> Zero, left |-> FALSE]
    /\ card \in [ip : {Zero}, masked : BOOLEAN, gw : {Zero, Router}]
    /\ dhcp = [state |-> "NONE", asked |-> Zero]
    /\ replies = {} /\ readFreed = FALSE

-----------------------------------------------------------------------------
NextHop(c, d) == IF d = Broadcast \/ ~c.masked \/ d[1] = c.ip[1] THEN d ELSE c.gw

GetMacFromCache(a) == a = Broadcast \/ a \in DOMAIN arp

\* Nothing ever leaves the cache; a full one learns no more.
UpdateArpCache(a, mac) ==
    IF a \in DOMAIN arp \/ Cardinality(DOMAIN arp) < ArpSize
    THEN [x \in DOMAIN arp \cup {a} |-> IF x = a THEN mac ELSE arp[x]]
    ELSE arp

\* left belongs to the history: the packet's route is no longer the one asked for.
Queued(d, left) == [valid |-> TRUE, target |-> d, left |-> left]
LeftIf(p, b) == [p EXCEPT !.left = @ \/ (p.valid /\ b)]

\* SendUDP and SendICMP: a packet without a hardware address takes the place of
\* the one that waits.
SendUDP(d) ==
    /\ pending' = IF GetMacFromCache(NextHop(card, d)) THEN pending ELSE Queued(d, FALSE)
    /\ UNCHANGED <<arp, card, dhcp, replies, readFreed>>

\* SendTCPRaw: what takes the place is a datagram to nowhere.
SendTCPSegment(d) ==
    /\ ~GetMacFromCache(NextHop(card, d))
    /\ pending' = Queued(Zero, TRUE)
    /\ UNCHANGED <<arp, card, dhcp, replies, readFreed>>

\* Mutant: the payload is freed before the packet is sent again.
HandleARPFreesFirst(m) ==
    LET mine == pending.valid /\ NextHop(card, pending.target) = m
    IN /\ arp' = UpdateArpCache(m, m)
       /\ pending' = IF mine THEN [pending EXCEPT !.valid = FALSE] ELSE pending
       /\ readFreed' = (readFreed \/ mine)
       /\ UNCHANGED <<card, dhcp, replies>>

\* A request or a reply from machine m.  The waiting packet is sent again if m
\* is its next hop; when a full cache did not learn m, SendUDP queues it once
\* more: it frees the payload that it is about to copy, and the slot is emptied
\* on return.
HandleARP(m) ==
    LET mine == pending.valid /\ NextHop(card, pending.target) = m
    IN /\ arp' = UpdateArpCache(m, m)
       /\ pending' = IF mine THEN [pending EXCEPT !.valid = FALSE] ELSE pending
       /\ readFreed' = (readFreed \/ (mine /\ m \notin DOMAIN arp'))
       /\ UNCHANGED <<card, dhcp, replies>>

\* Any IP packet: the cache learns its source with the bytes turned round.  What
\* the protocols do with it is in Tcp and in HandleDHCP.
HandleIP(src) ==
    /\ arp' = UpdateArpCache(ntohl(src), IF src \in Machines THEN src ELSE Router)
    /\ pending' = LeftIf(pending, NextHop(card, pending.target) = ntohl(src))
    /\ UNCHANGED <<card, dhcp, replies, readFreed>>

-----------------------------------------------------------------------------
\* Once, when the driver starts.
SendDHCPDiscover ==
    /\ dhcp.state = "NONE"
    /\ dhcp' = [dhcp EXCEPT !.state = "DISCOVER_SENT"]
    /\ UNCHANGED <<arp, pending, card, replies, readFreed>>

\* A server offers after a discover and acknowledges what it is asked for; both
\* requests are broadcast and may be heard late.
ServerReplies(s) ==
    /\ \/ /\ dhcp.state # "NONE"
          /\ replies' = replies \cup {[type |-> "OFFER", server |-> s, ip |-> Lease(s)]}
       \/ /\ dhcp.asked = Lease(s)
          /\ replies' = replies \cup {[type |-> "ACK", server |-> s, ip |-> Lease(s)]}
    /\ UNCHANGED <<arp, pending, card, dhcp, readFreed>>

SendDHCPRequest(ip) == dhcp' = [state |-> "REQUEST_SENT", asked |-> ip]

\* Mutant: an offer is taken up whatever has been sent.
HandleDHCPAnyOffer(r) ==
    \/ /\ r.type = "OFFER"
       /\ SendDHCPRequest(r.ip)
       /\ UNCHANGED <<arp, pending, card, replies, readFreed>>
    \/ /\ dhcp.state = "REQUEST_SENT" /\ r.type = "ACK"
       /\ card' = [ip |-> r.ip, masked |-> TRUE, gw |-> Router]
       /\ dhcp' = [dhcp EXCEPT !.state = "BOUND"]
       /\ pending' = LeftIf(pending, TRUE)
       /\ UNCHANGED <<arp, replies, readFreed>>

\* The name server is left out: it is written while the options are read,
\* whatever the reply, and cleared by the acknowledgement that should set it.
HandleDHCP(r) ==
    \/ /\ dhcp.state = "DISCOVER_SENT" /\ r.type = "OFFER"
       /\ SendDHCPRequest(r.ip)
       /\ UNCHANGED <<arp, pending, card, replies, readFreed>>
    \/ /\ dhcp.state = "REQUEST_SENT" /\ r.type = "ACK"
       /\ card' = [ip |-> r.ip, masked |-> TRUE, gw |-> Router]
       /\ dhcp' = [dhcp EXCEPT !.state = "BOUND"]
       /\ pending' = LeftIf(pending, TRUE)
       /\ UNCHANGED <<arp, replies, readFreed>>

NetNext ==
    \/ \E d \in Machines \cup Outside : SendUDP(d) \/ SendTCPSegment(d)
    \/ \E m \in Machines : HandleARP(m)
    \/ \E a \in Machines \cup Outside : HandleIP(a)
    \/ SendDHCPDiscover
    \/ \E s \in Servers : ServerReplies(s)
    \/ \E r \in replies : HandleDHCP(r)

NetSpec == NetInit /\ [][NetNext]_netVars

-----------------------------------------------------------------------------
\* A packet waits only for a hardware address that is not known, and its payload
\* is copied before it is freed.  The first part fails for a packet that stands in
\* for a TCP segment, or when an IP packet has taught the cache a turned-round
\* address that is the next hop, or an acknowledgement has changed the route
\* under the packet; the second once the cache is full.
PendingIsSound ==
    /\ pending.valid /\ ~pending.left => ~GetMacFromCache(NextHop(card, pending.target))
    /\ readFreed => Cardinality(DOMAIN arp) = ArpSize

\* The address the card uses is the one of the last request, whatever offers and
\* acknowledgements of several servers arrive, in whatever order and how often.
BoundToWhatWasRequested ==
    dhcp.state = "BOUND" => card.ip = dhcp.asked
=============================================================================
