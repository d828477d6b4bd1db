-------------------------------- MODULE Tcp ---------------------------------
(***************************************************************************)
(* The TCP sockets (lib/network/tcp.cpp), the socket system calls          *)
(* (syscall/network.cpp, socket_fs.cpp) and the DNS reply that opens a     *)
(* connection (dns.cpp), against remote hosts that follow the protocol.    *)
(*                                                                         *)
(* Byte k of a peer's stream is the number k; a connection is a local port *)
(* and a peer.  A segment that a peer has ever sent may arrive at any      *)
(* time, any number of times or never: loss, duplication, reordering and   *)
(* retransmission in other pieces are all there.  Sequence numbers wrap at *)
(* SeqWrap and are compared as the code compares them, as plain numbers.    *)
(*                                                                         *)
(* Left out: checksums, windows (a full ring is the history flag over),    *)
(* the reset sent for a segment that finds no socket, and LastPacket with  *)
(* WaitingAck, which only TCPCheckRetransmission reads: nothing calls it.  *)
(***************************************************************************)
EXTENDS Integers, FiniteSets, Sequences, SequencesExt

CONSTANTS Sockets,              \* MAX_TCP_SOCKETS
          Callers, Hosts,       \* peers that connect to us; peers we connect to
          NoPeer,               \* RemoteIP = 0
          StreamLen, MaxSeg,    \* bytes a peer sends; bytes of a segment
          SeqWrap, HostISN, PeerISN,
          RingSize,             \* RecvBufferSize
          GetLen, RequestLen, ResponseLen,  \* "GET /", our request, our response
          FDs, WriteLen,
          MaxAllocs, MaxSends   \* bounds: sockets handed out, data segments we send

ASSUME TcpAssumption ==
    /\ {Sockets, StreamLen, MaxSeg, SeqWrap, RingSize, GetLen, MaxAllocs} \subseteq Nat \ {0}
    /\ {HostISN, PeerISN, RequestLen, ResponseLen, WriteLen, MaxSends} \subseteq Nat
    /\ NoPeer \notin Callers \cup Hosts

VARIABLES sock,     \* SocketTable
          handle,   \* the socket a descriptor's SocketFile names, 0 when closed
          wire,     \* what we have sent that takes up sequence numbers
          conn,     \* each peer's end: local port it talks to, next number it expects
          allocs,   \* history: AllocateSocket calls
          sends     \* history: segments of data sent

tcpVars == <<sock, handle, wire, conn, allocs, sends>>

Peers == Callers \cup Hosts
Slots == 1..Sockets
Http == 80
NoSeq == -1
Plus(a, n) == (a + n) % SeqWrap

\* rd and over belong to the history: the last byte read, and whether the ring
\* has overwritten bytes that nobody had read; sent counts our numbers.
FreshSocket ==
    [alloc |-> FALSE, state |-> "CLOSED", port |-> 0, peer |-> NoPeer, my |-> 0, target |-> 0,
     ring |-> <<>>, ooo |-> <<>>, rd |-> 0, over |-> FALSE, sent |-> 0]

TcpInit ==
    /\ sock = [s \in Slots |-> FreshSocket]
    /\ handle = [f \in FDs |-> 0]
    /\ wire = {}
    /\ conn = [p \in Peers |-> [port |-> IF p \in Callers THEN Http ELSE 0, next |-> NoSeq, acks |-> {}]]
    /\ allocs = 0 /\ sends = 0

-----------------------------------------------------------------------------
\* The addresses of the last user stay in the table.
AllocateSocket(s) ==
    [sock[s] EXCEPT !.alloc = TRUE, !.state = "CLOSED", !.ring = <<>>, !.rd = 0, !.over = FALSE, !.sent = 0]
FreeSlots == {s \in Slots : ~sock[s].alloc}
Allocates(s) == FreeSlots # {} /\ s = Min(FreeSlots) /\ allocs < MaxAllocs /\ allocs' = allocs + 1

FreeSocket(k) == [k EXCEPT !.alloc = FALSE, !.state = "CLOSED", !.ring = <<>>, !.ooo = <<>>, !.rd = 0, !.over = FALSE]

GetSocket(port, p) == {s \in Slots : sock[s].alloc /\ sock[s].port = port /\ sock[s].peer = p}
GetListener(port) == {s \in Slots : sock[s].alloc /\ sock[s].state = "LISTEN" /\ sock[s].port = port}

\* What SendTCPRaw puts on the wire with socket k.
SendTCPRaw(k, syn, fin, len) ==
    {[port |-> k.port, peer |-> k.peer, syn |-> syn, fin |-> fin, seq |-> k.my, len |-> len]}
Advance(k, n) == [k EXCEPT !.my = Plus(@, n)]
Counted(k, n) == [k EXCEPT !.my = Plus(@, n), !.sent = @ + n]

-----------------------------------------------------------------------------
\* The receive ring: a byte that fills the last place pushes out the oldest, so the
\* newest RingSize - 1 bytes stay.
Newest(all) == IF Len(all) < RingSize THEN all ELSE SubSeq(all, Len(all) - RingSize + 2, Len(all))
Bytes(from, len) == [i \in 1..len |-> from + i - 1]
PutBytes(k, from, len) ==
    LET all == k.ring \o Bytes(from, len)
    IN [k EXCEPT !.target = Plus(@, len), !.ring = Newest(all), !.over = @ \/ Len(all) >= RingSize]

\* Sorted by the plain number: the new one stands before the first greater one.  A
\* number that is there already is dropped.
Inserted(list, g) ==
    LET place == Min({i \in 1..Len(list) + 1 : i \in 1..Len(list) => list[i].seq > g.seq})
    IN InsertAt(list, place, [seq |-> g.seq, from |-> g.from, len |-> g.len])
AddOOOSegment(k, g) ==
    IF \E i \in DOMAIN k.ooo : k.ooo[i].seq = g.seq THEN k ELSE [k EXCEPT !.ooo = Inserted(@, g)]

\* From the head: fill the gap, drop what is behind, stop at what is ahead.  k.ooo
\* holds the segment that has stopped the loop and the ones behind it.
NextOOO(k, x) ==
    IF k.ooo # <<>> \/ x.seq > k.target THEN [k EXCEPT !.ooo = Append(@, x)]
    ELSE IF x.seq = k.target THEN PutBytes(k, x.from, x.len)
    ELSE k
ProcessOOOList(k) ==
    LET done[i \in 0..Len(k.ooo)] == IF i = 0 THEN [k EXCEPT !.ooo = <<>>] ELSE NextOOO(done[i - 1], k.ooo[i])
        last == done[Len(k.ooo)]
    IN [k EXCEPT !.target = last.target, !.ring = last.ring, !.over = last.over, !.ooo = last.ooo]

\* Mutant: the segment in order is stored like one that comes too early.
ReceiveDataLate(k, g) == IF g.seq >= k.target THEN AddOOOSegment(k, g) ELSE k

\* Mutant: an old segment is appended like one in order.
ReceiveDataOld(k, g) ==
    IF g.seq <= k.target THEN ProcessOOOList(PutBytes(k, g.from, g.len)) ELSE AddOOOSegment(k, g)

ReceiveData(k, g) ==
    IF g.seq = k.target THEN ProcessOOOList(PutBytes(k, g.from, g.len))
    ELSE IF g.seq > k.target THEN AddOOOSegment(k, g)
    ELSE k

\* A segment that comes too early ends the handler, FIN or not.  The request is
\* answered, and the connection closed, if it begins in the segment at hand.
IsRequest(k, g) == k.port = Http /\ g.from = 1 /\ g.len >= GetLen
Established(k, g) ==
    LET early == g.len > 0 /\ g.seq > k.target
        got == IF g.len > 0 THEN ReceiveData(k, g) ELSE k
        closing == Counted(got, ResponseLen)
        served == [Counted(closing, 1) EXCEPT !.state = "FIN_WAIT_1"]
        answers == IsRequest(k, g) /\ ~early
        after == IF answers THEN served ELSE got
        out == IF answers THEN SendTCPRaw(got, FALSE, FALSE, ResponseLen) \cup SendTCPRaw(closing, FALSE, TRUE, 0) ELSE {}
    IN IF g.fin /\ ~early
       THEN [k |-> [after EXCEPT !.target = Plus(@, 1), !.state = "LAST_ACK"],
             out |-> out \cup SendTCPRaw(after, FALSE, TRUE, 0)]
       ELSE [k |-> after, out |-> out]

\* HandleTCP for the socket that was found.  Only the flags of an
\* acknowledgement are looked at but in SYN_RCVD.
Synack(k, g) ==
    LET up == [Advance(Counted(k, 1), 1) EXCEPT !.target = Plus(g.seq, 1), !.state = "ESTABLISHED"]
    IN [k |-> Counted(up, RequestLen), out |-> SendTCPRaw(up, FALSE, FALSE, RequestLen)]
SameTime(k, g) == [k |-> [Counted(k, 1) EXCEPT !.target = Plus(g.seq, 1), !.state = "SYN_RCVD"], out |-> {}]
Handled(k, g) ==
    LET stay == [k |-> k, out |-> {}]
        gone == [k |-> FreeSocket(k), out |-> {}]
    IN CASE k.state = "SYN_SENT" /\ g.syn -> IF g.ack THEN Synack(k, g) ELSE SameTime(k, g)
         [] k.state = "SYN_RCVD" /\ ~g.syn /\ g.ack /\ g.ackn = k.my ->
              Established([k EXCEPT !.state = "ESTABLISHED"], g)
         [] k.state = "ESTABLISHED" -> Established(k, g)
         [] k.state = "FIN_WAIT_1" ->
              IF g.fin THEN gone ELSE IF g.ack THEN [stay EXCEPT !.k.state = "FIN_WAIT_2"] ELSE stay
         [] k.state = "FIN_WAIT_2" /\ g.fin -> gone
         [] k.state = "LAST_ACK" /\ g.ack -> gone
         [] OTHER -> stay

\* Mutant: a SYN goes to the listener before the sockets are searched.
HandleTCPListenerFirst(p, g) ==
    \E s \in Slots :
        /\ g.syn /\ ~g.ack /\ GetListener(conn[p].port) # {} /\ Allocates(s)
        /\ LET k == [AllocateSocket(s) EXCEPT !.port = conn[p].port, !.peer = p, !.state = "SYN_RCVD",
                                              !.target = Plus(g.seq, 1), !.my = HostISN]
           IN sock' = [sock EXCEPT ![s] = Counted(k, 1)] /\ wire' = wire \cup SendTCPRaw(k, TRUE, FALSE, 0)
        /\ UNCHANGED <<handle, conn, sends>>

\* A segment from p to the port it talks to.
HandleTCP(p, g) ==
    LET found == GetSocket(conn[p].port, p)
    IN /\ UNCHANGED <<handle, conn, sends>>
       /\ \/ /\ found # {} /\ UNCHANGED allocs
             /\ LET s == Min(found)
                    r == Handled(sock[s], g)
                IN sock' = [sock EXCEPT ![s] = r.k] /\ wire' = wire \cup r.out
          \/ /\ found = {} /\ g.syn /\ GetListener(conn[p].port) # {}
             /\ \E s \in Slots :
                  /\ Allocates(s)
                  /\ LET k == [AllocateSocket(s) EXCEPT !.port = conn[p].port, !.peer = p, !.state = "SYN_RCVD",
                                                        !.target = Plus(g.seq, 1), !.my = HostISN]
                     IN sock' = [sock EXCEPT ![s] = Counted(k, 1)] /\ wire' = wire \cup SendTCPRaw(k, TRUE, FALSE, 0)

\* The start of a connection: a SYN, whose number is counted when it is answered.
Connects(s, k, p) ==
    LET up == [k EXCEPT !.state = "SYN_SENT", !.peer = p, !.port = 40000 + s, !.my = HostISN, !.sent = 0]
    IN sock' = [sock EXCEPT ![s] = up] /\ wire' = wire \cup SendTCPRaw(up, TRUE, FALSE, 0)

-----------------------------------------------------------------------------
\* TCPListen is an interface without a caller in this version.
TCPListen ==
    \E s \in Slots :
        /\ GetListener(Http) = {} /\ Allocates(s)
        /\ sock' = [sock EXCEPT ![s] = [AllocateSocket(s) EXCEPT !.state = "LISTEN", !.port = Http, !.peer = NoPeer]]
        /\ UNCHANGED <<handle, wire, conn, sends>>

\* HandleDNS: any reply with an answer starts a connection, asked for or not.
HandleDNS(p) ==
    \E s \in Slots :
        /\ Allocates(s)
        /\ Connects(s, [AllocateSocket(s) EXCEPT !.target = 0], p)
        /\ UNCHANGED <<handle, conn, sends>>

Sys_Socket(f) ==
    \E s \in Slots :
        /\ handle[f] = 0 /\ Allocates(s)
        /\ sock' = [sock EXCEPT ![s] = AllocateSocket(s)]
        /\ handle' = [handle EXCEPT ![f] = s]
        /\ UNCHANGED <<wire, conn, sends>>

Sys_Connect(f, p) ==
    LET s == handle[f]
    IN /\ s # 0 /\ sock[s].state \in {"CLOSED", "LISTEN"}
       /\ Connects(s, sock[s], p)
       /\ UNCHANGED <<handle, conn, allocs, sends>>

\* SocketFileSystem::Write; anything but ESTABLISHED is ignored.
SendTCPData(f) ==
    LET s == handle[f]
        k == sock[s]
    IN /\ s # 0 /\ k.state = "ESTABLISHED" /\ sends < MaxSends
       /\ sends' = sends + 1
       /\ sock' = [sock EXCEPT ![s] = Counted(k, WriteLen)]
       /\ wire' = wire \cup SendTCPRaw(k, FALSE, FALSE, WriteLen)
       /\ UNCHANGED <<handle, conn, allocs>>

\* SocketFileSystem::Read of n bytes.
TCPRecv(f, n) ==
    LET s == handle[f]
        k == sock[s]
        got == IF n < Len(k.ring) THEN n ELSE Len(k.ring)
    IN /\ s # 0 /\ k.alloc /\ got > 0
       /\ sock' = [sock EXCEPT ![s].ring = SubSeq(@, got + 1, Len(@)), ![s].rd = k.ring[got]]
       /\ UNCHANGED <<handle, wire, conn, allocs, sends>>

\* SocketFileSystem::Close: no FIN, and no question whose socket it is by now.
CloseSocket(f) ==
    LET s == handle[f]
    IN /\ s # 0
       /\ sock' = [sock EXCEPT ![s] = FreeSocket(sock[s])]
       /\ handle' = [handle EXCEPT ![f] = 0]
       /\ UNCHANGED <<wire, conn, allocs, sends>>

-----------------------------------------------------------------------------
\* The remote ends.  A host takes up the first connection it hears of; a peer
\* accepts our segments in order and acknowledges what it has accepted.
PeerHears(p) ==
    \E m \in wire :
        /\ m.peer = p
        /\ \/ m.syn /\ conn[p].next = NoSeq /\ conn[p].port \in {0, m.port}
           \/ ~m.syn /\ conn[p].next = m.seq /\ conn[p].port = m.port
        /\ LET n == Plus(m.seq, m.len + (IF m.syn \/ m.fin THEN 1 ELSE 0))
           IN conn' = [conn EXCEPT ![p] = [port |-> m.port, next |-> n, acks |-> @.acks \cup {n}]]
        /\ UNCHANGED <<sock, handle, wire, allocs, sends>>

\* What a peer may have sent so far.
Segment(syn, ack, fin, ackn, from, len) ==
    [syn |-> syn, ack |-> ack, fin |-> fin, ackn |-> ackn, from |-> from, len |-> len,
     seq |-> Plus(PeerISN, IF syn THEN 0 ELSE from)]
PeerSegments(p) ==
    LET up == conn[p].acks
    IN {Segment(TRUE, FALSE, FALSE, 0, 0, 0)}
       \cup (IF p \in Hosts THEN {Segment(TRUE, TRUE, FALSE, a, 0, 0) : a \in up} ELSE {})
       \cup {Segment(FALSE, TRUE, FALSE, x[1], x[2], x[3]) :
               x \in {y \in up \X (1..StreamLen) \X (0..MaxSeg) : y[2] + y[3] <= StreamLen + 1}}
       \cup {Segment(FALSE, TRUE, TRUE, a, StreamLen + 1, 0) : a \in up}
       \cup {Segment(FALSE, TRUE, TRUE, a, StreamLen, 1) : a \in up}

Hears(p) == PeerHears(p) \/ \E g \in PeerSegments(p) : HandleTCP(p, g)
TcpServes == TCPListen \/ \E p \in Callers : Hears(p)
TcpCalls ==
    \/ \E p \in Hosts : HandleDNS(p) \/ Hears(p)
    \/ \E f \in FDs : \/ Sys_Socket(f) \/ SendTCPData(f) \/ CloseSocket(f)
                      \/ \E p \in Hosts : Sys_Connect(f, p)
                      \/ \E n \in 1..RingSize : TCPRecv(f, n)

TcpNext == TcpServes \/ TcpCalls
TcpSpec == TcpInit /\ [][TcpNext]_tcpVars

\* Peers send again what is not acknowledged, the network does not lose a segment
\* for ever, and the card hands every frame to HandleTCP: what begins at a byte
\* arrives again and again, in pieces of any length.
Arrives(p, from) ==
    \E a \in conn[p].acks : \E len \in 1..MaxSeg :
        from + len <= StreamLen + 1 /\ HandleTCP(p, Segment(FALSE, TRUE, FALSE, a, from, len))
TcpFairness == \A p \in Peers : \A from \in 1..StreamLen : WF_tcpVars(Arrives(p, from))

-----------------------------------------------------------------------------
\* The bytes in the ring are the next ones of the peer's stream, none lost, twice
\* or out of order, and TargetSequence stands right behind them, however the
\* segments were cut, duplicated and reordered, across the wrap of the sequence
\* numbers too.  Not once the ring has overwritten unread bytes.
StreamInOrder ==
    \A s \in Slots : sock[s].alloc /\ sock[s].state = "ESTABLISHED" /\ ~sock[s].over =>
        /\ \A i \in DOMAIN sock[s].ring : sock[s].ring[i] = sock[s].rd + i
        /\ sock[s].target = Plus(PeerISN, 1 + sock[s].rd + Len(sock[s].ring))

\* HandleTCP finds the socket of a connection: no two open sockets answer to one,
\* although the table keeps the addresses of closed connections and duplicate SYNs
\* keep coming.  A socket fresh from Sys_Socket may carry the addresses of a
\* connection that is open elsewhere, and then stands behind it in the table.
OneSocketPerConnection ==
    \A s, t \in Slots :
        /\ s # t /\ sock[s].alloc /\ sock[t].alloc
        /\ sock[s].state # "CLOSED" /\ sock[s].peer # NoPeer
        /\ sock[t].port = sock[s].port /\ sock[t].peer = sock[s].peer
        => t > s /\ sock[t].state = "CLOSED"

\* On a connection that stays open, everything the peer sends arrives.
EverythingArrives ==
    \A s \in Slots : \A p \in Peers :
        (sock[s].alloc /\ sock[s].state = "ESTABLISHED" /\ sock[s].peer = p /\ sock[s].port = conn[p].port)
            ~> (sock[s].target = Plus(PeerISN, 1 + StreamLen) \/ sock[s].state # "ESTABLISHED" \/ sock[s].peer # p)

\* Our sequence number counts the bytes we have sent and the SYN.
\* "Sequence nambah sesuai jumlah byte yang dikirim"; the ACK of a handshake of ours
\* counts too, and TLC refutes it (README, section 5).
SequenceCountsBytes ==
    \A s \in Slots : sock[s].alloc /\ sock[s].state = "ESTABLISHED" =>
        sock[s].my = Plus(HostISN, sock[s].sent)
=============================================================================
