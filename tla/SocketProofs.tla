---------------------------- MODULE SocketProofs ----------------------------
(***************************************************************************)
(* Proofs about TcpServer, TcpClient and UdpSamples, for every buffer      *)
(* size, number of descriptors, bytes and packets: the sockets are         *)
(* balanced, and each client of the server gets its own bytes back in      *)
(* order.                                                                  *)
(***************************************************************************)
EXTENDS MCSockets, HttpProofs, SequenceTheorems, TLAPS

\* The server's sockets are open and distinct, and no descriptor was misused.
SocketInv ==
  /\ misused = FALSE
  /\ SrvBalanced
  /\ srvPc \in {"bind", "listen", "accept", "recv", "send", "close"} => server_socket \in Fds
  /\ srvPc \in {"recv", "send", "close"} => client_socket \in Fds /\ client_socket # server_socket

\* What the buffer holds when it is sent back: the bytes received last.
BufferInv ==
  /\ taken <= byte /\ first <= taken + 1
  /\ srvPc = "send" =>
       /\ received \in 1..RecvSize /\ first + received <= taken + 1
       /\ \A n \in 1..received : recv_buffer[n] = taken - received + n

\* The last byte that is not in the buffer any more.
Done == IF srvPc = "send" THEN taken - received ELSE taken

\* What was echoed before the bytes in the buffer came before them.
EchoInv ==
  /\ \A m \in DOMAIN echoed : echoed[m] \in first..Done
  /\ \A m, n \in DOMAIN echoed : m < n => echoed[m] < echoed[n]

IInv == SrvTypeOK /\ SocketInv /\ BufferInv /\ EchoInv

\* The invariant holds at the start.
LEMMA InitIInv == SrvInit => IInv
<1> SUFFICES ASSUME SrvInit PROVE IInv
  OBVIOUS
<1> USE TcpServerAssumption, MaxFdsAssumption DEF SrvInit, TableInit, AddrInit
<1>1. SrvTypeOK
  <2>1. AddrTypeOK /\ misused \in BOOLEAN /\ waiting \in BOOLEAN
    BY Zenon DEF AddrTypeOK
  <2>2. recv_buffer \in [Slots -> 0..MaxBytes] /\ echoed \in Seq(0..MaxBytes)
    BY DEF Slots
  <2> QED
    BY <2>1, <2>2 DEF SrvTypeOK, Fds, None, Left
<1>2. SocketInv
  BY DEF SocketInv, SrvBalanced, SrvHolds
<1>3. BufferInv /\ EchoInv
  BY DEF BufferInv, EchoInv
<1> QED
  BY <1>1, <1>2, <1>3 DEF IInv

\* main's first step.
LEMMA MainKeeps == IInv /\ main_06 => IInv'
<1> SUFFICES ASSUME IInv, main_06 PROVE IInv'
  OBVIOUS
<1>1. SrvTypeOK'
  <2>1. AddrTypeOK'
    BY Zenon DEF IInv, SrvTypeOK, AddrTypeOK, main_06, assign_static_ip_06, RegisterThenAssign, AddAddress, addrVars
  <2> QED
    BY <2>1 DEF IInv, SrvTypeOK, main_06, tableVars
<1>2. SocketInv' /\ BufferInv' /\ EchoInv'
  BY DEF IInv, SocketInv, BufferInv, EchoInv, Done, SrvBalanced, SrvHolds, main_06, tableVars
<1> QED
  BY <1>1, <1>2 DEF IInv

\* The handler of the address does not touch the server.
LEMMA HandlerKeeps == IInv /\ ip_event_handler_06 => IInv'
<1> SUFFICES ASSUME IInv, ip_event_handler_06 PROVE IInv'
  OBVIOUS
<1>1. SrvTypeOK'
  <2>1. AddrTypeOK'
    BY Zenon DEF IInv, SrvTypeOK, AddrTypeOK, ip_event_handler_06, ip_event_handler
  <2> QED
    BY <2>1 DEF IInv, SrvTypeOK, ip_event_handler_06, srvOwn, tableVars
<1>2. SocketInv' /\ BufferInv' /\ EchoInv'
  BY DEF IInv, SocketInv, BufferInv, EchoInv, Done, SrvBalanced, SrvHolds, ip_event_handler_06, srvOwn, tableVars
<1> QED
  BY <1>1, <1>2 DEF IInv
-----------------------------------------------------------------------------
(* start_tcp_server *)

\* A new descriptor is one that was not open.
LEMMA Created ==
  ASSUME NEW fd, Create(fd), open \subseteq Fds
  PROVE  /\ misused' = misused /\ open' \subseteq Fds /\ fd \in Fds \cup {None}
         /\ fd = None => open' = open
         /\ fd # None => fd \in Fds \ open /\ open' = open \cup {fd}
<1>1. CASE fd = None /\ UNCHANGED open
  BY <1>1 DEF Create
<1>2. CASE fd \in Fds \ open /\ open' = open \cup {fd}
  <2>1. fd # None
    BY <1>2, MaxFdsAssumption DEF Fds, None
  <2> QED
    BY <1>2, <2>1 DEF Create
<1> QED
  BY <1>1, <1>2 DEF Create

\* Each step of the start either closes what it opened or ends up listening.
LEMMA StartKeeps == IInv /\ start_tcp_server => IInv'
<1> SUFFICES ASSUME IInv, start_tcp_server PROVE IInv'
  OBVIOUS
<1> USE DEF IInv, SrvTypeOK, SocketInv, BufferInv, EchoInv, Done, SrvBalanced, SrvHolds, AddrTypeOK, addrVars
<1>1. ASSUME CreateServer PROVE IInv'
  <2>1. PICK fd \in Fds \cup {None} : Create(fd) /\ server_socket' = fd
                                      /\ srvPc' = IF fd = None THEN "end" ELSE "bind"
    BY <1>1 DEF CreateServer
  <2> QED
    BY <1>1, <2>1, Created DEF CreateServer
<1>2. ASSUME NEW from, NEW to, BindOrListen(from, to),
             <<from, to>> \in {<<"bind", "listen">>, <<"listen", "accept">>}
      PROVE  IInv'
  BY <1>2 DEF BindOrListen, Use, GiveUp, Close
<1>3. ASSUME Accept PROVE IInv'
  <2>1. CASE \E fd \in Fds : Accepted(fd) /\ client_socket' = fd
    <3>1. PICK fd \in Fds : Accepted(fd) /\ client_socket' = fd
      BY <2>1
    <3>2. /\ fd \notin open /\ open' = open \cup {fd} /\ misused' = misused
          /\ srvPc' = "recv" /\ peer' = "up" /\ waiting' = FALSE
          /\ first' = byte + 1 /\ taken' = byte /\ echoed' = <<>>
      BY <3>1, Created, TcpServerAssumption, MaxFdsAssumption DEF Accepted, None, Fds
    <3>3. UNCHANGED <<server_socket, recv_buffer, received, byte, addrVars>>
      BY <1>3 DEF Accept
    <3>4. SrvTypeOK'
      <4>1. misused' \in BOOLEAN /\ waiting' \in BOOLEAN
        BY Zenon, <3>2
      <4>2. AddrTypeOK'
        BY Zenon, <3>3
      <4>3. echoed' \in Seq(0..MaxBytes) /\ first' \in 1..(MaxBytes + 1) /\ taken' \in 0..MaxBytes
        BY <3>2, TcpServerAssumption
      <4> QED
        BY <3>1, <3>2, <3>3, <4>1, <4>2, <4>3
    <3>5. SocketInv'
      BY <1>3, <3>1, <3>2, <3>3 DEF Accept
    <3>6. BufferInv' /\ EchoInv'
      BY <3>2, <3>3, TcpServerAssumption
    <3> QED
      BY <3>4, <3>5, <3>6
  <2>2. CASE client_socket' = None /\ UNCHANGED <<srvPc, peer, first, taken, echoed, tableVars>>
    <3>1. UNCHANGED <<server_socket, recv_buffer, received, byte, addrVars>> /\ srvPc = "accept"
      BY <1>3 DEF Accept
    <3>2. waiting' \in BOOLEAN
      <4>1. waiting' \in {waiting, FALSE} \/ waiting' = FALSE
        BY <1>3 DEF Accept, Accepted
      <4> QED
        BY <4>1
    <3>3. SrvTypeOK'
      BY <2>2, <3>1, <3>2 DEF tableVars
    <3> QED
      BY <2>2, <3>1, <3>3 DEF tableVars
  <2> QED
    BY <1>3, <2>1, <2>2 DEF Accept
<1> QED
  BY <1>1, <1>2, <1>3 DEF start_tcp_server
-----------------------------------------------------------------------------
(* handle_client *)

\* What is received goes to the start of the buffer; the server remembers its length.
LEMMA ReceiveKeeps == IInv /\ Receive => IInv'
<1> SUFFICES ASSUME IInv, Receive PROVE IInv'
  OBVIOUS
<1>1. /\ srvPc = "recv" /\ open' = open
      /\ UNCHANGED <<server_socket, client_socket, waiting, peer, byte, first, echoed, addrVars>>
  BY DEF Receive, Use
<1>2. misused' = FALSE
  <2>1. client_socket \in open /\ misused = FALSE
    BY <1>1 DEF IInv, SocketInv, SrvBalanced, SrvHolds
  <2> QED
    BY <2>1 DEF Receive, Use
<1>3. AddrTypeOK' /\ misused' \in BOOLEAN /\ waiting' \in BOOLEAN
  BY Zenon, <1>1, <1>2 DEF IInv, SrvTypeOK, AddrTypeOK, addrVars
<1> USE TcpServerAssumption DEF IInv, SrvTypeOK, RecvSize, Slots, None
<1>4. CASE \E n \in 1..Least(RecvSize, byte - taken) :
             /\ received' = n /\ taken' = taken + n
             /\ recv_buffer' = [m \in Slots |-> IF m <= n THEN taken + m
                                                ELSE IF m = n + 1 THEN 0 ELSE recv_buffer[m]]
             /\ srvPc' = "send"
  <2>1. PICK n \in 1..Least(RecvSize, byte - taken) :
             /\ received' = n /\ taken' = taken + n
             /\ recv_buffer' = [m \in Slots |-> IF m <= n THEN taken + m
                                                ELSE IF m = n + 1 THEN 0 ELSE recv_buffer[m]]
             /\ srvPc' = "send"
    BY <1>4
  <2>2. n \in 1..(RECV_BUF_SIZE - 1) /\ n + taken <= byte
    BY DEF Least
  <2>3. recv_buffer' \in [Slots -> 0..MaxBytes]
    BY <2>1, <2>2
  <2>4. SrvTypeOK'
    BY <1>1, <1>3, <2>1, <2>2, <2>3
  <2>5. SocketInv'
    BY <1>1, <1>2, <2>1 DEF SocketInv, SrvBalanced, SrvHolds
  <2>6. BufferInv'
    BY <1>1, <2>1, <2>2 DEF BufferInv
  <2>7. EchoInv'
    BY <1>1, <2>1, <2>2 DEF EchoInv, Done
  <2> QED
    BY <2>4, <2>5, <2>6, <2>7
<1>5. CASE srvPc' = "close" /\ received' \in {0, None} /\ UNCHANGED <<recv_buffer, taken>>
  <2>1. SrvTypeOK'
    BY <1>1, <1>3, <1>5
  <2>2. SocketInv'
    BY <1>1, <1>2, <1>5 DEF SocketInv, SrvBalanced, SrvHolds
  <2>3. BufferInv' /\ EchoInv'
    BY <1>1, <1>5 DEF BufferInv, EchoInv, Done
  <2> QED
    BY <2>1, <2>2, <2>3
<1> QED
  BY <1>4, <1>5 DEF Receive, NothingReceived

\* The sequence s is increasing, from lo to hi at most.
Increases(s, lo, hi) ==
  /\ \A m \in 1..Len(s) : s[m] \in lo..hi
  /\ \A m, n \in 1..Len(s) : m < n => s[m] < s[n]

\* An increasing sequence followed by a larger increasing one is increasing.
LEMMA ConcatIncreases ==
  ASSUME NEW S, NEW s \in Seq(S), NEW t \in Seq(S), NEW u, u = s \o t,
         NEW lo \in Int, NEW mid \in Int, NEW hi \in Int, mid <= hi, lo <= mid + 1,
         Increases(s, lo, mid), Increases(t, mid + 1, hi)
  PROVE  Increases(u, lo, hi)
<1> USE DEF Increases
<1> DEFINE k == Len(s)
<1>1. /\ Len(u) = k + Len(t) /\ k \in Nat /\ Len(t) \in Nat
      /\ \A m \in 1..Len(u) : u[m] = IF m <= k THEN s[m] ELSE t[m - k]
  <2>1. /\ Len(s \o t) = k + Len(t)
        /\ \A m \in 1..(k + Len(t)) : (s \o t)[m] = IF m <= k THEN s[m] ELSE t[m - k]
    BY ConcatProperties
  <2>2. k \in Nat /\ Len(t) \in Nat
    BY LenProperties
  <2> QED
    BY <2>1, <2>2
<1>2. \A m \in 1..Len(u) : \/ m \in 1..k /\ u[m] = s[m]
                           \/ m > k /\ m - k \in 1..Len(t) /\ u[m] = t[m - k]
  BY <1>1
<1> HIDE DEF k
<1>3. \A m \in 1..Len(u) : u[m] \in lo..hi
  BY <1>2 DEF k
<1>4. ASSUME NEW m \in 1..Len(u), NEW n \in 1..Len(u), m < n PROVE u[m] < u[n]
  <2>1. CASE n \in 1..k
    <3>1. m \in 1..k /\ u[m] = s[m] /\ u[n] = s[n]
      BY <1>1, <1>2, <1>4, <2>1
    <3>2. \A p, q \in 1..k : p < q => s[p] < s[q]
      BY DEF k
    <3> QED
      BY <1>4, <2>1, <3>1, <3>2
  <2>2. CASE m \in 1..k /\ n > k
    <3>1. u[m] = s[m] /\ n - k \in 1..Len(t) /\ u[n] = t[n - k]
      BY <1>1, <1>2, <2>2
    <3>2. s[m] \in lo..mid /\ t[n - k] \in (mid + 1)..hi
      BY <2>2, <3>1 DEF k
    <3>3. \A a \in lo..mid, b \in (mid + 1)..hi : a < b
      OBVIOUS
    <3> QED
      BY Zenon, <3>1, <3>2, <3>3
  <2>3. CASE m > k
    <3>1. m - k \in 1..Len(t) /\ u[m] = t[m - k] /\ n - k \in 1..Len(t) /\ u[n] = t[n - k]
      BY <1>1, <1>2, <1>4, <2>3
    <3>2. m - k < n - k
      BY <1>1, <1>4
    <3>3. \A p, q \in 1..Len(t) : p < q => t[p] < t[q]
      OBVIOUS
    <3> QED
      BY <3>1, <3>2, <3>3
  <2> QED
    BY <1>1, <2>1, <2>2, <2>3
<1> QED
  BY <1>3, <1>4

\* A part of the buffer that starts with its first byte continues what was echoed before.
LEMMA EchoContinues ==
  ASSUME IInv, srvPc = "send", srvPc' = "recv", NEW n \in 1..received,
         echoed' = echoed \o [m \in 1..n |-> recv_buffer[m]],
         UNCHANGED <<recv_buffer, received, taken, first>>
  PROVE  EchoInv' /\ echoed' \in Seq(0..MaxBytes)
<1> DEFINE part == [m \in 1..n |-> recv_buffer[m]]
<1>1. /\ received \in 1..RecvSize /\ first + received <= taken + 1 /\ RecvSize \in Nat
      /\ \A m \in 1..received : recv_buffer[m] = taken - received + m
      /\ taken \in 0..MaxBytes /\ first \in 1..(MaxBytes + 1) /\ MaxBytes \in Nat
  BY TcpServerAssumption DEF IInv, SrvTypeOK, BufferInv, RecvSize
<1>2. /\ echoed \in Seq(0..MaxBytes) /\ DOMAIN echoed = 1..Len(echoed)
      /\ Increases(echoed, first, taken - received)
  <2>1. echoed \in Seq(0..MaxBytes) /\ DOMAIN echoed = 1..Len(echoed)
    BY DEF IInv, SrvTypeOK
  <2> QED
    BY <2>1 DEF IInv, EchoInv, Done, Increases
<1>3. /\ \A m \in 1..n : part[m] \in 0..MaxBytes /\ part[m] \in (taken - received + 1)..taken
      /\ \A a, b \in 1..n : a < b => part[a] < part[b]
  BY <1>1
<1>4. part \in Seq(0..MaxBytes) /\ Len(part) = n
  <2>1. part \in [1..n -> 0..MaxBytes] /\ n \in Nat
    BY <1>1, <1>3
  <2> QED
    BY <2>1
<1>5. echoed' = echoed \o part
  OBVIOUS
<1> HIDE DEF part
<1>6. echoed' \in Seq(0..MaxBytes) /\ DOMAIN echoed' = 1..Len(echoed')
  <2>1. echoed \o part \in Seq(0..MaxBytes)
    BY <1>2, <1>4, ConcatProperties
  <2> QED
    BY <1>5, <2>1, LenProperties
<1>7. Increases(part, taken - received + 1, taken)
  BY <1>3, <1>4 DEF Increases
<1>8. Increases(echoed', first, taken)
  <2>1. first \in Int /\ taken - received \in Int /\ taken \in Int
        /\ taken - received <= taken /\ first <= taken - received + 1
    BY <1>1
  <2> QED
    BY Zenon, <1>2, <1>4, <1>5, <1>7, <2>1, ConcatIncreases
<1> QED
  BY <1>6, <1>8 DEF EchoInv, Done, Increases

\* The echo of one reception follows what the client got before.
LEMMA SendKeeps == IInv /\ SendBack => IInv'
<1> SUFFICES ASSUME IInv, SendBack PROVE IInv'
  OBVIOUS
<1>1. /\ srvPc = "send" /\ open' = open
      /\ UNCHANGED <<server_socket, client_socket, recv_buffer, received, waiting, peer, byte,
                     taken, first, addrVars>>
  BY DEF SendBack, Use
<1>2. misused' = FALSE
  <2>1. client_socket \in open /\ misused = FALSE
    BY <1>1 DEF IInv, SocketInv, SrvBalanced, SrvHolds
  <2> QED
    BY <2>1 DEF SendBack, Use
<1>3. AddrTypeOK' /\ misused' \in BOOLEAN /\ waiting' \in BOOLEAN
  BY Zenon, <1>1, <1>2 DEF IInv, SrvTypeOK, AddrTypeOK, addrVars
<1>4. srvPc' \in {"recv", "close"} /\ EchoInv' /\ echoed' \in Seq(0..MaxBytes)
  <2>1. CASE \E n \in 1..EchoLen :
               echoed' = echoed \o [m \in 1..n |-> recv_buffer[m]] /\ srvPc' = "recv"
    BY <1>1, <2>1, EchoContinues DEF EchoLen
  <2>2. CASE srvPc' = "close" /\ UNCHANGED echoed
    BY <1>1, <2>2, TcpServerAssumption DEF IInv, SrvTypeOK, BufferInv, EchoInv, Done, RecvSize
  <2> QED
    BY <2>1, <2>2 DEF SendBack
<1>5. SrvTypeOK'
  BY <1>1, <1>3, <1>4 DEF IInv, SrvTypeOK
<1>6. SocketInv'
  BY <1>1, <1>2, <1>4 DEF IInv, SocketInv, SrvBalanced, SrvHolds
<1>7. BufferInv'
  BY <1>1, <1>4 DEF IInv, BufferInv
<1> QED
  BY <1>4, <1>5, <1>6, <1>7 DEF IInv

\* Closing the client leaves the listening socket alone.
LEMMA CloseKeeps == IInv /\ CloseClient => IInv'
<1> SUFFICES ASSUME IInv, CloseClient PROVE IInv'
  OBVIOUS
<1>1. /\ srvPc = "close" /\ srvPc' = "accept" /\ peer' = "none" /\ open' = open \ {client_socket}
      /\ UNCHANGED <<server_socket, client_socket, recv_buffer, received, waiting,
                     byte, taken, first, echoed, addrVars>>
  BY DEF CloseClient, Close
<1>2. misused' = FALSE
  <2>1. client_socket \in open /\ misused = FALSE
    BY <1>1 DEF IInv, SocketInv, SrvBalanced, SrvHolds
  <2> QED
    BY <2>1 DEF CloseClient, Close
<1>3. AddrTypeOK' /\ misused' \in BOOLEAN /\ waiting' \in BOOLEAN
  BY Zenon, <1>1, <1>2 DEF IInv, SrvTypeOK, AddrTypeOK, addrVars
<1>4. SrvTypeOK'
  BY <1>1, <1>3 DEF IInv, SrvTypeOK
<1>5. SocketInv'
  BY <1>1, <1>2 DEF IInv, SocketInv, SrvBalanced, SrvHolds
<1>6. BufferInv' /\ EchoInv'
  BY <1>1 DEF IInv, BufferInv, EchoInv, Done
<1> QED
  BY <1>4, <1>5, <1>6 DEF IInv
-----------------------------------------------------------------------------
\* The clients add bytes that have not been received yet.
LEMMA ClientsKeep == IInv /\ (Connect \/ ClientSends \/ ClientLeaves) => IInv'
<1> SUFFICES ASSUME IInv, Connect \/ ClientSends \/ ClientLeaves PROVE IInv'
  OBVIOUS
<1>1. /\ UNCHANGED <<srvPc, server_socket, client_socket, recv_buffer, received, taken, first,
                     echoed, tableVars, addrVars>>
      /\ byte' \in {byte, byte + 1} /\ (byte' = byte + 1 => byte < MaxBytes)
  BY TcpServerAssumption DEF Connect, ClientSends, ClientLeaves, IInv, SrvTypeOK
<1>2. waiting' \in BOOLEAN /\ peer' \in {"none", "up"} \cup Left
  <2>1. waiting' = waiting \/ waiting' = TRUE
    BY DEF Connect, ClientSends, ClientLeaves
  <2>2. waiting' \in BOOLEAN
    BY Zenon, <2>1 DEF IInv, SrvTypeOK
  <2>3. peer' \in {"none", "up"} \cup Left
    BY DEF Connect, ClientSends, ClientLeaves, IInv, SrvTypeOK
  <2> QED
    BY <2>2, <2>3
<1>3. SrvTypeOK'
  <2>1. AddrTypeOK' /\ misused' \in BOOLEAN
    BY Zenon, <1>1 DEF IInv, SrvTypeOK, AddrTypeOK, addrVars, tableVars
  <2>2. byte' \in 0..MaxBytes
    BY <1>1, TcpServerAssumption DEF IInv, SrvTypeOK
  <2> QED
    BY <1>1, <1>2, <2>1, <2>2 DEF IInv, SrvTypeOK, tableVars
<1>4. SocketInv'
  BY <1>1 DEF IInv, SocketInv, SrvBalanced, SrvHolds, tableVars
<1>5. BufferInv' /\ EchoInv'
  BY <1>1 DEF IInv, SrvTypeOK, BufferInv, EchoInv, Done
<1> QED
  BY <1>3, <1>4, <1>5 DEF IInv

\* The invariant is inductive.
LEMMA NextIInv == IInv /\ [SrvNext]_srvVars => IInv'
<1> SUFFICES ASSUME IInv, [SrvNext]_srvVars PROVE IInv'
  OBVIOUS
<1>1. CASE SrvNext
  BY <1>1, MainKeeps, HandlerKeeps, StartKeeps, ReceiveKeeps, SendKeeps, CloseKeeps, ClientsKeep
  DEF SrvNext, SrvMain, handle_client
<1>2. CASE UNCHANGED srvVars
  BY <1>2 DEF IInv, SrvTypeOK, AddrTypeOK, SocketInv, SrvBalanced, SrvHolds, BufferInv, EchoInv, Done,
              srvVars, srvOwn, tableVars, addrVars
<1> QED
  BY <1>1, <1>2

\* Each variable of the server keeps its type, for every buffer and every table.
THEOREM SrvTypeCorrect == SrvSpec => []SrvTypeOK
<1>1. IInv => SrvTypeOK
  BY DEF IInv
<1> QED
  BY <1>1, InitIInv, NextIInv, PTL DEF SrvSpec

\* Whatever fails, the server holds the listening socket, the socket of its client, and
\* nothing else, and misuses no descriptor.
THEOREM ServerBalanced == SrvSpec => [](SrvBalanced /\ ~misused)
<1>1. IInv => SrvBalanced /\ ~misused
  BY DEF IInv, SocketInv
<1> QED
  BY <1>1, InitIInv, NextIInv, PTL DEF SrvSpec

\* What was echoed are bytes of this client that were received.
LEMMA EchoesTaken == IInv => EchoedInOrder
<1> SUFFICES ASSUME IInv, NEW m \in DOMAIN echoed PROVE echoed[m] \in first..taken
  BY DEF EchoedInOrder, IInv, EchoInv
<1>1. first..Done \subseteq first..taken
  BY TcpServerAssumption DEF IInv, SrvTypeOK, BufferInv, Done, RecvSize
<1> QED
  BY <1>1 DEF IInv, EchoInv

\* A client gets back its own bytes, in order, each at most once.
THEOREM EchoInOrder == SrvSpec => []EchoedInOrder
  BY EchoesTaken, InitIInv, NextIInv, PTL DEF SrvSpec
-----------------------------------------------------------------------------
(* TcpClient *)

ClientConnected == cliPc \in {"address", "connect", "send", "recv", "print"}

\* While the client is connecting or connected its socket is a descriptor, the only open one.
CliInv == misused = FALSE /\ CliBalanced /\ (ClientConnected => tcp_socket \in Fds)

\* The client has no socket at the start.
LEMMA CliInitInv == CliInit => CliInv
  BY DEF CliInit, TableInit, CliInv, CliBalanced, ClientConnected

\* Whichever call fails, its socket is closed once.
LEMMA CliNextInv == CliInv /\ [CliNext]_cliVars => CliInv'
<1> SUFFICES ASSUME CliInv, [CliNext]_cliVars PROVE CliInv'
  OBVIOUS
<1> USE DEF CliInv, CliBalanced, ClientConnected
<1>1. CASE main_05
  BY <1>1 DEF main_05, tableVars
<1>2. CASE CreateSocket
  <2>1. PICK fd \in Fds \cup {None} :
          Create(fd) /\ tcp_socket' = fd /\ cliPc' = IF fd = None THEN "sleep" ELSE "address"
    BY <1>2 DEF CreateSocket
  <2>2. open = {} /\ open \subseteq Fds
    BY <1>2 DEF CreateSocket
  <2> QED
    BY <2>1, <2>2, Created
<1>3. CASE ConvertAddress
  BY <1>3 DEF ConvertAddress, Close, tableVars
<1>4. CASE CallServer("connect", "send") \/ CallServer("send", "recv")
  BY <1>4 DEF CallServer, Abandon, Use, Close
<1>5. CASE ReceiveAnswer
  BY <1>5 DEF ReceiveAnswer, Abandon, Use, Close
<1>6. CASE CloseConnection
  BY <1>6 DEF CloseConnection, Abandon, Close
<1>7. CASE ip_event_handler_05 \/ ServerStops \/ UNCHANGED cliVars
  BY <1>7 DEF ip_event_handler_05, ServerStops, cliVars, cliOwn, tableVars
<1> QED
  BY <1>1, <1>2, <1>3, <1>4, <1>5, <1>6, <1>7 DEF CliNext, CliMain, tcp_connect_and_send

\* tcp_connect_and_send: whichever call fails, the client that goes to sleep has no socket open,
\* and it neither uses nor closes one that is not open.
THEOREM TcpClientBalanced == CliSpec => [](CliBalanced /\ ~misused)
<1>1. CliInv => CliBalanced /\ ~misused
  BY DEF CliInv
<1> QED
  BY <1>1, CliInitInv, CliNextInv, PTL DEF CliSpec
-----------------------------------------------------------------------------
(* UdpSamples *)

\* Between the creation and the end the socket is a descriptor, the only open one.
UdpInv ==
  /\ misused = FALSE /\ UdpBalanced
  /\ udpPc \notin {"start", "create", "end"} => sock \in Fds

\* There is no socket at the start.
LEMMA UdpInitInv == UdpInit => UdpInv
  BY DEF UdpInit, TableInit, UdpInv, UdpBalanced

\* The steps of the sender.
LEMMA UdpSendKeeps == UdpInv /\ (ConvertUdpAddress \/ ConnectUdp \/ SendPacket \/ CloseSender) => UdpInv'
  BY DEF UdpInv, UdpBalanced, ConvertUdpAddress, ConnectUdp, SendPacket, CloseSender, UdpClosed,
         Use, Close, tableVars

\* The steps of the receiver.
LEMMA UdpReceiveKeeps == UdpInv /\ (BindUdp \/ ReceiveUdp \/ PrintDatagram \/ CloseReceiver) => UdpInv'
  BY DEF UdpInv, UdpBalanced, BindUdp, ReceiveUdp, PrintDatagram, CloseReceiver, UdpClosed,
         Use, Close, tableVars

\* The creation, which both begin with.
LEMMA UdpCreateKeeps == UdpInv /\ CreateUdp => UdpInv'
<1> SUFFICES ASSUME UdpInv, CreateUdp PROVE UdpInv'
  OBVIOUS
<1>1. PICK fd \in Fds \cup {None} :
        /\ Create(fd) /\ sock' = fd
        /\ udpPc' = IF fd = None THEN "end" ELSE IF sender THEN "address" ELSE "bind"
  BY DEF CreateUdp
<1>2. open = {} /\ open \subseteq Fds /\ misused = FALSE
  BY DEF UdpInv, UdpBalanced, CreateUdp
<1>3. CASE fd = None
  BY <1>1, <1>2, <1>3, Created DEF UdpInv, UdpBalanced
<1>4. CASE fd # None
  <2>1. fd \in Fds /\ open' = {fd} /\ misused' = FALSE /\ udpPc' \in {"address", "bind"} /\ sock' = fd
    BY <1>1, <1>2, <1>4, Created
  <2> QED
    BY <2>1 DEF UdpInv, UdpBalanced
<1> QED
  BY <1>3, <1>4

\* Every step keeps the socket balanced.
LEMMA UdpNextInv == UdpInv /\ [UdpNext]_udpVars => UdpInv'
<1> SUFFICES ASSUME UdpInv, [UdpNext]_udpVars PROVE UdpInv'
  OBVIOUS
<1>1. CASE main_07 \/ main_08
  BY <1>1 DEF main_07, main_08, tableVars, UdpInv, UdpBalanced
<1>2. CASE UdpHandler \/ DatagramArrives \/ UNCHANGED udpVars
  BY <1>2 DEF UdpHandler, ip_event_handler_07, ip_event_handler_08, DatagramArrives,
              udpVars, udpOwn, tableVars, UdpInv, UdpBalanced
<1> QED
  BY <1>1, <1>2, UdpSendKeeps, UdpReceiveKeeps, UdpCreateKeeps
  DEF UdpNext, UdpMain, udp_send_packets, udp_receive

\* udp_send_packets and udp_receive: whatever fails, the one socket is closed at the end and not
\* before, for every number of packets and every length of datagrams.
THEOREM UdpSocketBalanced == UdpSpec => [](UdpBalanced /\ ~misused)
<1>1. UdpInv => UdpBalanced /\ ~misused
  BY DEF UdpInv
<1> QED
  BY <1>1, UdpInitInv, UdpNextInv, PTL DEF UdpSpec
-----------------------------------------------------------------------------
(* All networking samples: one of them runs, with the descriptors and the address.           *)

\* What the programs share has its type.
SharedTypeOK == open \subseteq Fds /\ misused \in BOOLEAN /\ AddrTypeOK

\* What the TCP and UDP samples do with the address.
AddrStep ==
  ip_event_handler \/ RegisterThenAssign \/ AddedPrinted \/ UNCHANGED addrVars

\* They assign it once, after the handler is registered, and leave the rest to the handler.
LEMMA AddrSteps ==
  /\ CliNext => AddrStep
  /\ SrvNext => AddrStep
  /\ UdpNext => AddrStep
<1>1. CliNext => AddrStep
  BY DEF AddrStep, CliNext, CliMain, main_05, assign_static_ip_05, tcp_connect_and_send, CreateSocket,
         ConvertAddress, CallServer, ReceiveAnswer, CloseConnection, ip_event_handler_05, ServerStops
<1>2. SrvNext => AddrStep
  BY DEF AddrStep, SrvNext, SrvMain, main_06, assign_static_ip_06, start_tcp_server, CreateServer,
         BindOrListen, Accept, handle_client, Receive, SendBack, CloseClient, Connect, ClientSends,
         ClientLeaves, ip_event_handler_06
<1>3. UdpNext => AddrStep
  BY DEF AddrStep, UdpNext, UdpMain, UdpHandler, main_07, main_08, assign_static_ip_07, assign_static_ip_08,
         udp_send_packets, udp_receive, CreateUdp, ConvertUdpAddress, ConnectUdp, SendPacket, CloseSender,
         BindUdp, ReceiveUdp, PrintDatagram, CloseReceiver, DatagramArrives, ip_event_handler_07,
         ip_event_handler_08
<1> QED
  BY <1>1, <1>2, <1>3

\* These steps keep the types of the address, and no address is left without its event.
LEMMA AddrKeeps ==
  ASSUME AddrStep
  PROVE  /\ AddrTypeOK => AddrTypeOK'
         /\ AddressPending => AddressPending'
<1>1. AddrTypeOK => AddrTypeOK'
  BY Zenon DEF AddrStep, AddrTypeOK, ip_event_handler, RegisterThenAssign, AddAddress, AddedPrinted, addrVars
<1>2. AddressPending => AddressPending'
  BY Zenon DEF AddrStep, AddressPending, ip_event_handler, RegisterThenAssign, AddAddress, AddedPrinted,
               addrVars
<1> QED
  BY <1>1, <1>2

\* A call of the sockets library keeps the descriptors.
LEMMA TableKeeps ==
  ASSUME open \subseteq Fds, misused \in BOOLEAN, NEW fd,
         Create(fd) \/ Use(fd) \/ Close(fd) \/ UNCHANGED tableVars
  PROVE  open' \subseteq Fds /\ misused' \in BOOLEAN
<1>1. open' \subseteq Fds
  BY DEF Create, Use, Close, tableVars
<1>2. misused' \in BOOLEAN
  BY Zenon DEF Create, Use, Close, tableVars
<1> QED
  BY <1>1, <1>2
-----------------------------------------------------------------------------
(* The types of TcpClient: what recv returned leaves room for the terminator. *)

\* The variables of the client alone.
CliOwnTypeOK ==
  /\ cliPc \in {"start", "create", "address", "connect", "send", "recv", "print", "sleep", "end"}
  /\ tcp_socket \in Fds \cup {None} /\ ret \in -1..(AnswerBuf - 1)

\* Types are kept by each step of the client.
LEMMA CliNextType == CliTypeOK /\ CliNext => CliTypeOK'
<1> SUFFICES ASSUME CliTypeOK, CliNext PROVE CliTypeOK'
  OBVIOUS
<1>1. CliOwnTypeOK /\ SharedTypeOK /\ valid \in BOOLEAN /\ serverUp \in BOOLEAN
  BY DEF CliTypeOK, CliOwnTypeOK, SharedTypeOK
<1>2. valid' \in BOOLEAN /\ serverUp' \in BOOLEAN
  <2>1. valid' = valid /\ (serverUp' = serverUp \/ serverUp' = FALSE)
    BY DEF CliNext, CliMain, main_05, tcp_connect_and_send, CreateSocket, ConvertAddress, CallServer,
           ReceiveAnswer, CloseConnection, ip_event_handler_05, ServerStops, cliOwn
  <2> QED
    BY Zenon, <1>1, <2>1
<1>3. open' \subseteq Fds /\ misused' \in BOOLEAN
  <2>1. \E fd \in Fds \cup {None} : Create(fd) \/ Use(fd) \/ Close(fd) \/ UNCHANGED tableVars
    BY <1>1 DEF CliOwnTypeOK, CliNext, CliMain, main_05, tcp_connect_and_send, CreateSocket, ConvertAddress,
           CallServer, ReceiveAnswer, CloseConnection, Abandon, ip_event_handler_05, ServerStops
  <2> QED
    BY Zenon, <1>1, <2>1, TableKeeps DEF SharedTypeOK
<1>4. AddrTypeOK'
  BY Zenon, <1>1, AddrSteps, AddrKeeps DEF SharedTypeOK
<1>5. CliOwnTypeOK'
  <2> USE <1>1, TcpClientAssumption DEF CliOwnTypeOK, None
  <2>1. CASE main_05
    BY <2>1 DEF main_05
  <2>2. CASE CreateSocket
    BY <2>2 DEF CreateSocket
  <2>3. CASE ConvertAddress
    BY <2>3 DEF ConvertAddress
  <2>4. CASE CallServer("connect", "send") \/ CallServer("send", "recv")
    BY <2>4 DEF CallServer, Abandon
  <2>5. CASE ReceiveAnswer
    BY <2>5 DEF ReceiveAnswer, Abandon
  <2>6. CASE CloseConnection
    BY <2>6 DEF CloseConnection, Abandon
  <2>7. CASE ip_event_handler_05 \/ ServerStops
    BY <2>7 DEF ip_event_handler_05, ServerStops, cliOwn
  <2> QED
    BY <2>1, <2>2, <2>3, <2>4, <2>5, <2>6, <2>7 DEF CliNext, CliMain, tcp_connect_and_send
<1> QED
  BY <1>2, <1>3, <1>4, <1>5 DEF CliTypeOK, CliOwnTypeOK
-----------------------------------------------------------------------------
(* The types of UdpSamples: a packet is counted once, whether its sending fails or not. *)

UdpOwnTypeOK ==
  /\ udpPc \in {"start", "create", "address", "connect", "send", "close",
                "bind", "recv", "print", "failed", "end"}
  /\ sock \in Fds \cup {None}
  /\ packet_count \in 0..Packets /\ packet_i \in 0..Packets /\ udpReceived \in -1..(BUFFER_SIZE - 1)
  /\ datagrams \in Seq(0..MaxDatagram)

\* Until the last packet the number of the next packet is the index of the loop.
PacketsNumbered ==
  udpPc \in {"start", "create", "address", "connect", "send"} => packet_count = packet_i

UdpTypeInv == UdpTypeOK /\ PacketsNumbered

\* The variables of the sender and of the receiver keep their types.
LEMMA UdpOwnKeeps ==
  ASSUME UdpOwnTypeOK, PacketsNumbered, UdpNext
  PROVE  UdpOwnTypeOK' /\ PacketsNumbered'
<1> USE UdpAssumption DEF UdpOwnTypeOK, PacketsNumbered, None
<1>1. CASE main_07 \/ main_08
  BY <1>1 DEF main_07, main_08
<1>2. CASE CreateUdp
  BY <1>2 DEF CreateUdp
<1>3. CASE ConvertUdpAddress \/ ConnectUdp \/ CloseSender
  BY <1>3 DEF ConvertUdpAddress, ConnectUdp, CloseSender, UdpClosed
<1>4. CASE SendPacket
  BY <1>4 DEF SendPacket
<1>5. CASE BindUdp \/ PrintDatagram \/ CloseReceiver
  BY <1>5 DEF BindUdp, PrintDatagram, CloseReceiver, UdpClosed
<1>6. CASE ReceiveUdp
  <2>1. ASSUME datagrams # <<>> PROVE Head(datagrams) \in 0..MaxDatagram /\ Tail(datagrams) \in Seq(0..MaxDatagram)
    BY <2>1
  <2>2. udpPc' \in {"recv", "print", "failed"} /\ UNCHANGED <<sock, packet_count, packet_i>>
    BY <1>6 DEF ReceiveUdp
  <2>3. udpReceived' \in -1..(BUFFER_SIZE - 1)
    BY <1>6, <2>1 DEF ReceiveUdp
  <2>4. datagrams' \in Seq(0..MaxDatagram)
    BY <1>6, <2>1 DEF ReceiveUdp
  <2> QED
    BY <2>2, <2>3, <2>4
<1>7. CASE DatagramArrives
  <2>1. PICK n \in 0..MaxDatagram : datagrams' = Append(datagrams, n)
    BY <1>7 DEF DatagramArrives
  <2> QED
    BY <1>7, <2>1 DEF DatagramArrives
<1>8. CASE UdpHandler
  BY <1>8 DEF UdpHandler, ip_event_handler_07, ip_event_handler_08, udpOwn
<1> QED
  BY <1>1, <1>2, <1>3, <1>4, <1>5, <1>6, <1>7, <1>8 DEF UdpNext, UdpMain, udp_send_packets, udp_receive

\* Types are kept by each step of the sender and of the receiver.
LEMMA UdpNextType == UdpTypeInv /\ UdpNext => UdpTypeInv'
<1> SUFFICES ASSUME UdpTypeInv, UdpNext PROVE UdpTypeInv'
  OBVIOUS
<1>1. UdpOwnTypeOK /\ SharedTypeOK /\ sender \in BOOLEAN /\ goodAddr \in BOOLEAN
  BY DEF UdpTypeInv, UdpTypeOK, UdpOwnTypeOK, SharedTypeOK
<1>2. sender' \in BOOLEAN /\ goodAddr' \in BOOLEAN
  <2>1. sender' = sender /\ goodAddr' = goodAddr
    BY DEF UdpNext, UdpMain, UdpHandler, main_07, main_08, udp_send_packets, udp_receive, CreateUdp,
           ConvertUdpAddress, ConnectUdp, SendPacket, CloseSender, BindUdp, ReceiveUdp, PrintDatagram,
           CloseReceiver, DatagramArrives, ip_event_handler_07, ip_event_handler_08, udpOwn
  <2> QED
    BY Zenon, <1>1, <2>1
<1>3. open' \subseteq Fds /\ misused' \in BOOLEAN
  <2>1. \E fd \in Fds \cup {None} : Create(fd) \/ Use(fd) \/ Close(fd) \/ UNCHANGED tableVars
    BY <1>1 DEF UdpOwnTypeOK, UdpNext, UdpMain, UdpHandler, main_07, main_08, udp_send_packets, udp_receive,
           CreateUdp, ConvertUdpAddress, ConnectUdp, SendPacket, CloseSender, BindUdp, ReceiveUdp,
           PrintDatagram, CloseReceiver, DatagramArrives, ip_event_handler_07, ip_event_handler_08, UdpClosed
  <2> QED
    BY Zenon, <1>1, <2>1, TableKeeps DEF SharedTypeOK
<1>4. AddrTypeOK'
  BY Zenon, <1>1, AddrSteps, AddrKeeps DEF SharedTypeOK
<1> QED
  BY <1>1, <1>2, <1>3, <1>4, UdpOwnKeeps DEF UdpTypeInv, UdpTypeOK, UdpOwnTypeOK
-----------------------------------------------------------------------------
(* EthernetLink: the callback of the PHY driver, on main and in the driver's own thread.     *)

\* What the callback of _03 does with the address.
LEMMA AssignKeeps ==
  ASSUME NEW up \in BOOLEAN, AssignOrRemove(up), AddrTypeOK
  PROVE  /\ AddrTypeOK' /\ listening' = listening
         /\ ipv4' = ipv4 /\ address' = (ipv4 /\ up)
         /\ listening /\ AddressPending => AddressPending'
<1>1. CASE up /\ assign_static_ip_03
  <2>1. AddAddress(listening) /\ listening' = listening
    BY <1>1 DEF assign_static_ip_03
  <2>2. AddrTypeOK' /\ ipv4' = ipv4 /\ address' = (ipv4 /\ up)
    BY Zenon, <1>1, <2>1 DEF AddAddress, AddrTypeOK
  <2>3. listening /\ AddressPending => AddressPending'
    BY Zenon, <2>1 DEF AddAddress, AddressPending
  <2> QED
    BY <2>1, <2>2, <2>3
<1>2. CASE ~up /\ remove_static_ip
  <2>1. AddrTypeOK' /\ ipv4' = ipv4 /\ address' = (ipv4 /\ up)
    BY Zenon, <1>2 DEF remove_static_ip, AddrTypeOK
  <2> QED
    BY <1>2, <2>1 DEF remove_static_ip, AddressPending
<1> QED
  BY <1>1, <1>2 DEF AssignOrRemove

\* What a report of the driver changes: the address in _03 alone, once the callback is set.
LEMMA ReportKeeps ==
  ASSUME PhyDriver, LinkTypeOK
  PROVE  /\ AddrTypeOK' /\ listening' = listening
         /\ last_state' \in BOOLEAN /\ reported' = link
         /\ CallbackSet => last_state' = reported'
         /\ linkProgram = "_03" /\ CallbackSet => address' = (ipv4' /\ reported')
         /\ (linkProgram = "_03" /\ CallbackSet => listening) /\ AddressPending => AddressPending'
<1>1. CASE (UNCHANGED addrVars /\ ~(linkProgram = "_03" /\ CallbackSet))
  <2>1. AddrTypeOK' /\ (AddressPending => AddressPending') /\ listening' = listening
    BY <1>1 DEF LinkTypeOK, AddrTypeOK, AddressPending, addrVars
  <2>2. last_state' \in BOOLEAN /\ reported' = link /\ (CallbackSet => last_state' = reported')
    BY DEF PhyDriver, LinkTypeOK, phy_link_state_changed_02, phy_link_state_changed_03
  <2> QED
    BY <1>1, <2>1, <2>2
<1>2. CASE linkProgram = "_03" /\ CallbackSet /\ phy_link_state_changed_03(link)
  <2>1. AssignOrRemove(link) /\ last_state' = link /\ reported' = link
    BY <1>2 DEF PhyDriver, phy_link_state_changed_03
  <2>2. /\ AddrTypeOK' /\ listening' = listening /\ ipv4' = ipv4 /\ address' = (ipv4 /\ link)
        /\ listening /\ AddressPending => AddressPending'
    BY <2>1, AssignKeeps DEF LinkTypeOK
  <2>3. address' = (ipv4' /\ reported')
    BY Zenon, <2>1, <2>2
  <2>4. last_state' \in BOOLEAN /\ last_state' = reported'
    BY <2>1 DEF LinkTypeOK
  <2> QED
    BY <1>2, <2>1, <2>2, <2>3, <2>4
<1> QED
  BY <1>1, <1>2 DEF PhyDriver, phy_link_state_changed_02

\* What the programs of the link remember of it has its type.
LEMMA LinkNextType == LinkTypeOK /\ LinkNext => LinkTypeOK'
<1> SUFFICES ASSUME LinkTypeOK, LinkNext PROVE LinkTypeOK'
  OBVIOUS
<1>1. /\ linkProgram' = linkProgram
      /\ linkPc' \in {"start", "register", "test", "print", "assign", "poll", "sleep", "dhcp", "end"}
  BY DEF LinkTypeOK, LinkNext, LinkMain, LinkHandler, main_01, main_02, main_03, main_04, Returns, PollLink,
         phy_link_callback_set, TestState, PrintState, AssignState, PhyDriver, DhcpBound, Cable,
         ip_event_handler_03, handler_04, start_dhcpv4_client, linkOwn
<1>2. /\ AddrTypeOK' /\ link' \in BOOLEAN /\ reported' \in BOOLEAN /\ last_state' \in BOOLEAN
      /\ is_up' \in BOOLEAN /\ overtaken' \in BOOLEAN
  <2> USE DEF LinkTypeOK, mainOwn
  <2>1. CASE PhyDriver
    <3>1. overtaken' \in BOOLEAN
      BY Zenon, <2>1 DEF PhyDriver
    <3> QED
      BY <2>1, <3>1, ReportKeeps DEF PhyDriver
  <2>2. CASE UNCHANGED <<link, reported, overtaken, is_up, addrVars>> /\ last_state' \in {link, last_state}
    <3>1. AddrTypeOK'
      BY Zenon, <2>2 DEF addrVars, AddrTypeOK
    <3> QED
      BY <2>2, <3>1
  <2>3. CASE main_01 \/ main_02
    <3>1. UNCHANGED <<link, reported, overtaken, is_up, addrVars>> /\ last_state' \in {link, last_state}
      BY <2>3 DEF main_01, main_02, Returns, PollLink, Remember, phy_link_callback_set
    <3> QED
      BY <2>2, <3>1
  <2>4. CASE main_03
    <3>1. CASE listening' = TRUE /\ UNCHANGED <<link, reported, overtaken, mainOwn, ipv4, address, addrEvent,
                                               announced>>
      BY Zenon, <3>1 DEF AddrTypeOK
    <3>2. CASE UNCHANGED <<link, reported, overtaken, is_up, addrVars>> /\ last_state' = last_state
      BY <2>2, <3>2
    <3> QED
      BY <2>4, <3>1, <3>2 DEF main_03, Returns, phy_link_callback_set
  <2>5. CASE TestState \/ PrintState
    BY Zenon, <2>5 DEF TestState, PrintState, addrVars, AddrTypeOK
  <2>6. CASE AssignState
    BY <2>6, AssignKeeps DEF AssignState
  <2>7. CASE main_04 \/ DhcpBound
    BY Zenon, <2>7 DEF main_04, DhcpBound, AddAddress, linkOwn, AddrTypeOK
  <2>8. CASE LinkHandler \/ Cable
    BY Zenon, <2>8 DEF LinkHandler, ip_event_handler_03, handler_04, ip_event_handler, Cable, linkOwn, addrVars,
                       AddrTypeOK
  <2> QED
    BY Zenon, <2>1, <2>3, <2>4, <2>5, <2>6, <2>7, <2>8 DEF LinkNext, LinkMain
<1> QED
  BY <1>1, <1>2 DEF LinkTypeOK

\* _03 and _04 register their handler before an address can come.
LinkHears ==
  /\ linkProgram = "_03" /\ (linkPc = "register" \/ CallbackSet) => listening
  /\ linkPc = "assign" => linkProgram = "_03"
  /\ linkPc = "dhcp" => listening
  /\ linkPc = "poll" => linkProgram = "_01"

LinkInv == LinkHears /\ AddressPending

\* The link may come and go: each address that is assigned has an event.
LEMMA LinkNextInv == LinkTypeOK /\ LinkInv /\ LinkNext => LinkInv'
<1> SUFFICES ASSUME LinkTypeOK, LinkInv, LinkNext PROVE LinkInv'
  OBVIOUS
<1> USE DEF LinkInv, LinkHears, CallbackSet
<1>1. CASE \E p \in {"_01", "_02", "_03"} : Returns(p)
  BY <1>1 DEF Returns, addrVars, AddressPending
<1>2. CASE main_01 \/ Cable
  BY <1>2 DEF main_01, Returns, PollLink, Cable, addrVars, AddressPending
<1>3. CASE \/ linkProgram = "_02" /\ phy_link_callback_set("start")
           \/ linkProgram = "_03" /\ phy_link_callback_set("register")
           \/ TestState \/ PrintState
  BY <1>3 DEF phy_link_callback_set, TestState, PrintState, addrVars, AddressPending
<1>4. CASE /\ linkPc = "start" /\ listening' = TRUE /\ linkPc' \in {"register", "dhcp"}
           /\ UNCHANGED <<linkProgram, address, addrEvent, announced>>
  BY <1>4 DEF AddressPending
<1>5. CASE AssignState
  <2>1. AddressPending' /\ listening' = listening
    BY <1>5, AssignKeeps DEF AssignState, LinkTypeOK
  <2> QED
    BY <1>5, <2>1 DEF AssignState
<1>6. CASE PhyDriver
  <2>1. AddressPending' /\ listening' = listening
    BY <1>6, ReportKeeps
  <2> QED
    BY <1>6, <2>1 DEF PhyDriver
<1>7. CASE DhcpBound
  <2>1. AddAddress(listening) /\ listening' = listening /\ listening
    BY <1>7 DEF DhcpBound
  <2>2. AddressPending'
    BY Zenon, <2>1 DEF AddAddress, AddressPending
  <2> QED
    BY <1>7, <2>1, <2>2 DEF DhcpBound, linkOwn
<1>8. CASE LinkHandler
  <2>1. ip_event_handler /\ UNCHANGED linkOwn
    BY <1>8 DEF LinkHandler, ip_event_handler_03, handler_04
  <2>2. AddressPending' /\ listening' = listening
    BY Zenon, <2>1 DEF ip_event_handler, AddressPending
  <2> QED
    BY <2>1, <2>2 DEF linkOwn
<1> QED
  BY <1>1, <1>2, <1>3, <1>4, <1>5, <1>6, <1>7, <1>8
  DEF LinkNext, LinkMain, main_02, main_03, main_04, start_dhcpv4_client

\* While main of _02 and _03 sleeps, what was printed last is what the driver reported last, and
\* in _03 the interface has its address exactly when that was a link that is up; but when the
\* driver's last report overtook main inside the callback, the address follows what main had
\* read before.
LinkShown ==
  linkPc = "sleep" =>
    /\ ~overtaken => last_state = reported
    /\ linkProgram = "_03" => address = (ipv4 /\ IF overtaken THEN is_up ELSE reported)

\* What main knows of the link on its way through the callback.
LinkRead ==
  linkPc \in {"print", "assign"} /\ ~overtaken
    => is_up = reported /\ (linkPc = "assign" => last_state = is_up)

\* A step of main inside the callback, a report of the driver, or one that disturbs neither.
LEMMA LinkShownNext ==
  LinkTypeOK /\ LinkRead /\ LinkShown /\ [LinkNext]_linkVars => LinkRead' /\ LinkShown'
<1> SUFFICES ASSUME LinkTypeOK, LinkRead, LinkShown, [LinkNext]_linkVars PROVE LinkRead' /\ LinkShown'
  OBVIOUS
<1>1. CASE linkPc' \notin {"print", "assign", "sleep"}
  BY <1>1 DEF LinkRead, LinkShown
<1>2. CASE UNCHANGED <<linkProgram, linkPc, reported, overtaken, mainOwn, address, ipv4>>
  BY <1>2 DEF LinkRead, LinkShown, mainOwn
<1>3. CASE TestState
  BY <1>3 DEF TestState, LinkRead, LinkShown
<1>4. CASE PrintState
  BY <1>4 DEF PrintState, LinkRead, LinkShown, LinkTypeOK
<1>5. CASE AssignState
  <2>1. address' = (ipv4' /\ is_up)
    BY <1>5, AssignKeeps DEF AssignState, LinkTypeOK
  <2> QED
    BY <1>5, <2>1 DEF AssignState, LinkRead, LinkShown, mainOwn
<1>6. CASE PhyDriver
  <2>1. CASE linkPc \in {"print", "assign"}
    BY <1>6, <2>1 DEF PhyDriver, LinkRead, LinkShown
  <2>2. CASE linkPc = "sleep"
    <3>1. ~overtaken' /\ linkPc' = "sleep" /\ linkProgram' = linkProgram
      BY <1>6, <2>2 DEF PhyDriver
    <3> QED
      BY <1>6, <2>2, <3>1, ReportKeeps DEF CallbackSet, LinkRead, LinkShown
  <2> QED
    BY <1>1, <1>6, <2>1, <2>2 DEF PhyDriver
<1>7. Cable \/ LinkHandler => UNCHANGED <<linkProgram, linkPc, reported, overtaken, mainOwn, address, ipv4>>
  BY DEF Cable, LinkHandler, ip_event_handler_03, handler_04, ip_event_handler, linkOwn, addrVars
<1>8. main_01 \/ main_02 \/ main_03 \/ main_04 \/ DhcpBound => linkPc' \notin {"print", "assign", "sleep"}
  BY DEF main_01, main_02, main_03, main_04, Returns, PollLink, DhcpBound, phy_link_callback_set,
         start_dhcpv4_client, linkOwn
<1>9. UNCHANGED linkVars => UNCHANGED <<linkProgram, linkPc, reported, overtaken, mainOwn, address, ipv4>>
  BY DEF linkVars, linkOwn, addrVars
<1> QED
  BY <1>1, <1>2, <1>3, <1>4, <1>5, <1>6, <1>7, <1>8, <1>9 DEF LinkNext, LinkMain

\* What LinkSettles rests on: however often the cable is pulled, whenever the handler of an
\* address event comes, and wherever the driver preempts main, only a report that comes inside
\* main's callback is undone by it.
THEOREM LinkIsShown == LinkSpec => []LinkShown
<1>1. LinkInit => LinkTypeOK /\ LinkRead /\ LinkShown
  <2>1. LinkInit => /\ link \in BOOLEAN /\ reported \in BOOLEAN /\ last_state \in BOOLEAN
                    /\ is_up \in BOOLEAN /\ overtaken \in BOOLEAN /\ AddrTypeOK
    BY Zenon DEF LinkInit, AddrInit, AddrTypeOK
  <2> QED
    BY <2>1 DEF LinkInit, LinkTypeOK, LinkRead, LinkShown
<1>2. LinkTypeOK /\ UNCHANGED linkVars => LinkTypeOK'
  BY DEF LinkTypeOK, AddrTypeOK, linkVars, linkOwn, mainOwn, addrVars
<1> QED
  BY <1>1, <1>2, LinkNextType, LinkShownNext, PTL DEF LinkSpec

-----------------------------------------------------------------------------
(* HttpClient with Tls: _10 takes the steps of _09, and the options of its socket. *)

\* A step of _10 is a step that HttpProofs knows, or the start of the requests.
LEMMA HttpsSteps ==
  ASSUME Https!HttpNext
  PROVE  \/ EnterWait \/ TakeNetwork \/ ConnectedHandled \/ CarrierChanges
         \/ /\ httpPc = "network" /\ httpPc' \in {"setup", "end"}
            /\ UNCHANGED <<method, http_sock, validIp, asked, answer, netState, tableVars>>
         \/ /\ httpPc = "setup" /\ setup_tls_socket
            /\ UNCHANGED <<method, validIp, asked, answer, netState>>
         \/ SetTlsOptions \/ Connecting \/ SendRequest \/ ResponsePart \/ RequestFails
         \/ FinishRequest
<1>1. \/ Https!EnterWait \/ Https!TakeNetwork \/ Https!ConnectedHandled \/ Https!CarrierChanges
      \/ Https!StartRequests
      \/ /\ httpPc = "setup" /\ Https!setup_tls_socket
         /\ UNCHANGED <<method, validIp, asked, answer, Https!netState>>
      \/ Https!SetTlsOptions \/ Https!Connecting \/ Https!SendRequest \/ Https!ResponsePart
      \/ Https!RequestFails \/ Https!FinishRequest
  BY DEF Https!HttpNext, Https!main_09, Https!main_10, Https!wait_for_network_09, Https!wait_for_network_10,
         Https!connect_socket, Https!connect_tls_socket, Https!response_cb_09, Https!response_cb_10,
         Https!Requests, Https!L4Handler, Https!l4_event_handler_09, Https!l4_event_handler_10
<1> USE DEF Https!netState, netState, Https!tableVars, tableVars, Https!httpOwn, httpOwn,
            Https!Fds, Fds, Https!None, None, Https!Create, Create, Https!Use, Use, Https!Close, Close
<1>2. /\ Https!EnterWait => EnterWait
      /\ Https!TakeNetwork => TakeNetwork
      /\ Https!ConnectedHandled => ConnectedHandled
      /\ Https!CarrierChanges => CarrierChanges
  BY Zenon
  DEF Https!EnterWait, EnterWait, Https!TakeNetwork, TakeNetwork, Https!ConnectedHandled, ConnectedHandled,
      Https!CarrierChanges, CarrierChanges, Https!assign_static_ip_09, Https!assign_static_ip_10,
      Https!Assign, assign_static_ip_09, assign_static_ip_10, Assign
<1>3. Https!StartRequests =>
        /\ httpPc = "network" /\ httpPc' \in {"setup", "end"}
        /\ UNCHANGED <<method, http_sock, validIp, asked, answer, netState, tableVars>>
  BY DEF Https!StartRequests
<1>4. /\ Https!setup_tls_socket => setup_tls_socket
      /\ Https!SetTlsOptions => SetTlsOptions
      /\ Https!Connecting => Connecting
  BY DEF Https!setup_tls_socket, setup_tls_socket, Https!SetTlsOptions, SetTlsOptions,
              Https!Connecting, Connecting
<1>5. /\ Https!SendRequest => SendRequest
      /\ Https!ResponsePart => ResponsePart
      /\ Https!RequestFails => RequestFails
      /\ Https!FinishRequest => FinishRequest
  BY DEF Https!SendRequest, SendRequest, Https!ResponsePart, ResponsePart, Https!RequestFails,
              RequestFails, Https!FinishRequest, FinishRequest, Https!NextRequest, NextRequest
<1> QED
  BY Zenon, <1>1, <1>2, <1>3, <1>4, <1>5

\* _10 keeps the invariant of the requests.
LEMMA HttpsNextInv == HttpInv /\ Https!HttpNext => HttpInv'
<1> SUFFICES ASSUME HttpInv, Https!HttpNext PROVE HttpInv'
  OBVIOUS
<1>1. CASE EnterWait \/ TakeNetwork \/ ConnectedHandled \/ CarrierChanges
  BY Zenon, <1>1, WaitKeeps
<1>2. CASE /\ httpPc = "network" /\ httpPc' \in {"setup", "end"}
           /\ UNCHANGED <<method, http_sock, validIp, asked, answer, netState, tableVars>>
  <2>1. NetTypes' /\ network_connected' \in 0..1
    BY <1>2 DEF HttpInv, HttpTypeOK, NetTypes, netState
  <2> QED
    BY <1>2, <2>1, NetworkKeeps DEF tableVars
<1>3. CASE /\ httpPc = "setup" /\ setup_tls_socket
           /\ UNCHANGED <<method, validIp, asked, answer, netState>>
  BY Zenon, <1>3, SetupKeeps
<1>4. CASE SetTlsOptions \/ Connecting
  BY Zenon, <1>4, ConnectKeeps
<1>5. CASE ResponsePart \/ RequestFails
  BY Zenon, <1>5, AnswerKeeps
<1> QED
  BY Zenon, HttpsSteps, <1>1, <1>2, <1>3, <1>4, <1>5, RequestKeeps, FinishKeeps

\* And it waits for the network as _09 does.
LEMMA HttpsWait == NetWaitInv /\ Https!HttpNext => NetWaitInv'
<1> SUFFICES ASSUME NetWaitInv, Https!HttpNext PROVE NetWaitInv'
  OBVIOUS
<1>1. CASE /\ httpPc = "network" /\ httpPc' \in {"setup", "end"}
           /\ UNCHANGED <<method, http_sock, validIp, asked, answer, netState, tableVars>>
  BY <1>1 DEF NetWaitInv, NetworkPending, netState
<1> QED
  BY Zenon, HttpsSteps, <1>1, WaitHears, RequestsGoOn
-----------------------------------------------------------------------------
(* The samples together *)

\* Every variable has its type, whichever program runs; the program that runs keeps its own
\* invariant, and it is the only one that touches the descriptors and the address.
SamplesInv ==
  /\ program \in {"link", "tcp_client", "tcp_server", "udp", "http", "https", "http_server"}
  /\ LinkTypeOK /\ CliTypeOK /\ SrvTypeOK /\ UdpTypeInv /\ HttpTypeOK /\ HsTypeOK
  /\ misused = FALSE
  /\ EchoedInOrder /\ AnswersItsRequest /\ HsInv
  /\ AddressPending /\ NetWaitInv
  /\ program = "link" => LinkInv
  /\ program = "tcp_client" => CliInv
  /\ program = "tcp_server" => IInv
  /\ program = "udp" => UdpInv
  /\ program \in {"http", "https"} => HttpInv

\* A program that does not run keeps its types.
LEMMA IdleTypes ==
  ASSUME SharedTypeOK'
  PROVE  /\ LinkTypeOK /\ UNCHANGED linkOwn => LinkTypeOK'
         /\ CliTypeOK /\ UNCHANGED cliOwn => CliTypeOK'
         /\ SrvTypeOK /\ UNCHANGED srvOwn => SrvTypeOK'
         /\ UdpTypeInv /\ UNCHANGED udpOwn => UdpTypeInv'
         /\ HttpTypeOK /\ UNCHANGED <<httpOwn, netState>> => HttpTypeOK'
         /\ HsTypeOK /\ UNCHANGED hsVars => HsTypeOK'
         /\ EchoedInOrder /\ UNCHANGED srvOwn => EchoedInOrder'
         /\ AnswersItsRequest /\ UNCHANGED <<httpOwn, netState>> => AnswersItsRequest'
         /\ HsInv /\ UNCHANGED hsVars => HsInv'
         /\ NetWaitInv /\ UNCHANGED <<httpOwn, netState>> => NetWaitInv'
<1> USE DEF SharedTypeOK
<1>1. LinkTypeOK /\ UNCHANGED linkOwn => LinkTypeOK'
  BY DEF LinkTypeOK, linkOwn, mainOwn
<1>2. CliTypeOK /\ UNCHANGED cliOwn => CliTypeOK'
  BY DEF CliTypeOK, cliOwn
<1>3. SrvTypeOK /\ UNCHANGED srvOwn => SrvTypeOK'
  BY DEF SrvTypeOK, srvOwn
<1>4. UdpTypeInv /\ UNCHANGED udpOwn => UdpTypeInv'
  BY DEF UdpTypeInv, UdpTypeOK, PacketsNumbered, udpOwn
<1>5. HttpTypeOK /\ UNCHANGED <<httpOwn, netState>> => HttpTypeOK'
  BY DEF HttpTypeOK, httpOwn, netState
<1>6. HsTypeOK /\ UNCHANGED hsVars => HsTypeOK'
  BY DEF HsTypeOK, hsVars
<1>7. EchoedInOrder /\ UNCHANGED srvOwn => EchoedInOrder'
  BY DEF EchoedInOrder, srvOwn
<1>8. AnswersItsRequest /\ UNCHANGED <<httpOwn, netState>> => AnswersItsRequest'
  BY DEF AnswersItsRequest, httpOwn
<1>9. HsInv /\ UNCHANGED hsVars => HsInv'
  BY HsNextInv
<1>10. NetWaitInv /\ UNCHANGED <<httpOwn, netState>> => NetWaitInv'
  BY DEF NetWaitInv, NetworkPending, httpOwn, netState
<1> QED
  BY <1>1, <1>2, <1>3, <1>4, <1>5, <1>6, <1>7, <1>8, <1>9, <1>10

\* The invariant holds at the start of each program.
LEMMA SamplesInitInv == Init => SamplesInv
<1> SUFFICES ASSUME Init PROVE SamplesInv
  OBVIOUS
<1>1. SrvTypeOK /\ IInv /\ EchoedInOrder
  BY InitIInv, EchoesTaken DEF Init, IInv
<1>2. SharedTypeOK /\ misused = FALSE
  BY <1>1 DEF SrvTypeOK, SharedTypeOK, Init, SrvInit, TableInit
<1>3. LinkTypeOK
  <2>1. link \in BOOLEAN /\ reported \in BOOLEAN /\ last_state \in BOOLEAN
    BY Zenon DEF Init, LinkInit
  <2> QED
    BY <1>2, <2>1 DEF Init, LinkInit, LinkTypeOK, SharedTypeOK
<1>4. CliTypeOK /\ CliInv
  <2>1. valid \in BOOLEAN /\ serverUp \in BOOLEAN
    BY Zenon DEF Init, CliInit
  <2>2. CliTypeOK
    BY <1>2, <2>1, TcpClientAssumption DEF Init, CliInit, CliTypeOK, SharedTypeOK, None
  <2> QED
    BY <2>2, CliInitInv DEF Init
<1>5. UdpTypeInv /\ UdpInv
  <2>1. datagrams \in Seq(0..MaxDatagram)
    BY DEF Init, UdpInit
  <2>2. sender \in BOOLEAN /\ goodAddr \in BOOLEAN
    BY Zenon DEF Init, UdpInit
  <2>3. UdpTypeInv
    BY <1>2, <2>1, <2>2, UdpAssumption
    DEF Init, UdpInit, UdpTypeInv, UdpTypeOK, PacketsNumbered, SharedTypeOK, None
  <2> QED
    BY <2>3, UdpInitInv DEF Init
<1>6. HttpTypeOK /\ HttpInv /\ AnswersItsRequest
  BY HttpInitInv DEF Init, HttpInv
<1>7. HsTypeOK /\ HsInv
  BY HsInitInv DEF Init, HsInv
<1>8. LinkInv /\ NetWaitInv
  BY DEF Init, LinkInit, AddrInit, HttpInit, LinkInv, LinkHears, CallbackSet, AddressPending, NetWaitInv,
         NetworkPending
<1> QED
  BY <1>1, <1>2, <1>3, <1>4, <1>5, <1>6, <1>7, <1>8 DEF Init, SamplesInv, LinkInv

\* A step of one program.
LEMMA SamplesStep == SamplesInv /\ Next => SamplesInv'
<1> SUFFICES ASSUME SamplesInv, Next PROVE SamplesInv'
  OBVIOUS
<1>1. program' = program /\ Others
  BY DEF Next, Others
<1>8. UNCHANGED addrVars => AddressPending'
  BY DEF SamplesInv, AddressPending, addrVars
<1>2. CASE program = "link" /\ LinkNext /\ UNCHANGED tableVars
  <2>1. LinkTypeOK'
    BY <1>2, LinkNextType DEF SamplesInv
  <2>3. LinkInv'
    BY <1>2, LinkNextInv DEF SamplesInv
  <2>2. SharedTypeOK' /\ misused' = FALSE
    BY <1>2, <2>1 DEF SamplesInv, CliTypeOK, LinkTypeOK, SharedTypeOK, tableVars
  <2> QED
    BY <1>1, <1>2, <2>1, <2>2, <2>3, IdleTypes DEF Others, SamplesInv, LinkInv
<1>3. CASE program = "tcp_client" /\ CliNext
  <2>4. AddressPending'
    BY <1>3, AddrSteps, AddrKeeps DEF SamplesInv
  <2>1. CliTypeOK' /\ CliInv'
    BY <1>3, CliNextType, CliNextInv DEF SamplesInv
  <2>2. SharedTypeOK' /\ misused' = FALSE
    BY <2>1 DEF CliTypeOK, SharedTypeOK, CliInv
  <2> QED
    BY <1>1, <1>3, <2>1, <2>2, <2>4, IdleTypes DEF Others, SamplesInv
<1>4. CASE program = "tcp_server" /\ SrvNext
  <2>4. AddressPending'
    BY <1>4, AddrSteps, AddrKeeps DEF SamplesInv
  <2>1. IInv' /\ SrvTypeOK'
    BY <1>4, NextIInv DEF SamplesInv, IInv
  <2>3. IInv' => EchoedInOrder'
    BY EchoesTaken, PTL
  <2>2. SharedTypeOK' /\ misused' = FALSE
    BY <2>1 DEF SrvTypeOK, SharedTypeOK, IInv, SocketInv
  <2> QED
    BY <1>1, <1>4, <2>1, <2>2, <2>3, <2>4, IdleTypes DEF Others, SamplesInv
<1>5. CASE program = "udp" /\ UdpNext
  <2>4. AddressPending'
    BY <1>5, AddrSteps, AddrKeeps DEF SamplesInv
  <2>1. UdpTypeInv' /\ UdpInv'
    BY <1>5, UdpNextType, UdpNextInv DEF SamplesInv
  <2>2. SharedTypeOK' /\ misused' = FALSE
    BY <2>1 DEF UdpTypeInv, UdpTypeOK, SharedTypeOK, UdpInv
  <2> QED
    BY <1>1, <1>5, <2>1, <2>2, <2>4, IdleTypes DEF Others, SamplesInv
<1>6. CASE /\ (program = "http" /\ HttpNext) \/ (program = "https" /\ Https!HttpNext)
           /\ UNCHANGED addrVars
  <2>1. HttpInv' /\ HttpTypeOK' /\ AnswersItsRequest'
    BY <1>6, HttpNextInv, HttpsNextInv DEF SamplesInv, HttpInv
  <2>3. NetWaitInv'
    BY <1>6, NetWaitNext, HttpsWait DEF SamplesInv
  <2>2. SharedTypeOK' /\ misused' = FALSE
    BY <1>6, <2>1 DEF SamplesInv, CliTypeOK, AddrTypeOK, addrVars, HttpTypeOK, SharedTypeOK, HttpInv,
                      HttpSocketInv
  <2> QED
    BY <1>1, <1>6, <1>8, <2>1, <2>2, <2>3, IdleTypes DEF Others, SamplesInv
<1>7. CASE program = "http_server" /\ HsNext /\ UNCHANGED <<tableVars, addrVars>>
  <2>1. HsInv' /\ HsTypeOK'
    BY <1>7, HsNextInv DEF SamplesInv, HsInv
  <2>2. SharedTypeOK' /\ misused' = FALSE
    BY <1>7 DEF SamplesInv, CliTypeOK, AddrTypeOK, addrVars, tableVars, SharedTypeOK
  <2> QED
    BY <1>1, <1>7, <1>8, <2>1, <2>2, IdleTypes DEF Others, SamplesInv
<1> QED
  BY <1>2, <1>3, <1>4, <1>5, <1>6, <1>7 DEF Next

\* A step in which nothing happens.
LEMMA SamplesStutter == SamplesInv /\ UNCHANGED vars => SamplesInv'
<1> SUFFICES ASSUME SamplesInv, UNCHANGED vars PROVE SamplesInv'
  OBVIOUS
<1>1. SharedTypeOK' /\ misused' = FALSE
  BY DEF SamplesInv, CliTypeOK, AddrTypeOK, SharedTypeOK, vars, tableVars, addrVars
<1>2. CliInv /\ program = "tcp_client" => CliInv'
  BY CliNextInv DEF vars, cliVars
<1>3. IInv /\ program = "tcp_server" => IInv'
  BY NextIInv DEF vars, srvVars
<1>4. UdpInv /\ program = "udp" => UdpInv'
  BY UdpNextInv DEF vars, udpVars
<1>5. HttpInv => HttpInv'
  BY HttpNextInv DEF vars, httpVars
<1>6. AddressPending' /\ (LinkInv => LinkInv')
  BY DEF SamplesInv, AddressPending, LinkInv, LinkHears, CallbackSet, vars, addrVars, linkOwn
<1> QED
  BY <1>1, <1>2, <1>3, <1>4, <1>5, <1>6, IdleTypes DEF SamplesInv, vars

\* Type correctness of all networking samples, for every value of the constants: whichever
\* program runs, what a call returned is a length its buffer has room for.
THEOREM SocketTypesCorrect == Spec => []TypesOK
<1>1. SamplesInv => TypesOK
  BY DEF SamplesInv, UdpTypeInv, TypesOK
<1>2. SamplesInv /\ [Next]_vars => SamplesInv'
  BY SamplesStep, SamplesStutter
<1> QED
  BY <1>1, <1>2, SamplesInitInv, PTL DEF Spec

\* Whatever call fails, the program that runs holds the sockets it still needs and no other, and
\* never uses or closes a descriptor that is not open.
THEOREM AllBalanced == Spec => []SocketsBalanced
<1>1. SamplesInv => SocketsBalanced
  BY DEF SamplesInv, SocketsBalanced, CliInv, IInv, SocketInv, UdpInv, HttpInv, HttpSocketInv
<1>2. SamplesInv /\ [Next]_vars => SamplesInv'
  BY SamplesStep, SamplesStutter
<1> QED
  BY <1>1, <1>2, SamplesInitInv, PTL DEF Spec

\* The samples as MCSockets runs them, HTTP with TLS and without: a client of the server gets its
\* own bytes back in order, an answer that is printed belongs to the request that is being made,
\* and /echo sends back the whole body.
THEOREM SocketsHold == Spec => [](EchoedInOrder /\ AnswersItsRequest /\ EchoWhole)
<1>1. SamplesInv => EchoedInOrder /\ AnswersItsRequest /\ EchoWhole
  BY WholeBody DEF SamplesInv
<1>2. SamplesInv /\ [Next]_vars => SamplesInv'
  BY SamplesStep, SamplesStutter
<1> QED
  BY <1>1, <1>2, SamplesInitInv, PTL DEF Spec

\* Nothing is awaited in vain: an address that was not printed has its event on the way to a
\* handler, and so has a network that main waits for, whichever program runs.
THEOREM WaitersAreWoken == Spec => []EventsPending
<1>1. SamplesInv => EventsPending
  BY DEF SamplesInv, NetWaitInv, EventsPending
<1>2. SamplesInv /\ [Next]_vars => SamplesInv'
  BY SamplesStep, SamplesStutter
<1> QED
  BY <1>1, <1>2, SamplesInitInv, PTL DEF Spec
=============================================================================
