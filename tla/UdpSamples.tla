----------------------------- MODULE UdpSamples -----------------------------
(***************************************************************************)
(* networking/ETHERNET/_07_udp_sender sends Packets numbered datagrams and *)
(* ends; _08_udp_receiver prints what arrives at its port until recvfrom   *)
(* fails.  One of the two runs.                                            *)
(***************************************************************************)
EXTENDS SocketTable, StaticAddress, Sequences

CONSTANTS Packets,      \* 10, the loop of udp_send_packets
          BUFFER_SIZE,
          MaxDatagram   \* bound: the longest datagram that arrives

ASSUME UdpAssumption == Packets \in Nat /\ BUFFER_SIZE \in Nat \ {0} /\ MaxDatagram \in Nat

VARIABLES
  udpPc, sender,        \* sender: _07 is the program
  sock,                 \* udp_socket of _07, sock of _08
  goodAddr,             \* SERVER_ADDR is an address
  packet_count, packet_i,
  udpReceived,
  datagrams             \* lengths of the datagrams that wait at the port; at most two

udpOwn  == <<udpPc, sender, sock, goodAddr, packet_count, packet_i, udpReceived, datagrams>>
udpVars == <<udpOwn, tableVars, addrVars>>

UdpInit ==
  /\ TableInit /\ AddrInit
  /\ udpPc = "start" /\ sender \in BOOLEAN /\ sock = None /\ goodAddr \in BOOLEAN
  /\ packet_count = 0 /\ packet_i = 0 /\ udpReceived = 0 /\ datagrams = <<>>

assign_static_ip_07 == RegisterThenAssign
assign_static_ip_08 == RegisterThenAssign

main_07 ==
  /\ sender /\ udpPc = "start"
  /\ \/ udpPc' = "end" /\ UNCHANGED addrVars
     \/ udpPc' = "create" /\ assign_static_ip_07
  /\ UNCHANGED <<sender, sock, goodAddr, packet_count, packet_i, udpReceived, datagrams, tableVars>>

main_08 ==
  /\ ~sender /\ udpPc = "start"
  /\ \/ udpPc' = "end" /\ UNCHANGED addrVars
     \/ udpPc' = "create" /\ assign_static_ip_08
  /\ UNCHANGED <<sender, sock, goodAddr, packet_count, packet_i, udpReceived, datagrams, tableVars>>

\* The handlers print that the address was added, without looking at it again.
AddedPrinted ==
  /\ addrEvent
  /\ addrEvent' = FALSE /\ announced' = TRUE
  /\ UNCHANGED <<ipv4, address, listening>>

ip_event_handler_07 == sender /\ AddedPrinted /\ UNCHANGED <<udpOwn, tableVars>>
ip_event_handler_08 == ~sender /\ AddedPrinted /\ UNCHANGED <<udpOwn, tableVars>>

CreateUdp ==
  /\ udpPc = "create"
  /\ \E fd \in Fds \cup {None} :
       /\ Create(fd) /\ sock' = fd
       /\ udpPc' = IF fd = None THEN "end" ELSE IF sender THEN "address" ELSE "bind"
  /\ UNCHANGED <<sender, goodAddr, packet_count, packet_i, udpReceived, datagrams, addrVars>>

UdpClosed(s) == Close(sock) /\ sock' = s /\ udpPc' = "end"

ConvertUdpAddress ==
  /\ udpPc = "address"
  /\ IF goodAddr THEN udpPc' = "connect" /\ UNCHANGED <<sock, tableVars>> ELSE UdpClosed(sock)
  /\ UNCHANGED <<sender, goodAddr, packet_count, packet_i, udpReceived, datagrams, addrVars>>

ConnectUdp ==
  /\ udpPc = "connect"
  /\ \/ Use(sock) /\ udpPc' = "send" /\ UNCHANGED sock
     \/ UdpClosed(None)
  /\ UNCHANGED <<sender, goodAddr, packet_count, packet_i, udpReceived, datagrams, addrVars>>

SendPacket ==
  /\ udpPc = "send" /\ packet_i < Packets
  /\ packet_count' = packet_count + 1
  /\ Use(sock)
  /\ \/ packet_i' = packet_i + 1 /\ UNCHANGED udpPc
     \/ udpPc' = "close" /\ UNCHANGED packet_i
  /\ UNCHANGED <<sender, sock, goodAddr, udpReceived, datagrams, addrVars>>

CloseSender ==
  /\ udpPc = "close" \/ (udpPc = "send" /\ packet_i = Packets)
  /\ UdpClosed(None)
  /\ UNCHANGED <<sender, goodAddr, packet_count, packet_i, udpReceived, datagrams, addrVars>>

udp_send_packets ==
  sender /\ (CreateUdp \/ ConvertUdpAddress \/ ConnectUdp \/ SendPacket \/ CloseSender)

BindUdp ==
  /\ udpPc = "bind"
  /\ \/ Use(sock) /\ udpPc' = "recv" /\ UNCHANGED sock
     \/ UdpClosed(sock)
  /\ UNCHANGED <<sender, goodAddr, packet_count, packet_i, udpReceived, datagrams, addrVars>>

\* What is longer than the buffer is cut; an empty datagram is skipped; a failure ends the loop.
ReceiveUdp ==
  /\ udpPc = "recv"
  /\ Use(sock)
  /\ \/ /\ datagrams # <<>>
        /\ udpReceived' = IF Head(datagrams) < BUFFER_SIZE THEN Head(datagrams) ELSE BUFFER_SIZE - 1
        /\ udpPc' = IF udpReceived' = 0 THEN "recv" ELSE "print"
        /\ datagrams' = Tail(datagrams)
     \/ udpReceived' = None /\ udpPc' = "failed" /\ UNCHANGED datagrams
  /\ UNCHANGED <<sender, sock, goodAddr, packet_count, packet_i, addrVars>>

PrintDatagram ==
  /\ udpPc = "print"
  /\ udpPc' = "recv"
  /\ UNCHANGED <<sender, sock, goodAddr, packet_count, packet_i, udpReceived, datagrams, tableVars, addrVars>>

CloseReceiver ==
  /\ udpPc = "failed"
  /\ UdpClosed(sock)
  /\ UNCHANGED <<sender, goodAddr, packet_count, packet_i, udpReceived, datagrams, addrVars>>

udp_receive ==
  ~sender /\ (CreateUdp \/ BindUdp \/ ReceiveUdp \/ PrintDatagram \/ CloseReceiver)

DatagramArrives ==
  /\ ~sender /\ udpPc \in {"recv", "print"} /\ Len(datagrams) < 2
  /\ \E n \in 0..MaxDatagram : datagrams' = Append(datagrams, n)
  /\ UNCHANGED <<udpPc, sender, sock, goodAddr, packet_count, packet_i, udpReceived, tableVars, addrVars>>

UdpMain == main_07 \/ main_08 \/ udp_send_packets \/ udp_receive
UdpHandler == ip_event_handler_07 \/ ip_event_handler_08
UdpNext == UdpMain \/ UdpHandler \/ DatagramArrives

\* The thread of net_mgmt runs.
UdpFairness == WF_udpVars(UdpHandler)
UdpSpec == UdpInit /\ [][UdpNext]_udpVars /\ UdpFairness
-----------------------------------------------------------------------------
\* Type correctness.
UdpTypeOK ==
  /\ udpPc \in {"start", "create", "address", "connect", "send", "close",
                "bind", "recv", "print", "failed", "end"}
  /\ sender \in BOOLEAN /\ sock \in Fds \cup {None} /\ goodAddr \in BOOLEAN
  /\ packet_count \in 0..Packets /\ packet_i \in 0..Packets /\ udpReceived \in -1..(BUFFER_SIZE - 1)
  /\ datagrams \in Seq(0..MaxDatagram)
  /\ open \subseteq Fds /\ misused \in BOOLEAN /\ AddrTypeOK

\* Whatever fails, the one socket is closed when main returns, and not before.
UdpBalanced == open = IF udpPc \in {"start", "create", "end"} THEN {} ELSE {sock}
=============================================================================
